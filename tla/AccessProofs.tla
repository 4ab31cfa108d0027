----------------------------- MODULE AccessProofs -----------------------------
(***************************************************************************)
(* Proofs about Access: who reaches a handler, and who is denied, for any  *)
(* caller, any chain of middlewares and any answers of core.  The modules  *)
(* that add middlewares and handlers reuse the lemmas on single steps.     *)
(***************************************************************************)
EXTENDS Access, TLAPS

\* The i-th middleware of route t, if it asks for roles, finds caller c with
\* one that is not a student's.
OtherRole(c, t, i) ==
    i # 0 /\ t.chain[i].kind = "authenticate" =>
        \E role \in t.chain[i].allowed \ {CourseStudent} : holds(c, t, role)

\* What is known of a request in stage s at middleware i of route t, sent by
\* caller c, with u the TokenUser of its context and p whether that holds the
\* participation of the caller.
Sound(s, i, c, t, u, p) ==
    /\ s = "idle" => i = 0 /\ u = NoUser /\ ~p
    /\ s # "idle" =>
          /\ c \in Callers /\ t \in Routes /\ i \in 0 .. Len(t.chain)
          /\ u.roles = IF u.present THEN checkKeycloakRoles(c) ELSE {}
          /\ u.isLecturer => <<Course, CourseLecturer>> \in u.roles
          /\ \A j \in 1 .. i : j < i \/ s \in {"chain", "handler", "writing", "done"} =>
                cleared(c, t, j)
          /\ p => s \in {"aborted", "panicked"} \/ c.student = "phase"
    /\ s \in {"handler", "writing", "done"} => i = Len(t.chain)
    /\ s \in {"chain", "handler", "writing", "done"} => p \/ OtherRole(c, t, i)
    /\ s \in Authorizing =>
          /\ i # 0 /\ u.present /\ c.credential \in {"valid", "otherAudience"}
          /\ t.chain[i].kind = "authenticate"
    /\ s = "courseLookup" =>
          \A role \in t.chain[i].allowed \cap {PromptAdmin, PromptLecturer} : ~holds(c, t, role)
    /\ s = "studentLookup" =>
          /\ CourseStudent \in t.chain[i].allowed
          /\ \A role \in t.chain[i].allowed \ {CourseStudent} : ~holds(c, t, role)

SoundAt(r) ==
    Sound(stage[r], index[r], caller[r], route[r], tokenUser[r], participation[r])

AccessInv == AccessTypeOK /\ \A r \in Requests : SoundAt(r)

----------------------------------------------------------------------------
(* Operators. *)

LEMMA RolesTyped ==
    ASSUME NEW c \in Callers PROVE checkKeycloakRoles(c) \subseteq RoleNames
BY CallersAssumption DEF checkKeycloakRoles

LEMMA ChainTyped ==
    ASSUME NEW t \in Routes PROVE t.chain \in Seq(Middlewares) /\ t.prefix \in {"", Course}
BY RoutesAssumption

LEMMA MiddlewareTyped ==
    ASSUME NEW t \in Routes, NEW i \in 1 .. Len(t.chain)
    PROVE  t.chain[i] \in Middlewares /\ t.chain[i].allowed \subseteq Roles
<1>1. \A s \in Seq(Middlewares) : \A j \in 1 .. Len(s) : s[j] \in Middlewares
  OBVIOUS
<1>2. t.chain[i] \in Middlewares
  BY <1>1, ChainTyped
<1> QED
  BY <1>2 DEF Middlewares

LEMMA LengthTyped ==
    ASSUME NEW t \in Routes PROVE Len(t.chain) \in Nat
<1>1. \A s \in Seq(Middlewares) : Len(s) \in Nat
  OBVIOUS
<1> QED
  BY <1>1, ChainTyped

\* A direct grant is held, and so is a course grant after a lookup that
\* answered: the mapping is then the one of the course.
LEMMA DirectHeld ==
    ASSUME NEW c, NEW t, NEW allowed, NEW role \in {PromptAdmin, PromptLecturer}
    PROVE  checkDirectRole(role, allowed, checkKeycloakRoles(c)) <=> role \in allowed /\ holds(c, t, role)
BY DEF checkDirectRole, holds, isCustomRole, builtInRoles, PromptAdmin, PromptLecturer,
       CourseLecturer, CourseEditor, CourseStudent

LEMMA MappingAnswered ==
    ASSUME NEW r, NEW answer \in CoreAnswers,
           SendCoursePhaseRoleMappingRequest(r, answer).error = None
    PROVE  SendCoursePhaseRoleMappingRequest(r, answer).value =
              [lecturer |-> <<Course, CourseLecturer>>, editor |-> <<Course, CourseEditor>>,
               prefix |-> route[r].prefix]
BY DEF SendCoursePhaseRoleMappingRequest, failure, None, CoreAnswers

LEMMA CourseHeld ==
    ASSUME NEW c, NEW t, NEW allowed \in SUBSET Roles, NEW u,
           u.roles = checkKeycloakRoles(c), u.prefix = t.prefix,
           u.isLecturer = (<<Course, CourseLecturer>> \in u.roles),
           u.isEditor = (<<Course, CourseEditor>> \in u.roles), t.phaseID = "set"
    PROVE  courseGrant(u, allowed) <=>
              \E role \in allowed \ {PromptAdmin, PromptLecturer, CourseStudent} : holds(c, t, role)
<1> USE DEF PromptAdmin, PromptLecturer, CourseLecturer, CourseEditor, CourseStudent
<1>1. \A role \in Roles : isCustomRole(role) <=> role = "Tutors"
  BY DEF isCustomRole, Roles, builtInRoles
<1>2. u.isLecturer <=> holds(c, t, CourseLecturer)
  BY DEF holds, isCustomRole, builtInRoles
<1>3. u.isEditor <=> holds(c, t, CourseEditor)
  BY DEF holds, isCustomRole, builtInRoles
<1>4. holds(c, t, "Tutors") <=> t.prefix # "" /\ <<t.prefix, "Tutors">> \in checkKeycloakRoles(c)
  BY DEF holds, isCustomRole, builtInRoles
<1>5. matchesCustomRole(u.prefix, allowed, u.roles) <=> "Tutors" \in allowed /\ holds(c, t, "Tutors")
  BY <1>1, <1>4 DEF matchesCustomRole
<1>6. allowed \ {PromptAdmin, PromptLecturer, CourseStudent} \subseteq {CourseLecturer, CourseEditor, "Tutors"}
  BY DEF Roles, builtInRoles
<1>7. {CourseLecturer, CourseEditor, "Tutors"} \cap {PromptAdmin, PromptLecturer, CourseStudent} = {}
  OBVIOUS
<1> QED
  BY <1>2, <1>3, <1>5, <1>6, <1>7 DEF courseGrant

LEMMA StudentAnswered ==
    ASSUME NEW r, NEW answer \in studentAnswers(r),
           SendIsStudentRequest(r, answer).error \in {None, "ErrNotStudentOfCourse"}
    PROVE  SendIsStudentRequest(r, answer).value = (caller[r].student = "phase")
<1>1. answer = "200" \/ answer = "403"
  BY DEF studentAnswers, CoreAnswers, SendIsStudentRequest, failure, None
<1>2. answer = "403" => caller[r].student = "no"
  BY DEF studentAnswers
<1> QED
  BY <1>1, <1>2 DEF SendIsStudentRequest, failure

----------------------------------------------------------------------------
(* Types. *)

LEMMA AccessTypes ==
    ASSUME AccessInv, NEW r \in Requests, AccessStep(r)
    PROVE  AccessTypeOK'
<1>0. AccessTypeOK /\ SoundAt(r)
  BY DEF AccessInv
<1> USE DEF AccessTypeOK, Stages, Authorizing
<1>1. CASE Arrive(r)
  <2>1. PICK c \in Callers : caller' = [caller EXCEPT ![r] = c]
    BY <1>1 DEF Arrive
  <2>2. PICK t \in Routes : route' = [route EXCEPT ![r] = t]
    BY <1>1 DEF Arrive
  <2>3. index[r] = 0 /\ status[r] = None
    BY <1>0, <1>1 DEF Arrive, SoundAt, Sound
  <2>4. 0 <= Len(t.chain)
    BY LengthTyped
  <2> QED
    BY <1>0, <1>1, <2>1, <2>2, <2>3, <2>4 DEF Arrive
<1>2. CASE EnterHandler(r)
  BY <1>0, <1>2 DEF EnterHandler
<1>3. ASSUME NEW kinds, next(r, kinds), UNCHANGED route,
             \E s \in Stages \ {"idle"} : stage' = [stage EXCEPT ![r] = s]
      PROVE  /\ index' \in [Requests -> Nat] /\ stage' \in [Requests -> Stages]
             /\ index'[r] # 0
             /\ \A q \in Requests : stage'[q] # "idle" => index'[q] <= Len(route'[q].chain)
             /\ \A q \in Requests : stage'[q] \in Authorizing => index'[q] # 0
  <2>1. route[r] \in Routes
    BY <1>0, <1>3 DEF next, SoundAt, Sound
  <2>2. Len(route[r].chain) \in Nat
    BY <2>1, LengthTyped
  <2> QED
    BY <1>0, <1>3, <2>2 DEF next
<1>4. CASE Reject(r)
  BY <1>0, <1>3, <1>4 DEF Reject, abort, next
<1>5. CASE PanicOnRoles(r)
  BY <1>0, <1>3, <1>5 DEF PanicOnRoles, next
<1>6. CASE Accept(r)
  <2> DEFINE user == [NoUser EXCEPT !.present = TRUE, !.roles = checkKeycloakRoles(caller[r])]
  <2>1. caller[r] \in Callers
    BY <1>0, <1>6 DEF Accept, next, SoundAt, Sound
  <2>2. user \in TokenUser
    BY <2>1, RolesTyped DEF NoUser, TokenUser
  <2>3. tokenUser' \in [Requests -> TokenUser]
    BY <1>0, <1>6, <2>2 DEF Accept
  <2>4. \E s \in {"authorize", "chain"} : stage' = [stage EXCEPT ![r] = s]
    BY <1>6 DEF Accept
  <2>5. stage[r] = "chain" /\ status' = status /\ UNCHANGED <<caller, route, resolved, participation>>
    BY <1>6 DEF Accept, next
  <2>6. /\ index' \in [Requests -> Nat] /\ stage' \in [Requests -> Stages]
        /\ \A q \in Requests : stage'[q] # "idle" => index'[q] <= Len(route'[q].chain)
        /\ \A q \in Requests : stage'[q] \in Authorizing => index'[q] # 0
    BY <1>3, <1>6, <2>4, <2>5 DEF Accept
  <2>7. \A q \in Requests : status'[q] # None => stage'[q] \in {"aborted", "panicked"}
    BY <1>0, <2>4, <2>5
  <2> QED
    BY <1>0, <2>3, <2>5, <2>6, <2>7
<1>7. CASE Authorize(r)
  <2>1. status[r] = None /\ stage[r] = "authorize"
    BY <1>0, <1>7 DEF Authorize
  <2>2. UNCHANGED <<index, caller, route, tokenUser, resolved, participation>>
    BY <1>7 DEF Authorize
  <2>3. \/ proceed(r) \/ abort(r, "403")
        \/ \E s \in {"courseLookup", "studentLookup"} :
              stage' = [stage EXCEPT ![r] = s] /\ UNCHANGED status
    BY <1>7 DEF Authorize, tryStudent
  <2>4. \E s \in {"chain", "aborted", "courseLookup", "studentLookup"}, c \in {None, "403"} :
            /\ stage' = [stage EXCEPT ![r] = s] /\ status' = [status EXCEPT ![r] = c]
            /\ c # None => s = "aborted"
    <3>1. status = [status EXCEPT ![r] = None]
      BY <1>0, <2>1
    <3> QED
      BY <2>3, <3>1 DEF proceed, abort
  <2> QED
    BY <1>0, <2>1, <2>2, <2>4
<1>8. CASE LookupWithoutPhase(r)
  BY <1>0, <1>8 DEF LookupWithoutPhase, abort
<1>9. CASE CourseLookup(r)
  <2>1. stage[r] = "courseLookup" /\ status[r] = None
    BY <1>0, <1>9 DEF CourseLookup
  <2>2. PICK answer \in CoreAnswers :
          LET result == SendCoursePhaseRoleMappingRequest(r, answer)
              user == [tokenUser[r] EXCEPT
                          !.isLecturer = result.value.lecturer \in tokenUser[r].roles,
                          !.isEditor = result.value.editor \in tokenUser[r].roles,
                          !.prefix = result.value.prefix]
          IN  \/ /\ result.error # None /\ abort(r, lookupStatus(result.error))
                 /\ UNCHANGED <<tokenUser, resolved>>
              \/ /\ result.error = None
                 /\ tokenUser' = [tokenUser EXCEPT ![r] = user]
                 /\ resolved' = [resolved EXCEPT ![r] = TRUE]
                 /\ IF courseGrant(user, allowedRoles(r)) THEN proceed(r) ELSE tryStudent(r)
    BY <1>9 DEF CourseLookup
  <2> DEFINE result == SendCoursePhaseRoleMappingRequest(r, answer)
             user == [tokenUser[r] EXCEPT
                          !.isLecturer = result.value.lecturer \in tokenUser[r].roles,
                          !.isEditor = result.value.editor \in tokenUser[r].roles,
                          !.prefix = result.value.prefix]
  <2> HIDE DEF result
  <2>3. CASE result.error # None
    <3>1. \E code \in {"401", "500"} : abort(r, code)
      BY <2>2, <2>3 DEF lookupStatus, result
    <3>2. UNCHANGED <<index, caller, route, participation, tokenUser, resolved>>
      BY <1>9, <2>2, <2>3 DEF CourseLookup, result
    <3> QED
      BY <1>0, <2>1, <3>1, <3>2 DEF abort
  <2>4. CASE result.error = None
    <3>0. result.value = [lecturer |-> <<Course, CourseLecturer>>,
                          editor |-> <<Course, CourseEditor>>, prefix |-> route[r].prefix]
      BY <2>2, <2>4, MappingAnswered DEF result
    <3>1. result.value.prefix = route[r].prefix
      BY <3>0
    <3>2. route[r].prefix \in {"", Course}
      BY <1>0, <2>1, ChainTyped DEF SoundAt, Sound
    <3>3. tokenUser[r] \in TokenUser
      BY <1>0
    <3>a. /\ (result.value.lecturer \in tokenUser[r].roles) \in BOOLEAN
          /\ (result.value.editor \in tokenUser[r].roles) \in BOOLEAN
      OBVIOUS
    <3>4. user \in TokenUser
      BY <3>a, <3>1, <3>2, <3>3 DEF TokenUser
    <3>5. /\ tokenUser' = [tokenUser EXCEPT ![r] = user]
          /\ resolved' = [resolved EXCEPT ![r] = TRUE]
          /\ proceed(r) \/ tryStudent(r)
      BY <2>2, <2>4 DEF result
    <3> HIDE DEF user
    <3>6. tokenUser' \in [Requests -> TokenUser]
      BY <1>0, <3>4, <3>5
    <3>7. UNCHANGED <<index, caller, route, participation>>
      BY <1>9 DEF CourseLookup
    <3>8. \/ proceed(r) \/ abort(r, "403")
          \/ stage' = [stage EXCEPT ![r] = "studentLookup"] /\ UNCHANGED status
      BY <3>5 DEF tryStudent
    <3>9. resolved' \in [Requests -> BOOLEAN]
      BY <1>0, <3>5
    <3> QED
      BY <1>0, <2>1, <3>6, <3>7, <3>8, <3>9 DEF proceed, abort
  <2> QED
    BY <2>3, <2>4
<1>10. CASE StudentLookup(r)
  <2>1. stage[r] = "studentLookup" /\ status[r] = None
    BY <1>0, <1>10 DEF StudentLookup
  <2>2. PICK answer \in studentAnswers(r) :
          LET result == SendIsStudentRequest(r, answer)
              known == result.error \in {None, "ErrNotStudentOfCourse"}
          IN  \/ /\ ~known /\ abort(r, lookupStatus(result.error))
                 /\ UNCHANGED <<tokenUser, participation>>
              \/ /\ known
                 /\ tokenUser' = [tokenUser EXCEPT ![r].isStudent = result.value]
                 /\ participation' = [participation EXCEPT ![r] = @ \/ result.error = None]
                 /\ IF grantStudent(r, result) THEN proceed(r) ELSE abort(r, "403")
    BY <1>10 DEF StudentLookup
  <2> DEFINE result == SendIsStudentRequest(r, answer)
  <2> HIDE DEF result
  <2>3. CASE result.error \notin {None, "ErrNotStudentOfCourse"}
    <3>1. \E code \in {"401", "500"} : abort(r, code)
      BY <2>2, <2>3 DEF lookupStatus, result
    <3>2. UNCHANGED <<index, caller, route, resolved, tokenUser, participation>>
      BY <1>10, <2>2, <2>3 DEF StudentLookup, result
    <3> QED
      BY <1>0, <2>1, <3>1, <3>2 DEF abort
  <2>4. CASE result.error \in {None, "ErrNotStudentOfCourse"}
    <3>1. result.value \in BOOLEAN
      BY <2>2, <2>4, StudentAnswered DEF result
    <3>2. tokenUser[r] \in TokenUser
      BY <1>0
    <3>3. [tokenUser[r] EXCEPT !.isStudent = result.value] \in TokenUser
      BY <3>1, <3>2 DEF TokenUser
    <3>4. /\ tokenUser' = [tokenUser EXCEPT ![r].isStudent = result.value]
          /\ participation' = [participation EXCEPT ![r] = @ \/ result.error = None]
          /\ proceed(r) \/ abort(r, "403")
      BY <2>2, <2>4 DEF result
    <3>5. tokenUser' \in [Requests -> TokenUser]
      <4>1. tokenUser' = [tokenUser EXCEPT ![r] = [@ EXCEPT !.isStudent = result.value]]
        BY <3>4
      <4> QED
        BY <1>0, <3>3, <4>1
    <3>6. participation' \in [Requests -> BOOLEAN]
      <4>1. (participation[r] \/ result.error = None) \in BOOLEAN
        OBVIOUS
      <4> QED
        BY <1>0, <3>4, <4>1
    <3>7. UNCHANGED <<index, caller, route, resolved>>
      BY <1>10 DEF StudentLookup
    <3> QED
      BY <1>0, <2>1, <3>4, <3>5, <3>6, <3>7 DEF proceed, abort
  <2> QED
    BY <2>3, <2>4
<1> QED
  BY <1>1, <1>2, <1>4, <1>5, <1>6, <1>7, <1>8, <1>9, <1>10 DEF AccessStep

----------------------------------------------------------------------------
(* Single steps. *)

\* Request r was denied by an AuthenticationMiddleware and holds none of its roles.
DeniedAt(r) ==
    status[r] = "403" /\ route[r].chain[index[r]].kind = "authenticate" =>
        \A role \in allowedRoles(r) : ~holds(caller[r], route[r], role)

\* Requests other than r stay as they are.
Others(r) ==
    \A q \in Requests \ {r} :
        /\ stage'[q] = stage[q] /\ index'[q] = index[q] /\ caller'[q] = caller[q]
        /\ route'[q] = route[q] /\ tokenUser'[q] = tokenUser[q] /\ status'[q] = status[q]
        /\ participation'[q] = participation[q]

LEMMA OthersKept ==
    ASSUME NEW r \in Requests, Others(r), NEW q \in Requests \ {r}
    PROVE  (SoundAt(q) => SoundAt(q)') /\ (DeniedAt(q) => DeniedAt(q)')
BY DEF Others, SoundAt, DeniedAt, allowedRoles

\* The middlewares passed so far stay cleared when the chain moves on.
LEMMA PassedOn ==
    ASSUME NEW i \in Nat, NEW c, NEW t, \A j \in 1 .. i : cleared(c, t, j)
    PROVE  \A j \in 1 .. i + 1 : j < i + 1 => cleared(c, t, j)
OBVIOUS

\* No direct grant: the caller holds neither global role of the list.
NoGlobal(c, t, i) ==
    \A role \in t.chain[i].allowed \cap {PromptAdmin, PromptLecturer} : ~holds(c, t, role)

\* What remains when no course role granted access either.
LEMMA StudentLeft ==
    ASSUME NEW c, NEW t, NEW allowed \in SUBSET Roles,
           \A role \in allowed \cap {PromptAdmin, PromptLecturer} : ~holds(c, t, role),
           \A role \in allowed \ {PromptAdmin, PromptLecturer, CourseStudent} : ~holds(c, t, role)
    PROVE  \A role \in allowed \ {CourseStudent} : ~holds(c, t, role)
OBVIOUS

\* A request that ended has nothing left to show, but for a denial.
LEMMA EndedSound ==
    ASSUME NEW i, NEW c, NEW t, NEW u, NEW p, NEW s \in {"aborted", "panicked"},
           c \in Callers, t \in Routes, i \in 0 .. Len(t.chain),
           u.roles = IF u.present THEN checkKeycloakRoles(c) ELSE {},
           u.isLecturer => <<Course, CourseLecturer>> \in u.roles,
           \A j \in 1 .. i : j < i => cleared(c, t, j)
    PROVE  Sound(s, i, c, t, u, p)
BY DEF Sound, Authorizing

\* A middleware the request is through with joins the ones passed.
LEMMA PassedSound ==
    ASSUME NEW i, NEW c, NEW t, NEW u, NEW p,
           p => c.student = "phase", p \/ OtherRole(c, t, i),
           c \in Callers, t \in Routes, i \in 0 .. Len(t.chain),
           u.roles = IF u.present THEN checkKeycloakRoles(c) ELSE {},
           u.isLecturer => <<Course, CourseLecturer>> \in u.roles,
           \A j \in 1 .. i : cleared(c, t, j)
    PROVE  Sound("chain", i, c, t, u, p)
BY DEF Sound, Authorizing

\* The decision of a step that ends an AuthenticationMiddleware: the request
\* is through with a role it holds, or denied holding none.
LEMMA Decided ==
    ASSUME AccessInv, NEW r \in Requests, stage[r] \in Authorizing,
           UNCHANGED <<index, caller, route>>,
           tokenUser' \in [Requests -> TokenUser],
           \A q \in Requests \ {r} : tokenUser'[q] = tokenUser[q],
           tokenUser'[r].present, tokenUser'[r].roles = tokenUser[r].roles,
           tokenUser'[r].isLecturer => <<Course, CourseLecturer>> \in tokenUser[r].roles,
           participation' \in [Requests -> BOOLEAN],
           \A q \in Requests \ {r} : participation'[q] = participation[q],
           \/ /\ proceed(r) /\ \E role \in allowedRoles(r) : holds(caller[r], route[r], role)
              /\ participation'[r] => caller[r].student = "phase"
              /\ participation'[r] \/ OtherRole(caller[r], route[r], index[r])
           \/ abort(r, "403") /\ \A role \in allowedRoles(r) : ~holds(caller[r], route[r], role)
           \/ \E code \in {"400", "401", "500"} : abort(r, code)
    PROVE  SoundAt(r)' /\ DeniedAt(r)' /\ Others(r)
<1>1. AccessTypeOK /\ SoundAt(r)
  BY DEF AccessInv
<1> DEFINE c == caller[r]  t == route[r]  i == index[r]  u == tokenUser'[r]
           p == participation'[r]
<1>2. /\ c \in Callers /\ t \in Routes /\ i \in 0 .. Len(t.chain) /\ i # 0
      /\ c.credential \in {"valid", "otherAudience"} /\ t.chain[i].kind = "authenticate"
      /\ \A j \in 1 .. i : j < i => cleared(c, t, j)
      /\ tokenUser[r].roles = checkKeycloakRoles(c)
  BY <1>1 DEF SoundAt, Sound, Authorizing
<1>3. Len(t.chain) \in Nat /\ i \in Nat
  BY <1>1, <1>2, LengthTyped DEF AccessTypeOK
<1>4. u.roles = (IF u.present THEN checkKeycloakRoles(c) ELSE {})
  BY <1>2
<1>5. Others(r)
  BY <1>1 DEF Others, proceed, abort, AccessTypeOK
<1>6. status[r] = None
  BY <1>1 DEF AccessTypeOK, Authorizing
<1>7. CASE /\ proceed(r) /\ \E role \in allowedRoles(r) : holds(caller[r], route[r], role)
           /\ p => c.student = "phase"
           /\ p \/ OtherRole(c, t, i)
  <2>1. cleared(c, t, i)
    BY <1>2, <1>7 DEF cleared, allowedRoles
  <2>2. \A j \in 1 .. i : cleared(c, t, j)
    BY <1>2, <1>3, <2>1
  <2>3. Sound("chain", i, c, t, u, p)
    BY <1>2, <1>4, <1>7, <2>2, PassedSound
  <2>4. stage'[r] = "chain" /\ status'[r] = None
    BY <1>1, <1>6, <1>7 DEF proceed, AccessTypeOK
  <2> QED
    BY <1>5, <2>3, <2>4 DEF SoundAt, DeniedAt, None
<1>8. CASE \E code \in {"400", "401", "403", "500"} : abort(r, code)
  <2>1. Sound("aborted", i, c, t, u, p)
    BY <1>2, <1>4, EndedSound
  <2>2. stage'[r] = "aborted"
    BY <1>1, <1>8 DEF abort, AccessTypeOK
  <2>3. status'[r] = "403" => \A role \in allowedRoles(r) : ~holds(c, t, role)
    BY <1>1, <1>6 DEF abort, proceed, AccessTypeOK, None
  <2> QED
    BY <1>5, <2>1, <2>2, <2>3 DEF SoundAt, DeniedAt, allowedRoles
<1> QED
  BY <1>7, <1>8

\* The step between two lookups: no role but that of a student is left.
LEMMA Deferred ==
    ASSUME AccessInv, NEW r \in Requests, stage[r] \in Authorizing,
           UNCHANGED <<index, caller, route, status, participation>>,
           tokenUser' \in [Requests -> TokenUser],
           \A q \in Requests \ {r} : tokenUser'[q] = tokenUser[q],
           tokenUser'[r].present, tokenUser'[r].roles = tokenUser[r].roles,
           tokenUser'[r].isLecturer => <<Course, CourseLecturer>> \in tokenUser[r].roles,
           NEW s \in {"courseLookup", "studentLookup"}, stage' = [stage EXCEPT ![r] = s],
           NoGlobal(caller[r], route[r], index[r]),
           s = "studentLookup" =>
              /\ CourseStudent \in allowedRoles(r)
              /\ \A role \in allowedRoles(r) \ {CourseStudent} : ~holds(caller[r], route[r], role)
    PROVE  SoundAt(r)' /\ DeniedAt(r)' /\ Others(r)
<1>1. AccessTypeOK /\ SoundAt(r)
  BY DEF AccessInv
<1>2. stage'[r] = s /\ status'[r] = None
  BY <1>1 DEF AccessTypeOK, Authorizing
<1>3. Sound(s, index[r], caller[r], route[r], tokenUser'[r], participation[r])
  BY <1>1 DEF SoundAt, Sound, Authorizing, NoGlobal, allowedRoles
<1>4. Others(r)
  BY <1>1 DEF Others, AccessTypeOK
<1> QED
  BY <1>2, <1>3, <1>4 DEF SoundAt, DeniedAt, None

LEMMA AuthorizeSound ==
    ASSUME AccessInv, NEW r \in Requests, Authorize(r)
    PROVE  SoundAt(r)' /\ DeniedAt(r)' /\ Others(r)
<1> DEFINE c == caller[r]  t == route[r]  allowed == allowedRoles(r)  roles == tokenUser[r].roles
           direct == \/ checkDirectRole(PromptAdmin, allowed, roles)
                     \/ checkDirectRole(PromptLecturer, allowed, roles)
<1>1. AccessTypeOK /\ SoundAt(r) /\ stage[r] \in Authorizing
  BY DEF AccessInv, Authorize, Authorizing
<1>2. /\ t \in Routes /\ index[r] \in 1 .. Len(t.chain) /\ tokenUser[r].present
      /\ roles = checkKeycloakRoles(c)
      /\ tokenUser[r].isLecturer => <<Course, CourseLecturer>> \in roles
  BY <1>1 DEF SoundAt, Sound, Authorizing
<1>3. allowed \subseteq Roles
  BY <1>2, MiddlewareTyped DEF allowedRoles
<1>4. /\ UNCHANGED <<index, caller, route, tokenUser, participation>>
      /\ tokenUser' \in [Requests -> TokenUser] /\ participation' \in [Requests -> BOOLEAN]
  BY <1>1 DEF Authorize, AccessTypeOK
<1>0. participation[r] => c.student = "phase"
  BY <1>1 DEF SoundAt, Sound, Authorizing
<1>5. direct <=> \E role \in allowed \cap {PromptAdmin, PromptLecturer} : holds(c, t, role)
  BY <1>2, DirectHeld
<1>6. CASE direct
  <2>1. proceed(r)
    BY <1>6 DEF Authorize
  <2>2. OtherRole(c, t, index[r])
    BY <1>5, <1>6 DEF OtherRole, allowedRoles, CourseStudent, PromptAdmin, PromptLecturer
  <2> QED
    BY <1>1, <1>2, <1>4, <1>5, <1>6, <1>0, <2>1, <2>2, Decided
<1>7. CASE ~direct /\ onlyContainsAdminAndLecturer(allowed)
  <2>1. abort(r, "403")
    BY <1>7 DEF Authorize
  <2>2. \A role \in allowed : ~holds(c, t, role)
    BY <1>5, <1>7 DEF onlyContainsAdminAndLecturer
  <2> QED
    BY <1>1, <1>2, <1>4, <2>1, <2>2, Decided
<1>8. CASE ~direct /\ ~onlyContainsAdminAndLecturer(allowed)
  <2>0. NoGlobal(c, t, index[r])
    BY <1>5, <1>8 DEF NoGlobal, allowedRoles
  <2>1. CASE requiresLecturerOrCustom(allowed)
    <3>1. stage' = [stage EXCEPT ![r] = "courseLookup"] /\ UNCHANGED status
      BY <1>8, <2>1 DEF Authorize
    <3> QED
      BY <1>1, <1>2, <1>4, <2>0, <3>1, Deferred
  <2>2. CASE ~requiresLecturerOrCustom(allowed)
    <3>1. tryStudent(r)
      BY <1>8, <2>2 DEF Authorize
    <3>2. \A role \in allowed : role \in {PromptAdmin, PromptLecturer, CourseStudent}
      BY <2>2 DEF requiresLecturerOrCustom, isCustomRole, builtInRoles
    <3>3. \A role \in allowed \ {CourseStudent} : ~holds(c, t, role)
      BY <1>5, <1>8, <3>2
    <3>4. CASE CourseStudent \in allowed
      BY <1>1, <1>2, <1>4, <2>0, <3>1, <3>3, <3>4, Deferred DEF tryStudent
    <3>5. CASE CourseStudent \notin allowed
      BY <1>1, <1>2, <1>4, <3>1, <3>3, <3>5, Decided DEF tryStudent
    <3> QED
      BY <3>4, <3>5
  <2> QED
    BY <2>1, <2>2
<1> QED
  BY <1>6, <1>7, <1>8

LEMMA CourseLookupSound ==
    ASSUME AccessInv, AccessTypeOK', NEW r \in Requests, CourseLookup(r)
    PROVE  SoundAt(r)' /\ DeniedAt(r)' /\ Others(r)
<1> DEFINE c == caller[r]  t == route[r]  allowed == allowedRoles(r)
<1>1. AccessTypeOK /\ SoundAt(r) /\ stage[r] = "courseLookup" /\ stage[r] \in Authorizing
  BY DEF AccessInv, CourseLookup, Authorizing
<1>2. /\ c \in Callers /\ t \in Routes /\ index[r] \in 1 .. Len(t.chain) /\ tokenUser[r].present
      /\ tokenUser[r].roles = checkKeycloakRoles(c)
      /\ tokenUser[r].isLecturer => <<Course, CourseLecturer>> \in tokenUser[r].roles
      /\ NoGlobal(c, t, index[r])
      /\ participation[r] => c.student = "phase"
  BY <1>1 DEF SoundAt, Sound, Authorizing, NoGlobal
<1>3. allowed \subseteq Roles
  BY <1>2, MiddlewareTyped DEF allowedRoles
<1>4. /\ UNCHANGED <<index, caller, route, participation>> /\ t.phaseID = "set"
      /\ tokenUser' \in [Requests -> TokenUser] /\ participation' \in [Requests -> BOOLEAN]
  BY DEF CourseLookup, AccessTypeOK, hasPhase
<1>5. PICK answer \in CoreAnswers :
          LET result == SendCoursePhaseRoleMappingRequest(r, answer)
              user == [tokenUser[r] EXCEPT
                          !.isLecturer = result.value.lecturer \in tokenUser[r].roles,
                          !.isEditor = result.value.editor \in tokenUser[r].roles,
                          !.prefix = result.value.prefix]
          IN  \/ /\ result.error # None /\ abort(r, lookupStatus(result.error))
                 /\ UNCHANGED <<tokenUser, resolved>>
              \/ /\ result.error = None
                 /\ tokenUser' = [tokenUser EXCEPT ![r] = user]
                 /\ resolved' = [resolved EXCEPT ![r] = TRUE]
                 /\ IF courseGrant(user, allowedRoles(r)) THEN proceed(r) ELSE tryStudent(r)
  BY DEF CourseLookup
<1> DEFINE result == SendCoursePhaseRoleMappingRequest(r, answer)
           user == [tokenUser[r] EXCEPT
                        !.isLecturer = result.value.lecturer \in tokenUser[r].roles,
                        !.isEditor = result.value.editor \in tokenUser[r].roles,
                        !.prefix = result.value.prefix]
<1> HIDE DEF result
<1>6. CASE result.error # None
  <2>1. abort(r, lookupStatus(result.error)) /\ UNCHANGED tokenUser
    BY <1>5, <1>6 DEF result
  <2>2. \E code \in {"400", "401", "500"} : abort(r, code)
    BY <2>1 DEF lookupStatus
  <2> QED
    BY <1>1, <1>2, <1>4, <2>1, <2>2, Decided
<1>7. CASE result.error = None
  <2>1. result.value = [lecturer |-> <<Course, CourseLecturer>>,
                        editor |-> <<Course, CourseEditor>>, prefix |-> t.prefix]
    BY <1>5, <1>7, MappingAnswered DEF result
  <2>2. /\ tokenUser' = [tokenUser EXCEPT ![r] = user]
        /\ IF courseGrant(user, allowed) THEN proceed(r) ELSE tryStudent(r)
    BY <1>5, <1>7 DEF result
  <2>3. /\ user.present /\ user.roles = tokenUser[r].roles /\ user.prefix = t.prefix
        /\ user.isLecturer = (<<Course, CourseLecturer>> \in user.roles)
        /\ user.isEditor = (<<Course, CourseEditor>> \in user.roles)
    <3>1. tokenUser[r] \in TokenUser
      BY <1>1 DEF AccessTypeOK
    <3>2. user = [tokenUser[r] EXCEPT
                     !.isLecturer = <<Course, CourseLecturer>> \in tokenUser[r].roles,
                     !.isEditor = <<Course, CourseEditor>> \in tokenUser[r].roles,
                     !.prefix = t.prefix]
      BY <2>1
    <3> HIDE DEF user
    <3> QED
      BY <1>2, <3>1, <3>2 DEF TokenUser
  <2> HIDE DEF user
  <2>4. tokenUser'[r] = user /\ \A q \in Requests \ {r} : tokenUser'[q] = tokenUser[q]
    BY <1>1, <2>2 DEF AccessTypeOK
  <2>5. courseGrant(user, allowed) <=>
           \E role \in allowed \ {PromptAdmin, PromptLecturer, CourseStudent} : holds(c, t, role)
    BY <1>2, <1>3, <1>4, <2>3, CourseHeld
  <2>6. CASE courseGrant(user, allowed)
    <3>1. OtherRole(c, t, index[r])
      BY <2>5, <2>6 DEF OtherRole, allowedRoles
    <3> QED
      BY <1>1, <1>2, <1>4, <2>2, <2>3, <2>4, <2>5, <2>6, <3>1, Decided
  <2>7. CASE ~courseGrant(user, allowed)
    <3>1. \A role \in allowed \cap {PromptAdmin, PromptLecturer} : ~holds(c, t, role)
      BY <1>2 DEF NoGlobal, allowedRoles
    <3>2. \A role \in allowed \ {CourseStudent} : ~holds(c, t, role)
      BY <1>3, <2>5, <2>7, <3>1, StudentLeft
    <3>3. tryStudent(r)
      BY <2>2, <2>7
    <3>4. CASE CourseStudent \in allowed
      BY <1>1, <1>2, <1>4, <2>3, <2>4, <3>2, <3>3, <3>4, Deferred DEF tryStudent
    <3>5. CASE CourseStudent \notin allowed
      BY <1>1, <1>4, <2>3, <2>4, <3>2, <3>3, <3>5, Decided DEF tryStudent
    <3> QED
      BY <3>4, <3>5
  <2> QED
    BY <2>6, <2>7
<1> QED
  BY <1>6, <1>7

LEMMA StudentLookupSound ==
    ASSUME AccessInv, AccessTypeOK', NEW r \in Requests, StudentLookup(r)
    PROVE  SoundAt(r)' /\ DeniedAt(r)' /\ Others(r)
<1> DEFINE c == caller[r]  t == route[r]  allowed == allowedRoles(r)
<1>1. AccessTypeOK /\ SoundAt(r) /\ stage[r] = "studentLookup" /\ stage[r] \in Authorizing
  BY DEF AccessInv, StudentLookup, Authorizing
<1>2. /\ tokenUser[r].present
      /\ tokenUser[r].isLecturer => <<Course, CourseLecturer>> \in tokenUser[r].roles
      /\ \A role \in allowed \ {CourseStudent} : ~holds(c, t, role)
  BY <1>1 DEF SoundAt, Sound, Authorizing, allowedRoles
<1>3. /\ UNCHANGED <<index, caller, route>> /\ t.phaseID = "set"
      /\ tokenUser' \in [Requests -> TokenUser] /\ participation' \in [Requests -> BOOLEAN]
  BY DEF StudentLookup, AccessTypeOK, hasPhase
<1>4. PICK answer \in studentAnswers(r) :
          LET result == SendIsStudentRequest(r, answer)
              known == result.error \in {None, "ErrNotStudentOfCourse"}
          IN  \/ /\ ~known /\ abort(r, lookupStatus(result.error))
                 /\ UNCHANGED <<tokenUser, participation>>
              \/ /\ known
                 /\ tokenUser' = [tokenUser EXCEPT ![r].isStudent = result.value]
                 /\ participation' = [participation EXCEPT ![r] = @ \/ result.error = None]
                 /\ IF grantStudent(r, result) THEN proceed(r) ELSE abort(r, "403")
  BY DEF StudentLookup
<1> DEFINE result == SendIsStudentRequest(r, answer)
<1> HIDE DEF result
<1>5. CASE result.error \notin {None, "ErrNotStudentOfCourse"}
  <2>1. abort(r, lookupStatus(result.error)) /\ UNCHANGED <<tokenUser, participation>>
    BY <1>4, <1>5 DEF result
  <2>2. \E code \in {"400", "401", "500"} : abort(r, code)
    BY <2>1 DEF lookupStatus
  <2> QED
    BY <1>1, <1>2, <1>3, <2>1, <2>2, Decided
<1>6. CASE result.error \in {None, "ErrNotStudentOfCourse"}
  <2>1. result.value = (c.student = "phase")
    BY <1>4, <1>6, StudentAnswered DEF result
  <2>2. /\ tokenUser' = [tokenUser EXCEPT ![r].isStudent = result.value]
        /\ IF grantStudent(r, result) THEN proceed(r) ELSE abort(r, "403")
    BY <1>4, <1>6 DEF result
  <2>3. /\ tokenUser'[r].present /\ tokenUser'[r].roles = tokenUser[r].roles
        /\ tokenUser'[r].isLecturer = tokenUser[r].isLecturer
        /\ \A q \in Requests \ {r} : tokenUser'[q] = tokenUser[q]
    <3>1. tokenUser \in [Requests -> TokenUser] /\ tokenUser[r] \in TokenUser
      BY <1>1 DEF AccessTypeOK
    <3>2. tokenUser'[r] = [tokenUser[r] EXCEPT !.isStudent = result.value]
      BY <2>2, <3>1
    <3> QED
      BY <1>2, <2>2, <3>1, <3>2 DEF TokenUser
  <2>4. CourseStudent \in allowed => (holds(c, t, CourseStudent) <=> c.student = "phase")
    BY <1>3 DEF holds, isCustomRole, builtInRoles, PromptAdmin, PromptLecturer, CourseLecturer,
           CourseEditor, CourseStudent
  <2>5. /\ participation'[r] = (participation[r] \/ result.error = None)
        /\ \A q \in Requests \ {r} : participation'[q] = participation[q]
    BY <1>1, <1>4, <1>6 DEF result, AccessTypeOK
  <2>6. CASE grantStudent(r, result)
    <3>1. c.student = "phase"
      BY <2>1, <2>6 DEF grantStudent
    <3>2. CourseStudent \in allowed
      BY <1>1 DEF SoundAt, Sound, allowedRoles
    <3>3. result.error = None
      BY <1>4, <1>6, <2>6 DEF result, grantStudent, SendIsStudentRequest, failure
    <3>4. participation'[r]
      BY <2>5, <3>3
    <3> QED
      BY <1>1, <1>2, <1>3, <2>2, <2>3, <2>4, <2>6, <2>5, <3>1, <3>2, <3>4, Decided
  <2>7. CASE ~grantStudent(r, result)
    <3>1. c.student # "phase"
      BY <2>1, <2>7 DEF grantStudent
    <3> QED
      BY <1>1, <1>2, <1>3, <2>2, <2>3, <2>4, <2>7, <2>5, <3>1, Decided
  <2> QED
    BY <2>6, <2>7
<1> QED
  BY <1>5, <1>6

\* A middleware that does not verify the caller, in this module or another.
LEMMA NextTypes ==
    ASSUME AccessInv, NEW r \in Requests, NEW kinds, next(r, kinds),
           UNCHANGED <<caller, route, tokenUser, resolved, participation>>,
           proceed(r) \/ \E code \in {"400", "401", "403", "500"} : abort(r, code)
    PROVE  AccessTypeOK'
<1>1. AccessTypeOK /\ SoundAt(r) /\ stage[r] = "chain" /\ status[r] = None
  BY DEF AccessInv, AccessTypeOK, next
<1>2. /\ index' = [index EXCEPT ![r] = @ + 1] /\ index[r] < Len(route[r].chain)
      /\ index[r] \in Nat /\ Len(route[r].chain) \in Nat
  BY <1>1, LengthTyped DEF next, SoundAt, Sound, AccessTypeOK
<1>3. PICK s \in {"chain", "aborted"}, code \in {None, "400", "401", "403", "500"} :
        /\ stage' = [stage EXCEPT ![r] = s] /\ status' = [status EXCEPT ![r] = code]
        /\ code # None => s = "aborted"
  <2>1. status = [status EXCEPT ![r] = None]
    BY <1>1 DEF AccessTypeOK
  <2> QED
    BY <2>1 DEF proceed, abort
<1>4. stage' \in [Requests -> Stages] /\ index' \in [Requests -> Nat]
  BY <1>1, <1>2, <1>3 DEF AccessTypeOK, Stages
<1>5. \A q \in Requests :
        /\ stage'[q] # "idle" => index'[q] <= Len(route[q].chain)
        /\ stage'[q] \in Authorizing => index'[q] # 0
  BY <1>1, <1>2, <1>3 DEF AccessTypeOK, Authorizing
<1>6. /\ status' \in [Requests -> {None, "400", "401", "403", "500"}]
      /\ \A q \in Requests : status'[q] # None => stage'[q] \in {"aborted", "panicked"}
  BY <1>1, <1>3 DEF AccessTypeOK
<1> QED
  BY <1>1, <1>4, <1>5, <1>6 DEF AccessTypeOK

\* It leaves the request sound.
LEMMA NextSound ==
    ASSUME AccessInv, NEW r \in Requests, NEW kinds, next(r, kinds), kinds \cap verifying = {},
           UNCHANGED <<caller, route, tokenUser, participation>>,
           proceed(r) \/ \E code \in {"400", "401", "403", "500"} : abort(r, code)
    PROVE  SoundAt(r)' /\ DeniedAt(r)' /\ Others(r)
<1> DEFINE c == caller[r]  t == route[r]  i == index[r]
<1>1. AccessTypeOK /\ SoundAt(r) /\ stage[r] = "chain" /\ status[r] = None
  BY DEF AccessInv, AccessTypeOK, next
<1>2. /\ c \in Callers /\ t \in Routes /\ i \in Nat /\ i < Len(t.chain)
      /\ tokenUser[r].roles = IF tokenUser[r].present THEN checkKeycloakRoles(c) ELSE {}
      /\ tokenUser[r].isLecturer => <<Course, CourseLecturer>> \in tokenUser[r].roles
      /\ \A j \in 1 .. i : cleared(c, t, j)
      /\ participation[r] => c.student = "phase"
  BY <1>1 DEF SoundAt, Sound, next, AccessTypeOK
<1>3. Len(t.chain) \in Nat
  BY <1>2, LengthTyped
<1>4. index'[r] = i + 1 /\ i + 1 \in 0 .. Len(t.chain)
  BY <1>1, <1>2, <1>3 DEF next, AccessTypeOK
<1>5. t.chain[i + 1].kind \notin verifying
  BY DEF next
<1>6. \A j \in 1 .. i + 1 : j < i + 1 => cleared(c, t, j)
  BY <1>2, PassedOn
<1>7. cleared(c, t, i + 1)
  BY <1>5 DEF cleared, verifying
<1>8. Others(r)
  BY <1>1 DEF next, Others, proceed, abort, AccessTypeOK
<1>9. CASE proceed(r)
  <2>1. stage'[r] = "chain" /\ status'[r] = None
    BY <1>1, <1>9 DEF proceed, AccessTypeOK
  <2>2. \A j \in 1 .. i + 1 : cleared(c, t, j)
    BY <1>2, <1>6, <1>7
  <2>3. Sound("chain", i + 1, c, t, tokenUser[r], participation[r])
    BY <1>2, <1>4, <1>5, <2>2, PassedSound DEF OtherRole, verifying
  <2> QED
    BY <1>4, <1>8, <2>1, <2>3 DEF SoundAt, DeniedAt, None
<1>10. CASE \E code \in {"400", "401", "403", "500"} : abort(r, code)
  <2>1. stage'[r] = "aborted"
    BY <1>1, <1>10 DEF abort, AccessTypeOK
  <2>2. Sound("aborted", i + 1, c, t, tokenUser[r], participation[r])
    BY <1>2, <1>4, <1>6, EndedSound
  <2>3. route'[r].chain[index'[r]].kind # "authenticate"
    BY <1>4, <1>5 DEF verifying
  <2> QED
    BY <1>4, <1>8, <2>1, <2>2, <2>3 DEF SoundAt, DeniedAt
<1> QED
  BY <1>9, <1>10

\* KeycloakMiddleware, on its own or as the start of an AuthenticationMiddleware.
LEMMA VerifySound ==
    ASSUME AccessInv, NEW r \in Requests, Reject(r) \/ PanicOnRoles(r) \/ Accept(r)
    PROVE  SoundAt(r)' /\ DeniedAt(r)' /\ Others(r)
<1> DEFINE c == caller[r]  t == route[r]  i == index[r]
<1>0. next(r, verifying)
  BY DEF Reject, PanicOnRoles, Accept
<1>1. AccessTypeOK /\ SoundAt(r) /\ stage[r] = "chain" /\ status[r] = None
  BY <1>0 DEF AccessInv, AccessTypeOK, next
<1>2. /\ c \in Callers /\ t \in Routes /\ i \in Nat /\ i < Len(t.chain)
      /\ tokenUser[r].roles = IF tokenUser[r].present THEN checkKeycloakRoles(c) ELSE {}
      /\ tokenUser[r].isLecturer => <<Course, CourseLecturer>> \in tokenUser[r].roles
      /\ \A j \in 1 .. i : cleared(c, t, j)
      /\ participation[r] => c.student = "phase"
  BY <1>0, <1>1 DEF SoundAt, Sound, next, AccessTypeOK
<1>3. Len(t.chain) \in Nat
  BY <1>2, LengthTyped
<1>4. index'[r] = i + 1 /\ i + 1 \in 0 .. Len(t.chain) 
      /\ UNCHANGED <<caller, route, participation>>
  BY <1>0, <1>1, <1>2, <1>3 DEF next, AccessTypeOK, Reject, PanicOnRoles, Accept
<1>5. \A j \in 1 .. i + 1 : j < i + 1 => cleared(c, t, j)
  BY <1>2, PassedOn
<1>6. Others(r)
  BY <1>0, <1>1 DEF next, Others, Reject, PanicOnRoles, Accept, abort, AccessTypeOK
<1>7. CASE Reject(r) \/ PanicOnRoles(r)
  <2>1. stage'[r] \in {"aborted", "panicked"} /\ status'[r] # "403" /\ UNCHANGED tokenUser
    BY <1>1, <1>7 DEF Reject, PanicOnRoles, abort, AccessTypeOK
  <2>2. Sound(stage'[r], i + 1, c, t, tokenUser[r], participation[r])
    BY <1>2, <1>4, <1>5, <2>1, EndedSound
  <2> QED
    BY <1>4, <1>6, <2>1, <2>2 DEF SoundAt, DeniedAt
<1>8. CASE Accept(r)
  <2> DEFINE u == [NoUser EXCEPT !.present = TRUE, !.roles = checkKeycloakRoles(c)]
  <2>1. /\ tokenUser'[r] = u /\ c.credential \in {"otherAudience", "valid"}
        /\ status'[r] = None
        /\ stage'[r] = IF t.chain[i + 1].kind = "authenticate" THEN "authorize" ELSE "chain"
    BY <1>1, <1>8 DEF Accept, AccessTypeOK
  <2>2. u.present /\ u.roles = checkKeycloakRoles(c) /\ ~u.isLecturer
    BY DEF NoUser
  <2> HIDE DEF u
  <2>3. CASE t.chain[i + 1].kind = "authenticate"
    <3>1. Sound("authorize", i + 1, c, t, u, participation[r])
      BY <1>2, <1>4, <1>5, <2>1, <2>2, <2>3 DEF Sound, Authorizing
    <3> QED
      BY <1>4, <1>6, <2>1, <2>3, <3>1 DEF SoundAt, DeniedAt, None
  <2>4. CASE t.chain[i + 1].kind # "authenticate"
    <3>1. cleared(c, t, i + 1)
      BY <2>1, <2>4 DEF cleared
    <3>2. \A j \in 1 .. i + 1 : cleared(c, t, j)
      BY <1>2, <1>5, <3>1
    <3>3. Sound("chain", i + 1, c, t, u, participation[r])
      BY <1>2, <1>4, <2>2, <2>4, <3>2, PassedSound DEF OtherRole
    <3> QED
      BY <1>4, <1>6, <2>1, <2>4, <3>3 DEF SoundAt, DeniedAt, None
  <2> QED
    BY <2>3, <2>4
<1> QED
  BY <1>7, <1>8

\* A step of a request inside its handler, in this module or another.
LEMMA HandlerTypes ==
    ASSUME AccessTypeOK, NEW r \in Requests, stage[r] \in {"handler", "writing"},
           UNCHANGED <<index, caller, route, tokenUser, resolved, participation>>,
           \/ /\ \E s \in {"writing", "done"} : stage' = [stage EXCEPT ![r] = s]
              /\ UNCHANGED status
           \/ \E code \in {"400", "401", "403", "500"} : abort(r, code)
    PROVE  AccessTypeOK'
<1>1. PICK s \in {"writing", "done", "aborted"}, code \in {None, "400", "401", "403", "500"} :
        /\ stage' = [stage EXCEPT ![r] = s] /\ status' = [status EXCEPT ![r] = code]
        /\ code # None => s = "aborted"
  <2>1. status = [status EXCEPT ![r] = None]
    BY DEF AccessTypeOK
  <2> QED
    BY <2>1 DEF abort
<1> QED
  BY <1>1 DEF AccessTypeOK, Stages, Authorizing

\* It leaves the request sound, and the others alone.
LEMMA HandlerSound ==
    ASSUME AccessInv, NEW r \in Requests, stage[r] \in {"handler", "writing"},
           UNCHANGED <<index, caller, route, tokenUser, participation>>,
           \A q \in Requests \ {r} : status'[q] = status[q],
           NEW s \in {"writing", "done", "aborted", "panicked"}, stage' = [stage EXCEPT ![r] = s]
    PROVE  SoundAt(r)' /\ Others(r)
<1>1. AccessTypeOK /\ SoundAt(r)
  BY DEF AccessInv
<1>2. Others(r) /\ stage'[r] = s
  BY <1>1 DEF Others, AccessTypeOK
<1> QED
  BY <1>1, <1>2 DEF SoundAt, Sound, Authorizing

LEMMA AccessStepSound ==
    ASSUME AccessInv, NEW r \in Requests, AccessStep(r)
    PROVE  AccessInv' /\ DeniedAt(r)' /\ Others(r)
<1>1. AccessTypeOK'
  BY AccessTypes
<1>2. AccessTypeOK /\ SoundAt(r)
  BY DEF AccessInv
<1>3. SoundAt(r)' /\ DeniedAt(r)' /\ Others(r)
  <2>1. CASE Arrive(r)
    <3>1. PICK c \in Callers : caller' = [caller EXCEPT ![r] = c]
      BY <2>1 DEF Arrive
    <3>2. PICK t \in Routes : route' = [route EXCEPT ![r] = t]
      BY <2>1 DEF Arrive
    <3>3. index[r] = 0 /\ tokenUser[r] = NoUser /\ status[r] = None /\ participation[r] = FALSE
      BY <1>2, <2>1 DEF Arrive, SoundAt, Sound, AccessTypeOK
    <3>4. Sound("chain", 0, c, t, NoUser, FALSE)
      BY LengthTyped DEF Sound, NoUser, Authorizing, OtherRole
    <3>5. stage'[r] = "chain" /\ caller'[r] = c /\ route'[r] = t /\ Others(r)
          /\ UNCHANGED <<index, tokenUser, status, participation>>
      BY <1>2, <2>1, <3>1, <3>2 DEF Arrive, Others, AccessTypeOK
    <3> QED
      BY <3>3, <3>4, <3>5 DEF SoundAt, DeniedAt, None
  <2>2. CASE EnterHandler(r)
    <3>1. /\ stage[r] = "chain" /\ stage'[r] = "handler" /\ Others(r) /\ status[r] = None
          /\ UNCHANGED <<index, caller, route, tokenUser, status, participation>>
          /\ index[r] = Len(route[r].chain)
      BY <1>2, <2>2 DEF EnterHandler, Others, AccessTypeOK
    <3> QED
      BY <1>2, <3>1 DEF SoundAt, Sound, Authorizing, DeniedAt, None
  <2>3. CASE LookupWithoutPhase(r)
    <3>1. /\ stage[r] \in Authorizing /\ abort(r, "400")
          /\ UNCHANGED <<index, caller, route, tokenUser, participation>>
          /\ tokenUser[r].present
          /\ tokenUser[r].isLecturer => <<Course, CourseLecturer>> \in tokenUser[r].roles
      BY <1>2, <2>3 DEF LookupWithoutPhase, SoundAt, Sound, Authorizing
    <3> QED
      BY <1>2, <3>1, Decided DEF AccessTypeOK
  <2> QED
    BY <1>1, <2>1, <2>2, <2>3, VerifySound, AuthorizeSound, CourseLookupSound, StudentLookupSound
       DEF AccessStep
<1> QED
  BY <1>1, <1>3, OthersKept DEF AccessInv

LEMMA AccessInitSound == AccessInit => AccessInv /\ DeniedHoldNothing
<1> SUFFICES ASSUME AccessInit PROVE AccessInv /\ DeniedHoldNothing
  OBVIOUS
<1>1. NoUser \in TokenUser
  BY DEF NoUser, TokenUser
<1>2. AccessTypeOK
  BY <1>1 DEF AccessInit, AccessTypeOK, Stages, Authorizing
<1>3. \A r \in Requests : SoundAt(r)
  BY DEF AccessInit, SoundAt, Sound, Authorizing
<1>4. DeniedHoldNothing
  BY DEF AccessInit, DeniedHoldNothing, None
<1> QED
  BY <1>2, <1>3, <1>4 DEF AccessInv

\* What the invariant says of handlers.
LEMMA AdmittedHold == AccessInv => OnlyHoldersAdmitted
<1> SUFFICES ASSUME AccessInv, NEW r \in Requests, stage[r] \in {"handler", "writing", "done"},
                    NEW i \in DOMAIN route[r].chain
             PROVE  cleared(caller[r], route[r], i)
  BY DEF OnlyHoldersAdmitted
<1>1. /\ route[r] \in Routes /\ index[r] = Len(route[r].chain)
      /\ \A j \in 1 .. index[r] : cleared(caller[r], route[r], j)
  BY DEF AccessInv, SoundAt, Sound
<1>2. \A s \in Seq(Middlewares) : DOMAIN s = 1 .. Len(s)
  OBVIOUS
<1> QED
  BY <1>1, <1>2, ChainTyped

=============================================================================
