---------------------------- MODULE EndpointsProofs ----------------------------
(***************************************************************************)
(* Proofs about Endpoints: for any callers, any routes their registrars    *)
(* may set up and any answers of core and of the service's code, what is   *)
(* admitted, denied, deleted and answered is what it should be.            *)
(***************************************************************************)
EXTENDS Endpoints, AccessProofs

\* What the handler of request r leaves behind.
Answered(r) ==
    /\ argument[r] # None =>
          /\ stage[r] \in {"done", "panicked"} /\ status[r] \in {None, "500"}
          /\ caller[r] \in Callers /\ route[r] \in Routes
          /\ \A i \in 1 .. Len(route[r].chain) : cleared(caller[r], route[r], i)
          /\ route[r].endpoint = "phaseDeletion" => argument[r] = route[r].phaseID
          /\ argument[r] = "own" => caller[r].student = "phase"
          /\ reply[r] \notin {"400", "401", "403"}
    /\ reply[r] = "200" /\ route[r].endpoint # "info" => outcome[r] = "ok"
    /\ reply[r] = "401" /\ route[r].endpoint = "owned" => ~participation[r]

IInv ==
    /\ TypeOK /\ AccessInv
    /\ \A r \in Requests : DeniedAt(r) /\ Answered(r)

----------------------------------------------------------------------------
(* Routes. *)

\* The last middleware of a route is its registrar's own, if that has one.
LEMMA OwnLast ==
    ASSUME NEW t \in Routes, t.endpoint \in {"phaseDeletion", "privacyDeletion", "owned"}
    PROVE  /\ Len(t.chain) \in Nat \ {0} /\ t.chain[Len(t.chain)].kind = "authenticate"
           /\ t.endpoint = "phaseDeletion" =>
                 t.chain[Len(t.chain)].allowed = {PromptAdmin, CourseLecturer}
           /\ t.endpoint = "privacyDeletion" => t.chain[Len(t.chain)].allowed = {PromptAdmin}
<1>1. PICK i \in 0 .. Len(t.chain), roles \in SUBSET Roles :
        t.chain = SubSeq(t.chain, 1, i) \o ownChain(t.endpoint, roles)
  BY RoutesRegistered
<1>2. PICK own : /\ ownChain(t.endpoint, roles) = <<authenticate(own)>>
                 /\ t.endpoint = "phaseDeletion" => own = {PromptAdmin, CourseLecturer}
                 /\ t.endpoint = "privacyDeletion" => own = {PromptAdmin}
                 /\ own \in SUBSET Roles
  BY DEF ownChain, Roles, builtInRoles
<1> DEFINE last == authenticate(own)  group == SubSeq(t.chain, 1, i)
<1>3. last \in Middlewares /\ last.kind = "authenticate" /\ last.allowed = own
  BY <1>2 DEF Middlewares, authenticate
<1>4. t.chain \in Seq(Middlewares)
  BY ChainTyped
<1> HIDE DEF last
<1>5. group \in Seq(Middlewares)
  BY <1>4, LengthTyped
<1> HIDE DEF group
<1>6. \A s \in Seq(Middlewares), m \in Middlewares :
        /\ Len(s \o <<m>>) \in Nat \ {0} /\ (s \o <<m>>)[Len(s \o <<m>>)] = m
  OBVIOUS
<1>7. t.chain = group \o <<last>>
  BY <1>1, <1>2 DEF group, last
<1> QED
  BY <1>2, <1>3, <1>5, <1>6, <1>7

----------------------------------------------------------------------------
(* Steps. *)

\* A request before its handler has nothing to show yet.
LEMMA Unanswered ==
    ASSUME TypeOK, AccessInv, NEW r \in Requests, Answered(r), stage[r] \notin {"done", "panicked"}
    PROVE  argument[r] = None /\ outcome[r] = None /\ reply[r] = None
BY DEF TypeOK, Answered

\* Other requests keep what they have.
LEMMA OthersAnswered ==
    ASSUME NEW r \in Requests, Others(r), NEW q \in Requests \ {r}, Answered(q),
           argument'[q] = argument[q], outcome'[q] = outcome[q], reply'[q] = reply[q]
    PROVE  Answered(q)'
BY DEF Others, Answered

\* A step before the handler, of Access or of the identifier middleware.
LEMMA BeforeHandler ==
    ASSUME IInv, NEW r \in Requests, AccessInv', DeniedAt(r)', Others(r),
           stage[r] \notin {"done", "panicked"}, stage'[r] # "done",
           identifiers' \in [Requests -> BOOLEAN], UNCHANGED <<argument, outcome, reply>>
    PROVE  IInv'
<1>1. argument[r] = None /\ outcome[r] = None /\ reply[r] = None
  BY Unanswered DEF IInv
<1>2. TypeOK'
  BY <1>1 DEF IInv, TypeOK, AccessInv, Others
<1>3. Answered(r)'
  BY <1>1 DEF Answered, None
<1> QED
  BY <1>2, <1>3, OthersKept, OthersAnswered DEF IInv

\* The end of a handler.
LEMMA Finished ==
    ASSUME IInv, NEW r \in Requests, stage[r] = "handler", handlerUnchanged,
           NEW s \in {"done", "panicked"}, stage' = [stage EXCEPT ![r] = s],
           NEW code \in {None, "500"}, status' = [status EXCEPT ![r] = code],
           code # None => s = "panicked",
           NEW a \in Arguments \cup {None}, argument' = [argument EXCEPT ![r] = a],
           NEW o \in {"ok", "error", "panic", None}, outcome' = [outcome EXCEPT ![r] = o],
           NEW rep \in {"200", "400", "401", "403", "500", None}, reply' = [reply EXCEPT ![r] = rep],
           a = None <=> o = None, rep # None <=> s = "done", Answered(r)'
    PROVE  IInv'
<1>1. AccessInv /\ AccessTypeOK /\ SoundAt(r) /\ TypeOK
  BY DEF IInv, AccessInv
<1>2. AccessTypeOK'
  BY <1>1 DEF AccessTypeOK, handlerUnchanged, Stages, Authorizing
<1>3. \A q \in Requests \ {r} : status'[q] = status[q]
  BY <1>1 DEF AccessTypeOK
<1>4. SoundAt(r)' /\ Others(r)
  BY <1>1, <1>3, HandlerSound DEF handlerUnchanged
<1>5. TypeOK'
  BY <1>1, <1>2 DEF TypeOK, handlerUnchanged, AccessTypeOK
<1>6. DeniedAt(r)'
  BY <1>1 DEF DeniedAt, AccessTypeOK, None
<1>7. \A q \in Requests \ {r} :
        argument'[q] = argument[q] /\ outcome'[q] = outcome[q] /\ reply'[q] = reply[q]
  BY <1>1 DEF TypeOK
<1>8. \A q \in Requests \ {r} : SoundAt(q)' /\ DeniedAt(q)' /\ Answered(q)'
  BY <1>4, <1>7, OthersKept, OthersAnswered DEF IInv, AccessInv
<1> QED
  BY <1>2, <1>4, <1>5, <1>6, <1>8 DEF IInv, AccessInv

\* The handler answers without calling the service's code.
LEMMA RefuseKept ==
    ASSUME IInv, NEW r \in Requests, stage[r] = "handler", handlerUnchanged,
           NEW code \in {"200", "400", "401", "403"}, refuse(r, code),
           code = "200" => route[r].endpoint = "info",
           code = "401" /\ route[r].endpoint = "owned" => ~participation[r]
    PROVE  IInv'
<1>1. AccessTypeOK /\ TypeOK
  BY DEF IInv, TypeOK
<1>2. argument[r] = None /\ outcome[r] = None /\ reply[r] = None /\ status[r] = None
  BY <1>1, Unanswered DEF IInv, AccessTypeOK
<1>3. /\ stage' = [stage EXCEPT ![r] = "done"] /\ status' = [status EXCEPT ![r] = None]
      /\ argument' = [argument EXCEPT ![r] = None] /\ outcome' = [outcome EXCEPT ![r] = None]
      /\ reply' = [reply EXCEPT ![r] = code]
  BY <1>1, <1>2 DEF refuse, answer, TypeOK, AccessTypeOK
<1>4. Answered(r)'
  BY <1>1, <1>2, <1>3 DEF Answered, handlerUnchanged, TypeOK
<1>5. code # None
  BY DEF None
<1> QED
  BY <1>3, <1>4, <1>5, Finished

\* The handler calls the service's code.
LEMMA CallKept ==
    ASSUME IInv, NEW r \in Requests, stage[r] = "handler", handlerUnchanged,
           NEW with \in Arguments, call(r, with),
           route[r].endpoint = "phaseDeletion" => with = route[r].phaseID,
           with = "own" => caller[r].student = "phase"
    PROVE  IInv'
<1>1. AccessTypeOK /\ TypeOK /\ SoundAt(r) /\ with # None
  BY DEF IInv, TypeOK, AccessInv, Arguments, Phases, Subjects, None
<1>2. argument[r] = None /\ outcome[r] = None /\ reply[r] = None /\ status[r] = None
  BY <1>1, Unanswered DEF IInv, AccessTypeOK
<1>3. PICK s \in {"done", "panicked"}, code \in {None, "500"}, o \in {"ok", "error", "panic"},
           rep \in {"200", "500", None} :
        /\ stage' = [stage EXCEPT ![r] = s] /\ status' = [status EXCEPT ![r] = code]
        /\ outcome' = [outcome EXCEPT ![r] = o] /\ reply' = [reply EXCEPT ![r] = rep]
        /\ code # None => s = "panicked"
        /\ rep # None <=> s = "done"
        /\ rep = "200" => o = "ok"
  <2>1. status = [status EXCEPT ![r] = None] /\ reply = [reply EXCEPT ![r] = None]
    BY <1>1, <1>2 DEF TypeOK, AccessTypeOK
  <2> QED
    BY <2>1 DEF call, answer, None
<1>4. argument' = [argument EXCEPT ![r] = with]
  BY DEF call
<1>5. /\ caller[r] \in Callers /\ route[r] \in Routes
      /\ \A i \in 1 .. Len(route[r].chain) : cleared(caller[r], route[r], i)
  <2>1. index[r] = Len(route[r].chain) /\ caller[r] \in Callers /\ route[r] \in Routes
        /\ \A i \in 1 .. index[r] : cleared(caller[r], route[r], i)
    BY <1>1 DEF SoundAt, Sound
  <2> QED
    BY <2>1
<1>6. UNCHANGED <<caller, route, participation>>
  BY DEF handlerUnchanged
<1>7. /\ stage'[r] = s /\ status'[r] = code /\ argument'[r] = with /\ outcome'[r] = o
      /\ reply'[r] = rep
  BY <1>1, <1>3, <1>4 DEF TypeOK, AccessTypeOK
<1>8. Answered(r)'
  BY <1>3, <1>5, <1>6, <1>7 DEF Answered, None
<1>9. o # None /\ with \in Arguments \cup {None}
  BY DEF None
<1> QED
  BY <1>1, <1>3, <1>4, <1>8, <1>9, Finished

----------------------------------------------------------------------------
(* The specification. *)

LEMMA InitInv == Init => IInv
<1> SUFFICES ASSUME Init PROVE IInv
  OBVIOUS
<1>1. AccessInv /\ DeniedHoldNothing
  BY AccessInitSound DEF Init
<1>2. TypeOK
  BY <1>1 DEF Init, TypeOK, AccessInv, AccessInit, None
<1>3. \A r \in Requests : Answered(r)
  BY DEF Init, Answered, None
<1>4. \A r \in Requests : DeniedAt(r)
  BY <1>1 DEF DeniedHoldNothing, DeniedAt
<1> QED
  BY <1>1, <1>2, <1>3, <1>4 DEF IInv

LEMMA StepInv ==
    ASSUME IInv, NEW r \in Requests, EndpointStep(r)
    PROVE  IInv'
<1>0. AccessInv /\ AccessTypeOK /\ TypeOK /\ SoundAt(r)
  BY DEF IInv, AccessInv
<1> USE DEF Arguments, Phases, Subjects
<1>1. CASE AccessStep(r) /\ UNCHANGED endpointVars
  <2>1. AccessInv' /\ DeniedAt(r)' /\ Others(r)
    BY <1>0, <1>1, AccessStepSound
  <2>2. stage[r] \notin {"done", "panicked"} /\ stage'[r] # "done"
    BY <1>0, <1>1 DEF AccessStep, Arrive, EnterHandler, Reject, PanicOnRoles, Accept, Authorize,
       LookupWithoutPhase, CourseLookup, StudentLookup, next, proceed, abort, tryStudent, AccessTypeOK
  <2> QED
    BY <1>0, <1>1, <2>1, <2>2, BeforeHandler DEF endpointVars, TypeOK
<1>2. CASE Identify(r)
  <2>1. /\ next(r, {"identify"}) /\ UNCHANGED <<argument, outcome, reply>>
        /\ UNCHANGED <<caller, route, tokenUser, resolved, participation>>
        /\ proceed(r) \/ \E code \in {"400", "401", "403", "500"} : abort(r, code)
        /\ identifiers' \in [Requests -> BOOLEAN]
    BY <1>0, <1>2 DEF Identify, TypeOK
  <2>2. {"identify"} \cap verifying = {}
    BY DEF verifying
  <2>3. SoundAt(r)' /\ DeniedAt(r)' /\ Others(r)
    BY <1>0, <2>1, <2>2, NextSound
  <2>4. stage[r] = "chain" /\ stage'[r] \in {"chain", "aborted"}
    BY <1>0, <2>1 DEF next, proceed, abort, AccessTypeOK
  <2>5. AccessTypeOK'
    BY <1>0, <2>1, NextTypes
  <2>6. AccessInv'
    BY <1>0, <2>3, <2>5, OthersKept DEF AccessInv
  <2> QED
    BY <2>1, <2>3, <2>4, <2>6, BeforeHandler
<1>3. CASE Config(r)
  BY <1>3, CallKept DEF Config, at
<1>4. CASE Info(r)
  BY <1>4, RefuseKept DEF Info, at
<1>5. CASE Copy(r)
  BY <1>5, CallKept, RefuseKept DEF Copy, at
<1>6. CASE PhaseDeletion(r)
  <2>1. route[r].phaseID \in Phases => route[r].phaseID \in Arguments /\ route[r].phaseID # "own"
    OBVIOUS
  <2> QED
    BY <1>6, <2>1, CallKept, RefuseKept DEF PhaseDeletion, at
<1>7. CASE PrivacyDeletion(r)
  BY <1>7, CallKept, RefuseKept DEF PrivacyDeletion, at
<1>8. CASE Export(r)
  BY <1>8, CallKept, RefuseKept DEF Export, at
<1>9. CASE Owned(r)
  <2>1. PICK author \in Participations :
          LET code == ValidateStudentOwnership(r, author) IN
          IF code = "200" THEN call(r, "own") ELSE refuse(r, code)
    BY <1>9 DEF Owned
  <2>2. stage[r] = "handler" /\ route[r].endpoint = "owned" /\ handlerUnchanged
    BY <1>9 DEF Owned, at
  <2>3. ValidateStudentOwnership(r, author) = "200" => caller[r].student = "phase"
    BY <1>0, <2>2 DEF ValidateStudentOwnership, SoundAt, Sound
  <2>4. /\ ValidateStudentOwnership(r, author) \in {"200", "401", "403"}
        /\ ValidateStudentOwnership(r, author) = "401" => ~participation[r]
    BY DEF ValidateStudentOwnership
  <2>5. CASE ValidateStudentOwnership(r, author) = "200"
    BY <2>1, <2>2, <2>3, <2>5, CallKept
  <2>6. CASE ValidateStudentOwnership(r, author) # "200"
    BY <2>1, <2>2, <2>4, <2>6, RefuseKept
  <2> QED
    BY <2>5, <2>6
<1> QED
  BY <1>1, <1>2, <1>3, <1>4, <1>5, <1>6, <1>7, <1>8, <1>9 DEF EndpointStep

LEMMA StutterInv == IInv /\ UNCHANGED vars => IInv'
<1> SUFFICES ASSUME IInv, UNCHANGED vars PROVE IInv'
  OBVIOUS
<1>1. UNCHANGED <<stage, index, caller, route, tokenUser, resolved, participation, status>>
      /\ UNCHANGED <<identifiers, argument, outcome, reply>>
  BY DEF vars, accessVars, endpointVars
<1>2. TypeOK' /\ AccessTypeOK'
  BY <1>1 DEF IInv, TypeOK, AccessTypeOK
<1>3. \A r \in Requests : SoundAt(r)' /\ DeniedAt(r)' /\ Answered(r)'
  BY <1>1 DEF IInv, AccessInv, SoundAt, DeniedAt, Answered, allowedRoles
<1> QED
  BY <1>2, <1>3 DEF IInv, AccessInv

\* The invariant of every behaviour of the endpoints.
THEOREM Invariant == Spec => []IInv
<1>1. IInv /\ [Next]_vars => IInv'
  BY StepInv, StutterInv DEF Next
<1> QED
  BY InitInv, <1>1, PTL DEF Spec

\* Every variable keeps its type, for any number of requests.
THEOREM TypeCorrect == Spec => []TypeOK
<1>1. IInv => TypeOK
  BY DEF IInv
<1> QED
  BY <1>1, Invariant, PTL

\* Whoever reaches a handler holds a role of every AuthenticationMiddleware in
\* front of it (authorizationMiddleware), for any chain and any role lists.
THEOREM AdmittedHoldRoles == Spec => []OnlyHoldersAdmitted
<1>1. IInv => OnlyHoldersAdmitted
  BY AdmittedHold DEF IInv
<1> QED
  BY <1>1, Invariant, PTL

\* Whoever is denied with 403 by an AuthenticationMiddleware holds none of its
\* roles, whatever lookups fail.
THEOREM DenialsTrue == Spec => []DeniedHoldNothing
<1>1. IInv => DeniedHoldNothing
  BY DEF IInv, DeniedAt, DeniedHoldNothing
<1> QED
  BY <1>1, Invariant, PTL

\* The deletion registrars delete only for those entitled, in any group.
THEOREM DeletionsEntitled == Spec => []EntitledDeletion
<1>1. IInv => EntitledDeletion
  <2> SUFFICES ASSUME IInv, NEW r \in Requests, argument[r] # None,
                      route[r].endpoint \in {"phaseDeletion", "privacyDeletion"}
               PROVE  \/ holds(caller[r], route[r], PromptAdmin)
                      \/ argument[r] = "set" /\ holds(caller[r], route[r], CourseLecturer)
    BY DEF EntitledDeletion
  <2> DEFINE c == caller[r]  t == route[r]  last == t.chain[Len(t.chain)]
  <2>1. /\ t \in Routes /\ \A i \in 1 .. Len(t.chain) : cleared(c, t, i)
        /\ t.endpoint = "phaseDeletion" => argument[r] = t.phaseID
    BY DEF IInv, Answered
  <2>2. /\ Len(t.chain) \in Nat \ {0} /\ last.kind = "authenticate"
        /\ t.endpoint = "phaseDeletion" => last.allowed = {PromptAdmin, CourseLecturer}
        /\ t.endpoint = "privacyDeletion" => last.allowed = {PromptAdmin}
    BY <2>1, OwnLast
  <2>3. cleared(c, t, Len(t.chain))
    BY <2>1, <2>2
  <2>4. \E role \in last.allowed : holds(c, t, role)
    BY <2>2, <2>3 DEF cleared
  <2>5. holds(c, t, CourseLecturer) => t.phaseID = "set"
    BY DEF holds, CourseLecturer, PromptAdmin, PromptLecturer
  <2> QED
    BY <2>1, <2>2, <2>4, <2>5
<1> QED
  BY <1>1, Invariant, PTL

\* 200 says the service's code succeeded, a client error that it did not run.
THEOREM AnswersTrue == Spec => []AnswerTruthful
<1>1. IInv => AnswerTruthful
  BY DEF IInv, Answered, AnswerTruthful, None
<1> QED
  BY <1>1, Invariant, PTL

\* What an owner may change is changed for students of the phase alone.
THEOREM OwnersAreStudents == Spec => []OwnersOnly
<1>1. IInv => OwnersOnly
  BY DEF IInv, Answered, OwnersOnly, None
<1> QED
  BY <1>1, Invariant, PTL

\* A student who is told "no participation" came in with another role.
THEOREM StudentsRecognised == Spec => []OwnersRecognised
<1>1. IInv => OwnersRecognised
  <2> SUFFICES ASSUME IInv, NEW r \in Requests, reply[r] = "401", route[r].endpoint = "owned"
               PROVE  \E role \in allowedRoles(r) \ {CourseStudent} : holds(caller[r], route[r], role)
    BY DEF OwnersRecognised
  <2>1. stage[r] = "done" /\ ~participation[r] /\ SoundAt(r)
    BY DEF IInv, TypeOK, AccessInv, Answered, None
  <2>2. /\ route[r] \in Routes /\ index[r] = Len(route[r].chain)
        /\ OtherRole(caller[r], route[r], index[r])
    BY <2>1 DEF SoundAt, Sound
  <2>3. index[r] # 0 /\ route[r].chain[index[r]].kind = "authenticate"
    BY <2>2, OwnLast
  <2> QED
    BY <2>2, <2>3 DEF OtherRole, allowedRoles
<1> QED
  BY <1>1, Invariant, PTL

=============================================================================
