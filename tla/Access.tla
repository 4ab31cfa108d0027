------------------------------- MODULE Access -------------------------------
(***************************************************************************)
(* Who gets past the middlewares of a route (src/keycloakTokenVerifier):   *)
(* the Keycloak token check, the direct grants and the two lookups in core *)
(* that the roles of an AuthenticationMiddleware call for.  A route may    *)
(* stack several of them, on its group and on itself.  Each lookup is a    *)
(* step of its own, with every answer core may give.                       *)
(*                                                                         *)
(* A role name of a token is the pair of its course prefix ("" for global  *)
(* roles) and its base name.                                               *)
(***************************************************************************)
EXTENDS Naturals, Sequences, FiniteSets

CONSTANTS
    Requests,  \* requests in flight
    Callers,   \* who sends them: the token, and what core knows of its bearer
    Routes     \* where to: middlewares, path parameter, custom role prefix

None == "none"
PromptAdmin == "PROMPT_Admin"
PromptLecturer == "PROMPT_Lecturer"
CourseLecturer == "Lecturer"
CourseEditor == "Editor"
CourseStudent == "Student"
builtInRoles == {PromptAdmin, PromptLecturer, CourseLecturer, CourseEditor, CourseStudent}
Roles == builtInRoles \cup {"Tutors"}

\* The course of the phase: the prefix of the role names core maps it to.
Course == "course-"
RoleNames == {"", Course} \X Roles
\* A token is missing or rejected, lacks the client among its audiences, or
\* names it there without an entry of that client under resource_access.
Credentials == {"missing", "rejected", "otherAudience", "noClientEntry", "valid"}

\* The middlewares of the SDK; only one of them is given roles.
Middlewares == [kind : {"keycloak", "authenticate", "scope", "identify"}, allowed : SUBSET Roles]
authenticate(roles) == [kind |-> "authenticate", allowed |-> roles]
without(kind) == [kind |-> kind, allowed |-> {}]

ASSUME CallersAssumption ==
    \A caller \in Callers :
        /\ caller.credential \in Credentials
        /\ caller.roles \subseteq RoleNames
        /\ caller.student \in {"no", "course", "phase"}
ASSUME RoutesAssumption ==
    \A route \in Routes :
        /\ route.chain \in Seq(Middlewares)
        /\ route.phaseID \in {"malformed", "nil", "set"}  \* path parameter
        /\ route.prefix \in {"", Course}  \* CustomRolePrefix core returns

VARIABLES
    stage,     \* where the request is
    index,     \* the middleware of the chain it is in, or was last in
    caller,    \* its caller
    route,     \* its route
    tokenUser, \* the TokenUser in the context
    resolved,  \* courseRolesResolved
    participation, \* courseParticipationID, the caller's own, is in the context
    status     \* the status it was aborted with, or None

accessVars == <<stage, index, caller, route, tokenUser, resolved, participation, status>>

NoUser == [present |-> FALSE, roles |-> {}, isLecturer |-> FALSE, isEditor |-> FALSE,
           prefix |-> "", isStudent |-> FALSE]
TokenUser == [present : BOOLEAN, roles : SUBSET RoleNames, isLecturer : BOOLEAN,
              isEditor : BOOLEAN, prefix : {"", Course}, isStudent : BOOLEAN]

Authorizing == {"authorize", "courseLookup", "studentLookup"}
Stages == {"idle", "chain", "handler", "writing", "aborted", "panicked", "done"} \cup Authorizing

AccessTypeOK ==
    /\ stage \in [Requests -> Stages]
    /\ index \in [Requests -> Nat]
    /\ DOMAIN caller = Requests /\ DOMAIN route = Requests
    /\ \A r \in Requests : stage[r] # "idle" => index[r] <= Len(route[r].chain)
    /\ \A r \in Requests : stage[r] \in Authorizing => index[r] # 0
    /\ tokenUser \in [Requests -> TokenUser]
    /\ resolved \in [Requests -> BOOLEAN]
    /\ participation \in [Requests -> BOOLEAN]
    /\ status \in [Requests -> {None, "400", "401", "403", "500"}]
    /\ \A r \in Requests : status[r] # None => stage[r] \in {"aborted", "panicked"}

AccessInit ==
    /\ stage = [r \in Requests |-> "idle"]
    /\ index = [r \in Requests |-> 0]
    /\ caller = [r \in Requests |-> None]
    /\ route = [r \in Requests |-> None]
    /\ tokenUser = [r \in Requests |-> NoUser]
    /\ resolved = [r \in Requests |-> FALSE]
    /\ participation = [r \in Requests |-> FALSE]
    /\ status = [r \in Requests |-> None]

----------------------------------------------------------------------------
(* Pure parts. *)

isCustomRole(role) == role \notin builtInRoles

checkDirectRole(role, allowed, roles) == role \in allowed /\ <<"", role>> \in roles

onlyContainsAdminAndLecturer(allowed) == allowed \subseteq {PromptAdmin, PromptLecturer}

requiresLecturerOrCustom(allowed) ==
    \/ {CourseLecturer, CourseEditor} \cap allowed # {}
    \/ \E role \in allowed : isCustomRole(role)

\* Mutated: an empty prefix is used like any other.
matchesCustomRole_AnyPrefix(prefix, allowed, roles) ==
    \E role \in allowed : isCustomRole(role) /\ <<prefix, role>> \in roles

matchesCustomRole(prefix, allowed, roles) ==
    /\ prefix # ""
    /\ \E role \in allowed : isCustomRole(role) /\ <<prefix, role>> \in roles

\* The roles of a verified token: none without the client among its audiences.
checkKeycloakRoles(c) == IF c.credential = "valid" THEN c.roles ELSE {}

\* The grant of step 2, after the course roles are known.
courseGrant(user, allowed) ==
    \/ CourseLecturer \in allowed /\ user.isLecturer
    \/ CourseEditor \in allowed /\ user.isEditor
    \/ matchesCustomRole(user.prefix, allowed, user.roles)

----------------------------------------------------------------------------
(* The requests to core. *)

\* A status, or "broken": no answer, or a 200 whose body does not decode.
CoreAnswers == {"200", "401", "403", "other", "broken"}

NoMapping == [lecturer |-> <<"", "">>, editor |-> <<"", "">>, prefix |-> ""]
failure(error, value) == [error |-> error, value |-> value]

\* Mutated: a denial is an empty mapping instead of an error.
SendCoursePhaseRoleMappingRequest_Open(r, answer) ==
    CASE answer = "403" -> failure(None, NoMapping)
      [] answer = "401" -> failure("ErrUnauthenticated", NoMapping)
      [] answer \in {"other", "broken"} -> failure("unexpected", NoMapping)
      [] OTHER -> [error |-> None, value |-> [lecturer |-> <<Course, CourseLecturer>>,
                      editor |-> <<Course, CourseEditor>>, prefix |-> route[r].prefix]]

\* Any status but 200 is an error: a caller never sees an empty mapping.
SendCoursePhaseRoleMappingRequest(r, answer) ==
    CASE answer = "200" -> [error |-> None, value |-> [lecturer |-> <<Course, CourseLecturer>>,
                      editor |-> <<Course, CourseEditor>>, prefix |-> route[r].prefix]]
      [] answer = "401" -> failure("ErrUnauthenticated", NoMapping)
      [] OTHER -> failure("unexpected", NoMapping)

\* Core answers 200 to students of the course and tells those of the phase
\* apart; only others get 403.
studentAnswers(r) == CoreAnswers \ {IF caller[r].student = "no" THEN "200" ELSE "403"}

SendIsStudentRequest(r, answer) ==
    CASE answer = "200" -> [error |-> None, value |-> caller[r].student = "phase"]
      [] answer = "401" -> failure("ErrUnauthenticated", FALSE)
      [] answer = "403" -> failure("ErrNotStudentOfCourse", FALSE)
      [] OTHER -> failure("unexpected", FALSE)

\* The status for a failed lookup.
lookupStatus(error) == IF error = "ErrUnauthenticated" THEN "401" ELSE "500"

----------------------------------------------------------------------------
(* The chain. *)

abort(r, code) ==
    /\ stage' = [stage EXCEPT ![r] = "aborted"]
    /\ status' = [status EXCEPT ![r] = code]

proceed(r) ==
    /\ stage' = [stage EXCEPT ![r] = "chain"]
    /\ UNCHANGED status

Arrive(r) ==
    /\ stage[r] = "idle"
    /\ stage' = [stage EXCEPT ![r] = "chain"]
    /\ \E c \in Callers : caller' = [caller EXCEPT ![r] = c]
    /\ \E t \in Routes : route' = [route EXCEPT ![r] = t]
    /\ UNCHANGED <<index, tokenUser, resolved, participation, status>>

\* gin calls the handler once the chain is through.
EnterHandler(r) ==
    /\ stage[r] = "chain" /\ index[r] = Len(route[r].chain)
    /\ stage' = [stage EXCEPT ![r] = "handler"]
    /\ UNCHANGED <<index, caller, route, tokenUser, resolved, participation, status>>

\* gin's Context.Next moves on to a middleware of one of the kinds.
next(r, kinds) ==
    /\ stage[r] = "chain" /\ index[r] < Len(route[r].chain)
    /\ route[r].chain[index[r] + 1].kind \in kinds
    /\ index' = [index EXCEPT ![r] = @ + 1]

verifying == {"keycloak", "authenticate"}

\* The roles of the AuthenticationMiddleware the request is in.
allowedRoles(r) == route[r].chain[index[r]].allowed

\* KeycloakMiddleware: 401 for a token it cannot use.
Reject(r) ==
    /\ next(r, verifying)
    /\ caller[r].credential \in {"missing", "rejected"}
    /\ abort(r, "401")
    /\ UNCHANGED <<caller, route, tokenUser, resolved, participation>>

\* checkKeycloakRoles asserts the type of an entry the token does not have;
\* gin's Recovery answers 500.
PanicOnRoles(r) ==
    /\ next(r, verifying)
    /\ caller[r].credential = "noClientEntry"
    /\ stage' = [stage EXCEPT ![r] = "panicked"]
    /\ status' = [status EXCEPT ![r] = "500"]
    /\ UNCHANGED <<caller, route, tokenUser, resolved, participation>>

\* KeycloakMiddleware accepts the token and stores a fresh TokenUser; other
\* keys of the context stay as an earlier middleware left them.
Accept(r) ==
    /\ next(r, verifying)
    /\ caller[r].credential \in {"otherAudience", "valid"}
    /\ tokenUser' = [tokenUser EXCEPT ![r] =
          [NoUser EXCEPT !.present = TRUE, !.roles = checkKeycloakRoles(caller[r])]]
    /\ stage' = [stage EXCEPT ![r] =
          IF route[r].chain[index[r] + 1].kind = "authenticate" THEN "authorize" ELSE "chain"]
    /\ UNCHANGED <<caller, route, resolved, participation, status>>

\* What follows when no course role granted access: step 3, or the denial.
tryStudent(r) ==
    IF CourseStudent \in allowedRoles(r)
      THEN stage' = [stage EXCEPT ![r] = "studentLookup"] /\ UNCHANGED status
      ELSE abort(r, "403")

\* Steps 1 and 2 of authorizationMiddleware, up to the first lookup.
Authorize(r) ==
    LET allowed == allowedRoles(r)
        roles == tokenUser[r].roles
        direct == \/ checkDirectRole(PromptAdmin, allowed, roles)
                  \/ checkDirectRole(PromptLecturer, allowed, roles)
    IN  /\ stage[r] = "authorize"
        /\ \/ direct /\ proceed(r)
           \/ ~direct /\ onlyContainsAdminAndLecturer(allowed) /\ abort(r, "403")
           \/ /\ ~direct /\ ~onlyContainsAdminAndLecturer(allowed)
              /\ IF requiresLecturerOrCustom(allowed)
                   THEN stage' = [stage EXCEPT ![r] = "courseLookup"] /\ UNCHANGED status
                   ELSE tryStudent(r)
        /\ UNCHANGED <<index, caller, route, tokenUser, resolved, participation>>

\* Neither lookup is made without a coursePhaseID that parses and is not nil.
hasPhase(r) == route[r].phaseID = "set"

LookupWithoutPhase(r) ==
    /\ stage[r] \in {"courseLookup", "studentLookup"} /\ ~hasPhase(r)
    /\ abort(r, "400")
    /\ UNCHANGED <<index, caller, route, tokenUser, resolved, participation>>

\* getLecturerAndEditorRole, and the rest of step 2.
CourseLookup(r) ==
    /\ stage[r] = "courseLookup" /\ hasPhase(r)
    /\ \E answer \in CoreAnswers :
         LET result == SendCoursePhaseRoleMappingRequest(r, answer)
             user == [tokenUser[r] EXCEPT
                         !.isLecturer = result.value.lecturer \in tokenUser[r].roles,
                         !.isEditor = result.value.editor \in tokenUser[r].roles,
                         !.prefix = result.value.prefix]
         IN  \/ /\ result.error # None /\ abort(r, lookupStatus(result.error))
                /\ UNCHANGED <<tokenUser, resolved>>
             \/ /\ result.error = None
                /\ tokenUser' = [tokenUser EXCEPT ![r] = user]
                /\ resolved' = [resolved EXCEPT ![r] = TRUE]
                /\ IF courseGrant(user, allowedRoles(r)) THEN proceed(r) ELSE tryStudent(r)
    /\ UNCHANGED <<index, caller, route, participation>>

\* Mutated: students of the course are let in, whatever their phase.
grantStudent_OfCourse(r, result) == result.error = None

grantStudent(r, result) == result.value

\* isStudentOfCoursePhaseMiddleware, and the rest of step 3.  Core's 403 clears
\* the student flags; any 200 leaves the participation of the caller behind.
StudentLookup(r) ==
    /\ stage[r] = "studentLookup" /\ hasPhase(r)
    /\ \E answer \in studentAnswers(r) :
         LET result == SendIsStudentRequest(r, answer)
             known == result.error \in {None, "ErrNotStudentOfCourse"}
         IN  \/ /\ ~known /\ abort(r, lookupStatus(result.error))
                /\ UNCHANGED <<tokenUser, participation>>
             \/ /\ known
                /\ tokenUser' = [tokenUser EXCEPT ![r].isStudent = result.value]
                /\ participation' = [participation EXCEPT ![r] = @ \/ result.error = None]
                /\ IF grantStudent(r, result) THEN proceed(r) ELSE abort(r, "403")
    /\ UNCHANGED <<index, caller, route, resolved>>

\* One step of request r inside AuthenticationMiddleware or between middlewares.
AccessStep(r) ==
    \/ Arrive(r) \/ EnterHandler(r)
    \/ Reject(r) \/ PanicOnRoles(r) \/ Accept(r) \/ Authorize(r)
    \/ LookupWithoutPhase(r) \/ CourseLookup(r) \/ StudentLookup(r)

AccessNext == \E r \in Requests : AccessStep(r)

AccessSpec == AccessInit /\ [][AccessNext]_accessVars

----------------------------------------------------------------------------
(* Properties. *)

\* The reference: whether caller c holds a role on route t, decided from the
\* token and from core alone, without the order of the checks.  A route that
\* names no phase has no course, and so no course roles.
holds(c, t, role) ==
    LET roles == checkKeycloakRoles(c) IN
    \/ role \in {PromptAdmin, PromptLecturer} /\ <<"", role>> \in roles
    \/ /\ t.phaseID = "set"
       /\ \/ role \in {CourseLecturer, CourseEditor} /\ <<Course, role>> \in roles
          \/ role = CourseStudent /\ c.student = "phase"
          \/ isCustomRole(role) /\ t.prefix # "" /\ <<t.prefix, role>> \in roles

\* The i-th middleware of route t has nothing against caller c.
cleared(c, t, i) ==
    LET middleware == t.chain[i] IN
    /\ middleware.kind \in verifying => c.credential \in {"valid", "otherAudience"}
    /\ middleware.kind = "authenticate" => \E role \in middleware.allowed : holds(c, t, role)

\* A handler runs only for a caller who holds one of the roles of every
\* AuthenticationMiddleware in front of it, whatever lookups fail on the way
\* and however many of them a group and its routes stack.
OnlyHoldersAdmitted ==
    \A r \in Requests : stage[r] \in {"handler", "writing", "done"} =>
        \A i \in DOMAIN route[r].chain : cleared(caller[r], route[r], i)

\* "An authenticated caller without any of the allowed roles aborts with 403":
\* and only such a caller does, so no check shadows a later one, and an answer
\* of core that decides nothing is no denial.
DeniedHoldNothing ==
    \A r \in Requests :
        status[r] = "403" /\ route[r].chain[index[r]].kind = "authenticate" =>
            \A role \in allowedRoles(r) : ~holds(caller[r], route[r], role)

\* authMiddleware.go, doc of AuthenticationMiddleware: "Missing or invalid
\* credentials abort with 401", said of the answers that middleware gives.
InvalidCredentialsGet401 ==
    \A r \in Requests :
        /\ status[r] # None /\ route[r].chain[index[r]].kind = "authenticate"
        /\ caller[r].credential \in {"missing", "rejected", "noClientEntry"}
        => status[r] = "401"
=============================================================================
