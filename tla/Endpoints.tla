------------------------------ MODULE Endpoints ------------------------------
(***************************************************************************)
(* The endpoints a phase registers through src/promptTypes, behind the     *)
(* access check of Access: which middlewares each registrar puts in front  *)
(* of its handler, what the handler does with the path, the body and the   *)
(* context, and when it calls the code of the service.  A group may run    *)
(* middlewares of its own before them.                                     *)
(*                                                                         *)
(* `argument` and `outcome` record the call of the service's code, which   *)
(* is outside the repository: it succeeds, returns an error or panics.     *)
(***************************************************************************)
EXTENDS Access

\* A route has one more field: the endpoint registered there.
Endpoint == {"config", "copy", "phaseDeletion", "privacyDeletion", "privacyExport", "info", "owned"}

VARIABLES
    identifiers, \* subjectIdentifiers is in the context
    argument,    \* what the service's code was called with, or None
    outcome,     \* how it ended, or None
    reply        \* the status the endpoint answered with, or None

endpointVars == <<identifiers, argument, outcome, reply>>
vars == <<accessVars, endpointVars>>

Phases == {"nil", "set"}               \* the phase a deletion is for
Subjects == {"subject", "nobody"}      \* identifiers, or both of them nil
Participations == {"own", "foreign"}   \* whose participation a service guards
Arguments == Phases \cup Subjects \cup {"own", "request"}

TypeOK ==
    /\ AccessTypeOK
    /\ identifiers \in [Requests -> BOOLEAN]
    /\ argument \in [Requests -> Arguments \cup {None}]
    /\ outcome \in [Requests -> {"ok", "error", "panic", None}]
    /\ reply \in [Requests -> {"200", "400", "401", "403", "500", None}]
    /\ \A r \in Requests : (argument[r] = None <=> outcome[r] = None)
                           /\ (reply[r] # None <=> stage[r] = "done")

Init ==
    /\ AccessInit
    /\ identifiers = [r \in Requests |-> FALSE]
    /\ argument = [r \in Requests |-> None]
    /\ outcome = [r \in Requests |-> None]
    /\ reply = [r \in Requests |-> None]

----------------------------------------------------------------------------
(* Registration. *)

\* Mutated: editors delete phases too.
ownChain_EditorsDelete(endpoint, roles) ==
    CASE endpoint \in {"config", "copy", "owned"} -> <<authenticate(roles)>>
      [] endpoint = "phaseDeletion" ->
            <<authenticate({PromptAdmin, CourseLecturer, CourseEditor})>>
      [] OTHER -> <<authenticate({PromptAdmin})>>

\* What a registrar puts in front of its handler; only some take roles.
ownChain(endpoint, roles) ==
    CASE endpoint \in {"config", "copy", "owned"} -> <<authenticate(roles)>>
      [] endpoint = "phaseDeletion" -> <<authenticate({PromptAdmin, CourseLecturer})>>
      [] endpoint = "privacyDeletion" -> <<authenticate({PromptAdmin})>>
      [] endpoint = "privacyExport" -> <<without("keycloak"), without("identify")>>
      [] endpoint = "info" -> <<>>

registered(group, endpoint, roles, phaseID, prefix) ==
    [chain |-> group \o ownChain(endpoint, roles), endpoint |-> endpoint,
     phaseID |-> phaseID, prefix |-> prefix]

\* A registrar's own middlewares come last, behind those of the group.
ASSUME RoutesRegistered ==
    \A t \in Routes :
        /\ t.endpoint \in Endpoint
        /\ \E i \in 0 .. Len(t.chain), roles \in SUBSET Roles :
              t.chain = SubSeq(t.chain, 1, i) \o ownChain(t.endpoint, roles)

----------------------------------------------------------------------------
(* SubjectIdentifierMiddleware. *)

\* The error for an answer of core: only a 200 with a body has identifiers.
GetSubjectIdentifiers(answer) ==
    CASE answer = "200" -> None
      [] answer = "401" -> "ErrUnauthorized"
      [] OTHER -> "unexpected"

Identify(r) ==
    /\ next(r, {"identify"})
    /\ \/ caller[r].credential = "missing" /\ abort(r, "401") /\ UNCHANGED identifiers
       \/ /\ caller[r].credential # "missing"
          /\ \E error \in {GetSubjectIdentifiers(answer) : answer \in CoreAnswers} :
                \/ /\ error = None /\ proceed(r)
                   /\ identifiers' = [identifiers EXCEPT ![r] = TRUE]
                \/ /\ error # None /\ UNCHANGED identifiers
                   /\ abort(r, IF error = "ErrUnauthorized" THEN "401" ELSE "500")
    /\ UNCHANGED <<caller, route, tokenUser, resolved, participation, argument, outcome, reply>>

----------------------------------------------------------------------------
(* The handlers. *)

at(r, endpoint) == stage[r] = "handler" /\ route[r].endpoint = endpoint

answer(r, code) ==
    /\ reply' = [reply EXCEPT ![r] = code]
    /\ stage' = [stage EXCEPT ![r] = "done"]
    /\ UNCHANGED status

refuse(r, code) == answer(r, code) /\ UNCHANGED <<argument, outcome>>

\* The service's code runs: 200, or 500 for an error; gin's Recovery answers
\* 500 for a panic.
call(r, with) ==
    /\ argument' = [argument EXCEPT ![r] = with]
    /\ \/ outcome' = [outcome EXCEPT ![r] = "ok"] /\ answer(r, "200")
       \/ outcome' = [outcome EXCEPT ![r] = "error"] /\ answer(r, "500")
       \/ /\ outcome' = [outcome EXCEPT ![r] = "panic"]
          /\ stage' = [stage EXCEPT ![r] = "panicked"]
          /\ status' = [status EXCEPT ![r] = "500"]
          /\ UNCHANGED reply

handlerUnchanged ==
    UNCHANGED <<index, caller, route, tokenUser, resolved, participation, identifiers>>

\* GET /config and GET /info read no input; /info has no service error.
Config(r) == at(r, "config") /\ call(r, "request") /\ handlerUnchanged

Info(r) == at(r, "info") /\ refuse(r, "200") /\ handlerUnchanged

\* Mutated: nothing returns after the answer to a malformed body.
Copy_RunsAnyway(r) ==
    /\ at(r, "copy")
    /\ \/ call(r, "request")
       \/ /\ answer(r, "400") /\ argument' = [argument EXCEPT ![r] = "request"]
          /\ \E o \in {"ok", "error"} : outcome' = [outcome EXCEPT ![r] = o]
    /\ handlerUnchanged

\* POST /copy: 400 for a body that does not bind.
Copy(r) ==
    /\ at(r, "copy")
    /\ \/ refuse(r, "400")
       \/ call(r, "request")
    /\ handlerUnchanged

\* DELETE on the phase: an admin gets here without a lookup, so the parameter
\* is parsed again; the nil UUID parses.
PhaseDeletion(r) ==
    /\ at(r, "phaseDeletion")
    /\ \/ route[r].phaseID \notin Phases /\ refuse(r, "400")
       \/ route[r].phaseID \in Phases /\ call(r, route[r].phaseID)
    /\ handlerUnchanged

\* POST /privacy/data-deletion: a body that binds names a subject, or leaves
\* both identifiers out.
PrivacyDeletion(r) ==
    /\ at(r, "privacyDeletion")
    /\ \/ refuse(r, "400")
       \/ \E subject \in Subjects : call(r, subject)
    /\ handlerUnchanged

\* POST /privacy/data-export up to the export itself, which PrivacyExport models.
Export(r) ==
    /\ at(r, "privacyExport")
    /\ IF identifiers[r] THEN refuse(r, "400") \/ call(r, "subject") ELSE refuse(r, "401")
    /\ handlerUnchanged

\* Mutated: the participation of somebody else is answered like none.
ValidateStudentOwnership_401(r, author) ==
    IF participation[r] /\ author = "own" THEN "200" ELSE "401"

\* Whether the participation named by a request is the caller's.  Only core's
\* answer puts one into the context, as a UUID.
ValidateStudentOwnership(r, author) ==
    CASE ~participation[r] -> "401"
      [] participation[r] /\ author # "own" -> "403"
      [] OTHER -> "200"

\* An endpoint of a service for students' own data.
Owned(r) ==
    /\ at(r, "owned")
    /\ \E author \in Participations :
          LET code == ValidateStudentOwnership(r, author) IN
          IF code = "200" THEN call(r, "own") ELSE refuse(r, code)
    /\ handlerUnchanged

EndpointStep(r) ==
    \/ AccessStep(r) /\ UNCHANGED endpointVars
    \/ Identify(r) \/ Config(r) \/ Info(r) \/ Copy(r) \/ PhaseDeletion(r) \/ PrivacyDeletion(r)
    \/ Export(r) \/ Owned(r)

Next == \E r \in Requests : EndpointStep(r)

Spec == Init /\ [][Next]_vars

----------------------------------------------------------------------------
(* Properties. *)

\* What is deleted is deleted for somebody entitled to it: a subject for an
\* admin, the phase of the path for an admin or a lecturer of its course, and
\* the nil phase, of which nobody is a lecturer, for an admin.  Whatever else
\* the group of the route admits.
EntitledDeletion ==
    \A r \in Requests :
        argument[r] # None /\ route[r].endpoint \in {"phaseDeletion", "privacyDeletion"} =>
            \/ holds(caller[r], route[r], PromptAdmin)
            \/ argument[r] = "set" /\ holds(caller[r], route[r], CourseLecturer)

\* The status tells the caller what happened, wherever in the chain it is
\* decided: 200 that the service's code succeeded, a client error that it was
\* not called at all.
AnswerTruthful ==
    \A r \in Requests :
        /\ reply[r] = "200" /\ route[r].endpoint # "info" => outcome[r] = "ok"
        /\ {reply[r], status[r]} \cap {"400", "401", "403"} # {} => argument[r] = None

\* A student's data is changed only for a student of this very phase, not of
\* another phase of the course: the participation that stands for them is set
\* by every 200 of core.
OwnersOnly ==
    \A r \in Requests : argument[r] = "own" => caller[r].student = "phase"

\* A student of the phase is told "no participation" on a route for students
\* only if another role let them in before core was asked.
OwnersRecognised ==
    \A r \in Requests :
        reply[r] = "401" /\ route[r].endpoint = "owned" =>
            \E role \in allowedRoles(r) \ {CourseStudent} : holds(caller[r], route[r], role)
=============================================================================
