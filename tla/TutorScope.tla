----------------------------- MODULE TutorScope -----------------------------
(***************************************************************************)
(* Tutor scoping (src/tutorscope, tutorScopingMiddleware.go) behind the    *)
(* access check of Access: which teams a course editor reads and writes    *)
(* while tutors are reassigned and participants moved at the same time.    *)
(*                                                                         *)
(* The decisions are taken early in a request and used late: the team is   *)
(* resolved by the middleware, the write scope by AuthorizeWrite, and the  *)
(* database row is changed by one statement that carries the guard.  The   *)
(* handler around them and the tables are the service's; they follow what  *)
(* the documentation of Guard and NewPgxResolver asks of it.               *)
(*                                                                         *)
(* `since`, `unassigned` and `untutored` are history variables: what the   *)
(* tutor table said at any time since a request arrived.                   *)
(***************************************************************************)
EXTENDS Access

CONSTANTS
    Logins,        \* university logins in stored form
    Teams,
    Participants,
    MaxChanges     \* bound: administrative changes of the two tables

\* A caller has one more field: login, the claim of the token, a spelling of
\* a stored login or of the empty one.
EmptyLogin == ""
Spellings == {"stored", "other"} \X (Logins \cup {EmptyLogin})

ASSUME LoginsAssumption == EmptyLogin \notin Logins
ASSUME CallersHaveLogins == \A c \in Callers : c.login \in Spellings
ASSUME TeamsAssumption == {None, "ErrNotATutor", "ErrNoRows"} \cap Teams = {}
ASSUME MaxChangesAssumption == MaxChanges \in Nat

VARIABLES
    applied,  \* tutorScopingApplied
    team,     \* tutorTeamID, or None
    access,   \* the Access of AuthorizeWrite
    denial,   \* its error, or None
    target,   \* the team the write moves its participant into
    subject,  \* the participant
    read,     \* teams whose data the response held
    tutor,    \* tutor table: stored login -> team, or None for no row
    alloc,    \* allocations table: participant -> team, or None for no row
    changes,  \* administrative changes so far
    since,    \* teams the caller has been tutor of since the request arrived
    unassigned,  \* the caller was no tutor at some time since then
    untutored    \* the phase had no tutor at some time since then

scopeVars == <<applied, team, access, denial, target, subject, read>>
tables == <<tutor, alloc, changes>>
history == <<since, unassigned, untutored>>
vars == <<accessVars, scopeVars, tables, history>>

NoAccess == [granted |-> FALSE, confined |-> FALSE, team |-> None]
AccessValue == [granted : BOOLEAN, confined : BOOLEAN, team : Teams \cup {None}]
Denials == {"ErrNotAuthenticated", "ErrWriteDenied", "ErrScopingNotApplied",
            "ErrCourseRolesNotResolved"}

TypeOK ==
    /\ AccessTypeOK
    /\ applied \in [Requests -> BOOLEAN]
    /\ team \in [Requests -> Teams \cup {None}]
    /\ access \in [Requests -> AccessValue]
    /\ denial \in [Requests -> Denials \cup {None}]
    /\ target \in [Requests -> Teams \cup {None}]
    /\ subject \in [Requests -> Participants \cup {None}]
    /\ read \in [Requests -> SUBSET Teams]
    /\ tutor \in [Logins \cup {EmptyLogin} -> Teams \cup {None}]
    /\ alloc \in [Participants -> Teams \cup {None}]
    /\ changes \in 0 .. MaxChanges
    /\ since \in [Requests -> SUBSET Teams]
    /\ unassigned \in [Requests -> BOOLEAN]
    /\ untutored \in [Requests -> BOOLEAN]

Init ==
    /\ AccessInit
    /\ applied = [r \in Requests |-> FALSE]
    /\ team = [r \in Requests |-> None]
    /\ access = [r \in Requests |-> NoAccess]
    /\ denial = [r \in Requests |-> None]
    /\ target = [r \in Requests |-> None]
    /\ subject = [r \in Requests |-> None]
    /\ read = [r \in Requests |-> {}]
    /\ tutor \in [Logins \cup {EmptyLogin} -> Teams \cup {None}]
    /\ alloc \in [Participants -> Teams \cup {None}]
    /\ changes = 0
    /\ since = [r \in Requests |-> {}]
    /\ unassigned = [r \in Requests |-> FALSE]
    /\ untutored = [r \in Requests |-> FALSE]

----------------------------------------------------------------------------
(* Pure parts. *)

Normalize(login) == login[2]

\* Mutated: an empty login is looked up like any other.
ResolveTutorTeam_EmptyMatches(login) ==
    CASE tutor[login] # None -> tutor[login]
      [] tutor[login] = None /\ \E l \in DOMAIN tutor : tutor[l] # None -> "ErrNotATutor"
      [] OTHER -> "ErrNoRows"

\* One query: the team of the login, and whether the phase has tutors at all.
\* An empty login matches no row, not even one stored as the empty string.
ResolveTutorTeam(login) ==
    LET found == login # EmptyLogin /\ tutor[login] # None IN
    CASE found -> tutor[login]
      [] ~found /\ \E l \in DOMAIN tutor : tutor[l] # None -> "ErrNotATutor"
      [] OTHER -> "ErrNoRows"

AllowsTeam(a, t) == a.granted /\ (a.confined => a.team = t)

\* Mutated: the guard of a confined write is dropped.
matchesGuard_None(a, stored) == a.granted

\* The row as stored at write time against the guard in the WHERE clause: NULL
\* matches every team, the nil UUID none.
matchesGuard(a, stored) == a.granted /\ (a.confined => a.team = stored)

\* What AuthorizeWrite decides for request r: an Access, or an error.
denied(error) == [access |-> NoAccess, error |-> error]
granted(a) == [access |-> a, error |-> None]

\* Mutated: the marker is read the wrong way round.
unresolved_Inverted(r) == <<"", PromptLecturer>> \in tokenUser[r].roles /\ resolved[r]

\* Admitted on PROMPT_Lecturer alone, before the roles in the course were known.
unresolved(r) == <<"", PromptLecturer>> \in tokenUser[r].roles /\ ~resolved[r]

AuthorizeWrite(r) ==
    LET user == tokenUser[r]
        unrestricted == <<"", PromptAdmin>> \in user.roles \/ user.isLecturer
    IN
    CASE ~user.present -> denied("ErrNotAuthenticated")
      [] user.present /\ unrestricted ->
            granted([granted |-> TRUE, confined |-> FALSE, team |-> None])
      [] user.present /\ ~unrestricted /\ user.isEditor /\ ~applied[r] ->
            denied("ErrScopingNotApplied")
      [] user.present /\ ~unrestricted /\ user.isEditor /\ applied[r] /\ team[r] # None ->
            granted([granted |-> TRUE, confined |-> TRUE, team |-> team[r]])
      [] user.present /\ ~unrestricted /\ ~user.isEditor /\ unresolved(r) ->
            denied("ErrCourseRolesNotResolved")
      [] OTHER -> denied("ErrWriteDenied")

\* The status the documentation of each error asks a handler to render.
statusOf(error) ==
    CASE error = "ErrNotAuthenticated" -> "401"
      [] error = "ErrWriteDenied" -> "403"
      [] OTHER -> "500"

----------------------------------------------------------------------------
(* The request. *)

noTutors(table) == \A l \in DOMAIN table : table[l] = None

\* The teams of a person in a tutor table: none for a caller without a login.
teamsOf(table, c) ==
    IF Normalize(c.login) = EmptyLogin THEN {} ELSE {table[Normalize(c.login)]} \ {None}

\* A step of Access; the history of a request begins when it arrives.
AccessOf(r) ==
    /\ AccessStep(r)
    /\ IF stage[r] = "idle"
         THEN /\ since' = [since EXCEPT ![r] = teamsOf(tutor, caller'[r])]
              /\ unassigned' = [unassigned EXCEPT ![r] = teamsOf(tutor, caller'[r]) = {}]
              /\ untutored' = [untutored EXCEPT ![r] = noTutors(tutor)]
         ELSE UNCHANGED history
    /\ UNCHANGED <<scopeVars, tables>>

\* TutorScopingMiddleware: only a known editor who is not a lecturer is looked
\* up; a failing query answers 500, an unusable phase id 400.
Scope(r) ==
    LET user == tokenUser[r]
        result == ResolveTutorTeam(Normalize(caller[r].login))
    IN  /\ next(r, {"scope"})
        /\ applied' = [applied EXCEPT ![r] = TRUE]
        /\ \/ /\ ~user.present \/ ~user.isEditor \/ user.isLecturer
              /\ proceed(r) /\ UNCHANGED team
           \/ /\ user.present /\ user.isEditor /\ ~user.isLecturer
              /\ \/ abort(r, IF hasPhase(r) THEN "500" ELSE "400") /\ UNCHANGED team
                 \/ /\ hasPhase(r) /\ result = "ErrNotATutor"
                    /\ abort(r, "403") /\ UNCHANGED team
                 \/ hasPhase(r) /\ result = "ErrNoRows" /\ proceed(r) /\ UNCHANGED team
                 \/ /\ hasPhase(r) /\ result \in Teams /\ proceed(r)
                    /\ team' = [team EXCEPT ![r] = result]
        /\ UNCHANGED <<caller, route, tokenUser, resolved, participation>>
        /\ UNCHANGED <<access, denial, target, subject, read, tables, history>>

\* A reading handler filters by GetTutorTeamID.
Read(r) ==
    /\ stage[r] = "handler"
    /\ read' = [read EXCEPT ![r] = IF team[r] # None THEN {team[r]} ELSE Teams]
    /\ stage' = [stage EXCEPT ![r] = "done"]
    /\ UNCHANGED <<index, caller, route, tokenUser, resolved, participation, status>>
    /\ UNCHANGED <<applied, team, access, denial, target, subject, tables, history>>

\* A writing handler: AuthorizeWrite, then AllowsTeam on the team it moves the
\* participant into.
Authorized(r) ==
    LET decision == AuthorizeWrite(r) IN
    /\ stage[r] = "handler"
    /\ access' = [access EXCEPT ![r] = decision.access]
    /\ denial' = [denial EXCEPT ![r] = decision.error]
    /\ \E p \in Participants, t \in Teams :
         /\ subject' = [subject EXCEPT ![r] = p]
         /\ target' = [target EXCEPT ![r] = t]
         /\ \/ decision.error # None /\ abort(r, statusOf(decision.error))
            \/ decision.error = None /\ ~AllowsTeam(decision.access, t) /\ abort(r, "403")
            \/ /\ decision.error = None /\ AllowsTeam(decision.access, t)
               /\ stage' = [stage EXCEPT ![r] = "writing"] /\ UNCHANGED status
    /\ UNCHANGED <<index, caller, route, tokenUser, resolved, participation>>
    /\ UNCHANGED <<applied, team, read, tables, history>>

\* The guarded UPDATE, or the INSERT ... ON CONFLICT DO UPDATE with the same
\* guard on its conflict; no affected row is a denial of a confined caller.
Write(r) ==
    LET stored == alloc[subject[r]] IN
    /\ stage[r] = "writing"
    /\ \/ /\ stored = None \/ matchesGuard(access[r], stored)
          /\ alloc' = [alloc EXCEPT ![subject[r]] = target[r]]
          /\ stage' = [stage EXCEPT ![r] = "done"] /\ UNCHANGED status
       \/ /\ stored = None \/ ~matchesGuard(access[r], stored)
          /\ UNCHANGED alloc
          /\ IF access[r].confined
               THEN abort(r, "403")
               ELSE stage' = [stage EXCEPT ![r] = "done"] /\ UNCHANGED status
    /\ UNCHANGED <<index, caller, route, tokenUser, resolved, participation>>
    /\ UNCHANGED <<scopeVars, tutor, changes, history>>

----------------------------------------------------------------------------
(* What goes on beside the requests. *)

\* A tutor row is written or deleted; rows keep logins in stored form.
ChangeTutor(l, t) ==
    LET table == [tutor EXCEPT ![l] = t] IN
    /\ changes < MaxChanges /\ changes' = changes + 1
    /\ tutor' = table
    /\ since' = [r \in Requests |->
          IF stage[r] = "idle" THEN since[r] ELSE since[r] \cup teamsOf(table, caller[r])]
    /\ unassigned' = [r \in Requests |->
          unassigned[r] \/ (stage[r] # "idle" /\ teamsOf(table, caller[r]) = {})]
    /\ untutored' = [r \in Requests |-> untutored[r] \/ (stage[r] # "idle" /\ noTutors(table))]
    /\ UNCHANGED <<accessVars, scopeVars, alloc>>

\* Somebody else moves a participant or removes the allocation.
MoveParticipant(p, t) ==
    /\ changes < MaxChanges /\ changes' = changes + 1
    /\ alloc' = [alloc EXCEPT ![p] = t]
    /\ UNCHANGED <<accessVars, scopeVars, tutor, history>>

RequestStep(r) == AccessOf(r) \/ Scope(r) \/ Read(r) \/ Authorized(r) \/ Write(r)

Administration ==
    \E t \in Teams \cup {None} :
        \/ \E l \in Logins \cup {EmptyLogin} : ChangeTutor(l, t)
        \/ \E p \in Participants : MoveParticipant(p, t)

Next == (\E r \in Requests : RequestStep(r)) \/ Administration

Spec == Init /\ [][Next]_vars

----------------------------------------------------------------------------
(* Properties. *)

\* Who may write any team, from the token and the names core maps the course
\* roles to: an admin, or a lecturer of this course.
privileged(c) ==
    {<<"", PromptAdmin>>, <<Course, CourseLecturer>>} \cap checkKeycloakRoles(c) # {}

\* tutorscope's promise for writes, for every wiring of the route: a caller
\* who is neither moves a participant only out of and into a team of which
\* they have been tutor since the request arrived, or picks up one without a
\* team.  However tutors are reassigned and participants moved in between.
ConfinedWrite ==
    [][\A r \in Requests, p \in Participants :
          stage[r] = "writing" /\ stage'[r] = "done" /\ alloc'[p] # alloc[p] =>
              \/ privileged(caller[r])
              \/ alloc[p] \in since[r] \cup {None} /\ alloc'[p] \in since[r]]_vars

\* A route wired as Middleware asks: scoping after authentication, and course
\* roles looked up for everybody it admits.
wired(t) ==
    /\ Len(t.chain) = 2 /\ t.chain[1].kind = "authenticate" /\ t.chain[2].kind = "scope"
    /\ PromptLecturer \notin t.chain[1].allowed /\ requiresLecturerOrCustom(t.chain[1].allowed)

\* tutorscope's promise for reads: behind such a route an editor who is not
\* privileged reads another team only if the phase had no tutors.
ReadsScoped ==
    \A r \in Requests :
        /\ read[r] # {} /\ wired(route[r])
        /\ holds(caller[r], route[r], CourseEditor) /\ ~privileged(caller[r])
        => read[r] \subseteq since[r] \/ untutored[r]

\* The roles a route admits that authenticates once, before anything else.
admits(t) == t.chain[1].allowed
authenticatesFirst(t) ==
    /\ t.chain[1].kind = "authenticate"
    /\ \A i \in 2 .. Len(t.chain) : t.chain[i].kind \notin verifying

\* A lecturer of the course whom the route admits as one, or as a global
\* lecturer, and an editor who was a tutor throughout, are never told they may
\* not write: if they do not get access it is a wiring error.  A route that
\* authenticates again keeps the marker of the first lookup with the zero
\* values of the second TokenUser, and is left out.
LegitimateNotDenied ==
    \A r \in Requests :
        denial[r] = "ErrWriteDenied" /\ authenticatesFirst(route[r]) =>
            /\ ~(/\ holds(caller[r], route[r], CourseLecturer)
                 /\ \/ CourseLecturer \in admits(route[r])
                    \/ PromptLecturer \in admits(route[r]) /\ holds(caller[r], route[r], PromptLecturer))
            /\ ~(/\ holds(caller[r], route[r], CourseEditor) /\ ~unassigned[r]
                 /\ requiresLecturerOrCustom(admits(route[r])))
=============================================================================
