-------------------------- MODULE TutorScopeProofs --------------------------
(***************************************************************************)
(* Proofs about TutorScope: the types, and the write confinement for any   *)
(* number of requests, callers, wirings, teams and administrative changes. *)
(***************************************************************************)
EXTENDS TutorScope, AccessProofs

----------------------------------------------------------------------------
(* Types, and what Access knows of its requests. *)

LEMMA TeamsOfTyped ==
    ASSUME NEW table \in [Logins \cup {EmptyLogin} -> Teams \cup {None}], NEW c \in Callers
    PROVE  teamsOf(table, c) \subseteq Teams
BY CallersHaveLogins DEF teamsOf, Normalize, Spellings

LEMMA DecisionTyped ==
    ASSUME TypeOK, NEW r \in Requests
    PROVE  /\ AuthorizeWrite(r).access \in AccessValue
           /\ AuthorizeWrite(r).error \in Denials \cup {None}
<1>1. team[r] \in Teams \cup {None}
  BY DEF TypeOK
<1>2. \A e \in Denials : denied(e).access \in AccessValue /\ denied(e).error \in Denials \cup {None}
  BY DEF denied, NoAccess, AccessValue
<1>3. \A a \in AccessValue : granted(a).access \in AccessValue /\ granted(a).error = None
  BY DEF granted
<1>4. /\ [granted |-> TRUE, confined |-> FALSE, team |-> None] \in AccessValue
      /\ [granted |-> TRUE, confined |-> TRUE, team |-> team[r]] \in AccessValue
  BY <1>1 DEF AccessValue
<1>5. \/ \E e \in Denials : AuthorizeWrite(r) = denied(e)
      \/ \E a \in AccessValue : AuthorizeWrite(r) = granted(a)
  BY <1>4 DEF AuthorizeWrite, Denials
<1> QED
  BY <1>2, <1>3, <1>5

\* A step of Access out of the initial stage is an arrival.
LEMMA OnlyArrivals ==
    ASSUME NEW r \in Requests, AccessStep(r), stage[r] = "idle" PROVE Arrive(r)
BY DEF AccessStep, EnterHandler, Reject, PanicOnRoles, Accept, next, Authorize,
       LookupWithoutPhase, CourseLookup, StudentLookup

\* The steps of the handler change the stage and the status alone.
LEMMA HandlerSteps ==
    ASSUME NEW r \in Requests, Read(r) \/ Authorized(r) \/ Write(r)
    PROVE  /\ stage[r] \in {"handler", "writing"}
           /\ UNCHANGED <<index, caller, route, tokenUser, resolved, participation>>
           /\ \/ /\ \E s \in {"writing", "done"} : stage' = [stage EXCEPT ![r] = s]
                 /\ UNCHANGED status
              \/ \E code \in {"400", "401", "403", "500"} : abort(r, code)
<1>1. CASE Read(r)
  BY <1>1 DEF Read
<1>2. CASE Authorized(r)
  BY <1>2 DEF Authorized, statusOf
<1>3. CASE Write(r)
  BY <1>3 DEF Write
<1> QED
  BY <1>1, <1>2, <1>3

LEMMA AccessKept == AccessInv /\ [Next]_vars => AccessInv'
<1> SUFFICES ASSUME AccessInv, [Next]_vars PROVE AccessInv'
  OBVIOUS
<1>0. AccessTypeOK
  BY DEF AccessInv
<1>1. ASSUME NEW r \in Requests, AccessOf(r) PROVE AccessInv'
  BY <1>1, AccessStepSound DEF AccessOf
<1>2. ASSUME NEW r \in Requests, Scope(r) PROVE AccessInv'
  <2>1. /\ next(r, {"scope"}) /\ {"scope"} \cap verifying = {}
        /\ UNCHANGED <<caller, route, tokenUser, resolved, participation>>
        /\ proceed(r) \/ \E code \in {"400", "401", "403", "500"} : abort(r, code)
    BY <1>2 DEF Scope, verifying
  <2>2. AccessTypeOK'
    BY <2>1, NextTypes
  <2>3. SoundAt(r)' /\ Others(r)
    BY <2>1, NextSound
  <2> QED
    BY <2>2, <2>3, OthersKept DEF AccessInv
<1>3. ASSUME NEW r \in Requests, Read(r) \/ Authorized(r) \/ Write(r) PROVE AccessInv'
  <2>1. AccessTypeOK'
    BY <1>0, <1>3, HandlerSteps, HandlerTypes
  <2>2. SoundAt(r)' /\ Others(r)
    <3>1. PICK s \in {"writing", "done", "aborted", "panicked"} : stage' = [stage EXCEPT ![r] = s]
      BY <1>3, HandlerSteps DEF abort
    <3>2. \A q \in Requests \ {r} : status'[q] = status[q]
      BY <1>0, <1>3, HandlerSteps DEF abort, AccessTypeOK
    <3> QED
      BY <1>3, <3>1, <3>2, HandlerSteps, HandlerSound
  <2> QED
    BY <2>1, <2>2, OthersKept DEF AccessInv
<1>4. ASSUME UNCHANGED accessVars PROVE AccessInv'
  BY <1>4 DEF accessVars, AccessInv, AccessTypeOK, SoundAt
<1> QED
  BY <1>1, <1>2, <1>3, <1>4 DEF Next, RequestStep, Administration, ChangeTutor, MoveParticipant, vars

LEMMA TypesKept == TypeOK /\ AccessInv /\ [Next]_vars => TypeOK'
<1> SUFFICES ASSUME TypeOK, AccessInv, [Next]_vars PROVE TypeOK'
  OBVIOUS
<1>0. AccessTypeOK'
  BY AccessKept DEF AccessInv
<1> USE DEF TypeOK
<1>1. ASSUME NEW r \in Requests, AccessOf(r) PROVE TypeOK'
  <2>1. CASE stage[r] = "idle"
    <3>1. Arrive(r)
      BY <1>1, <2>1, OnlyArrivals DEF AccessOf
    <3>2. caller'[r] \in Callers
      BY <3>1 DEF Arrive, AccessTypeOK
    <3>3. teamsOf(tutor, caller'[r]) \subseteq Teams
      BY <3>2, TeamsOfTyped
    <3>4. (teamsOf(tutor, caller'[r]) = {}) \in BOOLEAN /\ noTutors(tutor) \in BOOLEAN
      BY DEF noTutors
    <3>5. since' \in [Requests -> SUBSET Teams]
      BY <1>1, <2>1, <3>3 DEF AccessOf
    <3> QED
      BY <1>0, <1>1, <2>1, <3>4, <3>5 DEF AccessOf, scopeVars, tables
  <2>2. CASE stage[r] # "idle"
    BY <1>0, <1>1, <2>2 DEF AccessOf, scopeVars, tables, history
  <2> QED
    BY <2>1, <2>2
<1>2. ASSUME NEW r \in Requests, Scope(r) PROVE TypeOK'
  <2>1. team' \in [Requests -> Teams \cup {None}] /\ applied' \in [Requests -> BOOLEAN]
    BY <1>2 DEF Scope
  <2> QED
    BY <1>0, <1>2, <2>1 DEF Scope, tables, history
<1>3. ASSUME NEW r \in Requests, Read(r) PROVE TypeOK'
  BY <1>0, <1>3 DEF Read, tables, history
<1>4. ASSUME NEW r \in Requests, Authorized(r) PROVE TypeOK'
  <2>1. access' \in [Requests -> AccessValue] /\ denial' \in [Requests -> Denials \cup {None}]
    BY <1>4, DecisionTyped DEF Authorized
  <2>2. target' \in [Requests -> Teams \cup {None}] /\ subject' \in [Requests -> Participants \cup {None}]
    BY <1>4 DEF Authorized
  <2> QED
    BY <1>0, <1>4, <2>1, <2>2 DEF Authorized, tables, history
<1>5. ASSUME NEW r \in Requests, Write(r) PROVE TypeOK'
  <2>1. alloc' \in [Participants -> Teams \cup {None}]
    BY <1>5 DEF Write
  <2> QED
    BY <1>0, <1>5, <2>1 DEF Write, scopeVars, history
<1>6. ASSUME NEW l \in Logins \cup {EmptyLogin}, NEW t \in Teams \cup {None}, ChangeTutor(l, t)
      PROVE  TypeOK'
  <2>1. tutor' \in [Logins \cup {EmptyLogin} -> Teams \cup {None}]
    BY <1>6 DEF ChangeTutor
  <2>2. \A r \in Requests : stage[r] # "idle" => caller[r] \in Callers
    BY DEF AccessInv, SoundAt, Sound
  <2>3. \A r \in Requests : stage[r] # "idle" => teamsOf(tutor', caller[r]) \subseteq Teams
    BY <2>1, <2>2, TeamsOfTyped
  <2>4. since' \in [Requests -> SUBSET Teams]
    BY <1>6, <2>3 DEF ChangeTutor
  <2>5. unassigned' \in [Requests -> BOOLEAN] /\ untutored' \in [Requests -> BOOLEAN]
    BY <1>6 DEF ChangeTutor
  <2>6. changes' \in 0 .. MaxChanges
    BY <1>6, MaxChangesAssumption DEF ChangeTutor
  <2> QED
    BY <1>0, <1>6, <2>1, <2>4, <2>5, <2>6 DEF ChangeTutor, scopeVars
<1>7. ASSUME NEW p \in Participants, NEW t \in Teams \cup {None}, MoveParticipant(p, t)
      PROVE  TypeOK'
  BY <1>0, <1>7, MaxChangesAssumption DEF MoveParticipant, scopeVars, history
<1>8. CASE UNCHANGED vars
  BY <1>0, <1>8 DEF vars, scopeVars, tables, history
<1> QED
  BY <1>1, <1>2, <1>3, <1>4, <1>5, <1>6, <1>7, <1>8 DEF Next, RequestStep, Administration

LEMMA InitTyped == Init => TypeOK /\ AccessInv
<1> SUFFICES ASSUME Init PROVE TypeOK /\ AccessInv
  OBVIOUS
<1>1. AccessInv /\ AccessTypeOK
  BY AccessInitSound DEF Init, AccessInv
<1>2. NoAccess \in AccessValue
  BY DEF NoAccess, AccessValue
<1> QED
  BY <1>1, <1>2, MaxChangesAssumption DEF Init, TypeOK

\* Every variable keeps its type, and a request that got a status is over.
THEOREM TypeCorrect == Spec => []TypeOK
BY InitTyped, TypesKept, AccessKept, PTL DEF Spec

----------------------------------------------------------------------------
(* Confinement of writes. *)

\* A request that has not arrived has nothing in its context.
Blank == \A r \in Requests : stage[r] = "idle" => team[r] = None

\* The TokenUser never claims more than the verified token.
UserTrue ==
    \A r \in Requests :
        /\ tokenUser[r].roles \subseteq checkKeycloakRoles(caller[r])
        /\ tokenUser[r].isLecturer => <<Course, CourseLecturer>> \in tokenUser[r].roles

\* A resolved team is one the caller was tutor of since the request arrived.
TeamHeld == \A r \in Requests : team[r] # None => team[r] \in since[r]

\* A write under way has a scope: the caller's own team, or any for a privileged one.
WriteScoped ==
    \A r \in Requests : stage[r] = "writing" =>
        /\ access[r].confined => access[r].team \in since[r] /\ target[r] = access[r].team
        /\ ~access[r].confined => privileged(caller[r])

\* The history of a request holds what the tutor table says now.
HistoryCurrent ==
    \A r \in Requests : stage[r] # "idle" => teamsOf(tutor, caller[r]) \subseteq since[r]

Confinement == TypeOK /\ AccessInv /\ Blank /\ HistoryCurrent /\ TeamHeld /\ WriteScoped

LEMMA UserIsTrue == AccessInv => UserTrue
<1> SUFFICES ASSUME AccessInv, NEW r \in Requests
             PROVE  /\ tokenUser[r].roles \subseteq checkKeycloakRoles(caller[r])
                    /\ tokenUser[r].isLecturer => <<Course, CourseLecturer>> \in tokenUser[r].roles
  BY DEF UserTrue
<1>1. SoundAt(r)
  BY DEF AccessInv
<1>2. CASE stage[r] = "idle"
  <2>1. tokenUser[r] = NoUser
    BY <1>1, <1>2 DEF SoundAt, Sound
  <2>2. NoUser.roles = {} /\ ~NoUser.isLecturer
    BY DEF NoUser
  <2> QED
    BY <2>1, <2>2
<1>3. CASE stage[r] # "idle"
  BY <1>1, <1>3 DEF SoundAt, Sound
<1> QED
  BY <1>2, <1>3

LEMMA ConfinementInit == Init => Confinement
<1> SUFFICES ASSUME Init PROVE Confinement
  OBVIOUS
<1>1. TypeOK /\ AccessInv
  BY InitTyped
<1>2. Blank /\ HistoryCurrent /\ TeamHeld /\ WriteScoped
  BY DEF Init, AccessInit, Blank, HistoryCurrent, TeamHeld, WriteScoped
<1> QED
  BY <1>1, <1>2 DEF Confinement

\* A team the resolver returns is the caller's team at that moment.
LEMMA ResolvedHeld ==
    ASSUME NEW c, NEW t \in Teams, ResolveTutorTeam(Normalize(c.login)) = t
    PROVE  t \in teamsOf(tutor, c)
BY TeamsAssumption DEF ResolveTutorTeam, teamsOf

\* The scope AuthorizeWrite decides on.
LEMMA ScopeDecided ==
    ASSUME Confinement, NEW r \in Requests, AuthorizeWrite(r).error = None
    PROVE  LET a == AuthorizeWrite(r).access IN
           /\ a.granted
           /\ a.confined => a.team \in since[r]
           /\ ~a.confined => privileged(caller[r])
<1>1. \A e \in Denials : denied(e).error # None
  BY DEF denied, Denials, None
<1>2. CASE <<"", PromptAdmin>> \in tokenUser[r].roles \/ tokenUser[r].isLecturer
  <2>1. privileged(caller[r])
    BY <1>2, UserIsTrue DEF Confinement, UserTrue, privileged
  <2>2. \/ \E e \in Denials : AuthorizeWrite(r) = denied(e)
        \/ AuthorizeWrite(r) = granted([granted |-> TRUE, confined |-> FALSE, team |-> None])
    BY <1>2 DEF AuthorizeWrite, Denials
  <2> QED
    BY <1>1, <2>1, <2>2 DEF granted
<1>3. CASE ~(<<"", PromptAdmin>> \in tokenUser[r].roles \/ tokenUser[r].isLecturer)
  <2>1. \/ \E e \in Denials : AuthorizeWrite(r) = denied(e)
        \/ /\ team[r] # None
           /\ AuthorizeWrite(r) = granted([granted |-> TRUE, confined |-> TRUE, team |-> team[r]])
    BY <1>3 DEF AuthorizeWrite, Denials
  <2> QED
    BY <1>1, <2>1 DEF granted, Confinement, TeamHeld
<1> QED
  BY <1>2, <1>3

LEMMA ConfinementKept == Confinement /\ [Next]_vars => Confinement'
<1> SUFFICES ASSUME Confinement, [Next]_vars PROVE Confinement'
  OBVIOUS
<1>0. TypeOK /\ TypeOK' /\ AccessInv'
  BY TypesKept, AccessKept DEF Confinement
<1> USE DEF Confinement
<1>1. ASSUME NEW r \in Requests, AccessOf(r) PROVE Confinement'
  <2>0. UNCHANGED <<team, access, target>> /\ AccessStep(r)
    BY <1>1 DEF AccessOf, scopeVars
  <2>1. CASE stage[r] = "idle"
    <3>1. Arrive(r)
      BY <2>0, <2>1, OnlyArrivals
    <3>2. /\ stage' = [stage EXCEPT ![r] = "chain"]
          /\ \A q \in Requests \ {r} : caller'[q] = caller[q] /\ since'[q] = since[q]
      BY <1>0, <1>1, <2>1, <3>1 DEF Arrive, AccessOf, TypeOK, AccessTypeOK
    <3>3. team[r] = None
      BY <2>1 DEF Blank
    <3>4. Blank' /\ TeamHeld'
      BY <1>0, <2>0, <3>2, <3>3 DEF Blank, TeamHeld, TypeOK, AccessTypeOK
    <3>5. WriteScoped'
      BY <1>0, <2>0, <3>2 DEF WriteScoped, TypeOK, AccessTypeOK
    <3>6. HistoryCurrent'
      BY <1>0, <1>1, <2>1, <3>2 DEF AccessOf, tables, HistoryCurrent, TypeOK, AccessTypeOK
    <3> QED
      BY <1>0, <3>4, <3>5, <3>6
  <2>2. CASE stage[r] # "idle"
    <3>1. UNCHANGED <<caller, since>>
      BY <1>1, <2>0, <2>2 DEF AccessOf, history, AccessStep, Arrive, EnterHandler, Reject,
         PanicOnRoles, Accept, Authorize, LookupWithoutPhase, CourseLookup, StudentLookup
    <3>2. \E s \in Stages \ {"idle", "writing"} : stage' = [stage EXCEPT ![r] = s]
      BY <2>0, <2>2 DEF AccessStep, Arrive, EnterHandler, Reject, PanicOnRoles, Accept, Authorize,
         LookupWithoutPhase, CourseLookup, StudentLookup, proceed, abort, tryStudent, Stages, Authorizing
    <3>3. TeamHeld' /\ WriteScoped' /\ Blank'
      BY <1>0, <2>0, <2>2, <3>1, <3>2 DEF TeamHeld, WriteScoped, Blank, TypeOK, AccessTypeOK
    <3>4. HistoryCurrent'
      BY <1>0, <1>1, <2>2, <3>1, <3>2 DEF AccessOf, tables, HistoryCurrent, TypeOK, AccessTypeOK
    <3> QED
      BY <1>0, <3>3, <3>4
  <2> QED
    BY <2>1, <2>2
<1>2. ASSUME NEW r \in Requests, Scope(r) PROVE Confinement'
  <2>1. UNCHANGED <<caller, since, access, target>>
    BY <1>2 DEF Scope, history
  <2>2. \E s \in Stages \ {"idle", "writing"} : stage' = [stage EXCEPT ![r] = s]
    BY <1>2 DEF Scope, proceed, abort, Stages
  <2>3. stage[r] = "chain"
    BY <1>2 DEF Scope, next
  <2>4. \/ team' = team
        \/ \E t \in Teams : /\ team' = [team EXCEPT ![r] = t]
                            /\ t = ResolveTutorTeam(Normalize(caller[r].login))
    BY <1>2 DEF Scope
  <2>5. TeamHeld'
    <3>1. ASSUME NEW t \in Teams, team' = [team EXCEPT ![r] = t],
                 t = ResolveTutorTeam(Normalize(caller[r].login))
          PROVE  TeamHeld'
      <4>1. t \in since[r]
        BY <2>3, <3>1, ResolvedHeld DEF HistoryCurrent
      <4> QED
        BY <1>0, <2>1, <3>1, <4>1 DEF TeamHeld, TypeOK
    <3> QED
      BY <2>1, <2>4, <3>1 DEF TeamHeld
  <2>6. Blank'
    BY <1>0, <2>1, <2>2, <2>3, <2>4 DEF Blank, TypeOK, AccessTypeOK
  <2>7. WriteScoped'
    BY <1>0, <2>1, <2>2 DEF WriteScoped, TypeOK, AccessTypeOK
  <2>8. HistoryCurrent'
    BY <1>0, <1>2, <2>1, <2>2, <2>3 DEF Scope, tables, HistoryCurrent, TypeOK, AccessTypeOK
  <2> QED
    BY <1>0, <2>5, <2>6, <2>7, <2>8
<1>3. ASSUME NEW r \in Requests, Read(r) PROVE Confinement'
  <2>1. /\ UNCHANGED <<caller, since, access, target, team, tutor>>
        /\ stage[r] = "handler" /\ stage' = [stage EXCEPT ![r] = "done"]
    BY <1>3 DEF Read, history, tables
  <2> QED
    BY <1>0, <2>1 DEF Blank, HistoryCurrent, TeamHeld, WriteScoped, TypeOK, AccessTypeOK
<1>4. ASSUME NEW r \in Requests, Authorized(r) PROVE Confinement'
  <2> DEFINE decision == AuthorizeWrite(r)
  <2>1. /\ UNCHANGED <<caller, since, team, tutor>>
        /\ access' = [access EXCEPT ![r] = decision.access]
    BY <1>4 DEF Authorized, history, tables
  <2>2. PICK t \in Teams :
           /\ target' = [target EXCEPT ![r] = t]
           /\ \/ decision.error # None /\ abort(r, statusOf(decision.error))
              \/ decision.error = None /\ ~AllowsTeam(decision.access, t) /\ abort(r, "403")
              \/ /\ decision.error = None /\ AllowsTeam(decision.access, t)
                 /\ stage' = [stage EXCEPT ![r] = "writing"] /\ UNCHANGED status
    BY <1>4 DEF Authorized
  <2>3. stage[r] = "handler" /\ \E s \in {"aborted", "writing"} : stage' = [stage EXCEPT ![r] = s]
    BY <1>4, <2>2 DEF Authorized, abort
  <2>4. Blank' /\ HistoryCurrent' /\ TeamHeld'
    BY <1>0, <2>1, <2>3 DEF Blank, HistoryCurrent, TeamHeld, TypeOK, AccessTypeOK
  <2>5. stage'[r] = "writing" =>
           /\ access'[r].confined => access'[r].team \in since[r] /\ target'[r] = access'[r].team
           /\ ~access'[r].confined => privileged(caller[r])
    <3> SUFFICES ASSUME stage'[r] = "writing"
                 PROVE  /\ access'[r].confined => access'[r].team \in since[r] /\ target'[r] = access'[r].team
                        /\ ~access'[r].confined => privileged(caller[r])
      OBVIOUS
    <3>1. decision.error = None /\ AllowsTeam(decision.access, target'[r])
      BY <1>0, <2>2 DEF abort, TypeOK, AccessTypeOK
    <3>2. access'[r] = decision.access
      BY <1>0, <2>1 DEF TypeOK
    <3> QED
      BY <3>1, <3>2, ScopeDecided DEF AllowsTeam
  <2>6. WriteScoped'
    BY <1>0, <2>1, <2>2, <2>3, <2>5 DEF WriteScoped, TypeOK, AccessTypeOK
  <2> QED
    BY <1>0, <2>4, <2>6
<1>5. ASSUME NEW r \in Requests, Write(r) PROVE Confinement'
  <2>1. /\ UNCHANGED <<caller, since, access, target, team, tutor>>
        /\ stage[r] = "writing"
        /\ \E s \in {"aborted", "done"} : stage' = [stage EXCEPT ![r] = s]
    BY <1>5 DEF Write, history, scopeVars, abort
  <2> QED
    BY <1>0, <2>1 DEF Blank, HistoryCurrent, TeamHeld, WriteScoped, TypeOK, AccessTypeOK
<1>6. ASSUME NEW l \in Logins \cup {EmptyLogin}, NEW t \in Teams \cup {None}, ChangeTutor(l, t)
      PROVE  Confinement'
  <2>1. UNCHANGED <<stage, caller, access, target, team>>
    BY <1>6 DEF ChangeTutor, accessVars, scopeVars
  <2>2. \A r \in Requests : stage[r] # "idle" =>
           since[r] \subseteq since'[r] /\ teamsOf(tutor', caller[r]) \subseteq since'[r]
    BY <1>6 DEF ChangeTutor
  <2>3. HistoryCurrent'
    BY <2>1, <2>2 DEF HistoryCurrent
  <2>4. Blank'
    BY <2>1 DEF Blank
  <2>5. TeamHeld' /\ WriteScoped'
    BY <1>0, <2>1, <2>2 DEF Blank, TeamHeld, WriteScoped
  <2> QED
    BY <1>0, <2>3, <2>4, <2>5
<1>7. ASSUME NEW p \in Participants, NEW t \in Teams \cup {None}, MoveParticipant(p, t)
      PROVE  Confinement'
  <2>1. UNCHANGED <<stage, caller, access, target, team, tutor, since>>
    BY <1>7 DEF MoveParticipant, accessVars, scopeVars, history
  <2> QED
    BY <1>0, <2>1 DEF Blank, HistoryCurrent, TeamHeld, WriteScoped
<1>8. CASE UNCHANGED vars
  BY <1>0, <1>8 DEF vars, accessVars, scopeVars, tables, history, Blank, HistoryCurrent,
     TeamHeld, WriteScoped
<1> QED
  BY <1>1, <1>2, <1>3, <1>4, <1>5, <1>6, <1>7, <1>8 DEF Next, RequestStep, Administration

\* A step that ends a write and changes a row is that write.
LEMMA WriteConfined ==
    ASSUME Confinement, [Next]_vars, NEW r \in Requests, NEW p \in Participants,
           stage[r] = "writing", stage'[r] = "done", alloc'[p] # alloc[p]
    PROVE  \/ privileged(caller[r])
           \/ alloc[p] \in since[r] \cup {None} /\ alloc'[p] \in since[r]
<1> USE DEF Confinement
<1>1. CASE \E q \in Requests : Write(q)
  <2>1. PICK q \in Requests : Write(q)
    BY <1>1
  <2>2. q = r
    BY <2>1 DEF Write, abort, TypeOK, AccessTypeOK
  <2>3. /\ p = subject[r] /\ alloc'[p] = target[r]
        /\ alloc[p] = None \/ matchesGuard(access[r], alloc[p])
    BY <2>1, <2>2 DEF Write, TypeOK
  <2> QED
    BY <2>3 DEF matchesGuard, WriteScoped
<1>2. CASE \E l \in Logins \cup {EmptyLogin}, t \in Teams \cup {None} : ChangeTutor(l, t)
  BY <1>2 DEF ChangeTutor
<1>3. CASE \E q \in Participants, t \in Teams \cup {None} : MoveParticipant(q, t)
  BY <1>3 DEF MoveParticipant, accessVars
<1>4. CASE \E q \in Requests : AccessOf(q) \/ Scope(q) \/ Read(q) \/ Authorized(q)
  BY <1>4 DEF AccessOf, Scope, Read, Authorized, tables
<1>5. CASE UNCHANGED vars
  BY <1>5 DEF vars, tables
<1> QED
  BY <1>1, <1>2, <1>3, <1>4, <1>5 DEF Next, RequestStep, Administration

\* Whatever the wiring of the route and whatever happens to the two tables
\* during the request, AuthorizeWrite, AllowsTeam and the guard together keep
\* the writes of a caller who is not privileged inside the teams they held.
THEOREM WritesConfined == Spec => ConfinedWrite
<1>1. Confinement /\ [Next]_vars =>
         [\A r \in Requests, p \in Participants :
             stage[r] = "writing" /\ stage'[r] = "done" /\ alloc'[p] # alloc[p] =>
                 \/ privileged(caller[r])
                 \/ alloc[p] \in since[r] \cup {None} /\ alloc'[p] \in since[r]]_vars
  BY WriteConfined
<1> QED
  BY <1>1, ConfinementInit, ConfinementKept, PTL DEF Spec, ConfinedWrite
----------------------------------------------------------------------------
(* What a caller is shown, and told. *)

\* No lookup of course roles was needed: none is listed, or a global role was held.
Unlooked(t, u) ==
    \/ ~requiresLecturerOrCustom(admits(t))
    \/ \E role \in {PromptAdmin, PromptLecturer} \cap admits(t) : <<"", role>> \in u.roles

\* On a route that authenticates first, the marker tells whether the flags of
\* the TokenUser are known; s, i, t, u and known are those of a request.
Knows(s, i, t, u, known) ==
    s \notin {"idle", "aborted", "panicked"} /\ authenticatesFirst(t) =>
        /\ i = 0 => ~u.present /\ ~known
        /\ i # 0 => u.present
        /\ known => /\ u.isLecturer <=> <<Course, CourseLecturer>> \in u.roles
                    /\ u.isEditor <=> <<Course, CourseEditor>> \in u.roles
        /\ ~known => ~u.isEditor /\ ~u.isLecturer
        /\ s \in {"authorize", "courseLookup"} => ~known
        /\ i # 0 /\ s \notin {"authorize", "courseLookup"} => known \/ Unlooked(t, u)

KnowsAt(r) == Knows(stage[r], index[r], route[r], tokenUser[r], resolved[r])

\* The scoping marker stands for a scoping middleware that was passed.
AppliedAt(r) ==
    stage[r] # "idle" =>
        (applied[r] <=> \E i \in 1 .. index[r] : route[r].chain[i].kind = "scope")

\* A scoped editor without a team was no tutor when that was looked up, and
\* nobody was.
ScopedAt(r) ==
    /\ stage[r] \notin {"idle", "aborted", "panicked"} /\ authenticatesFirst(route[r])
    /\ applied[r] /\ tokenUser[r].isEditor /\ ~tokenUser[r].isLecturer /\ team[r] = None
    => unassigned[r] /\ untutored[r]

\* The history of a request tells of an empty tutor table, and of no team.
HistoryTold(r) ==
    stage[r] # "idle" =>
        /\ teamsOf(tutor, caller[r]) = {} => unassigned[r]
        /\ noTutors(tutor) => untutored[r]

\* The two properties, of one request.
ReadScoped(r) ==
    /\ read[r] # {} /\ wired(route[r])
    /\ holds(caller[r], route[r], CourseEditor) /\ ~privileged(caller[r])
    => read[r] \subseteq since[r] \/ untutored[r]
NotDenied(r) ==
    denial[r] = "ErrWriteDenied" /\ authenticatesFirst(route[r]) =>
        /\ ~(/\ holds(caller[r], route[r], CourseLecturer)
             /\ \/ CourseLecturer \in admits(route[r])
                \/ PromptLecturer \in admits(route[r]) /\ holds(caller[r], route[r], PromptLecturer))
        /\ ~(/\ holds(caller[r], route[r], CourseEditor) /\ ~unassigned[r]
             /\ requiresLecturerOrCustom(admits(route[r])))

Told(r) ==
    /\ stage[r] = "idle" => ~resolved[r] /\ ~applied[r] /\ read[r] = {} /\ denial[r] = None
    /\ KnowsAt(r) /\ AppliedAt(r) /\ ScopedAt(r) /\ HistoryTold(r) /\ ReadScoped(r) /\ NotDenied(r)

Knowledge == Confinement /\ \A r \in Requests : Told(r)

\* The middleware of an authorizing request is the first one of such a route.
LEMMA OnlyFirst ==
    ASSUME AccessInv, NEW r \in Requests, stage[r] \in Authorizing, authenticatesFirst(route[r])
    PROVE  index[r] = 1 /\ allowedRoles(r) = admits(route[r])
<1>1. /\ route[r] \in Routes /\ index[r] \in 0 .. Len(route[r].chain) /\ index[r] # 0
      /\ route[r].chain[index[r]].kind = "authenticate"
  BY DEF AccessInv, SoundAt, Sound, Authorizing
<1>2. Len(route[r].chain) \in Nat
  BY <1>1, LengthTyped
<1> QED
  BY <1>1, <1>2 DEF authenticatesFirst, verifying, allowedRoles, admits

LEMMA AuthorizeKnows ==
    ASSUME AccessInv, NEW r \in Requests, KnowsAt(r), Authorize(r)
    PROVE  KnowsAt(r)'
<1>1. AccessTypeOK /\ stage[r] = "authorize" /\ stage[r] \in Authorizing
      /\ UNCHANGED <<index, route, tokenUser, resolved>>
  BY DEF AccessInv, Authorize, Authorizing
<1> DEFINE t == route[r]  u == tokenUser[r]
<1> SUFFICES ASSUME authenticatesFirst(t), stage'[r] \notin {"aborted", "panicked"}
             PROVE  KnowsAt(r)'
  BY <1>1 DEF KnowsAt, Knows
<1>2. index[r] = 1 /\ allowedRoles(r) = admits(t)
  BY <1>1, OnlyFirst
<1>3. u.present /\ ~resolved[r] /\ ~u.isEditor /\ ~u.isLecturer
  BY <1>1, <1>2 DEF KnowsAt, Knows
<1>4. stage'[r] = "courseLookup" \/ Unlooked(t, u)
  <2>1. CASE \E role \in {PromptAdmin, PromptLecturer} : checkDirectRole(role, admits(t), u.roles)
    BY <2>1 DEF Unlooked, checkDirectRole
  <2>2. CASE ~\E role \in {PromptAdmin, PromptLecturer} : checkDirectRole(role, admits(t), u.roles)
    <3>1. \/ abort(r, "403")
          \/ requiresLecturerOrCustom(admits(t)) /\ stage' = [stage EXCEPT ![r] = "courseLookup"]
          \/ ~requiresLecturerOrCustom(admits(t))
      BY <1>2, <2>2 DEF Authorize
    <3> QED
      BY <1>1, <3>1 DEF abort, AccessTypeOK, Unlooked
  <2> QED
    BY <2>1, <2>2
<1>5. stage'[r] # "authorize"
  BY <1>1 DEF Authorize, proceed, abort, tryStudent, AccessTypeOK
<1> QED
  BY <1>1, <1>2, <1>3, <1>4, <1>5 DEF KnowsAt, Knows

LEMMA CourseLookupKnows ==
    ASSUME AccessInv, NEW r \in Requests, KnowsAt(r), CourseLookup(r)
    PROVE  KnowsAt(r)'
<1>1. AccessTypeOK /\ stage[r] = "courseLookup" /\ stage[r] \in Authorizing
      /\ UNCHANGED <<index, route>>
  BY DEF AccessInv, CourseLookup, Authorizing
<1> DEFINE t == route[r]  u == tokenUser[r]
<1> SUFFICES ASSUME authenticatesFirst(t), stage'[r] \notin {"aborted", "panicked"}
             PROVE  KnowsAt(r)'
  BY <1>1 DEF KnowsAt, Knows
<1>2. index[r] = 1 /\ u.present
  BY <1>1, OnlyFirst DEF KnowsAt, Knows
<1>3. PICK answer \in CoreAnswers :
          LET result == SendCoursePhaseRoleMappingRequest(r, answer)
              user == [tokenUser[r] EXCEPT
                          !.isLecturer = result.value.lecturer \in tokenUser[r].roles,
                          !.isEditor = result.value.editor \in tokenUser[r].roles,
                          !.prefix = result.value.prefix]
          IN  \/ /\ result.error # None /\ abort(r, lookupStatus(result.error))
                 /\ UNCHANGED <<tokenUser, resolved>>
              \/ /\ result.error = None
                 /\ tokenUser' = [tokenUser EXCEPT ![r] = user]
                 /\ resolved' = [resolved EXCEPT ![r] = TRUE]
                 /\ IF courseGrant(user, allowedRoles(r)) THEN proceed(r) ELSE tryStudent(r)
  BY DEF CourseLookup
<1> DEFINE result == SendCoursePhaseRoleMappingRequest(r, answer)
<1> HIDE DEF result
<1>4. result.error = None
  BY <1>1, <1>3 DEF result, abort, AccessTypeOK
<1>5. result.value = [lecturer |-> <<Course, CourseLecturer>>,
                      editor |-> <<Course, CourseEditor>>, prefix |-> t.prefix]
  BY <1>4, MappingAnswered DEF result
<1>6. tokenUser'[r] = [u EXCEPT !.isLecturer = <<Course, CourseLecturer>> \in u.roles,
                                !.isEditor = <<Course, CourseEditor>> \in u.roles,
                                !.prefix = t.prefix]
      /\ resolved'[r] = TRUE
  BY <1>1, <1>3, <1>4, <1>5 DEF result, AccessTypeOK
<1>7. /\ tokenUser'[r].present /\ tokenUser'[r].roles = u.roles
      /\ tokenUser'[r].isLecturer = (<<Course, CourseLecturer>> \in u.roles)
      /\ tokenUser'[r].isEditor = (<<Course, CourseEditor>> \in u.roles)
  <2>1. u \in TokenUser
    BY <1>1 DEF AccessTypeOK
  <2> QED
    BY <1>2, <1>6, <2>1 DEF TokenUser
<1>8. stage'[r] \in {"chain", "studentLookup"}
  BY <1>1, <1>3, <1>4 DEF result, proceed, tryStudent, abort, AccessTypeOK
<1> QED
  BY <1>1, <1>2, <1>6, <1>7, <1>8 DEF KnowsAt, Knows

LEMMA StudentLookupKnows ==
    ASSUME AccessInv, NEW r \in Requests, KnowsAt(r), StudentLookup(r)
    PROVE  KnowsAt(r)'
<1>1. AccessTypeOK /\ stage[r] = "studentLookup" /\ UNCHANGED <<index, route, resolved>>
  BY DEF AccessInv, StudentLookup
<1>2. stage'[r] \in {"chain", "aborted"}
  BY <1>1 DEF StudentLookup, proceed, abort, AccessTypeOK
<1>3. \/ tokenUser' = tokenUser
      \/ \E v : tokenUser' = [tokenUser EXCEPT ![r].isStudent = v]
  BY DEF StudentLookup
<1>4. /\ tokenUser'[r].present = tokenUser[r].present /\ tokenUser'[r].roles = tokenUser[r].roles
      /\ tokenUser'[r].isLecturer = tokenUser[r].isLecturer
      /\ tokenUser'[r].isEditor = tokenUser[r].isEditor
  <2>1. tokenUser \in [Requests -> TokenUser] /\ tokenUser[r] \in TokenUser
    BY <1>1 DEF AccessTypeOK
  <2> QED
    BY <1>3, <2>1 DEF TokenUser
<1> QED
  BY <1>1, <1>2, <1>4 DEF KnowsAt, Knows, Unlooked

LEMMA AccessKnows ==
    ASSUME AccessInv, NEW r \in Requests, KnowsAt(r), stage[r] = "idle" => ~resolved[r],
           AccessStep(r)
    PROVE  KnowsAt(r)'
<1>1. AccessTypeOK /\ SoundAt(r)
  BY DEF AccessInv
<1>2. CASE Arrive(r)
  <2>1. /\ stage'[r] = "chain" /\ index'[r] = 0 /\ ~resolved'[r] /\ tokenUser'[r] = NoUser
    BY <1>1, <1>2 DEF Arrive, SoundAt, Sound, AccessTypeOK
  <2>2. ~NoUser.present /\ ~NoUser.isEditor /\ ~NoUser.isLecturer
    BY DEF NoUser
  <2> QED
    BY <2>1, <2>2 DEF KnowsAt, Knows
<1>3. CASE EnterHandler(r)
  BY <1>1, <1>3 DEF EnterHandler, KnowsAt, Knows, AccessTypeOK
<1>4. CASE Reject(r) \/ PanicOnRoles(r) \/ LookupWithoutPhase(r)
  <2>1. stage'[r] \in {"aborted", "panicked"}
    BY <1>1, <1>4 DEF Reject, PanicOnRoles, LookupWithoutPhase, abort, next, AccessTypeOK
  <2> QED
    BY <2>1 DEF KnowsAt, Knows
<1>5. CASE Accept(r)
  <2> DEFINE t == route[r]
  <2>1. /\ next(r, verifying) /\ UNCHANGED <<route, resolved>>
        /\ tokenUser'[r] = [NoUser EXCEPT !.present = TRUE, !.roles = checkKeycloakRoles(caller[r])]
        /\ stage'[r] = IF t.chain[index[r] + 1].kind = "authenticate" THEN "authorize" ELSE "chain"
    BY <1>1, <1>5 DEF Accept, next, AccessTypeOK
  <2> SUFFICES ASSUME authenticatesFirst(t) PROVE KnowsAt(r)'
    BY <2>1 DEF KnowsAt, Knows
  <2>2. stage[r] = "chain" /\ index[r] \in Nat /\ index[r] + 1 <= Len(t.chain)
        /\ Len(t.chain) \in Nat /\ index'[r] = index[r] + 1
    BY <1>1, <2>1, LengthTyped DEF next, SoundAt, Sound, AccessTypeOK
  <2>3. index[r] = 0 /\ t.chain[1].kind = "authenticate"
    BY <2>1, <2>2 DEF authenticatesFirst, next
  <2>4. ~resolved[r]
    BY <2>2, <2>3 DEF KnowsAt, Knows
  <2>5. tokenUser'[r].present /\ ~tokenUser'[r].isEditor /\ ~tokenUser'[r].isLecturer
    BY <2>1 DEF NoUser
  <2>6. index'[r] = 1 /\ stage'[r] = "authorize"
    BY <2>1, <2>2, <2>3
  <2> QED
    BY <2>1, <2>4, <2>5, <2>6 DEF KnowsAt, Knows
<1> QED
  BY <1>2, <1>3, <1>4, <1>5, AuthorizeKnows, CourseLookupKnows, StudentLookupKnows DEF AccessStep
\* Scoping marks only requests that are past the first middleware of such a route.
LEMMA MarkedLater ==
    ASSUME AccessInv, NEW r \in Requests, stage[r] # "idle", AppliedAt(r), applied[r],
           authenticatesFirst(route[r])
    PROVE  index[r] \in Nat \ {0, 1}
<1>1. index[r] \in Nat
  BY DEF AccessInv, AccessTypeOK
<1>2. PICK i \in 1 .. index[r] : route[r].chain[i].kind = "scope"
  BY DEF AppliedAt
<1>3. i # 1
  BY <1>2 DEF authenticatesFirst
<1> QED
  BY <1>1, <1>2, <1>3

\* What a step of the access check leaves of the chain, and past the first
\* middleware of the TokenUser.
LEMMA ChainAdvances ==
    ASSUME AccessInv, NEW r \in Requests, AccessStep(r), stage[r] # "idle"
    PROVE  /\ UNCHANGED <<caller, route>>
           /\ \/ index' = index
              \/ next(r, verifying)
<1> QED
  BY DEF AccessStep, Arrive, EnterHandler, Reject, PanicOnRoles, Accept, Authorize,
     LookupWithoutPhase, CourseLookup, StudentLookup

LEMMA FlagsSettled ==
    ASSUME AccessInv, NEW r \in Requests, AccessStep(r), stage[r] # "idle",
           authenticatesFirst(route[r]), index[r] \in Nat \ {0, 1}
    PROVE  UNCHANGED tokenUser
<1>1. SoundAt(r) /\ AccessTypeOK
  BY DEF AccessInv
<1>2. stage[r] \notin Authorizing
  BY OnlyFirst
<1>3. ~next(r, verifying)
  <2> SUFFICES ASSUME next(r, verifying) PROVE FALSE
    OBVIOUS
  <2>1. index[r] + 1 \in 2 .. Len(route[r].chain)
    BY <1>1, LengthTyped DEF next, SoundAt, Sound
  <2> QED
    BY <2>1 DEF next, authenticatesFirst
<1> QED
  BY <1>2, <1>3 DEF AccessStep, Arrive, EnterHandler, Reject, PanicOnRoles, Accept, Authorize,
     LookupWithoutPhase, CourseLookup, StudentLookup, Authorizing

\* What has been shown and told stays so while the history grows.
LEMMA OutcomesKept ==
    ASSUME NEW r \in Requests, UNCHANGED <<read, denial>>,
           caller'[r] = caller[r], route'[r] = route[r],
           since[r] \subseteq since'[r], unassigned[r] => unassigned'[r], untutored[r] => untutored'[r]
    PROVE  (ReadScoped(r) => ReadScoped(r)') /\ (NotDenied(r) => NotDenied(r)')
BY DEF ReadScoped, NotDenied

\* The requests a step is not about.
LEMMA OthersTold ==
    ASSUME NEW r \in Requests, Others(r), NEW q \in Requests \ {r}, Told(q),
           resolved'[q] = resolved[q], applied'[q] = applied[q], team'[q] = team[q],
           read'[q] = read[q], denial'[q] = denial[q], since'[q] = since[q],
           unassigned'[q] = unassigned[q], untutored'[q] = untutored[q], tutor' = tutor
    PROVE  Told(q)'
<1>1. KnowsAt(q)' /\ AppliedAt(q)' /\ ScopedAt(q)' /\ HistoryTold(q)'
  BY DEF Others, Told, KnowsAt, AppliedAt, ScopedAt, HistoryTold
<1>2. ReadScoped(q)' /\ NotDenied(q)'
  BY DEF Others, Told, ReadScoped, NotDenied
<1> QED
  BY <1>1, <1>2 DEF Others, Told

\* A step of the access check.
LEMMA AccessTold ==
    ASSUME Knowledge, Confinement', NEW r \in Requests, AccessOf(r)
    PROVE  Knowledge'
<1>0. Confinement /\ TypeOK /\ AccessInv /\ AccessTypeOK /\ Told(r) /\ SoundAt(r)
  BY DEF Knowledge, Confinement, AccessInv
<1>1. AccessStep(r) /\ UNCHANGED <<applied, team, read, denial, tutor>>
  BY DEF AccessOf, scopeVars, tables
<1>2. Others(r)
  BY <1>0, <1>1, AccessStepSound
<1>3. KnowsAt(r)'
  BY <1>0, <1>1, AccessKnows DEF Told
<1>4. \A q \in Requests \ {r} :
        /\ resolved'[q] = resolved[q] /\ since'[q] = since[q]
        /\ unassigned'[q] = unassigned[q] /\ untutored'[q] = untutored[q]
  <2>1. \A q \in Requests \ {r} : resolved'[q] = resolved[q]
    BY <1>0, <1>1 DEF AccessStep, Arrive, EnterHandler, Reject, PanicOnRoles, Accept, Authorize,
       LookupWithoutPhase, CourseLookup, StudentLookup, AccessTypeOK
  <2> QED
    BY <1>0, <2>1 DEF AccessOf, TypeOK, history
<1>5. Told(r)'
  <2>1. CASE stage[r] = "idle"
    <3>1. Arrive(r)
      BY <1>1, <2>1, OnlyArrivals
    <3>2. /\ stage'[r] = "chain" /\ index'[r] = 0
          /\ unassigned'[r] = (teamsOf(tutor, caller'[r]) = {}) /\ untutored'[r] = noTutors(tutor)
      BY <1>0, <2>1, <3>1 DEF Arrive, AccessOf, TypeOK, AccessTypeOK, SoundAt, Sound
    <3>3. ~applied'[r] /\ read'[r] = {} /\ denial'[r] = None
      BY <1>0, <1>1, <2>1 DEF Told
    <3>4. AppliedAt(r)' /\ ScopedAt(r)'
      BY <3>2, <3>3 DEF AppliedAt, ScopedAt
    <3>5. HistoryTold(r)'
      BY <1>1, <3>2 DEF HistoryTold
    <3>6. ReadScoped(r)' /\ NotDenied(r)'
      BY <3>3 DEF ReadScoped, NotDenied, None
    <3> QED
      BY <1>3, <3>2, <3>4, <3>5, <3>6 DEF Told
  <2>2. CASE stage[r] # "idle"
    <3>1. UNCHANGED <<caller, route, since, unassigned, untutored>> /\ (index' = index \/ next(r, verifying))
      BY <1>0, <1>1, <2>2, ChainAdvances DEF AccessOf, history
    <3>2. ReadScoped(r)' /\ NotDenied(r)'
      BY <1>0, <1>1, <3>1, OutcomesKept DEF Told
    <3>3. stage'[r] # "idle"
      BY <1>0, <1>1, <2>2 DEF AccessStep, Arrive, EnterHandler, Reject, PanicOnRoles, Accept, Authorize,
         LookupWithoutPhase, CourseLookup, StudentLookup, proceed, abort, tryStudent, AccessTypeOK
    <3>4. AppliedAt(r)'
      <4>1. CASE index' = index
        BY <1>0, <1>1, <2>2, <3>1, <4>1 DEF Told, AppliedAt
      <4>2. CASE next(r, verifying)
        <5>1. /\ index[r] \in Nat /\ index'[r] = index[r] + 1
              /\ route[r].chain[index[r] + 1].kind # "scope"
          BY <1>0, <4>2 DEF next, verifying, AccessTypeOK
        <5>2. \A i \in 1 .. index[r] + 1 : i = index[r] + 1 \/ i \in 1 .. index[r]
          BY <5>1
        <5>3. 1 .. index[r] \subseteq 1 .. index[r] + 1
          BY <5>1
        <5>4. (\E i \in 1 .. index[r] + 1 : route[r].chain[i].kind = "scope")
                 <=> (\E i \in 1 .. index[r] : route[r].chain[i].kind = "scope")
          BY <5>1, <5>2, <5>3
        <5> QED
          BY <1>0, <1>1, <2>2, <3>1, <5>1, <5>4 DEF Told, AppliedAt
      <4> QED
        BY <3>1, <4>1, <4>2
    <3>5. ScopedAt(r)'
      <4> SUFFICES ASSUME authenticatesFirst(route[r]), applied[r],
                          stage'[r] \notin {"idle", "aborted", "panicked"}
                   PROVE  ScopedAt(r)'
        BY <1>1, <3>1 DEF ScopedAt
      <4>1. UNCHANGED tokenUser
        BY <1>0, <1>1, <2>2, MarkedLater, FlagsSettled DEF Told
      <4>2. stage[r] \notin {"idle", "aborted", "panicked"}
        BY <1>1, <2>2 DEF AccessStep, Arrive, EnterHandler, Reject, PanicOnRoles, Accept, Authorize,
           LookupWithoutPhase, CourseLookup, StudentLookup, next
      <4> QED
        BY <1>0, <1>1, <3>1, <4>1, <4>2 DEF Told, ScopedAt
    <3>6. HistoryTold(r)'
      BY <1>0, <1>1, <2>2, <3>1 DEF Told, HistoryTold
    <3> QED
      BY <1>3, <3>2, <3>3, <3>4, <3>5, <3>6 DEF Told
  <2> QED
    BY <2>1, <2>2
<1> QED
  BY <1>1, <1>2, <1>4, <1>5, OthersTold DEF Knowledge

\* The scoping middleware.
LEMMA ScopeTold ==
    ASSUME Knowledge, Confinement', NEW r \in Requests, Scope(r)
    PROVE  Knowledge'
<1>0. Confinement /\ TypeOK /\ AccessInv /\ AccessTypeOK /\ Told(r) /\ SoundAt(r)
  BY DEF Knowledge, Confinement, AccessInv
<1>1. /\ next(r, {"scope"}) /\ stage[r] = "chain"
      /\ UNCHANGED <<caller, route, tokenUser, resolved, read, denial, tutor, since, unassigned, untutored>>
      /\ proceed(r) \/ \E code \in {"400", "401", "403", "500"} : abort(r, code)
      /\ applied' = [applied EXCEPT ![r] = TRUE]
      /\ team' = team \/ \E t \in Teams : team' = [team EXCEPT ![r] = t]
  BY DEF Scope, next, tables, history
<1>2. Others(r)
  <2>1. {"scope"} \cap verifying = {} /\ UNCHANGED <<caller, route, tokenUser, participation>>
    BY DEF verifying, Scope
  <2> QED
    BY <1>0, <1>1, <2>1, NextSound
<1>3. /\ index'[r] = index[r] + 1 /\ index[r] \in Nat /\ stage'[r] \in {"chain", "aborted"}
      /\ route[r].chain[index[r] + 1].kind = "scope"
  BY <1>0, <1>1 DEF next, proceed, abort, AccessTypeOK
<1>4. authenticatesFirst(route[r]) => index[r] # 0
  BY <1>3 DEF authenticatesFirst
<1>5. KnowsAt(r)'
  BY <1>0, <1>1, <1>3, <1>4 DEF Told, KnowsAt, Knows
<1>6. applied'[r] /\ AppliedAt(r)'
  BY <1>0, <1>1, <1>3 DEF AppliedAt, TypeOK
<1>7. ScopedAt(r)'
  <2> SUFFICES ASSUME authenticatesFirst(route[r]), stage'[r] # "aborted",
                      tokenUser[r].isEditor, ~tokenUser[r].isLecturer, team'[r] = None
               PROVE  unassigned[r] /\ untutored[r]
    BY <1>1 DEF ScopedAt
  <2>1. tokenUser[r].present
    BY <1>0, <1>1, <1>4 DEF Told, KnowsAt, Knows
  <2> DEFINE result == ResolveTutorTeam(Normalize(caller[r].login))
  <2>2. result = "ErrNoRows"
    <3>1. \A code : abort(r, code) => stage'[r] = "aborted"
      BY <1>0 DEF abort, AccessTypeOK
    <3>2. \A t \in Teams : team' # [team EXCEPT ![r] = t]
      BY <1>0, TeamsAssumption DEF TypeOK
    <3> QED
      BY <2>1, <3>1, <3>2 DEF Scope
  <2>3. noTutors(tutor) /\ teamsOf(tutor, caller[r]) = {}
    <3>1. caller[r] \in Callers
      BY <1>0, <1>1 DEF SoundAt, Sound
    <3>2. Normalize(caller[r].login) \in Logins \cup {EmptyLogin}
      BY <3>1, CallersHaveLogins DEF Normalize, Spellings
    <3>3. \A l \in Logins \cup {EmptyLogin} : tutor[l] # "ErrNoRows"
      BY <1>0, TeamsAssumption DEF TypeOK, None
    <3>4. ~\E l \in DOMAIN tutor : tutor[l] # None
      BY <2>2, <3>2, <3>3 DEF ResolveTutorTeam
    <3> QED
      BY <1>0, <3>2, <3>4 DEF noTutors, teamsOf, TypeOK
  <2> QED
    BY <1>0, <1>1, <2>3 DEF Told, HistoryTold
<1>8. HistoryTold(r)' /\ ReadScoped(r)' /\ NotDenied(r)'
  BY <1>0, <1>1, OutcomesKept DEF Told, HistoryTold
<1>9. Told(r)'
  BY <1>3, <1>5, <1>6, <1>7, <1>8 DEF Told
<1>10. \A q \in Requests \ {r} : applied'[q] = applied[q] /\ team'[q] = team[q]
  BY <1>0, <1>1 DEF TypeOK
<1> QED
  BY <1>1, <1>2, <1>9, <1>10, OthersTold DEF Knowledge

\* The handlers.
LEMMA HandlerTold ==
    ASSUME Knowledge, Confinement', NEW r \in Requests, Read(r) \/ Authorized(r) \/ Write(r),
           ReadScoped(r)', NotDenied(r)',
           \A q \in Requests \ {r} : read'[q] = read[q] /\ denial'[q] = denial[q]
    PROVE  Knowledge'
<1>0. Confinement /\ TypeOK /\ AccessInv /\ AccessTypeOK /\ Told(r)
  BY DEF Knowledge, Confinement, AccessInv
<1>1. /\ stage[r] \in {"handler", "writing"}
      /\ UNCHANGED <<index, caller, route, tokenUser, resolved, participation>>
      /\ \/ /\ \E s \in {"writing", "done"} : stage' = [stage EXCEPT ![r] = s]
            /\ UNCHANGED status
         \/ \E code \in {"400", "401", "403", "500"} : abort(r, code)
  BY HandlerSteps
<1>2. UNCHANGED <<applied, team, tutor, since, unassigned, untutored>>
  BY DEF Read, Authorized, Write, tables, history, scopeVars
<1>3. Others(r) /\ stage'[r] \in {"writing", "done", "aborted"}
  BY <1>0, <1>1 DEF Others, abort, AccessTypeOK
<1>4. KnowsAt(r)' /\ AppliedAt(r)' /\ ScopedAt(r)' /\ HistoryTold(r)'
  BY <1>0, <1>1, <1>2, <1>3 DEF Told, KnowsAt, Knows, AppliedAt, ScopedAt, HistoryTold
<1>5. Told(r)'
  BY <1>3, <1>4 DEF Told
<1> QED
  BY <1>1, <1>2, <1>3, <1>5, OthersTold DEF Knowledge

\* A role of the reference that the token carries.
LEMMA HeldInToken ==
    ASSUME NEW c, NEW t
    PROVE  /\ holds(c, t, CourseLecturer) => <<Course, CourseLecturer>> \in checkKeycloakRoles(c)
           /\ holds(c, t, CourseEditor) => <<Course, CourseEditor>> \in checkKeycloakRoles(c)
           /\ holds(c, t, PromptLecturer) => <<"", PromptLecturer>> \in checkKeycloakRoles(c)
BY DEF holds, isCustomRole, builtInRoles, PromptAdmin, PromptLecturer, CourseLecturer,
       CourseEditor, CourseStudent

\* A reading handler shows an editor who is not privileged their own team.
LEMMA ReadTold ==
    ASSUME Knowledge, NEW r \in Requests, Read(r)
    PROVE  ReadScoped(r)'
<1> DEFINE c == caller[r]  t == route[r]  u == tokenUser[r]
<1>0. Confinement /\ TypeOK /\ AccessInv /\ Told(r) /\ SoundAt(r) /\ UserTrue
  BY UserIsTrue DEF Knowledge, Confinement, AccessInv
<1>1. /\ stage[r] = "handler" /\ UNCHANGED <<caller, route, since, untutored>>
      /\ read'[r] = IF team[r] # None THEN {team[r]} ELSE Teams
  BY <1>0 DEF Read, history, TypeOK
<1> SUFFICES ASSUME wired(t), holds(c, t, CourseEditor), ~privileged(c)
             PROVE  read'[r] \subseteq since[r] \/ untutored[r]
  BY <1>1 DEF ReadScoped
<1>2. index[r] = 2 /\ t.chain[2].kind = "scope" /\ authenticatesFirst(t)
      /\ PromptLecturer \notin admits(t) /\ requiresLecturerOrCustom(admits(t))
  BY <1>0, <1>1 DEF SoundAt, Sound, wired, authenticatesFirst, admits, verifying
<1>3. applied[r]
  BY <1>0, <1>1, <1>2 DEF Told, AppliedAt
<1>4. u.present /\ (resolved[r] \/ Unlooked(t, u))
  BY <1>0, <1>1, <1>2 DEF Told, KnowsAt, Knows
<1>5. u.roles = checkKeycloakRoles(c)
  BY <1>0, <1>1, <1>4 DEF SoundAt, Sound
<1>6. ~Unlooked(t, u)
  BY <1>2, <1>5 DEF Unlooked, privileged
<1>7. u.isEditor /\ ~u.isLecturer
  <2>1. <<Course, CourseEditor>> \in u.roles /\ <<Course, CourseLecturer>> \notin u.roles
    BY <1>5, HeldInToken DEF privileged
  <2> QED
    BY <1>0, <1>1, <1>2, <1>4, <1>6, <2>1 DEF Told, KnowsAt, Knows
<1>8. team[r] = None => untutored[r]
  BY <1>0, <1>1, <1>2, <1>3, <1>7 DEF Told, ScopedAt
<1>9. team[r] # None => team[r] \in since[r]
  BY <1>0 DEF Confinement, TeamHeld
<1> QED
  BY <1>1, <1>8, <1>9

\* AuthorizeWrite answers ErrWriteDenied only to those who may not write.
LEMMA AuthorizedTold ==
    ASSUME Knowledge, NEW r \in Requests, Authorized(r)
    PROVE  NotDenied(r)'
<1> DEFINE c == caller[r]  t == route[r]  u == tokenUser[r]
<1>0. Confinement /\ TypeOK /\ AccessInv /\ Told(r) /\ SoundAt(r)
  BY DEF Knowledge, Confinement, AccessInv
<1>1. /\ stage[r] = "handler" /\ UNCHANGED <<caller, route, unassigned>>
      /\ denial'[r] = AuthorizeWrite(r).error
  BY <1>0 DEF Authorized, history, TypeOK
<1> SUFFICES ASSUME AuthorizeWrite(r).error = "ErrWriteDenied", authenticatesFirst(t)
             PROVE  /\ ~(/\ holds(c, t, CourseLecturer)
                         /\ \/ CourseLecturer \in admits(t)
                            \/ PromptLecturer \in admits(t) /\ holds(c, t, PromptLecturer))
                    /\ ~(/\ holds(c, t, CourseEditor) /\ ~unassigned[r]
                         /\ requiresLecturerOrCustom(admits(t)))
  BY <1>1 DEF NotDenied
<1>2. /\ u.present /\ <<"", PromptAdmin>> \notin u.roles /\ ~u.isLecturer
      /\ \/ u.isEditor /\ applied[r] /\ team[r] = None
         \/ ~u.isEditor /\ ~unresolved(r)
  BY DEF AuthorizeWrite, denied, granted, None
<1>3. u.roles = checkKeycloakRoles(c)
  BY <1>0, <1>1, <1>2 DEF SoundAt, Sound
<1>4. /\ resolved[r] => /\ u.isLecturer <=> <<Course, CourseLecturer>> \in u.roles
                        /\ u.isEditor <=> <<Course, CourseEditor>> \in u.roles
      /\ ~resolved[r] => ~u.isEditor
      /\ resolved[r] \/ Unlooked(t, u)
  BY <1>0, <1>1, <1>2 DEF Told, KnowsAt, Knows
<1>5. ~resolved[r] => /\ <<"", PromptLecturer>> \notin u.roles
                      /\ ~requiresLecturerOrCustom(admits(t))
  <2> SUFFICES ASSUME ~resolved[r]
               PROVE  /\ <<"", PromptLecturer>> \notin u.roles
                      /\ ~requiresLecturerOrCustom(admits(t))
    OBVIOUS
  <2>1. <<"", PromptLecturer>> \notin u.roles
    BY <1>2, <1>4 DEF unresolved
  <2> QED
    BY <1>2, <1>4, <2>1 DEF Unlooked
<1>6. ASSUME holds(c, t, CourseLecturer)
      PROVE  CourseLecturer \notin admits(t) /\ ~holds(c, t, PromptLecturer)
  <2>1. ~resolved[r]
    BY <1>2, <1>3, <1>4, <1>6, HeldInToken
  <2>2. CourseLecturer \notin admits(t)
    BY <1>5, <2>1 DEF requiresLecturerOrCustom
  <2> QED
    BY <1>3, <1>5, <2>1, <2>2, HeldInToken
<1>7. ASSUME holds(c, t, CourseEditor), requiresLecturerOrCustom(admits(t))
      PROVE  unassigned[r]
  <2>1. resolved[r]
    BY <1>5, <1>7
  <2>2. u.isEditor
    BY <1>3, <1>4, <1>7, <2>1, HeldInToken
  <2> QED
    BY <1>0, <1>1, <1>2, <2>2 DEF Told, ScopedAt
<1> QED
  BY <1>6, <1>7

LEMMA KnowledgeInit == Init => Knowledge
<1> SUFFICES ASSUME Init, NEW r \in Requests PROVE Told(r)
  BY ConfinementInit DEF Knowledge
<1>1. stage[r] = "idle" /\ ~resolved[r] /\ ~applied[r] /\ read[r] = {} /\ denial[r] = None
  BY DEF Init, AccessInit
<1> QED
  BY <1>1 DEF Told, KnowsAt, Knows, AppliedAt, ScopedAt, HistoryTold, ReadScoped, NotDenied, None

LEMMA KnowledgeKept == Knowledge /\ [Next]_vars => Knowledge'
<1> SUFFICES ASSUME Knowledge, [Next]_vars PROVE Knowledge'
  OBVIOUS
<1>0. Confinement /\ Confinement' /\ TypeOK /\ \A r \in Requests : Told(r)
  BY ConfinementKept DEF Knowledge, Confinement
<1>1. ASSUME NEW r \in Requests, AccessOf(r) PROVE Knowledge'
  BY <1>0, <1>1, AccessTold
<1>2. ASSUME NEW r \in Requests, Scope(r) PROVE Knowledge'
  BY <1>0, <1>2, ScopeTold
<1>3. ASSUME NEW r \in Requests, Read(r) PROVE Knowledge'
  <2>1. UNCHANGED <<caller, route, denial, since, unassigned, untutored>>
        /\ \A q \in Requests \ {r} : read'[q] = read[q]
    BY <1>0, <1>3 DEF Read, history, TypeOK
  <2>2. NotDenied(r)'
    BY <1>0, <2>1 DEF Told, NotDenied
  <2> QED
    BY <1>0, <1>3, <2>1, <2>2, ReadTold, HandlerTold
<1>4. ASSUME NEW r \in Requests, Authorized(r) PROVE Knowledge'
  <2>1. UNCHANGED <<caller, route, read, since, unassigned, untutored>>
        /\ \A q \in Requests \ {r} : denial'[q] = denial[q]
    BY <1>0, <1>4 DEF Authorized, history, TypeOK
  <2>2. ReadScoped(r)'
    BY <1>0, <2>1 DEF Told, ReadScoped
  <2> QED
    BY <1>0, <1>4, <2>1, <2>2, AuthorizedTold, HandlerTold
<1>5. ASSUME NEW r \in Requests, Write(r) PROVE Knowledge'
  <2>1. UNCHANGED <<caller, route, read, denial, since, unassigned, untutored>>
    BY <1>5 DEF Write, history, scopeVars
  <2>2. ReadScoped(r)' /\ NotDenied(r)'
    BY <1>0, <2>1, OutcomesKept DEF Told
  <2> QED
    BY <1>0, <1>5, <2>1, <2>2, HandlerTold
<1>6. ASSUME NEW r \in Requests,
             UNCHANGED <<stage, index, caller, route, tokenUser, resolved, applied, team, read, denial>>,
             since[r] \subseteq since'[r], unassigned[r] => unassigned'[r], untutored[r] => untutored'[r],
             HistoryTold(r)'
      PROVE  Told(r)'
  <2>1. KnowsAt(r)' /\ AppliedAt(r)' /\ ScopedAt(r)'
    BY <1>0, <1>6 DEF Told, KnowsAt, AppliedAt, ScopedAt
  <2>2. ReadScoped(r)' /\ NotDenied(r)'
    BY <1>0, <1>6, OutcomesKept DEF Told
  <2> QED
    BY <1>0, <1>6, <2>1, <2>2 DEF Told
<1>7. ASSUME NEW l \in Logins \cup {EmptyLogin}, NEW t \in Teams \cup {None}, ChangeTutor(l, t)
      PROVE  Knowledge'
  <2>1. UNCHANGED <<stage, index, caller, route, tokenUser, resolved, applied, team, read, denial>>
    BY <1>7 DEF ChangeTutor, accessVars, scopeVars
  <2>2. \A r \in Requests :
          /\ since[r] \subseteq since'[r]
          /\ unassigned[r] => unassigned'[r]
          /\ untutored[r] => untutored'[r]
    BY <1>7 DEF ChangeTutor
  <2>3. \A r \in Requests : HistoryTold(r)'
    BY <1>7, <2>1 DEF ChangeTutor, HistoryTold
  <2> QED
    BY <1>0, <1>6, <2>1, <2>2, <2>3 DEF Knowledge
<1>8. ASSUME UNCHANGED <<stage, index, caller, route, tokenUser, resolved, applied, team, read, denial,
                         since, unassigned, untutored, tutor>>
      PROVE  Knowledge'
  <2>1. \A r \in Requests : HistoryTold(r)'
    BY <1>0, <1>8 DEF Told, HistoryTold
  <2> QED
    BY <1>0, <1>6, <1>8, <2>1 DEF Knowledge
<1>9. CASE \E p \in Participants, t \in Teams \cup {None} : MoveParticipant(p, t)
  BY <1>8, <1>9 DEF MoveParticipant, accessVars, scopeVars, history
<1>10. CASE UNCHANGED vars
  BY <1>8, <1>10 DEF vars, accessVars, scopeVars, tables, history
<1> QED
  BY <1>1, <1>2, <1>3, <1>4, <1>5, <1>7, <1>9, <1>10 DEF Next, RequestStep, Administration

\* Behind a route wired as Middleware asks, an editor who is not privileged
\* reads their own team, whatever happens to the tutor table meanwhile.
THEOREM ReadsConfined == Spec => []ReadsScoped
<1>1. Knowledge => ReadsScoped
  BY DEF Knowledge, Told, ReadScoped, ReadsScoped
<1> QED
  BY <1>1, KnowledgeInit, KnowledgeKept, PTL DEF Spec

\* AuthorizeWrite never mistakes a lecturer of the course, or an editor who was
\* a tutor throughout, for somebody who may not write.
THEOREM LegitimateHeard == Spec => []LegitimateNotDenied
<1>1. Knowledge => LegitimateNotDenied
  BY DEF Knowledge, Told, NotDenied, LegitimateNotDenied
<1> QED
  BY <1>1, KnowledgeInit, KnowledgeKept, PTL DEF Spec
=============================================================================
