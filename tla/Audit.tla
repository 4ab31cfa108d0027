------------------------------- MODULE Audit -------------------------------
(***************************************************************************)
(* The audit middleware of a service (src/audit/context.go and             *)
(* src/audit/middleware.go): concurrent requests whose handlers Describe,  *)
(* Suppress and Record, the flush and the automatic backstop entry that    *)
(* follow c.Next(), and the delivery goroutines that share the bounded     *)
(* semaphore of the runtime.  The sink is the interface of event.go: its   *)
(* Record returns nil or an error after an unbounded but finite time;      *)
(* CoreSink.tla is the implementation phases use.                          *)
(*                                                                         *)
(* A status code is one of four classes, the ones outcomeForStatus tells   *)
(* apart.  An event is identified by its request and its number there; of  *)
(* its fields only the outcome and the status are kept (the label, which   *)
(* Describe sets, the actor, the entity and the metadata are data).        *)
(***************************************************************************)
EXTENDS Naturals, Sequences, FiniteSets

CONSTANTS
    Requests,       \* the requests that arrive while the service runs
    Methods,        \* HTTP methods they use
    Statuses,       \* status classes the handlers answer with
    GivenOutcomes,  \* values of Event.Outcome in calls of Record
    GivenActors,    \* whether such a call may bring its own Event.ActorID
    MaxDeliveries,  \* maxConcurrentDeliveries
    MaxRecords      \* bound: calls of Record made on behalf of one request

None == "none"
Outcomes == {"success", "denied", "error"}
StatusClasses == {"2xx", "401", "403", "other"}

ASSUME RequestsAssumption == IsFiniteSet(Requests)
ASSUME BoundsAssumption == MaxDeliveries \in Nat /\ MaxRecords \in Nat
ASSUME InputsAssumption ==
    /\ Statuses \subseteq StatusClasses
    /\ "2xx" \in Statuses
    /\ GivenOutcomes \subseteq Outcomes \cup {None}
    /\ GivenActors \subseteq BOOLEAN

EventIds == Requests \X (1 .. MaxRecords + 1)

VARIABLES
    pc,        \* where the request's goroutine is
    method,    \* c.Request.Method
    status,    \* c.Writer.Status()
    user,      \* a TokenUser is in the context: the extractor succeeds
    skip,      \* auditSkip
    recorded,  \* auditRecorded
    buffer,    \* auditRecordedEvents: the numbers of the buffered events
    copy,      \* the context a background job was handed with c.Copy()
    made,      \* how many events the request has produced
    event,     \* the Event value of each event produced
    fate,      \* what has become of each event
    sem        \* len(rt.sem): slots taken

request == <<pc, method, status, user, skip>>
vars == <<request, recorded, buffer, copy, made, event, fate, sem>>

NoEvent == [origin |-> None, outcome |-> None, status |-> None]
Event == [origin : {None, "record", "job", "backstop"},
          outcome : Outcomes \cup {None},
          status : StatusClasses \cup {None}]

\* The goroutine of such an event still holds its slot.
Holding == {"recording", "recorded", "errored"}
\* rt.write was called and is over with the event.
Settled == {"delivered", "failed", "dropped"}
\* What rt.write leads to: the event left the request.
HandedOver == Holding \cup Settled
Fates == {None, "buffered"} \cup HandedOver

NoCopy == [taken |-> FALSE, user |-> FALSE]

TypeOK ==
    /\ pc \in [Requests -> {"idle", "handling", "flushing", "done", "panicked"}]
    /\ method \in [Requests -> Methods \cup {None}]
    /\ status \in [Requests -> Statuses]
    /\ user \in [Requests -> BOOLEAN]
    /\ skip \in [Requests -> BOOLEAN]
    /\ recorded \in [Requests -> BOOLEAN]
    /\ buffer \in [Requests -> Seq(1 .. MaxRecords + 1)]
    /\ copy \in [Requests -> [taken : BOOLEAN, user : BOOLEAN]]
    /\ made \in [Requests -> 0 .. MaxRecords + 1]
    /\ event \in [EventIds -> Event]
    /\ fate \in [EventIds -> Fates]
    /\ sem \in 0 .. MaxDeliveries

Init ==
    /\ pc = [r \in Requests |-> "idle"]
    /\ method = [r \in Requests |-> None]
    /\ status = [r \in Requests |-> "2xx"]
    /\ user = [r \in Requests |-> FALSE]
    /\ skip = [r \in Requests |-> FALSE]
    /\ recorded = [r \in Requests |-> FALSE]
    /\ buffer = [r \in Requests |-> <<>>]
    /\ copy = [r \in Requests |-> NoCopy]
    /\ made = [r \in Requests |-> 0]
    /\ event = [id \in EventIds |-> NoEvent]
    /\ fate = [id \in EventIds |-> None]
    /\ sem = 0

----------------------------------------------------------------------------
(* Pure parts. *)

isMutating(m) == m \in {"POST", "PUT", "PATCH", "DELETE"}

\* The backstop's classification; None: the status is not recorded.
outcomeForStatus(s) ==
    IF s = "2xx" THEN "success"
    ELSE IF s \in {"401", "403"} THEN "denied"
    ELSE None

\* Mutated: an unclassified status passes for a success.
outcomeFor_Optimistic(s) ==
    IF outcomeForStatus(s) # None THEN outcomeForStatus(s) ELSE "success"

\* The total version used when a buffered event is flushed.
outcomeFor(s) ==
    IF outcomeForStatus(s) # None THEN outcomeForStatus(s) ELSE "error"

\* Mutated: one slot too many.
write_OffByOne(id, e) ==
    /\ event' = [event EXCEPT ![id] = e]
    /\ sem' = IF sem <= MaxDeliveries THEN sem + 1 ELSE sem
    /\ fate' = [fate EXCEPT ![id] = IF sem <= MaxDeliveries THEN "recording" ELSE "dropped"]

\* runtime.write: take a slot and start the goroutine, or drop the event.
write(id, e) ==
    /\ event' = [event EXCEPT ![id] = e]
    /\ \/ /\ sem < MaxDeliveries
          /\ sem' = sem + 1
          /\ fate' = [fate EXCEPT ![id] = "recording"]
       \/ /\ sem = MaxDeliveries
          /\ fate' = [fate EXCEPT ![id] = "dropped"]
          /\ UNCHANGED sem

----------------------------------------------------------------------------
(* The request's goroutine, inside c.Next(). *)

\* Middleware puts the runtime into the context and calls c.Next().
Arrive(r) ==
    /\ pc[r] = "idle"
    /\ pc' = [pc EXCEPT ![r] = "handling"]
    /\ \E m \in Methods : method' = [method EXCEPT ![r] = m]
    /\ UNCHANGED <<status, user, skip, recorded, buffer, copy, made,
                   event, fate, sem>>

\* The route's authentication middleware stores the TokenUser.
Authenticate(r) ==
    /\ pc[r] = "handling" /\ ~user[r]
    /\ user' = [user EXCEPT ![r] = TRUE]
    /\ UNCHANGED <<pc, method, status, skip, recorded, buffer, copy,
                   made, event, fate, sem>>

\* Skip on the route and Suppress in the handler set the same key.
Suppress(r) ==
    /\ pc[r] = "handling" /\ ~skip[r]
    /\ skip' = [skip EXCEPT ![r] = TRUE]
    /\ UNCHANGED <<pc, method, status, user, recorded, buffer, copy,
                   made, event, fate, sem>>

\* The handler, or a middleware that aborts, sets the response status.
Respond(r) ==
    /\ pc[r] = "handling"
    /\ \E s \in Statuses \ {status[r]} : status' = [status EXCEPT ![r] = s]
    /\ UNCHANGED <<pc, method, user, skip, recorded, buffer, copy,
                   made, event, fate, sem>>

\* Mutated: the flag is set before the actor is known.
Record_FlagFirst(r, supplied, o) ==
    /\ pc[r] = "handling" /\ o = None
    /\ recorded' = [recorded EXCEPT ![r] = TRUE]
    /\ IF (supplied \/ user[r]) /\ made[r] < MaxRecords
         THEN /\ made' = [made EXCEPT ![r] = @ + 1]
              /\ event' = [event EXCEPT ![<<r, made[r] + 1>>] =
                              [origin |-> "record", outcome |-> o, status |-> None]]
              /\ fate' = [fate EXCEPT ![<<r, made[r] + 1>>] = "buffered"]
              /\ buffer' = [buffer EXCEPT ![r] = Append(@, made[r] + 1)]
         ELSE UNCHANGED <<made, event, fate, buffer>>
    /\ UNCHANGED <<request, copy, sem>>

\* Record on the live context, once an actor is known: with an outcome the
\* event is delivered now, without one it is buffered for the flush.
Record(r, supplied, o) ==
    LET id == <<r, made[r] + 1>>
        e == [origin |-> "record", outcome |-> o, status |-> None]
    IN  /\ pc[r] = "handling" /\ made[r] < MaxRecords
        /\ supplied \/ user[r]
        /\ recorded' = [recorded EXCEPT ![r] = TRUE]
        /\ made' = [made EXCEPT ![r] = @ + 1]
        /\ \/ /\ o # None
              /\ write(id, e)
              /\ UNCHANGED buffer
           \/ /\ o = None
              /\ event' = [event EXCEPT ![id] = e]
              /\ fate' = [fate EXCEPT ![id] = "buffered"]
              /\ buffer' = [buffer EXCEPT ![r] = Append(@, made[r] + 1)]
              /\ UNCHANGED sem
        /\ UNCHANGED <<request, copy>>

\* The handler hands c.Copy() to a background job.
StartJob(r) ==
    /\ pc[r] = "handling" /\ ~copy[r].taken
    /\ copy' = [copy EXCEPT ![r] = [taken |-> TRUE, user |-> user[r]]]
    /\ UNCHANGED <<request, recorded, buffer, made, event, fate, sem>>

\* Record on the copy, with the Outcome its documentation asks of a job: the
\* event is delivered now, and the flag it sets is the copy's, which nobody
\* reads.  What a job without an Outcome does is in RecordBuffer.
JobRecord(r, supplied, o) ==
    /\ copy[r].taken /\ made[r] < MaxRecords
    /\ supplied \/ copy[r].user
    /\ o # None
    /\ made' = [made EXCEPT ![r] = @ + 1]
    /\ write(<<r, made[r] + 1>>, [origin |-> "job", outcome |-> o, status |-> None])
    /\ UNCHANGED <<request, recorded, buffer, copy>>

\* c.Next() returns to the audit middleware.
HandlerReturns(r) ==
    /\ pc[r] = "handling"
    /\ pc' = [pc EXCEPT ![r] = "flushing"]
    /\ UNCHANGED <<method, status, user, skip, recorded, buffer, copy,
                   made, event, fate, sem>>

\* The handler panics: the stack unwinds through the audit middleware, whose
\* code after c.Next() never runs, to gin's Recovery, which answers 500.
HandlerPanics(r) ==
    /\ pc[r] = "handling"
    /\ pc' = [pc EXCEPT ![r] = "panicked"]
    /\ UNCHANGED <<method, status, user, skip, recorded, buffer, copy,
                   made, event, fate, sem>>

----------------------------------------------------------------------------
(* The request's goroutine, after c.Next(). *)

\* Mutated: Suppress silences the explicit events as well.
Flush_UnlessSuppressed(r) ==
    /\ pc[r] = "flushing" /\ buffer[r] # <<>>
    /\ \/ skip[r] /\ UNCHANGED <<event, fate, sem>>
       \/ /\ ~skip[r]
          /\ LET id == <<r, Head(buffer[r])>>
             IN  write(id, [event[id] EXCEPT !.status = status[r],
                                             !.outcome = outcomeFor(status[r])])
    /\ buffer' = [buffer EXCEPT ![r] = Tail(@)]
    /\ UNCHANGED <<request, recorded, copy, made>>

\* Mutated: the buffer is a stack.
Flush_LastFirst(r) ==
    /\ pc[r] = "flushing" /\ buffer[r] # <<>>
    /\ LET id == <<r, buffer[r][Len(buffer[r])]>>
       IN  write(id, [event[id] EXCEPT !.status = status[r],
                                       !.outcome = outcomeFor(status[r])])
    /\ buffer' = [buffer EXCEPT ![r] = SubSeq(@, 1, Len(@) - 1)]
    /\ UNCHANGED <<request, recorded, copy, made>>

\* Mutated: a dropped event stays in the buffer and is flushed again.
Flush_RetriesDropped(r) ==
    /\ pc[r] = "flushing" /\ buffer[r] # <<>>
    /\ LET id == <<r, Head(buffer[r])>>
       IN  write(id, [event[id] EXCEPT !.status = status[r],
                                       !.outcome = outcomeFor(status[r])])
    /\ buffer' = [buffer EXCEPT ![r] = IF sem < MaxDeliveries THEN Tail(@) ELSE @]
    /\ UNCHANGED <<request, recorded, copy, made>>

\* One iteration of flushRecordedEvents.
Flush(r) ==
    /\ pc[r] = "flushing" /\ buffer[r] # <<>>
    /\ LET id == <<r, Head(buffer[r])>>
       IN  write(id, [event[id] EXCEPT !.status = status[r],
                                       !.outcome = outcomeFor(status[r])])
    /\ buffer' = [buffer EXCEPT ![r] = Tail(@)]
    /\ UNCHANGED <<request, recorded, copy, made>>

\* Mutated: the auditRecorded flag is not consulted.
backstopDue_AlwaysAutomatic(r) ==
    /\ ~skip[r]
    /\ outcomeForStatus(status[r]) # None
    /\ isMutating(method[r])
    /\ user[r]

\* The condition under which the middleware writes its own entry.
backstopDue(r) ==
    /\ ~skip[r] /\ ~recorded[r]
    /\ outcomeForStatus(status[r]) # None
    /\ isMutating(method[r])
    /\ user[r]

\* The rest of the middleware: the backstop entry, or an early return.
Backstop(r) ==
    /\ pc[r] = "flushing" /\ buffer[r] = <<>>
    /\ pc' = [pc EXCEPT ![r] = "done"]
    /\ \/ /\ backstopDue(r)
          /\ made' = [made EXCEPT ![r] = @ + 1]
          /\ write(<<r, made[r] + 1>>,
                   [origin |-> "backstop",
                    outcome |-> outcomeForStatus(status[r]),
                    status |-> status[r]])
       \/ /\ ~backstopDue(r)
          /\ UNCHANGED <<made, event, fate, sem>>
    /\ UNCHANGED <<method, status, user, skip, recorded, buffer, copy>>

----------------------------------------------------------------------------
(* The delivery goroutines. *)

\* sink.Record returns nil or an error, which is only logged.
SinkReturns(id) ==
    /\ fate[id] = "recording"
    /\ \E result \in {"recorded", "errored"} : fate' = [fate EXCEPT ![id] = result]
    /\ UNCHANGED <<request, recorded, buffer, copy, made, event, sem>>

\* Mutated: an error returns from the goroutine without the receive.
Release_Leaks(id) ==
    /\ \/ /\ fate[id] = "recorded" /\ fate' = [fate EXCEPT ![id] = "delivered"]
          /\ sem' = sem - 1
       \/ /\ fate[id] = "errored" /\ fate' = [fate EXCEPT ![id] = "failed"]
          /\ UNCHANGED sem
    /\ UNCHANGED <<request, recorded, buffer, copy, made, event>>

\* Mutated: the goroutine of an event the sink refused hangs.
Release_SuccessOnly(id) ==
    /\ fate[id] = "recorded" /\ fate' = [fate EXCEPT ![id] = "delivered"]
    /\ sem' = sem - 1
    /\ UNCHANGED <<request, recorded, buffer, copy, made, event>>

\* The deferred receive from rt.sem.
Release(id) ==
    /\ \/ fate[id] = "recorded" /\ fate' = [fate EXCEPT ![id] = "delivered"]
       \/ fate[id] = "errored" /\ fate' = [fate EXCEPT ![id] = "failed"]
    /\ sem' = sem - 1
    /\ UNCHANGED <<request, recorded, buffer, copy, made, event>>

Next ==
    \/ \E r \in Requests :
        \/ Arrive(r) \/ Authenticate(r) \/ Suppress(r)
        \/ Respond(r) \/ StartJob(r) \/ HandlerReturns(r) \/ HandlerPanics(r)
        \/ Flush(r) \/ Backstop(r)
        \/ \E supplied \in GivenActors, o \in GivenOutcomes :
              Record(r, supplied, o) \/ JobRecord(r, supplied, o)
    \/ \E id \in EventIds : SinkReturns(id) \/ Release(id)

SafeSpec == Init /\ [][Next]_vars

\* The Go scheduler runs the code after c.Next() and the delivery goroutines;
\* the sink returns (CoreSink bounds its attempts and their duration).
\* Nothing obliges a handler to return.
Fairness ==
    /\ \A r \in Requests : WF_vars(Flush(r)) /\ WF_vars(Backstop(r))
    /\ \A id \in EventIds : WF_vars(SinkReturns(id)) /\ WF_vars(Release(id))

Spec == SafeSpec /\ Fairness

----------------------------------------------------------------------------
(* Properties. *)

idsOf(r) == {id \in EventIds : id[1] = r}
eventsOf(r, origin) == {id \in idsOf(r) : event[id].origin = origin}

\* The semaphore counts exactly the goroutines that still hold a slot: no
\* path of write, delivery and the deferred release leaks or forges one.
SlotAccounting == sem = Cardinality({id \in EventIds : fate[id] \in Holding})

\* Record "suppresses the middleware's automatic backstop entry for this
\* request so there is no duplicate": never both kinds for one request.
NoDuplicateEntry ==
    \A r \in Requests :
        eventsOf(r, "record") = {} \/ eventsOf(r, "backstop") = {}

\* A request the middleware saw to its end leaves a trace: if it is mutating,
\* by a known user, answered with a recorded status and not suppressed, then
\* an event of it, explicit or automatic, went to the sink or to the log.
AuditedOrLogged ==
    \A r \in Requests :
        /\ pc[r] = "done"
        /\ isMutating(method[r]) /\ user[r] /\ ~skip[r]
        /\ status[r] \in {"2xx", "401", "403"}
        => \E id \in eventsOf(r, "record") \cup eventsOf(r, "backstop") :
               fate[id] \in HandedOver

\* An event a handler recorded is never lost on the way, suppressed request
\* or not: once the middleware is through, all of them have been handed over.
NoRecordLost ==
    \A r \in Requests : pc[r] = "done" =>
        \A id \in eventsOf(r, "record") : fate[id] \in HandedOver

\* "The request's real final status and outcome rather than a premature
\* success": an event that leaves the request with a status has the one the
\* client got and the outcome it stands for, and left after the handler; an
\* event without a status left with the outcome its caller gave.
TruthfulOutcome ==
    \A id \in EventIds : fate[id] \in HandedOver =>
        LET r == id[1] IN
        IF event[id].status = None
          THEN event[id].outcome \in GivenOutcomes \ {None}
          ELSE /\ pc[r] \in {"flushing", "done"}
               /\ event[id].status = status[r]
               /\ (event[id].outcome = "success") <=> (status[r] = "2xx")
               /\ (event[id].outcome = "denied") <=> (status[r] \in {"401", "403"})

\* Buffered events leave in the order in which they were recorded.
FlushedInOrder ==
    \A r \in Requests : \A i, j \in 1 .. MaxRecords + 1 :
        /\ i < j
        /\ fate[<<r, i>>] = "buffered"
        /\ event[<<r, j>>].origin = "record"
        /\ fate[<<r, j>>] \in HandedOver
        => event[<<r, j>>].status = None

\* rt.write is called once for an event, and nothing about the event changes
\* afterwards, whatever its goroutine and other requests do.
HandedOverOnce ==
    [][\A id \in EventIds : fate[id] \in HandedOver =>
          /\ event'[id] = event[id]
          /\ fate'[id] \in HandedOver
          /\ (fate'[id] \in {"recording", "dropped"} => fate'[id] = fate[id])]_vars

\* An event is dropped only while as many others are truly in delivery as the
\* runtime allows: a returned goroutine never keeps its slot for good.
DroppedOnlyUnderLoad ==
    [][\A id \in EventIds : fate[id] # "dropped" /\ fate'[id] = "dropped" =>
          Cardinality({other \in EventIds : fate[other] \in Holding}) = MaxDeliveries]_vars

\* Every event the middleware took over, in its buffer or in a goroutine,
\* ends delivered, failed or dropped, and with it every slot comes back.
EventsSettle ==
    \A id \in EventIds :
        (fate[id] \in Holding \/ (fate[id] = "buffered" /\ pc[id[1]] = "flushing"))
            ~> fate[id] \in Settled
=============================================================================
