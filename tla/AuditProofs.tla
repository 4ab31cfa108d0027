---------------------------- MODULE AuditProofs ----------------------------
(***************************************************************************)
(* Theorems about Audit, for every finite set of requests, every bound and *)
(* every choice of inputs.                                                 *)
(***************************************************************************)
EXTENDS Audit, FiniteSetTheorems, SequenceTheorems, TLAPS

----------------------------------------------------------------------------
(* The inductive invariant behind the types and the slots.  TypeOK is not  *)
(* inductive: the deferred receive takes sem below zero unless the slots   *)
(* are accounted for, and they are not unless rt.write is only ever called *)
(* for an event that holds none.                                           *)

\* Only the backstop uses the last event number, and it ends the request.
Numbered == \A r \in Requests : pc[r] # "done" => made[r] <= MaxRecords

\* Nothing has become yet of an event that has not been made.
Fresh == \A r \in Requests : \A n \in 1 .. MaxRecords + 1 :
            n > made[r] => fate[<<r, n>>] = None

\* The buffer of a request holds buffered events, in the order they were made.
Queued == \A r \in Requests :
            /\ \A i \in 1 .. Len(buffer[r]) :
                  /\ fate[<<r, buffer[r][i]>>] = "buffered"
                  /\ buffer[r][i] <= made[r]
            /\ \A i, j \in 1 .. Len(buffer[r]) : i < j => buffer[r][i] < buffer[r][j]

holders == {id \in EventIds : fate[id] \in Holding}

Bookkeeping == TypeOK /\ Numbered /\ Fresh /\ Queued /\ SlotAccounting

----------------------------------------------------------------------------
(* Types. *)

\* rt.write, given an identified event, keeps the types.
LEMMA WriteTypes ==
    ASSUME TypeOK, NEW id \in EventIds, NEW e \in Event, write(id, e)
    PROVE  /\ event' \in [EventIds -> Event]
           /\ fate' \in [EventIds -> Fates]
           /\ sem' \in 0 .. MaxDeliveries
<1>1. /\ event \in [EventIds -> Event] /\ fate \in [EventIds -> Fates]
      /\ sem \in 0 .. MaxDeliveries
    BY DEF TypeOK
<1>2. "recording" \in Fates /\ "dropped" \in Fates
    BY DEF Fates, HandedOver, Holding, Settled
<1>3. event' \in [EventIds -> Event]
    BY <1>1 DEF write
<1>4. fate' \in [EventIds -> Fates]
    BY <1>1, <1>2 DEF write
<1>5. sem' \in 0 .. MaxDeliveries
    BY <1>1, BoundsAssumption DEF write
<1> QED BY <1>3, <1>4, <1>5

\* The classification yields an outcome or None; the total one an outcome.
LEMMA OutcomeTypes ==
    ASSUME NEW s \in StatusClasses
    PROVE  /\ outcomeForStatus(s) \in Outcomes \cup {None}
           /\ outcomeFor(s) \in Outcomes
BY DEF outcomeFor, outcomeForStatus, Outcomes, None

\* EventIds is finite, and so is the set of events that hold a slot.
LEMMA HoldersFinite == IsFiniteSet(EventIds) /\ IsFiniteSet(holders)
<1>1. IsFiniteSet(1 .. MaxRecords + 1)
    BY BoundsAssumption, FS_Interval
<1>2. IsFiniteSet(EventIds)
    BY <1>1, RequestsAssumption, FS_Product DEF EventIds
<1>3. holders \in SUBSET EventIds
    BY DEF holders
<1> QED BY <1>2, <1>3, FS_Subset

\* Whoever holds a slot is counted.
LEMMA SomeSlotTaken ==
    ASSUME SlotAccounting, TypeOK, NEW id \in EventIds, fate[id] \in Holding
    PROVE  sem - 1 \in 0 .. MaxDeliveries
<1>1. holders # {}
    BY DEF holders
<1>2. Cardinality(holders) \in Nat /\ Cardinality(holders) # 0
    BY <1>1, HoldersFinite, FS_CardinalityType, FS_EmptySet
<1> QED BY <1>2, BoundsAssumption DEF SlotAccounting, TypeOK, holders

LEMMA TypeStep == Bookkeeping /\ [Next]_vars => (TypeOK /\ Numbered)'
<1> SUFFICES ASSUME TypeOK, Numbered, SlotAccounting, [Next]_vars
             PROVE  TypeOK' /\ Numbered'
    BY DEF Bookkeeping
<1>1. ASSUME NEW r \in Requests,
             Arrive(r) \/ Authenticate(r) \/ Suppress(r) \/ Respond(r)
             \/ StartJob(r) \/ HandlerReturns(r) \/ HandlerPanics(r)
      PROVE  TypeOK' /\ Numbered'
    <2>1. CASE Arrive(r)
        BY <2>1 DEF TypeOK, Numbered, Arrive
    <2>2. CASE Authenticate(r)
        BY <2>2 DEF TypeOK, Numbered, Authenticate
    <2>3. CASE Suppress(r)
        BY <2>3 DEF TypeOK, Numbered, Suppress
    <2>4. CASE Respond(r)
        BY <2>4 DEF TypeOK, Numbered, Respond
    <2>5. CASE StartJob(r)
        BY <2>5 DEF TypeOK, Numbered, StartJob, request
    <2>6. CASE HandlerReturns(r)
        BY <2>6 DEF TypeOK, Numbered, HandlerReturns
    <2>7. CASE HandlerPanics(r)
        BY <2>7 DEF TypeOK, Numbered, HandlerPanics
    <2> QED BY <1>1, <2>1, <2>2, <2>3, <2>4, <2>5, <2>6, <2>7
<1>2. ASSUME NEW r \in Requests, NEW supplied \in GivenActors, NEW o \in GivenOutcomes,
             Record(r, supplied, o)
      PROVE  TypeOK' /\ Numbered'
    <2> DEFINE id == <<r, made[r] + 1>>
    <2> DEFINE e == [origin |-> "record", outcome |-> o, status |-> None]
    <2>1. id \in EventIds /\ made[r] + 1 \in 1 .. MaxRecords + 1
        BY <1>2, BoundsAssumption DEF TypeOK, Record, EventIds
    <2>2. e \in Event
        BY InputsAssumption DEF Event, Outcomes
    <2>3. event' \in [EventIds -> Event] /\ fate' \in [EventIds -> Fates]
          /\ sem' \in 0 .. MaxDeliveries
        <3>1. CASE o # None
            <4> HIDE DEF id, e
            <4>1. write(id, e)
                BY <1>2, <3>1 DEF Record, id, e
            <4> QED BY <2>1, <2>2, <4>1, WriteTypes
        <3>2. CASE o = None
            <4>1. /\ event' = [event EXCEPT ![id] = e]
                  /\ fate' = [fate EXCEPT ![id] = "buffered"]
                  /\ sem' = sem
                BY <1>2, <3>2 DEF Record
            <4>2. "buffered" \in Fates
                BY DEF Fates
            <4> HIDE DEF id, e
            <4> QED BY <2>1, <2>2, <4>1, <4>2 DEF TypeOK
        <3> QED BY <3>1, <3>2
    <2>4. buffer' \in [Requests -> Seq(1 .. MaxRecords + 1)]
        <3>1. buffer[r] \in Seq(1 .. MaxRecords + 1)
            BY DEF TypeOK
        <3>2. Append(buffer[r], made[r] + 1) \in Seq(1 .. MaxRecords + 1)
            BY <2>1, <3>1, AppendProperties
        <3>3. \/ buffer' = buffer
              \/ buffer' = [buffer EXCEPT ![r] = Append(@, made[r] + 1)]
            BY <1>2 DEF Record
        <3> QED BY <3>2, <3>3 DEF TypeOK
    <2>5. made' \in [Requests -> 0 .. MaxRecords + 1] /\ Numbered'
        BY <1>2, BoundsAssumption DEF TypeOK, Numbered, Record, request
    <2> QED BY <1>2, <2>3, <2>4, <2>5 DEF TypeOK, Record, request
<1>3. ASSUME NEW r \in Requests, NEW supplied \in GivenActors, NEW o \in GivenOutcomes,
             JobRecord(r, supplied, o)
      PROVE  TypeOK' /\ Numbered'
    <2> DEFINE id == <<r, made[r] + 1>>
    <2> DEFINE e == [origin |-> "job", outcome |-> o, status |-> None]
    <2>1. id \in EventIds
        BY <1>3, BoundsAssumption DEF TypeOK, JobRecord, EventIds
    <2>2. e \in Event
        BY InputsAssumption DEF Event, Outcomes
    <2>3. event' \in [EventIds -> Event] /\ fate' \in [EventIds -> Fates]
          /\ sem' \in 0 .. MaxDeliveries
        <3>1. write(id, e)
            BY <1>3 DEF JobRecord, id, e
        <3> HIDE DEF id, e
        <3> QED BY <2>1, <2>2, <3>1, WriteTypes
    <2>4. made' \in [Requests -> 0 .. MaxRecords + 1] /\ Numbered'
        BY <1>3, BoundsAssumption DEF TypeOK, Numbered, JobRecord, request
    <2> QED BY <1>3, <2>3, <2>4 DEF TypeOK, JobRecord, request
<1>4. ASSUME NEW r \in Requests, Flush(r) PROVE TypeOK' /\ Numbered'
    <2> DEFINE id == <<r, Head(buffer[r])>>
    <2> DEFINE e == [event[id] EXCEPT !.status = status[r],
                                      !.outcome = outcomeFor(status[r])]
    <2>1. Head(buffer[r]) \in 1 .. MaxRecords + 1
          /\ Tail(buffer[r]) \in Seq(1 .. MaxRecords + 1)
        BY <1>4, HeadTailProperties DEF TypeOK, Flush
    <2>2. id \in EventIds
        BY <2>1 DEF EventIds
    <2>3. e \in Event
        <3>1. event[id] \in Event /\ status[r] \in StatusClasses
            BY <2>2, InputsAssumption DEF TypeOK
        <3>2. outcomeFor(status[r]) \in Outcomes
            BY <3>1, OutcomeTypes
        <3> HIDE DEF id
        <3> QED BY <3>1, <3>2 DEF Event
    <2>4. event' \in [EventIds -> Event] /\ fate' \in [EventIds -> Fates]
          /\ sem' \in 0 .. MaxDeliveries
        <3>1. write(id, e)
            BY <1>4 DEF Flush
        <3> HIDE DEF id, e
        <3> QED BY <2>2, <2>3, <3>1, WriteTypes
    <2>5. buffer' \in [Requests -> Seq(1 .. MaxRecords + 1)]
        BY <1>4, <2>1 DEF TypeOK, Flush
    <2> QED BY <1>4, <2>4, <2>5 DEF TypeOK, Numbered, Flush, request
<1>5. ASSUME NEW r \in Requests, Backstop(r) PROVE TypeOK' /\ Numbered'
    <2> DEFINE id == <<r, made[r] + 1>>
    <2> DEFINE e == [origin |-> "backstop", outcome |-> outcomeForStatus(status[r]),
                     status |-> status[r]]
    <2>1. made[r] \in 0 .. MaxRecords /\ pc[r] # "done"
        BY <1>5, BoundsAssumption DEF TypeOK, Numbered, Backstop
    <2>2. id \in EventIds
        BY <2>1, BoundsAssumption DEF EventIds
    <2>3. e \in Event
        BY OutcomeTypes, InputsAssumption DEF TypeOK, Event
    <2>4. event' \in [EventIds -> Event] /\ fate' \in [EventIds -> Fates]
          /\ sem' \in 0 .. MaxDeliveries
        <3>1. CASE backstopDue(r)
            <4>1. write(id, e)
                BY <1>5, <3>1 DEF Backstop
            <4> HIDE DEF id, e
            <4> QED BY <2>2, <2>3, <4>1, WriteTypes
        <3>2. CASE ~backstopDue(r)
            BY <1>5, <3>2 DEF TypeOK, Backstop
        <3> QED BY <3>1, <3>2
    <2>5. made' \in [Requests -> 0 .. MaxRecords + 1] /\ Numbered'
        <3>1. \/ made' = made
              \/ made' = [made EXCEPT ![r] = @ + 1]
            BY <1>5 DEF Backstop
        <3>2. pc' = [pc EXCEPT ![r] = "done"]
            BY <1>5 DEF Backstop
        <3>3. made \in [Requests -> 0 .. MaxRecords + 1] /\ DOMAIN pc = Requests
            BY DEF TypeOK
        <3>4. made' \in [Requests -> 0 .. MaxRecords + 1]
            BY <2>1, <3>1, <3>3, BoundsAssumption
        <3>5. \A q \in Requests \ {r} : made'[q] = made[q] /\ pc'[q] = pc[q]
            BY <3>1, <3>2, <3>3
        <3>6. pc'[r] = "done"
            BY <3>2, <3>3
        <3> QED BY <3>4, <3>5, <3>6 DEF Numbered
    <2> QED BY <1>5, <2>4, <2>5 DEF TypeOK, Backstop
<1>6. ASSUME NEW id \in EventIds, SinkReturns(id) PROVE TypeOK' /\ Numbered'
    BY <1>6 DEF TypeOK, Numbered, SinkReturns, Fates, HandedOver, Holding, request
<1>7. ASSUME NEW id \in EventIds, Release(id) PROVE TypeOK' /\ Numbered'
    <2>1. sem' \in 0 .. MaxDeliveries
        BY <1>7, SomeSlotTaken DEF Release, Holding
    <2>2. fate' \in [EventIds -> Fates]
        BY <1>7 DEF TypeOK, Release, Fates, HandedOver, Settled
    <2> QED BY <1>7, <2>1, <2>2 DEF TypeOK, Numbered, Release, request
<1>8. CASE UNCHANGED vars
    BY <1>8 DEF TypeOK, Numbered, vars, request
<1> QED BY <1>1, <1>2, <1>3, <1>4, <1>5, <1>6, <1>7, <1>8 DEF Next


----------------------------------------------------------------------------
(* Event numbers and buffers. *)

\* The steps of a request that leave its events alone.
quiet(r) ==
    \/ Arrive(r) \/ Authenticate(r) \/ Suppress(r) \/ Respond(r)
    \/ StartJob(r) \/ HandlerReturns(r) \/ HandlerPanics(r)

LEMMA QuietFrame ==
    ASSUME NEW r \in Requests, quiet(r)
    PROVE  UNCHANGED <<recorded, buffer, made, event, fate, sem>>
BY DEF quiet, Arrive, Authenticate, Suppress, Respond, StartJob, HandlerReturns,
       HandlerPanics, request

\* rt.write decides the fate of the event it is given and of no other.
LEMMA WriteFate ==
    ASSUME TypeOK, NEW id \in EventIds, NEW e, write(id, e)
    PROVE  /\ fate'[id] \in {"recording", "dropped"}
           /\ event'[id] = e
           /\ \A other \in EventIds \ {id} :
                fate'[other] = fate[other] /\ event'[other] = event[other]
BY DEF TypeOK, write

\* Making an event gives it the next number and leaves the others alone.
makes(r) ==
    /\ made[r] < MaxRecords + 1
    /\ made' = [made EXCEPT ![r] = @ + 1]
    /\ fate'[<<r, made[r] + 1>>] \in Fates \ {None}
    /\ \A other \in EventIds \ {<<r, made[r] + 1>>} :
          fate'[other] = fate[other] /\ event'[other] = event[other]

LEMMA NextNumber ==
    ASSUME TypeOK, NEW r \in Requests, made[r] < MaxRecords + 1
    PROVE  /\ made[r] + 1 \in 1 .. MaxRecords + 1
           /\ <<r, made[r] + 1>> \in EventIds
BY BoundsAssumption DEF TypeOK, EventIds

LEMMA RecordMakes ==
    ASSUME TypeOK, NEW r \in Requests, NEW supplied \in GivenActors,
           NEW o \in GivenOutcomes, Record(r, supplied, o)
    PROVE  /\ makes(r)
           /\ event'[<<r, made[r] + 1>>].origin = "record"
           /\ \/ /\ o = None
                 /\ fate'[<<r, made[r] + 1>>] = "buffered"
                 /\ buffer' = [buffer EXCEPT ![r] = Append(@, made[r] + 1)]
                 /\ sem' = sem
              \/ /\ o # None
                 /\ fate'[<<r, made[r] + 1>>] \in {"recording", "dropped"}
                 /\ write(<<r, made[r] + 1>>,
                          [origin |-> "record", outcome |-> o, status |-> None])
                 /\ buffer' = buffer
<1>1. made[r] < MaxRecords /\ made[r] \in Nat /\ made[r] < MaxRecords + 1
    BY BoundsAssumption DEF Record, TypeOK
<1>2. <<r, made[r] + 1>> \in EventIds
    BY <1>1, NextNumber
<1>3. made' = [made EXCEPT ![r] = @ + 1]
    BY DEF Record
<1>4. CASE o = None
    BY <1>1, <1>2, <1>3, <1>4 DEF Record, TypeOK, makes, Fates, None
<1>5. CASE o # None
    <2>1. write(<<r, made[r] + 1>>, [origin |-> "record", outcome |-> o, status |-> None])
          /\ buffer' = buffer
        BY <1>5 DEF Record
    <2>2. {"recording", "dropped"} \subseteq Fates \ {None}
        BY DEF Fates, HandedOver, Holding, Settled, None
    <2> QED BY <1>1, <1>2, <1>3, <1>5, <2>1, <2>2, WriteFate DEF makes
<1> QED BY <1>4, <1>5

LEMMA JobRecordMakes ==
    ASSUME TypeOK, NEW r \in Requests, NEW supplied \in GivenActors,
           NEW o \in GivenOutcomes, JobRecord(r, supplied, o)
    PROVE  /\ makes(r)
           /\ event'[<<r, made[r] + 1>>].origin = "job"
           /\ buffer' = buffer
           /\ fate'[<<r, made[r] + 1>>] \in {"recording", "dropped"}
           /\ write(<<r, made[r] + 1>>,
                    [origin |-> "job", outcome |-> o, status |-> None])
<1>1. made[r] < MaxRecords /\ made[r] \in Nat /\ made[r] < MaxRecords + 1
    BY BoundsAssumption DEF JobRecord, TypeOK
<1>2. <<r, made[r] + 1>> \in EventIds
    BY <1>1, NextNumber
<1>3. made' = [made EXCEPT ![r] = @ + 1] /\ buffer' = buffer
    BY DEF JobRecord
<1>4. write(<<r, made[r] + 1>>, [origin |-> "job", outcome |-> o, status |-> None])
    BY DEF JobRecord
<1>5. {"recording", "dropped"} \subseteq Fates \ {None}
    BY DEF Fates, HandedOver, Holding, Settled, None
<1> QED BY <1>1, <1>2, <1>3, <1>4, <1>5, WriteFate DEF makes

LEMMA BackstopMakes ==
    ASSUME TypeOK, Numbered, NEW r \in Requests, Backstop(r)
    PROVE  /\ buffer' = buffer
           /\ \/ /\ backstopDue(r)
                 /\ makes(r)
                 /\ event'[<<r, made[r] + 1>>].origin = "backstop"
                 /\ fate'[<<r, made[r] + 1>>] \in {"recording", "dropped"}
                 /\ write(<<r, made[r] + 1>>,
                          [origin |-> "backstop", outcome |-> outcomeForStatus(status[r]),
                           status |-> status[r]])
              \/ /\ ~backstopDue(r)
                 /\ UNCHANGED <<made, event, fate, sem>>
<1>1. buffer' = buffer
    BY DEF Backstop
<1>2. CASE backstopDue(r)
    <2>1. made[r] \in Nat /\ made[r] < MaxRecords + 1
        <3>1. made[r] \in 0 .. MaxRecords + 1
            BY DEF TypeOK
        <3>2. made[r] <= MaxRecords
            BY DEF Numbered, Backstop
        <3> QED BY <3>1, <3>2, BoundsAssumption
    <2>2. <<r, made[r] + 1>> \in EventIds
        BY <2>1, NextNumber
    <2>3. made' = [made EXCEPT ![r] = @ + 1]
          /\ write(<<r, made[r] + 1>>,
                   [origin |-> "backstop", outcome |-> outcomeForStatus(status[r]),
                    status |-> status[r]])
        BY <1>2 DEF Backstop
    <2>4. {"recording", "dropped"} \subseteq Fates \ {None}
        BY DEF Fates, HandedOver, Holding, Settled, None
    <2> QED BY <1>1, <1>2, <2>1, <2>2, <2>3, <2>4, WriteFate DEF makes
<1>3. CASE ~backstopDue(r)
    BY <1>1, <1>3 DEF Backstop
<1> QED BY <1>2, <1>3

LEMMA FlushWrites ==
    ASSUME TypeOK, Queued, NEW r \in Requests, Flush(r)
    PROVE  LET id == <<r, Head(buffer[r])>> IN
           /\ id \in EventIds
           /\ fate[id] = "buffered"
           /\ buffer[r] # <<>>
           /\ write(id, [event[id] EXCEPT !.status = status[r],
                                          !.outcome = outcomeFor(status[r])])
           /\ buffer' = [buffer EXCEPT ![r] = Tail(@)]
           /\ UNCHANGED <<request, recorded, copy, made>>
<1>1. buffer[r] \in Seq(1 .. MaxRecords + 1) /\ buffer[r] # <<>>
    BY DEF TypeOK, Flush
<1>2. Len(buffer[r]) \in Nat /\ Len(buffer[r]) # 0
    BY <1>1, EmptySeq
<1>3. Head(buffer[r]) = buffer[r][1] /\ Head(buffer[r]) \in 1 .. MaxRecords + 1
    <2>1. Head(buffer[r]) \in 1 .. MaxRecords + 1
        BY <1>1, HeadTailProperties
    <2>2. Head(buffer[r]) = buffer[r][1]
        BY <1>1
    <2> QED BY <2>1, <2>2
<1>4. fate[<<r, buffer[r][1]>>] = "buffered"
    BY <1>2 DEF Queued
<1> QED BY <1>1, <1>3, <1>4 DEF Flush, EventIds

LEMMA FreshStep == Bookkeeping /\ [Next]_vars => Fresh'
<1> SUFFICES ASSUME TypeOK, Numbered, Fresh, Queued, [Next]_vars PROVE Fresh'
    BY DEF Bookkeeping
<1>0. /\ made \in [Requests -> 0 .. MaxRecords + 1] /\ fate \in [EventIds -> Fates]
      /\ \A q \in Requests, n \in 1 .. MaxRecords + 1 : <<q, n>> \in EventIds
    BY DEF TypeOK, EventIds
<1>1. ASSUME NEW r \in Requests, makes(r) PROVE Fresh'
    BY <1>0, <1>1, BoundsAssumption DEF Fresh, makes
<1>2. ASSUME UNCHANGED <<made, fate>> PROVE Fresh'
    BY <1>2 DEF Fresh
<1>3. ASSUME NEW id \in EventIds, fate[id] # None, made' = made,
             \A other \in EventIds \ {id} : fate'[other] = fate[other]
      PROVE  Fresh'
    BY <1>0, <1>3, BoundsAssumption DEF Fresh
<1>4. ASSUME NEW r \in Requests, Flush(r) PROVE Fresh'
    <2> DEFINE id == <<r, Head(buffer[r])>>
    <2>1. id \in EventIds /\ fate[id] = "buffered" /\ made' = made
          /\ write(id, [event[id] EXCEPT !.status = status[r],
                                         !.outcome = outcomeFor(status[r])])
        BY <1>4, FlushWrites
    <2> HIDE DEF id
    <2>2. fate[id] # None
        BY <2>1 DEF None
    <2> QED BY <2>1, <2>2, <1>3, WriteFate
<1>5. ASSUME NEW id \in EventIds, SinkReturns(id) \/ Release(id) PROVE Fresh'
    <2>1. fate[id] # None
        BY <1>5 DEF SinkReturns, Release, None
    <2>2. made' = made /\ \A other \in EventIds \ {id} : fate'[other] = fate[other]
        BY <1>0, <1>5 DEF SinkReturns, Release
    <2> QED BY <2>1, <2>2, <1>3
<1> QED
    BY <1>1, <1>2, <1>4, <1>5, QuietFrame, RecordMakes, JobRecordMakes, BackstopMakes
    DEF Next, quiet, vars

\* A buffer none of whose events is decided stays a queue of buffered events.
LEMMA QueueKept ==
    ASSUME Queued, UNCHANGED buffer,
           \A r \in Requests : made'[r] >= made[r] /\ made[r] \in Nat /\ made'[r] \in Nat,
           TypeOK,
           \A r \in Requests, n \in 1 .. MaxRecords + 1 :
               fate[<<r, n>>] = "buffered" => fate'[<<r, n>>] = "buffered"
    PROVE  Queued'
<1>1. \A r \in Requests : \A i \in 1 .. Len(buffer[r]) : buffer[r][i] \in 1 .. MaxRecords + 1
    BY ElementOfSeq DEF TypeOK
<1> QED BY <1>1, BoundsAssumption DEF Queued

LEMMA QueuedStep == Bookkeeping /\ [Next]_vars => Queued'
<1> SUFFICES ASSUME TypeOK, Numbered, Fresh, Queued, [Next]_vars PROVE Queued'
    BY DEF Bookkeeping
<1>0. /\ made \in [Requests -> 0 .. MaxRecords + 1] /\ fate \in [EventIds -> Fates]
      /\ \A q \in Requests, n \in 1 .. MaxRecords + 1 : <<q, n>> \in EventIds
      /\ \A q \in Requests : made[q] \in Nat
    BY BoundsAssumption DEF TypeOK, EventIds
<1>1. ASSUME NEW r \in Requests, makes(r), buffer' = buffer PROVE Queued'
    <2>1. fate[<<r, made[r] + 1>>] # "buffered"
        BY <1>0, <1>1, BoundsAssumption DEF Fresh, makes, None
    <2>2. \A q \in Requests, n \in 1 .. MaxRecords + 1 :
              fate[<<q, n>>] = "buffered" => fate'[<<q, n>>] = "buffered"
        BY <1>0, <1>1, <2>1 DEF makes
    <2>3. \A q \in Requests : made'[q] >= made[q] /\ made'[q] \in Nat
        BY <1>0, <1>1 DEF makes
    <2> QED BY <1>0, <1>1, <2>2, <2>3, QueueKept
<1>2. ASSUME UNCHANGED <<buffer, made, fate>> PROVE Queued'
    BY <1>2 DEF Queued
<1>3. ASSUME NEW id \in EventIds, SinkReturns(id) \/ Release(id) PROVE Queued'
    <2>1. fate[id] # "buffered" /\ made' = made /\ buffer' = buffer
          /\ \A other \in EventIds \ {id} : fate'[other] = fate[other]
        BY <1>0, <1>3 DEF SinkReturns, Release
    <2>2. \A q \in Requests, n \in 1 .. MaxRecords + 1 :
              fate[<<q, n>>] = "buffered" => fate'[<<q, n>>] = "buffered"
        BY <1>0, <2>1
    <2> QED BY <1>0, <2>1, <2>2, QueueKept
<1>4. ASSUME NEW r \in Requests, makes(r), fate'[<<r, made[r] + 1>>] = "buffered",
             buffer' = [buffer EXCEPT ![r] = Append(@, made[r] + 1)]
      PROVE  Queued'
    <2> DEFINE n == made[r] + 1
    <2>1. n \in 1 .. MaxRecords + 1
        BY <1>0, <1>4, NextNumber DEF makes
    <2>2. buffer[r] \in Seq(1 .. MaxRecords + 1) /\ buffer \in [Requests -> Seq(1 .. MaxRecords + 1)]
        BY DEF TypeOK
    <2>3. /\ Len(buffer'[r]) = Len(buffer[r]) + 1 /\ Len(buffer[r]) \in Nat
          /\ \A i \in 1 .. Len(buffer[r]) : buffer'[r][i] = buffer[r][i]
          /\ buffer'[r][Len(buffer[r]) + 1] = n
          /\ \A q \in Requests \ {r} : buffer'[q] = buffer[q]
        BY <1>4, <2>1, <2>2, AppendProperties, LenProperties
    <2>4. \A q \in Requests : \A i \in 1 .. Len(buffer[q]) : buffer[q][i] \in 1 .. MaxRecords + 1
        BY <2>2, ElementOfSeq
    <2>5. /\ made'[r] = n
          /\ \A q \in Requests \ {r} : made'[q] = made[q]
        BY <1>0, <1>4 DEF makes
    <2>6. \A q \in Requests, k \in 1 .. MaxRecords + 1 :
              <<q, k>> # <<r, n>> => fate'[<<q, k>>] = fate[<<q, k>>]
        BY <1>0, <1>4 DEF makes
    <2>7. \A i \in 1 .. Len(buffer[r]) : buffer[r][i] \in Nat /\ buffer[r][i] < n
        <3>1. \A i \in 1 .. Len(buffer[r]) : buffer[r][i] <= made[r] /\ made[r] \in Nat
            BY <1>0 DEF Queued
        <3>2. \A i \in 1 .. Len(buffer[r]) : buffer[r][i] \in Nat
            BY <2>4
        <3> QED BY <3>1, <3>2
    <2> HIDE DEF n
    <2>8. ASSUME NEW q \in Requests, q # r
          PROVE  /\ \A i \in 1 .. Len(buffer'[q]) :
                       fate'[<<q, buffer'[q][i]>>] = "buffered" /\ buffer'[q][i] <= made'[q]
                 /\ \A i, j \in 1 .. Len(buffer'[q]) : i < j => buffer'[q][i] < buffer'[q][j]
        BY <2>3, <2>4, <2>5, <2>6, <2>8 DEF Queued
    <2>9. \A i \in 1 .. Len(buffer'[r]) : fate'[<<r, buffer'[r][i]>>] = "buffered"
        <3> SUFFICES ASSUME NEW i \in 1 .. Len(buffer'[r])
                     PROVE  fate'[<<r, buffer'[r][i]>>] = "buffered"
            OBVIOUS
        <3>1. CASE i = Len(buffer[r]) + 1
            BY <3>1, <2>3, <1>4 DEF n
        <3>2. CASE i \in 1 .. Len(buffer[r])
            <4>1. buffer'[r][i] = buffer[r][i] /\ buffer[r][i] # n
                  /\ buffer[r][i] \in 1 .. MaxRecords + 1
                BY <3>2, <2>1, <2>3, <2>4, <2>7
            <4>2. fate[<<r, buffer[r][i]>>] = "buffered"
                BY <3>2 DEF Queued
            <4> QED BY <4>1, <4>2, <2>6
        <3> QED BY <3>1, <3>2, <2>3
    <2>10. /\ \A i \in 1 .. Len(buffer'[r]) : buffer'[r][i] <= made'[r]
           /\ \A i, j \in 1 .. Len(buffer'[r]) : i < j => buffer'[r][i] < buffer'[r][j]
        <3> DEFINE L == Len(buffer[r])
        <3>1. \A i \in 1 .. Len(buffer'[r]) : i \in 1 .. L \/ i = L + 1
            BY <2>3
        <3>2. n \in Nat
            BY <2>1
        <3>3. \A i \in 1 .. L : buffer'[r][i] \in Nat /\ buffer'[r][i] < n
            BY <2>3, <2>7
        <3>4. buffer'[r][L + 1] = n
            BY <2>3
        <3>5. \A i, j \in 1 .. L : i < j => buffer'[r][i] < buffer'[r][j]
            BY <2>3 DEF Queued
        <3>6. \A i, j \in 1 .. Len(buffer'[r]) : i < j => i \in 1 .. L
            BY <2>3
        <3> HIDE DEF L
        <3> QED BY <3>1, <3>2, <3>3, <3>4, <3>5, <3>6, <2>5
    <2> QED BY <2>8, <2>9, <2>10 DEF Queued
<1>5. ASSUME NEW r \in Requests, Flush(r) PROVE Queued'
    <2> DEFINE h == Head(buffer[r])
    <2>1. /\ <<r, h>> \in EventIds
          /\ write(<<r, h>>, [event[<<r, h>>] EXCEPT !.status = status[r],
                                                   !.outcome = outcomeFor(status[r])])
          /\ buffer' = [buffer EXCEPT ![r] = Tail(@)]
          /\ made' = made
          /\ buffer[r] # <<>>
        BY <1>5, FlushWrites
    <2>2. buffer[r] \in Seq(1 .. MaxRecords + 1) /\ buffer \in [Requests -> Seq(1 .. MaxRecords + 1)]
        BY DEF TypeOK
    <2>3. /\ h = buffer[r][1] /\ Len(buffer[r]) \in Nat /\ Len(buffer[r]) # 0
          /\ Len(buffer'[r]) = Len(buffer[r]) - 1
          /\ \A i \in 1 .. Len(buffer'[r]) : buffer'[r][i] = buffer[r][i + 1]
          /\ \A q \in Requests \ {r} : buffer'[q] = buffer[q]
        <3>1. h = buffer[r][1]
            BY <2>1, <2>2
        <3>2. /\ Len(Tail(buffer[r])) = Len(buffer[r]) - 1
              /\ \A i \in 1 .. Len(Tail(buffer[r])) : Tail(buffer[r])[i] = buffer[r][i + 1]
              /\ Len(buffer[r]) \in Nat /\ Len(buffer[r]) # 0
            BY <2>1, <2>2, HeadTailProperties, EmptySeq
        <3> QED BY <2>1, <2>2, <3>1, <3>2
    <2>4. \A q \in Requests : \A i \in 1 .. Len(buffer[q]) : buffer[q][i] \in 1 .. MaxRecords + 1
        BY <2>2, ElementOfSeq
    <2>5. \A q \in Requests, k \in 1 .. MaxRecords + 1 :
              <<q, k>> # <<r, h>> => fate'[<<q, k>>] = fate[<<q, k>>]
        BY <1>0, <2>1, WriteFate
    <2>6. \A i \in 1 .. Len(buffer'[r]) :
              /\ i + 1 \in 1 .. Len(buffer[r])
              /\ buffer'[r][i] = buffer[r][i + 1]
              /\ buffer[r][i + 1] # h
        <3> SUFFICES ASSUME NEW i \in 1 .. Len(buffer'[r])
                     PROVE  /\ i + 1 \in 1 .. Len(buffer[r])
                            /\ buffer'[r][i] = buffer[r][i + 1]
                            /\ buffer[r][i + 1] # h
            OBVIOUS
        <3>1. 1 \in 1 .. Len(buffer[r]) /\ i + 1 \in 1 .. Len(buffer[r]) /\ 1 < i + 1
            BY <2>3
        <3>2. buffer[r][1] < buffer[r][i + 1]
            BY <3>1 DEF Queued
        <3>3. buffer[r][1] \in Nat /\ buffer[r][i + 1] \in Nat
            BY <2>4, <3>1
        <3>4. buffer'[r][i] = buffer[r][i + 1] /\ h = buffer[r][1]
            BY <2>3
        <3> HIDE DEF h
        <3> QED BY <3>1, <3>2, <3>3, <3>4
    <2> HIDE DEF h
    <2>7. ASSUME NEW q \in Requests, q # r
          PROVE  /\ \A i \in 1 .. Len(buffer'[q]) :
                       fate'[<<q, buffer'[q][i]>>] = "buffered" /\ buffer'[q][i] <= made'[q]
                 /\ \A i, j \in 1 .. Len(buffer'[q]) : i < j => buffer'[q][i] < buffer'[q][j]
        BY <2>1, <2>3, <2>4, <2>5, <2>7 DEF Queued
    <2>8. \A i \in 1 .. Len(buffer'[r]) :
              fate'[<<r, buffer'[r][i]>>] = "buffered" /\ buffer'[r][i] <= made'[r]
        <3> SUFFICES ASSUME NEW i \in 1 .. Len(buffer'[r])
                     PROVE  fate'[<<r, buffer'[r][i]>>] = "buffered" /\ buffer'[r][i] <= made'[r]
            OBVIOUS
        <3>1. /\ i + 1 \in 1 .. Len(buffer[r])
              /\ buffer'[r][i] = buffer[r][i + 1] /\ buffer[r][i + 1] # h
            BY <2>6
        <3>2. fate[<<r, buffer[r][i + 1]>>] = "buffered" /\ buffer[r][i + 1] <= made[r]
            BY <3>1 DEF Queued
        <3>3. buffer[r][i + 1] \in 1 .. MaxRecords + 1
            BY <2>4, <3>1
        <3>4. fate'[<<r, buffer[r][i + 1]>>] = fate[<<r, buffer[r][i + 1]>>]
            BY <2>5, <3>1, <3>3
        <3> QED BY <2>1, <3>1, <3>2, <3>4
    <2>9. \A i, j \in 1 .. Len(buffer'[r]) : i < j => buffer'[r][i] < buffer'[r][j]
        BY <2>3, <2>6 DEF Queued
    <2> QED BY <2>7, <2>8, <2>9 DEF Queued
<1> QED
    BY <1>1, <1>2, <1>3, <1>4, <1>5, QuietFrame, RecordMakes, JobRecordMakes, BackstopMakes
    DEF Next, quiet, vars

----------------------------------------------------------------------------
(* Slots. *)

\* rt.write of an event that holds no slot: either it takes one that is free,
\* or all are taken and the event is dropped.
LEMMA WriteSlots ==
    ASSUME TypeOK, SlotAccounting, NEW id \in EventIds, fate[id] \notin Holding,
           NEW e, write(id, e)
    PROVE  SlotAccounting'
<1>1. CASE sem < MaxDeliveries /\ sem' = sem + 1 /\ fate' = [fate EXCEPT ![id] = "recording"]
    <2>1. holders' = holders \cup {id} /\ id \notin holders
        BY <1>1 DEF holders, TypeOK, Holding
    <2>2. Cardinality(holders') = Cardinality(holders) + 1
        BY <2>1, HoldersFinite, FS_AddElement
    <2> QED BY <1>1, <2>2 DEF SlotAccounting, holders
<1>2. CASE sem = MaxDeliveries /\ sem' = sem /\ fate' = [fate EXCEPT ![id] = "dropped"]
    <2>1. holders' = holders
        BY <1>2 DEF holders, TypeOK, Holding
    <2> QED BY <1>2, <2>1 DEF SlotAccounting, holders
<1> QED BY <1>1, <1>2 DEF write

LEMMA SlotStep == Bookkeeping /\ [Next]_vars => SlotAccounting'
<1> SUFFICES ASSUME TypeOK, Numbered, Fresh, Queued, SlotAccounting, [Next]_vars
             PROVE  SlotAccounting'
    BY DEF Bookkeeping
<1>1. ASSUME UNCHANGED <<fate, sem>> PROVE SlotAccounting'
    BY <1>1 DEF SlotAccounting
<1>2. ASSUME NEW r \in Requests, makes(r)
      PROVE  <<r, made[r] + 1>> \in EventIds /\ fate[<<r, made[r] + 1>>] \notin Holding
    <2>1. <<r, made[r] + 1>> \in EventIds /\ made[r] + 1 \in 1 .. MaxRecords + 1
        BY <1>2, NextNumber DEF makes
    <2>2. made[r] + 1 > made[r]
        BY BoundsAssumption DEF TypeOK
    <2>3. fate[<<r, made[r] + 1>>] = None
        BY <2>1, <2>2 DEF Fresh
    <2> QED BY <2>1, <2>3 DEF Holding, None
<1>3. ASSUME NEW r \in Requests, makes(r), sem' = sem,
             fate'[<<r, made[r] + 1>>] = "buffered"
      PROVE  SlotAccounting'
    <2>1. holders' = holders
        BY <1>2, <1>3 DEF holders, makes, Holding
    <2> QED BY <1>3, <2>1 DEF SlotAccounting, holders
<1>4. ASSUME NEW r \in Requests, Flush(r) PROVE SlotAccounting'
    <2> DEFINE id == <<r, Head(buffer[r])>>
    <2>1. id \in EventIds /\ fate[id] = "buffered"
          /\ write(id, [event[id] EXCEPT !.status = status[r],
                                         !.outcome = outcomeFor(status[r])])
        BY <1>4, FlushWrites
    <2> HIDE DEF id
    <2>2. fate[id] \notin Holding
        BY <2>1 DEF Holding
    <2> QED BY <2>1, <2>2, WriteSlots
<1>5. ASSUME NEW id \in EventIds, SinkReturns(id) PROVE SlotAccounting'
    <2>1. holders' = holders /\ sem' = sem
        BY <1>5 DEF holders, SinkReturns, TypeOK, Holding
    <2> QED BY <2>1 DEF SlotAccounting, holders
<1>6. ASSUME NEW id \in EventIds, Release(id) PROVE SlotAccounting'
    <2>1. holders' = holders \ {id} /\ id \in holders /\ sem' = sem - 1
        BY <1>6 DEF holders, Release, TypeOK, Holding
    <2>2. Cardinality(holders') = Cardinality(holders) - 1
        BY <2>1, HoldersFinite, FS_RemoveElement
    <2> QED BY <2>1, <2>2 DEF SlotAccounting, holders
<1>7. ASSUME NEW r \in Requests, NEW supplied \in GivenActors, NEW o \in GivenOutcomes,
             Record(r, supplied, o)
      PROVE  SlotAccounting'
    BY <1>2, <1>3, <1>7, RecordMakes, WriteSlots
<1>8. ASSUME NEW r \in Requests, NEW supplied \in GivenActors, NEW o \in GivenOutcomes,
             JobRecord(r, supplied, o)
      PROVE  SlotAccounting'
    BY <1>2, <1>3, <1>8, JobRecordMakes, WriteSlots
<1>9. ASSUME NEW r \in Requests, Backstop(r) PROVE SlotAccounting'
    BY <1>1, <1>2, <1>9, BackstopMakes, WriteSlots
<1> QED
    BY <1>1, <1>4, <1>5, <1>6, <1>7, <1>8, <1>9, QuietFrame DEF Next, quiet, vars

----------------------------------------------------------------------------
(* The theorems that follow from the bookkeeping. *)

LEMMA BookkeepingInit == Init => Bookkeeping
<1> SUFFICES ASSUME Init PROVE Bookkeeping
    OBVIOUS
<1>1. TypeOK
    BY BoundsAssumption, InputsAssumption, EmptySeq
    DEF Init, TypeOK, NoCopy, NoEvent, Event, Fates
<1>2. Numbered /\ Fresh
    BY BoundsAssumption DEF Init, Numbered, Fresh, EventIds
<1>3. Queued
    <2>1. \A r \in Requests : buffer[r] = <<>> /\ Len(buffer[r]) = 0
        BY EmptySeq DEF Init
    <2> QED BY <2>1 DEF Queued
<1>4. SlotAccounting
    <2>1. holders = {}
        BY DEF Init, holders, Holding, None
    <2> QED BY <2>1, FS_EmptySet DEF Init, SlotAccounting, holders
<1> QED BY <1>1, <1>2, <1>3, <1>4 DEF Bookkeeping

LEMMA BookkeepingStep == Bookkeeping /\ [Next]_vars => Bookkeeping'
BY TypeStep, FreshStep, QueuedStep, SlotStep DEF Bookkeeping

LEMMA BookkeepingInvariant == SafeSpec => []Bookkeeping
BY BookkeepingInit, BookkeepingStep, PTL DEF SafeSpec

\* Every variable keeps its type: events are numbered within their request,
\* and the semaphore stays within the capacity of the channel.
THEOREM TypeCorrect == SafeSpec => []TypeOK
<1>1. Bookkeeping => TypeOK
    BY DEF Bookkeeping
<1> QED BY <1>1, BookkeepingInvariant, PTL

\* The semaphore counts exactly the goroutines that hold a slot.
THEOREM SlotsAccountedFor == SafeSpec => []SlotAccounting
<1>1. Bookkeeping => SlotAccounting
    BY DEF Bookkeeping
<1> QED BY <1>1, BookkeepingInvariant, PTL

----------------------------------------------------------------------------
(* What a step may do to an event that has been handed over. *)

\* The events a step decides are new, buffered or in delivery.
LEMMA EventStep ==
    ASSUME Bookkeeping, [Next]_vars, NEW id \in EventIds, fate[id] \in HandedOver
    PROVE  /\ event'[id] = event[id]
           /\ fate'[id] \in HandedOver
           /\ (fate'[id] \in {"recording", "dropped"} => fate'[id] = fate[id])
<1> DEFINE Kept == /\ event'[id] = event[id]
                  /\ fate'[id] \in HandedOver
                  /\ (fate'[id] \in {"recording", "dropped"} => fate'[id] = fate[id])
<1>0. TypeOK /\ Numbered /\ Fresh /\ Queued /\ fate[id] \notin {None, "buffered"}
    BY DEF Bookkeeping, HandedOver, Holding, Settled, None
<1>1. ASSUME UNCHANGED <<event, fate>> PROVE Kept
    BY <1>1
<1>2. ASSUME NEW r \in Requests, makes(r) PROVE Kept
    <2>1. <<r, made[r] + 1>> \in EventIds /\ made[r] + 1 \in 1 .. MaxRecords + 1
        BY <1>0, <1>2, NextNumber DEF makes
    <2>2. made[r] + 1 > made[r]
        BY <1>0, BoundsAssumption DEF TypeOK
    <2>3. fate[<<r, made[r] + 1>>] = None
        BY <1>0, <2>1, <2>2 DEF Fresh
    <2> QED BY <1>0, <1>2, <2>3 DEF makes
<1>3. ASSUME NEW r \in Requests, Flush(r) PROVE Kept
    <2> DEFINE h == <<r, Head(buffer[r])>>
    <2>1. h \in EventIds /\ fate[h] = "buffered"
          /\ write(h, [event[h] EXCEPT !.status = status[r],
                                       !.outcome = outcomeFor(status[r])])
        BY <1>0, <1>3, FlushWrites
    <2> HIDE DEF h
    <2> QED BY <1>0, <2>1, WriteFate
<1>4. ASSUME NEW other \in EventIds, SinkReturns(other) \/ Release(other) PROVE Kept
    BY <1>0, <1>4 DEF TypeOK, SinkReturns, Release, HandedOver, Holding, Settled
<1> HIDE DEF Kept
<1>5. Kept
    BY <1>0, <1>1, <1>2, <1>3, <1>4, QuietFrame, RecordMakes, JobRecordMakes, BackstopMakes
    DEF Next, quiet, vars
<1> QED BY <1>5 DEF Kept

\* An event is handed to the sink at most once and stays as it was then.
THEOREM WrittenOnce == SafeSpec => HandedOverOnce
<1>1. Bookkeeping /\ [Next]_vars =>
        [\A id \in EventIds : fate[id] \in HandedOver =>
            /\ event'[id] = event[id]
            /\ fate'[id] \in HandedOver
            /\ (fate'[id] \in {"recording", "dropped"} => fate'[id] = fate[id])]_vars
    BY EventStep
<1> QED BY <1>1, BookkeepingInvariant, PTL DEF SafeSpec, HandedOverOnce

\* An event is dropped only while every slot is held by another one.
THEOREM DropsJustified == SafeSpec => DroppedOnlyUnderLoad
<1>1. ASSUME Bookkeeping, [Next]_vars, NEW id \in EventIds,
             fate[id] # "dropped", fate'[id] = "dropped"
      PROVE  Cardinality({other \in EventIds : fate[other] \in Holding}) = MaxDeliveries
    <2>0. TypeOK /\ Numbered /\ Queued /\ SlotAccounting
        BY <1>1 DEF Bookkeeping
    <2>1. ASSUME NEW other \in EventIds, NEW e, write(other, e) PROVE sem = MaxDeliveries
        BY <1>1, <2>0, <2>1 DEF write, TypeOK
    <2>2. ASSUME NEW r \in Requests, makes(r), fate'[<<r, made[r] + 1>>] # "dropped"
          PROVE  FALSE
        BY <1>1, <2>2 DEF makes
    <2>3. ASSUME NEW other \in EventIds, SinkReturns(other) \/ Release(other) PROVE FALSE
        BY <1>1, <2>0, <2>3 DEF SinkReturns, Release, TypeOK
    <2>4. ASSUME UNCHANGED fate PROVE FALSE
        BY <1>1, <2>4
    <2>5. ASSUME NEW r \in Requests, Flush(r) PROVE sem = MaxDeliveries
        BY <2>0, <2>1, <2>5, FlushWrites
    <2>6. ASSUME NEW r \in Requests, makes(r) PROVE <<r, made[r] + 1>> \in EventIds
        BY <2>0, <2>6, NextNumber DEF makes
    <2>7. ASSUME NEW r \in Requests, NEW supplied \in GivenActors, NEW o \in GivenOutcomes,
                 Record(r, supplied, o) \/ JobRecord(r, supplied, o)
          PROVE  sem = MaxDeliveries
        BY <2>0, <2>1, <2>2, <2>6, <2>7, RecordMakes, JobRecordMakes
    <2>8. ASSUME NEW r \in Requests, Backstop(r) PROVE sem = MaxDeliveries
        BY <2>0, <2>1, <2>4, <2>6, <2>8, BackstopMakes
    <2>9. sem = MaxDeliveries
        BY <1>1, <2>3, <2>4, <2>5, <2>7, <2>8, QuietFrame DEF Next, quiet, vars
    <2> QED BY <2>0, <2>9 DEF SlotAccounting
<1>2. Bookkeeping /\ [Next]_vars =>
        [\A id \in EventIds : fate[id] # "dropped" /\ fate'[id] = "dropped" =>
            Cardinality({other \in EventIds : fate[other] \in Holding}) = MaxDeliveries]_vars
    BY <1>1
<1> QED BY <1>2, BookkeepingInvariant, PTL DEF SafeSpec, DroppedOnlyUnderLoad

----------------------------------------------------------------------------
(* What a request leaves behind.  The flag auditRecorded stands for the     *)
(* explicit events, the buffer holds those not yet handed over, and the     *)
(* backstop runs last, when neither the flag nor the status can change.     *)

numbers == 1 .. MaxRecords + 1
hasEvent(r, origin) == \E n \in numbers : event[<<r, n>>].origin = origin

Flagged == \A r \in Requests : recorded[r] <=> hasEvent(r, "record")

Unmade == \A r \in Requests : \A n \in numbers :
              n > made[r] => event[<<r, n>>].origin = None

InBuffer == \A r \in Requests : \A n \in numbers :
    /\ fate[<<r, n>>] = "buffered" => \E i \in 1 .. Len(buffer[r]) : buffer[r][i] = n
    /\ event[<<r, n>>].origin = "record" => fate[<<r, n>>] \in HandedOver \cup {"buffered"}

Ended == \A r \in Requests :
    /\ pc[r] = "done" => buffer[r] = <<>>
    /\ hasEvent(r, "backstop") => pc[r] = "done" /\ ~recorded[r]
    /\ pc[r] = "done" /\ backstopDue(r) =>
          \E n \in numbers : /\ event[<<r, n>>].origin = "backstop"
                            /\ fate[<<r, n>>] \in HandedOver

Traces == Flagged /\ Unmade /\ InBuffer /\ Ended

\* The facts about types and numbers the proofs below use again and again.
LEMMA Basics ==
    ASSUME TypeOK
    PROVE  /\ \A r \in Requests : \A n \in numbers : <<r, n>> \in EventIds
           /\ \A id \in EventIds : id[1] \in Requests /\ id[2] \in numbers /\ id = <<id[1], id[2]>>
           /\ \A r \in Requests : made[r] \in Nat
           /\ made \in [Requests -> 0 .. MaxRecords + 1]
           /\ buffer \in [Requests -> Seq(numbers)]
           /\ DOMAIN pc = Requests
           /\ recorded \in [Requests -> BOOLEAN]
BY BoundsAssumption DEF TypeOK, EventIds, numbers

\* The origin of an event is settled when it is made.
LEMMA FlushKeepsOrigin ==
    ASSUME TypeOK, Queued, NEW r \in Requests, Flush(r)
    PROVE  /\ \A id \in EventIds : event'[id].origin = event[id].origin
           /\ fate'[<<r, Head(buffer[r])>>] \in {"recording", "dropped"}
           /\ \A id \in EventIds \ {<<r, Head(buffer[r])>>} : fate'[id] = fate[id]
<1> DEFINE h == <<r, Head(buffer[r])>>
<1> DEFINE e == [event[h] EXCEPT !.status = status[r], !.outcome = outcomeFor(status[r])]
<1>1. h \in EventIds /\ write(h, e)
    BY FlushWrites
<1>2. event[h] \in Event
    BY <1>1 DEF TypeOK
<1>3. e.origin = event[h].origin
    BY <1>2 DEF Event
<1> HIDE DEF h, e
<1>4. /\ fate'[h] \in {"recording", "dropped"}
      /\ event'[h] = e
      /\ \A other \in EventIds \ {h} : fate'[other] = fate[other] /\ event'[other] = event[other]
    BY <1>1, WriteFate
<1>5. \A id \in EventIds : event'[id].origin = event[id].origin
    BY <1>3, <1>4
<1> QED BY <1>4, <1>5 DEF h

LEMMA FlaggedStep ==
    ASSUME Bookkeeping, Traces, [Next]_vars
    PROVE  Flagged' /\ Unmade'
<1>0. TypeOK /\ Numbered /\ Fresh /\ Queued /\ Flagged /\ Unmade
    BY DEF Bookkeeping, Traces
<1>1. ASSUME UNCHANGED <<recorded, made>>, \A id \in EventIds : event'[id].origin = event[id].origin
      PROVE  Flagged' /\ Unmade'
    <2>1. \A q \in Requests, n \in numbers : event'[<<q, n>>].origin = event[<<q, n>>].origin
        BY <1>0, <1>1, Basics
    <2>2. \A q \in Requests : \A origin : hasEvent(q, origin)' <=> hasEvent(q, origin)
        BY <2>1 DEF hasEvent, numbers
    <2>3. Flagged'
        BY <1>0, <1>1, <2>2 DEF Flagged
    <2>4. Unmade'
        BY <1>0, <1>1, <2>1 DEF Unmade, numbers
    <2> QED BY <2>3, <2>4
<1>2. ASSUME NEW r \in Requests, makes(r)
      PROVE  /\ Unmade'
             /\ \A q \in Requests, n \in numbers :
                    <<q, n>> # <<r, made[r] + 1>> => event'[<<q, n>>] = event[<<q, n>>]
             /\ made[r] + 1 \in numbers
             /\ event[<<r, made[r] + 1>>].origin = None
    <2>1. made[r] + 1 \in numbers /\ made[r] + 1 > made[r]
        BY <1>0, <1>2, NextNumber, Basics DEF makes, numbers
    <2>2. \A q \in Requests, n \in numbers :
              <<q, n>> # <<r, made[r] + 1>> => event'[<<q, n>>] = event[<<q, n>>]
        BY <1>0, <1>2, Basics DEF makes
    <2>3. event[<<r, made[r] + 1>>].origin = None
        BY <1>0, <2>1 DEF Unmade
    <2>4. /\ made'[r] = made[r] + 1 /\ made[r] \in Nat
          /\ \A q \in Requests \ {r} : made'[q] = made[q]
        BY <1>0, <1>2, Basics DEF makes
    <2>5. Unmade'
        <3> SUFFICES ASSUME NEW q \in Requests, NEW n \in numbers, n > made'[q]
                     PROVE  event'[<<q, n>>].origin = None
            BY DEF Unmade, numbers
        <3>1. n > made[q] /\ <<q, n>> # <<r, made[r] + 1>>
            BY <1>0, <2>4, BoundsAssumption DEF numbers
        <3> QED BY <1>0, <2>2, <3>1 DEF Unmade
    <2> QED BY <2>1, <2>2, <2>3, <2>5
<1>3. ASSUME NEW r \in Requests, NEW supplied \in GivenActors, NEW o \in GivenOutcomes,
             Record(r, supplied, o)
      PROVE  Flagged' /\ Unmade'
    <2>1. makes(r) /\ event'[<<r, made[r] + 1>>].origin = "record"
        BY <1>0, <1>3, RecordMakes
    <2>2. recorded' = [recorded EXCEPT ![r] = TRUE]
        BY <1>3 DEF Record
    <2>3. recorded'[r] /\ hasEvent(r, "record")'
        BY <1>0, <1>2, <2>1, <2>2, Basics DEF hasEvent, numbers
    <2>4. ASSUME NEW q \in Requests, q # r PROVE recorded'[q] <=> hasEvent(q, "record")'
        <3>1. recorded'[q] = recorded[q]
            BY <1>0, <2>2, <2>4, Basics
        <3>2. \A n \in numbers : event'[<<q, n>>] = event[<<q, n>>]
            BY <1>2, <2>1, <2>4
        <3>3. recorded[q] <=> hasEvent(q, "record")
            BY <1>0 DEF Flagged
        <3> QED BY <3>1, <3>2, <3>3 DEF hasEvent, numbers
    <2>5. Flagged'
        BY <2>3, <2>4 DEF Flagged
    <2> QED BY <1>2, <2>1, <2>5
<1>4. ASSUME NEW r \in Requests, makes(r), recorded' = recorded,
             event'[<<r, made[r] + 1>>].origin \in {"job", "backstop"}
      PROVE  Flagged' /\ Unmade'
    <2>1. \A q \in Requests, n \in numbers :
              event'[<<q, n>>].origin = "record" <=> event[<<q, n>>].origin = "record"
        BY <1>2, <1>4 DEF None
    <2>2. Flagged'
        BY <1>0, <1>4, <2>1 DEF Flagged, hasEvent, numbers
    <2> QED BY <1>2, <1>4, <2>2
<1>5. ASSUME NEW r \in Requests, NEW supplied \in GivenActors, NEW o \in GivenOutcomes,
             JobRecord(r, supplied, o)
      PROVE  Flagged' /\ Unmade'
    <2>1. recorded' = recorded
        BY <1>5 DEF JobRecord
    <2> QED BY <1>0, <1>4, <1>5, <2>1, JobRecordMakes
<1>6. ASSUME NEW r \in Requests, Backstop(r) PROVE Flagged' /\ Unmade'
    <2>1. recorded' = recorded
        BY <1>6 DEF Backstop
    <2> QED BY <1>0, <1>1, <1>4, <1>6, <2>1, BackstopMakes
<1>7. ASSUME NEW r \in Requests, Flush(r) PROVE Flagged' /\ Unmade'
    BY <1>0, <1>1, <1>7, FlushWrites, FlushKeepsOrigin
<1>8. ASSUME NEW id \in EventIds, SinkReturns(id) \/ Release(id) PROVE Flagged' /\ Unmade'
    BY <1>1, <1>8 DEF SinkReturns, Release
<1>9. ASSUME NEW r \in Requests, quiet(r) PROVE Flagged' /\ Unmade'
    BY <1>1, <1>9, QuietFrame
<1>10. CASE UNCHANGED vars
    BY <1>1, <1>10 DEF vars
<1> QED BY <1>3, <1>5, <1>6, <1>7, <1>8, <1>9, <1>10 DEF Next, quiet

LEMMA InBufferStep ==
    ASSUME Bookkeeping, Traces, [Next]_vars
    PROVE  InBuffer'
<1>0. TypeOK /\ Numbered /\ Fresh /\ Queued /\ InBuffer
    BY DEF Bookkeeping, Traces
<1>h. {"recording", "dropped", "recorded", "errored", "delivered", "failed"} \subseteq HandedOver
      /\ "buffered" \notin HandedOver
    BY DEF HandedOver, Holding, Settled
<1>1. ASSUME buffer' = buffer, \A id \in EventIds : event'[id].origin = event[id].origin,
             \A id \in EventIds : fate'[id] = fate[id]
                                 \/ (fate[id] \in HandedOver /\ fate'[id] \in HandedOver)
      PROVE  InBuffer'
    <2>1. \A q \in Requests, n \in numbers :
              /\ event'[<<q, n>>].origin = event[<<q, n>>].origin
              /\ fate'[<<q, n>>] = fate[<<q, n>>]
                 \/ (fate[<<q, n>>] \in HandedOver /\ fate'[<<q, n>>] \in HandedOver)
        BY <1>0, <1>1, Basics
    <2>2. \A q \in Requests, n \in numbers : fate'[<<q, n>>] = "buffered" =>
              \E i \in 1 .. Len(buffer'[q]) : buffer'[q][i] = n
        BY <1>0, <1>1, <1>h, <2>1 DEF InBuffer
    <2>3. \A q \in Requests, n \in numbers : event'[<<q, n>>].origin = "record" =>
              fate'[<<q, n>>] \in HandedOver \cup {"buffered"}
        BY <1>0, <2>1 DEF InBuffer
    <2> QED BY <2>2, <2>3 DEF InBuffer, numbers
<1>2. ASSUME NEW r \in Requests, makes(r), buffer' = buffer,
             fate'[<<r, made[r] + 1>>] # "buffered",
             event'[<<r, made[r] + 1>>].origin = "record" => fate'[<<r, made[r] + 1>>] \in HandedOver
      PROVE  InBuffer'
    <2>1. \A q \in Requests, n \in numbers :
              <<q, n>> # <<r, made[r] + 1>> =>
                event'[<<q, n>>] = event[<<q, n>>] /\ fate'[<<q, n>>] = fate[<<q, n>>]
        BY <1>0, <1>2, Basics DEF makes
    <2>2. \A q \in Requests, n \in numbers : fate'[<<q, n>>] = "buffered" =>
              \E i \in 1 .. Len(buffer'[q]) : buffer'[q][i] = n
        BY <1>0, <1>2, <2>1 DEF InBuffer
    <2>3. \A q \in Requests, n \in numbers : event'[<<q, n>>].origin = "record" =>
              fate'[<<q, n>>] \in HandedOver \cup {"buffered"}
        BY <1>0, <1>2, <2>1 DEF InBuffer
    <2> QED BY <2>2, <2>3 DEF InBuffer, numbers
<1>3. ASSUME NEW r \in Requests, makes(r), fate'[<<r, made[r] + 1>>] = "buffered",
             buffer' = [buffer EXCEPT ![r] = Append(@, made[r] + 1)]
      PROVE  InBuffer'
    <2>1. \A q \in Requests, n \in numbers :
              <<q, n>> # <<r, made[r] + 1>> =>
                event'[<<q, n>>] = event[<<q, n>>] /\ fate'[<<q, n>>] = fate[<<q, n>>]
        BY <1>0, <1>3, Basics DEF makes
    <2>2. made[r] + 1 \in numbers /\ buffer[r] \in Seq(numbers)
        BY <1>0, <1>3, NextNumber, Basics DEF makes, numbers
    <2>3. /\ Len(buffer'[r]) = Len(buffer[r]) + 1 /\ Len(buffer[r]) \in Nat
          /\ \A i \in 1 .. Len(buffer[r]) : buffer'[r][i] = buffer[r][i]
          /\ buffer'[r][Len(buffer[r]) + 1] = made[r] + 1
          /\ \A q \in Requests \ {r} : buffer'[q] = buffer[q]
        BY <1>0, <1>3, <2>2, Basics, AppendProperties, LenProperties
    <2>4. ASSUME NEW q \in Requests, NEW n \in numbers, fate'[<<q, n>>] = "buffered"
          PROVE  \E i \in 1 .. Len(buffer'[q]) : buffer'[q][i] = n
        <3>1. CASE <<q, n>> = <<r, made[r] + 1>>
            BY <3>1, <2>3
        <3>2. CASE <<q, n>> # <<r, made[r] + 1>>
            <4>1. PICK i \in 1 .. Len(buffer[q]) : buffer[q][i] = n
                BY <1>0, <2>1, <2>4, <3>2 DEF InBuffer, numbers
            <4>2. i \in 1 .. Len(buffer'[q]) /\ buffer'[q][i] = n
                BY <2>3, <4>1
            <4> QED BY <4>2
        <3> QED BY <3>1, <3>2
    <2>5. \A q \in Requests, n \in numbers : event'[<<q, n>>].origin = "record" =>
              fate'[<<q, n>>] \in HandedOver \cup {"buffered"}
        BY <1>0, <1>3, <2>1 DEF InBuffer, numbers
    <2> QED BY <2>4, <2>5 DEF InBuffer, numbers
<1>4. ASSUME NEW r \in Requests, Flush(r) PROVE InBuffer'
    <2> DEFINE h == Head(buffer[r])
    <2>1. /\ \A id \in EventIds : event'[id].origin = event[id].origin
          /\ fate'[<<r, h>>] \in HandedOver /\ fate'[<<r, h>>] # "buffered"
          /\ \A id \in EventIds \ {<<r, h>>} : fate'[id] = fate[id]
          /\ buffer' = [buffer EXCEPT ![r] = Tail(@)] /\ buffer[r] # <<>>
        BY <1>0, <1>4, <1>h, FlushKeepsOrigin, FlushWrites
    <2>2. buffer[r] \in Seq(numbers) /\ buffer \in [Requests -> Seq(numbers)]
        BY <1>0, Basics
    <2>3. /\ h = buffer[r][1] /\ Len(buffer[r]) \in Nat
          /\ Len(buffer'[r]) = Len(buffer[r]) - 1
          /\ \A i \in 1 .. Len(buffer'[r]) : buffer'[r][i] = buffer[r][i + 1]
          /\ \A q \in Requests \ {r} : buffer'[q] = buffer[q]
        <3>1. h = buffer[r][1]
            BY <2>1, <2>2
        <3>2. /\ Len(Tail(buffer[r])) = Len(buffer[r]) - 1
              /\ \A i \in 1 .. Len(Tail(buffer[r])) : Tail(buffer[r])[i] = buffer[r][i + 1]
              /\ Len(buffer[r]) \in Nat
            BY <2>1, <2>2, HeadTailProperties, EmptySeq
        <3> QED BY <2>1, <2>2, <3>1, <3>2
    <2> HIDE DEF h
    <2>4. ASSUME NEW q \in Requests, NEW n \in numbers, fate'[<<q, n>>] = "buffered"
          PROVE  \E i \in 1 .. Len(buffer'[q]) : buffer'[q][i] = n
        <3>1. <<q, n>> # <<r, h>> /\ fate[<<q, n>>] = "buffered"
            BY <1>0, <2>1, <2>4, Basics
        <3>2. PICK i \in 1 .. Len(buffer[q]) : buffer[q][i] = n
            BY <1>0, <3>1 DEF InBuffer, numbers
        <3>3. CASE q = r
            <4>1. i # 1 /\ i - 1 \in 1 .. Len(buffer'[r]) /\ buffer'[r][i - 1] = n
                BY <2>3, <3>1, <3>2, <3>3
            <4> QED BY <3>3, <4>1
        <3>4. CASE q # r
            BY <2>3, <3>2, <3>4
        <3> QED BY <3>3, <3>4
    <2>5. \A q \in Requests, n \in numbers : event'[<<q, n>>].origin = "record" =>
              fate'[<<q, n>>] \in HandedOver \cup {"buffered"}
        BY <1>0, <2>1, Basics DEF InBuffer, numbers
    <2> QED BY <2>4, <2>5 DEF InBuffer, numbers
<1>5. ASSUME NEW id \in EventIds, SinkReturns(id) \/ Release(id) PROVE InBuffer'
    <2>1. event' = event /\ buffer' = buffer
        BY <1>5 DEF SinkReturns, Release
    <2>2. /\ fate[id] \in HandedOver /\ fate'[id] \in HandedOver
          /\ \A other \in EventIds \ {id} : fate'[other] = fate[other]
        BY <1>0, <1>5, <1>h DEF TypeOK, SinkReturns, Release
    <2> QED BY <1>1, <2>1, <2>2
<1>6. ASSUME NEW r \in Requests, NEW supplied \in GivenActors, NEW o \in GivenOutcomes,
             Record(r, supplied, o) \/ JobRecord(r, supplied, o)
      PROVE  InBuffer'
    BY <1>0, <1>2, <1>3, <1>6, <1>h, RecordMakes, JobRecordMakes
<1>7. ASSUME NEW r \in Requests, Backstop(r) PROVE InBuffer'
    BY <1>0, <1>1, <1>2, <1>7, <1>h, BackstopMakes
<1>8. ASSUME NEW r \in Requests, quiet(r) PROVE InBuffer'
    BY <1>1, <1>8, QuietFrame
<1>9. CASE UNCHANGED vars
    BY <1>1, <1>9 DEF vars
<1> QED BY <1>4, <1>5, <1>6, <1>7, <1>8, <1>9 DEF Next, quiet

\* Nothing about a request changes after its backstop.
LEMMA DoneIsFrozen ==
    ASSUME TypeOK, [Next]_vars, NEW r \in Requests, pc[r] = "done"
    PROVE  /\ pc'[r] = "done" /\ recorded'[r] = recorded[r] /\ buffer'[r] = buffer[r]
           /\ backstopDue(r)' <=> backstopDue(r)
<1> DEFINE Frozen == /\ pc'[r] = pc[r] /\ method'[r] = method[r] /\ status'[r] = status[r]
                    /\ user'[r] = user[r] /\ skip'[r] = skip[r]
                    /\ recorded'[r] = recorded[r] /\ buffer'[r] = buffer[r]
<1>1. ASSUME NEW q \in Requests, quiet(q) PROVE Frozen
    BY <1>1 DEF TypeOK, quiet, Arrive, Authenticate, Suppress, Respond, StartJob,
                HandlerReturns, HandlerPanics, request
<1>2. ASSUME NEW q \in Requests, Flush(q) \/ Backstop(q) PROVE Frozen
    BY <1>2 DEF TypeOK, Flush, Backstop, request
<1>3. ASSUME NEW q \in Requests, NEW supplied \in GivenActors, NEW o \in GivenOutcomes,
             Record(q, supplied, o) \/ JobRecord(q, supplied, o)
      PROVE  Frozen
    BY <1>3 DEF TypeOK, Record, JobRecord, request
<1>4. ASSUME NEW id \in EventIds, SinkReturns(id) \/ Release(id) PROVE Frozen
    BY <1>4 DEF SinkReturns, Release, request
<1>5. ASSUME UNCHANGED vars PROVE Frozen
    <2>1. request' = request /\ recorded' = recorded /\ buffer' = buffer
        BY <1>5 DEF vars
    <2> QED BY <2>1 DEF request
<1> HIDE DEF Frozen
<1>6. Frozen
    BY <1>1, <1>2, <1>3, <1>4, <1>5 DEF Next, quiet
<1> USE DEF Frozen
<1> QED BY <1>6 DEF backstopDue

LEMMA EndedStep ==
    ASSUME Bookkeeping, Traces, [Next]_vars
    PROVE  Ended'
<1>0. TypeOK /\ Numbered /\ Queued /\ Flagged /\ Ended /\ Flagged' /\ Unmade /\ Fresh
    BY FlaggedStep DEF Bookkeeping, Traces
<1> DEFINE Closed(r) ==
        /\ pc[r] = "done" => buffer[r] = <<>>
        /\ hasEvent(r, "backstop") => pc[r] = "done" /\ ~recorded[r]
        /\ pc[r] = "done" /\ backstopDue(r) =>
              \E n \in numbers : /\ event[<<r, n>>].origin = "backstop"
                                /\ fate[<<r, n>>] \in HandedOver
\* A step that makes no backstop event for q and does not end q keeps Closed(q).
<1>1. ASSUME NEW q \in Requests, pc'[q] = "done" => pc[q] = "done",
             \A n \in numbers : event'[<<q, n>>].origin = "backstop" =>
                                 event[<<q, n>>].origin = "backstop"
      PROVE  Closed(q)'
    <2>1. Closed(q) /\ \A n \in numbers : <<q, n>> \in EventIds
        BY <1>0, Basics DEF Ended
    <2>2. CASE pc[q] = "done"
        <3>1. /\ pc'[q] = "done" /\ recorded'[q] = recorded[q] /\ buffer'[q] = buffer[q]
              /\ backstopDue(q)' <=> backstopDue(q)
            BY <1>0, <2>2, DoneIsFrozen
        <3>2. hasEvent(q, "backstop")' => hasEvent(q, "backstop")
            BY <1>1 DEF hasEvent, numbers
        <3>3. \A n \in numbers : fate[<<q, n>>] \in HandedOver =>
                  event'[<<q, n>>] = event[<<q, n>>] /\ fate'[<<q, n>>] \in HandedOver
            BY <2>1, EventStep
        <3>4. backstopDue(q) => \E n \in numbers : /\ event'[<<q, n>>].origin = "backstop"
                                                  /\ fate'[<<q, n>>] \in HandedOver
            BY <2>1, <2>2, <3>3
        <3> QED BY <2>1, <2>2, <3>1, <3>2, <3>4 DEF numbers
    <2>3. CASE pc[q] # "done"
        <3>1. pc'[q] # "done" /\ ~hasEvent(q, "backstop")
            BY <1>1, <2>1, <2>3
        <3>2. ~hasEvent(q, "backstop")'
            BY <1>1, <3>1 DEF hasEvent, numbers
        <3> QED BY <3>1, <3>2
    <2> QED BY <2>2, <2>3
<1> HIDE DEF Closed
<1>2. ASSUME pc' = pc \/ \E r \in Requests : \E v : v # "done" /\ pc' = [pc EXCEPT ![r] = v],
             \A id \in EventIds : event'[id].origin = "backstop" => event[id].origin = "backstop"
      PROVE  Ended'
    <2> SUFFICES ASSUME NEW q \in Requests PROVE Closed(q)'
        BY DEF Ended, Closed
    <2>1. pc'[q] = "done" => pc[q] = "done"
        BY <1>0, <1>2, Basics
    <2>2. \A n \in numbers : event'[<<q, n>>].origin = "backstop" =>
                              event[<<q, n>>].origin = "backstop"
        BY <1>0, <1>2, Basics
    <2> QED BY <1>1, <2>1, <2>2
<1>3. ASSUME NEW r \in Requests, makes(r), UNCHANGED request,
             event'[<<r, made[r] + 1>>].origin # "backstop"
      PROVE  Ended'
    <2>1. pc' = pc
        BY <1>3 DEF request
    <2>2. \A id \in EventIds : event'[id].origin = "backstop" => event[id].origin = "backstop"
        BY <1>0, <1>3 DEF makes
    <2> QED BY <1>2, <2>1, <2>2
<1>4. ASSUME NEW r \in Requests, NEW supplied \in GivenActors, NEW o \in GivenOutcomes,
             Record(r, supplied, o) \/ JobRecord(r, supplied, o)
      PROVE  Ended'
    <2>1. UNCHANGED request
        BY <1>4 DEF Record, JobRecord
    <2> QED BY <1>0, <1>3, <1>4, <2>1, RecordMakes, JobRecordMakes
<1>5. ASSUME NEW r \in Requests, Flush(r) PROVE Ended'
    <2>1. pc' = pc
        BY <1>5 DEF Flush, request
    <2> QED BY <1>0, <1>2, <1>5, <2>1, FlushKeepsOrigin
<1>6. ASSUME NEW id \in EventIds, SinkReturns(id) \/ Release(id) PROVE Ended'
    <2>1. pc' = pc /\ event' = event
        BY <1>6 DEF SinkReturns, Release, request
    <2> QED BY <1>2, <2>1
<1>7. ASSUME NEW r \in Requests, quiet(r) PROVE Ended'
    <2>1. pc' = pc \/ \E v : v # "done" /\ pc' = [pc EXCEPT ![r] = v]
        BY <1>7 DEF quiet, Arrive, Authenticate, Suppress, Respond, StartJob,
                    HandlerReturns, HandlerPanics, request
    <2> QED BY <1>2, <1>7, <2>1, QuietFrame
<1>8. ASSUME NEW r \in Requests, Backstop(r) PROVE Ended'
    <2>1. /\ pc' = [pc EXCEPT ![r] = "done"] /\ buffer' = buffer /\ buffer[r] = <<>>
          /\ UNCHANGED <<method, status, user, skip, recorded>> /\ pc[r] = "flushing"
        BY <1>8 DEF Backstop
    <2>2. pc'[r] = "done" /\ \A q \in Requests \ {r} : pc'[q] = pc[q]
        BY <1>0, <2>1, Basics
    <2>3. backstopDue(r)' <=> backstopDue(r)
        BY <2>1 DEF backstopDue
    <2>4. ~hasEvent(r, "backstop")
        BY <1>0, <2>1 DEF Ended
    <2>5. ASSUME NEW q \in Requests, q # r PROVE Closed(q)'
        <3>1. \A n \in numbers : <<q, n>> \in EventIds /\ <<q, n>> # <<r, made[r] + 1>>
            BY <1>0, <2>5, Basics
        <3>2. \A n \in numbers : event'[<<q, n>>] = event[<<q, n>>]
            BY <1>0, <1>8, <3>1, BackstopMakes DEF makes
        <3> QED BY <1>1, <2>2, <2>5, <3>2
    <2>6. CASE backstopDue(r)
        <3>1. /\ makes(r)
              /\ event'[<<r, made[r] + 1>>].origin = "backstop"
              /\ fate'[<<r, made[r] + 1>>] \in HandedOver
            BY <1>0, <1>8, <2>6, BackstopMakes DEF HandedOver, Holding, Settled
        <3>2. made[r] + 1 \in numbers
            BY <1>0, <3>1, NextNumber DEF makes, numbers
        <3>3. ~recorded'[r]
            BY <2>1, <2>6 DEF backstopDue
        <3>4. Closed(r)'
            BY <2>1, <2>2, <3>1, <3>2, <3>3 DEF Closed, numbers
        <3> QED BY <2>5, <3>4 DEF Ended, Closed
    <2>7. CASE ~backstopDue(r)
        <3>1. event' = event
            BY <1>0, <1>8, <2>7, BackstopMakes
        <3>2. ~hasEvent(r, "backstop")'
            BY <2>4, <3>1 DEF hasEvent, numbers
        <3>3. Closed(r)'
            BY <2>1, <2>2, <2>3, <2>7, <3>2 DEF Closed
        <3> QED BY <2>5, <3>3 DEF Ended, Closed
    <2> QED BY <2>6, <2>7
<1>9. CASE UNCHANGED vars
    <2>1. request' = request /\ event' = event
        BY <1>9 DEF vars
    <2>2. pc' = pc
        BY <2>1 DEF request
    <2> QED BY <1>2, <2>1, <2>2
<1> QED BY <1>4, <1>5, <1>6, <1>7, <1>8, <1>9 DEF Next, quiet

LEMMA TracesInit == Init => Traces
<1> SUFFICES ASSUME Init PROVE Traces
    OBVIOUS
<1>1. \A r \in Requests, n \in numbers :
          event[<<r, n>>].origin = None /\ fate[<<r, n>>] = None
    BY DEF Init, EventIds, numbers, NoEvent
<1>2. \A r \in Requests : ~recorded[r] /\ pc[r] = "idle"
    BY DEF Init
<1> QED BY <1>1, <1>2 DEF Traces, Flagged, Unmade, InBuffer, Ended, hasEvent, None

LEMMA TracesStep == Bookkeeping /\ Traces /\ [Next]_vars => Traces'
BY FlaggedStep, InBufferStep, EndedStep DEF Traces

LEMMA TracesInvariant == SafeSpec => [](Bookkeeping /\ Traces)
BY TracesInit, TracesStep, BookkeepingInit, BookkeepingStep, PTL DEF SafeSpec

\* An explicit event suppresses the automatic one, for every interleaving.
THEOREM NoDuplicates == SafeSpec => []NoDuplicateEntry
<1>1. Bookkeeping /\ Traces => NoDuplicateEntry
    <2> SUFFICES ASSUME TypeOK, Flagged, Ended, NEW r \in Requests,
                        NEW id \in eventsOf(r, "record"), NEW other \in eventsOf(r, "backstop")
                 PROVE  FALSE
        BY DEF Bookkeeping, Traces, NoDuplicateEntry
    <2>1. /\ id = <<r, id[2]>> /\ id[2] \in numbers
          /\ other = <<r, other[2]>> /\ other[2] \in numbers
        BY Basics DEF eventsOf, idsOf
    <2>2. event[<<r, id[2]>>].origin = "record" /\ event[<<r, other[2]>>].origin = "backstop"
        BY <2>1 DEF eventsOf
    <2>3. hasEvent(r, "record") /\ hasEvent(r, "backstop")
        BY <2>1, <2>2 DEF hasEvent
    <2> QED BY <2>3 DEF Flagged, Ended
<1> QED BY <1>1, TracesInvariant, PTL

\* A request that ran to its end has handed over every event it recorded.
THEOREM NothingLost == SafeSpec => []NoRecordLost
<1>1. Bookkeeping /\ Traces => NoRecordLost
    <2> SUFFICES ASSUME TypeOK, InBuffer, Ended, NEW r \in Requests, pc[r] = "done",
                        NEW id \in eventsOf(r, "record")
                 PROVE  fate[id] \in HandedOver
        BY DEF Bookkeeping, Traces, NoRecordLost
    <2>1. id = <<r, id[2]>> /\ id[2] \in numbers /\ event[id].origin = "record"
        BY Basics DEF eventsOf, idsOf
    <2>2. Len(buffer[r]) = 0
        BY EmptySeq DEF Ended
    <2>3. fate[<<r, id[2]>>] # "buffered"
        BY <2>1, <2>2 DEF InBuffer
    <2> QED BY <2>1, <2>3 DEF InBuffer
<1> QED BY <1>1, TracesInvariant, PTL

\* A request that should be audited leaves an event at the sink or in the log.
THEOREM Audited == SafeSpec => []AuditedOrLogged
<1>1. Bookkeeping /\ Traces => AuditedOrLogged
    <2> SUFFICES ASSUME TypeOK, Flagged, InBuffer, Ended, NEW r \in Requests, pc[r] = "done",
                        isMutating(method[r]), user[r], ~skip[r],
                        status[r] \in {"2xx", "401", "403"}
                 PROVE  \E id \in eventsOf(r, "record") \cup eventsOf(r, "backstop") :
                            fate[id] \in HandedOver
        BY DEF Bookkeeping, Traces, AuditedOrLogged
    <2>1. \A n \in numbers : <<r, n>> \in idsOf(r)
        BY Basics DEF idsOf
    <2>2. CASE recorded[r]
        <3>1. PICK n \in numbers : event[<<r, n>>].origin = "record"
            BY <2>2 DEF Flagged, hasEvent
        <3>2. Len(buffer[r]) = 0
            BY EmptySeq DEF Ended
        <3>3. fate[<<r, n>>] \in HandedOver
            BY <3>1, <3>2 DEF InBuffer
        <3> QED BY <2>1, <3>1, <3>3 DEF eventsOf
    <2>3. CASE ~recorded[r]
        <3>1. backstopDue(r)
            BY <2>3 DEF backstopDue, outcomeForStatus, None
        <3>2. PICK n \in numbers : /\ event[<<r, n>>].origin = "backstop"
                                   /\ fate[<<r, n>>] \in HandedOver
            BY <3>1 DEF Ended
        <3> QED BY <2>1, <3>2 DEF eventsOf
    <2> QED BY <2>2, <2>3
<1> QED BY <1>1, TracesInvariant, PTL

----------------------------------------------------------------------------
(* What leaves the request, and in which state it is then. *)

\* An event leaves the request in one of three ways.
given(id) == \E origin \in {"record", "job"}, o \in GivenOutcomes \ {None} :
                event'[id] = [origin |-> origin, outcome |-> o, status |-> None]
flushed(id) == /\ Flush(id[1])
               /\ id[2] = Head(buffer[id[1]])
               /\ event'[id] = [event[id] EXCEPT !.status = status[id[1]],
                                                 !.outcome = outcomeFor(status[id[1]])]
automatic(id) == /\ Backstop(id[1])
                 /\ backstopDue(id[1])
                 /\ event'[id] = [origin |-> "backstop",
                                  outcome |-> outcomeForStatus(status[id[1]]),
                                  status |-> status[id[1]]]

LEMMA Leaving ==
    ASSUME Bookkeeping, [Next]_vars, NEW id \in EventIds,
           fate[id] \notin HandedOver, fate'[id] \in HandedOver
    PROVE  given(id) \/ flushed(id) \/ automatic(id)
<1> DEFINE Left == given(id) \/ flushed(id) \/ automatic(id)
<1>0. TypeOK /\ Numbered /\ Queued /\ fate'[id] # fate[id] /\ fate'[id] # "buffered"
    BY DEF Bookkeeping, HandedOver, Holding, Settled
<1>1. ASSUME UNCHANGED fate PROVE FALSE
    BY <1>0, <1>1
<1>2. ASSUME NEW r \in Requests, makes(r)
      PROVE  id = <<r, made[r] + 1>> /\ id[1] = r
    BY <1>0, <1>2 DEF makes
<1>3. ASSUME NEW r \in Requests, NEW supplied \in GivenActors, NEW o \in GivenOutcomes,
             Record(r, supplied, o)
      PROVE  Left
    <2>1. id = <<r, made[r] + 1>>
        BY <1>0, <1>2, <1>3, RecordMakes
    <2>2. o # None /\ write(id, [origin |-> "record", outcome |-> o, status |-> None])
        BY <1>0, <1>3, <2>1, RecordMakes
    <2>3. event'[id] = [origin |-> "record", outcome |-> o, status |-> None]
        BY <1>0, <2>2, WriteFate
    <2> QED BY <2>2, <2>3 DEF given
<1>4. ASSUME NEW r \in Requests, NEW supplied \in GivenActors, NEW o \in GivenOutcomes,
             JobRecord(r, supplied, o)
      PROVE  Left
    <2>1. id = <<r, made[r] + 1>>
        BY <1>0, <1>2, <1>4, JobRecordMakes
    <2>2. o # None /\ write(id, [origin |-> "job", outcome |-> o, status |-> None])
        BY <1>0, <1>4, <2>1, JobRecordMakes DEF JobRecord
    <2>3. event'[id] = [origin |-> "job", outcome |-> o, status |-> None]
        BY <1>0, <2>2, WriteFate
    <2> QED BY <2>2, <2>3 DEF given
<1>5. ASSUME NEW r \in Requests, Flush(r) PROVE Left
    <2> DEFINE h == <<r, Head(buffer[r])>>
    <2> DEFINE e == [event[h] EXCEPT !.status = status[r], !.outcome = outcomeFor(status[r])]
    <2>1. h \in EventIds /\ write(h, e)
        BY <1>0, <1>5, FlushWrites
    <2>2. id = h /\ event'[h] = e
        <3> HIDE DEF h, e
        <3> QED BY <1>0, <2>1, WriteFate
    <2>3. id[1] = r /\ id[2] = Head(buffer[r])
        BY <2>2
    <2> QED BY <1>5, <2>2, <2>3 DEF flushed
<1>6. ASSUME NEW r \in Requests, Backstop(r) PROVE Left
    <2>1. backstopDue(r) /\ makes(r)
        BY <1>0, <1>1, <1>6, BackstopMakes
    <2>2. id = <<r, made[r] + 1>> /\ id[1] = r
        BY <1>2, <2>1
    <2>3. write(id, [origin |-> "backstop", outcome |-> outcomeForStatus(status[r]),
                     status |-> status[r]])
        BY <1>0, <1>6, <2>1, <2>2, BackstopMakes
    <2>4. event'[id] = [origin |-> "backstop", outcome |-> outcomeForStatus(status[r]),
                        status |-> status[r]]
        BY <1>0, <2>3, WriteFate
    <2> QED BY <1>6, <2>1, <2>2, <2>4 DEF automatic
<1>7. ASSUME NEW other \in EventIds, SinkReturns(other) \/ Release(other) PROVE FALSE
    BY <1>0, <1>7 DEF TypeOK, SinkReturns, Release, HandedOver, Holding, Settled
<1> HIDE DEF Left
<1>8. Left
    BY <1>1, <1>3, <1>4, <1>5, <1>6, <1>7, QuietFrame DEF Next, quiet, vars
<1> QED BY <1>8 DEF Left

\* Behind c.Next() the status of the response is final.
LEMMA StatusFinal ==
    ASSUME TypeOK, [Next]_vars, NEW r \in Requests, pc[r] \in {"flushing", "done"}
    PROVE  pc'[r] \in {"flushing", "done"} /\ status'[r] = status[r]
<1> DEFINE Final == pc'[r] \in {"flushing", "done"} /\ status'[r] = status[r]
<1>1. ASSUME NEW q \in Requests, quiet(q) PROVE Final
    BY <1>1 DEF TypeOK, quiet, Arrive, Authenticate, Suppress, Respond, StartJob,
                HandlerReturns, HandlerPanics, request
<1>2. ASSUME NEW q \in Requests, Flush(q) \/ Backstop(q) PROVE Final
    BY <1>2 DEF TypeOK, Flush, Backstop, request
<1>3. ASSUME NEW q \in Requests, NEW supplied \in GivenActors, NEW o \in GivenOutcomes,
             Record(q, supplied, o) \/ JobRecord(q, supplied, o)
      PROVE  Final
    BY <1>3 DEF Record, JobRecord, request
<1>4. ASSUME NEW id \in EventIds, SinkReturns(id) \/ Release(id) PROVE Final
    BY <1>4 DEF SinkReturns, Release, request
<1>5. ASSUME UNCHANGED vars PROVE Final
    BY <1>5 DEF vars, request
<1> HIDE DEF Final
<1>6. Final
    BY <1>1, <1>2, <1>3, <1>4, <1>5 DEF Next, quiet
<1> QED BY <1>6 DEF Final

\* TruthfulOutcome of one event.
honest(id) ==
    IF event[id].status = None
      THEN event[id].outcome \in GivenOutcomes \ {None}
      ELSE /\ pc[id[1]] \in {"flushing", "done"}
           /\ event[id].status = status[id[1]]
           /\ (event[id].outcome = "success") <=> (status[id[1]] = "2xx")
           /\ (event[id].outcome = "denied") <=> (status[id[1]] \in {"401", "403"})

LEMMA HonestStep ==
    ASSUME Bookkeeping, TruthfulOutcome, [Next]_vars
    PROVE  TruthfulOutcome'
<1> SUFFICES ASSUME NEW id \in EventIds, fate'[id] \in HandedOver PROVE honest(id)'
    BY DEF TruthfulOutcome, honest
<1>0. /\ TypeOK /\ id[1] \in Requests /\ event[id] \in Event
      /\ status[id[1]] \in StatusClasses
    BY Basics, InputsAssumption DEF Bookkeeping, TypeOK
<1>1. CASE fate[id] \in HandedOver
    <2>1. event'[id] = event[id] /\ honest(id)
        BY <1>1, EventStep DEF TruthfulOutcome, honest
    <2>2. pc[id[1]] \in {"flushing", "done"} =>
              pc'[id[1]] \in {"flushing", "done"} /\ status'[id[1]] = status[id[1]]
        BY <1>0, StatusFinal
    <2> QED BY <2>1, <2>2 DEF honest
<1>2. CASE given(id)
    BY <1>2 DEF given, honest
<1>3. CASE flushed(id)
    <2>1. pc'[id[1]] = "flushing" /\ status'[id[1]] = status[id[1]]
        BY <1>3 DEF flushed, Flush, request
    <2>2. event'[id].status = status[id[1]] /\ event'[id].outcome = outcomeFor(status[id[1]])
        BY <1>0, <1>3 DEF flushed, Event
    <2> QED BY <1>0, <2>1, <2>2
            DEF honest, outcomeFor, outcomeForStatus, StatusClasses, None
<1>4. CASE automatic(id)
    <2>1. pc'[id[1]] = "done" /\ status'[id[1]] = status[id[1]]
        BY <1>0, <1>4 DEF automatic, Backstop, TypeOK
    <2>2. /\ event'[id].status = status[id[1]]
          /\ event'[id].outcome = outcomeForStatus(status[id[1]])
          /\ outcomeForStatus(status[id[1]]) # None
        BY <1>4 DEF automatic, backstopDue
    <2> QED BY <1>0, <2>1, <2>2
            DEF honest, outcomeForStatus, StatusClasses, None
<1> QED BY <1>1, <1>2, <1>3, <1>4, Leaving

\* An event carries the final status and the outcome it stands for, or the
\* outcome its caller gave, for every interleaving.
THEOREM OutcomesTrue == SafeSpec => []TruthfulOutcome
<1>1. Init => TruthfulOutcome
    BY DEF Init, TruthfulOutcome, HandedOver, Holding, Settled, None
<1>2. Bookkeeping /\ TruthfulOutcome /\ [Next]_vars => TruthfulOutcome'
    BY HonestStep
<1> QED BY <1>1, <1>2, BookkeepingInvariant, PTL DEF SafeSpec

LEMMA OrderStep ==
    ASSUME Bookkeeping, Traces, FlushedInOrder, [Next]_vars
    PROVE  FlushedInOrder'
<1> SUFFICES ASSUME NEW r \in Requests, NEW i \in numbers, NEW j \in numbers, i < j,
                    fate'[<<r, i>>] = "buffered",
                    event'[<<r, j>>].origin = "record",
                    fate'[<<r, j>>] \in HandedOver
             PROVE  event'[<<r, j>>].status = None
    BY DEF FlushedInOrder, numbers
<1> DEFINE a == <<r, i>>
<1> DEFINE b == <<r, j>>
<1>0. /\ TypeOK /\ Numbered /\ Queued /\ Fresh /\ Unmade /\ InBuffer
      /\ a \in EventIds /\ b \in EventIds /\ made[r] \in Nat
    BY Basics DEF Bookkeeping, Traces
<1>0a. i \in Nat /\ j \in Nat /\ i # j
    BY BoundsAssumption DEF numbers
<1>1. CASE fate[a] = "buffered" /\ fate[b] \in HandedOver
    <2>1. event'[b] = event[b]
        BY <1>0, <1>1, EventStep
    <2> QED BY <1>1, <2>1 DEF FlushedInOrder, numbers
<1>2. CASE fate[b] \notin HandedOver
    <2>1. CASE given(b)
        BY <2>1 DEF given
    <2>2. CASE flushed(b)
        <3>1. Flush(r) /\ j = Head(buffer[r])
            BY <2>2 DEF flushed
        <3>2. buffer[r] \in Seq(numbers) /\ buffer[r] # <<>>
            BY <1>0, <3>1, Basics DEF Flush
        <3>3. j = buffer[r][1]
            BY <3>1, <3>2
        <3>4. fate'[a] = fate[a]
            <4>1. a # <<r, Head(buffer[r])>>
                BY <1>0a, <3>1
            <4> QED BY <1>0, <3>1, <4>1, FlushKeepsOrigin
        <3>5. PICK k \in 1 .. Len(buffer[r]) : buffer[r][k] = i
            BY <1>0, <3>4 DEF InBuffer
        <3>6. Len(buffer[r]) \in Nat /\ k # 1
            BY <1>0a, <3>2, <3>3, <3>5, LenProperties
        <3>7. buffer[r][1] < buffer[r][k]
            BY <1>0, <3>5, <3>6 DEF Queued
        <3> QED BY <3>3, <3>5, <3>7 DEF numbers
    <2>3. CASE automatic(b)
        BY <2>3 DEF automatic
    <2> QED BY <1>0, <1>2, <2>1, <2>2, <2>3, Leaving
\* An event that enters the buffer is the last one made, so b is not made yet.
<1>3. CASE fate[a] # "buffered" /\ fate[b] \in HandedOver
    <2>1. ASSUME NEW q \in Requests, makes(q) PROVE FALSE
        <3>1. q = r /\ i = made[r] + 1
            BY <1>0, <1>3, <2>1 DEF makes
        <3>2. fate[b] = None
            BY <1>0, <3>1 DEF Fresh, numbers
        <3> QED BY <1>3, <3>2 DEF HandedOver, Holding, Settled, None
    <2>2. ASSUME UNCHANGED fate PROVE FALSE
        BY <1>3, <2>2
    <2>3. ASSUME NEW q \in Requests, Flush(q) PROVE FALSE
        BY <1>0, <1>3, <2>3, FlushKeepsOrigin
    <2>4. ASSUME NEW other \in EventIds, SinkReturns(other) \/ Release(other) PROVE FALSE
        BY <1>0, <1>3, <2>4 DEF TypeOK, SinkReturns, Release
    <2> QED BY <1>0, <2>1, <2>2, <2>3, <2>4, QuietFrame, RecordMakes, JobRecordMakes,
               BackstopMakes
            DEF Next, quiet, vars
<1> QED BY <1>1, <1>2, <1>3

\* No buffered event is overtaken by a later one that was buffered too.
THEOREM OrderKept == SafeSpec => []FlushedInOrder
<1>1. Init => FlushedInOrder
    BY DEF Init, FlushedInOrder, EventIds, None
<1>2. Bookkeeping /\ Traces /\ FlushedInOrder /\ [Next]_vars => FlushedInOrder'
    BY OrderStep
<1> QED BY <1>1, <1>2, TracesInvariant, PTL DEF SafeSpec
=============================================================================
