---------------------------- MODULE RecordBuffer ----------------------------
(***************************************************************************)
(* The buffer of audit events of one request, down to the slices it is     *)
(* made of (bufferEvent and flushRecordedEvents in src/audit).  The        *)
(* handler hands c.Copy() to a background job: gin copies the map of keys, *)
(* so the copy's buffer is the same slice over the same array, and both    *)
(* sides append to their own slice from then on.  Record's documentation   *)
(* asks a job to give an Outcome, which never reaches the buffer and is    *)
(* what Audit.tla assumes; here the job gives none.                        *)
(*                                                                         *)
(* A write of an element is one step: the torn element that the race of    *)
(* two appends can also leave is not modelled.                             *)
(***************************************************************************)
EXTENDS Naturals, Sequences

CONSTANTS
    MaxRecords,    \* bound: calls of Record by the handler
    MaxJobRecords  \* bound: calls of Record by the job

None == <<"none", 0>>
Events == ({"handler"} \X (1 .. MaxRecords)) \cup ({"job"} \X (1 .. MaxJobRecords))

VARIABLES
    pc,       \* where the request's goroutine is
    arrays,   \* the backing arrays allocated so far
    buffer,   \* auditRecordedEvents in the live context
    copied,   \* the copy: whether it was taken, and its auditRecordedEvents
    made,     \* calls of Record by each side
    written   \* the events given to rt.write, in order

vars == <<pc, arrays, buffer, copied, made, written>>

\* A slice: its array (0 for nil) and its length.
Slice == [array : Nat, len : Nat]
NilSlice == [array |-> 0, len |-> 0]

capacity(s) == IF s.array = 0 THEN 0 ELSE Len(arrays[s.array])

TypeOK ==
    /\ pc \in {"handling", "flushing", "done"}
    /\ arrays \in Seq(Seq(Events \cup {None}))
    /\ buffer \in Slice
    /\ copied \in [taken : BOOLEAN, slice : Slice]
    /\ \A s \in {buffer, copied.slice} : s.array <= Len(arrays) /\ s.len <= capacity(s)
    /\ made \in [{"handler", "job"} -> Nat]
    /\ written \in Seq(Events)

Init ==
    /\ pc = "handling"
    /\ arrays = <<>>
    /\ buffer = NilSlice
    /\ copied = [taken |-> FALSE, slice |-> NilSlice]
    /\ made = [side \in {"handler", "job"} |-> 0]
    /\ written = <<>>

\* The runtime doubles the capacity of a small slice, and the size classes of
\* the allocator add no room for elements of the size of an Event.
grow(size) == IF size = 0 THEN 1 ELSE 2 * size

\* append(s, e): the slice it returns ...
appended(s) ==
    [array |-> IF s.len < capacity(s) THEN s.array ELSE Len(arrays) + 1, len |-> s.len + 1]

\* ... and what it does to memory: it writes in place when the array has room
\* and moves to a new array when it is full.
append(s, e) ==
    \/ /\ s.len < capacity(s)
       /\ arrays' = [arrays EXCEPT ![s.array][s.len + 1] = e]
    \/ /\ s.len = capacity(s)
       /\ arrays' = Append(arrays, [i \in 1 .. grow(s.len) |->
                        IF i <= s.len THEN arrays[s.array][i]
                        ELSE IF i = s.len + 1 THEN e ELSE None])

\* bufferEvent, in the handler.
Record ==
    /\ pc = "handling" /\ made["handler"] < MaxRecords
    /\ append(buffer, <<"handler", made["handler"] + 1>>)
    /\ buffer' = appended(buffer)
    /\ made' = [made EXCEPT !["handler"] = @ + 1]
    /\ UNCHANGED <<pc, copied, written>>

\* go job(c.Copy()).
StartJob ==
    /\ pc = "handling" /\ ~copied.taken
    /\ copied' = [taken |-> TRUE, slice |-> buffer]
    /\ UNCHANGED <<pc, arrays, buffer, made, written>>

\* bufferEvent, in the job and at any later time.
JobRecord ==
    /\ copied.taken /\ made["job"] < MaxJobRecords
    /\ append(copied.slice, <<"job", made["job"] + 1>>)
    /\ copied' = [copied EXCEPT !.slice = appended(copied.slice)]
    /\ made' = [made EXCEPT !["job"] = @ + 1]
    /\ UNCHANGED <<pc, buffer, written>>

HandlerReturns ==
    /\ pc = "handling"
    /\ pc' = "flushing"
    /\ UNCHANGED <<arrays, buffer, copied, made, written>>

\* One iteration of flushRecordedEvents, which reads the element then.
Flush ==
    /\ pc = "flushing" /\ Len(written) < buffer.len
    /\ written' = Append(written, arrays[buffer.array][Len(written) + 1])
    /\ UNCHANGED <<pc, arrays, buffer, copied, made>>

Flushed ==
    /\ pc = "flushing" /\ Len(written) = buffer.len
    /\ pc' = "done"
    /\ UNCHANGED <<arrays, buffer, copied, made, written>>

Next == Record \/ StartJob \/ JobRecord \/ HandlerReturns \/ Flush \/ Flushed

Spec == Init /\ [][Next]_vars

----------------------------------------------------------------------------
(* Properties. *)

recorded == [n \in 1 .. made["handler"] |-> <<"handler", n>>]

\* context.go, doc of Record: "the event is buffered and flushed by the
\* middleware after the handler returns".
RecordedIsFlushed == pc = "done" => written = recorded
=============================================================================
