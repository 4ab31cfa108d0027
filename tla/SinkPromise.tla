---------------------------- MODULE SinkPromise ----------------------------
(***************************************************************************)
(* What the runtime of the audit middleware may rely on when it calls      *)
(* Sink.Record from a delivery goroutine: the call returns; nil means the  *)
(* entry is stored; at most MaxAttempts copies of it ever are.  An error   *)
(* says nothing, and a copy may be stored after the call returned.         *)
(***************************************************************************)
EXTENDS Naturals

CONSTANTS Events, MaxAttempts

VARIABLES
    result,  \* what the call of Record for the event has come to
    stored   \* copies of the event that core holds

promiseVars == <<result, stored>>

Init ==
    /\ result = [e \in Events |-> "idle"]
    /\ stored = [e \in Events |-> 0]

\* An event that cannot be encoded is refused at once.
Begin(e) ==
    /\ result[e] = "idle"
    /\ \E outcome \in {"running", "error"} : result' = [result EXCEPT ![e] = outcome]
    /\ UNCHANGED stored

Store(e) ==
    /\ result[e] # "idle"
    /\ stored[e] < MaxAttempts
    /\ stored' = [stored EXCEPT ![e] = @ + 1]
    /\ UNCHANGED result

Return(e) ==
    /\ result[e] = "running"
    /\ \/ stored[e] > 0 /\ result' = [result EXCEPT ![e] = "nil"]
       \/ result' = [result EXCEPT ![e] = "error"]
    /\ UNCHANGED stored

Next == \E e \in Events : Begin(e) \/ Store(e) \/ Return(e)

Safe == Init /\ [][Next]_promiseVars
Spec == Safe /\ \A e \in Events : WF_promiseVars(Return(e))
=============================================================================
