--------------------------- MODULE CoreSinkProofs ---------------------------
(***************************************************************************)
(* Proofs about CoreSink, for any set of events and any number of          *)
(* attempts: the types, the bound on copies, and that the retry loop       *)
(* implements the safety part of SinkPromise.                              *)
(***************************************************************************)
EXTENDS CoreSink, FiniteSetTheorems, TLAPS

\* A post belongs to an attempt that was made.
Ordered ==
    \A p \in posts : /\ p[2] <= attempt[p[1]]
                     /\ call[p[1]] \in {"idle", "sleeping"} => p[2] < attempt[p[1]]

\* The counter of a call, what it waits for before the next attempt, and what
\* a positive answer means.
Counted ==
    \A e \in Events :
        /\ call[e] \in {"idle", "posting", "sleeping"} => attempt[e] < MaxAttempts
        /\ call[e] = "idle" => attempt[e] = 0 /\ lastErr[e] = None
        /\ call[e] = "sleeping" =>
              attempt[e] > 0 /\ lastErr[e] \in {"network", "429", "5xx"}
        /\ reply[e] = "2xx" => stored[e] > 0

Inv == TypeOK /\ Ordered /\ Counted /\ CopiesBounded

LEMMA SentFinite ==
    ASSUME TypeOK, NEW e \in Events
    PROVE  IsFiniteSet(sent(e))
<1>1. sent(e) \subseteq {e} \X (0 .. MaxAttempts - 1)
  BY DEF sent, TypeOK
<1>2. IsFiniteSet({e} \X (0 .. MaxAttempts - 1))
  <2>1. 0 \in Int /\ MaxAttempts - 1 \in Int
    BY AttemptsAssumption
  <2>2. IsFiniteSet(0 .. MaxAttempts - 1)
    BY <2>1, FS_Interval
  <2>3. IsFiniteSet({e})
    BY FS_Singleton
  <2> QED
    BY <2>2, <2>3, FS_Product
<1> QED
  BY <1>1, <1>2, FS_Subset

LEMMA StartedBounded ==
    ASSUME TypeOK, Counted, NEW e \in Events
    PROVE  started(e) \in 0 .. MaxAttempts
BY AttemptsAssumption DEF TypeOK, Counted, started

LEMMA InvInit == Init => Inv
<1> SUFFICES ASSUME Init PROVE Inv
  OBVIOUS
<1>1. TypeOK
  BY AttemptsAssumption DEF Init, TypeOK
<1>4. Ordered
  BY DEF Init, Ordered
<1>5. Counted
  BY AttemptsAssumption DEF Init, Counted, None
<1>2. \A e \in Events : sent(e) = {}
  BY DEF Init, sent
<1>3. CopiesBounded
  BY <1>2, FS_EmptySet DEF Init, CopiesBounded, started
<1> QED
  BY <1>1, <1>3, <1>4, <1>5 DEF Inv

\* Sending attempt n of a call that is between attempts.
LEMMA PostKept ==
    ASSUME Inv, NEW e \in Events, call[e] \in {"idle", "sleeping"}, post(e, attempt[e]),
           UNCHANGED <<attempt, lastErr, reply, stored>>
    PROVE  Inv'
<1> USE DEF Inv
<1>1. <<e, attempt[e]>> \notin posts
  BY DEF Ordered, TypeOK
<1>2. attempt[e] \in 0 .. MaxAttempts - 1
  BY AttemptsAssumption DEF Counted, TypeOK
<1>3. TypeOK' /\ Ordered' /\ Counted'
  BY <1>2, AttemptsAssumption DEF post, TypeOK, Ordered, Counted
<1>4. ASSUME NEW d \in Events PROVE stored'[d] + Cardinality(sent(d)') <= started(d)'
  <2>1. IsFiniteSet(sent(d)) /\ Cardinality(sent(d)) \in Nat
    BY SentFinite, FS_CardinalityType
  <2>2. CASE d = e
    <3>1. sent(e)' = sent(e) \cup {<<e, attempt[e]>>}
      BY DEF post, sent
    <3>4. <<e, attempt[e]>> \notin sent(e)
      BY <1>1 DEF sent
    <3>5. Cardinality(sent(e) \cup {<<e, attempt[e]>>}) = Cardinality(sent(e)) + 1
      BY <2>1, <2>2, <3>4, FS_AddElement
    <3>2. Cardinality(sent(e)') = Cardinality(sent(e)) + 1
      BY <3>1, <3>5
    <3>3. started(e) = attempt[e] /\ started(e)' = attempt[e] + 1
      BY <1>2, AttemptsAssumption DEF post, started, TypeOK
    <3> QED
      BY <1>2, <2>1, <2>2, <3>2, <3>3 DEF CopiesBounded, TypeOK
  <2>3. CASE d # e
    <3>1. sent(d)' = sent(d) /\ started(d)' = started(d)
      BY <2>3 DEF post, sent, started, TypeOK
    <3> QED
      BY <3>1 DEF CopiesBounded
  <2> QED
    BY <2>2, <2>3
<1> QED
  BY <1>3, <1>4 DEF CopiesBounded

\* The end of an attempt: counting on, or the end of the call.
LEMMA AttemptEnds ==
    ASSUME Inv, NEW e \in Events, call[e] = "posting",
           \/ \E cause \in {"network", "429", "5xx"} : continue(e, cause)
           \/ \E outcome \in {"nil", "error"} :
                 /\ call' = [call EXCEPT ![e] = outcome]
                 /\ lastErr' \in [Events -> Failures \cup {None}]
                 /\ \A d \in Events \ {e} : lastErr'[d] = lastErr[d]
                 /\ reply' = [reply EXCEPT ![e] = None]
                 /\ UNCHANGED <<attempt, posts, stored>>
    PROVE  Inv'
<1> USE DEF Inv
<1>1. attempt[e] \in 0 .. MaxAttempts - 1
  BY AttemptsAssumption DEF Counted, TypeOK
<1>2. /\ posts' = posts /\ stored' = stored
      /\ lastErr' \in [Events -> Failures \cup {None}]
      /\ \A d \in Events \ {e} : lastErr'[d] = lastErr[d]
      /\ reply' = [reply EXCEPT ![e] = None]
      /\ \/ /\ attempt' = [attempt EXCEPT ![e] = @ + 1]
            /\ attempt[e] + 1 < MaxAttempts
            /\ call' = [call EXCEPT ![e] = "sleeping"]
            /\ \E cause \in {"network", "429", "5xx"} :
                  lastErr' = [lastErr EXCEPT ![e] = cause]
         \/ /\ attempt' = [attempt EXCEPT ![e] = @ + 1]
            /\ attempt[e] + 1 = MaxAttempts
            /\ call' = [call EXCEPT ![e] = "error"]
         \/ /\ attempt' = attempt
            /\ \E outcome \in {"nil", "error"} : call' = [call EXCEPT ![e] = outcome]
  <2>1. CASE \E cause \in {"network", "429", "5xx"} : continue(e, cause)
    <3>1. PICK cause \in {"network", "429", "5xx"} : continue(e, cause)
      BY <2>1
    <3>2. /\ lastErr' = [lastErr EXCEPT ![e] = cause] /\ lastErr'[e] # None
          /\ lastErr' \in [Events -> Failures \cup {None}]
          /\ \A d \in Events \ {e} : lastErr'[d] = lastErr[d]
      BY <3>1 DEF continue, TypeOK, Failures, Answers, None
    <3>3. CASE attempt[e] + 1 < MaxAttempts
      BY <3>1, <3>2, <3>3 DEF continue, TypeOK
    <3>4. CASE attempt[e] + 1 = MaxAttempts
      BY <1>1, <3>1, <3>2, <3>4, AttemptsAssumption DEF continue, TypeOK
    <3> QED
      BY <1>1, <3>3, <3>4, AttemptsAssumption
  <2>2. CASE ~ \E cause \in {"network", "429", "5xx"} : continue(e, cause)
    BY <2>2
  <2> QED
    BY <2>1, <2>2
<1>3. TypeOK'
  BY <1>1, <1>2, AttemptsAssumption DEF TypeOK
<1>4. Ordered'
  BY <1>1, <1>2 DEF Ordered, TypeOK
<1>5. Counted'
  <2>1. \A d \in Events \ {e} : /\ call'[d] = call[d] /\ attempt'[d] = attempt[d]
                                /\ reply'[d] = reply[d] /\ lastErr'[d] = lastErr[d]
    BY <1>2 DEF TypeOK
  <2>2. reply'[e] = None /\ call'[e] # "idle" /\ call'[e] # "posting"
    BY <1>2 DEF TypeOK
  <2>3. call'[e] = "sleeping" => /\ attempt'[e] < MaxAttempts /\ attempt'[e] > 0
                                 /\ lastErr'[e] \in {"network", "429", "5xx"}
    BY <1>1, <1>2, AttemptsAssumption DEF TypeOK
  <2> QED
    BY <1>2, <2>1, <2>2, <2>3 DEF Counted, None
<1>6. \A d \in Events : started(d) <= started(d)'
  BY <1>1, <1>2, AttemptsAssumption DEF started, TypeOK
<1>7. \A d \in Events : sent(d)' = sent(d)
  BY <1>2 DEF sent
<1>8. ASSUME NEW d \in Events PROVE stored'[d] + Cardinality(sent(d)') <= started(d)'
  <2>1. Cardinality(sent(d)) \in Nat
    BY SentFinite, FS_CardinalityType
  <2>2. started(d) \in Nat /\ started(d)' \in Nat
    BY <1>3, <1>5 DEF started, TypeOK
  <2> QED
    BY <1>2, <1>6, <1>7, <2>1, <2>2 DEF CopiesBounded, TypeOK
<1> QED
  BY <1>3, <1>4, <1>5, <1>8 DEF CopiesBounded

\* Core takes a post off the wire and stores one copy at most.
LEMMA HandledKept ==
    ASSUME Inv, NEW e \in Events, NEW n \in 0 .. MaxAttempts - 1, NEW answer \in Answers,
           CoreHandles(e, n, answer)
    PROVE  Inv'
<1> USE DEF Inv
<1>1. Cardinality(sent(e)) \in Nat /\ IsFiniteSet(sent(e))
  BY SentFinite, FS_CardinalityType
<1>2. sent(e)' = sent(e) \ {<<e, n>>} /\ <<e, n>> \in sent(e)
  BY DEF CoreHandles, sent
<1>3. Cardinality(sent(e)') = Cardinality(sent(e)) - 1
  BY <1>1, <1>2, FS_RemoveElement
<1>4. \A d \in Events \ {e} : sent(d)' = sent(d)
  BY DEF CoreHandles, sent
<1>5. \A d \in Events : started(d)' = started(d)
  BY DEF CoreHandles, started
<1>6. stored[e] + 1 <= MaxAttempts
  <2>1. Cardinality(sent(e)') \in Nat
    BY <1>1, <1>2, FS_RemoveElement, FS_CardinalityType
  <2> QED
    BY <1>1, <1>3, <2>1, StartedBounded, AttemptsAssumption DEF CopiesBounded, TypeOK
<1>7. /\ stored' \in [Events -> 0 .. MaxAttempts]
      /\ \A d \in Events \ {e} : stored'[d] = stored[d]
      /\ stored'[e] \in {stored[e], stored[e] + 1}
      /\ answer = "2xx" => stored'[e] = stored[e] + 1
  BY <1>6, AttemptsAssumption DEF CoreHandles, TypeOK
<1>8. TypeOK'
  BY <1>7 DEF CoreHandles, TypeOK
<1>9. Ordered'
  BY DEF CoreHandles, Ordered
<1>10. Counted'
  BY <1>7 DEF CoreHandles, Counted, TypeOK
<1>11. ASSUME NEW d \in Events PROVE stored'[d] + Cardinality(sent(d)') <= started(d)'
  <2>1. CASE d = e
    BY <1>1, <1>3, <1>5, <1>7, <2>1, StartedBounded DEF CopiesBounded, TypeOK
  <2>2. CASE d # e
    BY <1>4, <1>5, <1>7, <2>2 DEF CopiesBounded
  <2> QED
    BY <2>1, <2>2
<1> QED
  BY <1>8, <1>9, <1>10, <1>11 DEF CopiesBounded

LEMMA InvKept == Inv /\ [Next]_vars => Inv'
<1> SUFFICES ASSUME Inv, [Next]_vars PROVE Inv'
  OBVIOUS
<1>1. ASSUME NEW e \in Events, Begin(e) PROVE Inv'
  <2>1. attempt[e] = 0 /\ call[e] = "idle"
    BY <1>1 DEF Begin, Inv, Counted
  <2> QED
    BY <1>1, <2>1, PostKept DEF Begin
<1>2. ASSUME NEW e \in Events, Refuse(e) PROVE Inv'
  <2>1. TypeOK' /\ Ordered' /\ Counted'
    BY <1>2 DEF Refuse, Inv, TypeOK, Ordered, Counted
  <2>2. \A d \in Events : sent(d)' = sent(d)
    BY <1>2 DEF Refuse, sent
  <2>3. ASSUME NEW d \in Events PROVE stored'[d] + Cardinality(sent(d)') <= started(d)'
    <3>1. Cardinality(sent(d)) \in Nat
      BY SentFinite, FS_CardinalityType DEF Inv
    <3>2. started(d) \in Nat /\ started(d)' \in Nat /\ started(d) <= started(d)'
      BY <1>2 DEF Refuse, Inv, started, TypeOK
    <3> QED
      BY <1>2, <2>2, <3>1, <3>2 DEF Refuse, Inv, CopiesBounded, TypeOK
  <2> QED
    BY <2>1, <2>3 DEF Inv, CopiesBounded
<1>3. ASSUME NEW e \in Events, NetworkError(e) PROVE Inv'
  BY <1>3, AttemptEnds DEF NetworkError
<1>4. ASSUME NEW e \in Events, Receive(e) PROVE Inv'
  <2>1. call[e] = "posting"
    BY <1>4 DEF Receive
  <2>2. \/ \E cause \in {"network", "429", "5xx"} : continue(e, cause)
        \/ \E outcome \in {"nil", "error"} :
              /\ call' = [call EXCEPT ![e] = outcome]
              /\ lastErr' \in [Events -> Failures \cup {None}]
              /\ \A d \in Events \ {e} : lastErr'[d] = lastErr[d]
              /\ reply' = [reply EXCEPT ![e] = None]
              /\ UNCHANGED <<attempt, posts, stored>>
    BY <1>4 DEF Receive, transient, Inv, TypeOK, Failures
  <2> QED
    BY <2>1, <2>2, AttemptEnds
<1>5. ASSUME NEW e \in Events, Resend(e) PROVE Inv'
  BY <1>5, PostKept DEF Resend
<1>6. ASSUME NEW e \in Events, NEW n \in 0 .. MaxAttempts - 1, NEW answer \in Answers,
             CoreHandles(e, n, answer)
      PROVE  Inv'
  BY <1>6, HandledKept
<1>7. CASE UNCHANGED vars
  BY <1>7 DEF vars, Inv, TypeOK, Ordered, Counted, CopiesBounded, sent, started
<1> QED
  BY <1>1, <1>2, <1>3, <1>4, <1>5, <1>6, <1>7 DEF Next

LEMMA InvAlways == Spec => []Inv
BY InvInit, InvKept, PTL DEF Spec

\* Every variable keeps its type: no call makes more than MaxAttempts attempts.
THEOREM TypeCorrect == Spec => []TypeOK
<1>1. Inv => TypeOK
  BY DEF Inv
<1> QED
  BY <1>1, InvAlways, PTL

\* Copies in core and on the wire never exceed the attempts made.
THEOREM BoundedCopies == Spec => []CopiesBounded
<1>1. Inv => CopiesBounded
  BY DEF Inv
<1> QED
  BY <1>1, InvAlways, PTL

\* A post belongs to the attempt it was sent by.
LEMMA StepRepeats ==
    Inv /\ [Next]_vars =>
        \A e \in Events, n \in 0 .. MaxAttempts - 1 : <<e, n>> \in posts' \ posts =>
            IF n = 0 THEN lastErr[e] = None
            ELSE lastErr[e] \in {"network", "429", "5xx"}
<1> SUFFICES ASSUME Inv, [Next]_vars, NEW e \in Events, NEW n \in 0 .. MaxAttempts - 1,
                    <<e, n>> \in posts' \ posts
             PROVE  IF n = 0 THEN lastErr[e] = None
                    ELSE lastErr[e] \in {"network", "429", "5xx"}
  OBVIOUS
<1>1. \/ call[e] = "idle" /\ n = 0
      \/ call[e] = "sleeping" /\ n = attempt[e]
  <2>1. posts' # posts
    OBVIOUS
  <2>2. PICK d \in Events :
           \/ Begin(d) \/ Resend(d)
           \/ \E m \in 0 .. MaxAttempts - 1, answer \in Answers : CoreHandles(d, m, answer)
    BY <2>1 DEF Next, vars, Refuse, NetworkError, Receive, continue
  <2>3. CASE Begin(d)
    BY <2>3 DEF Begin, post
  <2>4. CASE Resend(d)
    BY <2>4 DEF Resend, post
  <2>5. CASE \E m \in 0 .. MaxAttempts - 1, answer \in Answers : CoreHandles(d, m, answer)
    BY <2>5 DEF CoreHandles
  <2> QED
    BY <2>2, <2>3, <2>4, <2>5
<1> QED
  BY <1>1 DEF Inv, Counted

\* No failure that would repeat itself is ever retried.
THEOREM RetriesJustified == Spec => RepeatsTransient
<1> DEFINE Justified ==
        \A e \in Events, n \in 0 .. MaxAttempts - 1 : <<e, n>> \in posts' \ posts =>
            IF n = 0 THEN lastErr[e] = None
            ELSE lastErr[e] \in {"network", "429", "5xx"}
<1>1. Inv /\ [Next]_vars => [Justified]_vars
  BY StepRepeats
<1> QED
  BY <1>1, InvAlways, PTL DEF Spec, RepeatsTransient

----------------------------------------------------------------------------
(* The promise. *)

CallStates == {"idle", "posting", "sleeping", "nil", "error"}
Results == [e \in Events |-> resultOf(e)]

\* The result of one call changes, the others and the copies do not.
LEMMA ResultMoves ==
    ASSUME NEW e \in Events, NEW state, call \in [Events -> CallStates],
           call' = [call EXCEPT ![e] = state]
    PROVE  Results' = [Results EXCEPT ![e] =
                         IF state \in {"posting", "sleeping"} THEN "running" ELSE state]
BY DEF Results, resultOf

\* The end of an attempt is the end of the call, with an error, or no step.
LEMMA ContinueRefines ==
    ASSUME Inv, NEW e \in Events, call[e] = "posting",
           NEW cause \in {"network", "429", "5xx"}, continue(e, cause)
    PROVE  Promise!Return(e) \/ UNCHANGED Promise!promiseVars
<1>1. call \in [Events -> CallStates] /\ Results[e] = "running" /\ stored' = stored
  BY DEF Inv, TypeOK, CallStates, Results, resultOf, continue
<1>2. lastErr'[e] # None
  BY DEF continue, Inv, TypeOK, None
<1>3. CASE attempt[e] + 1 < MaxAttempts
  <2>1. call' = [call EXCEPT ![e] = "sleeping"]
    BY <1>3 DEF continue
  <2>2. Results' = Results
    BY <1>1, <2>1, ResultMoves DEF Results
  <2> QED
    BY <1>1, <2>2 DEF Promise!promiseVars, Results
<1>4. CASE ~(attempt[e] + 1 < MaxAttempts)
  <2>1. call' = [call EXCEPT ![e] = "error"]
    BY <1>2, <1>4 DEF continue
  <2>2. Results' = [Results EXCEPT ![e] = "error"]
    BY <1>1, <2>1, ResultMoves
  <2> QED
    BY <1>1, <2>2 DEF Promise!Return, Results
<1> QED
  BY <1>3, <1>4

\* Every step of the loop, of the network and of core is a step of the promise.
LEMMA StepRefines ==
    Inv /\ Inv' /\ [Next]_vars => [Promise!Next]_(Promise!promiseVars)
<1> SUFFICES ASSUME Inv, Inv', [Next]_vars
             PROVE  Promise!Next \/ UNCHANGED Promise!promiseVars
  OBVIOUS
<1>0. call \in [Events -> CallStates]
  BY DEF Inv, TypeOK, CallStates
<1>1. ASSUME NEW e \in Events, Begin(e) PROVE Promise!Begin(e)
  <2>1. Results[e] = "idle" /\ stored' = stored /\ call' = [call EXCEPT ![e] = "posting"]
    BY <1>1 DEF Begin, post, Results, resultOf
  <2>2. Results' = [Results EXCEPT ![e] = "running"]
    BY <1>0, <2>1, ResultMoves
  <2> QED
    BY <2>1, <2>2 DEF Promise!Begin, Results
<1>2. ASSUME NEW e \in Events, Refuse(e) PROVE Promise!Begin(e)
  <2>1. Results[e] = "idle" /\ stored' = stored /\ call' = [call EXCEPT ![e] = "error"]
    BY <1>2 DEF Refuse, Results, resultOf
  <2>2. Results' = [Results EXCEPT ![e] = "error"]
    BY <1>0, <2>1, ResultMoves
  <2> QED
    BY <2>1, <2>2 DEF Promise!Begin, Results
<1>3. ASSUME NEW e \in Events, NetworkError(e)
      PROVE  Promise!Return(e) \/ UNCHANGED Promise!promiseVars
  BY <1>3, ContinueRefines DEF NetworkError
<1>4. ASSUME NEW e \in Events, Receive(e)
      PROVE  Promise!Return(e) \/ UNCHANGED Promise!promiseVars
  <2>1. call[e] = "posting" /\ Results[e] = "running"
    BY <1>4 DEF Receive, Results, resultOf
  <2>2. CASE transient(reply[e]) /\ continue(e, reply[e])
    BY <2>1, <2>2, ContinueRefines DEF transient
  <2>3. CASE reply[e] = "2xx" /\ call' = [call EXCEPT ![e] = "nil"] /\ stored' = stored
    <3>1. stored[e] > 0
      BY <2>3 DEF Inv, Counted
    <3>2. Results' = [Results EXCEPT ![e] = "nil"]
      BY <1>0, <2>3, ResultMoves
    <3> QED
      BY <2>1, <2>3, <3>1, <3>2 DEF Promise!Return, Results
  <2>4. CASE call' = [call EXCEPT ![e] = "error"] /\ stored' = stored
    <3>1. Results' = [Results EXCEPT ![e] = "error"]
      BY <1>0, <2>4, ResultMoves
    <3> QED
      BY <2>1, <2>4, <3>1 DEF Promise!Return, Results
  <2> QED
    BY <1>4, <2>2, <2>3, <2>4 DEF Receive
<1>5. ASSUME NEW e \in Events, Resend(e) PROVE UNCHANGED Promise!promiseVars
  <2>1. /\ call[e] = "sleeping" /\ Results[e] = "running"
        /\ stored' = stored /\ call' = [call EXCEPT ![e] = "posting"]
    BY <1>5 DEF Resend, post, Results, resultOf
  <2>2. Results' = Results
    BY <1>0, <2>1, ResultMoves DEF Results
  <2> QED
    BY <2>1, <2>2 DEF Promise!promiseVars, Results
<1>6. ASSUME NEW e \in Events, NEW n \in 0 .. MaxAttempts - 1, NEW answer \in Answers,
             CoreHandles(e, n, answer)
      PROVE  Promise!Store(e) \/ UNCHANGED Promise!promiseVars
  <2>1. Results' = Results
    BY <1>6 DEF CoreHandles, Results, resultOf
  <2>2. CASE stored' = stored
    BY <2>1, <2>2 DEF Promise!promiseVars, Results
  <2>3. CASE stored' = [stored EXCEPT ![e] = @ + 1]
    <3>1. call[e] # "idle"
      BY <1>6 DEF CoreHandles, Inv, Ordered, Counted, TypeOK
    <3>2. Results[e] # "idle"
      BY <3>1 DEF Results, resultOf
    <3>3. stored[e] \in Nat /\ stored'[e] = stored[e] + 1 /\ stored'[e] <= MaxAttempts
      BY <2>3, AttemptsAssumption DEF Inv, TypeOK
    <3>4. stored[e] < MaxAttempts
      BY <3>3, AttemptsAssumption
    <3> QED
      BY <2>1, <2>3, <3>2, <3>4 DEF Promise!Store, Results
  <2> QED
    BY <1>6, <2>2, <2>3 DEF CoreHandles
<1>7. CASE UNCHANGED vars
  BY <1>7 DEF vars, Promise!promiseVars, resultOf
<1> QED
  BY <1>1, <1>2, <1>3, <1>4, <1>5, <1>6, <1>7 DEF Next, Promise!Next

\* The retry loop implements the safety part of what the audit runtime relies
\* on: nil only for a stored entry, at most MaxAttempts copies, one answer.
THEOREM PromiseKept == Spec => Promise!Safe
<1>1. Init => Promise!Init
  BY DEF Init, Promise!Init, resultOf
<1> QED
  BY <1>1, InvAlways, StepRefines, PTL DEF Spec, Promise!Safe
=============================================================================
