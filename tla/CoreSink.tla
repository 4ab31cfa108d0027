------------------------------ MODULE CoreSink ------------------------------
(***************************************************************************)
(* The HTTP sink phases use (src/audit/sink_http.go): Record posts an      *)
(* event to core and retries transient failures, several calls running     *)
(* side by side.  Core and the network are the environment: a post may be  *)
(* handled late, never, or handled while its answer is lost.               *)
(***************************************************************************)
EXTENDS Naturals, FiniteSets

CONSTANTS
    Events,       \* the events handed to the sink
    MaxAttempts   \* attempts of one call: 3 in the code

ASSUME AttemptsAssumption == MaxAttempts \in Nat \ {0}

None == "none"
Answers == {"2xx", "429", "5xx", "4xx"}   \* 4xx: every other answer below 500
Failures == {"network"} \cup (Answers \ {"2xx"})

VARIABLES
    call,     \* the state of the call of Record
    attempt,  \* its loop variable
    lastErr,  \* why the last attempt failed, None while it is nil
    posts,    \* requests sent that core has not handled
    reply,    \* the answer to the current attempt, once it is there
    stored    \* copies of the event in core's audit log

vars == <<call, attempt, lastErr, posts, reply, stored>>

TypeOK ==
    /\ call \in [Events -> {"idle", "posting", "sleeping", "nil", "error"}]
    /\ attempt \in [Events -> 0 .. MaxAttempts]
    /\ lastErr \in [Events -> Failures \cup {None}]
    /\ posts \subseteq Events \X (0 .. MaxAttempts - 1)
    /\ reply \in [Events -> Answers \cup {None}]
    /\ stored \in [Events -> 0 .. MaxAttempts]

Init ==
    /\ call = [e \in Events |-> "idle"]
    /\ attempt = [e \in Events |-> 0]
    /\ lastErr = [e \in Events |-> None]
    /\ posts = {}
    /\ reply = [e \in Events |-> None]
    /\ stored = [e \in Events |-> 0]

\* Worth a retry: 429 and every 5xx.
transient(status) == status \in {"429", "5xx"}

\* Send attempt n of the call.
post(e, n) ==
    /\ posts' = posts \cup {<<e, n>>}
    /\ call' = [call EXCEPT ![e] = "posting"]

Begin(e) ==
    /\ call[e] = "idle"
    /\ post(e, 0)
    /\ UNCHANGED <<attempt, lastErr, reply, stored>>

\* json.Marshal or NewRequest refuses the event: nothing is sent.
Refuse(e) ==
    /\ call[e] = "idle"
    /\ call' = [call EXCEPT ![e] = "error"]
    /\ UNCHANGED <<attempt, lastErr, posts, reply, stored>>

\* Mutated: a failed attempt is repeated without being counted.
continue_Uncounted(e, cause) ==
    /\ lastErr' = [lastErr EXCEPT ![e] = cause]
    /\ call' = [call EXCEPT ![e] = "sleeping"]
    /\ reply' = [reply EXCEPT ![e] = None]
    /\ UNCHANGED <<attempt, posts, stored>>

\* End of an iteration that failed: the next one, or the end of the loop,
\* where Record returns lastErr.
continue(e, cause) ==
    /\ lastErr' = [lastErr EXCEPT ![e] = cause]
    /\ attempt' = [attempt EXCEPT ![e] = @ + 1]
    /\ call' = [call EXCEPT ![e] =
                  IF attempt[e] + 1 < MaxAttempts THEN "sleeping"
                  ELSE IF lastErr'[e] # None THEN "error" ELSE "nil"]
    /\ reply' = [reply EXCEPT ![e] = None]
    /\ UNCHANGED <<posts, stored>>

\* client.Do returns an error: refused, reset, or the timeout of 10 seconds.
\* The request may be on its way all the same.
NetworkError(e) ==
    /\ call[e] = "posting"
    /\ continue(e, "network")

\* Mutated: any response counts as an acknowledgement.
Receive_AnyStatus(e) ==
    /\ call[e] = "posting" /\ reply[e] # None
    /\ call' = [call EXCEPT ![e] = "nil"]
    /\ reply' = [reply EXCEPT ![e] = None]
    /\ UNCHANGED <<attempt, lastErr, posts, stored>>

\* Mutated: every failure is worth a retry.
Receive_RetriesRefusals(e) ==
    /\ call[e] = "posting" /\ reply[e] # None
    /\ \/ /\ reply[e] = "2xx"
          /\ call' = [call EXCEPT ![e] = "nil"]
          /\ reply' = [reply EXCEPT ![e] = None]
          /\ UNCHANGED <<attempt, lastErr, posts, stored>>
       \/ /\ reply[e] # "2xx"
          /\ continue(e, reply[e])

\* client.Do returns a response.
Receive(e) ==
    /\ call[e] = "posting" /\ reply[e] # None
    /\ \/ /\ reply[e] = "2xx"
          /\ call' = [call EXCEPT ![e] = "nil"]
          /\ reply' = [reply EXCEPT ![e] = None]
          /\ UNCHANGED <<attempt, lastErr, posts, stored>>
       \/ /\ transient(reply[e])
          /\ continue(e, reply[e])
       \/ /\ reply[e] # "2xx" /\ ~transient(reply[e])
          /\ lastErr' = [lastErr EXCEPT ![e] = reply[e]]
          /\ call' = [call EXCEPT ![e] = "error"]
          /\ reply' = [reply EXCEPT ![e] = None]
          /\ UNCHANGED <<attempt, posts, stored>>

\* The sleep between attempts is over.
Resend(e) ==
    /\ call[e] = "sleeping"
    /\ post(e, attempt[e])
    /\ UNCHANGED <<attempt, lastErr, reply, stored>>

\* Core handles a post, at any time after it was sent: an accepted event is
\* stored, a gateway may answer 5xx for one that was stored, and the answer
\* reaches a client that still waits for this attempt.
CoreHandles(e, n, answer) ==
    /\ <<e, n>> \in posts
    /\ posts' = posts \ {<<e, n>>}
    /\ \/ answer \in {"2xx", "5xx"} /\ stored' = [stored EXCEPT ![e] = @ + 1]
       \/ answer # "2xx" /\ UNCHANGED stored
    /\ reply' = IF call[e] = "posting" /\ attempt[e] = n
                  THEN [reply EXCEPT ![e] = answer] ELSE reply
    /\ UNCHANGED <<call, attempt, lastErr>>

Next ==
    \E e \in Events :
        \/ Begin(e) \/ Refuse(e) \/ NetworkError(e) \/ Receive(e) \/ Resend(e)
        \/ \E n \in 0 .. MaxAttempts - 1, answer \in Answers : CoreHandles(e, n, answer)

\* client.Timeout ends every wait and time.Sleep ends; core owes nothing.
Fairness ==
    \A e \in Events : WF_vars(NetworkError(e)) /\ WF_vars(Resend(e))

Spec == Init /\ [][Next]_vars /\ Fairness

----------------------------------------------------------------------------
(* Properties. *)

sent(e) == {p \in posts : p[1] = e}
\* An upper bound of the posts the call has sent so far.
started(e) ==
    IF call[e] \in {"idle", "sleeping"} \/ attempt[e] = MaxAttempts THEN attempt[e]
    ELSE attempt[e] + 1

\* Retrying never multiplies an entry beyond the attempts: the copies core
\* holds and those it may still store are no more than the posts sent, be
\* they answered, timed out or late.
CopiesBounded ==
    \A e \in Events : stored[e] + Cardinality(sent(e)) <= started(e)

\* "Only transient failures are worth retrying": a post that is not the first
\* of its call follows an error of the network, a 429 or a 5xx.  Core's refusal
\* is final, whatever was answered before it or comes late.
RepeatsTransient ==
    [][\A e \in Events, n \in 0 .. MaxAttempts - 1 : <<e, n>> \in posts' \ posts =>
          IF n = 0 THEN lastErr[e] = None
          ELSE lastErr[e] \in {"network", "429", "5xx"}]_vars

\* What the rest of the audit package sees of a call.
resultOf(e) ==
    IF call[e] \in {"posting", "sleeping"} THEN "running" ELSE call[e]

Promise == INSTANCE SinkPromise WITH
    result <- [e \in Events |-> resultOf(e)], stored <- stored

\* The retry loop keeps the promise: it ends, it answers nil only for an
\* entry core has stored, and it stores at most MaxAttempts copies.
KeepsPromise == Promise!Spec
=============================================================================
