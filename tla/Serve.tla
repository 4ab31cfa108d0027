------------------------------- MODULE Serve -------------------------------
(***************************************************************************)
(* Serving and shutting down (serveUntil in src/bootstrap.go).             *)
(*                                                                         *)
(* Three actors run concurrently: the main goroutine inside server.Serve,  *)
(* the goroutine that waits for the context and calls server.Shutdown, and *)
(* the connections with their handlers.  http.Server and the kernel are    *)
(* libraries, modelled by what the code relies on: Shutdown closes the     *)
(* listener first and returns when no connection is busy or its timeout    *)
(* expires; Serve returns as soon as the listener is closed.  Bootstrap is *)
(* the composition with what runs before, inside and behind it.            *)
(***************************************************************************)
EXTENDS Naturals, FiniteSets

CONSTANT Connections

VARIABLES
    main,      \* "start", in "serve", then "cancel", "wait" and "returned" from serveUntil
    err,       \* what Serve returned: "none" yet, "closed" or "failed"
    result,    \* what serveUntil returned: "none" yet, "nil" or "error"
    done,      \* the context is done
    signalled, \* a SIGINT or SIGTERM has arrived
    shutdown,  \* its goroutine: "waiting", "draining", "over"
    timedOut,  \* Shutdown gave up after shutdownTimeout
    listening, \* the listener is open
    conn       \* per connection: "none", "new", "active" or "closed"

vars == <<main, err, result, done, signalled, shutdown, timedOut, listening, conn>>

TypeOK ==
    /\ main \in {"start", "serve", "cancel", "wait", "returned"}
    /\ err \in {"none", "closed", "failed"} /\ (err = "none" <=> main \in {"start", "serve"})
    /\ result \in {"none", "nil", "error"}
    /\ done \in BOOLEAN /\ signalled \in BOOLEAN
    /\ shutdown \in {"waiting", "draining", "over"} /\ (shutdown # "waiting" => done)
    /\ timedOut \in BOOLEAN /\ listening \in BOOLEAN
    /\ conn \in [Connections -> {"none", "new", "active", "closed"}]

Init ==
    /\ main = "start" /\ err = "none" /\ result = "none"
    /\ done = FALSE /\ signalled = FALSE
    /\ shutdown = "waiting" /\ timedOut = FALSE
    /\ listening = TRUE
    /\ conn = [c \in Connections |-> "none"]

busy == {c \in Connections : conn[c] \in {"new", "active"}}

----------------------------------------------------------------------------
(* Connections: each carries one request. *)

Connect(c) ==
    /\ listening /\ main = "serve" /\ conn[c] = "none"
    /\ conn' = [conn EXCEPT ![c] = "new"]
    /\ UNCHANGED <<main, err, result, done, signalled, shutdown, timedOut, listening>>

\* A request that is on its way when Shutdown starts is still served.
Request(c) ==
    /\ conn[c] = "new"
    /\ conn' = [conn EXCEPT ![c] = "active"]
    /\ UNCHANGED <<main, err, result, done, signalled, shutdown, timedOut, listening>>

\* The handler returns, or a connection without a request is given up.
Finish(c) ==
    /\ conn[c] \in {"new", "active"}
    /\ conn' = [conn EXCEPT ![c] = "closed"]
    /\ UNCHANGED <<main, err, result, done, signalled, shutdown, timedOut, listening>>

----------------------------------------------------------------------------
(* The main goroutine. *)

\* The context of signal.NotifyContext ends; a second signal has no effect.
Signal ==
    /\ ~signalled
    /\ signalled' = TRUE
    /\ done' = TRUE
    /\ UNCHANGED <<main, err, result, shutdown, timedOut, listening, conn>>

\* server.Serve starts.  After Shutdown it closes the listener and returns.
StartServe ==
    /\ main = "start"
    /\ \/ /\ shutdown = "waiting"
          /\ main' = "serve"
          /\ UNCHANGED <<err, listening>>
       \/ /\ shutdown # "waiting"
          /\ main' = "cancel" /\ err' = "closed" /\ listening' = FALSE
    /\ UNCHANGED <<result, done, signalled, shutdown, timedOut, conn>>

\* Accept fails for a reason of its own; Serve closes the listener.
ServeFails ==
    /\ main = "serve" /\ listening
    /\ main' = "cancel" /\ err' = "failed"
    /\ listening' = FALSE
    /\ UNCHANGED <<result, done, signalled, shutdown, timedOut, conn>>

\* ErrServerClosed.
ServeCloses ==
    /\ main = "serve" /\ ~listening
    /\ main' = "cancel" /\ err' = "closed"
    /\ UNCHANGED <<result, done, signalled, shutdown, timedOut, listening, conn>>

\* Mutated: only a signal ends the context.
cancel_Missing == UNCHANGED done

cancel == done' = TRUE

Cancel ==
    /\ main = "cancel" /\ main' = "wait"
    /\ cancel
    /\ UNCHANGED <<err, result, signalled, shutdown, timedOut, listening, conn>>

\* Mutated: does not wait for Shutdown to finish.
shutdownDone_NotAwaited == TRUE

\* Mutated: waits for a drain without a timeout.
shutdownDone_Clean == shutdown = "over" /\ ~timedOut

shutdownDone == shutdown = "over"

\* Mutated: any end of Serve counts as a shutdown.
resultOf_Swallowed(e) == "nil"

resultOf(e) == IF e = "closed" THEN "nil" ELSE "error"

Return ==
    /\ main = "wait" /\ shutdownDone
    /\ main' = "returned"
    /\ result' = resultOf(err)
    /\ UNCHANGED <<err, done, signalled, shutdown, timedOut, listening, conn>>

----------------------------------------------------------------------------
(* The shutdown goroutine. *)

\* Mutated: the context is not waited for.
contextDone_Ignored == TRUE

contextDone == done

\* Shutdown closes the listeners Serve has registered, none before it starts.
BeginShutdown ==
    /\ shutdown = "waiting" /\ contextDone
    /\ shutdown' = "draining"
    /\ listening' = (listening /\ main = "start")
    /\ UNCHANGED <<main, err, result, done, signalled, timedOut, conn>>

\* Shutdown waits for Serve to leave its loop, then returns nil when nothing
\* is busy, or the error of its context.
EndShutdown ==
    /\ shutdown = "draining" /\ main # "serve"
    /\ shutdown' = "over"
    /\ \/ busy = {} /\ UNCHANGED timedOut
       \/ busy # {} /\ timedOut' = TRUE
    /\ UNCHANGED <<main, err, result, done, signalled, listening, conn>>

MainStep == StartServe \/ ServeCloses \/ Cancel \/ Return

Next ==
    \/ \E c \in Connections : Connect(c) \/ Request(c) \/ Finish(c)
    \/ Signal \/ ServeFails \/ MainStep
    \/ BeginShutdown \/ EndShutdown

SafeSpec == Init /\ [][Next]_vars

----------------------------------------------------------------------------
(* Properties. *)

\* serveUntil reports success only for a shutdown that was asked for, and an
\* error only when Serve failed by itself.  A failure that races a signal
\* is not lost.
ResultTruthful ==
    /\ result = "nil" => signalled /\ err = "closed"
    /\ result = "error" => err = "failed"
=============================================================================
