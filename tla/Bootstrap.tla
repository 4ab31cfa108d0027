------------------------------ MODULE Bootstrap ------------------------------
(***************************************************************************)
(* The life of a phase service (Bootstrap and serve in src/bootstrap.go,   *)
(* InitSentry in src/utils/initSentry.go): the startup sequence with its   *)
(* failures, serving, and the deferred calls that run in reverse, around   *)
(*   - Migrations, the output of the migration tool,                       *)
(*   - Serve, with the handlers of its connections as the requests of      *)
(*   - Audit, whose jobs and deliveries go on after the handlers, and      *)
(*   - pgxpool: Close refuses new acquisitions and waits for the           *)
(*     connections in use, by a handler or by a job of it.                 *)
(* The main function is the one in the comment of Bootstrap.  The errors   *)
(* followed to Sentry are the one main logs as fatal and those of failed   *)
(* deliveries, which are logged at any time, behind Bootstrap's end too.   *)
(*                                                                         *)
(* Until "serving" the variables of Serve have their initial values.       *)
(***************************************************************************)
EXTENDS Serve, Migrations

CONSTANTS
    Audited, \* the connections whose requests are followed through Audit
    Methods, Statuses, GivenOutcomes, GivenActors, MaxDeliveries, MaxRecords

ASSUME AuditedAssumption == Audited \subseteq Connections /\ IsFiniteSet(Audited)

VARIABLES
    pc, method, status, user, skip, recorded, buffer, copy, made, event, fate, sem,
    phase,   \* where Bootstrap, then main, is
    sentry,  \* Sentry is enabled, has a DSN and was initialised
    pool,    \* "none", "open", "closing" or "closed"
    holders, \* the requests on whose behalf a pool connection is in use
    failure, \* what Bootstrap returns: "none", "error", or "panic" when it unwinds
    report,  \* what Sentry knows of the logged errors
    exit     \* how the process ended: "none", "0", "1", "2" or "killed"

A == INSTANCE Audit WITH Requests <- Audited

\* What Audit assumes of its bounds and inputs.
ASSUME AuditAssumption ==
    /\ MaxDeliveries \in Nat /\ MaxRecords \in Nat
    /\ Statuses \subseteq A!StatusClasses /\ "2xx" \in Statuses
    /\ GivenOutcomes \subseteq A!Outcomes \cup {A!None} /\ GivenActors \subseteq BOOLEAN

auditVars == <<pc, method, status, user, skip, recorded, buffer, copy, made, event, fate, sem>>
startVars == <<sentry, pool, holders, failure, report, exit>>
bootVars == <<vars, migrationVars, auditVars, phase, startVars>>

Starting == {"validate", "sentry", "migrate", "migrated", "pool", "keycloak", "routes"}
Ending == {"closing", "flush", "flushing", "main", "fatal", "exiting"}

\* The errors logged at a level the event hook captures.
FatalError == <<"log.Fatal", 0>>
Errors == A!EventIds \cup {FatalError}
Reports == [captured : SUBSET Errors,   \* with the transport
            sent : SUBSET Errors,       \* posted by its worker
            awaited : SUBSET Errors,    \* by the flush that runs
            excused : SUBSET Errors]    \* given up by a flush, or logged too late

BootTypeOK ==
    /\ TypeOK /\ MigrationTypeOK /\ A!TypeOK
    /\ phase \in Starting \cup {"listen", "serving"} \cup Ending \cup {"ended"}
    /\ sentry \in BOOLEAN
    /\ pool \in {"none", "open", "closing", "closed"}
    /\ holders \subseteq Connections
    /\ failure \in {"none", "error", "panic"}
    /\ report \in Reports
    /\ exit \in {"none", "0", "1", "2", "killed"} /\ (exit = "none" <=> phase # "ended")

BootInit ==
    /\ Init /\ MigrationInit /\ A!Init
    /\ phase = "validate" /\ sentry = FALSE /\ pool = "none" /\ holders = {}
    /\ failure = "none" /\ exit = "none"
    /\ report = [captured |-> {}, sent |-> {}, awaited |-> {}, excused |-> {}]

----------------------------------------------------------------------------
(* Starting. *)

\* Mutated: conn.Close is deferred after the routes are registered.
unwind_CloseDeferredLate(cause) ==
    /\ failure' = cause
    /\ phase' = IF pool = "open" /\ phase \in {"listen", "serving"} THEN "closing" ELSE "flush"

\* The deferred calls run, the last first.
unwind(cause) ==
    /\ failure' = cause
    /\ phase' = IF pool = "open" THEN "closing" ELSE "flush"

\* A step of the sequence: it goes on, or fails.
step(from, to, causes) ==
    /\ phase = from
    /\ \/ phase' = to /\ UNCHANGED failure
       \/ \E cause \in causes : unwind(cause)
    /\ UNCHANGED <<vars, auditVars, holders, report, exit>>

Validate ==
    /\ phase = "validate"
    /\ \/ phase' = "sentry" /\ UNCHANGED failure
       \/ phase' = "main" /\ failure' = "error"
    /\ UNCHANGED <<vars, migrationVars, auditVars, sentry, pool, holders, report, exit>>

\* The error of InitSentry is ignored.
InitSentry ==
    /\ step("sentry", "migrate", {})
    /\ sentry' \in BOOLEAN
    /\ StartMigrations
    /\ UNCHANGED <<written, pending, printed, pool>>

MigrationWrites ==
    /\ phase = "migrate"
    /\ \E n \in 1 .. Len(output) : Write(n)
    /\ UNCHANGED <<vars, auditVars, phase, startVars>>

MigrationEnds ==
    /\ phase = "migrate" /\ flush
    /\ phase' = "migrated"
    /\ UNCHANGED <<vars, auditVars, startVars>>

\* The variables of RunMigrations go with it.
RunMigrations ==
    /\ step("migrated", "pool", {"error"})
    /\ output' = <<>> /\ written' = 0 /\ pending' = <<>> /\ printed' = <<>>
    /\ UNCHANGED <<sentry, pool>>

NewPool ==
    /\ step("pool", "keycloak", {"error"})
    /\ pool' = IF phase' = "keycloak" THEN "open" ELSE pool
    /\ UNCHANGED <<migrationVars, sentry>>

InitPhaseKeycloak == step("keycloak", "routes", {"error"}) /\ UNCHANGED <<migrationVars, sentry, pool>>

RegisterRoutes == step("routes", "listen", {"error", "panic"}) /\ UNCHANGED <<migrationVars, sentry, pool>>

\* From here on signals are caught.
Listen == step("listen", "serving", {"error"}) /\ UNCHANGED <<migrationVars, sentry, pool>>

Startup ==
    \/ Validate \/ InitSentry \/ MigrationWrites \/ MigrationEnds \/ RunMigrations
    \/ NewPool \/ InitPhaseKeycloak \/ RegisterRoutes \/ Listen

----------------------------------------------------------------------------
(* Reporting errors to Sentry. *)

\* logrus fires its hooks, and the event hook hands the error to the transport.
capture(e, late) ==
    report' = IF sentry
                THEN [report EXCEPT !.captured = @ \cup {e},
                                    !.excused = IF late THEN @ \cup {e} ELSE @]
                ELSE report

\* No flush follows: main exits unless Bootstrap returned an error.
lastFlushBegun == phase = "exiting" \/ (phase \in {"flushing", "main"} /\ failure # "error")

\* The worker of the transport posts one of them, in the background.
Post(e) ==
    /\ phase # "ended" /\ e \in report.captured
    /\ report' = [report EXCEPT !.captured = @ \ {e}, !.sent = @ \cup {e}]
    /\ UNCHANGED <<vars, migrationVars, auditVars, phase, sentry, pool, holders, failure, exit>>

\* sentry.Flush waits for what is with the transport when it is called, and
\* for its timeout at most.
beginFlush == report' = [report EXCEPT !.awaited = report.captured]
endFlush == report' = [report EXCEPT !.awaited = {},
                                     !.excused = @ \cup (report.awaited \ report.sent)]

----------------------------------------------------------------------------
(* Serving. *)

others == UNCHANGED <<migrationVars, phase, startVars>>

CatchSignal == phase \in {"listen", "serving"} /\ Signal /\ UNCHANGED auditVars /\ others

ServeStep ==
    /\ phase = "serving" /\ (ServeFails \/ MainStep \/ BeginShutdown \/ EndShutdown)
    /\ UNCHANGED auditVars /\ others

\* A connection, with the audit middleware around its handler.
Accepted(c) == phase = "serving" /\ Connect(c) /\ UNCHANGED auditVars /\ others

Handle(c) ==
    /\ phase # "ended" /\ Request(c)
    /\ \/ c \in Audited /\ A!Arrive(c)
       \/ c \notin Audited /\ UNCHANGED auditVars
    /\ others

\* c's request is with its handler; a job of it goes on afterwards.
handled(c) == conn[c] = "active" /\ (c \in Audited => pc[c] = "handling")
inJob(c) == c \in Audited /\ copy[c].taken

CloseConnection(c) ==
    /\ phase # "ended" /\ Finish(c)
    /\ IF c \in Audited
         THEN conn[c] = "active" => pc[c] \in {"done", "panicked"}
         ELSE c \notin holders
    /\ UNCHANGED auditVars /\ others

\* The handler gives its pool connection back, unless a job of it took one.
\* Suppress, which only silences the backstop, is left to the runs of Audit.
HandlerStep(c) ==
    /\ phase # "ended" /\ conn[c] = "active"
    /\ \/ A!Authenticate(c) \/ A!Respond(c) \/ A!StartJob(c)
       \/ (c \notin holders \/ inJob(c)) /\ (A!HandlerReturns(c) \/ A!HandlerPanics(c))
       \/ A!Flush(c) \/ A!Backstop(c)
       \/ \E supplied \in GivenActors, o \in GivenOutcomes : A!Record(c, supplied, o)
    /\ UNCHANGED vars /\ others

JobStep(c) ==
    /\ phase # "ended"
    /\ \E supplied \in GivenActors, o \in GivenOutcomes : A!JobRecord(c, supplied, o)
    /\ UNCHANGED vars /\ others

\* The goroutine of a failed delivery logs the error before it gives its slot
\* back.
DeliveryStep(id) ==
    /\ phase # "ended"
    /\ \/ A!SinkReturns(id) /\ UNCHANGED report
       \/ fate[id] = "recorded" /\ A!Release(id) /\ UNCHANGED report
       \/ fate[id] = "errored" /\ A!Release(id) /\ capture(id, lastFlushBegun)
    /\ UNCHANGED <<vars, migrationVars, phase, sentry, pool, holders, failure, exit>>

\* A handler or a job uses the database.
AcquireConnection(c) ==
    /\ phase # "ended" /\ pool = "open" /\ c \notin holders
    /\ handled(c) \/ inJob(c)
    /\ holders' = holders \cup {c}
    /\ UNCHANGED <<vars, migrationVars, auditVars, phase, sentry, pool, failure, report, exit>>

ReleaseConnection(c) ==
    /\ phase # "ended" /\ c \in holders
    /\ holders' = holders \ {c}
    /\ UNCHANGED <<vars, migrationVars, auditVars, phase, sentry, pool, failure, report, exit>>

----------------------------------------------------------------------------
(* Ending. *)

\* serveUntil has returned: stop, and then conn.Close begins.
Stop ==
    /\ phase = "serving" /\ main = "returned"
    /\ unwind(IF result = "nil" THEN "none" ELSE "error")
    /\ UNCHANGED <<vars, migrationVars, auditVars, sentry, pool, holders, report, exit>>

\* conn.Close, until nobody uses a connection.
BeginClose ==
    /\ phase = "closing" /\ pool = "open"
    /\ pool' = "closing"
    /\ UNCHANGED <<vars, migrationVars, auditVars, phase, sentry, holders, failure, report, exit>>

EndClose ==
    /\ phase = "closing" /\ pool = "closing" /\ holders = {}
    /\ pool' = "closed" /\ phase' = "flush"
    /\ UNCHANGED <<vars, migrationVars, auditVars, sentry, holders, failure, report, exit>>

\* The deferred sentry.Flush, the last of the deferred calls.
Flush ==
    /\ phase = "flush" /\ phase' = "flushing"
    /\ beginFlush
    /\ UNCHANGED <<vars, migrationVars, auditVars, sentry, pool, holders, failure, exit>>

\* A panic ends the program behind it, without any exit handler.
EndFlush ==
    /\ phase = "flushing"
    /\ endFlush
    /\ \/ failure = "panic" /\ phase' = "ended" /\ exit' = "2"
       \/ failure # "panic" /\ phase' = "main" /\ UNCHANGED exit
    /\ UNCHANGED <<vars, migrationVars, auditVars, sentry, pool, holders, failure>>

\* main returns, or log.Fatal fires the hooks of logrus.
Main ==
    /\ phase = "main"
    /\ \/ failure = "none" /\ phase' = "ended" /\ exit' = "0" /\ UNCHANGED report
       \/ /\ failure = "error" /\ phase' = "fatal"
          /\ capture(FatalError, FALSE) /\ UNCHANGED exit
    /\ UNCHANGED <<vars, migrationVars, auditVars, sentry, pool, holders, failure>>

\* Mutated: the deferred flush is thought to be enough.
exitHandlers_None == UNCHANGED report

\* The exit handler InitSentry registers when it succeeds flushes again.
exitHandlers == beginFlush

Fatal ==
    /\ phase = "fatal" /\ phase' = "exiting"
    /\ exitHandlers
    /\ UNCHANGED <<vars, migrationVars, auditVars, sentry, pool, holders, failure, exit>>

Exit ==
    /\ phase = "exiting"
    /\ endFlush
    /\ phase' = "ended" /\ exit' = "1"
    /\ UNCHANGED <<vars, migrationVars, auditVars, sentry, pool, holders, failure>>

\* A signal nobody has asked for: before serve and behind its deferred stop.
Kill ==
    /\ phase \in Starting \cup Ending
    /\ phase' = "ended" /\ exit' = "killed"
    /\ UNCHANGED <<vars, migrationVars, auditVars, sentry, pool, holders, failure, report>>

End == Stop \/ BeginClose \/ EndClose \/ Flush \/ EndFlush \/ Main \/ Fatal \/ Exit

BootNext ==
    \/ Startup \/ CatchSignal \/ ServeStep \/ End \/ Kill
    \/ \E c \in Connections :
          \/ Accepted(c) \/ Handle(c) \/ CloseConnection(c)
          \/ AcquireConnection(c) \/ ReleaseConnection(c)
    \/ \E c \in Audited : HandlerStep(c) \/ JobStep(c)
    \/ \E id \in A!EventIds : DeliveryStep(id)
    \/ \E e \in Errors : Post(e)

\* The goroutines of serve and of main are scheduled and Shutdown times out.
\* The migration tool, Keycloak's metadata, handlers and jobs may hang.
BootFairness ==
    /\ WF_bootVars(phase = "serving" /\ MainStep /\ UNCHANGED auditVars /\ others)
    /\ WF_bootVars(phase = "serving" /\ BeginShutdown /\ UNCHANGED auditVars /\ others)
    /\ WF_bootVars(phase = "serving" /\ EndShutdown /\ UNCHANGED auditVars /\ others)
    /\ WF_bootVars(Listen) /\ WF_bootVars(End)

BootSpec == BootInit /\ [][BootNext]_bootVars /\ BootFairness

----------------------------------------------------------------------------
(* Properties. *)

\* The pool is taken from a running handler only after Shutdown timed out,
\* whatever ends Serve and with requests arriving up to the last moment.
ClosedWhenDrained == pool \in {"closing", "closed"} => busy = {} \/ timedOut

\* However Bootstrap ends, but for a signal that kills the process, the pool
\* it opened is closed and no query was cut off.
ResourcesReleased ==
    phase = "ended" /\ exit # "killed" => pool \in {"none", "closed"} /\ holders = {}

\* What the end of the service costs the audit trail: when Shutdown did not
\* time out, the events of all requests have left them (but for a panicked
\* handler), and those lost without a log line are the ones in delivery, at
\* most MaxDeliveries.
LossBounded ==
    phase = "ended" /\ main = "returned" /\ ~timedOut =>
        /\ \A id \in A!EventIds : fate[id] = "buffered" => pc[id[1]] = "panicked"
        /\ Cardinality({id \in A!EventIds : fate[id] \in A!Holding}) <= MaxDeliveries

\* "So error/fatal/panic logs still create issues": when the process exits by
\* itself, Sentry knows of the fatal error, which main logs behind Bootstrap's
\* flush, and of every failed delivery, unless a flush gave up waiting for it
\* or it was logged when the last flush had begun.
ErrorsReported ==
    phase = "ended" /\ exit # "killed" /\ sentry =>
        /\ exit = "1" => FatalError \in report.sent \cup report.excused
        /\ \A id \in A!EventIds :
              fate[id] = "failed" => id \in report.sent \cup report.excused

\* A signal or a failing listener ends serveUntil, and its goroutine with it,
\* even if some handler never returns.
Ends ==
    phase = "serving" /\ (signalled \/ err = "failed")
        ~> main = "returned" /\ shutdown = "over"

\* Once asked to stop, or without a listener, the process ends unless a
\* handler or a job keeps a pool connection for ever.
ShutdownCompletes ==
    []<>(holders = {}) => (signalled \/ err = "failed" ~> phase = "ended")
=============================================================================
