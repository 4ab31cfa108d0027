# Verification of prompt-sdk

TLA+ models of the PROMPT SDK, the Go library behind the services ("phases")
of the PROMPT platform, with TLC runs on small instances and TLAPS proofs for
all of them. Sources are named relative to the repository; `PROJECT.json` maps
every definition to its lines and lists the runs, findings and theorems.

    tlc -workers 2 -config Audit_request.cfg MCAudit.tla     # one run
    tlapm AuditProofs.tla                                    # one proof

## 1. Inventory of the system

A phase is a gin server built by `Bootstrap`. Requests run concurrently, each
on a goroutine of its own, through a chain of middlewares kept in the library;
what a request leaves in its `gin.Context` is read by the next one. State that
several requests share is rare and is what makes the library hard: the delivery
slots of the audit runtime, the tables of the service, the server itself.

| Component | State | Operations | Hard behaviour | Correct when |
|---|---|---|---|---|
| Audit middleware (`audit/context.go`, `middleware.go`) | per request: skip and recorded flags, event buffer; per service: a semaphore of 64 slots | `Describe`, `Skip`, `Suppress`, `Record`, the flush and the backstop after `c.Next()`, delivery goroutines | concurrent deliveries at a limit, background jobs on a copied context, panics, late status | one kind of entry per request, nothing lost before the sink, true outcomes, no slot leaked |
| Audit HTTP sink (`audit/sink_http.go`) | none between calls; core's log | `Record`: three attempts | lost or late answers, retries | the call ends, nil means stored, copies are bounded, only transient failures are repeated |
| Authentication, authorization (`keycloakTokenVerifier`) | `TokenUser`, the courseRolesResolved marker and the own participation, in the request | `KeycloakMiddleware`, `AuthenticationMiddleware`, two lookups in core | an order of checks with early returns, failing lookups, middlewares stacked on a group and a route | only holders of an allowed role pass, only others are denied |
| Requests to core (`keycloakCoreRequests`) | none | role mapping, student check, subject identifiers | statuses and bodies folded into a few errors | each answer becomes the value or the error its caller expects |
| Subject identifiers, ownership (`subjectIdentifierMiddleware.go`, `ownership.go`) | identifiers in the context | `SubjectIdentifierMiddleware`, `ValidateStudentOwnership` | reads what another middleware may have left | own data for its owner only |
| Tutor scoping (`tutorscope`, `tutorScopingMiddleware.go`) | team and marker in the context; tutor and allocation tables of the service | `Middleware`, `TeamID`, `AuthorizeWrite`, `AllowsTeam`, `Guard`, `NewPgxResolver` | decisions taken early and used late, wiring mistakes, empty logins | writes stay in the tutor's team whatever happens in between |
| Export archive (`utils/export.go`) | ZIP writer, file, first error, entries, finished | `NewExport`, `AddJSON`, `AddBlob`, `AddFile`, `UploadTo`, `Close` | sticky errors, partial entries, lost upload answers | only complete archives are stored, nothing changes after an error |
| Privacy export endpoint (`promptTypes/privacyExport.go`) | the export of the request | one POST | every early return with a file on disk | truthful answer, allowed host, file removed |
| Serving and shutdown (`bootstrap.go`) | context, listener, connections, pool | `serve`, `serveUntil`, deferred closes | three concurrent actors, timeout | the pool outlives the requests, errors survive, it ends |
| Data resolution (`resolution.go`) | the document being merged | three `FetchAndMerge...` operations | partial failure, overlapping keys, hostile targets | the last resolved value at its place, no success without every resolution, the bearer token kept on its path |
| Endpoint registrars (`promptTypes/*.go`) | none | middlewares of the endpoint, one call of the service's code, one answer | groups with middlewares of their own, error masking, panics | deletions for those entitled, a status that tells the truth |
| Startup (`Bootstrap`, `utils`, verifier setup) | pool, Sentry, deferred calls, output of the migration tool | run once, in order | a failing step after an earlier one succeeded, a signal at any time, a fatal exit that skips deferred calls | resources released on every path, logged errors reported before the process ends, the password out of the log |
| Decoding, validation, CORS, test utilities | none | pure functions, configuration, wording | none | not modelled |

Interactions: `Bootstrap` installs the audit middleware on every route, the
service installs authentication and then scoping on its groups, and the
registrars install theirs behind those; the audit middleware calls the sink from
goroutines; scoping and ownership read what authentication stored; the export
endpoint drives the export; every lookup forwards the caller's token to core;
handlers and jobs hold connections of the pool that `Bootstrap` closes. The
hazards, each at its line with the properties that cover it, are in `PROJECT.json`.

## 2. Modules

| Module | Models | Runs |
|---|---|---|
| `Audit`, `MCAudit`, `AuditProofs` | requests, records, flush, backstop, deliveries | `Audit_*.cfg` |
| `RecordBuffer` | the Go slices under the event buffer when a context is copied | `RecordBuffer.cfg` |
| `SinkPromise` | abstract: what the runtime may expect of a sink | property of `CoreSink.cfg` |
| `CoreSink`, `CoreSinkProofs` | the retry loop against network and core | `CoreSink.cfg` |
| `Access`, `AccessProofs` | chains of middlewares, token check, role checks, lookups | through the next two |
| `Endpoints` (extends `Access`), `MCEndpoints`, `EndpointsProofs` | what the registrars install, identifiers, ownership, the calls of the service's code | `Endpoints.cfg`, `Access_credentials.cfg` |
| `TutorScope` (extends `Access`), `MCTutorScope`, `TutorScopeProofs` | scoping, write authorization, guarded statement, concurrent administration | `TutorScope.cfg` |
| `Export` | an export in the hands of any caller | `Export_retry.cfg`, `PrivacyExport.cfg` |
| `PrivacyExport` (extends `Export`), `MCPrivacyExport`, `PrivacyExportProofs` | the endpoint around it | `PrivacyExport.cfg` |
| `Serve` | the goroutines of `serveUntil`, signal, connections | through `Bootstrap` |
| `Migrations` | the migration tool's output on its way to the log | through `Bootstrap` |
| `Bootstrap` (extends both, instantiates `Audit`), `MCBootstrap`, `BootstrapProofs` | the life of a service from validation to exit, with the pool, Sentry and audited requests | `Bootstrap.cfg` |
| `Resolution`, `MCResolution`, `ResolutionProofs` | fetching, targets, merging | `Resolution*.cfg` |

Operators whose name ends in a suffix like `write_OffByOne` are mutated forms of
the definition below them. No specification uses them; replacing the definition
by one shows that a property can fail.

### Audit

`pc` is the place of a request's goroutine: before the middleware, inside
`c.Next()` (`handling`), in the code behind it (`flushing`), through, or unwound
by a panic. While it is handling, `Authenticate`, `Suppress`, `Respond`,
`Record` and `StartJob` come in any order, which covers every order of
middlewares and handler code. `fate` follows each event: buffered, its goroutine
recording, the sink's answer there, the slot given back (delivered or failed),
or dropped. `write` is `runtime.write`: the `select` with a default is a test and
a send in one step. An event keeps its outcome and status; label, actor, entity
and metadata are data. Callers give neither an HTTP status nor a panic inside
the sink. A job records with an outcome, as the documentation of `Record` asks.

`RecordBuffer` is about the job that does not. It has the slices of the live and
of the copied context, their arrays and the doubling of capacities (an `Event`
has 280 bytes, for which the size classes of the allocator add no room). The
flush reads each element when it comes to it.

### CoreSink

One call per event. `posts` are requests under way, which core may handle any
time later, once; `NetworkError` is an error of `client.Do` including its
timeout and leaves the post where it is. `lastErr` keeps why the last attempt
failed, which is what a repeated post is measured by. `SinkPromise` has a call that is idle,
running, or over with nil or an error, and a count of stored copies; `CoreSink`
implements it with `resultOf` mapping posting and sleeping to running.

### Access, Endpoints and TutorScope

A caller is a token (by the outcomes of its verification), its roles as pairs of
course prefix and name, and core's view of its bearer. A route is its chain of
middlewares, each `AuthenticationMiddleware` with its own list of roles, its path
parameter, and the prefix core answers for it. `index` is the place in the
chain and `stage` the place inside a middleware; each lookup is a step, and each
answer of core, a status with or without a usable body or none at all, is turned
into the value or the error by an operator named for the function that does it.
Requests share nothing here, so one request is the general case.

`Endpoints` adds what a registrar puts behind the middlewares of the group, with
`RoutesRegistered` saying that these come last, and the handlers. `argument` is
what the code of the service was called with, a phase, a subject or the caller's
own data, and `outcome` how that call ended, with an error or a panic among the
possibilities. `ValidateStudentOwnership` is used by a handler of the service,
which is external.

`TutorScope` adds what scoping leaves in the context, the two tables and their
administration between any two steps. The handler and its SQL are the service's:
`Read` filters by `GetTutorTeamID`, `Authorized` calls `AuthorizeWrite` and
`AllowsTeam`, and `Write` is the one statement the documentation of `Guard`
prescribes. `since`, `unassigned` and `untutored` are history variables for the
properties. Chains include every order and omission of the two middlewares.

### Export and PrivacyExport

An export belongs to one goroutine, so a call is a step, with a choice for each
way it can fail. A disk failure breaks the ZIP writer for good; an upload
can be stored without its answer. The three `Add*` methods differ in encoding
only and are one operation. Two items with one path, or an item called
`contents.json`, are not told apart by the code either and are left out by an
assumption. The endpoint drives this with any sequence of `Add*` calls. `Export`
is public as well, so `PrivacyExport` also starts without the endpoint, where
`DirectUse` makes any of its calls (uploading twice, adding after closing).

### Serve, Migrations and Bootstrap

`http.Server`, signals and `pgxpool` are modelled by what the code relies on:
`Shutdown` closes the listener, waits until `Serve` left its loop, and returns
when nothing is busy or its context expires; `Close` of the pool refuses new
users and waits for those it has. A connection carries one request.

In `Bootstrap`, `phase` is the statement the function is at. `step` is one that
goes on or fails, and `unwind` enters the deferred calls that are registered by
then: closing the pool, then flushing Sentry. Requests of the connections in
`Audited` run through the middleware of `Audit`, instantiated with them, so their
jobs and deliveries go on while the service stops and end with the process. A
handler or a job may hold a pool connection as long as it likes. `Kill` is a
signal before `serve` catches it or after it stopped. The main function is that of
the comment on `Bootstrap`: it logs the error as fatal, which fires the hook that
captures it and then the exit handlers, without running deferred calls.

Errors reach Sentry in two steps. The event hook hands a logged error to the
transport (`capture`), and the transport's worker posts it some time later
(`Post`), which the end of the process does not wait for. `sentry.Flush` does: it
waits for what was with the transport when it began (`awaited`), until its
timeout. It is called twice, deferred by `Bootstrap` and by the exit handler of
`InitSentry`, and beginning and end of each are steps, since deliveries of the
audit trail may fail and log errors in between and during both. `excused` collects what
no code could promise: errors a flush gave up at its timeout, and those logged when
no further flush begins. The errors followed are the fatal one of main and those
of failed deliveries, which the library logs on goroutines that nothing waits for;
what startup and requests log is on its way before Bootstrap's flush or belongs
to a handler cut off by the end. Info and Warn entries (the drop of an event, the
timeout of `Shutdown`) go through another hook and are not followed, nor is an
event refused because the transport's queue is full.

`Migrations` is `maskingWriter` on text of tokens, the ones its regular
expression tells apart, cut into writes of any length. The migration tool is not
the SDK's: `EchoAssumption` says what is relied on, that the tool shows the
password only as part of the connection string it was given. It is handed
nothing else that contains the password. A tool that printed the bare password
would get it into the log, as the writer looks for URLs.

### Resolution

Documents are abstract values; `Raw` is the whole answer of core. Targets are
told apart by what `buildURL` looks at. `destination` says where such a request
would go, which is independent of the checks.

## 3. What the runs check

| Run | Bounds | States | Shows |
|---|---|---|---|
| `Audit_request` | 1 request, 3 records, 1 slot | 265 thousand | no duplicate entry, nothing lost, true outcome, order, audited or logged; every event taken over settles |
| `Audit_delivery` | 2 requests (symmetric), 1 slot, 2 records | 2.3 million | types, slot accounting, one hand-over, drops only at the limit |
| `CoreSink` | 2 events, 3 attempts | 52 thousand | bounded copies, only transient failures repeated; implements `SinkPromise` with its liveness |
| `Endpoints` | all role sets, lists and credentials; all endpoints, alone and behind groups | 424 thousand | exactly the holders pass or are not denied, deletions for those entitled, true answers, own data for its owner |
| `TutorScope` | 1 request, 2 teams, all wirings, 2 changes | 285 thousand | confined writes, scoped reads, no false denials |
| `PrivacyExport` | 1 request or 1 direct user, 5 calls | 6 443 | only whole archives stored, frozen after error or success, truthful answer, allowed host, file removed |
| `Bootstrap` | 2 connections, 1 audited with 1 record, 1 slot | 284 thousand | true result, pool last, resources released, bounded loss of events, logged errors reported, the password hidden; it ends |
| `Resolution` | 2 participations, up to 2 resolutions | 183 thousand | last resolved value wins, a success is complete, token stays on its path |

The type invariants of `CoreSink`, `Endpoints` and `TutorScope` are proved and not
run; that of `Bootstrap` includes those of `Serve`, `Migrations` and `Audit`.
`CredentialHidden` says that the log is what it would be if each line had come in
one piece, and that no character of the password of the service's own connection
string is in it. `ErrorsReported` says that when the process exits by itself, the
fatal error and every failed delivery are posted or excused as above.

Why the bounds suffice. Audit: two requests with a job each and one slot have
every contention for the slot; a third record is the first that follows both a
buffered and a delivered one. PrivacyExport: five calls are two additions, an
upload that fails or a close, and two more calls on what that leaves.
RecordBuffer: four records of the handler reach the first array with room to
spare. CoreSink: three attempts is the code's number. Endpoints: every list of
roles occurs alone, and in stacks those that differ in the lookups they need.
TutorScope: two teams tell own from foreign, and the bound on administrative
changes lets one fall before and one after every decision. Bootstrap: of two
connections one can be drained and one time out or arrive late, and one audited
request with a record, a job and a backstop has each kind of event in delivery
when the process ends; an output of three fragments, one of them the connection
string, puts every token before and behind a cut. Resolution: two resolutions
under one key are enough for an order to matter.

### Disagreements found

Each is a run that TLC refutes; `PROJECT.json` quotes the sentence.

| Run | The code |
|---|---|
| `RecordBuffer` | a job that records without an outcome on its copied context can overwrite an event of the handler (`context.go:180`) |
| `Access_credentials` | a token without an entry for the client panics and is answered 500, not 401 (`keycloakMiddleware.go:157`) |
| `Export_retry` | a second `UploadTo` after a failed one panics (`export.go:250`) |
| `Resolution_one` | core's document is stored instead of the resolved value (`resolution.go:231`) |

Other comments say more than the code does; the models follow the code and no
property claims the comment.

- The backstop records a request answered 401 (`middleware.go:105`), which lines
  31-32 leave out and the comment of `outcomeForStatus` explains.
- An admin who is also an editor is scoped (`tutorScopingMiddleware.go:51`),
  though admins "pass through untouched" (`tutorscope.go:47`).
- A second `AuthenticationMiddleware` replaces the `TokenUser`
  (`keycloakMiddleware.go:94`) and leaves the marker of the first lookup, so on a
  stacked route the marker can vouch for flags nobody looked up;
  `LegitimateNotDenied` is about routes that authenticate once.
- After its timeout `Shutdown` leaves requests running (`bootstrap.go:181`), though
  `serveUntil` "returns only once Shutdown has finished draining" (lines 173-174);
  `ClosedWhenDrained` states what holds.
- An empty object is a deletion request with both identifiers nil; the endpoint
  passes it on (the subject `nobody`), where `subjectIdentifiers.go:25` asks
  for at least one identifier.
- The expression that hides the password (`sanitizeDatabaseUrl.go:6`) wants a user
  name; a connection string without one would be printed as it is.
- The validators accept digits of any script and count bytes where their
  comments speak of characters (`validator.go:92-109`); they are not modelled.

### Fairness

Audit: the Go scheduler runs the code behind `c.Next()` and the goroutines, and a
sink returns, which `CoreSink` shows for the HTTP sink; handlers owe nothing.
CoreSink: the client's timeout ends each wait and `time.Sleep` ends; core owes
nothing. PrivacyExport: the handler returns and the client's timeout ends the
upload. Bootstrap: the two goroutines of `serveUntil` run, the timeout of
`Shutdown` fires, listening and the code behind serving go on; the migration
tool, Keycloak, handlers, jobs, signals and listener failures are free. `Ends`
holds even if a handler never returns; `ShutdownCompletes` assumes that the pool
connections are given back now and then, since closing the pool waits for them.
The other specifications are safety only. Deadlock checking is off where the
system comes to rest: a finite set of requests, one upload, one process.

## 4. What is proved

TLAPS checks these for every value of the constants, from the assumptions named
in the modules (finite sets of requests, natural bounds, well-formed inputs).

- `AuditProofs`. `TypeCorrect`, `SlotsAccountedFor`, `WrittenOnce`,
  `DropsJustified`, `NoDuplicates`, `NothingLost`, `Audited`, `OutcomesTrue`,
  `OrderKept`. Types alone are not inductive: the proof carries that the events of
  a request are numbered without gaps, that numbers not given out have no fate,
  that the buffer holds exactly the buffered events in increasing order, and that
  a recorded event sets the flag the backstop reads. `Leaving` lists the three
  ways an event leaves its request, and `StatusFinal` says that nobody answers
  behind `c.Next()`; from these follow the outcomes and the order.
- `CoreSinkProofs`. `TypeCorrect`, `BoundedCopies`, `RetriesJustified`,
  `PromiseKept`. The invariant adds that posts under way belong to attempts
  already counted (so a new post is a new element and cardinalities add up), that
  a call which sleeps has failed for a reason that may pass, and that an accepting
  answer means a stored copy. `PromiseKept` maps each step of the loop to a step of
  `SinkPromise` or a stutter.
- `AccessProofs` holds the lemmas the two extensions share: what each stage has
  established about the caller (a flag in the `TokenUser` is backed by a role or
  by core's answer, a request that is let through holds a role of every list it
  has passed, one that is being refused holds none). `EndpointsProofs`:
  `TypeCorrect`, `AdmittedHoldRoles`, `DenialsTrue`, `DeletionsEntitled`,
  `AnswersTrue`, `OwnersAreStudents`, `StudentsRecognised`; the entitlement to a
  deletion follows because a registrar's own list is the last of the chain.
- `TutorScopeProofs`. `TypeCorrect`, `WritesConfined`, `ReadsConfined`,
  `LegitimateHeard`. The invariant ties the `TokenUser` to the caller, the team
  in the context to the history of the tutor table, and a granted access to the
  target it allowed; the guard closes the gap between check and write.
- `PrivacyExportProofs`. `TypeCorrect`, `FinalStates`, `ArchivesWhole`,
  `AnswersTrue`, `HostsAllowed`: all the safety properties of the run, for any
  caller and number of calls. The invariant says that without an error the archive
  is the list of entries, that nothing is stored while the writer is there, and
  that a request which got past the URL checks keeps its target.
- `ResolutionProofs`. `TypeCorrect`, `TokenKept`, `MergedRight`. `Merged` compares
  the returned document with a definition that has no loop; it says nothing while
  the loop runs, so the proof carries `MergedSoFar`: after each answer, what stands
  at a key is the answer that spoke last, or core's value if none did.
  `AnswerSpeaks` is the step (a new answer is the last or says nothing there), and
  `LastIsResolved` shows that the reference's CHOOSE has a single candidate.
  `Complete` adds that nothing is returned as a success before the last resolution
  is answered.
- `BootstrapProofs`, the composed system, in six parts:
  - *Serving.* `Inv` of `Serve` (a result is one its cause allows, what is still
    busy after a drain, the order of the two goroutines). `ImplementsServe` shows
    that each step of a service is a step of `Serve` or leaves it alone, and
    `ResultsTrueInService` follows.
  - *Phases.* `PhaseInv` says what each phase has set up so far (pool, Sentry,
    exit); from it `PoolClosedLast` and `Released`.
  - *Errors.* `ErrorsReachSentry`. `ErrorsReported` speaks of the end only; `Tracked`
    says of each phase before it where the errors logged so far are: with the
    transport or posted at any time, awaited or excused too once the last flush has
    begun, and the fatal error among them from the moment main logged it.
  - *Log.* `CredentialsHidden` and `BootTypes`. `CredentialHidden` is not inductive:
    it does not say that the pieces held back are those of the output. `Masked`
    does: `pending` is the slice between what is printed and what is written, what
    is printed ends at a line end or is everything, and it agrees with the masked
    output. `WriteMasked` and `FlushMasked` keep it by `MaskedInPlace`: a segment of
    whole lines is masked the same by itself as within the output, because a match
    never crosses a line end (`SegmentPassword`). `EchoIsPassword` turns
    `EchoAssumption` into "every character of the password is matched".
    `SmallestOf` and `LargestOf` give the CHOOSEs in `completeLines` and
    `lineByLine` their values by well-foundedness of `<`, which is the one form of
    induction available here.
  - *Audit trail.* `ImplementsAudit` shows that each step of a service is a step of
    `Audit` over the audited connections or leaves it alone. `AuditProofs` is then
    instantiated with them, and its theorems hold in the service:
    `TrailInService` (no duplicate, no loss, true outcomes, order) and
    `DeliveriesInService` (one hand-over, drops only under load). `SameAudit` is the
    bridge: the prover treats the two instances of `Audit` as different names.
  - *Losses.* `LossesBounded` combines them with `Handlers`: a request between its
    arrival and the end of its middleware has an active connection. So when
    `Shutdown` drained every connection no request is inside, buffers belong to
    panicked ones, and what is in delivery holds a slot.

Theorems about `Audit` are stated for `SafeSpec`, the specification without its
fairness, since a service implements that much.

Assumptions. The constants are arbitrary but for: finite sets of requests (what is
counted must be countable), natural bounds, statuses, outcomes and actors of the
kinds the code knows (`AuditAssumption` repeats for `Bootstrap` what `Audit`
assumes), `Audited` among the connections, outputs made of tokens, targets and
callers well formed, and `EchoAssumption` above. TLC evaluates each on the runs'
values.

Only model-checked: liveness (`EventsSettle`, `Ends`, `ShutdownCompletes`,
`FileRemoved`, the fair part of `SinkPromise`), which is out of the prover's reach
as is ENABLED, and the four runs that refute a sentence of the documentation. Every
safety invariant and action property of the passing runs is proved.

## 5. Plan

1. Done: the core (`Audit`, `CoreSink`, `TutorScope`, `Export`, `Serve`,
   `Resolution`) with its first theorems.
2. Done: the endpoints and stacked middlewares behind `Access`, subject
   identifiers and ownership; the life of a service with its startup failures,
   deferred closes, audited requests and deliveries that the end cuts off; the
   output of the migration tool; proofs of these and of the export.
3. Done: proofs of every safety property the runs check, with the service shown
   to implement `Serve` and `Audit`.
4. Next: the properties of `PrivacyExport` and `Access` inside a service, as the
   audit trail is now; the abstract promise of a sink used by `Audit` in place
   of a nondeterministic answer; safety lemmas the liveness runs rest on, such as
   that a held slot always has a goroutine that can give it back.

## 6. Not modelled

Application answers and DTOs (pure decoding), validators and CORS (predicates on
characters, a static configuration), and the test utilities have no state and no
order of steps. Left out of modelled parts: labels, metadata and the role shown in
audit entries; bodies of answers and the health check of `/info`; Sentry's traces,
its log entries below errors, the fields of events and a full queue of its
transport; spellings of hosts and logins beyond what comparisons tell apart; what
configuration selects, such as the choice to disable the sink and the URLs of the verifier.
