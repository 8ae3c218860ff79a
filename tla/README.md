# Verification of GroundedSearch

TLA+ models of the two services of this repository (the Go search API and the
Python ML service) and of the tools that start, check and stop them, TLC
configurations that check them on small instances, and proofs checked by TLAPS
for every instance. File names below are relative to the repository; modules and
configurations are in this directory.

Run `tlc -config X.cfg MCM.tla` for a configuration, `tlapm MProofs.tla` for
the proofs.

## The system and its parts

| Component | State | Operations | Hard behaviour | What makes it correct |
|---|---|---|---|---|
| Status endpoint, `internal/httpapi/handler.go` | none of its own; request context, response deadline | `systemStatus`, `mlServiceStatus`, `classifyDependencyError`, `writeJSON` | the dependency is slow, dies, restarts; the client leaves; two deadlines run at once | a healthy report is earned, a degraded one names its cause, each client gets its report |
| ML client, `internal/mlclient/client.go` | base URL, `http.Client` with timeout | `New`, `ModelInfo`, `readBoundedBody`, `validateModelInfo` | order of size, status and document checks; timeout over all attempts | every call ends in the timeout; errors keep their kind |
| HTTP transport (net/http, external) | pool of idle connections | reuse, dial, retry | connections gone stale under a restart | a stale connection is no reason to report an outage |
| Process lifecycle, `cmd/server/main.go`, `internal/server` | `run()`'s position, the error channel, listener, connections | `run`, `ListenAndServe`, `Shutdown` | select with both branches ready, signal before listening, deadline against completion | no failure lost, no response cut off by a clean exit, the process ends |
| Search API middleware, `handler.go`, `context.go` | `statusRecorder`, fallback counter | request ID, recovery, access log | panics before and after the response started, statuses set twice, concurrent requests | log and response agree, one record per request, IDs distinct |
| ML service middleware, `middleware.py` | `response_started`, `status_code` | `__call__`, `send_wrapper` | exceptions before and after the start, cancellation at each `await`, disconnects | one start message, one true log line |
| ML service application, `app.py`, `schemas.py` | settings | the three routes, exception handlers | none concurrent | its metadata passes the client's validation |
| Configuration, `config.go`, `config.py` | none | parsing and validating the environment | blank and padded values, two notions of blank, values checked twice | what is accepted works |
| Routes, `handler.go` | none | mux, `requireMethod`, `health`, `ready`, `systemStatus`, `notFound`, `writeAPIError` | panics inside a route, methods refused before it | one document per response, errors that name the request |
| Compose stack, `deploy/docker-compose` | containers | restart, stop with a grace period | the kill races with the graceful end | a stop answers what was in progress |
| Smoke test, `scripts/verify_compose.py` | deadline, exception in flight | wait, verify, clean up | containers that crash while asked, commands that fail, resets | a pass is earned, leftovers are explained, it ends |
| Integration harness, `tests/integration` | two processes, two ports, deferred calls | reserve, start, wait, stop | ports taken meanwhile or given twice, early exits, `t.Fatalf` anywhere | a pass is earned, no process is left, it ends |
| projectctl, `tools/projectctl` | steps left and run | `run`, `selectPython`, `setEnvironment`, `verifyCore` | names resolved in one directory and used in another, a step in the middle that fails | success is earned, the checkout's own code runs under the interpreter selected |

The client of the status endpoint speaks to the search API's server; the
middleware gives the request an ID and runs the handler, which calls the ML
service through the ML client with the ID in `X-Request-ID`; the ML service's
middleware takes the ID over. Signals reach `run()`, which stops the server;
in a container the orchestrator kills it when the grace period ends. The smoke
test and the integration test are clients of the same endpoint, which start and
stop the services themselves; `projectctl` starts the second of them.
Nothing is persisted; what a restart loses is connections.

Not modelled: logging formats (`logging_config.py`), contract validation
(`scripts/validate_contracts.py`, a sequential comparison of documents with
literals), CI, and what the documentation describes and no code does yet
(search, access control, indexing, connectors, the operator, grounding).

## Modules

**SystemStatus** is the status endpoint end to end. One slot of `Requests`
carries one request after another: `Arrive` is the handler up to
`httpClient.Do`; `ReuseLive` ... `Broken` the exchange as the transport and the
ML service run it; `Timeout` and `Cancelled` end it from the client's side; in
each case `EndCall` is the handler's classification of the error, `Outcome` the
checks of `ModelInfo` in the code's order, `Classify` `classifyDependencyError`,
and `WriteReply` the writing of the response. `Crash`, `Restart`, `IdleClose`,
`DropStale` and `SpareDial` happen to the ML service and the pool at any time.
The two history variables `fate` and `saw` record what the server did with the
current call and which states it was in. Both timers count down; `Tick` lets a
unit of time pass only while no one has a step to take that waits for nothing,
since computation is fast against timeouts of seconds. `Tick` leaves a timer at
zero to `Timeout`.

**StatusContract** is what one client slot is promised: a question is judged
within `Bound` ticks, answered, and healthy only if the service was up at some
moment of the question. It knows no connections, errors or write deadlines.
SystemStatus implements it, slot by slot, under the mapping `Contract(r)`.

**ServerLifecycle** is `run()`, the goroutine it starts, the buffered channel
between them (`server = "sent"`), and of net/http what decides when
`ListenAndServe` and `Shutdown` return: the check of `inShutdown` before
listening and before serving, the polls of `closeIdleConns`, the state of each
connection. A signal that comes twice is the same signal
(`signal.NotifyContext` keeps the context done).

**Blanks** and **RequestId** hold what `strings.TrimSpace` and `str.strip`
remove and the two normalisations of `X-Request-ID`, on sequences of character
classes.

**GoMiddleware** is the chain of `NewHandler`. The handler inside is any
handler. Each step of the chain that changes state is an action;
the response is what net/http commits (`sent`) and how many documents were
written. The access log line is written at level INFO: with `LOG_LEVEL` above
it there is none, and `line` stands for what it would say.

**Routes** is GoMiddleware with the handlers that `NewHandler` registers in the
place of any handler: each step is a step of GoMiddleware taken as the route
takes it, with the request (`question`), the ID header and the documents of the
response added. `Chain` is the order of the layers; a layer knows the request
ID if it is inside the one that sets it. The status route may say healthy or
degraded; SystemStatus explains which. A `HEAD` request counts as "other".

**ContainerStop** is ServerLifecycle in a container: `Stop` is the signal,
`Pass` lets the grace period run with the timers of the process, `Kill` ends it.
`compose.yaml` sets no `stop_grace_period`, so that it is Docker's 10 s. Since
ContainerStop extends ServerLifecycle, its two runs check the properties of both.

**AsgiMiddleware** is one `__call__` per slot, and uvicorn's handling of an exception
that leaves it. Every `await` is a state of its own, in which the task may be
cancelled and from which an exception may come: `app` and `body` inside the
application, `sending` at the `await send(message)` of `send_wrapper`, `error_sending`
and `error_body` in the error response. `SendStart` is `send_wrapper` up to
that `await`: flag and status are set, nothing is sent. `StartTaken` is the server
taking the message.

**RequestTrace** composes the two middlewares: `Forward` is the call of the
handler with the request's ID, as often as the transport sends it. What either
middleware promises on its own is checked in the composition.

**Startup** is how both services read their environments and find each other:
values are sequences of words; which words a parser accepts and what it reads
are parameters (`Atoi`, `ParseDuration`, ...), functions on the words it knows. A URL is
a text: scheme and authority in one word (`Origins`: what `url.Parse` reads in it and
how `String` writes it), then the characters and escapes of the path, then what
begins with `?` or `#`. `UrlOK` and `BaseUrl` are the parse and the checks, which
`urlValue` and `mlclient.New` have in common; `UrlValue` is the text `urlValue`
returns, its path decoded, trimmed and encoded again (`EscapedPath`), and `ClientBuilds`
and `NewClient` read that text once more. `Loads`/`Config` are `LoadFromLookup` with its
value functions, `MlLoads`/`Settings` are `Settings.from_env`, `ModelInfo` and
`ValidModelInfo` the two sides of the metadata. `Probe` is one status request on a
network without failures, which SystemStatus adds: an answer that is not 200 is
`unavailable`, a 200 is validated.

**ComposeSmoke** is `main()` of `verify_compose.py` as the one client of an API that
keeps StatusContract, so that its questions, judgements and seconds are those
of the contract. `at` is the next call of `main()`; every way out of the `try`
block (`Fail`) leads to `Down`. `Unanswered` is a request to a container that is
down: `URLError` becomes a failed attempt, a reset before the status line is
caught nowhere. Containers crash and restart (`MlTurns`, `ApiTurns`) until the ML
container is stopped.

**IntegrationHarness** is the test of `service_status_test.go`: `holder` says who
listens on each port, so that a wait may be answered by a process that is not
the one waited for. `Status` is what the search API may report: an ML service that
listens may still be too late for its 500 ms timeout and be called degraded.
`deferred` holds the registered `stop` calls, which `Fatal`
leads to. `ExitSeen` is the check of `ProcessState`, which nothing ever sets.

**ProjectCtl** is one command of `projectctl` on one machine (`World`: working
directory, files, environment, `GROUNDEDSEARCH_PYTHON`). `Stat` and `Executed` are
the two ways the operating system resolves a name: from the working directory
of the tool, and from the directory a child is started in. `Child` records the
file each step runs as Python and the environment it gets; for the integration
suite those of the process the suite starts: it looks for the checkout from its own
directory, with a weaker test (`SuiteRoot`), selects the interpreter (`SuitePython`)
and sets `PYTHONPATH` (`SuiteEnvironment`) itself. Even
`help` needs a checkout and an interpreter, as `run` looks for both first.

Definitions named `X_Something` and marked *Mutant* are plausible faults of the
code: replacing `X` by one must make a property fail, and none is
part of a specification.

## Runs

| Configuration | Instance | Shows |
|---|---|---|
| `StatusSafety` | 2 requests, ML timeout 1, write timeout 2, pool of 2, 4 answers | types, `HealthyIsEarned`, `DegradedHasCause`, `ResponseOutlivesCall`, `DegradedIsReported`, `KeepsSafeContract` |
| `StatusLiveness` | 1 request, ML timeout 2, write timeout 3, pool of 1, every answer | `EveryProbeEnds`, `OutageVisible`, `KeepsContract` under `Spec` |
| `StatusMisconfigured` | 1 request, both timeouts 2 | `DegradedIsReported` is violated (see below) |
| `LifecycleSized` | ContainerStop with 3 connections, shutdown 6, header 2, handlers 2, poll 1, grace 6 | types, `ServerFailureReported`, `NoSilentExit`, `SizedShutdownIsClean`, `SizedIsNotKilled` |
| `LifecycleHung` | ContainerStop with 2 connections, shutdown 2, grace 2, handlers that may never end | `CleanExitCutsNobody`, `KillIsLastResort`, and under `StopSpec` `StopsWhenTold`, `FailureStops` |
| `RequestTrace` | GoMiddleware with 2 requests and any handler, AsgiMiddleware with 1 call; IDs of at most 2, headers absent, good, padded two ways, too long | types, `SameIdEverywhere`, `AccessLogTruth`, `OneRecord`, `PanicAnswered`, `DistinctIds`, `LogTruth`, `SingleStart` |
| `Routes` | 2 requests, every path with `GET` and another method, IDs absent and padded | `OneDocument`, `ErrorsCarryId` |
| `Startup` | every environment with at most one variable set, each value plain, padded, blank; URLs with 16 kinds of path, query and fragment | types with positive timeouts, `AcceptedConfigBuilds`, `AddressedIsReady` |
| `ComposeSmoke` | waits of 4 and 3, API bound 2 | `PassIsEarned`, `LeftoversExplained`, `ScriptEnds` |
| `ComposeLeftovers` | the same | `PassRemovesEverything` is violated (see below) |
| `IntegrationHarness` | 3 ports, 2 further attempts | `PassIsEarned`, `NoProcessLeft`, `TestEnds` |
| `HarnessEarlyExit` | the same | `EarlyExitReported` is violated (see below) |
| `ProjectCtl` | every command; no, one or two nested checkouts or an incomplete one; up to 2 of 5 interpreters; `GROUNDEDSEARCH_PYTHON` unset, absolute, relative, bare | `PassedIsEarned`, `ImportsCheckout`, `SelectedIsRun` |

### Bounds

Two requests are enough for one to take, spoil or return the pooled connection
of the other, and no action involves three. A pool of two lets one request meet
a stale connection, retry and meet another. One tick of ML timeout already
orders every step before and after the timeout; the liveness run has two, so
that time passes within a call. Three connections let Shutdown see an idle, a
new and an active one at once; a header limit of 128 becomes 2, with values of
length 2 and 3 on either side of it. Slots of the middleware models carry one
request, since nothing but the fallback counter outlives one. `counter` grows
with the slots and needs no bound of its own. `MaxDocs` = 2 in Routes leaves room
for a second document, were a route to write one. The waits of the two test programs leave room for attempts
that fail, one that runs out and one that just succeeds; three ports are the
two services' own and one to spare. Symmetry is used for slots that
nothing tells apart and in safety runs only.

### Fairness

`SystemStatus!Fairness`: time passes (`SF` on `Tick`: steps that take no time
cannot follow each other for ever; strong, since they disable it), timers fire,
cancelled contexts end calls, errors come back from the transport, handlers
write their response: the Go runtime runs goroutines that can run. Nothing is
assumed of the ML service, the network, the pool or the client.
`ServerLifecycle!Fairness`: the goroutines of `main` and the server run, time
passes, connections end by their timers, handlers by theirs only if
`HandlersEnd`. `StopSpec` takes over that fairness, of a process left to itself:
liveness is asked of the behaviours in which the kill does not come, while
`KillIsLastResort` is an invariant of all of them. `ComposeSmoke!SmokeSpec` and
`IntegrationHarness!Spec` assume that the one sequential program keeps going. Its
requests are answered or fail, since they carry timeouts. That its docker commands
(`verify_compose.py`) and the `go build` of the integration test end is assumed without
one: `subprocess.run` and `exec.Command` set none there, and a command that hangs
holds up the script. Nothing is assumed of containers, processes or ports. No signal need come, no listener fail,
no client connect.

### What the runs found

`StatusMisconfigured`: the write deadline of a connection runs from the moment
the request header was read, the ML timeout from the call. `config.go` accepts
an ML timeout as long as the write timeout or longer. A dependency that times
out is then not reported as `degraded` (as `apps/search-api/README.md` has it):
the response is written too late and the client gets none. With the defaults
(2 s against 15 s) the report arrives; theorem `DegradedReported` says
that any ML timeout below the write timeout is enough.

`HarnessEarlyExit`: `waitForHTTP` means to report "process exited before
readiness", but asks `ProcessState`, which only `Cmd.Wait` sets and nobody calls.
A service that exits at once is polled for 30 s and reported as a timeout.

`ComposeLeftovers`: `deploy/docker-compose/README.md:23` says that the smoke test
"removes containers, networks, and temporary resources", and
`scripts/README.md:19-20` that it "removes the temporary Compose environment". It
runs `docker compose down` with `check=False` and does not read the exit status
(`scripts/verify_compose.py:257-271`): when that fails it reports PASSED, with exit
status 0 and the containers still there. `LeftoversExplained`, which the passing run
checks, excepts exactly this (`downFailed`).

Modelling also showed, without a statement of the repository to hold it to:
`recoveryMiddleware` appends its error document to a response that had already
started (`OneDocument` shows that no route gets there); a connection reset ends
the smoke test with a traceback where another attempt was due; a task cancelled
(or an exception raised) at the `await send(message)` of the ML service's middleware has
recorded its status before the server took it, so that the completion line says
200, say, of a request the server then answers with its own 500 (the exception in
`LogTruth`); `selectPython` of
projectctl accepts a relative or bare `GROUNDEDSEARCH_PYTHON` found in its own
working directory, which children started elsewhere resolve to another file or
none (the exception in `SelectedIsRun`); `LOG_LEVEL` is shared by the services, which accept different names;
an environment name that is no text keeps the ML service ready on `/readyz`
and failing on `/v1/model/info` (the exception in `AddressedIsReady`).
PROJECT.json lists these among the hazards.

## Proofs

Every invariant and every safety property of a passing run is a theorem, for
every value of the constants that satisfies the named assumptions; the runs show
that small instances satisfy them and reach the interesting cases. Each
inductive invariant was checked by TLC on the run of its module before it was proved.

| Module | About | Assumptions |
|---|---|---|
| `SystemStatusProofs` | SystemStatus, StatusContract | `TimeoutsPositive`, `PoolBound`, `AnswersKnown` |
| `LifecycleProofs` | ServerLifecycle, ContainerStop | `TimesAreTicks`, `HandlersKind`, `GraceIsTicks` |
| `RequestTraceProofs` | GoMiddleware, AsgiMiddleware, RequestTrace | `SentHeadersAreText`, `MaxLenPositive`, `StatusesAreCodes`, `MaxDocsPositive`, `AppStatusesAreCodes` |
| `RoutesProofs` | Routes | `RoutesSetStatuses`, those of GoMiddleware |
| `StartupProofs` | Startup | `OriginsAreRead`, `EnvironmentsAreTexts` |
| `ComposeSmokeProofs` | ComposeSmoke | `WaitsAreTicks` |
| `IntegrationHarnessProofs` | IntegrationHarness | `AttemptsPositive` |
| `ProjectCtlProofs` | ProjectCtl | `SuiteHoldsNoCheckout` |

What the assumptions ask is what the code does or its platform guarantees:
timeouts are positive, headers are text, handlers set final statuses
(`StatusesAreCodes`: `WriteHeader` panics below 100, and no handler sends an
informational response; an application status of 500 is the one error response,
kept apart from `AppStatuses`), routes set 200, 404 and 405, environments hold text,
scheme and authority mean the same after `URL.String` wrote them
(`OriginsAreRead`), and nobody keeps the search API of another checkout below this
one's `tests` (`SuiteHoldsNoCheckout`: the suite would find that one first).

**Status endpoint.** `TypeOK` is inductive on its own (`TypeCorrect`).
`HealthyJustified` and `DegradedJustified` speak of a handler that has settled on a
report, and say nothing of the call before; their invariant `StatusInv` adds
what leads there: `ServerBehind` (an exchange in progress has a running server),
`OpenCall` (a call sees every state of the service), `FateRecorded` (what the
server did is on record before the call can end because of it), and
`ResponseOutlivesCall`, which is a theorem of its own (`DeadlinesKeepDistance`).
`DegradedReported` follows under `MLTimeout < WriteTimeout`, since that margin
never shrinks. `ContractKept`: initial states and steps of SystemStatus map to
initial states and steps or stutters of StatusContract, for every slot
(`ContractStep`).

**Lifecycle.** `CleanExit`, `FailureReported` and `EndsWhenTold` (no success without
a signal) need where the listener is and what the server returned in each state
of `run()` (`Stages`, `Drained`); `SizedShutdown`: from the moment of the signal the
deadline stays above the longest wait left, the sum of what the connections and
the next poll still take (`OnTime`). `StopIsLifecycle` shows that the process in a
container is one of ServerLifecycle, so that these theorems hold of it.
`GraceInv` adds one relation: from the signal on the grace period is ahead of
the shutdown deadline by at least what it was at the start. `DeadlineComesFirst`
follows for any timeouts, hung handlers included; with the invariant of
`SizedShutdown` the deadline is not even reached, which is `SizedStop`.
The default configuration satisfies the assumption of `DegradedReported`, and
those of `SizedShutdown` and `SizedStop` too: 5 s header timeout, 2 s and a bit for the
slowest handler, polls half a second apart, 10 s for the shutdown.

**Middleware.** `NormalisationsAgree`: trimming an acceptable value changes nothing,
whatever counts as blank; from it `OneTrace`, with the invariant `TraceInv` that
IDs in use are acceptable and that a call made for a request finds that request
started. `GoInv` says for each stage of a request what the recorder, the response
and the log can hold (`AtWork`, `Recovered`, `Logged`): the recorder's status is what was
sent as soon as anything was, which gives `AccessLogTells`, `EachLeavesOneRecord` and
`PanicsAnswered`. `IdInv` bounds the IDs made up from the fallback counter by its
value, so that the next one is new: `GeneratedIdsDiffer`. `PyInv` says the same for
each `await` of the ML service's middleware: once a start message was made, `status_code`
is its status and no second one is made, since the flag is set before the `await`;
the connection carries nothing, that status, or at the end the server's own 500
(`PyWireInv`, `PyServerInv`). Hence `CompletionLineTells` and `OneStart`. Both
are proved for one slot at a time, since a step changes one slot only.

**Routes.** `RoutesInv` ties the document a route is about to write to the status
it set before; a layer that names the request is inside the one that gives it
its ID (`Layers`, from the order of `Chain`). Hence `EveryResponseOneDocument` and
`EveryErrorTraceable`. `RoutesAreHandlers` is the refinement Routes is built on:
every step is one of GoMiddleware or leaves its variables alone.

**Startup.** `StartInv`: what runs was started with an environment that passed the
checks, and holds the configuration read from it. What remains is about the
operators, for any environment and any text. Trimming leaves a text with no blank
in front (`TrimStarts`), and changes nothing of one without blanks (`TrimUnblanked`).
A trimmed path has no slash at its end and is not trimmed twice (`TrimPathShape`,
`TrimPathTwice`). An encoded path decodes to the path it was made of
(`EscapedReadsBack`), one that was kept as written too (`WrittenPathReadsBack`), and a
path that begins with a slash and holds no mark is found again between the
origin and the first mark (`PartsOfText`, `PathOfText`). Together: the text `urlValue`
returns passes the checks and names the same origin and path (`UrlReadsBack`), after
the client has trimmed it as well (`AcceptedBuilds`). That gives `ClientAlwaysBuilds`.
It needs the encoding: with the path written plainly, a decoded space, question mark
or slash changes what the second parse reads, which is the mutant
`EscapedPath_Plain`. `AddressedFindsReady` follows from it and from the metadata being
valid, since what Python strips includes all that Go trims (`InfoIsValid`).
`DefaultsMeet`: the defaults, written down once in Go and once in Python, fit each
other.

**Tools.** ComposeSmoke: where the script is tells what it has accepted and of
which stack (`Progress`). IntegrationHarness: from `start` on every process has its
`stop` deferred, and who holds a port runs (`Deferred`, `Listening`); with two
services on one port the report may be of the other one, which `PassMeansBothReports`
covers. ProjectCtl: what ran and what is planned are the command's steps
(`OnPlan`, also a theorem: `StepsInOrder`), and each child has the interpreter and
environment of its step; candidates are full paths, so that the directory a
child starts in makes no difference (`CandidateIsAbsolute`), and the suite is handed
the tool's own choice (`SuiteTakesSelected`) and finds the tool's own root, the longest
prefix of its directory with a `go.mod` in the right place (`SuiteFindsRoot`).

The proof of ComposeSmoke failed at first: in the model a script that had been
killed could still take an answer and go on. Answers now go to a script that is
asking (`Asks`), and the invariant is inductive.

Checked by TLC only, since the prover reaches neither fairness nor `ENABLED`:
`EveryProbeEnds`, `OutageVisible`, the fair half of `KeepsContract`, `StopsWhenTold`,
`FailureStops`, `ScriptEnds` and `TestEnds`. The violations
are counterexamples and need no proof. What `strings.TrimSpace` and the other
library functions do is a definition or a parameter here, not a theorem.

## Abstractions

- net/http and uvicorn are modelled from what the code relies on. Shutdown closes
  an idle connection atomically; the race of a request header arriving in the
  same instant is decided one way or the other by the order of steps.
- A dial may fail with a timeout of its own at any time (`DialTimeout`) and a
  dial no one waits for may join the pool (`SpareDial`): more than any
  one network does.
- Redirects are not followed by the model: the ML service sends none; those
  `ServeMux` answers to unclean paths are left out of Routes.
- Docker is modelled from how the compose file and the script use it: `up --wait`
  saw both containers healthy when it succeeds, a container stopped by hand is
  not restarted, and any of its commands may fail.
- The build of the search API in the integration test is one of the steps that
  may fail; its directory belongs to the testing package. The output buffers of
  the two processes, read while os/exec writes them, hold text only.
- The client is never nil: `main` always builds one. The `nil` context and logger
  checks of constructors are not modelled.
- The connection takes what a route writes: `writeJSON` returns when `Encode` fails,
  which happens to a client that has gone, and nobody reads the rest. That
  encoding a document of plain fields does not panic is assumed too (`RoutePanics`),
  so that no error document follows a response that has started.
- The build directory of `projectctl` (`main.go:154-159`) may fail to be made; its
  removal, whose error is ignored, is left out.
- A URL's user, query and fragment are told apart only as far as the checks do; its
  path has the escapes `%20`, `%3F` and `%2F` and a broken one.
- Texts are sequences of classes of characters or words.

## Plan

1. (done) SystemStatus with its contract, ServerLifecycle, the middlewares and
   their composition, Startup.
2. (done) Routes, ContainerStop, ComposeSmoke over StatusContract,
   IntegrationHarness, ProjectCtl.
3. (done) Proofs of every invariant and safety property.
4. ServerLifecycle over SystemStatus: the shutdown sizing with the handler's
   duration derived from the ML timeout.
5. For the liveness properties, the quantities that only go down on the way,
   as lemmas beside what TLC checks.
