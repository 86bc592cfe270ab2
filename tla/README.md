# Verification of bc-dev-mcp

TLA+ models of bc-dev-mcp (an MCP server that debugs, tests and profiles Business Central, and the
scheduled capture jobs around it), the TLC runs that check them, and TLAPS proofs of the properties that
matter most. Paths below are those of the repository (`src/mcp/state.ts`), whose root is the directory
`src/` here.

## 1. The system

One Node/Bun process serves MCP tool calls over stdio. It is single threaded, but tool calls, hub
callbacks, timers and child processes interleave at every `await`; in the models **one action is the
code between two awaits**. Its counterpart is a Business Central (BC) server: SignalR hubs for
debugging and tests, a snapshot-debugger HTTP endpoint, a development HTTP endpoint, an MCP endpoint.
Separate scripts run on a schedule: the orchestrator daemon, the capture-and-ship cycle and the
capture-queue worker, which also talk to al-perf (an ingest endpoint and a request queue behind a CLI).

| Component | Source | State | Operations | Talks to |
|---|---|---|---|---|
| Debug session | `mcp/state.ts` `DebugSession`, `mcp/tools/debug-tools.ts` | queue, waiter, droppedEvents, paused, bound, executionRevision, lastTestRun | push, wait, continue (beginResume, rollbackResume), run_tests, detach | hub callbacks; native identity lookup |
| Debugger connection | `core/hubs/debugger-hub.ts`, `signalr-base.ts` | hub, flags of the attach and of its bind | connect, callbacks, configureBoundSession, failUserAttach, stop | debugger hub |
| Debugger slot | `mcp/state.ts` `ServerState`, `debug-tools.ts`, `record-write-tools.ts`, `test-order-tool.ts` | debugSlot, debug, recordWrites (+ token, static writers) | attach/detach, record_writes start/finish, order mode | debugger connection |
| Record-write collector | `core/record-write-triage.ts` | phase, truncation and evidence flags, event chain, generation, hub | start, Break/Detached/bind handlers, re-arm, finish | debugger connections, one per generation |
| Record-write statement reader | `core/record-write-triage.ts` `classify` and the functions it reads source with | source per object, once per capture | name the record a break is about | the collector's hub (source, watches) |
| Capture slot | `mcp/state.ts`, `profile-tools.ts`, `snapshot-tools.ts`, `snapshot-client.ts` | capture, its phase, orphan context, testRunActive | profile and snapshot start/poll/status/finish, snapshot run_tests | snapshot endpoint |
| Test runner | `core/hubs/test-runner-hub.ts`, `mcp/tools/test-tools.ts` | plan index, results, coverage per group, test-run lock | run_tests, orchestrate (repeat) | test-runner hub |
| Test orchestration | `core/test-order-*.ts`, `core/test-orchestration.ts`, `test-order-tool.ts` | plans, results seen, verdicts, probe budget | order mode (alone, reversed, shuffled, bisection, capture), repeat mode | test runner, debugger slot |
| Test selection and coverage | `core/git-changes.ts`, `test-selection.ts`, `coverage-*.ts`, `cobertura.ts`, `risk.ts` | a coverage map kept between calls | select, classify a diff after a run | git, files, call graph |
| Call graphs and tool binaries | `core/call-graph.ts`, `core/tool-binary.ts` | cached builds, memo of a resolution, a cache directory processes share | get a graph, resolve al-sem | child processes, downloads |
| Authorization | `core/authorization.ts` | one token and one running `az` per tenant | getAuthorizationHeader | Azure CLI |
| Native MCP bridge | `core/native-mcp.ts`, `native-mcp-tools.ts` | upstream session of each call | list, call | BC's MCP endpoint |
| Server info, test gate | `core/server-info.ts`, `mcp/tools/shared.ts` | cached verdict with its expiry | requireTestRunningSupport | development endpoint |
| HTTP/1.0 transport | `core/http10.ts` | one request's socket, stream and abort listener | get, fetch | BC's development and MCP endpoints; the app list and native calls use it |
| App lifecycle | `core/app-lifecycle.ts`, `app-tools.ts` | none across calls | list, publish, uninstall, unpublish | development endpoint |
| Package and symbol downloads | `core/package-download.ts`, `symbols-download.ts` | `.alpackages`, turns per destination | download one, download the closure | development endpoint, NuGet feed |
| Orchestrator daemon | `core/orchestrate/scheduler.ts`, `scripts/orchestrate.ts` | per-job next occurrence, retry chain, one timer | tick, start/finish attempt, skip, stop | child processes, clock |
| Capture-and-ship cycle | `core/ship/capture-cycle.ts`, `ingest-client.ts` | stage, files on disk, upload attempts | preflight, arm, poll, finish, convert, ship | snapshot endpoint, converter, al-perf |
| Capture-queue worker | `core/queue/*.ts`, `scripts/work-capture-queue.ts` | listed rows, claims won, workload driver, report | list, claim, run cycle, cancel, exit | al-perf CLI, cycle |

**What is hard.** Callbacks that overtake the code awaiting an invocation; two tool calls that share
one slot across awaits; a detach while its attach awaits; requests that are refused, unanswered, or
taken by the server after the client gave up; a POST that was applied although its call failed; a
re-attach racing `finish()`; a settle-once run driven by callbacks of several groups; a file that two
processes rename at once, one of which may die; a conclusion ("this test pollutes that one", "no test
reaches this change") drawn from runs and graphs that may be incomplete or older than the code; a response cut short at any
byte, read by a slow reader; a timer
that must cover every job's next wake through overlaps, retries and clock jumps; claims that must be
settled although the cycle between claim and release can fail anywhere. `PROJECT.json` lists each such
hazard at its line with the properties that cover it.

## 2. Modules

| Module | Models | Composition |
|---|---|---|
| `DebugSession` | one session: event queue, waits, overlapping resumes, background test run | the hub is a FIFO `wire` of callbacks and completions |
| `DebugSlot` | `ServerState`'s debugger slot over any number of calls | abstracts a connection to "a link is open" |
| `DebuggerAttach` | one debugger connection from `connect()` to `stop()` | a `wire` as above; the asynchronous bind and the refusal teardown interleave with it |
| `RecordWriteTriage` | the collector: handler chain, re-arm, `finish()` | its own `wire` and invocations per generation |
| `WriteStatement` | how a break's record is read from AL source | runs over programs built by AL's statement rules |
| `CaptureSlot` | profile and snapshot captures, with the test-run lock | snapshot endpoint with late answers |
| `TestPlan`, `TestRun` | what the test tools promise; how hub callbacks implement it | `TestRun` refines `TestPlan` |
| `Authorization`, `NativeMcp`, `TestGate` | token and its acquisition; a native call with its one deadline; the way of a test tool to its run | each EXTENDS the one before; a native call and a gate compete for the test-run lock and share a tenant's token |
| `Http10` | both HTTP/1.0 clients over one socket: segments, limits, truncation, backpressure, abort | the callers' signal and the stream's reader are its environment |
| `AppLifecycle` | the four app tools over a tenant that other calls change | BC's semantics of the actions are its environment |
| `PackageDownload`, `SymbolsDownload` | install by temporary file, rename and backup; the worklist over it | the second EXTENDS the first and runs beside other downloads and processes |
| `TestWorld`, `TestOrder`, `TestRepeat` | how tests may depend on each other; order mode; repeat mode | `TestOrder` runs its plans in a `TestWorld` it cannot see |
| `ToolBinary`, `CallGraphs` | al-sem found, downloaded, verified; engines, fallback and cached builds | several server processes share one cache directory |
| `AlSource`, `TestSelection`, `CoverageGaps`, `TestImpact` | diff, preprocessor and routine spans; graph, reachability and selection; gaps, map and reports; the two tools over a tree that is edited | algorithms as operators, composed by the last one |
| `Scheduler` | the daemon | children and clock as environment |
| `CaptureCycle`, `QueueWorker` | the cycle and its upload; worker invocations | the cycle of invocation *w* for request *r* is `<<w, r>>` |
| `TestTools` | order and repeat modes and the call graphs, side by side | EXTENDS `TestRepeat` and `CallGraphs` |
| `TestRun_proofs` | theorems about `TestRun` and its refinement of `TestPlan` | EXTENDS `TestRun` |
| `Recordings_proofs` | theorems about `CaptureSlot` and `RecordWriteTriage` | EXTENDS both, as `MCRecordings` runs them side by side |
| `TestImpact_proofs` | theorems about `TestImpact` (with `AlSource`, `TestSelection` and `CoverageGaps`) | EXTENDS `TestImpact` |
| `Orchestration_proofs` | theorems about `Scheduler` and about `QueueWorker` with `CaptureCycle` | EXTENDS both, as `MCOrchestration` runs them side by side |
| `TestTools_proofs` | theorems about `CallGraphs` (with `ToolBinary`), `TestOrder` (with `TestWorld`), `TestRepeat` and the two modes' steps | EXTENDS `TestTools`, whose specification the run `TestTools` checks |
| `Debugging_proofs` | theorems about `DebugSession` and `DebugSlot` | EXTENDS both, as `MCDebug` runs them side by side |
| `Apps_proofs` | theorems about `AppLifecycle`, the files of `PackageDownload` and the worklist of `SymbolsDownload` | EXTENDS both, as `MCApps` runs them side by side |
| `Connections_proofs` | theorems about `DebuggerAttach`, `TestGate` (with `NativeMcp` and `Authorization`) and `Http10` | EXTENDS the three, part by part as `MCConnections` runs them |
| `MC*` | finite constants, symmetry and the composition TLC checks | below |

How state corresponds to code: variables carry the names of the fields they model (`queue`,
`droppedEvents`, `executionRevision`, `debugSlot`, `recordWriteSlotToken`, `pendingRetryAt`, ...).
Locals of an async function become the record of the call (`resume[c]`, `pc[c]`, `cycle[c]`, `call[c]`).
Objects are named by the call that created them, because each start call creates at most one. *Ghost*
variables never influence a step and are marked where they are declared: `pushed`/`received` count
events, `blind` and `disowned` mark the situations in which `DebugSession` loses track of a pause
(section 6), `early` the sessions ended before their start returned, `fault` an error of server or
connection, `told` the contexts an agent was told, `lost` the rows a run failed to report, `unsettled`
the cancels the CLI failed to do.

Abstractions worth knowing: payloads (stack frames, variables, rows, archives, manifests) are left
out or reduced to the flag a decision depends on; a line of AL is one token of its kind (in
`WriteStatement` a word is); the bytes of a response are counted in units and its headers reduced to the
verdict on them, and `RecordWriteTriage` knows of a classification only whether it was exact; wall-clock time
exists only where a decision reads it (`Scheduler` in minutes relative to now, `Authorization` to
`TestGate` in units of the refresh window, `ToolBinary` in units of the failure memo); a timeout
elsewhere is an action that may happen whenever the wait is pending; an HTTP request given up by its
client stays "under way" and may still be taken by the server.

**Side by side.** An `MC` module puts components that share no state into one state space: a variable
`part` says which component a behaviour is of, every step of that component leaves the others' variables
unchanged, and the others keep *one* initial state. The reachable states are the disjoint union of those
of the components, so a verdict is exactly that of checking each alone. Components that do share state
are composed for real, by EXTENDS: worker and cycle, worklist and downloads, native calls, gate and
token, call graphs and binaries, selection, map and run.

## 3. Runs

Every run is exhaustive within its bounds. `CHECK_DEADLOCK FALSE` is set because in each of them a
component may really stop (a session that ended, calls that are over, a stopped daemon).

| Run | Bounds | Shows |
|---|---|---|
| `Debugging` | session: 2 overlapping continues, queue capacity 2, any two of 2 breaks, a failure of the server's debugger and a test run (`FewEvents`), with or without a user filter; slot: 2 attaches, 2 recordings, 1 order-mode call (symmetric) | `QueueSafety`: no event lost uncounted, an overflow discards the oldest, no waiter beside a queued event. `PauseAgrees`: what the session believes about the pause is true, both ways, except for the cases in which the code loses track (section 6). `AnswersInOrder`. `SlotHeldByItsUser`, `SlotEndsClean`: the slot is held by exactly the session that needs it, no debugger without owner, static writers are those of the running recording |
| `Connections` | next, user-filtered and exact attaches, 3 callbacks; 2 groups, a call of 2 attempts and one of 1; a runtime and a business call beside a test tool, 2 ticks; one HTTP/1.0 request, bodies of 0 to 3 units, 0 or 1 interim heads, a `Content-Length` absent, wrong or right, limits inside those sizes | `AttachSafe`, `QuietOnceGivenUp`: no connection left open by whoever gave the hub up, one `sessionBound`, a given-up client is quiet. `RunsPlan`: `TestRun` refines `TestPlan`; `RunSafe`: coverage called complete is. `NothingStale`, `NothingLeftBehind`: no expired header is used, lock, session and a run that may still go on are accounted for. `HttpHonest`: no truncated body is a success, no connection outlives its request, backpressure stalls nobody. `ConnectionsSettle` |
| `Recordings` | 1 profile, 2 snapshots; collector with cap 2, 1 re-arm, 2 attach attempts, 2 writes; every nesting of two AL statements, of three around a `with`, and two one-level statements side by side in a third | `PhaseHonest`: phases have their owner, the test lock is exact, a capture BC holds can be finished. `CompleteIsExact`, `HandledSafely`. `NoAttachAfterFinish`: after `finish()` no re-attach begins; one already in flight, at its authorization or its attach, may still connect, and only while `finish()` waits for it. `WriterNamed`: the record a break names is the one AL binds the write to, except for the calls of the finding below. `RecordingsProceed` |
| `Apps` | 2 calls, 2 versions of an app and a dependent of it, 2 list pages; a cyclic graph with the Application concept, 2 builds of a package, one crash | `AppsHonest`: the cascade is reported exactly, no blind retry. `SymbolsHonest`: an answer covers the closure. `FilesKept`: no package file is lost, answers say what was done. `AppCallsEnd` |
| `TestTools` | 4 methods of 2 codeunits, 6 ways they depend on each other, 4 probes, 3 repeats; 2 calls in a process beside another process, 5 machines, one kill | `BlameSound`, `NoVictimMissed`: a named polluter does fail the victim, a complete order missed none. `RepeatHonest`. `GraphSafe`: the shared binary is used whole, a graph is as new as its call. `StepsSound`, `CallsEnd` |
| `TestImpact` | 9 routines of 3 files, an overload of a test among them; every cut, rewrite or addition of one line, routine or file, a file emptied or deleted; 4 programs, one in which a test and the overload are called by the other test; one edit (a statement rewritten or a file deleted, `Racing`) between any two reads of a selection | `SelectionSound`: if its reads saw one tree, no test that is shown to reach a change is dropped, but for changed routines that bear a test's name (`NoShownTestDropped`, section 6; `LocatedTestsKept` is the graph's half of it), and the plan's shards are the selection. `UncoverableProved`. `CoverageTruthful`: "covered", "uncovered" (`StatusTruthful`), the counts (`ReportExact`) and "complete" (`GateClassifies`) are true of what ran |
| `Orchestration` | 2 invocations, 2 requests, 1 poll, 2 upload tries, one run may be killed and drives a workload; 2 jobs (period 2 with jitter and 2 retries; period 4, beyond the timer limit, and no timeout), lag up to 2 | `ShipsExactly`: recordings neither lost nor stored twice. `RunTruthful`: every claim is settled, "succeeded" means shipped, the workload is driven within its cycle. `NoOverlap`, `TimerCovers`, `SlotsServedInTurn`. `RunsProceed`: but for a job without a timeout whose child never ends |
| `EarlyDetach` (violation) | as `Debugging`, no symmetry | a detach during the attach leaves a debugger nobody can reach |
| `OrderHalt` (violation) | as `TestTools` | order mode starts a run after one that may still be active |
| `GateChanges` (violation) | as `TestImpact` | a gate calls itself complete over a deleted routine |
| `SymbolsDuplicate` (violation) | as `Apps`, 3 packages | one package is answered, and fetched, twice |
| `QueueWiring` (violation) | as `Orchestration`, wired as the entry script does | a claim is cancelled without its cycle having asked BC anything |

*Why the bounds are enough.* They let the interesting case happen with one to spare: a queue of 2 is
overflowed by 2 breaks, a bind, a run and a fatal; two resumes overlap, a third would only repeat one
of them; two calls of each kind reach every "mine, other's, nobody's" relation of a slot; any two of break,
failure and run in either order, because what a third would meet is what one of them left; one re-arm
gives two generations, so that an outcome of an older one meets a newer one; two groups and two
attempts give "first, last" and "previous, current"; two lifetimes beside a refresh window of one give a
token that is fresh, close to its end and expired; two list pages end in a full one and in a short one;
two servers and one crash leave every half-done rename to another process; the worlds of `TestTools`
hold a polluter by data, by session state, two that only pollute together, a brittle and a flaky test,
and a budget of four probes ends some bisections and not others; an edit of one line reaches every
border of the span computation, and two edits of different files their combination; the
second job's wait exceeds `MaxDelay`, so that the timer is clamped; a lag of 2 skips a whole slot of the
short job; two tries give a lost answer and its retry. `MaxTries` is 4 in the code, `QUEUE_CAP` 100,
`MAX_TIMER_DELAY_MS` 2^31-1: all three are parameters of the modules, and the proofs cover every value.

Each property of a passing run has in `PROJECT.json` a mutated definition (a dropped guard, a missing
reset, an off-by-one) under which TLC finds it violated; operators kept for that are commented "gone
wrong".

What `TestImpact` takes for granted: a selection is asked for before the edit is published, the coverage
map it reads was recorded before the edit, and the caller asserts deployment exactly when the tree is
deployed. The tools document these as their callers' part. The reads of a tool are steps of their own: a run
reads the diff, the declarations and the report's files one after the other before it starts (`Prepare`), a
selection the tests, the diff, the text, the graph and the digest (`Select`, `ReadOn`, `Answer`), and the tree
may be edited between any two. What a selection claims it claims if its reads saw one tree (`Coherent`); an
answer mixed from two is about neither, and there only the types and the plan's shards are asserted. A run's
statuses and counts are claimed whatever it read, its "complete" if diff and declarations are of one tree.

Branches that only the proofs reach: `MaxEntries` is 4 and no run has five builds, so an eviction from the
cache of call graphs happens in `GraphsSafe` alone; the runs keep no artifacts (`KeepArtifacts` is empty).

## 4. Fairness

Safety needs none. Liveness assumes only what the code's scheduling gives:

- *Event loop*: ready continuations and received messages are run: weak fairness on the client's own
  steps. No user call, callback, drop, bind, detach, edit or crash is ever owed.
- *Hub servers* answer each invocation or the connection drops (`DebuggerAttach`, `RecordWriteTriage`):
  the code has no client-side timeout there, so `ConnectionsSettle` and `RecordingsProceed` depend on it.
  In `TestRun` the call's `Step` includes the server's progress on its own run.
- *Requests with a time limit* need no answer: `snapshot-client.ts`, `withRequestTimeout`, `bcRequest`
  and `downloadPackage` give them up, so the step that ends the wait is fair whatever the server does.
- *Authorization headers* are awaited without a time limit (`debugger-hub.ts:223`, `package-download.ts:503`):
  a header that is configured is at hand, and `az` is taken to exit (`authorization.ts:46`), an assumption of
  `RecordingsProceed` and `AppCallsEnd`.
- *HTTP/1.0*: every caller's signal carries a deadline, so it aborts in the end; the server owes nothing.
- *Native calls*: the clock advances. Strong fairness on `Tick`, because each tick is held back while a
  timer that is due has not fired; the deadline then ends the call, with BC silent.
- *Children that are bounded*: a version probe, a download and an engine are killed after their time
  limit, so a resolution and a build end (`CallGraphs`).
- *Children of the daemon*: the entry script kills a child that exceeds its job's `timeoutMinutes`. But 0 is
  accepted and means no timeout (`config.ts:173`, `orchestrate.ts:92`, `docs/orchestrator-recipe.md`), so
  `ChildExits` is fair only for jobs outside `Untimed`, and `RunsProceed` promises nothing of an untimed job
  whose child never ends: it keeps its slot for ever, and only it.
- *Worker*: the process runs, the al-perf CLI and the converter exit, and the upload's `fetch` fails
  in the end. The last is an assumption about the operating system: `shipIngest` sets no timeout.

## 5. Proofs

`TLAPS` proves, for every value of the constants allowed by each module's named assumption:

| Theorem | Statement | Argument |
|---|---|---|
| `Debugging_proofs!TypeCorrect` | `Spec => []TypeOK` | `TypeOK` is split into `SessionTyped` (what `push` touches) and `RestTyped`; `EnqueueTyped` and `PushTyped` say what a push does to a typed session whatever the event |
| `Debugging_proofs!QueueSafe` | `Spec => []QueueSafety` | inductive with `TypeOK`: `PushQueue` shows that enqueueing keeps "queue = newest events in order" on both sides of the cap, `WaitQueue` that answering the head does |
| `Debugging_proofs!AnswersOrdered` | `Spec => AnswersInOrder` | from `QueueSafety`: the head's number exceeds the last answer's |
| `Debugging_proofs!PauseTrusted` | `Spec => []PauseAgrees` | inductive invariant `PauseInv` = `WireInv` (an invocation is answered once, nothing follows a detach), `RevisionInv` (of the resumes in progress only the latest can be rolled back), `KnownInv` (a pause the session does not show, a resume in progress will give back, unless it was `disowned`) and, while `blind = {}`, `SightedInv` (the session is never ahead of the workload, or a fatal that says so is on the wire). Not inductive without the order on the wire: a `Break` that overtook an acceptance would let the acceptance clear the new pause |
| `Debugging_proofs!SlotTypeCorrect`, `SlotOwned` | `SlotSpec => []SlotTypeOK`, `[]SlotHeldByItsUser` for any number of calls | inductive invariant `SlotInv` = types, `SlotCoversState` and, for every call, `CallInv`: whoever is starting holds the slot or was ended, a call is published at most once, an ending call is not published. `SlotCoversState` alone is not inductive: a release by a call that lost the slot must be known to be somebody else's |
| `Debugging_proofs!NothingLeft` | `SlotSpec => []SlotEndsClean` for any number of calls | inductive invariant `CleanInv` = `SlotInv`, `SeedOfRecording` and, for every call, `LinkInv`: a call not ended before its start call returned is connected only while that call runs, or after it until its end is over. The exception (`early`) is the finding of `EarlyDetach`; `SlotInv` is needed to know that the call that sets the seed is the running recording's |
| `Recordings_proofs!TypeCorrect`, `SlotHonest` | types, `[]PhaseHonest` for any profiles and snapshots | inductive invariant `CaptureInv` = types, `LockInv` and, for every capture, `StartInv` (how far its start call is against slot, tenant and what the agent was told) and `UseInv` (its finish, status and test calls against its phase). Phase ownership alone is not inductive: a finish that returns must know that no other call of the same capture is in progress |
| `Recordings_proofs!HandledForAReason` | `TriageSpec => []HandledSafely` | `PausedWhileHandled` from `CountInv` (every break is counted once, and its handler has the pause), `FailsForAReason` from `FaultInv`: with its part `CalmInv` (without a fault, and short of the cap, no invocation is refused) it is preserved only together with the rest of `TriageInv` (theorem `TriageInvariance`) |
| `Recordings_proofs!CompleteTrusted` | `TriageSpec => []CompleteIsExact` for any cap, re-arms, attempts and writes | `TriageInv`, of which it needs every conjunct. "Complete" is decided from four flags long after the writes it is about, so the invariant carries each write across: `WatchedInv` says that, while no evidence is lost, every write due by now is counted but for one whose break is on the wire or queued *before* whatever could end the capture; that is preserved because of the order of breaks, detaches and answers (`BreakInv`), because nothing is observed between a stray and its re-attach (`RearmInv`), and because `finish()` and the handler do not both release without a fault (`CallInv`, `CalmInv`). `Sent` and `Nothing` reduce what is said of a wire's order to one append |
| `Recordings_proofs!NeverAttachesLate` | `TriageSpec => NoAttachAfterFinish` | `Reattach` and `Connect` find what `finishing` says of their generation, and `TriageInv` gives the rest: by `RearmInv` a re-attach that is in flight is awaited by `finish()`, by its part about `finish()` (`EndInv`) nothing is in flight when the report returns |
| `TestRun_proofs!TypeCorrect`, `RunsTrusted` | types, `[]RunSafe` for any calls, groups and attempts | inductive invariant `RunInv`: types, one active call holds the lock, and for every call `CallInv`: while it runs, the groups before the current one have been judged (`GroupInv`) and the rows of the current one are received, or on the connection in the order in which the server sent them (`Unserved`, `Served`); when it is over, every group has (`Whole`) |
| `TestRun_proofs!ImplementsPlan` | `RunSpec => RunsPlan` (`TestPlan`'s safety specification) | initial states map to initial states; each action of `TestRun`, under `RunInv`, is a named step of `TestPlan` or leaves its variables alone |
| `Orchestration_proofs!TypeCorrect`, `NeverOverlaps`, `NeverSleepsIn` | types, `[]NoOverlap`, `[]TimerCovers` for any jobs, periods, jitter and retry policies | inductive invariant `SchedulerInv`: types, each job's chain state, and the timer armed for the least wake; one lemma per handler (`FinishAttemptOK`, `StartAttemptOK`, `ServedOK`, `RearmCovers`), one step per action |
| `Orchestration_proofs!CapturesShipped` | `WorkerSpec => []ShipsExactly` for any invocations, requests, polls and upload tries, with the entry script wired or not | inductive invariant `ShipInv`: records typed, an outcome only on a cycle that is over, whatever is stored keyed by the activityId it came from, every recording on disk or stored. `OneCycle` reduces a step to the one record it replaces; one step per action. `StoredOnce` alone is not inductive: that the key is the activityId (`StoredByKey`) is what makes a late or repeated upload harmless |
| `Orchestration_proofs!WorkerTypeCorrect`, `WorkerTruthful` | types, `[]RunTruthful` | inductive invariant `WorkerInv`: `CyclesInv` (what each stage of a cycle may have on disk and told), for every pair `ClaimInv` (a row somebody holds is being worked, cancelled, reported or lost with its process) and for every invocation `InvocationInv` (it is at exactly the row it is working on, its count of attempts is that of its claims, exit code 0 has no error to report) |
| `Connections_proofs!AttachTrusted`, `GivenUpIsQuiet` | `AttachSpec => []AttachSafe`, `AttachSpec => QuietOnceGivenUp` for any selectors and callbacks | inductive invariant `AttachInv`: `LinkInv` (a connection belongs to the hub or to whoever is closing it, never to both), `AnswersInv` (an invocation is answered once, while pending), `BindInv` (configured before its identity is looked up, reported last) |
| `Connections_proofs!NothingGoesStale`, `EverythingAccountedFor` | `Spec => []NothingStale`, `[]NothingLeftBehind` for any callers, tenants, calls, gates, lifetimes and TTL | inductive invariant `GateInv`: types, `HeadersInv`, `NobodyForgotten` (a caller waiting for `az` is served by an `az` that runs), for every call `Upstream` and `Told` (what it knows of its session and run, against what the server has), `DeadlineInv`, `LockInv`, `VerdictInv` (the cached verdict's age against its time to live) |
| `Connections_proofs!HttpTrusted` | `HttpSpec => []HttpHonest` for any set of responses and limits | inductive invariant `HttpInv`: `Held` (the abort listener lives exactly as long as the socket), `Flowing` (the socket is paused exactly while the stream's one chunk waits), `Owned` (who has which part of the body, by the promise's outcome), `Streamed` (what was passed on is all that came, and a closed stream is whole). `NoneQueued` and `OneQueued` unfold the fold over the stream's queue as far as the high-water mark |
| `Apps_proofs!AppsTrusted` | `AppSpec => []AppsHonest` for any tenant, requests and calls | inductive invariant `AppInv`: types and, for every call, `Sound`: how far it is (`Staged`), what its listing has read so far and what is still to come (`Reads`), that the listing before an uninstall is the tenant up to the effect of the POST and to what others touched (`Compares`), and what it told (`Reported`, `Blameless`). `Reads` carries the claim across pages while other calls change the tenant; one lemma per action, `LocalKept` for the calls that do not move |
| `Apps_proofs!FilesTrusted` | `Spec => FilesKept` (two action properties) for any downloads, servers, packages and crashes | inductive invariant `DiskInv`: `DiskTyped`, `TurnsInv` (the queue of a destination holds exactly the downloads that install there, and whoever moves files is its head), `PlaceInv` (while a backup is being dropped, the package is at its place, in hand or beside it) and `FoundInv` (without another server's write, the destination is as the download found or left it). `FoundInv` needs `TurnsInv`: a `Put` by another download of the same server would have two heads of one queue. `TurnsJoin`, `TurnsLeave`, `TurnsStay` and `TurnsCrash` say what a step does to the queues, `MoveOK` what is left to show of any single step |
| `Apps_proofs!SymbolsTrusted` | `Spec => []SymbolsHonest` for any app.json, dependency graph, cap, packages, servers and crashes | inductive invariant `DiskInv` and `SymInv`: `SoundList` (`Books`: a key stands for itself or for the Application's concept, and who stands for himself waits once in the queue, is in hand, or has a row that answers its minimum; `Closed`: what the roots and every package read so far ask for is `Held`, by a minimum still to be fetched or by a row), `WantedInv` (a download installs what was wanted of it) and `FetchInv` (the worklist's download is the one of the key in hand). `ClosureAnswered` is not inductive: before the queue is empty nothing is answered, only held. `EnqueueAllOK` carries `Held` along a list of references by `Induction`, `Grows` says what an enqueue leaves alone |
| `TestTools_proofs!GraphsSafe` | `GraphSpec => []GraphSafe` for any machines, processes, calls, cache bound and edits | inductive invariant `GraphTyping` and `GInv`: `ProcessSound` (whoever resolved to the cached binary can rely on the file, a resolution under way is younger than the memo), `BuildsSound` (what each stage of a build has run, from which version, keyed by a version no newer), `CallsSound` (the build a call waits for is keyed no older than the call, and what it was answered is that build's result), `EntriesSound` (an entry is a build of this process that has not failed, one per key) and `NoneEvicted` (while no more than `MaxEntries` builds were begun, every running build is in the cache). `BuildShared` alone is not inductive: a second build of a key is begun exactly when the first is not among the entries |
| `TestTools_proofs!BlameTrusted`, `NoVictimMissedEver` | `Spec => []BlameSound`, `[]NoVictimMissed` for any methods, dependencies between them, requests, seeds, probe budgets and faults | inductive invariant `OInv`. `Ground`: every plan run or to be run keeps declaration order within a codeunit and has exactly the selection's methods, and its rows tell how steady methods fare after what ran before them. `Bisects`: the suspects of a victim stood before it, a steady victim passes without them, fails after them once that was confirmed, passed after the first half while the second is tried, and, if one polluter fails it, has all its polluters among them. `Waiting`, `Closed`: every od-victim waits or has a verdict. `Full`: while no run was halted or lost a row, no row is missing, and a method that was not run alone yet still waits. Neither property is inductive: that a half which failed holds a polluter needs what was known of the whole, and that a victim with one polluter is never "compound" needs that polluter to have been a suspect from the first failing run on. `InOrderOK` and `PlansOrderly` show of the plans what the analysis takes for granted, `CandidatesOK` that no polluter is dropped from the candidates, `TakeProbeOK` and `TakeRunOK` what one answer does |
| `TestTools_proofs!RepeatsHonest` | `Spec => []RepeatHonest` for any tests, worlds and number of repeats | inductive invariant `RepeatTyping` and `Quiet` (only the mode that was asked for moves, and a run that may still be active has halted it); `OutcomeRests` and `DiffsAddUp` then follow from the definitions of what is told, status by status |
| `TestTools_proofs!StepsStaySound` | `ToolsSpec => StepsSound` (two action properties) | `RunsStop` step by step, each way to start a run being guarded by the halt before it; `NothingStale` from `GraphTyping`, `GInv`: an entry has not failed, and a remembered failure's age is compared where the build takes it up |
| `TestImpact_proofs!ImpactTypes`, `UncoverableTrusted`, `ChangedTestsKept`, `CoverageTrusted` | `Spec => []TypeOK`, `[]UncoverableProved`, `[]LocatedTestsKept`, `[](StatusTruthful /\ ReportExact)` for any AL project, edits, calls, coverage map and runs | inductive invariant `ImpactInv`: types, a run under way remembers the trees it has read and the code it runs (`RunOK`), a map knows procedures alone (`MapOK`), and what was answered is true (`GapsOK`, `ReportOK`, and of a selection whose four reads saw one tree `PickOK`). Its steps rest on three arguments. *Discovery*: `SpanHolds`, the span of a declaration holds no other declaration, so a line in it is the routine's own, and with it the risk that is looked up there (`DiscoverySound`, `RiskIsItsOwn`). *Reachability*: `ReachOK`, what `Reach` computes in as many rounds as there are nodes is the least set that is closed under the steps, because each round that is not the last adds a node; hence the callers' cone is closed (`ConeOK`), the engine's graph has a way for every call it shows (`AlSemShows`, `AltoolShows`), and a test outside the cone runs only what is outside it (`OutOfReach`). *Evidence*: what the tests of a finished run left is what they ran (`ReachedBy`, `StatusSound`, `RowsExact`) |

What the proofs changed in the models: `Http10`'s `OnHeaders` was a `CASE` with overlapping guards, right
only in the order in which TLC tries them, and is now the chain of tests the code has; a download gives its
turn up with `Tail` where it filtered its queue, because only the head ever ends, which `TurnsInv` proves;
`AppAssumption` and `PackageAssumption` name what their proofs need (there is a request, a package and a
build, the tenant has installed only what it has published); `Reattach` of
`RecordWriteTriage` waits until the attach of an earlier generation, whose connection the stray stopped,
has been rejected: otherwise two attaches would read one answer; `IdentityOnlyWhilePaused` now says all that
`SightedInv` gives; `CallGraphs` finds and removes a cache entry by its place (`Places`) where it filtered
the list, `BuildShared` says when exactly a key may be built twice (after an eviction), and
`GraphAssumption` and `BinaryAssumption` name what the proofs need; a bisection answers "inconclusive" for
*any* outcome that is neither pass nor failure, where `TestOrder` had enumerated the others and had no step
beside them; `DiffsAddUp` is stated for each pair of adjacent attempts, not for a fold over them;
`EnqueueAll` is a recursive function where a fold stood, and `GraphAssumption` says that no key is `NoKey`,
that there are finitely many packages, and that app.json declares something; `TestOrder` filters a list by
the places it keeps (`AtPlaces`, `Only`, `Firsts`), a recursive function where library operators stood that
no prover can unfold; `WorldAssumption`, `WorldsAssumption` and `OrderAssumption` say that `Declared` names
every method once, codeunit by codeunit, that a world is one of `World`, and that a request is a list; `Declarations` of `AlSource` goes through a
file from its first line on, as the code does, where it was told backwards; `Reach` goes as many rounds as
there are nodes where a search of unbounded depth stood; what is selected is the tests of the evidence, the
order only of the shards, so that `PlanRunsSelection` compares two computations; and `ImpactAssumption`
names what AL's compiler guarantees of a tree (`Grammatical`: a routine is declared once, in its file, and no
declaration stands inside a body that ends; a test with code is declared), `SelectionAssumption` that a
`[Test]` method is no trigger.

The library's induction theorems take an operator and no prover here can instantiate them. `Induction` of
`Apps_proofs`, `TestTools_proofs` and `TestImpact_proofs` states induction over the naturals for a *set*, and follows from the well-foundedness of `<`
(`NatLessThanWellFounded`, `WFMin`); with it `OneByOne` unfolds the
recursive function of `EnqueueAll`, and the lemmas about lists at the head of order mode's proofs go through
filtered, joined, reversed and permuted lists, and `StepByStep` gives a recursive function's existence.

Only model-checked, and why: everything temporal under fairness (`ConnectionsSettle`,
`RecordingsProceed`, `RunsProceed`, `SlotsServedInTurn`, `AppCallsEnd`, `CallsEnd`), because liveness and
`ENABLED` are beyond the prover; `WriterNamed`, an induction over all statements of a grammar; and the
parts of `SelectionSound` and `CoverageTruthful` that `TestImpact_proofs` leaves: `NoShownTestDropped` and
`GateClassifies` also say that every routine whose code an edit alters has a changed line in its span. That
is so for the edits of the run, but not for every text: an `#if` whose branches end one routine and begin
another may be flipped inside the first and alter the second, whose lines stay as they were. The theorem
`ChangedTestsKept` therefore starts from the routines discovery finds changed. `PlanRunsSelection` rests on
the library's sorting of a list with ties, which the provers cannot unfold. `AtPlaces` and the like are recursive
functions; no module uses `RECURSIVE`.

## 6. What the code does that its documents do not say

With a run (`findings` in `PROJECT.json`): a detach during an attach is answered and then undone
(`EarlyDetach`); order mode captures record writes after a halted run (`OrderHalt`); the coverage gate
takes no notice of removed routines and of files it could not read (`GateChanges`); an Application named
both by concept and by app ID is two rows (`SymbolsDuplicate`); the queue worker's entry script passes no
`authorizationFactory`, so every request it claims is cancelled unserviced (`QueueWiring`).
`Orchestration` checks the worker as its types and tests wire it.

Also in `findings`, each stated as a definition of a module although no run checks it: the results
of a run are read when its event is fetched (`ResultsOfItsRun`); a user-filtered refusal tears down a
bound debugger (`TeardownOnlyUnbound`); a POST whose connection breaks is called retryable
(`RetryableMeansUndone`); a suspect the capture never ran is "noWriteObserved" (`CleanMeansNoWrite`);
a write after `else` is taken for one inside the `with` of the branch before it, when that branch ends
without `end` or `;`, and so are all writes of a block after that `else` (`ReceiverAlwaysRight`;
`WriterNamed` states what holds beside it);
a test that only hidden calls show to reach a change may be dropped (`NoReachingTestDropped`);
a changed procedure that bears the name of a `[Test]` of its codeunit, the test itself or an overload of it,
selects that test alone, and other tests that run it are dropped without a fallback (`NoShownTestDropped`
excepts it by `StandsForTest`); the tokenizer makes no token of a `'...'` literal, so a line that holds nothing
else is never unattributed, neither to the gate nor to the selection (the line kind `text` of `AlSource`,
which `GateClassifies` and `NoShownTestDropped` leave out, `GateSeesEveryChange` not).

Met while modelling:

1. Two overlapping `bcdev_debug_continue` calls that are both refused leave `paused` false on a paused
   workload: the second remembered the state the first had set (`state.ts:122`; `"overlapping"` of the ghost `blind`).
2. A failed background test run pushes a `fatal` event, which marks a live paused session as not
   paused (`debug-tools.ts:159`, `state.ts:96`; ghost `disowned`). So does `OnFatalDebuggerException`
   (`debugger-hub.ts:288`) while the hub stays connected; nothing says whether the workload stopped. Before
   the identity is reported it refuses a user-filtered attach instead, and the hub is given up
   (`OnFatalDebuggerException`, `HubStopped`).
3. `record_writes_start` stores its static writers after awaiting them, even if the recording was
   finished meanwhile, and its error path clears them unconditionally (`record-write-tools.ts:323,343`).
4. A failing attach frees the slot before it stops its client: two debuggers for a moment
   (`debug-tools.ts:125`).
5. `coverageComplete` stays true on an aborted run; consumers must combine it with `runAborted`, and
   `RunSafe` checks that they do.
6. An unanswered `bcdev_profile_start` does not tell its `debuggingContext`, an unanswered snapshot
   start does; a failed profile finish always clears the slot. `NothingStranded` (a conjunct of
   `PhaseHonest`) is therefore stated for snapshots.
7. At the observation cap `finish()` and the cap may both release the same break; the second release
   is refused and the truncated capture reports "failed" (`record-write-triage.ts:721`).
8. `scheduler.ts` `stop()` during a retry backoff neither awaits nor records the chain, although the
   recipe counts the job as running for the whole chain.
9. `docs/capture-queue-worker.md` has a dry run's claim wait until "a later run cancels it", but
   `listPending` asks for pending rows only, so no later run sees it: it waits for its TTL.
10. A finish that times out after 30 s loses the recording if BC hands it out late; an attach that
    times out may leave the tenant armed by a capture nobody finishes (`ServerForgets`).
11. The test-run lock is held across the whole gate, so `requireTestRunningSupport` never finds a
    request of another call pending: its sharing branch is dead under the tools.
12. `finish()` lets a re-attach that waits for its authorization header go on to connect, and stops it
    afterwards: the generation is checked before the header is awaited, not after
    (`debugger-hub.ts:223`; `Connect` of `RecordWriteTriage`).

## 7. Not modelled, and what is next

Not modelled: the lexer in front of the statement reader, the orchestrator's configuration and arguments (pure validation; the bounds it
guarantees are assumptions), tool pins, SQL insight, AL objects and identifiers (text processing; the
compiler's method ids are a set of routines whose id is known), SignalR's framing and redaction (an ordered
stream that may close) and the HTTP header grammar, archive decoding, source, effects and hotspot explanation (read-only lookups),
errors, results, URLs and launch configuration, the MCP shell and its skills, build scripts. Partly
modelled: the debugger client's one-invocation queries (variables, evaluate, source) change no modelled
state, and test discovery and source mapping are data to the test runner. Smaller omissions: `Response` and `Headers` constructors that
throw on what a server sent (`Http10`); the worker's recognition of an armed capture, a regular expression
over the cycle's output (`worker.ts:42`), is taken to match the cycle's own line only; an engine reads the
project in one step (`CallGraphs`); Microsoft's `Application` is told by publisher and name, as the code does,
so that a model has one app of that name (`PackageDownload`).

Plan:

1. Core, done: session, connection, slots, collector, captures, test runs, daemon, cycle and worker.
2. Extension, done: token, native calls and test gate; app lifecycle; downloads; order and repeat modes;
   selection, coverage and call graphs; binaries shared by processes; HTTP/1.0; the statement reader.
3. Proofs, done: session with its pauses, slots, captures, collector, test runs with the refinement of
   `TestPlan`, daemon, cycle and worker, debugger connection, native calls and gate, HTTP/1.0, app tools, the
   files of `.alpackages`, the symbol worklist, call graphs and the shared binary, order and repeat modes and the steps of both, discovery,
   reachability and the answers of the diff tools.
4. Left: how far an edit reaches beyond its own lines (section 5), which would take a grammar of where
   directives may stand; the statement reader against a grammar of AL; a model of SignalR's framing and
   reconnects.

Run a model with `tlc -config <Run>.cfg <Module>` (`PROJECT.json` names the pairs), a proof with
`tlapm <Module>_proofs.tla`.
