--------------------------- MODULE DebugSession ---------------------------
(***************************************************************************)
(* One manual debugger session of the MCP server: class DebugSession of     *)
(* src/src/mcp/state.ts (the event queue, its single waiter and the         *)
(* paused/revision bookkeeping), driven by the tool handlers of             *)
(* src/src/mcp/tools/debug-tools.ts (bcdev_debug_wait, _continue,           *)
(* _run_tests) and by the hub callbacks of debugger-hub.ts.                 *)
(*                                                                          *)
(* The program is single threaded: a step is the code between two awaits.   *)
(* The Business Central server is the environment.  It owns the workload    *)
(* being debugged and writes to `wire', the ordered SignalR stream of       *)
(* callbacks and invocation completions that the client reads one by one.   *)
(***************************************************************************)
EXTENDS Naturals, Sequences, FiniteSets

CONSTANTS
  Callers,      \* bcdev_debug_continue calls that may overlap
  QueueCap,     \* QUEUE_CAP, the most events kept between two waits
  MaxBreaks,    \* bound: Break callbacks the workload produces
  MaxFailures,  \* bound: OnFatalDebuggerException callbacks
  MaxRuns,      \* bound: debug-bound test runs
  MaxResumes    \* bound: bcdev_debug_continue calls

ASSUME SessionAssumption ==
  /\ QueueCap \in Nat \ {0}
  /\ MaxBreaks \in Nat
  /\ MaxFailures \in Nat
  /\ MaxRuns \in Nat
  /\ MaxResumes \in Nat
  /\ IsFiniteSet(Callers)

VARIABLES
  queue,             \* DebugSession.queue
  waiter,            \* DebugSession.waiter is set: a bcdev_debug_wait is pending
  bound,             \* DebugSession.boundIdentity is set
  paused,            \* DebugSession.paused
  executionRevision, \* DebugSession.executionRevision
  lastTestRun,       \* DebugSession.lastTestRun, as the number of the run (0 = null)
  droppedEvents,     \* DebugSession.droppedEvents
  testRun,           \* number of the run holding ServerState.testRunActive (0 = none)
  resume,            \* per caller, its bcdev_debug_continue in progress
  hub,               \* DebuggerClient.hub # null
  wire,              \* environment: messages of the hub connection not yet handled
  workload,          \* environment: the debugged session as the server knows it
  identity,          \* how far finishSessionBinding got: "known" once sessionBoundReported, "unread" after
                     \* the warning that GetNstSessionInfo failed
  closing,           \* the method that gave the hub up and still awaits its StopDebugging and stop
  userFiltered,      \* DebugAttachOptions.userId of the attach is set
  pushed,            \* ghost: events pushed so far
  received,          \* ghost: how many events bcdev_debug_wait has answered
  answer,            \* ghost: the last of them
  runs,              \* ghost: runs started so far
  breaks, failures, resumes, \* ghost: how much of these bounds is used
  blind,             \* ghost: how resumes were asked of a session not known to be paused, see Blindness
  disowned           \* ghost: since the last break a background test run or the server's debugger failed

events  == <<queue, waiter, droppedEvents, pushed, received, answer>>
session == <<events, bound, paused, executionRevision>>
server  == <<wire, workload, breaks, failures>>
tests   == <<lastTestRun, testRun, runs>>
calls   == <<resume, resumes, blind>>
hubState == <<hub, identity, closing, userFiltered>>
vars    == <<session, server, tests, calls, hubState, disowned>>

Kinds == {"sessionBound", "break", "testRunFinished", "detached", "fatal"}

\* n: position in the order of pushes; run: the run a testRunFinished event stands for, 0 of another
\* kind.  What else an event carries is for the agent only.
Event == [n : Nat, run : Nat]

\* What bcdev_debug_wait answers: the event and, for testRunFinished, session.lastTestRun
Answer == [n : Nat, run : Nat, results : Nat]

Idle == [pc |-> "idle", revision |-> 0, wasPaused |-> FALSE]
\* "early": no other resume was in progress; "overlapping": one was
Blindness == {"early", "overlapping"}

Resume == [pc : {"idle", "sent", "answered", "rejected"}, revision : Nat, wasPaused : BOOLEAN]

Message ==   [kind : {"break", "detached", "fatal"}]
        \cup [kind : {"accepted", "refused"}, caller : Callers]

TypeOK ==
  /\ queue \in Seq(Event) /\ Len(queue) <= QueueCap
  /\ waiter \in BOOLEAN
  /\ bound \in BOOLEAN
  /\ paused \in BOOLEAN
  /\ executionRevision \in Nat
  /\ lastTestRun \in Nat
  /\ droppedEvents \in Nat
  /\ testRun \in Nat
  /\ resume \in [Callers -> Resume]
  /\ hub \in BOOLEAN
  /\ wire \in Seq(Message)
  /\ workload \in {"unbound", "running", "paused", "gone"}
  /\ identity \in {"none", "lookup", "known", "unread"}
  /\ closing \in {"no", "failUserAttach", "failBoundConfiguration"}
  /\ userFiltered \in BOOLEAN
  /\ pushed \in Nat
  /\ received \in Nat
  /\ answer \in Answer
  /\ runs \in Nat
  /\ breaks \in Nat
  /\ failures \in Nat
  /\ resumes \in Nat
  /\ blind \subseteq Blindness
  /\ disowned \in BOOLEAN

\* bcdev_debug_attach has returned; no client has bound yet
Init ==
  /\ queue = <<>> /\ waiter = FALSE /\ bound = FALSE /\ paused = FALSE
  /\ executionRevision = 0 /\ lastTestRun = 0 /\ droppedEvents = 0
  /\ testRun = 0 /\ runs = 0
  /\ resume = [c \in Callers |-> Idle]
  /\ hub = TRUE /\ identity = "none" /\ closing = "no" /\ userFiltered \in BOOLEAN
  /\ wire = <<>> /\ workload = "unbound" /\ breaks = 0 /\ failures = 0 /\ resumes = 0
  /\ blind = {} /\ disowned = FALSE
  /\ pushed = 0 /\ received = 0
  /\ answer = [n |-> 0, run |-> 0, results |-> 0] \* none yet

----------------------------------------------------------------------------
(* DebugSession.push and DebugSession.wait *)

\* Hands event e to bcdev_debug_wait; the handler reads session.lastTestRun now.
Deliver(e, results) ==
  /\ received' = received + 1
  /\ answer' = [n |-> e.n, run |-> e.run, results |-> IF e.run # 0 THEN results ELSE 0]

\* Without the cap: the queue grows while nobody waits.
EnqueueUncapped(e) ==
  /\ queue' = Append(queue, e)
  /\ UNCHANGED droppedEvents

\* The event that does not fit is the one discarded.
EnqueueOrDiscard(e) ==
  IF Len(queue) >= QueueCap
  THEN UNCHANGED queue /\ droppedEvents' = droppedEvents + 1
  ELSE queue' = Append(queue, e) /\ UNCHANGED droppedEvents

Enqueue(e) ==
  IF Len(queue) >= QueueCap
  THEN queue' = Append(Tail(queue), e) /\ droppedEvents' = droppedEvents + 1
  ELSE queue' = Append(queue, e) /\ UNCHANGED droppedEvents

ExecutionState(kind) ==
  \/ /\ kind = "sessionBound"
     /\ bound' \in BOOLEAN \* the identity is null when GetNstSessionInfo failed or named no host
     /\ UNCHANGED <<paused, executionRevision>>
  \/ /\ kind = "break"
     /\ executionRevision' = executionRevision + 1
     /\ paused' = TRUE
     /\ UNCHANGED bound
  \/ /\ kind \in {"detached", "fatal"}
     /\ executionRevision' = executionRevision + 1
     /\ paused' = FALSE
     /\ bound' = FALSE
  \/ /\ kind = "testRunFinished"
     /\ UNCHANGED <<paused, bound, executionRevision>>

Push(kind, run, results) ==
  LET e == [n |-> pushed + 1, run |-> run]
  IN  /\ pushed' = pushed + 1
      /\ ExecutionState(kind)
      /\ IF waiter
         THEN waiter' = FALSE /\ Deliver(e, results) /\ UNCHANGED <<queue, droppedEvents>>
         ELSE Enqueue(e) /\ UNCHANGED <<waiter, received, answer>>

\* The wait takes the event pushed last.
WaitNewest ==
  /\ queue # <<>>
  /\ queue' = SubSeq(queue, 1, Len(queue) - 1)
  /\ Deliver(queue[Len(queue)], lastTestRun)
  /\ UNCHANGED <<waiter, bound, paused, executionRevision, droppedEvents, pushed>>
  /\ UNCHANGED <<server, tests, calls, hubState, disowned>>

\* bcdev_debug_wait with events queued: the oldest is returned at once.
WaitQueued ==
  /\ queue # <<>>
  /\ queue' = Tail(queue)
  /\ Deliver(Head(queue), lastTestRun)
  /\ UNCHANGED <<waiter, bound, paused, executionRevision, droppedEvents, pushed>>
  /\ UNCHANGED <<server, tests, calls, hubState, disowned>>

\* bcdev_debug_wait on an empty queue: the timer starts and the waiter is set (a second wait throws).
WaitPending ==
  /\ ~waiter /\ queue = <<>>
  /\ waiter' = TRUE
  /\ UNCHANGED <<queue, bound, paused, executionRevision, droppedEvents, pushed, received, answer>>
  /\ UNCHANGED <<server, tests, calls, hubState, disowned>>

\* The timer fires first: the call answers { timedOut: true }.
WaitTimeout ==
  /\ waiter
  /\ waiter' = FALSE
  /\ UNCHANGED <<queue, bound, paused, executionRevision, droppedEvents, pushed, received, answer>>
  /\ UNCHANGED <<server, tests, calls, hubState, disowned>>

----------------------------------------------------------------------------
(* bcdev_debug_continue *)

\* beginResume, then SetBreakpointResponse crosses the connection (requireHub rejects without one).
BeginResume(c) ==
  /\ resume[c].pc = "idle" /\ resumes < MaxResumes
  /\ resumes' = resumes + 1
  /\ blind' = IF paused THEN blind
              ELSE blind \cup {IF \E d \in Callers : resume[d].pc # "idle" THEN "overlapping" ELSE "early"}
  /\ resume' = [resume EXCEPT ![c] =
       [pc |-> IF hub THEN "sent" ELSE "rejected",
        revision |-> executionRevision + 1, wasPaused |-> paused]]
  /\ executionRevision' = executionRevision + 1
  /\ paused' = FALSE
  /\ UNCHANGED <<events, bound, server, tests, hubState, disowned>>

\* The invocation resolved: the handler answers { ok: true }.
ResumeAccepted(c) ==
  /\ resume[c].pc = "answered"
  /\ resume' = [resume EXCEPT ![c] = Idle]
  /\ UNCHANGED <<session, server, tests, resumes, blind, hubState, disowned>>

\* The rollback restores the old state whatever was pushed meanwhile.
RollbackAlways(c) ==
  /\ resume[c].pc = "rejected"
  /\ resume' = [resume EXCEPT ![c] = Idle]
  /\ paused' = resume[c].wasPaused
  /\ UNCHANGED <<events, bound, executionRevision, server, tests, resumes, blind, hubState, disowned>>

\* The invocation rejected: rollbackResume restores only an execution state nobody superseded.
RollbackResume(c) ==
  /\ resume[c].pc = "rejected"
  /\ resume' = [resume EXCEPT ![c] = Idle]
  /\ paused' = IF executionRevision = resume[c].revision THEN resume[c].wasPaused ELSE paused
  /\ UNCHANGED <<events, bound, executionRevision, server, tests, resumes, blind, hubState, disowned>>

----------------------------------------------------------------------------
(* Callbacks of the hub connection, one message of the wire at a time *)

\* Break and OnDetachedFromConnection
Callback ==
  /\ hub /\ wire # <<>> /\ Head(wire).kind \in {"break", "detached"}
  /\ wire' = Tail(wire)
  /\ Push(Head(wire).kind, 0, 0)
  /\ disowned' = (disowned /\ Head(wire).kind # "break")
  /\ UNCHANGED <<workload, breaks, failures, tests, calls, hubState>>

\* OnFatalDebuggerException ends the session's pause and identity, while the hub stays connected.
\* Before sessionBound is reported it refuses a user-filtered attach instead: failUserAttach gives
\* the hub up and awaits the end of the connection.
OnFatalDebuggerException ==
  /\ hub /\ wire # <<>> /\ Head(wire).kind = "fatal"
  /\ wire' = Tail(wire)
  /\ \/ /\ userFiltered /\ identity # "known"
        /\ hub' = FALSE /\ closing' = "failUserAttach"
        /\ UNCHANGED <<session, disowned>>
     \/ /\ userFiltered => identity = "known"
        /\ Push("fatal", 0, 0) /\ disowned' = TRUE
        /\ UNCHANGED <<hub, closing>>
  /\ UNCHANGED <<workload, breaks, failures, tests, calls, identity, userFiltered>>

\* A callback of a hub that was given up is not the session's any more.
Ignored ==
  /\ ~hub /\ wire # <<>> /\ Head(wire).kind \in {"break", "detached", "fatal"}
  /\ wire' = Tail(wire)
  /\ UNCHANGED <<session, workload, breaks, failures, tests, calls, hubState, disowned>>

\* The promise of an invocation settles; its handler continues in a later microtask.
Completion ==
  /\ wire # <<>> /\ Head(wire).kind \in {"accepted", "refused"}
  /\ wire' = Tail(wire)
  /\ resume' = [resume EXCEPT ![Head(wire).caller].pc =
       IF Head(wire).kind = "accepted" THEN "answered" ELSE "rejected"]
  /\ UNCHANGED <<session, workload, breaks, failures, tests, resumes, blind, hubState, disowned>>

\* GetNstSessionInfo answered after the bind, or failed: finishSessionBinding reports it.
SessionBound ==
  /\ hub /\ identity = "lookup"
  /\ Push("sessionBound", 0, 0)
  /\ identity' \in {"known", "unread"}
  /\ bound' => identity' = "known"
  /\ UNCHANGED <<server, tests, calls, hub, closing, userFiltered, disowned>>

\* The server refuses DebugAdapterConfigurationDone: failBoundConfiguration reports it, then closes.
ConfigurationFails ==
  /\ hub /\ identity = "lookup"
  /\ hub' = FALSE /\ closing' = "failBoundConfiguration"
  /\ Push("fatal", 0, 0)
  /\ UNCHANGED <<server, tests, calls, identity, userFiltered, disowned>>

\* The connection is gone: pending invocations reject, messages not yet dispatched are lost.
Disconnected ==
  /\ wire' = <<>> /\ workload' = "gone"
  /\ resume' = [c \in Callers |->
       IF resume[c].pc = "sent" THEN [resume[c] EXCEPT !.pc = "rejected"] ELSE resume[c]]

\* onclose of the session's hub: this.hub = null, a fatal event is pushed.
HubClosed ==
  /\ hub /\ hub' = FALSE
  /\ Disconnected
  /\ Push("fatal", 0, 0)
  /\ UNCHANGED <<breaks, failures, tests, resumes, blind, identity, closing, userFiltered, disowned>>

\* StopDebugging and hub.stop() of a hub given up have settled; failUserAttach reports only now.
HubStopped ==
  /\ closing # "no"
  /\ closing' = "no"
  /\ Disconnected
  /\ IF closing = "failUserAttach" THEN Push("fatal", 0, 0) ELSE UNCHANGED session
  /\ UNCHANGED <<breaks, failures, tests, resumes, blind, hub, identity, userFiltered, disowned>>

----------------------------------------------------------------------------
(* bcdev_debug_run_tests: a background run on its own hub *)

\* claimTestRun succeeded and the run was launched (a throw before that gives the claim back).
StartRun ==
  /\ testRun = 0 /\ runs < MaxRuns
  /\ runs' = runs + 1
  /\ testRun' = runs + 1
  /\ UNCHANGED <<session, server, calls, hubState, disowned, lastTestRun>>

\* .then of the run, and .finally
RunFinished ==
  /\ testRun # 0
  /\ lastTestRun' = testRun
  /\ Push("testRunFinished", testRun, testRun)
  /\ testRun' = 0
  /\ UNCHANGED <<server, calls, hubState, disowned, runs>>

\* .catch of the run: "Test run failed to start" is pushed as a fatal event of the session.
RunFailed ==
  /\ testRun # 0
  /\ Push("fatal", 0, 0)
  /\ testRun' = 0
  /\ disowned' = TRUE
  /\ UNCHANGED <<server, calls, hubState, lastTestRun, runs>>

----------------------------------------------------------------------------
(* The server and the workload *)

\* A client binds; the hub's bind callback starts finishSessionBinding.
Bind ==
  /\ hub /\ workload = "unbound"
  /\ workload' = "running"
  /\ identity' = "lookup"
  /\ UNCHANGED <<session, wire, breaks, failures, tests, calls, hub, closing, userFiltered, disowned>>

\* Its debugger fails: the workload stays as it is, or is lost to it.
ServerFails ==
  /\ hub /\ failures < MaxFailures
  /\ failures' = failures + 1
  /\ workload' \in {workload, "gone"}
  /\ wire' = Append(wire, [kind |-> "fatal"])
  /\ UNCHANGED <<session, breaks, tests, calls, hubState, disowned>>

BreakHit ==
  /\ workload = "running" /\ breaks < MaxBreaks
  /\ workload' = "paused"
  /\ breaks' = breaks + 1
  /\ wire' = Append(wire, [kind |-> "break"])
  /\ UNCHANGED <<session, failures, tests, calls, hubState, disowned>>

WorkloadEnds ==
  /\ workload = "running"
  /\ workload' = "gone"
  /\ wire' = Append(wire, [kind |-> "detached"])
  /\ UNCHANGED <<session, breaks, failures, tests, calls, hubState, disowned>>

\* An invocation is answered once, while the connection lasts: its completion is not already on the wire.
Unanswered(c) ==
  /\ hub \/ closing # "no"
  /\ resume[c].pc = "sent"
  /\ \A i \in 1..Len(wire) :
       wire[i].kind \in {"accepted", "refused"} => wire[i].caller # c

\* SetBreakpointResponse is accepted: a step resumes the workload, release and abort end it.
ServerAccepts(c) ==
  /\ workload = "paused" /\ Unanswered(c)
  /\ \/ /\ workload' = "running"
        /\ wire' = Append(wire, [kind |-> "accepted", caller |-> c])
     \/ /\ workload' = "gone"
        /\ wire' = Append(Append(wire, [kind |-> "detached"]), [kind |-> "accepted", caller |-> c])
  /\ UNCHANGED <<session, breaks, failures, tests, calls, hubState, disowned>>

\* The server refuses the invocation: nothing is paused, or a fault left it paused.
ServerRefuses(c) ==
  /\ Unanswered(c)
  /\ wire' = Append(wire, [kind |-> "refused", caller |-> c])
  /\ UNCHANGED <<session, workload, breaks, failures, tests, calls, hubState, disowned>>

Next ==
  \/ WaitQueued \/ WaitPending \/ WaitTimeout
  \/ Callback \/ OnFatalDebuggerException \/ Ignored \/ Completion
  \/ SessionBound \/ ConfigurationFails \/ HubClosed \/ HubStopped
  \/ StartRun \/ RunFinished \/ RunFailed
  \/ Bind \/ ServerFails \/ BreakHit \/ WorkloadEnds
  \/ \E c \in Callers :
       BeginResume(c) \/ ResumeAccepted(c) \/ RollbackResume(c)
         \/ ServerAccepts(c) \/ ServerRefuses(c)

Spec == Init /\ [][Next]_vars

----------------------------------------------------------------------------
(* Properties *)

\* No event is lost silently: every event pushed was answered by a wait, is still queued, or is
\* counted in the droppedEvents that the next wait reports (state.ts push and wait).
NoSilentLoss == pushed = received + Len(queue) + droppedEvents

\* What an overflow discards is the oldest: the queue is always the unbroken run of the newest
\* events, in push order, and nothing queued is older than what a wait already answered.
NewestEventsKept ==
  /\ \A i \in 1..Len(queue) : queue[i].n = pushed - Len(queue) + i
  /\ answer.n <= pushed - Len(queue)

\* A pending bcdev_debug_wait is never left waiting beside a queued event: a push finds either a
\* waiter or a queue, never both, so no event is stuck behind a call that then times out.
WaiterNeverStarved == waiter => queue = <<>>

\* The whole promise of the queue between the callbacks and bcdev_debug_wait (state.ts push, wait).
QueueSafety == NoSilentLoss /\ NewestEventsKept /\ WaiterNeverStarved

\* Waits answer events in the order the callbacks pushed them, whatever overflowed in between.
AnswersInOrder == [][answer' # answer => answer'.n > answer.n]_vars

BreakUnderway == \E i \in 1..Len(wire) : wire[i].kind = "break"
FatalUnderway == \E i \in 1..Len(wire) : wire[i].kind = "fatal"
ResumePending == \E c \in Callers : resume[c].pc # "idle"

\* nativeDebugIdentity hands the NST identity out only while the workload really is paused under a
\* live debugger connection: native debugging tools never act on a running session.  An agent that
\* resumes without having seen a break can outrun the next one, and a workload lost with the
\* server's debugger is believed paused until OnFatalDebuggerException is read.
IdentityOnlyWhilePaused ==
  blind = {} /\ paused /\ bound => hub /\ (workload = "paused" \/ FatalUnderway)

\* A paused workload stays inspectable: once its Break was handled and no resume is in progress, the
\* session says paused, also when a resume that crossed the Break is then refused (rollbackResume).
\* Three cases escape the code: overlapping resumes (the second remembers wasPaused = false), a
\* failed background test run, and OnFatalDebuggerException of a debugger that is still connected;
\* each clears paused although nothing says that the workload runs.
PausedWorkloadIsKnown ==
  hub /\ workload = "paused" /\ ~BreakUnderway /\ ~ResumePending
    /\ "overlapping" \notin blind /\ ~disowned => paused

\* The pause the session believes in is the workload's, from both sides.
PauseAgrees == IdentityOnlyWhilePaused /\ PausedWorkloadIsKnown

\* A testRunFinished event carries the results of the run it announces (bcdev_debug_run_tests:
\* "testRunFinished signals completion and carries the results").
ResultsOfItsRun == answer.results = answer.run
=============================================================================
