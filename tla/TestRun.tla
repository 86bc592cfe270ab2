------------------------------ MODULE TestRun ------------------------------
(***************************************************************************)
(* TestRunnerClient.run (src/src/core/hubs/test-runner-hub.ts) as           *)
(* bcdev_run_tests and the repeat mode of bcdev_test_orchestrate call it    *)
(* under the test-run lock (src/src/mcp/tools/test-tools.ts): a plan of     *)
(* codeunit groups is run one RunTests invocation at a time, driven by the  *)
(* hub's callbacks, and settles once: with all groups, with a rejected      *)
(* invocation, or with a closed connection.  Procedure coverage is asked    *)
(* for, so every group's payload counts.                                    *)
(***************************************************************************)
EXTENDS Naturals, Sequences, FiniteSets

CONSTANTS
  Tools,      \* calls of the test tools
  NumGroups,  \* plan.length
  Attempts    \* per call: runsRequested, 1 for bcdev_run_tests

ASSUME PlanAssumption == NumGroups \in Nat \ {0} /\ Attempts \in [Tools -> Nat \ {0}]

VARIABLES
  runLock, \* state.testRunActive
  run,           \* per call: its stage, and the locals of TestRunnerClient.run
  hub,           \* per call: its connection
  cancelled      \* per call: context.signal.aborted

runVars == <<runLock, run, hub, cancelled>>

Groups == 1..NumGroups

Message ==
  [kind : {"TestCompleted"}, named : BOOLEAN] \cup
  [kind : {"TestRunCompleted"}, tests : {"missing", "empty", "full"}] \cup
  [kind : {"rejected"}]

Run ==
  [stage : {"idle", "preparing", "authorizing", "connecting", "initializing", "running", "stopping",
            "between", "ending", "over"},
   attempt : Nat,
   groupIndex : 0..NumGroups,
   results : Seq(BOOLEAN),      \* per row: it names a method (a codeunit's rollup row does not)
   groupResultBaseline : Nat,
   coverageComplete : BOOLEAN,
   report : {"none", "complete", "aborted"}]

Hub ==
  [up : BOOLEAN,
   wire : Seq(Message),         \* messages of the server that are not dispatched yet
   open : SUBSET Groups,        \* RunTests invocations the server has not answered
   asked : 0..NumGroups,        \* RunTests invocations so far
   served : 0..NumGroups,       \* groups the server has run
   evidence : SUBSET Groups]    \* ghost: groups whose coverage the server reported in full

RunTypeOK ==
  /\ runLock \in BOOLEAN
  /\ run \in [Tools -> Run]
  /\ hub \in [Tools -> Hub]
  /\ cancelled \in [Tools -> BOOLEAN]
  /\ \A t \in Tools :
       /\ run[t].attempt <= Attempts[t] /\ run[t].groupResultBaseline <= Len(run[t].results)
       /\ hub[t].served <= hub[t].asked
       /\ hub[t].up => run[t].stage \in {"initializing", "running", "stopping"}

NoHub == [up |-> FALSE, wire |-> <<>>, open |-> {}, asked |-> 0, served |-> 0, evidence |-> {}]

RunInit ==
  /\ runLock = FALSE
  /\ run = [t \in Tools |-> [stage |-> "idle", attempt |-> 0, groupIndex |-> 0, results |-> <<>>,
                             groupResultBaseline |-> 0, coverageComplete |-> TRUE, report |-> "none"]]
  /\ hub = [t \in Tools |-> NoHub]
  /\ cancelled = [t \in Tools |-> FALSE]

Goto(t, stage) == run' = [run EXCEPT ![t].stage = stage]
Settle(t, verdict) == run' = [run EXCEPT ![t].stage = "stopping", ![t].report = verdict]

----------------------------------------------------------------------------
(* The tool's handler *)

CallTool(t) ==
  /\ run[t].stage = "idle"
  /\ ~runLock /\ runLock' = TRUE
  /\ Goto(t, "preparing")
  /\ UNCHANGED <<hub, cancelled>>

\* Bad arguments, no git, or a server that cannot run tests.
PrepareFails(t) ==
  /\ run[t].stage = "preparing"
  /\ Goto(t, "ending")
  /\ UNCHANGED <<runLock, hub, cancelled>>

\* A new run() while another attempt is due; the client may have cancelled the rest.
BeginAttempt(t) ==
  /\ run[t].stage \in {"preparing", "between"}
  /\ run[t].attempt < Attempts[t] /\ ~cancelled[t]
  /\ run' = [run EXCEPT ![t] =
       [stage |-> "authorizing", attempt |-> run[t].attempt + 1, groupIndex |-> 0, results |-> <<>>,
        groupResultBaseline |-> 0, coverageComplete |-> TRUE, report |-> "none"]]
  /\ hub' = [hub EXCEPT ![t] = NoHub]
  /\ UNCHANGED <<runLock, cancelled>>

NoMoreAttempts(t) ==
  /\ run[t].stage \in {"preparing", "between"}
  /\ run[t].attempt = Attempts[t] \/ cancelled[t]
  /\ Goto(t, "ending")
  /\ UNCHANGED <<runLock, hub, cancelled>>

\* repeat reports an attempt that throws as aborted; bcdev_run_tests fails.
RunUnauthorized(t) ==
  /\ run[t].stage = "authorizing"
  /\ run' = [run EXCEPT ![t].stage = "ending", ![t].report = "aborted"]
  /\ UNCHANGED <<runLock, hub, cancelled>>

RunAuthorized(t) ==
  /\ run[t].stage = "authorizing"
  /\ Goto(t, "connecting")
  /\ UNCHANGED <<runLock, hub, cancelled>>

\* The call's locals go with it; what it reported is kept for the refinement.
Return(t) ==
  /\ run' = [run EXCEPT ![t].stage = "over", ![t].results = <<>>, ![t].groupResultBaseline = 0,
                        ![t].coverageComplete = TRUE]
  /\ hub' = [hub EXCEPT ![t].evidence = {}]

\* The results are enriched and mapped to sources; finally frees the lock.
End(t) ==
  /\ run[t].stage = "ending" /\ Return(t)
  /\ runLock' = FALSE
  /\ UNCHANGED cancelled

\* The map written next to the results (and the gap analysis) trust coverage only of a whole run.
MapComplete(t) == run[t].report = "complete" /\ run[t].coverageComplete

----------------------------------------------------------------------------
(* TestRunnerClient.run: start, Initialize and the hub's callbacks *)

\* A rejected start or Initialize settles the run.
ConnectFails(t) ==
  /\ run[t].stage \in {"connecting", "initializing"}
  /\ Settle(t, "aborted")
  /\ UNCHANGED <<runLock, hub, cancelled>>

RunConnected(t) ==
  /\ run[t].stage = "connecting" /\ Goto(t, "initializing")
  /\ hub' = [hub EXCEPT ![t].up = TRUE]
  /\ UNCHANGED <<runLock, cancelled>>

\* runNextGroup takes the run for complete when it starts the last group.
RunNextGroupEarly(t, r, h) ==
  IF r.groupIndex >= NumGroups - 1
  THEN /\ run' = [run EXCEPT ![t] = [r EXCEPT !.stage = "stopping", !.report = "complete"]]
       /\ hub' = [hub EXCEPT ![t] = h]
  ELSE LET next == r.groupIndex + 1 IN
       /\ run' = [run EXCEPT ![t] = [r EXCEPT !.groupIndex = next, !.groupResultBaseline = Len(r.results)]]
       /\ hub' = [hub EXCEPT ![t] = [h EXCEPT !.open = @ \cup {next}, !.asked = next]]

\* runNextGroup, with the locals r and the connection h
RunNextGroup(t, r, h) ==
  IF r.groupIndex = NumGroups
  THEN /\ run' = [run EXCEPT ![t] = [r EXCEPT !.stage = "stopping", !.report = "complete"]]
       /\ hub' = [hub EXCEPT ![t] = h]
  ELSE LET next == r.groupIndex + 1 IN
       /\ run' = [run EXCEPT ![t] = [r EXCEPT !.groupIndex = next, !.groupResultBaseline = Len(r.results)]]
       /\ hub' = [hub EXCEPT ![t] = [h EXCEPT !.open = @ \cup {next}, !.asked = next]]

Initialized(t) ==
  /\ run[t].stage = "initializing" /\ hub[t].up
  /\ RunNextGroup(t, [run[t] EXCEPT !.stage = "running"], hub[t])
  /\ UNCHANGED <<runLock, cancelled>>

Dispatch(t, kind) == hub[t].up /\ hub[t].wire # <<>> /\ Head(hub[t].wire).kind = kind
Dispatched(t) == [hub[t] EXCEPT !.wire = Tail(@)]

TestCompleted(t) ==
  /\ Dispatch(t, "TestCompleted")
  /\ run' = [run EXCEPT ![t].results = Append(@, Head(hub[t].wire).named)]
  /\ hub' = [hub EXCEPT ![t] = Dispatched(t)]
  /\ UNCHANGED <<runLock, cancelled>>

GroupExecutedTests(r) == \E i \in r.groupResultBaseline + 1 .. Len(r.results) : r.results[i]

\* Any row received so far counts as one of this group's.
CoveredIgnoringBaseline(r, tests) ==
  tests = "full" \/ (tests = "empty" /\ ~ \E i \in DOMAIN r.results : r.results[i])

\* A missing payload proves nothing, nor does an empty one if the group executed tests.
Covered(r, tests) == tests = "full" \/ (tests = "empty" /\ ~GroupExecutedTests(r))

\* Once the run is settled its locals are dead, and the next invocation rejects on the closing hub.
TestRunCompleted(t) ==
  /\ Dispatch(t, "TestRunCompleted")
  /\ IF run[t].stage = "running"
     THEN LET covered == Covered(run[t], Head(hub[t].wire).tests) IN
          RunNextGroup(t, [run[t] EXCEPT !.coverageComplete = @ /\ covered], Dispatched(t))
     ELSE hub' = [hub EXCEPT ![t] = Dispatched(t)] /\ UNCHANGED run
  /\ UNCHANGED <<runLock, cancelled>>

\* The rejection of any RunTests invocation, even of a group that has completed, settles the run.
RunTestsRejected(t) ==
  /\ Dispatch(t, "rejected")
  /\ hub' = [hub EXCEPT ![t] = Dispatched(t)]
  /\ IF run[t].stage = "running" THEN Settle(t, "aborted") ELSE UNCHANGED run
  /\ UNCHANGED <<runLock, cancelled>>

HubClosed(t) ==
  /\ hub[t].up
  /\ hub' = [hub EXCEPT ![t].up = FALSE, ![t].wire = <<>>, ![t].open = {}]
  /\ IF run[t].stage # "stopping" THEN Settle(t, "aborted") ELSE UNCHANGED run
  /\ UNCHANGED <<runLock, cancelled>>

\* hub.stop() settled and run() resolves; an aborted attempt is the last one.
Stopped(t) ==
  /\ run[t].stage = "stopping"
  /\ hub' = [hub EXCEPT ![t].up = FALSE, ![t].wire = <<>>, ![t].open = {}]
  /\ Goto(t, IF run[t].report = "complete" THEN "between" ELSE "ending")
  /\ UNCHANGED <<runLock, cancelled>>

----------------------------------------------------------------------------
(* Business Central and the MCP client *)

\* A RunTests group: at most one row (bound), then its completion with its coverage payload.
RunTests(t) ==
  /\ hub[t].up /\ hub[t].served < hub[t].asked
  /\ \E rows \in {<<>>} \cup {<<[kind |-> "TestCompleted", named |-> b]>> : b \in BOOLEAN},
        tests \in {"missing", "empty", "full"} :
       LET group == hub[t].served + 1
           executed == \E i \in DOMAIN rows : rows[i].named
           told == tests = "full" \/ (tests = "empty" /\ ~executed)
       IN hub' = [hub EXCEPT ![t].served = group,
                             ![t].wire = @ \o rows \o <<[kind |-> "TestRunCompleted", tests |-> tests]>>,
                             ![t].evidence = IF told THEN @ \cup {group} ELSE @]
  /\ UNCHANGED <<runLock, run, cancelled>>

\* The completion of a RunTests invocation comes at any time; only a rejection has an effect.
ServerAnswers(t) ==
  /\ hub[t].up
  /\ \E group \in hub[t].open, answer \in {<<>>, <<[kind |-> "rejected"]>>} :
       hub' = [hub EXCEPT ![t].open = @ \ {group}, ![t].wire = @ \o answer]
  /\ UNCHANGED <<runLock, run, cancelled>>

\* Only repeat looks at the cancellation.
Cancel(t) ==
  /\ Attempts[t] > 1 /\ ~cancelled[t]
  /\ cancelled' = [cancelled EXCEPT ![t] = TRUE]
  /\ UNCHANGED <<runLock, run, hub>>

\* What is owed: handlers and callbacks run, and the server answers what it is asked.  A server that
\* keeps the connection alive and never completes a group would hold the call, and the lock, for good.
Step(t) ==
  \/ PrepareFails(t) \/ BeginAttempt(t) \/ NoMoreAttempts(t) \/ RunUnauthorized(t) \/ RunAuthorized(t) \/ End(t)
  \/ ConnectFails(t) \/ RunConnected(t) \/ Initialized(t)
  \/ TestCompleted(t) \/ TestRunCompleted(t) \/ RunTestsRejected(t) \/ Stopped(t)
  \/ RunTests(t)

RunNext == \E t \in Tools : Step(t) \/ CallTool(t) \/ HubClosed(t) \/ ServerAnswers(t) \/ Cancel(t)

RunSpec == RunInit /\ [][RunNext]_runVars /\ \A t \in Tools : WF_runVars(Step(t))

----------------------------------------------------------------------------
(* Properties *)

Plan == INSTANCE TestPlan WITH
  active  <- {t \in Tools : run[t].stage \notin {"idle", "over"}},
  attempt <- [t \in Tools |-> run[t].attempt],
  done    <- [t \in Tools |-> hub[t].served],
  report  <- [t \in Tools |-> run[t].report]

\* The runs implement the abstract plan: one call at a time, no attempt is called complete before the
\* server has run every group of it, none follows an aborted one, and no call returns without a report.
RunsPlan == Plan!Spec

\* Coverage that is called complete is: a map is marked complete only if the server reported the
\* coverage of every group, and a whole run with full evidence is not called incomplete.
CoverageHonest ==
  \A t \in Tools : run[t].stage \in {"between", "ending"} /\ run[t].report # "none" =>
    (MapComplete(t) <=> run[t].report = "complete" /\ hub[t].evidence = Groups)

\* What a call keeps of its runs can be trusted.
RunSafe == RunTypeOK /\ CoverageHonest
=============================================================================
