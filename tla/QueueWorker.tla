---------------------------- MODULE QueueWorker -----------------------------
(***************************************************************************)
(* The capture-queue worker (core/queue/worker.ts, core/queue/queue-       *)
(* client.ts, scripts/work-capture-queue.ts): invocations that list the    *)
(* pending capture requests of al-perf, claim one at a time, run the       *)
(* capture-and-ship cycle of CaptureCycle for it, with a workload driver   *)
(* spawned on the cycle's "armed" log line, and release the claim.         *)
(*                                                                         *)
(* The cycle of invocation w for request r is the activityId <<w, r>>.     *)
(***************************************************************************)
EXTENDS CaptureCycle

CONSTANTS
  Workers,   \* the invocations: scheduled runs, of one box or of several
  Requests,  \* the rows of the queue, by id
  MaxOf,     \* --max of each invocation
  Listed,    \* the requests each invocation asks for: all, or those of its --queue-tenant
  KeepClaim, \* the invocations with --keep-claim-on-failure
  Driven,    \* the invocations with --workload-cmd
  Mortal,    \* bound: the invocations that may be killed
  Expiring,  \* bound: the requests that may expire
  NoWorker

ASSUME QueueAssumption ==
  /\ Cycles = Workers \X Requests
  /\ Requests \subseteq Nat /\ IsFiniteSet(Requests)
  /\ MaxOf \in [Workers -> Nat \ {0}]
  /\ Listed \in [Workers -> SUBSET Requests]
  /\ {KeepClaim, Driven, Mortal} \subseteq SUBSET Workers /\ Expiring \subseteq Requests
  /\ NoWorker \notin Workers

VARIABLES
  row,     \* status of each request in al-perf
  holder,  \* claimedBy of each request
  pc,      \* where each invocation is
  todo,    \* the listed rows it has not done with, tried oldest first
  attempted, \* the claims it won
  worked,  \* its report, by request: [outcome, released]
  child,   \* the workload driver of each cycle
  unsettled \* ghost: claims whose cancel the CLI failed to do

queueVars == <<row, holder, pc, todo, attempted, worked, child, unsettled>>
workerVars == <<cycleVars, queueVars>>

Unworked == [outcome |-> "none", released |-> FALSE]

WorkerTypeOK ==
  /\ CycleTypeOK
  /\ row \in [Requests -> {"pending", "claimed", "fulfilled", "expired", "cancelled"}]
  /\ holder \in [Requests -> Workers \cup {NoWorker}]
  /\ pc \in [Workers -> {"start", "next", "cycle", "cancelling", "done0", "done1", "crashed"}]
  /\ todo \in [Workers -> SUBSET Requests]
  /\ attempted \in [Workers -> 0..Cardinality(Requests)]
  /\ \A w \in Workers : attempted[w] <= MaxOf[w]
  /\ worked \in [Workers -> [Requests ->
       [outcome : Outcomes \cup {"claim-raced", "claim-error"}, released : BOOLEAN]]]
  /\ child \in [Cycles -> {"none", "running", "stopping", "exited"}]
  /\ unsettled \subseteq Cycles

WorkerInit ==
  /\ CycleInit
  /\ row = [r \in Requests |-> "pending"]
  /\ holder = [r \in Requests |-> NoWorker]
  /\ pc = [w \in Workers |-> "start"]
  /\ todo = [w \in Workers |-> {}]
  /\ attempted = [w \in Workers |-> 0]
  /\ worked = [w \in Workers |-> [r \in Requests |-> Unworked]]
  /\ child = [c \in Cycles |-> "none"]
  /\ unsettled = {}

-----------------------------------------------------------------------------
(* One invocation *)

\* listPending: the pending rows, which al-perf sends oldest first.
List(w) ==
  /\ pc[w] = "start"
  /\ pc' = [pc EXCEPT ![w] = "next"]
  /\ todo' = [todo EXCEPT ![w] = {r \in Listed[w] : row[r] = "pending"}]
  /\ UNCHANGED <<cycleVars, row, holder, attempted, worked, child, unsettled>>

\* The poll fails: workQueue throws and the script exits with 1.
ListFails(w) ==
  /\ pc[w] = "start"
  /\ pc' = [pc EXCEPT ![w] = "done1"]
  /\ UNCHANGED <<cycleVars, row, holder, todo, attempted, worked, child, unsettled>>

\* The row the loop is at.
At(w, r) == r \in todo[w] /\ \A q \in todo[w] : r <= q
Done(w, r) == todo' = [todo EXCEPT ![w] = @ \ {r}]

Trying(w, r) == pc[w] = "next" /\ attempted[w] < MaxOf[w] /\ At(w, r)

Report(w, r, outcome, released) ==
  worked' = [worked EXCEPT ![w][r] = [outcome |-> outcome, released |-> released]]

\* The claim is won: its cycle begins.
Claim(w, r) ==
  /\ Trying(w, r) /\ row[r] = "pending"
  /\ row' = [row EXCEPT ![r] = "claimed"]
  /\ holder' = [holder EXCEPT ![r] = w]
  /\ attempted' = [attempted EXCEPT ![w] = @ + 1]
  /\ pc' = [pc EXCEPT ![w] = "cycle"]
  /\ Begin(<<w, r>>)
  /\ UNCHANGED <<todo, worked, child, unsettled>>

\* Somebody else was first, or the CLI failed: on to the next row, without using up --max.
ClaimFails(w, r) ==
  /\ Trying(w, r)
  /\ \E outcome \in IF row[r] = "pending" THEN {"claim-error"} ELSE {"claim-error", "claim-raced"} :
       Report(w, r, outcome, FALSE)
  /\ Done(w, r)
  /\ UNCHANGED <<cycleVars, row, holder, pc, attempted, child, unsettled>>

\* onLog taps the cycle's log: the driver is spawned on its "armed" line.
SpawnOnArmed ==
  child' = [c \in Cycles |->
    IF c[1] \in Driven /\ Stage(c) = "arming" /\ cycle'[c].stage = "window" THEN "running" ELSE child[c]]

Works(c) ==
  /\ CycleStep(c)
  /\ SpawnOnArmed
  /\ UNCHANGED <<row, holder, pc, todo, attempted, worked, unsettled>>

\* Only the driver of a failed cycle is killed.
StopDriverOnFailure(c) ==
  child' = [child EXCEPT ![c] = IF @ = "running" /\ cycle[c].outcome = "error" THEN "stopping" ELSE @]

\* A driver that has not exited when the cycle resolves is killed.
StopDriver(c) ==
  child' = [child EXCEPT ![c] = IF @ = "running" THEN "stopping" ELSE @]

Kind(c)  == IF cycle[c].outcome \in {"threw", "unshipped"} THEN "error" ELSE cycle[c].outcome
Serviced(c) == Kind(c) \in {"shipped", "duplicate", "dry-run"}

\* A claim is kept if its request was serviced, or on demand.
Keeps(c) == Serviced(c) \/ c[1] \in KeepClaim

Settle(w, r) ==
  /\ pc[w] = "cycle" /\ At(w, r) /\ Stage(<<w, r>>) = "over"
  /\ StopDriver(<<w, r>>)
  /\ IF Keeps(<<w, r>>)
     THEN /\ pc' = [pc EXCEPT ![w] = "next"]
          /\ Done(w, r)
          /\ Report(w, r, Kind(<<w, r>>), FALSE)
     ELSE /\ pc' = [pc EXCEPT ![w] = "cancelling"]
          /\ UNCHANGED <<todo, worked>>
  /\ UNCHANGED <<cycleVars, row, holder, attempted, unsettled>>

Cancels(w, r, released) ==
  /\ pc[w] = "cancelling" /\ At(w, r)
  /\ pc' = [pc EXCEPT ![w] = "next"]
  /\ Done(w, r)
  /\ Report(w, r, Kind(<<w, r>>), released)
  /\ UNCHANGED <<cycleVars, holder, attempted, child>>

Cancel(w, r) ==
  /\ Cancels(w, r, TRUE)
  /\ row[r] = "claimed"
  /\ row' = [row EXCEPT ![r] = "cancelled"]
  /\ UNCHANGED unsettled

\* The row is no longer claimed (al-perf refuses), or the CLI failed.
CancelFails(w, r) ==
  /\ Cancels(w, r, FALSE)
  /\ unsettled' = IF row[r] = "claimed" THEN unsettled \cup {<<w, r>>} ELSE unsettled
  /\ UNCHANGED row

\* decideExit: claim errors alone, or a failed cycle, make the run fail.
ReportOf(w)  == {worked[w][r].outcome : r \in Requests} \ {"none"}
ExitCode(w) ==
  IF \/ "claim-error" \in ReportOf(w) /\ ReportOf(w) \subseteq {"claim-error", "claim-raced"}
     \/ "error" \in ReportOf(w)
  THEN "done1" ELSE "done0"

Exit(w) ==
  /\ pc[w] = "next" /\ (todo[w] = {} \/ attempted[w] = MaxOf[w])
  /\ pc' = [pc EXCEPT ![w] = ExitCode(w)]
  /\ UNCHANGED <<cycleVars, row, holder, todo, attempted, worked, child, unsettled>>

\* The run is killed (by the orchestrator's timeoutMinutes, say) or dies with its machine.
Crash(w) ==
  /\ w \in Mortal /\ pc[w] \in {"next", "cycle", "cancelling"}
  /\ pc' = [pc EXCEPT ![w] = "crashed"]
  /\ cycle' = [c \in Cycles |-> IF c[1] = w /\ Stage(c) \notin {"idle", "over"}
                                THEN [Over(c, "none") EXCEPT !.stage = "gone"] ELSE cycle[c]]
  /\ UNCHANGED <<net, capture, stored, received, row, holder, todo, attempted, worked, child, unsettled>>

-----------------------------------------------------------------------------
(* al-perf and the drivers *)

\* A stored profile fulfils its request; a request left alone expires.
Fulfil(r) ==
  /\ row[r] \in {"pending", "claimed"} /\ \E w \in Workers : IsStored(<<w, r>>)
  /\ row' = [row EXCEPT ![r] = "fulfilled"]
  /\ UNCHANGED <<cycleVars, holder, pc, todo, attempted, worked, child, unsettled>>

Expire(r) ==
  /\ r \in Expiring /\ row[r] \in {"pending", "claimed"}
  /\ row' = [row EXCEPT ![r] = "expired"]
  /\ UNCHANGED <<cycleVars, holder, pc, todo, attempted, worked, child, unsettled>>

\* The driver ends, or never started (a bad command counts as exited).
DriverExits(c) ==
  /\ child[c] = "running"
  /\ child' = [child EXCEPT ![c] = "exited"]
  /\ UNCHANGED <<cycleVars, row, holder, pc, todo, attempted, worked, unsettled>>

Invocation(w) ==
  \/ List(w) \/ ListFails(w) \/ Exit(w)
  \/ \E r \in Requests : Claim(w, r) \/ ClaimFails(w, r) \/ Settle(w, r) \/ Cancel(w, r) \/ CancelFails(w, r)

WorkerNext ==
  \/ \E w \in Workers : Invocation(w) \/ Crash(w)
  \/ \E c \in Cycles : Works(c) \/ DriverExits(c)
  \/ \E r \in Requests : Fulfil(r) \/ Expire(r)

\* The process runs, its timers fire, the al-perf CLI and the converter exit, and a broken upload
\* connection fails in the end.  No server has to answer.
Advance(w) == Invocation(w) \/ \E r \in Requests : OwnStep(<<w, r>>) /\ Works(<<w, r>>)

WorkerSpec == WorkerInit /\ [][WorkerNext]_workerVars /\ \A w \in Workers : WF_workerVars(Advance(w))

-----------------------------------------------------------------------------
(* Properties *)

Ended(w) == pc[w] \in {"done0", "done1"}

\* A cycle runs only under a claim its invocation won, and an invocation that ended leaves no request
\* claimed without a reason: it was serviced, it is to be kept, or the CLI failed to cancel it.  What
\* it reported as shipped it did not cancel.
ClaimsSettled ==
  /\ WorkerTypeOK
  /\ \A w \in Workers, r \in Requests :
    LET c == <<w, r>> IN
    /\ Stage(c) # "idle" => holder[r] = w
    /\ Ended(w) /\ holder[r] = w /\ row[r] = "claimed" =>
         Serviced(c) \/ w \in KeepClaim \/ c \in unsettled
    /\ worked[w][r].released => row[r] = "cancelled" /\ Kind(c) \in {"error", "no-capture"}

\* "0 worked a request to a terminal outcome (shipped/duplicate/no-capture/dry-run) or the queue was
\* empty": behind the exit code 0 every claim won has its profile in al-perf, or its capture bound no
\* session, or it was a dry run.
SuccessMeansShipped ==
  \A w \in Workers, r \in Requests :
    pc[w] = "done0" /\ holder[r] = w =>
      \/ IsStored(<<w, r>>)
      \/ <<w, r>> \in DryRun /\ "zip" \in cycle[<<w, r>>].disk
      \/ cycle[<<w, r>>].outcome = "no-capture" /\ capture[<<w, r>>] = "empty"

\* A workload drives its routine only while the capture of its own request is under way: never before
\* it is armed, and never, unless told to stop, beside the invocation's next cycle or after its end.
WorkloadWithinCycle ==
  \A c \in Cycles : child[c] = "running" =>
    /\ Stage(c) \notin {"idle", "preflight", "arming"}
    /\ pc[c[1]] = "crashed" \/ (pc[c[1]] = "cycle" /\ At(c[1], c[2]))

\* A claim is never cancelled without the cycle having been run for it: "run the capture-and-ship
\* cycle against it (unchanged)" (docs/capture-queue-worker.md).
CancelledAfterCycle ==
  \A c \in Cycles : worked[c[1]][c[2]].released => cycle[c].outcome # "threw" \/ capture[c] # "none"

\* The outside agrees with what the invocation tells it: its claims, its exit code and its driver.
RunTruthful == ClaimsSettled /\ SuccessMeansShipped /\ WorkloadWithinCycle

\* Every invocation ends, whichever server stays silent: no request can wedge a scheduled run.
InvocationEnds == []<>(\A w \in Workers : Ended(w) \/ pc[w] = "crashed")
=============================================================================
