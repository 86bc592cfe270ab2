-------------------------- MODULE MCOrchestration ---------------------------
(***************************************************************************)
(* Unattended captures: the daemon that starts capture jobs on a schedule,  *)
(* and the queue worker such a job runs.  To the daemon a job is a child    *)
(* that exits, and the worker does not know who started it: they share no   *)
(* state and are checked side by side in one state space.  `part' says      *)
(* which of them a behaviour is of; the other keeps one initial state.      *)
(***************************************************************************)
EXTENDS QueueWorker, Scheduler, TLC

(* Two invocations on two requests: w1 works both as dry runs whose claims
   it keeps, w2 asks for the second one and ships it, deleting the files,
   and drives a workload. *)
CONSTANTS w1, w2
MCRequests == 1..2
MCCycles   == Workers \X MCRequests
MCMaxOf    == w1 :> 2 @@ w2 :> 1
MCListed   == w1 :> MCRequests @@ w2 :> {2}
MCDryRun   == {w1} \X MCRequests

\* a short job with jitter and retries beside a longer one without a timeout, whose wait exceeds the
\* timer's limit
CONSTANTS often, seldom
MCPeriod == often :> 2 @@ seldom :> 4
MCJitter == often :> 1 @@ seldom :> 0
MCAttempts == often :> 2 @@ seldom :> 1
MCRetryDelay == often :> 1 @@ seldom :> 0

VARIABLE part

OfWorker(A) == part = "worker" /\ A /\ UNCHANGED <<part, vars>>
OfDaemon(A) == part = "daemon" /\ A /\ UNCHANGED <<part, workerVars>>

MCInit ==
  /\ part \in {"worker", "daemon"}
  /\ WorkerInit /\ Init
  /\ part # "daemon" => \A j \in Jobs : job[j].nextScheduledAt = Period[j]

MCNext == OfWorker(WorkerNext) \/ OfDaemon(Next)

MCVars == <<part, workerVars, vars>>

MCSpec ==
  /\ MCInit /\ [][MCNext]_MCVars
  /\ \A w \in Workers : WF_MCVars(OfWorker(Advance(w)))
  /\ WF_MCVars(OfDaemon(Tick)) /\ WF_MCVars(OfDaemon(Minute)) /\ WF_MCVars(OfDaemon(GraceExpires))
  /\ \A j \in Jobs \ Untimed : WF_MCVars(OfDaemon(ChildExits(j)))

(* No run is ever stuck: every invocation of the worker ends, whichever server
   stays silent; new occurrences of every job keep being run, whatever overlaps
   were skipped, whatever chains of retries failed and whatever other job hangs,
   unless its own child runs for ever, which timeoutMinutes = 0 permits; and the
   daemon ends when it is told to, hung children or not. *)
RunsProceed ==
  /\ part = "worker" => InvocationEnds
  /\ \A j \in Jobs :
       \/ []<>(part # "daemon" \/ mode # "on" \/ j \in begun)
       \/ j \in Untimed /\ <>[](job[j].children > 0)
  /\ ShutdownEnds
=============================================================================
