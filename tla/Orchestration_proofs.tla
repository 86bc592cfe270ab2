------------------------ MODULE Orchestration_proofs ------------------------
(***************************************************************************)
(* Proofs about unattended captures: the capture cycles and invocations of  *)
(* the queue worker (QueueWorker), for any number of invocations, requests, *)
(* polls and uploads; and the daemon (Scheduler), for every set of jobs,    *)
(* every period, jitter and retry policy.                                   *)
(***************************************************************************)
EXTENDS QueueWorker, Scheduler, FiniteSetTheorems, TLAPS

-----------------------------------------------------------------------------
(* The queue worker *)

CycleRecord ==
  [stage : Stages, outcome : Outcomes, polls : Nat, attempts : Nat, disk : SUBSET Files]

\* Only a cycle that is over has an outcome, and an unshipped one left everything on disk.
RecordOK(x) ==
  /\ x.stage \notin {"over", "gone"} => x.outcome = "none"
  /\ x.outcome = "unshipped" => x.disk = Files

\* What al-perf stored is keyed by the activityId it came from: this is why a retry is recognised.
StoredByKey == \A p \in stored : p.key = p.of

\* A recording is on disk or at al-perf.
Kept == \A c \in received : "zip" \in cycle[c].disk \/ IsStored(c)

ShipInv ==
  /\ cycle \in [Cycles -> CycleRecord] /\ \A c \in Cycles : RecordOK(cycle[c])
  /\ stored \subseteq [key : Cycles, of : Cycles] /\ StoredByKey
  /\ received \subseteq Cycles /\ Kept

\* The invariant implies what is to be shown.
LEMMA ShipInvImplies == ShipInv => ShipsExactly
<1> SUFFICES ASSUME ShipInv PROVE NoRecordingLost /\ StoredOnce
  BY DEF ShipsExactly
<1>1. NoRecordingLost
  BY DEF ShipInv, NoRecordingLost, Kept, RecordOK
<1>2. StoredOnce
  BY DEF ShipInv, StoredOnce, StoredByKey
<1> QED
  BY <1>1, <1>2

\* The record of a cycle that moves to another stage, or ends.
LEMMA RecordMoved ==
  ASSUME NEW x \in CycleRecord, NEW s \in Stages
  PROVE  /\ [x EXCEPT !.stage = s] \in CycleRecord
         /\ [x EXCEPT !.stage = s].stage = s
         /\ [x EXCEPT !.stage = s].outcome = x.outcome
         /\ [x EXCEPT !.stage = s].disk = x.disk
BY DEF CycleRecord

LEMMA RecordOver ==
  ASSUME NEW x \in CycleRecord, NEW o \in Outcomes
  PROVE  LET y == [x EXCEPT !.stage = "over", !.outcome = o, !.polls = 0, !.attempts = 0]
         IN  y \in CycleRecord /\ y.stage = "over" /\ y.outcome = o /\ y.disk = x.disk
BY DEF CycleRecord, Stages

\* A step that replaces the record of one cycle, and loses nothing.
LEMMA OneCycle ==
  ASSUME ShipInv, NEW c \in Cycles, NEW x \in CycleRecord, RecordOK(x),
         cycle' = [cycle EXCEPT ![c] = x],
         stored \subseteq stored', stored' \subseteq [key : Cycles, of : Cycles], StoredByKey',
         received' \in {received, received \cup {c}},
         c \in received' => "zip" \in x.disk \/ IsStored(c)'
  PROVE  ShipInv'
<1>1. cycle' \in [Cycles -> CycleRecord] /\ \A d \in Cycles : RecordOK(cycle'[d])
  BY DEF ShipInv
<1>2. received' \subseteq Cycles
  BY DEF ShipInv
<1>3. ASSUME NEW d \in received' PROVE "zip" \in cycle'[d].disk \/ IsStored(d)'
  <2>1. CASE d = c
    BY <1>3, <2>1 DEF ShipInv
  <2>2. CASE d # c
    BY <1>3, <2>2 DEF ShipInv, Kept, IsStored
  <2> QED
    BY <2>1, <2>2
<1> QED
  BY <1>1, <1>2, <1>3 DEF ShipInv, Kept, RecordOK

\* A step that leaves the cycles, the profiles and the recordings alone.
LEMMA NoCycle ==
  ASSUME ShipInv, UNCHANGED <<cycle, stored, received>>
  PROVE  ShipInv'
BY DEF ShipInv, RecordOK, StoredByKey, Kept, IsStored

\* A cycle that is under way has no outcome, and its files and recording are as the invariant says.
LEMMA UnderWay ==
  ASSUME ShipInv, NEW c \in Cycles, Stage(c) \notin {"over", "gone"}
  PROVE  /\ cycle[c] \in CycleRecord /\ cycle[c].outcome = "none" /\ cycle[c].disk \subseteq Files
         /\ c \in received => "zip" \in cycle[c].disk \/ IsStored(c)
BY DEF ShipInv, RecordOK, Kept, CycleRecord, Stage

\* What Over makes of the record of a cycle.
LEMMA OverTyped ==
  ASSUME NEW c \in Cycles, cycle[c] \in CycleRecord, NEW o \in Outcomes
  PROVE  /\ Over(c, o) \in CycleRecord
         /\ Over(c, o).outcome = o /\ Over(c, o).stage = "over"
         /\ Over(c, o).disk = cycle[c].disk
BY RecordOver DEF Over

\* To move to another stage loses nothing.
LEMMA GoesOn ==
  ASSUME ShipInv, NEW c \in Cycles, Stage(c) \notin {"over", "gone"},
         NEW s \in Stages \ {"over", "gone"}, GoTo(c, s), UNCHANGED <<stored, received>>
  PROVE  ShipInv'
<1> DEFINE x == [cycle[c] EXCEPT !.stage = s]
<1>1. x \in CycleRecord /\ x.outcome = "none" /\ x.stage = s /\ x.disk = cycle[c].disk
  BY UnderWay, RecordMoved
<1>2. cycle' = [cycle EXCEPT ![c] = x]
  BY DEF GoTo
<1>3. RecordOK(x)
  BY <1>1 DEF RecordOK
<1>4. IsStored(c) => IsStored(c)'
  BY DEF IsStored
<1>5. StoredByKey' /\ stored' \subseteq [key : Cycles, of : Cycles]
  BY DEF ShipInv, StoredByKey
<1> HIDE DEF x
<1> QED
  BY <1>1, <1>2, <1>3, <1>4, <1>5, UnderWay, OneCycle

\* To end as anything but unshipped keeps the files.
LEMMA EndsWell ==
  ASSUME ShipInv, NEW c \in Cycles, Stage(c) \notin {"over", "gone"},
         NEW o \in Outcomes \ {"unshipped"}, Ends(c, o), UNCHANGED <<stored, received>>
  PROVE  ShipInv'
<1> DEFINE x == Over(c, o)
<1>1. x \in CycleRecord /\ x.outcome = o /\ x.stage = "over" /\ x.disk = cycle[c].disk
  BY UnderWay, OverTyped
<1>2. cycle' = [cycle EXCEPT ![c] = x]
  BY DEF Ends
<1>3. RecordOK(x)
  BY <1>1 DEF RecordOK
<1>4. IsStored(c) => IsStored(c)'
  BY DEF IsStored
<1>5. StoredByKey' /\ stored' \subseteq [key : Cycles, of : Cycles]
  BY DEF ShipInv, StoredByKey
<1> HIDE DEF x
<1> QED
  BY <1>1, <1>2, <1>3, <1>4, <1>5, UnderWay, OneCycle

\* To replace the record of a cycle by one that is over, or has no outcome, and keeps its recording.
LEMMA EndsWith ==
  ASSUME ShipInv, NEW c \in Cycles, Stage(c) \notin {"over", "gone"}, NEW x \in CycleRecord,
         RecordOK(x), "zip" \in cycle[c].disk => "zip" \in x.disk,
         cycle' = [cycle EXCEPT ![c] = x], UNCHANGED <<stored, received>>
  PROVE  ShipInv'
<1>1. IsStored(c) => IsStored(c)'
  BY DEF IsStored
<1>2. StoredByKey' /\ stored' \subseteq [key : Cycles, of : Cycles]
  BY DEF ShipInv, StoredByKey
<1> QED
  BY <1>1, <1>2, UnderWay, OneCycle

\* Artifacts that are kept are the recording at least, and all of them beside an unshipped one.
LEMMA RetainedOK ==
  ASSUME ShipInv, NEW c \in Cycles, Stage(c) \notin {"over", "gone"},
         NEW o \in Outcomes \ {"none"}, NEW end \in Retained(c, o)
  PROVE  end \in CycleRecord /\ RecordOK(end) /\ "zip" \in end.disk
<1>1. PICK oo \in Outcomes, kept \in SUBSET Files :
        /\ end = [Over(c, oo) EXCEPT !.disk = kept]
        /\ "zip" \in kept /\ (oo = "unshipped" => kept = Files)
  BY DEF Retained, Files, Outcomes
<1> DEFINE x == Over(c, oo)
<1>2. x \in CycleRecord /\ x.outcome = oo /\ x.stage = "over"
  BY UnderWay, OverTyped
<1> HIDE DEF x
<1>3. /\ [x EXCEPT !.disk = kept] \in CycleRecord
      /\ [x EXCEPT !.disk = kept].disk = kept
      /\ [x EXCEPT !.disk = kept].outcome = oo /\ [x EXCEPT !.disk = kept].stage = "over"
  BY <1>2 DEF CycleRecord
<1> QED
  BY <1>1, <1>3 DEF RecordOK, x

\* A recording that is not shipped is kept.
LEMMA LeftUnshippedOK ==
  ASSUME ShipInv, NEW c \in Cycles, Stage(c) \notin {"over", "gone"}, LeftUnshipped(c),
         UNCHANGED <<stored, received>>
  PROVE  ShipInv'
<1>1. PICK end \in Retained(c, "unshipped") : cycle' = [cycle EXCEPT ![c] = end]
  BY DEF LeftUnshipped
<1>2. end \in CycleRecord /\ RecordOK(end) /\ "zip" \in end.disk
  BY RetainedOK DEF Outcomes
<1> QED
  BY <1>1, <1>2, EndsWith

\* A cycle that ends otherwise may have added files.
LEMMA KeepsFiles ==
  ASSUME ShipInv, NEW c \in Cycles, Stage(c) \notin {"over", "gone"},
         NEW o \in Outcomes \ {"unshipped"}, NEW made \in SUBSET Files
  PROVE  LET y == [Over(c, o) EXCEPT !.disk = @ \cup made]
         IN  y \in CycleRecord /\ RecordOK(y) /\ cycle[c].disk \subseteq y.disk
<1>1. /\ Over(c, o) \in CycleRecord /\ Over(c, o).outcome = o /\ Over(c, o).stage = "over"
      /\ Over(c, o).disk = cycle[c].disk
  BY UnderWay, OverTyped
<1> DEFINE x == Over(c, o)
           y == [x EXCEPT !.disk = @ \cup made]
<1> HIDE DEF x
<1>2. y \in CycleRecord /\ y.disk = x.disk \cup made /\ y.outcome = o /\ y.stage = "over"
  BY <1>1 DEF CycleRecord, x
<1> QED
  BY <1>1, <1>2 DEF RecordOK, x

\* A step the cycle takes by itself loses nothing.
LEMMA OwnStepOK ==
  ASSUME ShipInv, NEW c \in Cycles, OwnStep(c)
  PROVE  ShipInv'
<1>1. CASE Preflight(c)
  BY <1>1, GoesOn DEF Preflight, Stages
<1>2. CASE PreflightFails(c)
  BY <1>2, EndsWell DEF PreflightFails, Outcomes
<1>3. CASE AttachUnanswered(c)
  BY <1>3, EndsWell DEF AttachUnanswered, Outcomes
<1>4. CASE PollContinues(c)
  <2> DEFINE x == [cycle[c] EXCEPT !.polls = @ + 1]
  <2>1. cycle' = [cycle EXCEPT ![c] = x] /\ Stage(c) = "window" /\ UNCHANGED <<stored, received>>
    BY <1>4 DEF PollContinues, Polled
  <2>2. x \in CycleRecord /\ x.outcome = "none" /\ x.disk = cycle[c].disk
    BY <2>1, UnderWay DEF CycleRecord
  <2>3. RecordOK(x)
    BY <2>2 DEF RecordOK
  <2> HIDE DEF x
  <2> QED
    BY <2>1, <2>2, <2>3, EndsWith
<1>5. CASE PollFailed(c)
  BY <1>5, GoesOn DEF PollFailed, Polled, AskFinish, Stages
<1>6. CASE PollFinished(c)
  BY <1>6, GoesOn DEF PollFinished, Polled, AskFinish, Stages
<1>7. CASE WindowEnds(c)
  BY <1>7, GoesOn DEF WindowEnds, AskFinish, Stages
<1>8. CASE FinishUnanswered(c)
  BY <1>8, EndsWell DEF FinishUnanswered, Outcomes
<1>9. CASE ConvertFails(c)
  <2>1. PICK made \in SUBSET {"ir"}, o \in {"error", "threw"} :
          cycle' = [cycle EXCEPT ![c] = [Over(c, o) EXCEPT !.disk = @ \cup made]]
    BY <1>9 DEF ConvertFails
  <2>2. Stage(c) = "converting" /\ UNCHANGED <<stored, received>>
    BY <1>9 DEF ConvertFails
  <2> QED
    BY <2>1, <2>2, KeepsFiles, EndsWith DEF Files, Outcomes
<1>10. CASE OverBudget(c)
  BY <1>10, LeftUnshippedOK DEF OverBudget
<1>11. CASE ConvertDry(c)
  BY <1>11, KeepsFiles, EndsWith DEF ConvertDry, Files, Outcomes
<1>12. CASE Ship(c)
  <2> DEFINE x == [cycle[c] EXCEPT !.stage = "shipping", !.attempts = 1, !.disk = @ \cup {"ir"}]
  <2>1. cycle' = [cycle EXCEPT ![c] = x] /\ Stage(c) = "converting" /\ UNCHANGED <<stored, received>>
    BY <1>12 DEF Ship
  <2>2. x \in CycleRecord /\ x.outcome = "none" /\ cycle[c].disk \subseteq x.disk
    BY <2>1, UnderWay DEF CycleRecord, Stages, Files
  <2>3. RecordOK(x)
    BY <2>2 DEF RecordOK
  <2> HIDE DEF x
  <2> QED
    BY <2>1, <2>2, <2>3, EndsWith
<1>13. CASE PostFails(c)
  <2>1. CASE GoTo(c, "backoff")
    BY <1>13, <2>1, GoesOn DEF PostFails, Stages
  <2>2. CASE LeftUnshipped(c)
    BY <1>13, <2>2, LeftUnshippedOK DEF PostFails
  <2> QED
    BY <1>13, <2>1, <2>2 DEF PostFails
<1>14. CASE Retry(c)
  <2> DEFINE x == [cycle[c] EXCEPT !.stage = "shipping", !.attempts = @ + 1]
  <2>1. cycle' = [cycle EXCEPT ![c] = x] /\ Stage(c) = "backoff" /\ UNCHANGED <<stored, received>>
    BY <1>14 DEF Retry
  <2>2. x \in CycleRecord /\ x.outcome = "none" /\ cycle[c].disk = x.disk
    <3>1. cycle[c] \in CycleRecord /\ cycle[c].outcome = "none"
      BY <2>1, UnderWay
    <3>2. cycle[c].attempts + 1 \in Nat
      BY <3>1 DEF CycleRecord
    <3> QED
      BY <3>1, <3>2 DEF CycleRecord, Stages
  <2>3. RecordOK(x)
    BY <2>2 DEF RecordOK
  <2> HIDE DEF x
  <2> QED
    BY <2>1, <2>2, <2>3, EndsWith
<1> QED
  BY <1>1, <1>2, <1>3, <1>4, <1>5, <1>6, <1>7, <1>8, <1>9, <1>10, <1>11, <1>12, <1>13, <1>14 DEF OwnStep

\* What a shipped cycle is left with.
LEMMA ShippedOK ==
  ASSUME ShipInv, NEW c \in Cycles, Stage(c) \notin {"over", "gone"},
         NEW o \in {"shipped", "duplicate"}, NEW end \in Shipped(c, o)
  PROVE  end \in CycleRecord /\ RecordOK(end)
<1>1. CASE c \in KeepArtifacts
  BY <1>1, RetainedOK DEF Shipped, Outcomes
<1>2. CASE c \notin KeepArtifacts
  <2> DEFINE x == Over(c, o)
             d == x.disk \ {"zip", "ir"}
  <2>1. x \in CycleRecord /\ x.outcome = o /\ x.stage = "over"
    BY UnderWay, OverTyped DEF Outcomes
  <2>2. end = [x EXCEPT !.disk = d]
    BY <1>2 DEF Shipped
  <2> HIDE DEF x
  <2>3. d \in SUBSET Files
    BY <2>1 DEF CycleRecord
  <2> HIDE DEF d
  <2>4. /\ [x EXCEPT !.disk = d] \in CycleRecord
        /\ [x EXCEPT !.disk = d].outcome = o /\ [x EXCEPT !.disk = d].stage = "over"
    BY <2>1, <2>3 DEF CycleRecord
  <2> QED
    BY <2>2, <2>4 DEF RecordOK
<1> QED
  BY <1>1, <1>2

\* A step of the servers loses nothing: only an awaited answer to an upload lets files go.
LEMMA ServerStepOK ==
  ASSUME ShipInv, NEW c \in Cycles, ServerStep(c)
  PROVE  ShipInv'
<1>1. CASE ServerAttaches(c)
  <2>1. CASE Stage(c) = "arming"
    BY <1>1, <2>1, GoesOn DEF ServerAttaches, Stages
  <2>2. CASE Stage(c) # "arming"
    BY <1>1, <2>2, NoCycle DEF ServerAttaches
  <2> QED
    BY <2>1, <2>2
<1>2. CASE ServerRefusesAttach(c)
  BY <1>2, EndsWell DEF ServerRefusesAttach, Outcomes
<1>3. CASE ServerFinishesEmpty(c)
  BY <1>3, EndsWell DEF ServerFinishesEmpty, Outcomes
<1>4. CASE ServerHandsOut(c)
  <2> DEFINE x == [cycle[c] EXCEPT !.stage = "converting", !.disk = {"zip"}]
  <2>1. /\ cycle' = [cycle EXCEPT ![c] = x] /\ Stage(c) = "finishing"
        /\ stored' = stored /\ received' = received \cup {c}
    BY <1>4 DEF ServerHandsOut
  <2>2. x \in CycleRecord /\ x.outcome = "none" /\ "zip" \in x.disk
    BY <2>1, UnderWay DEF CycleRecord, Stages, Files
  <2>3. RecordOK(x)
    BY <2>2 DEF RecordOK
  <2>4. StoredByKey' /\ stored' \subseteq [key : Cycles, of : Cycles]
    BY <2>1 DEF ShipInv, StoredByKey
  <2> HIDE DEF x
  <2> QED
    BY <2>1, <2>2, <2>3, <2>4, OneCycle
<1>5. CASE HandedInVain(c)
  <2>1. PICK o \in {"error", "threw"} : Ends(c, o)
    BY <1>5 DEF HandedInVain
  <2> QED
    BY <1>5, <2>1, EndsWell DEF HandedInVain, Outcomes
<1>6. CASE ServerRefusesFinish(c)
  BY <1>6, EndsWell DEF ServerRefusesFinish, Outcomes
<1>7. ASSUME NEW n \in 1..MaxTries, ServerIngests(c, n) PROVE ShipInv'
  <2>1. /\ IsStored(c)' /\ StoredByKey'
        /\ stored \subseteq stored' /\ stored' \subseteq [key : Cycles, of : Cycles]
    <3>1. CASE Known(c)
      BY <1>7, <3>1 DEF ServerIngests, IdempotencyKey, Known, IsStored, ShipInv, StoredByKey
    <3>2. CASE ~Known(c)
      <4> DEFINE p == [key |-> c, of |-> c]
      <4>1. stored' = stored \cup {p}
        BY <1>7, <3>2 DEF ServerIngests, IdempotencyKey
      <4>2. p \in [key : Cycles, of : Cycles] /\ p.key = c /\ p.of = c
        OBVIOUS
      <4> HIDE DEF p
      <4> QED
        BY <4>1, <4>2 DEF IsStored, ShipInv, StoredByKey
    <3> QED
      BY <3>1, <3>2
  <2>2. CASE Awaits(c, n)
    <3>1. PICK o \in {"shipped", "duplicate"} :
            \E end \in Shipped(c, o) : cycle' = [cycle EXCEPT ![c] = end]
      BY <1>7, <2>2 DEF ServerIngests
    <3> PICK end \in Shipped(c, o) : cycle' = [cycle EXCEPT ![c] = end]
      BY <3>1
    <3>2. end \in CycleRecord /\ RecordOK(end)
      BY <2>2, ShippedOK DEF Awaits
    <3> QED
      BY <1>7, <2>1, <3>2, OneCycle DEF ServerIngests
  <2>3. CASE ~Awaits(c, n)
    <3>1. UNCHANGED <<cycle, received>>
      BY <1>7, <2>3 DEF ServerIngests
    <3> QED
      BY <2>1, <3>1 DEF ShipInv, RecordOK, Kept, IsStored
  <2> QED
    BY <2>2, <2>3
<1>8. ASSUME NEW n \in 1..MaxTries, ServerRejects(c, n) PROVE ShipInv'
  BY <1>8, LeftUnshippedOK DEF ServerRejects, Awaits
<1>9. CASE SessionBinds(c) \/ SessionEnds(c) \/ CaptureFails(c) \/ ServerForgets(c)
  BY <1>9, NoCycle DEF SessionBinds, SessionEnds, CaptureFails, ServerForgets, Becomes
<1> QED
  BY <1>1, <1>2, <1>3, <1>4, <1>5, <1>6, <1>7, <1>8, <1>9 DEF ServerStep

\* A killed invocation leaves the files of its cycles where they are.
LEMMA CrashOK ==
  ASSUME ShipInv, NEW w \in Workers, Crash(w)
  PROVE  ShipInv'
<1> DEFINE x(c) == [Over(c, "none") EXCEPT !.stage = "gone"]
<1>1. ASSUME NEW c \in Cycles
      PROVE  /\ x(c) \in CycleRecord /\ RecordOK(x(c)) /\ x(c).disk = cycle[c].disk
  <2>1. Over(c, "none") \in CycleRecord /\ Over(c, "none").outcome = "none"
        /\ Over(c, "none").disk = cycle[c].disk
    BY OverTyped DEF ShipInv, Outcomes
  <2>2. /\ x(c) \in CycleRecord /\ x(c).outcome = "none" /\ x(c).disk = cycle[c].disk
    BY <2>1, RecordMoved DEF Stages
  <2> QED
    BY <2>2 DEF RecordOK
<1>2. ASSUME NEW c \in Cycles PROVE cycle'[c] = x(c) \/ cycle'[c] = cycle[c]
  BY DEF Crash
<1>3. cycle' = [c \in Cycles |-> cycle'[c]]
  BY DEF Crash
<1> HIDE DEF x
<1>4. \A c \in Cycles : /\ cycle'[c] \in CycleRecord /\ RecordOK(cycle'[c])
                       /\ cycle'[c].disk = cycle[c].disk
  BY <1>1, <1>2 DEF ShipInv
<1>5. UNCHANGED <<stored, received>>
  BY DEF Crash
<1> QED
  BY <1>3, <1>4, <1>5 DEF ShipInv, RecordOK, StoredByKey, Kept, IsStored

\* No recording that reached the disk is ever lost, and al-perf stores a capture at most once,
\* whichever requests are lost, retried or taken late and whichever runs are killed.
THEOREM CapturesShipped == WorkerSpec => []ShipsExactly
<1>1. WorkerInit => ShipInv
  BY DEF WorkerInit, CycleInit, ShipInv, CycleRecord, Stages, Outcomes, RecordOK, StoredByKey, Kept
<1>2. ShipInv /\ [WorkerNext]_workerVars => ShipInv'
  <2> SUFFICES ASSUME ShipInv, [WorkerNext]_workerVars PROVE ShipInv'
    OBVIOUS
  <2>1. ASSUME NEW w \in Workers, Invocation(w) PROVE ShipInv'
    <3>1. CASE List(w) \/ ListFails(w) \/ Exit(w)
      BY <3>1, NoCycle DEF List, ListFails, Exit, cycleVars
    <3>2. ASSUME NEW r \in Requests, Claim(w, r) PROVE ShipInv'
      <4>1. <<w, r>> \in Cycles /\ Begin(<<w, r>>)
        BY <3>2, QueueAssumption DEF Claim
      <4> QED
        BY <4>1, GoesOn, EndsWell DEF Begin, Stages, Outcomes
    <3>3. ASSUME NEW r \in Requests,
                 ClaimFails(w, r) \/ Settle(w, r) \/ Cancel(w, r) \/ CancelFails(w, r)
          PROVE  ShipInv'
      BY <3>3, NoCycle DEF ClaimFails, Settle, Cancel, CancelFails, Cancels, cycleVars
    <3> QED
      BY <2>1, <3>1, <3>2, <3>3 DEF Invocation
  <2>2. ASSUME NEW w \in Workers, Crash(w) PROVE ShipInv'
    BY <2>2, CrashOK
  <2>3. ASSUME NEW c \in Cycles, Works(c) PROVE ShipInv'
    BY <2>3, OwnStepOK, ServerStepOK DEF Works, CycleStep
  <2>4. ASSUME NEW c \in Cycles, DriverExits(c) PROVE ShipInv'
    BY <2>4, NoCycle DEF DriverExits, cycleVars
  <2>5. ASSUME NEW r \in Requests, Fulfil(r) \/ Expire(r) PROVE ShipInv'
    BY <2>5, NoCycle DEF Fulfil, Expire, cycleVars
  <2>6. CASE UNCHANGED workerVars
    BY <2>6, NoCycle DEF workerVars, cycleVars
  <2> QED
    BY <2>1, <2>2, <2>3, <2>4, <2>5, <2>6 DEF WorkerNext
<1> QED
  BY <1>1, <1>2, ShipInvImplies, PTL DEF WorkerSpec
-----------------------------------------------------------------------------
(* The worker tells the truth *)

CycleType == [stage : Stages, outcome : Outcomes, polls : 0..MaxPolls, attempts : 0..MaxTries, disk : SUBSET Files]

\* What the record of a cycle that runs, or is over, says of itself.
Sound(x, c) ==
  /\ x.stage = "over" <=> x.outcome # "none"
  /\ x.stage = "backoff" => x.attempts < MaxTries
  /\ x.stage = "converting" => "zip" \in x.disk
  /\ x.outcome = "dry-run" => c \in DryRun /\ "zip" \in x.disk

\* What it says of the servers: the attach of a cycle that got further has been taken, so that a capture
\* that bound nothing stays one.
Told(x, c) ==
  /\ x.outcome \in {"shipped", "duplicate"} => IsStored(c)
  /\ x.outcome = "no-capture" => capture[c] = "empty"
  /\ Sent(c, "attach", 0) \in net =>
       x.stage = "arming" \/ (x.stage \in {"over", "gone"} /\ x.outcome \in {"error", "none"})

CyclesInv == CycleTypeOK /\ StoredByKey /\ \A c \in Cycles : Sound(cycle[c], c) /\ Told(cycle[c], c)

Working(w, r) == pc[w] \in {"cycle", "cancelling"} /\ At(w, r)

\* What is left of a claim when its row has been done with.
Reported(w, r) ==
  /\ r \notin todo[w] /\ Stage(<<w, r>>) = "over"
  /\ worked[w][r].outcome = Kind(<<w, r>>)
  /\ row[r] = "claimed" => Keeps(<<w, r>>) \/ <<w, r>> \in unsettled

ClaimInv(w, r) ==
  /\ row[r] = "pending" => holder[r] = NoWorker
  /\ Stage(<<w, r>>) = "idle" <=> holder[r] # w
  /\ pc[w] = "start" => holder[r] # w
  /\ holder[r] = w => Working(w, r) \/ pc[w] = "crashed" \/ Reported(w, r)
  /\ pc[w] = "cycle" /\ At(w, r) => holder[r] = w /\ Stage(<<w, r>>) # "gone"
  /\ pc[w] = "cancelling" /\ At(w, r) => holder[r] = w /\ Stage(<<w, r>>) = "over" /\ ~Keeps(<<w, r>>)
  /\ pc[w] = "crashed" => Stage(<<w, r>>) \in {"idle", "over", "gone"}
  /\ Stage(<<w, r>>) = "gone" => pc[w] = "crashed"
  /\ worked[w][r].released => row[r] = "cancelled" /\ Kind(<<w, r>>) \in {"error", "no-capture"}

\* An invocation that works on a row is at one; it won as many claims as it holds; it reports no success
\* behind a failed cycle; and its drivers run within their cycles.
InvocationInv(w) ==
  /\ pc[w] \in {"cycle", "cancelling"} => \E r \in Requests : At(w, r)
  /\ attempted[w] = Cardinality({r \in Requests : holder[r] = w})
  /\ pc[w] = "done0" => "error" \notin ReportOf(w)

\* The inductive invariant of the worker.
WorkerInv ==
  /\ WorkerTypeOK /\ CyclesInv
  /\ \A w \in Workers : InvocationInv(w) /\ \A r \in Requests : ClaimInv(w, r)
  /\ WorkloadWithinCycle

\* What is known of a cycle.
LEMMA CycleFacts ==
  ASSUME CyclesInv, NEW c \in Cycles
  PROVE  /\ cycle[c] \in CycleType /\ cycle \in [Cycles -> CycleType] /\ Sound(cycle[c], c) /\ Told(cycle[c], c)
         /\ net \subseteq Request /\ capture \in [Cycles -> Captures] /\ stored \subseteq [key : Cycles, of : Cycles]
         /\ received \subseteq Cycles /\ StoredByKey
BY DEF CyclesInv, CycleTypeOK, CycleType

\* One cycle and its capture change; it sends requests, and profiles are stored.
LEMMA CycleKept ==
  ASSUME CyclesInv, NEW c \in Cycles, NEW x \in CycleType, Sound(x, c), cycle' = [cycle EXCEPT ![c] = x],
         net' \subseteq Request, \A m \in net' : m \in net \/ m.of = c,
         capture' \in [Cycles -> Captures], \A d \in Cycles : d # c => capture'[d] = capture[d],
         stored \subseteq stored', stored' \subseteq [key : Cycles, of : Cycles], StoredByKey',
         received' \subseteq Cycles, Told(x, c)'
  PROVE  CyclesInv'
<1>1. cycle' \in [Cycles -> CycleType]
  BY CycleFacts
<1>2. CycleTypeOK'
  BY <1>1 DEF CycleTypeOK, CycleType
<1>3. ASSUME NEW d \in Cycles PROVE (Sound(cycle[d], d) /\ Told(cycle[d], d))'
  <2>1. CASE d = c
    <3>1. cycle'[d] = x
      BY <2>1, CycleFacts
    <3> QED
      BY <2>1, <3>1 DEF Sound, Told
  <2>2. CASE d # c
    <3>1. cycle'[d] = cycle[d] /\ Sound(cycle[d], d) /\ Told(cycle[d], d) /\ capture'[d] = capture[d]
      BY <2>2, CycleFacts
    <3>2. IsStored(d) => IsStored(d)'
      BY DEF IsStored
    <3>3. Sent(d, "attach", 0) \in net' => Sent(d, "attach", 0) \in net
      BY <2>2 DEF Sent
    <3> QED
      BY <3>1, <3>2, <3>3 DEF Sound, Told
  <2> QED
    BY <2>1, <2>2
<1> QED
  BY <1>2, <1>3 DEF CyclesInv

\* A cycle takes a step of its own.
LEMMA OwnKept ==
  ASSUME CyclesInv, NEW c \in Cycles, NEW x \in CycleType, Sound(x, c), cycle' = [cycle EXCEPT ![c] = x],
         UNCHANGED <<capture, stored, received>>, Stage(c) \notin {"over", "gone"},
         NEW m \in Request, m.of = c, m.op # "attach", net' \in {net, net \cup {m}},
         x.outcome \notin {"shipped", "duplicate", "no-capture"},
         Stage(c) = "arming" => x.stage = "over" /\ x.outcome = "error"
  PROVE  CyclesInv'
<1>1. /\ net \subseteq Request /\ capture \in [Cycles -> Captures] /\ Told(cycle[c], c)
      /\ stored \subseteq [key : Cycles, of : Cycles] /\ received \subseteq Cycles /\ StoredByKey
  BY CycleFacts
<1>2. net' \subseteq Request /\ \A q \in net' : q \in net \/ q.of = c
  BY <1>1
<1>3. Sent(c, "attach", 0) \in net' => Sent(c, "attach", 0) \in net
  BY DEF Sent
<1>4. Told(x, c)'
  BY <1>1, <1>3 DEF Told, Stage
<1>5. StoredByKey'
  BY <1>1 DEF StoredByKey
<1> QED
  BY <1>1, <1>2, <1>4, <1>5, CycleKept

\* The record of a cycle that moves on, or ends.
LEMMA Moved ==
  ASSUME CyclesInv, NEW c \in Cycles, Stage(c) \notin {"over", "gone"},
         NEW s \in Stages \ {"over", "gone", "backoff", "converting"}
  PROVE  LET x == [cycle[c] EXCEPT !.stage = s]
         IN  x \in CycleType /\ Sound(x, c) /\ x.stage = s /\ x.outcome = "none"
<1>1. cycle[c] \in CycleType /\ Sound(cycle[c], c)
  BY CycleFacts
<1> DEFINE x == [cycle[c] EXCEPT !.stage = s]
<1>2. x \in CycleType /\ x.stage = s /\ x.outcome = cycle[c].outcome
  BY <1>1 DEF CycleType
<1> HIDE DEF x
<1>3. x.outcome = "none"
  BY <1>1, <1>2 DEF Sound, Stage
<1>4. Sound(x, c)
  BY <1>2, <1>3 DEF Sound
<1> QED
  BY <1>2, <1>3, <1>4 DEF x

LEMMA EndedRecord ==
  ASSUME CyclesInv, NEW c \in Cycles, NEW o \in Outcomes \ {"none", "dry-run"}, NEW made \in SUBSET Files
  PROVE  /\ Over(c, o) \in CycleType /\ Sound(Over(c, o), c)
         /\ Over(c, o).stage = "over" /\ Over(c, o).outcome = o /\ Over(c, o).disk = cycle[c].disk
         /\ LET y == [Over(c, o) EXCEPT !.disk = made]
            IN  y \in CycleType /\ Sound(y, c) /\ y.stage = "over" /\ y.outcome = o
<1>1. cycle[c] \in CycleType
  BY CycleFacts
<1>2. 0 \in 0..MaxPolls /\ 0 \in 0..MaxTries
  BY CycleAssumption
<1> DEFINE x == Over(c, o)
<1>3. x \in CycleType /\ x.stage = "over" /\ x.outcome = o /\ x.disk = cycle[c].disk
  BY <1>1, <1>2 DEF CycleType, Over, Stages
<1> HIDE DEF x
<1> DEFINE y == [x EXCEPT !.disk = made]
<1>4. y \in CycleType /\ y.stage = "over" /\ y.outcome = o
  BY <1>3 DEF CycleType
<1> HIDE DEF y
<1>5. Sound(x, c) /\ Sound(y, c)
  BY <1>3, <1>4 DEF Sound
<1> QED
  BY <1>3, <1>4, <1>5 DEF x, y

\* What a step of a cycle does to it: nothing, or it goes on, or it ends.
Moves(c) ==
  /\ cycle' = [cycle EXCEPT ![c] = cycle'[c]]
  /\ \/ cycle'[c] = cycle[c]
     \/ /\ Stage(c) \notin {"idle", "over", "gone"}
        /\ cycle'[c].stage \notin {"idle", "preflight", "gone"}
        /\ cycle'[c].stage = "arming" => Stage(c) = "preflight"

LEMMA MovesTo ==
  ASSUME CyclesInv, NEW c \in Cycles, Stage(c) \notin {"idle", "over", "gone"}, NEW x \in CycleType,
         cycle' = [cycle EXCEPT ![c] = x],
         x.stage \notin {"idle", "preflight", "gone"}, x.stage = "arming" => Stage(c) = "preflight"
  PROVE  Moves(c)
BY CycleFacts DEF Moves

LEMMA RequestsSent ==
  ASSUME NEW c \in Cycles
  PROVE  /\ Sent(c, "attach", 0) \in Request /\ Sent(c, "finish", 0) \in Request
         /\ Sent(c, "attach", 0).of = c
         /\ Sent(c, "finish", 0).of = c /\ Sent(c, "finish", 0).op # "attach"
         /\ \A n \in 0..MaxTries : Sent(c, "post", n) \in Request /\ Sent(c, "post", n).of = c
                                   /\ Sent(c, "post", n).op # "attach"
<1>1. 0 \in 0..MaxTries
  BY CycleAssumption
<1> QED
  BY <1>1 DEF Sent, Request

\* What OwnKept says of the two requests a cycle sends on its way: to hand the
\* recording out, and to store it.
LEMMA FinishKept ==
  ASSUME CyclesInv, NEW c \in Cycles, NEW x \in CycleType, Sound(x, c), cycle' = [cycle EXCEPT ![c] = x],
         UNCHANGED <<capture, stored, received>>, Stage(c) \notin {"over", "gone", "arming"},
         net' \in {net, net \cup {Sent(c, "finish", 0)}},
         x.outcome \notin {"shipped", "duplicate", "no-capture"}
  PROVE  CyclesInv'
<1>1. PICK m \in Request : m = Sent(c, "finish", 0) /\ m.of = c /\ m.op # "attach"
  BY RequestsSent
<1>2. net' \in {net, net \cup {m}}
  BY <1>1
<1> QED
  BY <1>1, <1>2, OwnKept

LEMMA PostKept ==
  ASSUME CyclesInv, NEW c \in Cycles, NEW x \in CycleType, Sound(x, c), cycle' = [cycle EXCEPT ![c] = x],
         UNCHANGED <<capture, stored, received>>, Stage(c) \notin {"over", "gone", "arming"},
         NEW n \in 0..MaxTries, net' = net \cup {Sent(c, "post", n)},
         x.outcome \notin {"shipped", "duplicate", "no-capture"}
  PROVE  CyclesInv'
<1>1. PICK m \in Request : m = Sent(c, "post", n) /\ m.of = c /\ m.op # "attach"
  BY RequestsSent
<1>2. net' \in {net, net \cup {m}}
  BY <1>1
<1> QED
  BY <1>1, <1>2, OwnKept

\* The cycle asks on, or goes to another stage, or fails.
LEMMA GoesOnSoundly ==
  ASSUME CyclesInv, NEW c \in Cycles, Stage(c) \notin {"idle", "over", "gone", "arming"},
         NEW s \in Stages \ {"idle", "preflight", "arming", "over", "gone", "backoff", "converting"}, GoTo(c, s),
         net' \in {net, net \cup {Sent(c, "finish", 0)}}, UNCHANGED <<capture, stored, received>>
  PROVE  CyclesInv' /\ Moves(c)
<1> DEFINE x == [cycle[c] EXCEPT !.stage = s]
<1>1. x \in CycleType /\ Sound(x, c) /\ x.stage = s /\ x.outcome = "none"
  BY Moved
<1>2. cycle' = [cycle EXCEPT ![c] = x]
  BY DEF GoTo
<1> HIDE DEF x
<1>3. CyclesInv'
  BY <1>1, <1>2, FinishKept
<1>4. Moves(c)
  BY <1>1, <1>2, MovesTo
<1> QED
  BY <1>3, <1>4

LEMMA EndsSoundly ==
  ASSUME CyclesInv, NEW c \in Cycles, Stage(c) \notin {"idle", "over", "gone"},
         NEW o \in {"error", "threw", "unshipped"}, Stage(c) = "arming" => o = "error",
         NEW x \in {Over(c, o)} \cup {[Over(c, o) EXCEPT !.disk = made] : made \in SUBSET Files},
         cycle' = [cycle EXCEPT ![c] = x], UNCHANGED <<net, capture, stored, received>>
  PROVE  CyclesInv' /\ Moves(c)
<1>1. x \in CycleType /\ Sound(x, c) /\ x.stage = "over" /\ x.outcome = o
  <2>1. o \in Outcomes \ {"none", "dry-run"}
    BY DEF Outcomes
  <2>2. CASE x = Over(c, o)
    BY <2>1, <2>2, EndedRecord
  <2>3. ASSUME NEW made \in SUBSET Files, x = [Over(c, o) EXCEPT !.disk = made]
        PROVE  x \in CycleType /\ Sound(x, c) /\ x.stage = "over" /\ x.outcome = o
    BY <2>1, <2>3, EndedRecord
  <2> QED
    BY <2>2, <2>3
<1>2. CyclesInv'
  <2>1. PICK m \in Request : m.of = c /\ m.op # "attach"
    BY RequestsSent
  <2>2. net' \in {net, net \cup {m}} /\ x.outcome \notin {"shipped", "duplicate", "no-capture"}
    BY <1>1
  <2> QED
    BY <1>1, <2>1, <2>2, OwnKept
<1>3. Moves(c)
  BY <1>1, MovesTo
<1> QED
  BY <1>2, <1>3

\* What a cycle whose artifacts are kept is left with.
LEMMA RetainedRecord ==
  ASSUME CyclesInv, NEW c \in Cycles, NEW o \in Outcomes \ {"none", "dry-run"}, NEW x \in Retained(c, o)
  PROVE  x \in CycleType /\ Sound(x, c) /\ x.stage = "over" /\ x.outcome \in {o, "threw"}
<1>1. "threw" \in Outcomes \ {"none", "dry-run"} /\ Files \in SUBSET Files /\ {"zip", "ir"} \in SUBSET Files
  BY DEF Outcomes, Files
<1>2. CASE x = [Over(c, o) EXCEPT !.disk = Files]
  BY <1>1, <1>2, EndedRecord
<1>3. CASE x = [Over(c, "threw") EXCEPT !.disk = {"zip", "ir"}]
  BY <1>1, <1>3, EndedRecord
<1> QED
  BY <1>2, <1>3 DEF Retained

LEMMA LeftUnshippedSound ==
  ASSUME CyclesInv, NEW c \in Cycles, Stage(c) \in {"converting", "shipping"}, LeftUnshipped(c),
         UNCHANGED <<net, capture, stored, received>>
  PROVE  CyclesInv' /\ Moves(c)
<1>1. PICK x \in Retained(c, "unshipped") : cycle' = [cycle EXCEPT ![c] = x]
  BY DEF LeftUnshipped
<1>2. PICK o \in {"threw", "unshipped"}, made \in SUBSET Files : x = [Over(c, o) EXCEPT !.disk = made]
  BY <1>1 DEF Retained, Files
<1> QED
  BY <1>1, <1>2, EndsSoundly

LEMMA OwnStepSound ==
  ASSUME CyclesInv, NEW c \in Cycles, OwnStep(c)
  PROVE  CyclesInv' /\ Moves(c)
<1>0. cycle[c] \in CycleType /\ Sound(cycle[c], c) /\ Told(cycle[c], c)
  BY CycleFacts
<1>1. CASE Preflight(c)
  <2>0. PICK x : x = [cycle[c] EXCEPT !.stage = "arming"]
    OBVIOUS
  <2>1. Stage(c) = "preflight" /\ net' = net \cup {Sent(c, "attach", 0)} /\ UNCHANGED <<capture, stored, received>>
    BY <1>1 DEF Preflight
  <2>2. x \in CycleType /\ Sound(x, c) /\ x.stage = "arming" /\ x.outcome = "none"
    BY <2>0, <2>1, Moved DEF Stages
  <2>3. cycle' = [cycle EXCEPT ![c] = x]
    BY <1>1, <2>0 DEF Preflight, GoTo
  <2>4. net' \subseteq Request /\ \A q \in net' : q \in net \/ q.of = c
    BY <2>1, CycleFacts, RequestsSent
  <2>5. Told(x, c)'
    BY <2>2 DEF Told
  <2>6. StoredByKey' /\ stored' \subseteq [key : Cycles, of : Cycles] /\ received' \subseteq Cycles
        /\ capture' \in [Cycles -> Captures]
    BY <2>1, CycleFacts DEF StoredByKey
  <2>7. CyclesInv'
    BY <2>1, <2>2, <2>3, <2>4, <2>5, <2>6, CycleKept
  <2>8. Moves(c)
    BY <2>1, <2>2, <2>3, MovesTo
  <2> QED
    BY <2>7, <2>8
<1>2. CASE PreflightFails(c)
  BY <1>2, EndsSoundly DEF PreflightFails, Ends
<1>3. CASE AttachUnanswered(c)
  BY <1>3, EndsSoundly DEF AttachUnanswered, Ends
<1>4. CASE PollContinues(c)
  <2> DEFINE x == [cycle[c] EXCEPT !.polls = cycle[c].polls + 1]
  <2>1. /\ cycle' = [cycle EXCEPT ![c] = x] /\ Stage(c) = "window" /\ cycle[c].polls < MaxPolls
        /\ UNCHANGED <<net, capture, stored, received>>
    BY <1>4 DEF PollContinues, Polled
  <2>2. cycle[c].polls + 1 \in 0..MaxPolls
    BY <1>0, <2>1, CycleAssumption DEF CycleType
  <2>3. x \in CycleType /\ x.stage = "window" /\ x.outcome = cycle[c].outcome
    BY <1>0, <2>1, <2>2 DEF CycleType, Stage
  <2> HIDE DEF x
  <2>4. x.outcome = "none" /\ Sound(x, c)
    BY <1>0, <2>1, <2>3 DEF Sound, Stage
  <2>5. CyclesInv'
    BY <2>1, <2>3, <2>4, OwnKept, RequestsSent
  <2>6. Moves(c)
    BY <2>1, <2>3, MovesTo
  <2> QED
    BY <2>5, <2>6
<1>5. CASE PollFailed(c)
  BY <1>5, GoesOnSoundly DEF PollFailed, Polled, AskFinish, Stages
<1>6. CASE PollFinished(c)
  BY <1>6, GoesOnSoundly DEF PollFinished, Polled, AskFinish, Stages
<1>7. CASE WindowEnds(c)
  BY <1>7, GoesOnSoundly DEF WindowEnds, AskFinish, Stages
<1>8. CASE FinishUnanswered(c)
  BY <1>8, EndsSoundly DEF FinishUnanswered, Ends
<1>9. CASE ConvertFails(c)
  <2>1. PICK made \in SUBSET {"ir"}, o \in {"error", "threw"} :
          cycle' = [cycle EXCEPT ![c] = [Over(c, o) EXCEPT !.disk = @ \cup made]]
    BY <1>9 DEF ConvertFails
  <2>2. Over(c, o).disk \cup made \in SUBSET Files
    <3>1. o \in Outcomes \ {"none", "dry-run"}
      BY DEF Outcomes
    <3>2. Over(c, o).disk = cycle[c].disk
      BY <3>1, EndedRecord
    <3> QED
      BY <1>0, <3>2 DEF CycleType, Files
  <2>3. [Over(c, o) EXCEPT !.disk = @ \cup made] = [Over(c, o) EXCEPT !.disk = Over(c, o).disk \cup made]
    OBVIOUS
  <2>4. Stage(c) = "converting" /\ UNCHANGED <<net, capture, stored, received>>
    BY <1>9 DEF ConvertFails
  <2> QED
    BY <2>1, <2>2, <2>3, <2>4, EndsSoundly
<1>10. CASE OverBudget(c)
  BY <1>10, LeftUnshippedSound DEF OverBudget
<1>11. CASE ConvertDry(c)
  <2> DEFINE o == Over(c, "dry-run")
             x == [o EXCEPT !.disk = o.disk \cup {"ir"}]
  <2>1. /\ cycle' = [cycle EXCEPT ![c] = x] /\ Stage(c) = "converting" /\ c \in DryRun
        /\ UNCHANGED <<net, capture, stored, received>>
    BY <1>11 DEF ConvertDry
  <2>2. o \in CycleType /\ o.stage = "over" /\ o.outcome = "dry-run" /\ o.disk = cycle[c].disk
    <3>1. 0 \in 0..MaxPolls /\ 0 \in 0..MaxTries
      BY CycleAssumption
    <3> QED
      BY <1>0, <3>1 DEF CycleType, Over, Stages, Outcomes
  <2> HIDE DEF o
  <2>3. x \in CycleType /\ x.stage = "over" /\ x.outcome = "dry-run" /\ x.disk = o.disk \cup {"ir"}
    BY <2>2 DEF CycleType, Files
  <2> HIDE DEF x
  <2>4. Sound(x, c)
    BY <1>0, <2>1, <2>2, <2>3 DEF Sound, Stage
  <2>5. CyclesInv'
    <3>1. x.outcome \notin {"shipped", "duplicate", "no-capture"}
      BY <2>3
    <3>2. Stage(c) \notin {"over", "gone", "arming"}
      BY <2>1
    <3> QED
      BY <2>1, <2>3, <2>4, <3>1, <3>2, OwnKept, RequestsSent
  <2>6. Moves(c)
    BY <2>1, <2>3, MovesTo
  <2> QED
    BY <2>5, <2>6
<1>12. CASE Ship(c)
  <2> DEFINE x == [cycle[c] EXCEPT !.stage = "shipping", !.attempts = 1, !.disk = cycle[c].disk \cup {"ir"}]
  <2>1. /\ cycle' = [cycle EXCEPT ![c] = x] /\ Stage(c) = "converting" /\ net' = net \cup {Sent(c, "post", 1)}
        /\ UNCHANGED <<capture, stored, received>>
    BY <1>12 DEF Ship
  <2>2. 1 \in 0..MaxTries
    BY CycleAssumption
  <2>3. x \in CycleType /\ x.stage = "shipping" /\ x.outcome = cycle[c].outcome
    BY <1>0, <2>2 DEF CycleType, Stages, Files
  <2> HIDE DEF x
  <2>4. x.outcome = "none" /\ Sound(x, c)
    BY <1>0, <2>1, <2>3 DEF Sound, Stage
  <2>5. CyclesInv'
    BY <2>1, <2>2, <2>3, <2>4, PostKept
  <2>6. Moves(c)
    BY <2>1, <2>3, MovesTo
  <2> QED
    BY <2>5, <2>6
<1>13. CASE PostFails(c)
  <2>1. CASE cycle[c].attempts < MaxTries
    <3> DEFINE x == [cycle[c] EXCEPT !.stage = "backoff"]
    <3>1. /\ cycle' = [cycle EXCEPT ![c] = x] /\ Stage(c) = "shipping" /\ UNCHANGED <<net, capture, stored, received>>
      BY <1>13, <2>1 DEF PostFails, GoTo
    <3>2. x \in CycleType /\ x.stage = "backoff" /\ x.outcome = cycle[c].outcome /\ x.attempts = cycle[c].attempts
      BY <1>0 DEF CycleType, Stages
    <3> HIDE DEF x
    <3>3. x.outcome = "none" /\ Sound(x, c)
      BY <1>0, <2>1, <3>1, <3>2 DEF Sound, Stage
    <3>4. CyclesInv'
      BY <3>1, <3>2, <3>3, OwnKept, RequestsSent
    <3>5. Moves(c)
      BY <3>1, <3>2, MovesTo
    <3> QED
      BY <3>4, <3>5
  <2>2. CASE ~(cycle[c].attempts < MaxTries)
    BY <1>13, <2>2, LeftUnshippedSound DEF PostFails
  <2> QED
    BY <2>1, <2>2
<1>14. CASE Retry(c)
  <2> DEFINE n == cycle[c].attempts + 1
             x == [cycle[c] EXCEPT !.stage = "shipping", !.attempts = n]
  <2>1. /\ cycle' = [cycle EXCEPT ![c] = x] /\ Stage(c) = "backoff" /\ net' = net \cup {Sent(c, "post", n)}
        /\ UNCHANGED <<capture, stored, received>>
    BY <1>14 DEF Retry
  <2>2. n \in 0..MaxTries
    BY <1>0, <2>1, CycleAssumption DEF Sound, CycleType, Stage
  <2> HIDE DEF n
  <2>3. x \in CycleType /\ x.stage = "shipping" /\ x.outcome = cycle[c].outcome
    BY <1>0, <2>2 DEF CycleType, Stages
  <2> HIDE DEF x
  <2>4. x.outcome = "none" /\ Sound(x, c)
    BY <1>0, <2>1, <2>3 DEF Sound, Stage
  <2>5. CyclesInv'
    BY <2>1, <2>2, <2>3, <2>4, PostKept
  <2>6. Moves(c)
    BY <2>1, <2>3, MovesTo
  <2> QED
    BY <2>5, <2>6
<1> QED
  BY <1>1, <1>2, <1>3, <1>4, <1>5, <1>6, <1>7, <1>8, <1>9, <1>10, <1>11, <1>12, <1>13, <1>14 DEF OwnStep

\* A server takes a request, or answers it, and its capture changes.
LEMMA ServerKept ==
  ASSUME CyclesInv, NEW c \in Cycles, NEW x \in CycleType, Sound(x, c), cycle' = [cycle EXCEPT ![c] = x],
         net' \subseteq net, NEW k \in Captures, capture' = [capture EXCEPT ![c] = k],
         stored' = stored, received' \in {received, received \cup {c}},
         x.outcome \in {"shipped", "duplicate"} => x = cycle[c],
         x.outcome = "no-capture" => k = "empty",
         Sent(c, "attach", 0) \in net' =>
           x.stage = "arming" \/ (x.stage \in {"over", "gone"} /\ x.outcome \in {"error", "none"})
  PROVE  CyclesInv'
<1>1. /\ net \subseteq Request /\ capture \in [Cycles -> Captures] /\ Told(cycle[c], c)
      /\ stored \subseteq [key : Cycles, of : Cycles] /\ received \subseteq Cycles /\ StoredByKey
  BY CycleFacts
<1>2. /\ capture' \in [Cycles -> Captures] /\ capture'[c] = k
      /\ \A d \in Cycles : d # c => capture'[d] = capture[d]
  BY <1>1
<1>3. StoredByKey' /\ received' \subseteq Cycles
  BY <1>1 DEF StoredByKey
<1>4. IsStored(c) => IsStored(c)'
  BY DEF IsStored
<1>5. Told(x, c)'
  BY <1>1, <1>2, <1>4 DEF Told, Sent
<1> QED
  BY <1>1, <1>2, <1>3, <1>5, CycleKept

\* The attach of a cycle that got further has been taken.
LEMMA Taken ==
  ASSUME CyclesInv, NEW c \in Cycles, Stage(c) \notin {"arming", "over", "gone"}
  PROVE  Sent(c, "attach", 0) \notin net
BY CycleFacts DEF Told, Stage

\* An answer ends the cycle.
LEMMA AnswerEnds ==
  ASSUME CyclesInv, NEW c \in Cycles, Stage(c) \notin {"idle", "over", "gone"},
         NEW o \in {"error", "threw", "no-capture"}, Ends(c, o), net' \subseteq net,
         Sent(c, "attach", 0) \notin net',
         NEW k \in Captures, capture' = [capture EXCEPT ![c] = k], o = "no-capture" => k = "empty",
         UNCHANGED <<stored, received>>
  PROVE  CyclesInv' /\ Moves(c)
<1>1. PICK x : x = Over(c, o)
  OBVIOUS
<1>2. x \in CycleType /\ Sound(x, c) /\ x.stage = "over" /\ x.outcome = o
  <2>1. o \in Outcomes \ {"none", "dry-run"}
    BY DEF Outcomes
  <2> QED
    BY <1>1, <2>1, EndedRecord
<1>3. cycle' = [cycle EXCEPT ![c] = x]
  BY <1>1 DEF Ends
<1>4. CyclesInv'
  BY <1>2, <1>3, ServerKept
<1>5. Moves(c)
  BY <1>2, <1>3, MovesTo
<1> QED
  BY <1>4, <1>5

LEMMA CaptureSame ==
  ASSUME CyclesInv, NEW c \in Cycles
  PROVE  capture[c] \in Captures /\ capture = [capture EXCEPT ![c] = capture[c]] /\ cycle = [cycle EXCEPT ![c] = cycle[c]]
BY CycleFacts

\* The snapshot debugger goes on with a capture.
LEMMA BecomesSound ==
  ASSUME CyclesInv, NEW c \in Cycles, NEW from, "empty" \notin from, NEW k \in Captures, Becomes(c, from, k)
  PROVE  CyclesInv' /\ Moves(c)
<1>1. PICK x : x = cycle[c]
  OBVIOUS
<1>2. x \in CycleType /\ Sound(x, c) /\ Told(x, c) /\ cycle' = [cycle EXCEPT ![c] = x]
  BY <1>1, CycleFacts, CaptureSame DEF Becomes
<1>3. /\ capture[c] # "empty" /\ capture' = [capture EXCEPT ![c] = k]
      /\ UNCHANGED <<net, stored, received>>
  BY DEF Becomes
<1>4. CyclesInv'
  BY <1>1, <1>2, <1>3, ServerKept DEF Told
<1>5. Moves(c)
  BY CycleFacts DEF Becomes, Moves
<1> QED
  BY <1>4, <1>5

LEMMA ServerStepSound ==
  ASSUME CyclesInv, NEW c \in Cycles, ServerStep(c)
  PROVE  CyclesInv' /\ Moves(c)
<1>0. cycle[c] \in CycleType /\ Sound(cycle[c], c) /\ Told(cycle[c], c)
  BY CycleFacts
<1>1. CASE ServerAttaches(c)
  <2>1. /\ Sent(c, "attach", 0) \in net /\ net' = net \ {Sent(c, "attach", 0)}
        /\ capture' = [capture EXCEPT ![c] = "armed"] /\ UNCHANGED <<stored, received>>
        /\ cycle' = IF Stage(c) = "arming" THEN [cycle EXCEPT ![c].stage = "window"] ELSE cycle
    BY <1>1 DEF ServerAttaches, GoTo
  <2>2. Sent(c, "attach", 0) \notin net' /\ net' \subseteq net /\ "armed" \in Captures
    BY <2>1 DEF Captures
  <2>3. PICK x : x = IF Stage(c) = "arming" THEN [cycle[c] EXCEPT !.stage = "window"] ELSE cycle[c]
    OBVIOUS
  <2>4. /\ x \in CycleType /\ Sound(x, c) /\ x.outcome \notin {"shipped", "duplicate", "no-capture"}
        /\ Stage(c) = "arming" => x.stage = "window"
    <3>1. CASE Stage(c) = "arming"
      BY <2>3, <3>1, Moved DEF Stages
    <3>2. CASE Stage(c) # "arming"
      BY <1>0, <2>1, <2>3, <3>2 DEF Told, Stage
    <3> QED
      BY <3>1, <3>2
  <2>5. cycle' = [cycle EXCEPT ![c] = x]
    BY <2>1, <2>3, CaptureSame
  <2>6. CyclesInv'
    BY <2>1, <2>2, <2>4, <2>5, ServerKept
  <2>7. Moves(c)
    <3>1. CASE Stage(c) = "arming"
      BY <2>4, <2>5, <3>1, MovesTo
    <3>2. CASE Stage(c) # "arming"
      BY <2>3, <2>5, <3>2, CycleFacts DEF Moves
    <3> QED
      BY <3>1, <3>2
  <2> QED
    BY <2>6, <2>7
<1>2. CASE ServerRefusesAttach(c)
  <2>1. /\ Stage(c) = "arming" /\ Ends(c, "error") /\ net' = net \ {Sent(c, "attach", 0)}
        /\ UNCHANGED <<capture, stored, received>>
    BY <1>2 DEF ServerRefusesAttach
  <2>2. net' \subseteq net /\ Sent(c, "attach", 0) \notin net'
    BY <2>1
  <2> QED
    BY <2>1, <2>2, AnswerEnds, CaptureSame
<1>3. CASE ServerFinishesEmpty(c)
  <2>1. /\ Stage(c) \in {"finishing", "draining"} /\ net' \subseteq net
        /\ capture' = [capture EXCEPT ![c] = "empty"] /\ UNCHANGED <<stored, received>>
        /\ Ends(c, IF Stage(c) = "finishing" THEN "no-capture" ELSE "error")
    BY <1>3 DEF ServerFinishesEmpty
  <2>2. Sent(c, "attach", 0) \notin net' /\ "empty" \in Captures
    BY <2>1, Taken DEF Captures
  <2>3. CASE Ends(c, "no-capture")
    BY <2>1, <2>2, <2>3, AnswerEnds
  <2>4. CASE Ends(c, "error")
    BY <2>1, <2>2, <2>4, AnswerEnds
  <2> QED
    BY <2>1, <2>3, <2>4
<1>4. CASE ServerHandsOut(c)
  <2>1. PICK x : x = [cycle[c] EXCEPT !.stage = "converting", !.disk = {"zip"}]
    OBVIOUS
  <2>2. /\ cycle' = [cycle EXCEPT ![c] = x] /\ Stage(c) = "finishing" /\ net' \subseteq net
        /\ capture' = [capture EXCEPT ![c] = "handed"] /\ stored' = stored /\ received' = received \cup {c}
    BY <1>4, <2>1 DEF ServerHandsOut
  <2>3. x \in CycleType /\ x.stage = "converting" /\ x.outcome = cycle[c].outcome /\ x.disk = {"zip"}
    BY <1>0, <2>1 DEF CycleType, Stages, Files
  <2>4. x.outcome = "none" /\ Sound(x, c)
    BY <1>0, <2>2, <2>3 DEF Sound, Stage
  <2>5. Sent(c, "attach", 0) \notin net' /\ "handed" \in Captures
    BY <2>2, Taken DEF Captures
  <2>6. CyclesInv'
    BY <2>2, <2>3, <2>4, <2>5, ServerKept
  <2>7. Moves(c)
    BY <2>2, <2>3, MovesTo
  <2> QED
    BY <2>6, <2>7
<1>5. CASE HandedInVain(c)
  <2>1. PICK o \in {"error", "threw"} : Ends(c, o)
    BY <1>5 DEF HandedInVain
  <2>2. /\ Stage(c) = "finishing" /\ net' \subseteq net /\ capture' = [capture EXCEPT ![c] = "handed"]
        /\ UNCHANGED <<stored, received>>
    BY <1>5 DEF HandedInVain
  <2>3. Sent(c, "attach", 0) \notin net' /\ "handed" \in Captures
    BY <2>2, Taken DEF Captures
  <2> QED
    BY <2>1, <2>2, <2>3, AnswerEnds
<1>6. CASE ServerRefusesFinish(c)
  <2>1. /\ Stage(c) \in {"finishing", "draining"} /\ net' \subseteq net /\ Ends(c, "error")
        /\ capture' = [capture EXCEPT ![c] = "none"] /\ UNCHANGED <<stored, received>>
    BY <1>6 DEF ServerRefusesFinish
  <2>2. Sent(c, "attach", 0) \notin net' /\ "none" \in Captures
    BY <2>1, Taken DEF Captures
  <2> QED
    BY <2>1, <2>2, AnswerEnds
<1>7. ASSUME NEW n \in 1..MaxTries, ServerIngests(c, n) PROVE CyclesInv' /\ Moves(c)
  <2>1. /\ net' \subseteq net /\ UNCHANGED <<capture, received>>
        /\ stored' = IF Known(c) THEN stored ELSE stored \cup {[key |-> c, of |-> c]}
    BY <1>7 DEF ServerIngests, IdempotencyKey
  <2>2. /\ IsStored(c)' /\ StoredByKey' /\ stored \subseteq stored' /\ stored' \subseteq [key : Cycles, of : Cycles]
    <3>1. StoredByKey /\ stored \subseteq [key : Cycles, of : Cycles]
      BY CycleFacts
    <3>2. CASE Known(c)
      BY <2>1, <3>1, <3>2 DEF Known, IsStored, StoredByKey
    <3>3. CASE ~Known(c)
      <4>1. PICK p : p = [key |-> c, of |-> c]
        OBVIOUS
      <4>2. p \in [key : Cycles, of : Cycles] /\ p.key = c /\ p.of = c /\ stored' = stored \cup {p}
        BY <2>1, <3>3, <4>1
      <4> QED
        BY <3>1, <4>2 DEF IsStored, StoredByKey
    <3> QED
      BY <3>2, <3>3
  <2>3. net' \subseteq Request /\ \A q \in net' : q \in net \/ q.of = c
    BY <2>1, CycleFacts
  <2>4. capture' \in [Cycles -> Captures] /\ received' \subseteq Cycles
    BY <2>1, CycleFacts
  <2>5. CASE Awaits(c, n)
    <3>1. PICK o \in {"shipped", "duplicate"} :
            \E end \in Shipped(c, o) : cycle' = [cycle EXCEPT ![c] = end]
      BY <1>7, <2>5 DEF ServerIngests
    <3>2. PICK x \in Shipped(c, o) : cycle' = [cycle EXCEPT ![c] = x]
      BY <3>1
    <3>3. x \in CycleType /\ Sound(x, c) /\ x.stage = "over" /\ x.outcome \in {o, "threw"}
      <4>1. o \in Outcomes \ {"none", "dry-run"}
        BY DEF Outcomes
      <4>0. CASE c \in KeepArtifacts
        BY <3>2, <4>1, <4>0, RetainedRecord DEF Shipped
      <4>2. Over(c, o).disk \in SUBSET Files
        BY <1>0, <4>1, EndedRecord DEF CycleType
      <4>3. Over(c, o).disk \ {"zip", "ir"} \in SUBSET Files
        BY <4>2
      <4>4. CASE c \notin KeepArtifacts
        <5>1. x = [Over(c, o) EXCEPT !.disk = Over(c, o).disk \ {"zip", "ir"}]
          BY <3>2, <4>4 DEF Shipped
        <5> QED
          BY <4>1, <4>3, <5>1, EndedRecord
      <4> QED
        BY <4>0, <4>4
    <3>4. Stage(c) = "shipping" /\ cycle' = [cycle EXCEPT ![c] = x]
      BY <2>5, <3>2 DEF Awaits
    <3>5. Told(x, c)'
      <4>1. Sent(c, "attach", 0) \notin net
        BY <3>4, Taken
      <4>2. (Sent(c, "attach", 0) \notin net)'
        BY <2>1, <4>1 DEF Sent
      <4> QED
        BY <2>2, <3>3, <4>2 DEF Told
    <3>6. CyclesInv'
      BY <2>1, <2>2, <2>3, <2>4, <3>3, <3>4, <3>5, CycleKept
    <3>7. Moves(c)
      BY <3>3, <3>4, MovesTo
    <3> QED
      BY <3>6, <3>7
  <2>6. CASE ~Awaits(c, n)
    <3>1. PICK x : x = cycle[c]
      OBVIOUS
    <3>2. cycle' = cycle /\ cycle' = [cycle EXCEPT ![c] = x]
      BY <1>7, <2>6, <3>1, CaptureSame DEF ServerIngests
    <3>3. Told(x, c)'
      BY <1>0, <2>1, <2>2, <3>1 DEF Told, Sent
    <3>4. CyclesInv'
      BY <1>0, <2>1, <2>2, <2>3, <2>4, <3>1, <3>2, <3>3, CycleKept
    <3>5. Moves(c)
      BY <3>2, CycleFacts DEF Moves
    <3> QED
      BY <3>4, <3>5
  <2> QED
    BY <2>5, <2>6
<1>8. ASSUME NEW n \in 1..MaxTries, ServerRejects(c, n) PROVE CyclesInv' /\ Moves(c)
  <2>1. PICK x \in Retained(c, "unshipped") : cycle' = [cycle EXCEPT ![c] = x]
    BY <1>8 DEF ServerRejects, LeftUnshipped
  <2>2. /\ cycle' = [cycle EXCEPT ![c] = x] /\ Stage(c) = "shipping" /\ net' \subseteq net
        /\ UNCHANGED <<capture, stored, received>>
    BY <1>8, <2>1 DEF ServerRejects, Awaits
  <2>3. x \in CycleType /\ Sound(x, c) /\ x.stage = "over" /\ x.outcome \in {"unshipped", "threw"}
    BY <2>1, RetainedRecord DEF Outcomes
  <2>4. Sent(c, "attach", 0) \notin net'
    BY <2>2, Taken
  <2>5. capture[c] \in Captures /\ capture' = [capture EXCEPT ![c] = capture[c]]
    BY <2>2, CaptureSame
  <2>6. CyclesInv'
    BY <2>2, <2>3, <2>4, <2>5, ServerKept
  <2>7. Moves(c)
    BY <2>2, <2>3, MovesTo
  <2> QED
    BY <2>6, <2>7
<1>9. CASE SessionBinds(c) \/ SessionEnds(c) \/ CaptureFails(c) \/ ServerForgets(c)
  BY <1>9, BecomesSound DEF SessionBinds, SessionEnds, CaptureFails, ServerForgets, Captures
<1> QED
  BY <1>1, <1>2, <1>3, <1>4, <1>5, <1>6, <1>7, <1>8, <1>9 DEF ServerStep

-----------------------------------------------------------------------------
(* Steps of the worker *)

LEMMA Shape ==
  ASSUME WorkerInv
  PROVE  /\ \A w \in Workers, r \in Requests : <<w, r>> \in Cycles /\ ClaimInv(w, r)
         /\ \A c \in Cycles : c = <<c[1], c[2]>> /\ c[1] \in Workers /\ c[2] \in Requests
         /\ \A w \in Workers : InvocationInv(w) /\ todo[w] \subseteq Requests /\ Requests \subseteq Nat
         /\ cycle \in [Cycles -> CycleType] /\ \A c \in Cycles : Sound(cycle[c], c) /\ Told(cycle[c], c)
         /\ row \in [Requests -> {"pending", "claimed", "fulfilled", "expired", "cancelled"}]
         /\ holder \in [Requests -> Workers \cup {NoWorker}] /\ NoWorker \notin Workers
         /\ pc \in [Workers -> {"start", "next", "cycle", "cancelling", "done0", "done1", "crashed"}]
         /\ todo \in [Workers -> SUBSET Requests]
         /\ attempted \in [Workers -> 0..Cardinality(Requests)]
         /\ \A w \in Workers : attempted[w] <= MaxOf[w]
         /\ worked \in [Workers -> [Requests ->
              [outcome : Outcomes \cup {"claim-raced", "claim-error"}, released : BOOLEAN]]]
         /\ child \in [Cycles -> {"none", "running", "stopping", "exited"}]
         /\ unsettled \subseteq Cycles
<1>1. \A w \in Workers, r \in Requests : <<w, r>> \in Cycles /\ ClaimInv(w, r)
  BY QueueAssumption DEF WorkerInv
<1>2. \A c \in Cycles : c = <<c[1], c[2]>> /\ c[1] \in Workers /\ c[2] \in Requests
  BY QueueAssumption
<1> QED
  BY <1>1, <1>2, QueueAssumption DEF WorkerInv, WorkerTypeOK, CyclesInv, CycleTypeOK, CycleType

\* A request has one place in the list.
LEMMA AtOne ==
  ASSUME WorkerInv, NEW w \in Workers, NEW r \in Requests, NEW q \in Requests, At(w, r), At(w, q)
  PROVE  r = q
<1>1. r \in Nat /\ q \in Nat /\ r <= q /\ q <= r
  BY Shape DEF At
<1> QED
  BY <1>1

\* A step that leaves the cycles alone.
LEMMA CyclesAlone ==
  ASSUME WorkerInv, UNCHANGED cycleVars
  PROVE  CyclesInv' /\ CycleTypeOK' /\ \A c \in Cycles : Sound(cycle[c], c) /\ (Sound(cycle[c], c))'
<1>1. CyclesInv
  BY DEF WorkerInv
<1> QED
  BY <1>1 DEF CyclesInv, cycleVars, CycleTypeOK, StoredByKey, Told, IsStored, Sound

\* What is left to show of a step that leaves the cycles and the claims alone.
LEMMA ClaimsAlone ==
  ASSUME WorkerInv, UNCHANGED <<cycleVars, holder, attempted>>,
         row' \in [Requests -> {"pending", "claimed", "fulfilled", "expired", "cancelled"}],
         pc' \in [Workers -> {"start", "next", "cycle", "cancelling", "done0", "done1", "crashed"}],
         todo' \in [Workers -> SUBSET Requests],
         worked' \in [Workers -> [Requests ->
           [outcome : Outcomes \cup {"claim-raced", "claim-error"}, released : BOOLEAN]]],
         child' \in [Cycles -> {"none", "running", "stopping", "exited"}], unsettled' \subseteq Cycles,
         \A v \in Workers, q \in Requests : ClaimInv(v, q)',
         \A v \in Workers : /\ pc'[v] \in {"cycle", "cancelling"} => \E r \in Requests : At(v, r)'
                            /\ pc'[v] = "done0" => "error" \notin ReportOf(v)',
         WorkloadWithinCycle'
  PROVE  WorkerInv'
<1>1. CyclesInv' /\ CycleTypeOK'
  BY CyclesAlone
<1>2. WorkerTypeOK'
  BY <1>1, Shape DEF WorkerTypeOK
<1>3. ASSUME NEW v \in Workers PROVE InvocationInv(v)'
  <2>1. InvocationInv(v)
    BY Shape
  <2>2. {r \in Requests : holder'[r] = v} = {r \in Requests : holder[r] = v} /\ attempted' = attempted
    OBVIOUS
  <2>3. (attempted[v] = Cardinality({r \in Requests : holder[r] = v}))'
    BY <2>1, <2>2 DEF InvocationInv
  <2> QED
    BY <2>3 DEF InvocationInv
<1> QED
  BY <1>1, <1>2, <1>3 DEF WorkerInv

LEMMA ListOK ==
  ASSUME WorkerInv, NEW w \in Workers, List(w) \/ ListFails(w) \/ Exit(w)
  PROVE  WorkerInv'
<1>1. /\ UNCHANGED <<cycleVars, row, holder, attempted, worked, child, unsettled>>
      /\ \A v \in Workers : v # w => pc'[v] = pc[v] /\ todo'[v] = todo[v]
      /\ pc'[w] \in {"next", "done0", "done1"} /\ pc[w] \in {"start", "next"}
      /\ pc[w] = "next" => todo' = todo
      /\ pc' \in [Workers -> {"start", "next", "cycle", "cancelling", "done0", "done1", "crashed"}]
      /\ todo' \in [Workers -> SUBSET Requests]
      /\ pc'[w] = "done0" => "error" \notin ReportOf(w)
  <2>1. CASE List(w)
    <3>1. {r \in Listed[w] : row[r] = "pending"} \in SUBSET Requests
      BY QueueAssumption
    <3> QED
      BY <2>1, <3>1, Shape DEF List
  <2>2. CASE ListFails(w)
    BY <2>2, Shape DEF ListFails
  <2>3. CASE Exit(w)
    <3>1. ExitCode(w) \in {"done0", "done1"} /\ (ExitCode(w) = "done0" => "error" \notin ReportOf(w))
      BY DEF ExitCode
    <3> QED
      BY <2>3, <3>1, Shape DEF Exit
  <2> QED
    BY <2>1, <2>2, <2>3
<1>2. UNCHANGED cycle
  BY <1>1 DEF cycleVars
<1>3. ASSUME NEW v \in Workers, NEW q \in Requests PROVE ClaimInv(v, q)'
  <2>1. ClaimInv(v, q)
    BY Shape
  <2>2. CASE v = w
    BY <1>1, <1>2, <2>1, <2>2 DEF ClaimInv, Working, Reported, Keeps, Serviced, Kind, Stage
  <2>3. CASE v # w
    BY <1>1, <1>2, <2>1, <2>3 DEF ClaimInv, Working, Reported, Keeps, Serviced, Kind, Stage, At
  <2> QED
    BY <2>2, <2>3
<1>4. ASSUME NEW v \in Workers
      PROVE  /\ pc'[v] \in {"cycle", "cancelling"} => \E r \in Requests : At(v, r)'
             /\ pc'[v] = "done0" => "error" \notin ReportOf(v)'
  <2>1. InvocationInv(v)
    BY Shape
  <2>2. ReportOf(v)' = ReportOf(v)
    BY <1>1 DEF ReportOf
  <2>3. CASE v = w
    BY <1>1, <2>2, <2>3
  <2>4. CASE v # w
    BY <1>1, <2>1, <2>2, <2>4 DEF InvocationInv, At
  <2> QED
    BY <2>3, <2>4
<1>5. WorkloadWithinCycle'
  BY <1>1, <1>2, Shape DEF WorkerInv, WorkloadWithinCycle, Stage, At
<1> QED
  BY <1>1, <1>3, <1>4, <1>5, ClaimsAlone, Shape

\* What becomes of a row alone is no concern of the cycles.
LEMMA RowOK ==
  ASSUME WorkerInv, NEW r \in Requests, Fulfil(r) \/ Expire(r)
  PROVE  WorkerInv'
<1>1. /\ UNCHANGED <<cycleVars, holder, pc, todo, attempted, worked, child, unsettled>>
      /\ row[r] \in {"pending", "claimed"} /\ row'[r] \in {"fulfilled", "expired"}
      /\ \A q \in Requests : q # r => row'[q] = row[q]
      /\ row' \in [Requests -> {"pending", "claimed", "fulfilled", "expired", "cancelled"}]
  BY Shape DEF Fulfil, Expire
<1>2. UNCHANGED cycle
  BY <1>1 DEF cycleVars
<1>3. ASSUME NEW v \in Workers, NEW q \in Requests PROVE ClaimInv(v, q)'
  <2>1. ClaimInv(v, q)
    BY Shape
  <2>2. row'[q] = row[q] \/ (row[q] \in {"pending", "claimed"} /\ row'[q] \in {"fulfilled", "expired"})
    BY <1>1
  <2> QED
    BY <1>1, <1>2, <2>1, <2>2 DEF ClaimInv, Working, Reported, Keeps, Serviced, Kind, Stage, At
<1>4. ASSUME NEW v \in Workers
      PROVE  /\ pc'[v] \in {"cycle", "cancelling"} => \E q \in Requests : At(v, q)'
             /\ pc'[v] = "done0" => "error" \notin ReportOf(v)'
  <2>1. InvocationInv(v)
    BY Shape
  <2>2. ReportOf(v)' = ReportOf(v)
    BY <1>1 DEF ReportOf
  <2> QED
    BY <1>1, <2>1, <2>2 DEF InvocationInv, At
<1>5. WorkloadWithinCycle'
  BY <1>1, <1>2 DEF WorkerInv, WorkloadWithinCycle, Stage, At
<1> QED
  BY <1>1, <1>3, <1>4, <1>5, ClaimsAlone, Shape

LEMMA DriverOK ==
  ASSUME WorkerInv, NEW c \in Cycles, DriverExits(c)
  PROVE  WorkerInv'
<1>1. /\ UNCHANGED <<cycleVars, row, holder, pc, todo, attempted, worked, unsettled>>
      /\ child' \in [Cycles -> {"none", "running", "stopping", "exited"}]
      /\ \A d \in Cycles : child'[d] = "running" => child[d] = "running"
  BY Shape DEF DriverExits
<1>2. UNCHANGED cycle
  BY <1>1 DEF cycleVars
<1>3. ASSUME NEW v \in Workers, NEW q \in Requests PROVE ClaimInv(v, q)'
  BY <1>1, <1>2, Shape DEF ClaimInv, Working, Reported, Keeps, Serviced, Kind, Stage, At
<1>4. ASSUME NEW v \in Workers
      PROVE  /\ pc'[v] \in {"cycle", "cancelling"} => \E q \in Requests : At(v, q)'
             /\ pc'[v] = "done0" => "error" \notin ReportOf(v)'
  <2>1. InvocationInv(v)
    BY Shape
  <2>2. ReportOf(v)' = ReportOf(v)
    BY <1>1 DEF ReportOf
  <2> QED
    BY <1>1, <2>1, <2>2 DEF InvocationInv, At
<1>5. WorkloadWithinCycle'
  BY <1>1, <1>2 DEF WorkerInv, WorkloadWithinCycle, Stage, At
<1> QED
  BY <1>1, <1>3, <1>4, <1>5, ClaimsAlone, Shape

\* The invocation is done with a row, and on to the next one.
LEMMA DoneOK ==
  ASSUME WorkerInv, NEW w \in Workers, NEW r \in Requests, pc[w] \in {"next", "cycle", "cancelling"}, At(w, r),
         UNCHANGED <<cycleVars, holder, attempted>>, pc' = [pc EXCEPT ![w] = "next"], Done(w, r),
         NEW o \in Outcomes \cup {"claim-raced", "claim-error"}, NEW released \in BOOLEAN, Report(w, r, o, released),
         child' \in [Cycles -> {"none", "running", "stopping", "exited"}],
         \A d \in Cycles : child'[d] = "running" => child[d] = "running" /\ d # <<w, r>>,
         row' \in [Requests -> {"pending", "claimed", "fulfilled", "expired", "cancelled"}],
         \A q \in Requests : q # r => row'[q] = row[q],
         row'[r] = row[r] \/ (row[r] = "claimed" /\ row'[r] = "cancelled"),
         unsettled \subseteq unsettled', unsettled' \subseteq Cycles,
         holder[r] = w => /\ Stage(<<w, r>>) = "over" /\ o = Kind(<<w, r>>)
                          /\ row'[r] = "claimed" => Keeps(<<w, r>>) \/ <<w, r>> \in unsettled',
         released => row'[r] = "cancelled" /\ Kind(<<w, r>>) \in {"error", "no-capture"}
  PROVE  WorkerInv'
<1>1. /\ cycle' = cycle /\ pc'[w] = "next" /\ \A v \in Workers : v # w => pc'[v] = pc[v] /\ todo'[v] = todo[v]
      /\ todo'[w] = todo[w] \ {r} /\ todo' \in [Workers -> SUBSET Requests]
      /\ pc' \in [Workers -> {"start", "next", "cycle", "cancelling", "done0", "done1", "crashed"}]
  BY Shape DEF cycleVars, Done
<1>2. /\ worked' \in [Workers -> [Requests ->
           [outcome : Outcomes \cup {"claim-raced", "claim-error"}, released : BOOLEAN]]]
      /\ worked'[w][r].outcome = o /\ (worked'[w][r].released <=> released)
      /\ \A v \in Workers, q \in Requests : v # w \/ q # r => worked'[v][q] = worked[v][q]
  BY Shape DEF Report
<1>3. ASSUME NEW v \in Workers, NEW q \in Requests PROVE ClaimInv(v, q)'
  <2>1. ClaimInv(v, q)
    BY Shape
  <2>2. CASE v # w
    <3>1. q = r => (worked[v][q].released => row[q] = "cancelled") /\ row'[q] \in {row[q], "cancelled"}
                   /\ (row[q] # row'[q] => row[q] = "claimed")
      BY <2>1 DEF ClaimInv
    <3> QED
      BY <1>1, <1>2, <2>1, <2>2, <3>1 DEF ClaimInv, Working, Reported, Keeps, Serviced, Kind, Stage, At
  <2>3. CASE v = w /\ q # r
    <3>1. ~At(w, q)
      BY <2>3, AtOne
    <3> QED
      BY <1>1, <1>2, <2>1, <2>3, <3>1 DEF ClaimInv, Working, Reported, Keeps, Serviced, Kind, Stage
  <2>4. CASE v = w /\ q = r
    BY <1>1, <1>2, <2>1, <2>4 DEF ClaimInv, Working, Reported, Keeps, Serviced, Kind, Stage
  <2> QED
    BY <2>2, <2>3, <2>4
<1>4. ASSUME NEW v \in Workers
      PROVE  /\ pc'[v] \in {"cycle", "cancelling"} => \E q \in Requests : At(v, q)'
             /\ pc'[v] = "done0" => "error" \notin ReportOf(v)'
  <2>1. CASE v = w
    BY <1>1, <2>1
  <2>2. CASE v # w
    <3>1. InvocationInv(v)
      BY Shape
    <3>0. \A q \in Requests : worked'[v][q] = worked[v][q]
      BY <1>2, <2>2
    <3>2. ReportOf(v)' = ReportOf(v)
      BY <3>0 DEF ReportOf
    <3> QED
      BY <1>1, <2>2, <3>1, <3>2 DEF InvocationInv, At
  <2> QED
    BY <2>1, <2>2
<1>5. WorkloadWithinCycle'
  <2> SUFFICES ASSUME NEW d \in Cycles, child'[d] = "running"
               PROVE  /\ Stage(d)' \notin {"idle", "preflight", "arming"}
                      /\ pc'[d[1]] = "crashed" \/ (pc'[d[1]] = "cycle" /\ At(d[1], d[2])')
    BY DEF WorkloadWithinCycle
  <2>1. /\ d # <<w, r>> /\ Stage(d) \notin {"idle", "preflight", "arming"} /\ d = <<d[1], d[2]>>
        /\ d[1] \in Workers /\ d[2] \in Requests
        /\ pc[d[1]] = "crashed" \/ (pc[d[1]] = "cycle" /\ At(d[1], d[2]))
    BY Shape DEF WorkerInv, WorkloadWithinCycle
  <2>2. d[1] # w
    BY <2>1, AtOne
  <2> QED
    BY <1>1, <2>1, <2>2 DEF Stage, At
<1> QED
  BY <1>1, <1>2, <1>3, <1>4, <1>5, ClaimsAlone

\* Only the driver of the cycle that is over is stopped.
LEMMA DriverStopped ==
  ASSUME WorkerInv, NEW w \in Workers, NEW r \in Requests, StopDriver(<<w, r>>)
  PROVE  /\ child' \in [Cycles -> {"none", "running", "stopping", "exited"}]
         /\ \A d \in Cycles : child'[d] = "running" => child[d] = "running" /\ d # <<w, r>>
BY Shape DEF StopDriver

\* Beside the cycle, no driver runs.
LEMMA NoDriver ==
  ASSUME WorkerInv, NEW w \in Workers, NEW r \in Requests, pc[w] \notin {"cycle", "crashed"}
  PROVE  \A d \in Cycles : child[d] = "running" => d # <<w, r>>
<1> SUFFICES ASSUME NEW d \in Cycles, child[d] = "running", d = <<w, r>> PROVE FALSE
  OBVIOUS
<1>1. d[1] = w
  OBVIOUS
<1>2. pc[d[1]] \in {"cycle", "crashed"}
  BY DEF WorkerInv, WorkloadWithinCycle
<1> QED
  BY <1>1, <1>2

LEMMA KindOfOver ==
  ASSUME WorkerInv, NEW w \in Workers, NEW r \in Requests
  PROVE  /\ Kind(<<w, r>>) \in Outcomes
         /\ Stage(<<w, r>>) = "over" => Kind(<<w, r>>) # "none"
         /\ Kind(<<w, r>>) \in {"none", "shipped", "duplicate", "no-capture", "dry-run", "error"}
<1>1. cycle[<<w, r>>] \in CycleType /\ Sound(cycle[<<w, r>>], <<w, r>>)
  BY Shape
<1>2. cycle[<<w, r>>].outcome \in Outcomes /\ (Stage(<<w, r>>) = "over" => cycle[<<w, r>>].outcome # "none")
  BY <1>1 DEF CycleType, Sound, Stage
<1> QED
  BY <1>2 DEF Kind, Outcomes

LEMMA RowDoneOK ==
  ASSUME WorkerInv, NEW w \in Workers, NEW r \in Requests,
         ClaimFails(w, r) \/ Settle(w, r) \/ Cancel(w, r) \/ CancelFails(w, r)
  PROVE  WorkerInv'
<1>0. ClaimInv(w, r) /\ <<w, r>> \in Cycles /\ pc \in [Workers -> {"start", "next", "cycle", "cancelling", "done0", "done1", "crashed"}]
      /\ row \in [Requests -> {"pending", "claimed", "fulfilled", "expired", "cancelled"}]
      /\ child \in [Cycles -> {"none", "running", "stopping", "exited"}] /\ unsettled \subseteq Cycles
  BY Shape
<1>1. CASE ClaimFails(w, r)
  <2>1. PICK o \in {"claim-raced", "claim-error"} : Report(w, r, o, FALSE)
    BY <1>1 DEF ClaimFails
  <2>2. /\ pc[w] = "next" /\ At(w, r) /\ Done(w, r)
        /\ UNCHANGED <<cycleVars, row, holder, pc, attempted, child, unsettled>>
    BY <1>1 DEF ClaimFails, Trying
  <2>3. holder[r] # w
    BY <1>0, <2>2 DEF ClaimInv, Working, Reported, At
  <2>4. pc' = [pc EXCEPT ![w] = "next"]
    BY <1>0, <2>2
  <2>5. \A d \in Cycles : child'[d] = "running" => child[d] = "running" /\ d # <<w, r>>
    BY <2>2, NoDriver
  <2> QED
    BY <1>0, <2>1, <2>2, <2>3, <2>4, <2>5, DoneOK
<1>2. CASE Settle(w, r) /\ Keeps(<<w, r>>)
  <2>1. /\ pc[w] = "cycle" /\ At(w, r) /\ Stage(<<w, r>>) = "over" /\ StopDriver(<<w, r>>)
        /\ pc' = [pc EXCEPT ![w] = "next"] /\ Done(w, r) /\ Report(w, r, Kind(<<w, r>>), FALSE)
        /\ UNCHANGED <<cycleVars, row, holder, attempted, unsettled>>
    BY <1>2 DEF Settle
  <2>2. PICK o \in Outcomes : o = Kind(<<w, r>>)
    BY <2>1, KindOfOver
  <2>3. /\ child' \in [Cycles -> {"none", "running", "stopping", "exited"}]
        /\ \A d \in Cycles : child'[d] = "running" => child[d] = "running" /\ d # <<w, r>>
    BY <2>1, DriverStopped
  <2> QED
    BY <1>0, <1>2, <2>1, <2>2, <2>3, DoneOK
<1>3. CASE Settle(w, r) /\ ~Keeps(<<w, r>>)
  <2>1. /\ pc[w] = "cycle" /\ At(w, r) /\ Stage(<<w, r>>) = "over" /\ StopDriver(<<w, r>>)
        /\ pc' = [pc EXCEPT ![w] = "cancelling"]
        /\ UNCHANGED <<cycleVars, row, holder, attempted, todo, worked, unsettled>>
    BY <1>3 DEF Settle
  <2>2. /\ cycle' = cycle /\ pc'[w] = "cancelling" /\ \A v \in Workers : v # w => pc'[v] = pc[v]
        /\ pc' \in [Workers -> {"start", "next", "cycle", "cancelling", "done0", "done1", "crashed"}]
    BY <1>0, <2>1 DEF cycleVars
  <2>3. ASSUME NEW v \in Workers, NEW q \in Requests PROVE ClaimInv(v, q)'
    <3>1. ClaimInv(v, q)
      BY Shape
    <3>2. CASE v # w
      BY <2>1, <2>2, <3>1, <3>2 DEF ClaimInv, Working, Reported, Keeps, Serviced, Kind, Stage, At
    <3>3. CASE v = w /\ q # r
      <4>1. ~At(w, q)
        BY <2>1, <3>3, AtOne
      <4> QED
        BY <2>1, <2>2, <3>1, <3>3, <4>1 DEF ClaimInv, Working, Reported, Keeps, Serviced, Kind, Stage, At
    <3>4. CASE v = w /\ q = r
      BY <1>3, <2>1, <2>2, <3>1, <3>4 DEF ClaimInv, Working, Reported, Keeps, Serviced, Kind, Stage, At
    <3> QED
      BY <3>2, <3>3, <3>4
  <2>4. ASSUME NEW v \in Workers
        PROVE  /\ pc'[v] \in {"cycle", "cancelling"} => \E q \in Requests : At(v, q)'
               /\ pc'[v] = "done0" => "error" \notin ReportOf(v)'
    <3>1. InvocationInv(v)
      BY Shape
    <3>2. ReportOf(v)' = ReportOf(v)
      BY <2>1 DEF ReportOf
    <3> QED
      BY <2>1, <2>2, <3>1, <3>2 DEF InvocationInv, At
  <2>5. WorkloadWithinCycle'
    <3> SUFFICES ASSUME NEW d \in Cycles, child'[d] = "running"
                 PROVE  /\ Stage(d)' \notin {"idle", "preflight", "arming"}
                        /\ pc'[d[1]] = "crashed" \/ (pc'[d[1]] = "cycle" /\ At(d[1], d[2])')
      BY DEF WorkloadWithinCycle
    <3>1. /\ d # <<w, r>> /\ Stage(d) \notin {"idle", "preflight", "arming"} /\ d = <<d[1], d[2]>>
          /\ d[1] \in Workers /\ d[2] \in Requests
          /\ pc[d[1]] = "crashed" \/ (pc[d[1]] = "cycle" /\ At(d[1], d[2]))
      BY <2>1, DriverStopped, Shape DEF WorkerInv, WorkloadWithinCycle
    <3>2. d[1] # w
      BY <2>1, <3>1, AtOne
    <3> QED
      BY <2>1, <2>2, <3>1, <3>2 DEF Stage, At
  <2>6. todo' \in [Workers -> SUBSET Requests] /\ worked' = worked
    BY <2>1, Shape
  <2> QED
    BY <1>0, <2>1, <2>2, <2>3, <2>4, <2>5, <2>6, DriverStopped, ClaimsAlone, Shape
<1>4. CASE Cancel(w, r) \/ CancelFails(w, r)
  <2>1. /\ pc[w] = "cancelling" /\ At(w, r) /\ pc' = [pc EXCEPT ![w] = "next"] /\ Done(w, r)
        /\ UNCHANGED <<cycleVars, holder, attempted, child>>
    BY <1>4 DEF Cancel, CancelFails, Cancels
  <2>2. \A d \in Cycles : child'[d] = "running" => child[d] = "running" /\ d # <<w, r>>
    BY <2>1, NoDriver
  <2>3. holder[r] = w /\ Stage(<<w, r>>) = "over" /\ ~Keeps(<<w, r>>)
    BY <1>0, <2>1 DEF ClaimInv
  <2>4. Kind(<<w, r>>) \in {"error", "no-capture"} /\ Kind(<<w, r>>) \in Outcomes
    BY <2>3, KindOfOver DEF Keeps, Serviced
  <2>5. PICK o : o = Kind(<<w, r>>)
    OBVIOUS
  <2>6. CASE Cancel(w, r)
    <3>1. /\ Report(w, r, o, TRUE) /\ row[r] = "claimed" /\ row' = [row EXCEPT ![r] = "cancelled"]
          /\ unsettled' = unsettled
      BY <2>5, <2>6 DEF Cancel, Cancels
    <3>2. /\ row' \in [Requests -> {"pending", "claimed", "fulfilled", "expired", "cancelled"}]
          /\ row'[r] = "cancelled" /\ \A q \in Requests : q # r => row'[q] = row[q]
      BY <1>0, <3>1
    <3> QED
      BY <1>0, <2>1, <2>2, <2>3, <2>4, <2>5, <3>1, <3>2, DoneOK
  <2>7. CASE CancelFails(w, r)
    <3>1. /\ Report(w, r, o, FALSE) /\ row' = row
          /\ unsettled' = IF row[r] = "claimed" THEN unsettled \cup {<<w, r>>} ELSE unsettled
      BY <2>5, <2>7 DEF CancelFails, Cancels
    <3> QED
      BY <1>0, <2>1, <2>2, <2>3, <2>4, <2>5, <3>1, DoneOK
  <2> QED
    BY <1>4, <2>6, <2>7
<1> QED
  BY <1>1, <1>2, <1>3, <1>4


\* A step of a cycle under way is a step of the one its invocation is at.
LEMMA UnderClaim ==
  ASSUME WorkerInv, NEW w \in Workers, NEW r \in Requests, Stage(<<w, r>>) \notin {"idle", "over", "gone"}
  PROVE  holder[r] = w /\ pc[w] = "cycle" /\ At(w, r)
<1>1. ClaimInv(w, r)
  BY Shape
<1> QED
  BY <1>1 DEF ClaimInv, Working, Reported

LEMMA WorksOK ==
  ASSUME WorkerInv, NEW c \in Cycles, Works(c)
  PROVE  WorkerInv'
<1>0. PICK w \in Workers, r \in Requests : c = <<w, r>>
  BY Shape
<1>1. CyclesInv' /\ Moves(c)
  BY OwnStepSound, ServerStepSound DEF WorkerInv, Works, CycleStep
<1>2. UNCHANGED <<row, holder, pc, todo, attempted, worked, unsettled>>
  BY DEF Works
<1>3. \A d \in Cycles : d # c => cycle'[d] = cycle[d]
  BY <1>1, Shape DEF Moves
<1>4. /\ \/ cycle'[c] = cycle[c]
         \/ /\ holder[r] = w /\ pc[w] = "cycle" /\ At(w, r)
            /\ Stage(c) \notin {"idle", "over", "gone"}
            /\ Stage(c)' \notin {"idle", "preflight", "gone"}
            /\ Stage(c)' = "arming" => Stage(c) = "preflight"
  BY <1>0, <1>1, UnderClaim DEF Moves, Stage
<1>5. ASSUME NEW v \in Workers, NEW q \in Requests PROVE ClaimInv(v, q)'
  <2>1. ClaimInv(v, q) /\ <<v, q>> \in Cycles
    BY Shape
  <2>2. CASE cycle'[<<v, q>>] = cycle[<<v, q>>]
    BY <1>2, <2>1, <2>2 DEF ClaimInv, Working, Reported, Keeps, Serviced, Kind, Stage, At
  <2>3. CASE cycle'[<<v, q>>] # cycle[<<v, q>>]
    <3>1. v = w /\ q = r
      BY <1>0, <1>3, <2>1, <2>3
    <3>2. /\ holder[q] = v /\ pc[v] = "cycle" /\ At(v, q)
          /\ Stage(<<v, q>>) \notin {"idle", "over", "gone"}
          /\ Stage(<<v, q>>)' \notin {"idle", "preflight", "gone"}
      BY <1>0, <1>4, <2>3, <3>1
    <3>3. ~worked[v][q].released
      <4>1. Sound(cycle[<<v, q>>], <<v, q>>)
        BY <2>1, Shape
      <4> QED
        BY <2>1, <3>2, <4>1 DEF ClaimInv, Sound, Kind, Stage
    <3> QED
      BY <1>2, <2>1, <3>2, <3>3 DEF ClaimInv, Working, At
  <2> QED
    BY <2>2, <2>3
<1>6. CycleTypeOK' /\ child' \in [Cycles -> {"none", "running", "stopping", "exited"}]
      /\ \A d \in Cycles : child'[d] = "running" =>
           child[d] = "running" \/ (Stage(d) = "arming" /\ Stage(d)' = "window")
  <2>1. child' = [d \in Cycles |->
          IF d[1] \in Driven /\ Stage(d) = "arming" /\ cycle'[d].stage = "window" THEN "running" ELSE child[d]]
    BY DEF Works, SpawnOnArmed
  <2> QED
    BY <1>1, <2>1, Shape DEF CyclesInv, Stage
<1>7. WorkloadWithinCycle'
  <2> SUFFICES ASSUME NEW d \in Cycles, child'[d] = "running"
               PROVE  /\ Stage(d)' \notin {"idle", "preflight", "arming"}
                      /\ pc'[d[1]] = "crashed" \/ (pc'[d[1]] = "cycle" /\ At(d[1], d[2])')
    BY DEF WorkloadWithinCycle
  <2>1. CASE Stage(d) = "arming" /\ Stage(d)' = "window"
    <3>1. d = c
      BY <1>3, <2>1 DEF Stage
    <3>2. pc[w] = "cycle" /\ At(w, r)
      BY <1>4, <2>1, <3>1 DEF Stage
    <3> QED
      BY <1>0, <1>2, <2>1, <3>1, <3>2 DEF At
  <2>2. CASE child[d] = "running"
    <3>1. /\ Stage(d) \notin {"idle", "preflight", "arming"}
          /\ pc[d[1]] = "crashed" \/ (pc[d[1]] = "cycle" /\ At(d[1], d[2]))
      BY <2>2 DEF WorkerInv, WorkloadWithinCycle
    <3>2. Stage(d)' \notin {"idle", "preflight", "arming"}
      BY <1>3, <1>4, <3>1 DEF Stage
    <3> QED
      BY <1>2, <3>1, <3>2 DEF At
  <2> QED
    BY <1>6, <2>1, <2>2
<1>8. WorkerTypeOK'
  BY <1>2, <1>6, Shape DEF WorkerTypeOK
<1>9. ASSUME NEW v \in Workers PROVE InvocationInv(v)'
  <2>1. InvocationInv(v)
    BY Shape
  <2>2. ReportOf(v)' = ReportOf(v)
    BY <1>2 DEF ReportOf
  <2>3. {q \in Requests : holder'[q] = v} = {q \in Requests : holder[q] = v} /\ attempted' = attempted
    BY <1>2
  <2>4. (attempted[v] = Cardinality({q \in Requests : holder[q] = v}))'
    BY <2>1, <2>3 DEF InvocationInv
  <2> QED
    BY <1>2, <2>1, <2>2, <2>4 DEF InvocationInv, At
<1> QED
  BY <1>1, <1>5, <1>7, <1>8, <1>9 DEF WorkerInv

\* The record of a cycle that begins.
LEMMA Begins ==
  ASSUME CyclesInv, NEW c \in Cycles, Begin(c)
  PROVE  /\ CyclesInv' /\ cycle' = [cycle EXCEPT ![c] = cycle'[c]]
         /\ Stage(c)' \in {"preflight", "over"}
<1>1. Stage(c) = "idle" /\ UNCHANGED <<net, capture, stored, received>>
  BY DEF Begin
<1>2. CASE Wired
  <2>1. PICK x : x = [cycle[c] EXCEPT !.stage = "preflight"]
    OBVIOUS
  <2>2. cycle' = [cycle EXCEPT ![c] = x]
    BY <1>2, <2>1 DEF Begin, GoTo
  <2>3. x \in CycleType /\ Sound(x, c) /\ x.stage = "preflight" /\ x.outcome = "none"
    BY <1>1, <2>1, Moved DEF Stages
  <2>4. CyclesInv'
    BY <1>1, <2>2, <2>3, OwnKept, RequestsSent
  <2> QED
    BY <2>2, <2>3, <2>4, CycleFacts DEF Stage
<1>3. CASE ~Wired
  <2>1. PICK x : x = Over(c, "threw")
    OBVIOUS
  <2>2. cycle' = [cycle EXCEPT ![c] = x]
    BY <1>3, <2>1 DEF Begin, Ends
  <2>3. x \in CycleType /\ Sound(x, c) /\ x.stage = "over" /\ x.outcome = "threw"
    <3>1. "threw" \in Outcomes \ {"none", "dry-run"}
      BY DEF Outcomes
    <3> QED
      BY <2>1, <3>1, EndedRecord
  <2>4. CyclesInv'
    BY <1>1, <2>2, <2>3, OwnKept, RequestsSent
  <2> QED
    BY <2>2, <2>3, <2>4, CycleFacts DEF Stage
<1> QED
  BY <1>2, <1>3

\* To win one more claim is to hold one more request.
LEMMA OneMore ==
  ASSUME WorkerInv, NEW w \in Workers, NEW r \in Requests, holder[r] # w, holder' = [holder EXCEPT ![r] = w]
  PROVE  /\ Cardinality({q \in Requests : holder'[q] = w}) = Cardinality({q \in Requests : holder[q] = w}) + 1
         /\ Cardinality({q \in Requests : holder'[q] = w}) <= Cardinality(Requests)
         /\ Cardinality({q \in Requests : holder[q] = w}) \in Nat
         /\ Cardinality(Requests) \in Nat
<1> DEFINE S == {q \in Requests : holder[q] = w}
           T == {q \in Requests : holder'[q] = w}
<1>1. S \subseteq Requests /\ T \subseteq Requests /\ IsFiniteSet(Requests) /\ r \notin S
  BY QueueAssumption
<1>2. T = S \cup {r}
  BY Shape
<1>3. IsFiniteSet(S)
  BY <1>1, FS_Subset
<1>4. Cardinality(S \cup {r}) = Cardinality(S) + 1 /\ Cardinality(S) \in Nat
  BY <1>1, <1>3, FS_AddElement, FS_CardinalityType
<1>5. Cardinality(T) <= Cardinality(Requests) /\ Cardinality(Requests) \in Nat
  BY <1>1, FS_Subset, FS_CardinalityType
<1> QED
  BY <1>2, <1>4, <1>5

LEMMA ClaimOK ==
  ASSUME WorkerInv, NEW w \in Workers, NEW r \in Requests, Claim(w, r)
  PROVE  WorkerInv'
<1>0. <<w, r>> \in Cycles /\ CyclesInv /\ ClaimInv(w, r) /\ InvocationInv(w)
  BY Shape DEF WorkerInv
<1>1. /\ pc[w] = "next" /\ attempted[w] < MaxOf[w] /\ At(w, r) /\ row[r] = "pending" /\ Begin(<<w, r>>)
      /\ row' = [row EXCEPT ![r] = "claimed"] /\ holder' = [holder EXCEPT ![r] = w]
      /\ attempted' = [attempted EXCEPT ![w] = attempted[w] + 1] /\ pc' = [pc EXCEPT ![w] = "cycle"]
      /\ UNCHANGED <<todo, worked, child, unsettled>>
  BY DEF Claim, Trying
<1>2. holder[r] = NoWorker /\ \A v \in Workers : holder[r] # v
  BY <1>0, <1>1, Shape DEF ClaimInv
<1>3. CyclesInv' /\ Stage(<<w, r>>)' \in {"preflight", "over"}
      /\ \A d \in Cycles : d # <<w, r>> => cycle'[d] = cycle[d]
  BY <1>0, <1>1, Begins, Shape
<1>4. /\ row' \in [Requests -> {"pending", "claimed", "fulfilled", "expired", "cancelled"}]
      /\ row'[r] = "claimed" /\ \A q \in Requests : q # r => row'[q] = row[q]
      /\ holder' \in [Requests -> Workers \cup {NoWorker}]
      /\ holder'[r] = w /\ \A q \in Requests : q # r => holder'[q] = holder[q]
      /\ pc' \in [Workers -> {"start", "next", "cycle", "cancelling", "done0", "done1", "crashed"}]
      /\ pc'[w] = "cycle" /\ \A v \in Workers : v # w => pc'[v] = pc[v]
  BY <1>1, Shape
<1>5. ASSUME NEW v \in Workers, NEW q \in Requests PROVE ClaimInv(v, q)'
  <2>1. ClaimInv(v, q) /\ <<v, q>> \in Cycles
    BY Shape
  <2>2. CASE v = w /\ q = r
    <3>1. ~worked[w][r].released
      BY <1>0, <1>1 DEF ClaimInv
    <3>2. Stage(<<v, q>>)' \in {"preflight", "over"} /\ holder'[q] = v /\ pc'[v] = "cycle" /\ At(v, q)'
      BY <1>1, <1>3, <1>4, <2>2 DEF At
    <3> QED
      BY <1>1, <1>4, <2>2, <3>1, <3>2 DEF ClaimInv, Working
  <2>3. CASE v = w /\ q # r
    <3>1. ~At(w, q) /\ cycle'[<<v, q>>] = cycle[<<v, q>>]
      BY <1>1, <1>3, <2>1, <2>3, AtOne
    <3> QED
      BY <1>1, <1>4, <2>1, <2>3, <3>1 DEF ClaimInv, Working, Reported, Keeps, Serviced, Kind, Stage, At
  <2>4. CASE v # w
    <3>1. cycle'[<<v, q>>] = cycle[<<v, q>>] /\ (q = r => holder[q] # v /\ holder'[q] # v)
      BY <1>2, <1>3, <1>4, <2>1, <2>4
    <3>2. holder'[q] = v <=> holder[q] = v
      BY <1>4, <3>1
    <3>3. ~worked[v][q].released \/ q # r
      BY <1>1, <2>1 DEF ClaimInv
    <3>4. /\ row'[q] = "pending" => row[q] = "pending" /\ q # r
          /\ q # r => row'[q] = row[q] /\ holder'[q] = holder[q]
      BY <1>4
    <3> QED
      BY <1>1, <1>4, <2>1, <2>4, <3>1, <3>2, <3>3, <3>4 DEF ClaimInv, Working, Reported, Keeps, Serviced, Kind, Stage, At
  <2> QED
    BY <2>2, <2>3, <2>4
<1>6. ASSUME NEW v \in Workers PROVE InvocationInv(v)' /\ attempted'[v] \in 0..Cardinality(Requests) /\ attempted'[v] <= MaxOf[v]
  <2>1. InvocationInv(v) /\ attempted[v] \in 0..Cardinality(Requests) /\ attempted[v] <= MaxOf[v] /\ MaxOf[v] \in Nat
    BY Shape, QueueAssumption
  <2>2. ReportOf(v)' = ReportOf(v)
    BY <1>1 DEF ReportOf
  <2>3. CASE v = w
    <3>1. (attempted[v] = Cardinality({q \in Requests : holder[q] = v}))'
          /\ attempted'[v] \in 0..Cardinality(Requests) /\ attempted'[v] <= MaxOf[v]
      <4>1. attempted'[v] = attempted[v] + 1
        BY <1>1, <2>3, Shape
      <4>2. attempted[v] = Cardinality({q \in Requests : holder[q] = v})
        BY <2>1 DEF InvocationInv
      <4>3. holder[r] # v /\ holder' = [holder EXCEPT ![r] = v]
        BY <1>1, <1>2, <2>3
      <4>4. /\ Cardinality({q \in Requests : holder'[q] = v}) = attempted[v] + 1
            /\ Cardinality({q \in Requests : holder'[q] = v}) <= Cardinality(Requests)
        BY <4>2, <4>3, OneMore
      <4>5. attempted[v] + 1 \in 0..Cardinality(Requests) /\ attempted[v] + 1 <= MaxOf[v]
        <5>1. attempted[v] \in Nat /\ Cardinality(Requests) \in Nat
          BY <4>2, <4>3, OneMore
        <5> QED
          BY <1>1, <2>1, <2>3, <4>2, <4>3, <4>4, <5>1, OneMore
      <4>6. (attempted[v] = Cardinality({q \in Requests : holder[q] = v}))'
        BY <4>1, <4>4
      <4> QED
        BY <4>1, <4>5, <4>6
    <3> QED
      BY <1>1, <1>4, <2>3, <3>1 DEF InvocationInv, At
  <2>4. CASE v # w
    <3>1. attempted'[v] = attempted[v]
      BY <1>1, <2>4, Shape
    <3>2. \A q \in Requests : holder'[q] = v <=> holder[q] = v
      BY <1>2, <1>4, <2>4
    <3>3. {q \in Requests : holder'[q] = v} = {q \in Requests : holder[q] = v}
      BY <3>2
    <3>4. (attempted[v] = Cardinality({q \in Requests : holder[q] = v}))'
      BY <2>1, <3>1, <3>3 DEF InvocationInv
    <3> QED
      BY <1>1, <1>4, <2>1, <2>2, <2>4, <3>1, <3>4 DEF InvocationInv, At
  <2> QED
    BY <2>3, <2>4
<1>7. attempted' \in [Workers -> 0..Cardinality(Requests)]
  <2>1. DOMAIN attempted' = Workers /\ attempted' = [v \in Workers |-> attempted'[v]]
    BY <1>1, Shape
  <2> QED
    BY <1>6, <2>1
<1>8. WorkerTypeOK'
  <2>1. CycleTypeOK'
    BY <1>3 DEF CyclesInv
  <2> QED
    BY <1>1, <1>4, <1>6, <1>7, <2>1, Shape DEF WorkerTypeOK
<1>9. WorkloadWithinCycle'
  <2> SUFFICES ASSUME NEW d \in Cycles, child'[d] = "running"
               PROVE  /\ Stage(d)' \notin {"idle", "preflight", "arming"}
                      /\ pc'[d[1]] = "crashed" \/ (pc'[d[1]] = "cycle" /\ At(d[1], d[2])')
    BY DEF WorkloadWithinCycle
  <2>1. /\ Stage(d) \notin {"idle", "preflight", "arming"} /\ d[1] \in Workers
        /\ pc[d[1]] = "crashed" \/ (pc[d[1]] = "cycle" /\ At(d[1], d[2]))
    BY <1>1, Shape DEF WorkerInv, WorkloadWithinCycle
  <2>2. d[1] # w /\ d # <<w, r>>
    BY <1>1, <2>1
  <2> QED
    BY <1>1, <1>3, <1>4, <2>1, <2>2 DEF Stage, At
<1> QED
  BY <1>3, <1>5, <1>6, <1>8, <1>9 DEF WorkerInv

LEMMA CrashSound ==
  ASSUME WorkerInv, NEW w \in Workers, Crash(w)
  PROVE  WorkerInv'
<1>1. /\ pc[w] \in {"next", "cycle", "cancelling"} /\ pc' = [pc EXCEPT ![w] = "crashed"]
      /\ cycle' = [c \in Cycles |-> IF c[1] = w /\ Stage(c) \notin {"idle", "over"}
                                    THEN [Over(c, "none") EXCEPT !.stage = "gone"] ELSE cycle[c]]
      /\ UNCHANGED <<net, capture, stored, received, row, holder, todo, attempted, worked, child, unsettled>>
  BY DEF Crash
<1>2. ASSUME NEW c \in Cycles
      PROVE  /\ cycle'[c] \in CycleType /\ (Sound(cycle[c], c) /\ Told(cycle[c], c))'
             /\ c[1] # w \/ Stage(c) \in {"idle", "over"} => cycle'[c] = cycle[c]
             /\ c[1] = w /\ Stage(c) \notin {"idle", "over"} => cycle'[c].stage = "gone" /\ cycle'[c].outcome = "none"
  <2>1. cycle[c] \in CycleType /\ Sound(cycle[c], c) /\ Told(cycle[c], c)
    BY Shape
  <2>2. CASE c[1] = w /\ Stage(c) \notin {"idle", "over"}
    <3>1. PICK x : x = [Over(c, "none") EXCEPT !.stage = "gone"]
      OBVIOUS
    <3>2. 0 \in 0..MaxPolls /\ 0 \in 0..MaxTries
      BY CycleAssumption
    <3>3. x \in CycleType /\ x.stage = "gone" /\ x.outcome = "none"
      BY <2>1, <3>1, <3>2 DEF Over, CycleType, Stages, Outcomes
    <3>4. cycle'[c] = x
      BY <1>1, <2>2, <3>1
    <3> QED
      BY <2>2, <3>3, <3>4 DEF Sound, Told
  <2>3. CASE ~(c[1] = w /\ Stage(c) \notin {"idle", "over"})
    <3>1. cycle'[c] = cycle[c]
      BY <1>1, <2>3
    <3> QED
      BY <1>1, <2>1, <2>3, <3>1 DEF Sound, Told, IsStored
  <2> QED
    BY <2>2, <2>3
<1>3. CyclesInv'
  <2>1. cycle' \in [Cycles -> CycleType]
    <3>1. cycle' = [c \in Cycles |-> cycle'[c]]
      BY <1>1
    <3> QED
      BY <1>2, <3>1
  <2>2. CycleTypeOK'
    <3>1. CycleTypeOK
      BY DEF WorkerInv, CyclesInv
    <3> QED
      BY <1>1, <2>1, <3>1 DEF CycleTypeOK, CycleType
  <2>3. StoredByKey'
    BY <1>1 DEF WorkerInv, CyclesInv, StoredByKey
  <2> QED
    BY <1>2, <2>2, <2>3 DEF CyclesInv
<1>4. /\ pc' \in [Workers -> {"start", "next", "cycle", "cancelling", "done0", "done1", "crashed"}]
      /\ pc'[w] = "crashed" /\ \A v \in Workers : v # w => pc'[v] = pc[v]
  BY <1>1, Shape
<1>5. ASSUME NEW v \in Workers, NEW q \in Requests PROVE ClaimInv(v, q)'
  <2>1. ClaimInv(v, q) /\ <<v, q>> \in Cycles /\ Sound(cycle[<<v, q>>], <<v, q>>)
    BY Shape
  <2>2. CASE v # w
    <3>1. cycle'[<<v, q>>] = cycle[<<v, q>>]
      BY <1>2, <2>1, <2>2
    <3> QED
      BY <1>1, <1>4, <2>1, <2>2, <3>1 DEF ClaimInv, Working, Reported, Keeps, Serviced, Kind, Stage, At
  <2>3. CASE v = w
    <3>1. CASE Stage(<<v, q>>) \in {"idle", "over"}
      <4>1. cycle'[<<v, q>>] = cycle[<<v, q>>]
        BY <1>2, <2>1, <3>1
      <4> QED
        BY <1>1, <1>4, <2>1, <2>3, <3>1, <4>1 DEF ClaimInv, Keeps, Serviced, Kind, Stage
    <3>2. CASE Stage(<<v, q>>) \notin {"idle", "over"}
      <4>1. Stage(<<v, q>>)' = "gone"
        BY <1>2, <2>1, <2>3, <3>2 DEF Stage
      <4>2. ~worked[v][q].released
        BY <2>1, <3>2 DEF ClaimInv, Sound, Kind, Stage
      <4> QED
        BY <1>1, <1>4, <2>1, <2>3, <3>2, <4>1, <4>2 DEF ClaimInv
    <3> QED
      BY <3>1, <3>2
  <2> QED
    BY <2>2, <2>3
<1>6. ASSUME NEW v \in Workers PROVE InvocationInv(v)'
  <2>1. InvocationInv(v)
    BY Shape
  <2>2. ReportOf(v)' = ReportOf(v)
    BY <1>1 DEF ReportOf
  <2>3. {q \in Requests : holder'[q] = v} = {q \in Requests : holder[q] = v} /\ attempted' = attempted
    BY <1>1
  <2>4. (attempted[v] = Cardinality({q \in Requests : holder[q] = v}))'
    BY <2>1, <2>3 DEF InvocationInv
  <2> QED
    BY <1>1, <1>4, <2>1, <2>2, <2>4 DEF InvocationInv, At
<1>7. WorkloadWithinCycle'
  <2> SUFFICES ASSUME NEW d \in Cycles, child'[d] = "running"
               PROVE  /\ Stage(d)' \notin {"idle", "preflight", "arming"}
                      /\ pc'[d[1]] = "crashed" \/ (pc'[d[1]] = "cycle" /\ At(d[1], d[2])')
    BY DEF WorkloadWithinCycle
  <2>1. /\ Stage(d) \notin {"idle", "preflight", "arming"} /\ d[1] \in Workers
        /\ pc[d[1]] = "crashed" \/ (pc[d[1]] = "cycle" /\ At(d[1], d[2]))
    BY <1>1, Shape DEF WorkerInv, WorkloadWithinCycle
  <2>2. Stage(d)' \in {Stage(d), "gone"}
    BY <1>2 DEF Stage
  <2> QED
    BY <1>1, <1>4, <2>1, <2>2 DEF At
<1>8. WorkerTypeOK'
  <2>1. CycleTypeOK'
    BY <1>3 DEF CyclesInv
  <2> QED
    BY <1>1, <1>4, <2>1, Shape DEF WorkerTypeOK
<1> QED
  BY <1>3, <1>5, <1>6, <1>7, <1>8 DEF WorkerInv

-----------------------------------------------------------------------------
(* The theorems of the worker *)

LEMMA WorkerInitOK == WorkerInit => WorkerInv
<1> SUFFICES ASSUME WorkerInit PROVE WorkerInv
  OBVIOUS
<1>1. /\ CycleInit /\ row = [r \in Requests |-> "pending"] /\ holder = [r \in Requests |-> NoWorker]
      /\ pc = [w \in Workers |-> "start"] /\ todo = [w \in Workers |-> {}] /\ attempted = [w \in Workers |-> 0]
      /\ worked = [w \in Workers |-> [r \in Requests |-> Unworked]] /\ child = [c \in Cycles |-> "none"]
      /\ unsettled = {}
  BY DEF WorkerInit
<1>2. 0 \in 0..MaxPolls /\ 0 \in 0..MaxTries
  BY CycleAssumption
<1>3. CycleTypeOK /\ \A c \in Cycles : cycle[c].stage = "idle" /\ cycle[c].outcome = "none"
  BY <1>1, <1>2 DEF CycleInit, CycleTypeOK, Stages, Outcomes, Captures
<1>4. CyclesInv
  BY <1>1, <1>3 DEF CyclesInv, CycleInit, StoredByKey, Sound, Told
<1>5. Cardinality(Requests) \in Nat /\ \A w \in Workers : MaxOf[w] \in Nat
  BY QueueAssumption, FS_CardinalityType
<1>6. Unworked \in [outcome : Outcomes \cup {"claim-raced", "claim-error"}, released : BOOLEAN]
      /\ ~Unworked.released
  BY DEF Unworked, Outcomes
<1>7. WorkerTypeOK
  <2>1. worked \in [Workers -> [Requests ->
          [outcome : Outcomes \cup {"claim-raced", "claim-error"}, released : BOOLEAN]]]
    BY <1>1, <1>6
  <2>2. attempted \in [Workers -> 0..Cardinality(Requests)] /\ \A w \in Workers : attempted[w] <= MaxOf[w]
    BY <1>1, <1>5
  <2> QED
    BY <1>1, <1>3, <2>1, <2>2 DEF WorkerTypeOK
<1>8. ASSUME NEW w \in Workers, NEW r \in Requests PROVE ClaimInv(w, r)
  <2>1. Stage(<<w, r>>) = "idle"
    BY <1>3, QueueAssumption DEF Stage
  <2> QED
    BY <1>1, <1>6, <2>1, QueueAssumption DEF ClaimInv
<1>9. ASSUME NEW w \in Workers PROVE InvocationInv(w)
  <2>1. {r \in Requests : holder[r] = w} = {}
    BY <1>1, QueueAssumption
  <2> QED
    BY <1>1, <2>1, FS_EmptySet DEF InvocationInv
<1>10. WorkloadWithinCycle
  BY <1>1 DEF WorkloadWithinCycle
<1> QED
  BY <1>4, <1>7, <1>8, <1>9, <1>10 DEF WorkerInv

LEMMA WorkerStutter ==
  ASSUME WorkerInv, UNCHANGED workerVars
  PROVE  WorkerInv'
<1>1. UNCHANGED <<cycleVars, cycle, row, holder, pc, todo, attempted, worked, child, unsettled>>
  BY DEF workerVars, queueVars, cycleVars
<1>2. ASSUME NEW v \in Workers, NEW q \in Requests PROVE ClaimInv(v, q)'
  BY <1>1, Shape DEF ClaimInv, Working, Reported, Keeps, Serviced, Kind, Stage, At
<1>3. ASSUME NEW v \in Workers
      PROVE  /\ pc'[v] \in {"cycle", "cancelling"} => \E q \in Requests : At(v, q)'
             /\ pc'[v] = "done0" => "error" \notin ReportOf(v)'
  <2>1. InvocationInv(v)
    BY Shape
  <2>2. ReportOf(v)' = ReportOf(v)
    BY <1>1 DEF ReportOf
  <2> QED
    BY <1>1, <2>1, <2>2 DEF InvocationInv, At
<1>4. WorkloadWithinCycle'
  BY <1>1 DEF WorkerInv, WorkloadWithinCycle, Stage, At
<1> QED
  BY <1>1, <1>2, <1>3, <1>4, ClaimsAlone, Shape

LEMMA WorkerStepOK == WorkerInv /\ [WorkerNext]_workerVars => WorkerInv'
<1> SUFFICES ASSUME WorkerInv, [WorkerNext]_workerVars PROVE WorkerInv'
  OBVIOUS
<1>1. ASSUME NEW w \in Workers, Invocation(w) PROVE WorkerInv'
  BY <1>1, ListOK, ClaimOK, RowDoneOK DEF Invocation
<1>2. ASSUME NEW w \in Workers, Crash(w) PROVE WorkerInv'
  BY <1>2, CrashSound
<1>3. ASSUME NEW c \in Cycles, Works(c) \/ DriverExits(c) PROVE WorkerInv'
  BY <1>3, WorksOK, DriverOK
<1>4. ASSUME NEW r \in Requests, Fulfil(r) \/ Expire(r) PROVE WorkerInv'
  BY <1>4, RowOK
<1> QED
  BY <1>1, <1>2, <1>3, <1>4, WorkerStutter DEF WorkerNext

LEMMA WorkerInvTells == WorkerInv => RunTruthful
<1> SUFFICES ASSUME WorkerInv PROVE RunTruthful
  OBVIOUS
<1>1. ClaimsSettled
  <2>1. WorkerTypeOK
    BY DEF WorkerInv
  <2>2. ASSUME NEW w \in Workers, NEW r \in Requests
        PROVE  /\ Stage(<<w, r>>) # "idle" => holder[r] = w
               /\ Ended(w) /\ holder[r] = w /\ row[r] = "claimed" =>
                    Serviced(<<w, r>>) \/ w \in KeepClaim \/ <<w, r>> \in unsettled
               /\ worked[w][r].released => row[r] = "cancelled" /\ Kind(<<w, r>>) \in {"error", "no-capture"}
    <3>1. ClaimInv(w, r) /\ <<w, r>>[1] = w
      BY Shape
    <3> QED
      BY <3>1 DEF ClaimInv, Ended, Working, Reported, Keeps
  <2> QED
    BY <2>1, <2>2 DEF ClaimsSettled
<1>2. SuccessMeansShipped
  <2> SUFFICES ASSUME NEW w \in Workers, NEW r \in Requests, pc[w] = "done0", holder[r] = w
               PROVE  \/ IsStored(<<w, r>>)
                      \/ <<w, r>> \in DryRun /\ "zip" \in cycle[<<w, r>>].disk
                      \/ cycle[<<w, r>>].outcome = "no-capture" /\ capture[<<w, r>>] = "empty"
    BY DEF SuccessMeansShipped
  <2>1. ClaimInv(w, r) /\ InvocationInv(w) /\ <<w, r>> \in Cycles
    BY Shape
  <2>2. Reported(w, r)
    BY <2>1 DEF ClaimInv, Working
  <2>3. worked[w][r].outcome # "error"
    BY <2>1 DEF InvocationInv, ReportOf
  <2>4. Kind(<<w, r>>) \in {"shipped", "duplicate", "no-capture", "dry-run"}
    BY <2>2, <2>3, KindOfOver DEF Reported
  <2>5. cycle[<<w, r>>].outcome \in {"shipped", "duplicate", "no-capture", "dry-run"}
    BY <2>4 DEF Kind
  <2> QED
    BY <2>1, <2>5, Shape DEF Sound, Told
<1> QED
  BY <1>1, <1>2 DEF RunTruthful, WorkerInv

\* The shape of the worker's state: no counter and no table ever leaves its range, and no invocation
\* claims more than its --max.
THEOREM WorkerTypeCorrect == WorkerSpec => []WorkerTypeOK
<1>1. WorkerInv => WorkerTypeOK
  BY DEF WorkerInv
<1> QED
  BY <1>1, WorkerInitOK, WorkerStepOK, PTL DEF WorkerSpec

\* The outside agrees with what an invocation tells it: a claim is settled or its cycle runs, behind
\* the exit code 0 every claim won was serviced (decideExit), and a driver runs only within its cycle.
THEOREM WorkerTruthful == WorkerSpec => []RunTruthful
BY WorkerInitOK, WorkerStepOK, WorkerInvTells, PTL DEF WorkerSpec

-----------------------------------------------------------------------------
(* The daemon *)

\* What TypeOK and NoOverlap say of one job.
JobOK(j, rt) ==
  /\ rt \in JobRuntime
  /\ rt.attemptsUsed <= Attempts[j]
  /\ rt.children <= 1
  /\ rt.pendingRetryAt # None => rt.children = 0
  /\ rt.running <=> rt.children = 1 \/ rt.pendingRetryAt # None

JobsOK == job \in [Jobs -> JobRuntime] /\ \A j \in Jobs : JobOK(j, job[j])

\* The remainder of a division by a period is an integer.
LEMMA SlotTyped ==
  ASSUME NEW j \in Jobs, NEW due \in Int, now \in Int
  PROVE  NextDue(j, due) \subseteq Int
<1>1. Period[j] \in Nat \ {0} /\ Jitter[j] \in Nat
  BY SchedulerAssumption
<1>2. (now + due) % Period[j] \in Int
  BY <1>1
<1>3. NextSlot(j, due) \in Int
  BY <1>1, <1>2 DEF NextSlot
<1> QED
  BY <1>1, <1>3 DEF NextDue

\* Finishing an attempt of an occupied job without a child leaves it released or between attempts.
LEMMA FinishAttemptOK ==
  ASSUME NEW j \in Jobs, NEW rt \in JobRuntime, NEW outcome \in {"ok", "failed", "timeout"},
         rt.attemptsUsed <= Attempts[j], rt.children = 0, rt.pendingRetryAt = None, rt.running
  PROVE  /\ JobOK(j, FinishAttempt(j, rt, outcome))
         /\ FinishAttempt(j, rt, outcome).nextScheduledAt = rt.nextScheduledAt
<1>1. Attempts[j] \in Nat /\ RetryDelay[j] \in Nat /\ None \notin Int
  BY SchedulerAssumption
<1> DEFINE Retrying == [rt EXCEPT !.attemptsUsed = @ + 1, !.pendingRetryAt = RetryDelay[j]]
           AfterExit == [rt EXCEPT !.running = FALSE, !.lastOutcome = outcome]
<1>2. ASSUME rt.attemptsUsed < Attempts[j]
      PROVE  JobOK(j, Retrying) /\ Retrying.nextScheduledAt = rt.nextScheduledAt
  <2>1. /\ Retrying.attemptsUsed = rt.attemptsUsed + 1
        /\ Retrying.nextScheduledAt = rt.nextScheduledAt
        /\ Retrying.children = 0 /\ Retrying.pendingRetryAt = RetryDelay[j]
    BY DEF JobRuntime
  <2>2. Retrying.attemptsUsed <= Attempts[j] /\ Retrying.children <= 1 /\ Retrying.pendingRetryAt # None
    BY <1>1, <1>2, <2>1 DEF JobRuntime
  <2>3. Retrying.running
    BY DEF JobRuntime
  <2>4. Retrying \in JobRuntime
    <3>1. rt.attemptsUsed + 1 \in Nat /\ RetryDelay[j] \in Int \cup {None}
      BY <1>1 DEF JobRuntime
    <3>2. [rt EXCEPT !.attemptsUsed = @ + 1] \in JobRuntime
      BY <3>1 DEF JobRuntime
    <3> QED
      BY <3>1, <3>2, Zenon DEF JobRuntime
  <2> QED
    BY <2>1, <2>2, <2>3, <2>4, Zenon DEF JobOK
<1>3. JobOK(j, AfterExit) /\ AfterExit.nextScheduledAt = rt.nextScheduledAt
  <2>1. /\ AfterExit.attemptsUsed = rt.attemptsUsed /\ AfterExit.nextScheduledAt = rt.nextScheduledAt
        /\ AfterExit.children = 0 /\ AfterExit.pendingRetryAt = None
    BY DEF JobRuntime
  <2>2. AfterExit.attemptsUsed <= Attempts[j] /\ AfterExit.children <= 1 /\ AfterExit.children # 1
    BY <1>1, <2>1 DEF JobRuntime
  <2>3. ~AfterExit.running
    BY DEF JobRuntime
  <2>4. AfterExit \in JobRuntime
    BY <1>1 DEF JobRuntime
  <2> QED
    BY <2>1, <2>2, <2>3, <2>4, Zenon DEF JobOK
<1> QED
  BY <1>2, <1>3, Zenon DEF FinishAttempt

LEMMA StartAttemptOK ==
  ASSUME NEW j \in Jobs, NEW rt \in JobRuntime,
         rt.attemptsUsed <= Attempts[j], rt.children = 0, rt.pendingRetryAt = None
  PROVE  \A next \in StartAttempt(j, rt) : JobOK(j, next)
<1> DEFINE occupied == [rt EXCEPT !.running = TRUE]
<1>1. /\ occupied \in JobRuntime /\ occupied.running /\ occupied.children = 0
      /\ occupied.pendingRetryAt = None /\ occupied.attemptsUsed <= Attempts[j]
  BY DEF JobRuntime
<1> DEFINE Spawned == [occupied EXCEPT !.children = @ + 1]
<1>2. JobOK(j, Spawned)
  <2> HIDE DEF occupied
  <2>1. /\ Spawned.attemptsUsed = occupied.attemptsUsed
        /\ Spawned.children = 1 /\ Spawned.pendingRetryAt = None
    BY <1>1 DEF JobRuntime
  <2>2. Spawned.attemptsUsed <= Attempts[j] /\ Spawned.children <= 1
    BY <1>1, <2>1
  <2>3. Spawned.running
    BY <1>1 DEF JobRuntime
  <2>4. Spawned \in JobRuntime
    BY <1>1 DEF JobRuntime
  <2> QED
    BY <2>1, <2>2, <2>3, <2>4, Zenon DEF JobOK
<1>3. JobOK(j, FinishAttempt(j, occupied, "failed"))
  BY <1>1, FinishAttemptOK
<1> QED
  BY <1>2, <1>3 DEF StartAttempt

\* A tick serves a job without running it twice, even if an occurrence and a retry are both due.
LEMMA ServedOK ==
  ASSUME NEW j \in Jobs, JobOK(j, job[j]), now \in Int
  PROVE  \A rt \in Served(j) : JobOK(j, rt)
<1> DEFINE Advanced == {[job[j] EXCEPT !.nextScheduledAt = due] : due \in NextDue(j, job[j].nextScheduledAt)}
<1>1. /\ job[j] \in JobRuntime /\ job[j].nextScheduledAt \in Int
      /\ Attempts[j] \in Nat /\ None \notin Int
  BY SchedulerAssumption DEF JobOK, JobRuntime
<1>2. NextDue(j, job[j].nextScheduledAt) \subseteq Int
  BY <1>1, SlotTyped
<1>3. \A rt \in Advanced :
        /\ rt \in JobRuntime /\ JobOK(j, rt) /\ rt.pendingRetryAt = job[j].pendingRetryAt
        /\ rt.running = job[j].running /\ rt.children = job[j].children
  BY <1>1, <1>2 DEF JobOK, JobRuntime
<1>4. CASE Due(j) /\ ~job[j].running
  <2>1. job[j].children = 0 /\ job[j].pendingRetryAt = None
    BY <1>1, <1>4 DEF JobOK, JobRuntime
  <2>2. \A rt \in Advanced : \A next \in StartAttempt(j, [rt EXCEPT !.attemptsUsed = 0]) : JobOK(j, next)
    <3> SUFFICES ASSUME NEW rt \in Advanced
                 PROVE  \A next \in StartAttempt(j, [rt EXCEPT !.attemptsUsed = 0]) : JobOK(j, next)
      OBVIOUS
    <3>1. /\ [rt EXCEPT !.attemptsUsed = 0] \in JobRuntime
          /\ [rt EXCEPT !.attemptsUsed = 0].attemptsUsed <= Attempts[j]
          /\ [rt EXCEPT !.attemptsUsed = 0].children = 0
          /\ [rt EXCEPT !.attemptsUsed = 0].pendingRetryAt = None
      BY <1>1, <1>3, <2>1 DEF JobRuntime
    <3> QED
      BY <3>1, StartAttemptOK
  <2>3. ~RetryDue(j)
    BY <2>1 DEF RetryDue
  <2>4. Served(j) = UNION {StartAttempt(j, [rt EXCEPT !.attemptsUsed = 0]) : rt \in Advanced}
    BY <1>4, <2>3 DEF Served, ServeRetry, ServeSchedule
  <2> QED
    BY <2>2, <2>4
<1>5. CASE ~(Due(j) /\ ~job[j].running)
  <2>1. \A rt \in ServeSchedule(j) :
          /\ rt \in JobRuntime /\ JobOK(j, rt) /\ rt.pendingRetryAt = job[j].pendingRetryAt
          /\ rt.children = job[j].children
    BY <1>1, <1>3, <1>5 DEF ServeSchedule
  <2>2. \A rt \in ServeSchedule(j) : \A next \in ServeRetry(j, rt) : JobOK(j, next)
    <3> SUFFICES ASSUME NEW rt \in ServeSchedule(j) PROVE \A next \in ServeRetry(j, rt) : JobOK(j, next)
      OBVIOUS
    <3>1. CASE RetryDue(j)
      <4>1. rt.children = 0
        BY <2>1, <3>1 DEF RetryDue, JobOK
      <4>2. /\ [rt EXCEPT !.pendingRetryAt = None] \in JobRuntime
            /\ [rt EXCEPT !.pendingRetryAt = None].attemptsUsed <= Attempts[j]
            /\ [rt EXCEPT !.pendingRetryAt = None].children = 0
            /\ [rt EXCEPT !.pendingRetryAt = None].pendingRetryAt = None
        BY <2>1, <4>1 DEF JobOK, JobRuntime
      <4> QED
        BY <3>1, <4>2, StartAttemptOK DEF ServeRetry
    <3>2. CASE ~RetryDue(j)
      BY <2>1, <3>2 DEF ServeRetry
    <3> QED
      BY <3>1, <3>2
  <2> QED
    BY <2>2 DEF Served
<1> QED
  BY <1>4, <1>5

----------------------------------------------------------------------------
(* The timer *)

\* A timer that is armed for some time fires by then, or at once.
FiresInTime(t) == t \in Timer /\ (t.firesAt <= 0 \/ t.firesAt <= t.armedFor)

Covers(t, jobs) == FiresInTime(t) /\ \A wake \in Wakes(jobs) : t.armedFor <= wake

LEMMA WakesTyped ==
  ASSUME NEW jobs \in [Jobs -> JobRuntime]
  PROVE  Wakes(jobs) \subseteq Int
BY DEF Wakes, JobRuntime

LEMMA ClampedOK ==
  ASSUME NEW min \in Int
  PROVE  FiresInTime([armedFor |-> min, firesAt |-> Clamped(min)])
<1>1. MaxDelay \in Nat \ {0}
  BY SchedulerAssumption
<1>2. Clamped(min) \in Int /\ (Clamped(min) <= 0 \/ Clamped(min) <= min)
  BY <1>1 DEF Clamped
<1> QED
  BY <1>2 DEF FiresInTime, Timer

\* Whatever timer was armed before it, rearmGlobalTimer leaves one that covers every wake.
LEMMA RearmCovers ==
  ASSUME NEW jobs \in [Jobs -> JobRuntime], NEW armed, armed = None \/ FiresInTime(armed),
         RearmGlobalTimer(armed, jobs)
  PROVE  Covers(timer', jobs)
<1>1. PICK min \in Wakes(jobs) :
        /\ \A wake \in Wakes(jobs) : min <= wake
        /\ timer' = IF armed # None /\ armed.armedFor = min THEN armed
                    ELSE [armedFor |-> min, firesAt |-> Clamped(min)]
  BY DEF RearmGlobalTimer
<1>2. min \in Int
  BY WakesTyped
<1>3. FiresInTime(timer')
  BY <1>1, <1>2, ClampedOK
<1>4. timer'.armedFor = min
  BY <1>1
<1> QED
  BY <1>1, <1>3, <1>4 DEF Covers

----------------------------------------------------------------------------
(* The inductive invariant *)

SchedulerInv ==
  /\ now \in 0..(Cycle - 1)
  /\ JobsOK
  /\ mode \in {"on", "draining", "stopped"}
  /\ killed \subseteq Jobs /\ begun \subseteq Jobs
  /\ timer = None \/ FiresInTime(timer)
  /\ mode = "on" => Covers(timer, job)

LEMMA InitSchedulerInv == Init => SchedulerInv
<1> SUFFICES ASSUME Init PROVE SchedulerInv
  OBVIOUS
<1>1. PICK due \in [Jobs -> UNION {NextDue(j, 0) : j \in Jobs}] :
        /\ \A j \in Jobs : due[j] \in NextDue(j, 0)
        /\ job = [j \in Jobs |->
                    [nextScheduledAt |-> due[j], pendingRetryAt |-> None, running |-> FALSE,
                     attemptsUsed |-> 0, children |-> 0, lastOutcome |-> "none"]]
  BY DEF Init
<1>2. now = 0 /\ now \in 0..(Cycle - 1) /\ \A j \in Jobs : Attempts[j] \in Nat
  BY SchedulerAssumption DEF Init
<1>3. \A j \in Jobs : due[j] \in Int
  BY <1>1, <1>2, SlotTyped
<1>4. \A j \in Jobs : JobOK(j, job[j])
  BY <1>1, <1>2, <1>3 DEF JobOK, JobRuntime
<1>5. JobsOK
  BY <1>1, <1>4 DEF JobsOK, JobOK
<1>6. PICK min \in Wakes(job) :
        /\ \A wake \in Wakes(job) : min <= wake
        /\ timer = [armedFor |-> min, firesAt |-> Clamped(min)]
  BY DEF Init
<1>7. min \in Int
  BY <1>5, WakesTyped DEF JobsOK
<1>8. Covers(timer, job)
  BY <1>6, <1>7, ClampedOK DEF Covers
<1> QED
  BY <1>2, <1>5, <1>8 DEF Init, SchedulerInv, Covers

LEMMA TickKeeps == SchedulerInv /\ Tick => SchedulerInv'
<1> SUFFICES ASSUME SchedulerInv, Tick PROVE SchedulerInv'
  OBVIOUS
<1>1. \A j \in Jobs : job'[j] \in Served(j)
  BY DEF Tick
<1>2. now \in Int
  BY SchedulerAssumption DEF SchedulerInv
<1>3. \A j \in Jobs : JobOK(j, job'[j])
  BY <1>1, <1>2, ServedOK DEF SchedulerInv, JobsOK
<1>4. job' \in [Jobs -> JobRuntime]
  BY <1>3 DEF Tick, JobOK
<1>5. Covers(timer', job')
  BY <1>4, RearmCovers DEF Tick
<1>6. begun' \subseteq Jobs /\ now' = now /\ mode' = mode /\ killed' = killed
  BY DEF Tick
<1> QED
  BY <1>3, <1>4, <1>5, <1>6 DEF SchedulerInv, JobsOK, Covers

LEMMA MinuteKeeps == SchedulerInv /\ Minute => SchedulerInv'
<1> SUFFICES ASSUME SchedulerInv, Minute PROVE SchedulerInv'
  OBVIOUS
<1>1. now' \in 0..(Cycle - 1)
  <2>1. now' = (now + 1) % Cycle
    BY DEF Minute
  <2>2. Cycle \in Nat \ {0} /\ now \in 0..(Cycle - 1)
    BY SchedulerAssumption DEF SchedulerInv
  <2> QED
    BY <2>1, <2>2
<1>2. None \notin Int /\ job \in [Jobs -> JobRuntime] /\ \A j \in Jobs : JobOK(j, job[j])
  BY SchedulerAssumption DEF SchedulerInv, JobsOK
<1> DEFINE Later(rt) == [rt EXCEPT !.nextScheduledAt = @ - 1,
                                  !.pendingRetryAt = IF @ = None THEN None ELSE @ - 1]
<1>3. ASSUME NEW j \in Jobs, NEW rt \in JobRuntime, JobOK(j, rt)
      PROVE  /\ JobOK(j, Later(rt))
             /\ Later(rt).nextScheduledAt = rt.nextScheduledAt - 1
             /\ Later(rt).pendingRetryAt = IF rt.pendingRetryAt = None THEN None
                                           ELSE rt.pendingRetryAt - 1
  <2> DEFINE moved == [rt EXCEPT !.nextScheduledAt = @ - 1]
             retryAt == IF rt.pendingRetryAt = None THEN None ELSE rt.pendingRetryAt - 1
  <2>1. rt.nextScheduledAt - 1 \in Int /\ retryAt \in Int \cup {None} /\ (retryAt = None <=> rt.pendingRetryAt = None)
    BY <1>2, <1>3 DEF JobRuntime
  <2>2. moved \in JobRuntime
    BY <1>3, <2>1 DEF JobRuntime
  <2>3. Later(rt) = [moved EXCEPT !.pendingRetryAt = retryAt]
    BY <1>3 DEF JobRuntime
  <2> HIDE DEF retryAt
  <2>4. /\ Later(rt).nextScheduledAt = rt.nextScheduledAt - 1 /\ Later(rt).pendingRetryAt = retryAt
        /\ Later(rt).attemptsUsed = rt.attemptsUsed /\ Later(rt).children = rt.children
    BY <1>3, <2>3 DEF JobRuntime
  <2>5. Later(rt).running = rt.running
    BY <1>3, <2>3 DEF JobRuntime
  <2>6. Later(rt) \in JobRuntime
    BY <2>1, <2>2, <2>3, Zenon DEF JobRuntime
  <2> HIDE DEF Later
  <2>7. JobOK(j, Later(rt))
    BY <1>3, <2>1, <2>4, <2>5, <2>6, Zenon DEF JobOK
  <2> QED
    BY <2>4, <2>7 DEF retryAt
<1>4. job' = [j \in Jobs |-> Later(job[j])]
  BY DEF Minute
<1> HIDE DEF Later
<1>5. JobsOK'
  <2>1. \A j \in Jobs : JobOK(j, job'[j])
    BY <1>2, <1>3, <1>4
  <2> QED
    BY <1>4, <2>1 DEF JobsOK, JobOK
<1>6. timer \in Timer /\ Covers(timer, job)
  BY DEF SchedulerInv, Minute, Covers, FiresInTime
<1>7. FiresInTime(timer') /\ timer'.armedFor = timer.armedFor - 1
  <2>1. timer' = [armedFor |-> timer.armedFor - 1, firesAt |-> timer.firesAt - 1]
    BY DEF Minute
  <2>2. /\ timer.armedFor \in Int /\ timer.firesAt \in Int
        /\ timer.firesAt <= 0 \/ timer.firesAt <= timer.armedFor
    BY <1>6 DEF Covers, FiresInTime, Timer
  <2>3. timer'.armedFor = timer.armedFor - 1 /\ timer'.firesAt = timer.firesAt - 1
    BY <2>1
  <2>4. timer' \in Timer
    BY <2>1, <2>2 DEF Timer
  <2>5. timer'.firesAt <= 0 \/ timer'.firesAt <= timer'.armedFor
    BY <2>2, <2>3
  <2> QED
    BY <2>3, <2>4, <2>5 DEF FiresInTime
<1>8. \A wake \in Wakes(job') : wake + 1 \in Wakes(job) /\ wake \in Int
  <2>1. \A j \in Jobs :
          /\ job'[j].nextScheduledAt + 1 = job[j].nextScheduledAt
          /\ job'[j].pendingRetryAt # None =>
               job[j].pendingRetryAt # None /\ job'[j].pendingRetryAt + 1 = job[j].pendingRetryAt
    <3> TAKE j \in Jobs
    <3>1. job'[j] = Later(job[j]) /\ job[j] \in JobRuntime
      BY <1>2, <1>4
    <3>2. job[j].nextScheduledAt \in Int /\ job[j].pendingRetryAt \in Int \cup {None}
      BY <3>1 DEF JobRuntime
    <3> QED
      BY <1>2, <1>3, <3>1, <3>2
  <2>2. Wakes(job') \subseteq Int
    BY <1>5, WakesTyped DEF JobsOK
  <2> QED
    BY <2>1, <2>2 DEF Wakes
<1>9. Covers(timer', job')
  BY <1>6, <1>7, <1>8 DEF Covers, Timer
<1> QED
  BY <1>1, <1>5, <1>7, <1>9 DEF SchedulerInv, Minute

LEMMA ChildExitsKeeps ==
  ASSUME SchedulerInv, NEW j \in Jobs, ChildExits(j)
  PROVE  SchedulerInv'
<1>1. /\ job \in [Jobs -> JobRuntime] /\ \A i \in Jobs : JobOK(i, job[i])
      /\ None \notin Int
  BY SchedulerAssumption DEF SchedulerInv, JobsOK
<1>2. PICK outcome \in {"ok", "failed", "timeout"} :
        job' = [job EXCEPT ![j] = FinishAttempt(j, Exited(job[j]), outcome)]
  BY DEF ChildExits, ExitOutcomes
<1> DEFINE rt == Exited(job[j])
<1>3. job[j].children = 1 /\ job[j].pendingRetryAt = None /\ job[j].running
  BY <1>1 DEF ChildExits, JobOK, JobRuntime
<1>4. /\ rt \in JobRuntime /\ rt.attemptsUsed <= Attempts[j] /\ rt.children = 0
      /\ rt.pendingRetryAt = None /\ rt.nextScheduledAt = job[j].nextScheduledAt
  BY <1>1, <1>3 DEF JobOK, JobRuntime, Exited
<1>5. rt.running
  BY <1>1, <1>3 DEF JobOK, JobRuntime, Exited
<1>6. /\ JobOK(j, FinishAttempt(j, rt, outcome))
      /\ FinishAttempt(j, rt, outcome).nextScheduledAt = job[j].nextScheduledAt
  BY <1>4, <1>5, FinishAttemptOK
<1> DEFINE finished == FinishAttempt(j, rt, outcome)
<1>7. job' = [job EXCEPT ![j] = finished] /\ finished \in JobRuntime
  <2>1. job' = [job EXCEPT ![j] = finished]
    BY <1>2, Zenon
  <2> QED
    BY <1>6, <2>1 DEF JobOK
<1> HIDE DEF finished
<1>8. job'[j] = finished /\ \A i \in Jobs \ {j} : job'[i] = job[i]
  BY <1>1, <1>7
<1>9. job' \in [Jobs -> JobRuntime]
  BY <1>1, <1>7
<1>10. JobsOK'
  <2>1. \A i \in Jobs : JobOK(i, job'[i])
    BY <1>1, <1>6, <1>8, Zenon DEF finished
  <2> QED
    BY <1>9, <2>1 DEF JobsOK, JobOK
<1>11. /\ timer' = None \/ FiresInTime(timer')
       /\ mode = "on" => Covers(timer', job')
  <2>1. CASE job'[j].pendingRetryAt # None
    <3>1. RearmGlobalTimer(timer, job')
      BY <2>1 DEF ChildExits
    <3> QED
      BY <1>9, <3>1, RearmCovers DEF SchedulerInv, Covers
  <2>2. CASE job'[j].pendingRetryAt = None
    <3>1. timer' = timer
      BY <2>2 DEF ChildExits
    <3>2. \A i \in Jobs : /\ job'[i].nextScheduledAt = job[i].nextScheduledAt
                          /\ job'[i].pendingRetryAt = job[i].pendingRetryAt
      BY <1>3, <1>6, <1>8, <2>2 DEF finished
    <3>3. Wakes(job') = Wakes(job)
      BY <3>2 DEF Wakes
    <3> QED
      BY <3>1, <3>3 DEF SchedulerInv, Covers
  <2> QED
    BY <2>1, <2>2
<1>12. /\ mode' = mode \/ (mode = "draining" /\ mode' = "stopped")
       /\ now' = now /\ killed' = killed /\ begun' = {}
  BY DEF ChildExits
<1> QED
  BY <1>10, <1>11, <1>12 DEF SchedulerInv

LEMMA NextKeeps == SchedulerInv /\ [Next]_vars => SchedulerInv'
<1> SUFFICES ASSUME SchedulerInv, [Next]_vars PROVE SchedulerInv'
  OBVIOUS
<1>1. CASE Tick
  BY <1>1, TickKeeps
<1>2. CASE Minute
  BY <1>2, MinuteKeeps
<1>3. CASE Signal
  BY <1>3 DEF SchedulerInv, Signal, JobsOK
<1>4. CASE GraceExpires
  BY <1>4 DEF SchedulerInv, GraceExpires, JobsOK
<1>5. CASE \E j \in Jobs : ChildExits(j)
  BY <1>5, ChildExitsKeeps
<1>6. CASE UNCHANGED vars
  BY <1>6 DEF SchedulerInv, JobsOK, Covers, Wakes, vars
<1> QED
  BY <1>1, <1>2, <1>3, <1>4, <1>5, <1>6 DEF Next

----------------------------------------------------------------------------
(* The theorems *)

\* The daemon's bookkeeping keeps its types; no retry chain exceeds the job's budget.
THEOREM TypeCorrect == Spec => []TypeOK
<1>1. SchedulerInv => TypeOK
  BY DEF SchedulerInv, TypeOK, JobsOK, JobOK, FiresInTime
<1> QED
  BY <1>1, InitSchedulerInv, NextKeeps, PTL DEF Spec

\* A job never runs twice at a time, through any interleaving of ticks, exits, retries and skipped
\* occurrences, for any number of jobs (D3 and D4 of docs/orchestrator-recipe.md).
THEOREM NeverOverlaps == Spec => []NoOverlap
<1>1. SchedulerInv => NoOverlap
  BY DEF SchedulerInv, NoOverlap, JobsOK, JobOK
<1> QED
  BY <1>1, InitSchedulerInv, NextKeeps, PTL DEF Spec

\* The daemon never sleeps past a wake: the one armed timer covers every occurrence and retry.
THEOREM NeverSleepsIn == Spec => []TimerCovers
<1>1. SchedulerInv => TimerCovers
  <2>1. None \notin Timer
    BY SchedulerAssumption DEF Timer
  <2> QED
    BY <2>1 DEF SchedulerInv, TimerCovers, Covers, FiresInTime
<1> QED
  BY <1>1, InitSchedulerInv, NextKeeps, PTL DEF Spec
=============================================================================
