----------------------------- MODULE CaptureSlot -----------------------------
(***************************************************************************)
(* ServerState.capture (src/src/mcp/state.ts): the one profile or snapshot  *)
(* capture this process holds on the tenant, and the tool calls that move   *)
(* it: bcdev_profile_start / _finish (profile-tools.ts), bcdev_snapshot_    *)
(* start / _status / _finish / _run_tests (snapshot-tools.ts), each over    *)
(* HTTP requests that are rejected, lost, delayed or answered late          *)
(* (snapshot-client.ts).  bcdev_profile_poll and _status only read.         *)
(*                                                                          *)
(* A start call creates at most one capture, so the call names the capture, *)
(* its token, its handle and its debuggingContext.                          *)
(***************************************************************************)
EXTENDS Naturals, FiniteSets

CONSTANTS
  Profiles,   \* bcdev_profile_start calls
  Snapshots,  \* bcdev_snapshot_start calls
  NoCapture        \* null

Captures == Profiles \cup Snapshots

ASSUME CaptureAssumption == Profiles \cap Snapshots = {} /\ NoCapture \notin Captures

VARIABLES
  capture,       \* state.capture
  phase,         \* per capture: its phase field
  pc,            \* per capture: where its start call is
  finish,        \* per capture: the request of its finish call in progress
  previous,      \* per capture: the phase that finish found ("armed" without one)
  status,        \* per capture: its bcdev_snapshot_status request
  tests,         \* captures with a bcdev_snapshot_run_tests call in progress
  testRunActive, \* state.testRunActive
  otherRun,      \* another test tool runs under that lock
  attach,        \* per capture: its attach request
  delayed,       \* finish requests nobody waits for that may still reach the server
  held,          \* environment: the capture the tenant holds
  told           \* ghost: the captures whose debuggingContext the agent was told

client == <<capture, phase, pc, finish, previous, status, tests, testRunActive, otherRun>>
captureVars   == <<client, attach, delayed, held, told>>

Request == {"none", "sent", "ok", "lost", "error"}

CaptureTypeOK ==
  /\ capture \in Captures \cup {NoCapture}
  /\ phase \in [Captures -> {"attaching", "armed", "finishing", "uncertain", "testing"}]
  /\ pc \in [Captures -> {"idle", "preparing", "attaching", "returned", "failed"}]
  /\ finish \in [Captures -> Request \cup {"converting"}]
  /\ previous \in [Captures -> {"armed", "uncertain"}]
  /\ status \in [Captures -> Request]
  /\ tests \subseteq Snapshots
  /\ testRunActive \in BOOLEAN /\ otherRun \in BOOLEAN
  /\ attach \in [Captures -> Request]
  /\ delayed \subseteq Captures
  /\ held \in Captures \cup {NoCapture}
  /\ told \subseteq Captures

CaptureInit ==
  /\ capture = NoCapture /\ held = NoCapture
  /\ phase = [c \in Captures |-> "attaching"]
  /\ previous = [c \in Captures |-> "armed"]
  /\ pc = [c \in Captures |-> "idle"]
  /\ finish = [c \in Captures |-> "none"]
  /\ status = [c \in Captures |-> "none"]
  /\ attach = [c \in Captures |-> "none"]
  /\ tests = {} /\ testRunActive = FALSE /\ otherRun = FALSE
  /\ delayed = {} /\ told = {}

\* The slot is cleared whoever holds it.
ReleaseAny(c) == capture' = NoCapture

\* release(token), and the token test of bcdev_profile_finish
Release(c) == capture' = IF capture = c THEN NoCapture ELSE capture

SetPhase(c, p) == phase' = [phase EXCEPT ![c] = p]
Goto(c, p) == pc' = [pc EXCEPT ![c] = p]

----------------------------------------------------------------------------
(* bcdev_profile_start, bcdev_snapshot_start *)

\* The slot looks free; converter, snappoints and endpoint metadata are then awaited.
Prepare(c) ==
  /\ pc[c] = "idle" /\ capture = NoCapture
  /\ Goto(c, "preparing")
  /\ UNCHANGED <<capture, phase, finish, previous, status, tests, testRunActive, otherRun>>
  /\ UNCHANGED <<attach, delayed, held, told>>

\* One of them failed, or another start won the slot meanwhile.
Unprepared(c) ==
  /\ pc[c] = "preparing"
  /\ Goto(c, "failed")
  /\ UNCHANGED <<capture, phase, finish, previous, status, tests, testRunActive, otherRun>>
  /\ UNCHANGED <<attach, delayed, held, told>>

\* Still free: claimed in the same tick, and the attach request leaves.
Claim(c) ==
  /\ pc[c] = "preparing" /\ capture = NoCapture
  /\ capture' = c /\ SetPhase(c, "attaching")
  /\ Goto(c, "attaching")
  /\ attach' = [attach EXCEPT ![c] = "sent"]
  /\ UNCHANGED <<finish, previous, status, tests, testRunActive, otherRun, delayed, held, told>>

\* The answer names the handle and the debuggingContext.
Attached(c) ==
  /\ pc[c] = "attaching" /\ attach[c] = "ok"
  /\ IF c \in Profiles \/ capture = c THEN SetPhase(c, "armed") ELSE UNCHANGED phase
  /\ Goto(c, "returned")
  /\ told' = told \cup {c}
  /\ UNCHANGED <<capture, finish, previous, status, tests, testRunActive, otherRun, attach, delayed, held>>

AttachRejected(c) ==
  /\ pc[c] = "attaching" /\ attach[c] = "error"
  /\ Release(c)
  /\ Goto(c, "failed")
  /\ UNCHANGED <<phase, finish, previous, status, tests, testRunActive, otherRun, attach, delayed, held, told>>

\* The attach request has no timeout: only a broken connection ends it.
CaptureUnansweredUntimed(c) ==
  /\ pc[c] = "attaching" /\ attach[c] = "ok"
  /\ Release(c)
  /\ Goto(c, "failed")
  /\ told' = told \cup ({c} \cap Snapshots)
  /\ UNCHANGED <<phase, finish, previous, status, tests, testRunActive, otherRun, attach, delayed, held>>

\* No answer within SNAPSHOT_REQUEST_TIMEOUT_MS, although the server may have armed the capture, or
\* may do so later: only bcdev_snapshot_start names the context in its error.
CaptureUnanswered(c) ==
  /\ pc[c] = "attaching" /\ attach[c] # "error"
  /\ Release(c)
  /\ Goto(c, "failed")
  /\ told' = told \cup ({c} \cap Snapshots)
  /\ UNCHANGED <<phase, finish, previous, status, tests, testRunActive, otherRun, attach, delayed, held>>

----------------------------------------------------------------------------
(* bcdev_snapshot_status *)

Status(c) ==
  /\ c \in Snapshots /\ capture = c /\ phase[c] \in {"armed", "uncertain"}
  /\ status[c] = "none" \* bound: one status call of a capture at a time
  /\ status' = [status EXCEPT ![c] = "sent"]
  /\ UNCHANGED <<capture, phase, pc, finish, previous, tests, testRunActive, otherRun>>
  /\ UNCHANGED <<attach, delayed, held, told>>

\* Only the answer that the context is unknown changes the state; every other outcome is reported.
StatusAnswered(c) ==
  /\ status[c] \in {"ok", "lost"}
  /\ IF status[c] = "lost" THEN Release(c) ELSE UNCHANGED capture
  /\ status' = [status EXCEPT ![c] = "none"]
  /\ UNCHANGED <<phase, pc, finish, previous, tests, testRunActive, otherRun, attach, delayed, held, told>>

----------------------------------------------------------------------------
(* bcdev_profile_finish, bcdev_snapshot_finish *)

BeginFinish(c) ==
  /\ capture = c /\ phase[c] \in {"armed", "uncertain"}
  /\ previous' = [previous EXCEPT ![c] = phase[c]]
  /\ SetPhase(c, "finishing")
  /\ finish' = [finish EXCEPT ![c] = "sent"]
  /\ UNCHANGED <<capture, pc, status, tests, testRunActive, otherRun, attach, delayed, held, told>>

\* The finish ends and, if the slot is still this capture's, leaves it in phase p.
LeavePhase(c, p) ==
  /\ finish' = [finish EXCEPT ![c] = "none"]
  /\ previous' = [previous EXCEPT ![c] = "armed"]
  /\ IF capture = c THEN SetPhase(c, p) ELSE UNCHANGED phase
  /\ UNCHANGED capture

LeaveSlot(c) ==
  /\ finish' = [finish EXCEPT ![c] = "none"]
  /\ previous' = [previous EXCEPT ![c] = "armed"]
  /\ Release(c)
  /\ UNCHANGED phase

\* An archive, an empty body or one over the byte limit: a snapshot frees the slot before it decodes.
FinishAnswered(c) ==
  /\ finish[c] = "ok"
  /\ IF c \in Snapshots
     THEN LeaveSlot(c)
     ELSE finish' = [finish EXCEPT ![c] = "converting"] /\ UNCHANGED <<capture, phase, previous>>
  /\ UNCHANGED <<pc, status, tests, testRunActive, otherRun, attach, delayed, held, told>>

\* The profile is extracted, converted and explained; finally clears the slot, after a failure too.
Converted(c) ==
  /\ finish[c] = "converting"
  /\ LeaveSlot(c)
  /\ UNCHANGED <<pc, status, tests, testRunActive, otherRun, attach, delayed, held, told>>

\* lostContext, or any error of a profile finish
FinishGivesUp(c) ==
  /\ finish[c] = "lost" \/ (c \in Profiles /\ finish[c] = "error")
  /\ LeaveSlot(c)
  /\ UNCHANGED <<pc, status, tests, testRunActive, otherRun, attach, delayed, held, told>>

\* Another HTTP error: the capture may still run.
FinishRejected(c) ==
  /\ c \in Snapshots /\ finish[c] = "error"
  /\ LeavePhase(c, "armed")
  /\ UNCHANGED <<pc, status, tests, testRunActive, otherRun, attach, delayed, held, told>>

\* A BcDevError (no credentials): the request never left.
FinishUnsent(c) ==
  /\ finish[c] = "sent"
  /\ IF c \in Snapshots THEN LeavePhase(c, previous[c]) ELSE LeaveSlot(c)
  /\ UNCHANGED <<pc, status, tests, testRunActive, otherRun, attach, delayed, held, told>>

\* No answer within SNAPSHOT_FINISH_TIMEOUT_MS.
FinishUnanswered(c) ==
  /\ finish[c] \notin {"none", "converting"}
  /\ IF c \in Snapshots THEN LeavePhase(c, "uncertain") ELSE LeaveSlot(c)
  /\ delayed' = IF finish[c] = "sent" THEN delayed \cup {c} ELSE delayed
  /\ UNCHANGED <<pc, status, tests, testRunActive, otherRun, attach, held, told>>

\* Either finish tool given the debuggingContext of a capture the slot does not hold.
FinishOrphan(c) ==
  /\ c \in told /\ capture # c
  /\ delayed' = delayed \cup {c}
  /\ UNCHANGED <<client, attach, held, told>>

----------------------------------------------------------------------------
(* bcdev_snapshot_run_tests *)

\* claimTestRun and the phase change share a tick.
StartTests(c) ==
  /\ c \in Snapshots /\ capture = c /\ phase[c] = "armed"
  /\ ~testRunActive /\ testRunActive' = TRUE
  /\ tests' = tests \cup {c}
  /\ SetPhase(c, "testing")
  /\ UNCHANGED <<capture, pc, finish, previous, status, otherRun, attach, delayed, held, told>>

\* finally, whatever became of the call (timeoutMs bounds it)
TestsOver(c) ==
  /\ c \in tests
  /\ tests' = tests \ {c}
  /\ testRunActive' = FALSE
  /\ IF capture = c /\ phase[c] = "testing" THEN SetPhase(c, "armed") ELSE UNCHANGED phase
  /\ UNCHANGED <<capture, pc, finish, previous, status, otherRun, attach, delayed, held, told>>

\* bcdev_run_tests and the other users of claimTestRun
OtherRunStarts ==
  /\ ~testRunActive /\ testRunActive' = TRUE
  /\ otherRun' = TRUE
  /\ UNCHANGED <<capture, phase, pc, finish, previous, status, tests, attach, delayed, held, told>>

OtherRunEnds ==
  /\ otherRun /\ otherRun' = FALSE
  /\ testRunActive' = FALSE
  /\ UNCHANGED <<capture, phase, pc, finish, previous, status, tests, attach, delayed, held, told>>

----------------------------------------------------------------------------
(* The snapshot endpoint of Business Central *)

\* A tenant holds one capture; an attach may be refused for other reasons too.
ServerAttaches(c) ==
  /\ attach[c] = "sent"
  /\ \/ held = NoCapture /\ held' = c /\ attach' = [attach EXCEPT ![c] = "ok"]
     \/ attach' = [attach EXCEPT ![c] = "error"] /\ UNCHANGED held
  /\ UNCHANGED <<client, delayed, told>>

ServerReports(c) ==
  /\ status[c] = "sent"
  /\ \E answer \in {"ok", "lost"} :
       /\ held = c => answer = "ok" \* an HTTP error other than lostContext counts as "ok"
       /\ status' = [status EXCEPT ![c] = answer]
  /\ UNCHANGED <<capture, phase, pc, finish, previous, tests, testRunActive, otherRun>>
  /\ UNCHANGED <<attach, delayed, held, told>>

ServerFinishes(c) ==
  /\ finish[c] = "sent"
  /\ \/ held = c /\ held' = NoCapture /\ finish' = [finish EXCEPT ![c] = "ok"]
     \/ held # c /\ finish' = [finish EXCEPT ![c] = "lost"] /\ UNCHANGED held
     \/ finish' = [finish EXCEPT ![c] = "error"] /\ UNCHANGED held
  /\ UNCHANGED <<capture, phase, pc, previous, status, tests, testRunActive, otherRun>>
  /\ UNCHANGED <<attach, delayed, told>>

\* A finish nobody waits for arrives, or is lost.
DelayedFinish(c) ==
  /\ c \in delayed /\ delayed' = delayed \ {c}
  /\ held' \in {held, IF held = c THEN NoCapture ELSE held}
  /\ UNCHANGED <<client, attach, told>>

\* The recorded session ended or the server restarted: the context is gone.
ServerForgets ==
  /\ held # NoCapture /\ held' = NoCapture
  /\ UNCHANGED <<client, attach, delayed, told>>

\* What a call in progress does when it is answered or its AbortSignal times out.
Proceed(c) ==
  \/ Attached(c) \/ AttachRejected(c) \/ CaptureUnanswered(c)
  \/ FinishAnswered(c) \/ Converted(c) \/ FinishGivesUp(c)
  \/ FinishRejected(c) \/ FinishUnanswered(c)
  \/ TestsOver(c)

CaptureNext ==
  \/ \E c \in Captures :
       \/ Prepare(c) \/ Unprepared(c) \/ Claim(c) \/ Proceed(c)
       \/ Status(c) \/ StatusAnswered(c)
       \/ BeginFinish(c) \/ FinishUnsent(c) \/ FinishOrphan(c) \/ StartTests(c)
       \/ ServerAttaches(c) \/ ServerReports(c) \/ ServerFinishes(c) \/ DelayedFinish(c)
  \/ OtherRunStarts \/ OtherRunEnds \/ ServerForgets

CaptureSpec == CaptureInit /\ [][CaptureNext]_captureVars /\ \A c \in Captures : WF_captureVars(Proceed(c))

----------------------------------------------------------------------------
(* Properties *)

\* The phases that refuse other calls belong to a call in progress, and to one only: no failure
\* leaves a capture attaching, finishing or testing for good, two finishes never overlap, and no
\* finish runs beside a test run that records into the same capture.
PhaseHasOwner ==
  \A c \in Captures : capture = c =>
    /\ phase[c] = "attaching" <=> pc[c] = "attaching"
    /\ phase[c] = "finishing" <=> finish[c] # "none"
    /\ phase[c] = "testing"   <=> c \in tests

\* While the tenant holds a capture whose start returned, the slot still names it, so status and
\* finish reach it: late answers, releases and races of other captures never drop it.  A finish
\* that fails gives a profile up (its context is known), but never a snapshot.
HeldCaptureKeepsSlot ==
  held # NoCapture /\ pc[held] = "returned" /\ (held \in Profiles => phase[held] = "armed")
    => capture = held

\* A snapshot capture that holds the tenant without being in the slot can be finished as an orphan:
\* the agent was told its debuggingContext, also when the attach was never answered.
OrphanIsRecoverable ==
  held \in Snapshots /\ capture # held => held \in told

\* The test-run lock is held exactly while one test run is in progress, snapshot runs included,
\* even when the capture was released or replaced meanwhile.
TestLockExact ==
  /\ testRunActive <=> otherRun \/ tests # {}
  /\ otherRun => tests = {}
  /\ Cardinality(tests) <= 1

\* No capture of the tenant is out of reach: it is in the slot, or the agent can finish it by its
\* debuggingContext.
NothingStranded == HeldCaptureKeepsSlot /\ OrphanIsRecoverable

\* What the slot says of itself, of the test-run lock and of what the tenant holds is true whatever
\* calls overlap.
PhaseHonest == CaptureTypeOK /\ PhaseHasOwner /\ TestLockExact /\ NothingStranded

\* A call in progress always ends, whatever the server does: the slot never stays in a phase that
\* refuses every other tool.  (A capture is created once, so it suffices that it is always settled
\* again.)
PhaseSettles ==
  \A c \in Captures : []<>(capture # c \/ phase[c] \in {"armed", "uncertain"})
=============================================================================
