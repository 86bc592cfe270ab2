---------------------------- MODULE CaptureCycle ----------------------------
(***************************************************************************)
(* The capture-and-ship cycle (core/ship/capture-cycle.ts) and its upload  *)
(* (core/ship/ingest-client.ts), for any number of cycles at once, with    *)
(* the two servers they talk to: the snapshot debugger of Business Central *)
(* and the ingest endpoint of al-perf.                                     *)
(*                                                                         *)
(* A request under way is an element of net.  The server takes it at any   *)
(* time, or never; its answer reaches the cycle only if the cycle still    *)
(* awaits it.  An unanswered request is given up by withRequestTimeout     *)
(* (attach, status, finish) or by a failing fetch (the upload) and stays   *)
(* in net: an attach or an upload may still be taken late.  To refuse it   *)
(* late is the same as never to take it, and a finish taken late lets the  *)
(* capture go as ServerForgets does.                                       *)
(***************************************************************************)
EXTENDS Integers, FiniteSets

CONSTANTS
  Cycles,        \* the activityIds: one GUID per cycle, the snapshot debugger's context as well
  DryRun,        \* the cycles run with --dry-run
  KeepArtifacts, \* the cycles run with --keep-artifacts
  Wired,         \* whether the entry script hands the cycle its authorizationFactory
  MaxPolls,      \* bound: status polls within the capture window
  MaxTries       \* uploads tried: RETRY_DELAYS_MS.length + 1

ASSUME CycleAssumption ==
  /\ DryRun \subseteq Cycles /\ KeepArtifacts \subseteq Cycles
  /\ Wired \in BOOLEAN
  /\ MaxPolls \in Nat \ {0} /\ MaxTries \in Nat \ {0}

VARIABLES
  cycle,    \* of each activityId: where its cycle is, how it ended, its counters, its files
  net,      \* requests sent and not taken by their server
  capture,  \* the snapshot debugger's captures, by context
  stored,   \* the profiles al-perf has stored
  received  \* ghost: the cycles that wrote a recording to disk

cycleVars == <<cycle, net, capture, stored, received>>

Stages   == {"idle", "preflight", "arming", "window", "draining", "finishing", "converting",
             "shipping", "backoff", "over", "gone"}
\* "unshipped" is the error of the budget and ship stages, "threw" an exception out of the cycle.
Outcomes == {"none", "shipped", "duplicate", "no-capture", "dry-run", "error", "unshipped", "threw"}
Files    == {"zip", "ir", "manifest"}
Captures == {"none", "armed", "recording", "recorded", "failed", "handed", "empty"}
Request  == [of : Cycles, op : {"attach", "finish", "post"}, n : 0..MaxTries]

CycleTypeOK ==
  /\ cycle \in [Cycles -> [stage : Stages, outcome : Outcomes, polls : 0..MaxPolls,
                           attempts : 0..MaxTries, disk : SUBSET Files]]
  /\ net \subseteq Request
  /\ capture \in [Cycles -> Captures]
  /\ stored \subseteq [key : Cycles, of : Cycles]
  /\ received \subseteq Cycles

CycleInit ==
  /\ cycle = [c \in Cycles |-> [stage |-> "idle", outcome |-> "none", polls |-> 0,
                                attempts |-> 0, disk |-> {}]]
  /\ net = {}
  /\ capture = [c \in Cycles |-> "none"]
  /\ stored = {}
  /\ received = {}

Stage(c)       == cycle[c].stage
Sent(c, op, n) == [of |-> c, op |-> op, n |-> n]
GoTo(c, s)     == cycle' = [cycle EXCEPT ![c].stage = s]
Over(c, o)     == [cycle[c] EXCEPT !.stage = "over", !.outcome = o, !.polls = 0, !.attempts = 0]
Ends(c, o)     == cycle' = [cycle EXCEPT ![c] = Over(c, o)]

-----------------------------------------------------------------------------
(* Preflight and arming *)

\* runCaptureShipCycle first asks deps.authorizationFactory for a provider, outside every try.
Begin(c) ==
  /\ Stage(c) = "idle"
  /\ IF Wired THEN GoTo(c, "preflight") ELSE Ends(c, "threw")
  /\ UNCHANGED <<net, capture, stored, received>>

Preflight(c) ==
  /\ Stage(c) = "preflight"
  /\ GoTo(c, "arming")
  /\ net' = net \cup {Sent(c, "attach", 0)}
  /\ UNCHANGED <<capture, stored, received>>

\* The endpoint is unreachable, refuses, or does not answer in time.
PreflightFails(c) ==
  /\ Stage(c) = "preflight"
  /\ Ends(c, "error")
  /\ UNCHANGED <<net, capture, stored, received>>

\* One snapshot session per tenant: an attach beside another context's is refused.
TenantHeld(c) == \E d \in Cycles \ {c} : capture[d] \in {"armed", "recording", "recorded", "failed"}

\* The server arms the capture; a cycle that still awaits the answer logs its "armed" line.
ServerAttaches(c) ==
  /\ Sent(c, "attach", 0) \in net /\ ~TenantHeld(c)
  /\ net' = net \ {Sent(c, "attach", 0)}
  /\ capture' = [capture EXCEPT ![c] = "armed"]
  /\ IF Stage(c) = "arming" THEN GoTo(c, "window") ELSE UNCHANGED cycle
  /\ UNCHANGED <<stored, received>>

ServerRefusesAttach(c) ==
  /\ Sent(c, "attach", 0) \in net /\ Stage(c) = "arming"
  /\ net' = net \ {Sent(c, "attach", 0)}
  /\ Ends(c, "error")
  /\ UNCHANGED <<capture, stored, received>>

AttachUnanswered(c) ==
  /\ Stage(c) = "arming"
  /\ Ends(c, "error")
  /\ UNCHANGED <<net, capture, stored, received>>

-----------------------------------------------------------------------------
(* The capture window *)

Polled(c) ==
  /\ Stage(c) = "window" /\ cycle[c].polls < MaxPolls
  /\ UNCHANGED <<capture, stored, received>>

\* The status is an uninteresting one, or the poll failed or timed out.
PollContinues(c) ==
  /\ Polled(c)
  /\ cycle' = [cycle EXCEPT ![c].polls = @ + 1]
  /\ UNCHANGED net

AskFinish(c, s) ==
  /\ GoTo(c, s)
  /\ net' = net \cup {Sent(c, "finish", 0)}

\* A Failed capture is drained, whatever comes of it.
PollFailed(c)   == Polled(c) /\ capture[c] = "failed" /\ AskFinish(c, "draining")
PollFinished(c) == Polled(c) /\ capture[c] = "recorded" /\ AskFinish(c, "finishing")

\* The deadline: the window is at least one poll long.
WindowEnds(c) ==
  /\ Stage(c) = "window" /\ cycle[c].polls > 0
  /\ AskFinish(c, "finishing")
  /\ UNCHANGED <<capture, stored, received>>

-----------------------------------------------------------------------------
(* Finish *)

\* Nothing was bound: a finish without a body.
ServerFinishesEmpty(c) ==
  /\ Sent(c, "finish", 0) \in net /\ capture[c] = "armed" /\ Stage(c) \in {"finishing", "draining"}
  /\ net' = net \ {Sent(c, "finish", 0)}
  /\ capture' = [capture EXCEPT ![c] = "empty"]
  /\ Ends(c, IF Stage(c) = "finishing" THEN "no-capture" ELSE "error")
  /\ UNCHANGED <<stored, received>>

\* The recording is handed out, once: it is written to disk before anything else is done with it.
ServerHandsOut(c) ==
  /\ Sent(c, "finish", 0) \in net /\ capture[c] \in {"recording", "recorded"}
  /\ Stage(c) = "finishing"
  /\ net' = net \ {Sent(c, "finish", 0)}
  /\ capture' = [capture EXCEPT ![c] = "handed"]
  /\ cycle' = [cycle EXCEPT ![c].stage = "converting", ![c].disk = {"zip"}]
  /\ received' = received \cup {c}
  /\ UNCHANGED stored

\* The archive holds no .mdc member, or it cannot be written (mkdirSync and writeFileSync throw).
HandedInVain(c) ==
  /\ Sent(c, "finish", 0) \in net /\ capture[c] \in {"recording", "recorded"}
  /\ Stage(c) = "finishing"
  /\ net' = net \ {Sent(c, "finish", 0)}
  /\ capture' = [capture EXCEPT ![c] = "handed"]
  /\ \E o \in {"error", "threw"} : Ends(c, o)
  /\ UNCHANGED <<stored, received>>

\* A context that failed has no recording.
ServerRefusesFinish(c) ==
  /\ Sent(c, "finish", 0) \in net /\ capture[c] = "failed" /\ Stage(c) \in {"finishing", "draining"}
  /\ net' = net \ {Sent(c, "finish", 0)}
  /\ capture' = [capture EXCEPT ![c] = "none"]
  /\ Ends(c, "error")
  /\ UNCHANGED <<stored, received>>

\* A finish is awaited without a timeout.
FinishUntimed(c) == FALSE /\ UNCHANGED cycleVars

FinishUnanswered(c) ==
  /\ Stage(c) \in {"finishing", "draining"}
  /\ Ends(c, "error")
  /\ UNCHANGED <<net, capture, stored, received>>

-----------------------------------------------------------------------------
(* Convert and ship *)

\* The converter fails, writes something that is no JSON, or nothing (readFileSync throws).
ConvertFails(c) ==
  /\ Stage(c) = "converting"
  /\ \E made \in SUBSET {"ir"}, o \in {"error", "threw"} :
       /\ o = "threw" => made = {}
       /\ cycle' = [cycle EXCEPT ![c] = [Over(c, o) EXCEPT !.disk = @ \cup made]]
  /\ UNCHANGED <<net, capture, stored, received>>

\* The artifacts are kept with their manifest, or writeManifestArtifact throws, out of the cycle.
Retained(c, o) ==
  {[Over(c, o) EXCEPT !.disk = Files], [Over(c, "threw") EXCEPT !.disk = {"zip", "ir"}]}

\* A recording that is not shipped stays for a manual upload.
LeftUnshipped(c) == \E end \in Retained(c, "unshipped") : cycle' = [cycle EXCEPT ![c] = end]

\* Too large to ship.
OverBudget(c) ==
  /\ Stage(c) = "converting"
  /\ LeftUnshipped(c)
  /\ UNCHANGED <<net, capture, stored, received>>

ConvertDry(c) ==
  /\ Stage(c) = "converting" /\ c \in DryRun
  /\ cycle' = [cycle EXCEPT ![c] = [Over(c, "dry-run") EXCEPT !.disk = @ \cup {"ir"}]]
  /\ UNCHANGED <<net, capture, stored, received>>

Ship(c) ==
  /\ Stage(c) = "converting" /\ c \notin DryRun
  /\ cycle' = [cycle EXCEPT ![c].stage = "shipping", ![c].attempts = 1, ![c].disk = @ \cup {"ir"}]
  /\ net' = net \cup {Sent(c, "post", 1)}
  /\ UNCHANGED <<capture, stored, received>>

\* A fresh key per attempt.
KeyPerAttempt(c, n) == <<c, n>>

\* X-Idempotency-Key: every attempt of a cycle carries its activityId.
IdempotencyKey(c, n) == c

Known(key)       == \E p \in stored : p.key = key
Awaits(c, n)     == Stage(c) = "shipping" /\ cycle[c].attempts = n

\* What is left on disk after a 202: nothing, or everything if it is to be kept.
Shipped(c, o) ==
  IF c \in KeepArtifacts THEN Retained(c, o) ELSE {[Over(c, o) EXCEPT !.disk = @ \ {"zip", "ir"}]}

\* al-perf stores the profile, or knows its key already (a body that cannot be read says "stored").
ServerIngests(c, n) ==
  /\ Sent(c, "post", n) \in net
  /\ net' = net \ {Sent(c, "post", n)}
  /\ stored' = IF Known(IdempotencyKey(c, n)) THEN stored
               ELSE stored \cup {[key |-> IdempotencyKey(c, n), of |-> c]}
  /\ IF Awaits(c, n)
     THEN \E o \in IF Known(IdempotencyKey(c, n)) THEN {"shipped", "duplicate"} ELSE {"shipped"} :
            \E end \in Shipped(c, o) : cycle' = [cycle EXCEPT ![c] = end]
     ELSE UNCHANGED cycle
  /\ UNCHANGED <<capture, received>>

\* A 4xx or analyze_failed is final.
ServerRejects(c, n) ==
  /\ Sent(c, "post", n) \in net /\ Awaits(c, n)
  /\ net' = net \ {Sent(c, "post", n)}
  /\ LeftUnshipped(c)
  /\ UNCHANGED <<capture, stored, received>>

\* The connection fails or a 5xx comes back: the profile may be stored all the same.
PostFails(c) ==
  /\ Stage(c) = "shipping"
  /\ IF cycle[c].attempts < MaxTries THEN GoTo(c, "backoff") ELSE LeftUnshipped(c)
  /\ UNCHANGED <<net, capture, stored, received>>

Retry(c) ==
  /\ Stage(c) = "backoff"
  /\ cycle' = [cycle EXCEPT ![c].stage = "shipping", ![c].attempts = @ + 1]
  /\ net' = net \cup {Sent(c, "post", cycle[c].attempts + 1)}
  /\ UNCHANGED <<capture, stored, received>>

-----------------------------------------------------------------------------
(* What the snapshot debugger does by itself *)

Becomes(c, from, to) ==
  /\ capture[c] \in from
  /\ capture' = [capture EXCEPT ![c] = to]
  /\ UNCHANGED <<cycle, net, stored, received>>

\* Nobody asks after the capture of a cycle that is over: all that matters is that it holds the tenant
\* against the next attach until the server drops it.
Asked(c) == Stage(c) \in {"window", "draining", "finishing"}

SessionBinds(c)  == Asked(c) /\ Becomes(c, {"armed"}, "recording")
SessionEnds(c)   == Asked(c) /\ Becomes(c, {"recording"}, "recorded")
CaptureFails(c)  == Asked(c) /\ Becomes(c, {"armed", "recording"}, "failed")
ServerForgets(c) ==
  /\ Stage(c) \in {"over", "gone"}
  /\ \E d \in Cycles \ {c} : Sent(d, "attach", 0) \in net
  /\ Becomes(c, {"armed", "recording", "recorded", "failed"}, "none")

\* What the cycle does without waiting for a server: its own steps and its timeouts.
OwnStep(c) ==
  \/ Preflight(c) \/ PreflightFails(c) \/ AttachUnanswered(c)
  \/ PollContinues(c) \/ PollFailed(c) \/ PollFinished(c) \/ WindowEnds(c)
  \/ FinishUnanswered(c)
  \/ ConvertFails(c) \/ OverBudget(c) \/ ConvertDry(c) \/ Ship(c)
  \/ PostFails(c) \/ Retry(c)

ServerStep(c) ==
  \/ ServerAttaches(c) \/ ServerRefusesAttach(c)
  \/ ServerFinishesEmpty(c) \/ ServerHandsOut(c) \/ HandedInVain(c) \/ ServerRefusesFinish(c)
  \/ \E n \in 1..MaxTries : ServerIngests(c, n) \/ ServerRejects(c, n)
  \/ SessionBinds(c) \/ SessionEnds(c) \/ CaptureFails(c) \/ ServerForgets(c)

CycleStep(c) == OwnStep(c) \/ ServerStep(c)

-----------------------------------------------------------------------------
(* Properties *)

IsStored(c) == \E p \in stored : p.of = c

\* A recording written to disk is never lost: it stays there until al-perf has it ("retained on
\* every later failure (no data loss)"), and a failed upload leaves all that a manual one needs.
NoRecordingLost ==
  \A c \in received :
    /\ "zip" \in cycle[c].disk \/ IsStored(c)
    /\ cycle[c].outcome = "unshipped" => cycle[c].disk = Files

\* "The idempotency key (activityId) makes retries safe": whatever is retried, lost or taken late,
\* al-perf stores a capture at most once.
StoredOnce == \A p, q \in stored : p.of = q.of => p = q

ShipsExactly == NoRecordingLost /\ StoredOnce
=============================================================================
