------------------------- MODULE RecordWriteTriage -------------------------
(***************************************************************************)
(* class RecordWriteCollector (src/src/core/record-write-triage.ts): breaks *)
(* on record writes are classified and continued by a serialized chain of   *)
(* event handlers, a detach before the first break re-arms the debugger,    *)
(* and finish() releases the workload and drains what was observed.         *)
(*                                                                          *)
(* Three asynchronous activities share the collector: the chain (h), the    *)
(* re-attach of each generation (task) and finish() (f).  A step is the     *)
(* code of one of them between two awaits.  Invocations reach the server in *)
(* order, and its callbacks and completions come back in order on `wire'.   *)
(***************************************************************************)
EXTENDS Naturals, Sequences, SequencesExt

CONSTANTS
  MaxObserved,  \* maxObservedWrites
  MaxRearms,    \* rearm.maxRearms
  MaxAttempts,  \* rearm.maxAttachAttempts
  MaxWrites     \* bound: record writes of the debugged workload

ASSUME TriageAssumption ==
  /\ MaxObserved \in Nat \ {0} /\ MaxAttempts \in Nat \ {0}
  /\ MaxRearms \in Nat /\ MaxWrites \in Nat

VARIABLES
  rearm,           \* options.rearm is given (not for an exact session)
  phaseValue,           \* phaseValue
  sessionObserved, \* a session bound in this arm
  breakInArm,      \* it broke
  strays,          \* strayBindCount, and armGeneration
  rearms,          \* rearmCount
  observed,        \* observedWrites
  exact,           \* matchedWrites + unrelatedWrites
  unresolved,      \* unresolvedWrites
  truncated,       \* truncatedValue
  stopReason,      \* stopReasonValue
  accepting, finishing, paused, evidenceLost,
  shutdownRelease, \* "null", "pending", or the boolean it resolved to
  queue,           \* events accepted and not yet handled: the tail of chain
  h,               \* where the handler at the head of chain is
  f,               \* where finish() is
  task, tries,     \* per generation: where reattach() is, and its attempt
  hub,             \* client.hub # null
  reply,           \* the invocations of the chain ("H"), finish ("F") and connect ("R")
  link, inv, wire, \* environment: the connection, requests to and messages from the server
  lookup,          \* GetNstSessionInfo of the bound session is pending
  registration,    \* environment: the debugger registration
  workload,        \* environment: the bound session
  writes,          \* ghost: record writes under the debugger
  window,          \* ghost: how many of them before finish() was called
  missed,          \* ghost: a write before finish() with no debugger registered
  fault            \* ghost: the server, the connection or the authorization failed

verdict  == <<accepting, phaseValue, stopReason, evidenceLost>>
counts   == <<observed, exact, unresolved, truncated>>
session  == <<sessionObserved, breakInArm, strays, rearms>>
shutdown == <<finishing, shutdownRelease, f, window>>
reattach == <<task, tries>>
calls    == <<reply, inv, wire, lookup, link>>
server   == <<registration, workload>>
seen     == <<writes, missed, fault>>
triageVars     == <<rearm, verdict, counts, session, shutdown, paused, queue, h, reattach, hub, calls, server, seen>>

Generations == 1..MaxRearms

TriageTypeOK ==
  /\ phaseValue \in {"arming", "collecting", "rearming", "stopped", "failed"}
  /\ {rearm, sessionObserved, breakInArm, truncated, accepting, finishing, paused, evidenceLost, hub,
      lookup, missed, fault} \subseteq BOOLEAN
  /\ strays \in 0..MaxRearms + 1 /\ rearms \in 0..strays
  /\ observed \in 0..MaxObserved /\ exact \in 0..observed /\ unresolved \in 0..observed
  /\ stopReason \in {"null", "finished", "maxObservedWrites", "sessionDetached", "strayBindsExhausted", "fatal"}
  /\ shutdownRelease \in {"null", "pending", "true", "false"}
  /\ queue \in Seq({"bound", "break", "detached", "fatal"})
  /\ h \in {"idle", "classifying", "releasing", "awaitShutdown", "strayStopping", "stopping", "failReleasing"}
  /\ f \in {"no", "awaitRearm", "releasing", "draining", "stopping", "done"}
  /\ task \in [Generations -> {"none", "waiting", "authorizing", "attaching", "over"}]
  /\ tries \in [Generations -> 0..MaxAttempts]
  /\ link \in {"up", "down"} /\ (hub => link = "up")
  /\ reply \in [{"H", "F", "R"} -> {"none", "pending", "registered", "ok", "busy", "error"}]
  /\ registration \in {"none", "armed", "bound"} /\ workload \in {"none", "running", "paused"}
  /\ writes \in 0..MaxWrites /\ window \in 0..writes

\* bcdev_record_writes_start has attached.
TriageInit ==
  /\ rearm \in BOOLEAN
  /\ phaseValue = "arming" /\ stopReason = "null" /\ accepting = TRUE /\ evidenceLost = FALSE
  /\ observed = 0 /\ exact = 0 /\ unresolved = 0 /\ truncated = FALSE
  /\ sessionObserved = FALSE /\ breakInArm = FALSE /\ strays = 0 /\ rearms = 0
  /\ finishing = FALSE /\ shutdownRelease = "null" /\ f = "no" /\ window = 0
  /\ paused = FALSE /\ queue = <<>> /\ h = "idle"
  /\ task = [g \in Generations |-> "none"] /\ tries = [g \in Generations |-> 0]
  /\ hub = TRUE /\ link = "up" /\ reply = [w \in {"H", "F", "R"} |-> "none"]
  /\ inv = <<>> /\ wire = <<>> /\ lookup = FALSE
  /\ registration = "armed" /\ workload = "none"
  /\ writes = 0 /\ missed = FALSE /\ fault = FALSE

Terminal == phaseValue = "failed" \/ stopReason # "null"

\* What makes a generation's re-attach pointless: checked after its wait and its failure.
SupersededIgnoringFinish(g) == Terminal \/ g # strays

Superseded(g) == finishing \/ Terminal \/ g # strays

Invoke(who, step) ==
  /\ inv' = Append(inv, [who |-> who, step |-> step])
  /\ reply' = [reply EXCEPT ![who] = "pending"]
  /\ UNCHANGED <<wire, lookup, link>>

\* The connection is gone: pending invocations reject and the server lets the workload go.
LinkDown ==
  /\ link' = "down" /\ inv' = <<>> /\ wire' = <<>> /\ lookup' = FALSE
  /\ registration' = "none" /\ workload' = "none"
  /\ reply' = [w \in DOMAIN reply |-> IF reply[w] \in {"pending", "registered"} THEN "error" ELSE reply[w]]

\* onEvent
Accept(event) == queue' = IF accepting THEN Append(queue, event) ELSE queue

EndAs(p, reason) == accepting' = FALSE /\ phaseValue' = p /\ stopReason' = reason

----------------------------------------------------------------------------
(* fail(), as the chain calls it, and the awaits it ends with *)

\* client.stop(), then the chain goes on at `then'
StopClient(then) ==
  /\ h' = IF hub THEN then ELSE "idle"
  /\ hub' = FALSE
  /\ UNCHANGED calls

\* A workload still paused is released first (the invocation throws without a hub).
Fail ==
  IF phaseValue = "failed"
  THEN h' = "idle" /\ UNCHANGED <<verdict, paused, hub, calls>>
  ELSE /\ EndAs("failed", "fatal") /\ evidenceLost' = TRUE
       /\ IF paused /\ hub
          THEN Invoke("H", "release") /\ h' = "failReleasing" /\ UNCHANGED <<paused, hub>>
          ELSE StopClient("stopping") /\ paused' = FALSE

ChainRest == UNCHANGED <<rearm, shutdown, reattach, server, seen>>

Answered(pc) == h = pc /\ reply["H"] \in {"ok", "error"}

\* fail()'s release settled either way.
FailReleased ==
  /\ Answered("failReleasing")
  /\ paused' = FALSE
  /\ StopClient("stopping")
  /\ ChainRest /\ UNCHANGED <<verdict, counts, session, queue>>

\* client.stop() settled after a failure or the last stray.
Stopped ==
  /\ h = "stopping" /\ h' = "idle"
  /\ LinkDown
  /\ UNCHANGED <<rearm, verdict, counts, session, shutdown, paused, queue, reattach, hub, seen>>

----------------------------------------------------------------------------
(* handleEvent() *)

Take(event) == h = "idle" /\ queue # <<>> /\ Head(queue) = event /\ queue' = Tail(queue)
Handled(event) == Take(event) /\ ~Terminal /\ phaseValue # "rearming"

\* Nothing is handled after the end, nor a late callback of a stray while rearming.
DropEvent ==
  /\ \E event \in {"bound", "break", "detached", "fatal"} : Take(event)
  /\ Terminal \/ phaseValue = "rearming"
  /\ ChainRest /\ UNCHANGED <<verdict, counts, session, paused, h, hub, calls>>

HandleBound ==
  /\ Handled("bound")
  /\ sessionObserved' = TRUE /\ phaseValue' = "collecting"
  /\ ChainRest
  /\ UNCHANGED <<accepting, stopReason, evidenceLost, counts, breakInArm, strays, rearms, paused, h, hub, calls>>

HandleFatal ==
  /\ Handled("fatal")
  /\ Fail
  /\ ChainRest /\ UNCHANGED <<counts, session>>

\* The bound session ended: on purpose if finishing, too early otherwise.
HandleDetached ==
  /\ Handled("detached")
  /\ ~rearm \/ finishing \/ breakInArm
  /\ sessionObserved' = TRUE /\ paused' = FALSE
  /\ EndAs("stopped", IF finishing THEN "finished" ELSE "sessionDetached")
  /\ evidenceLost' = (evidenceLost \/ ~finishing)
  /\ ChainRest /\ UNCHANGED <<breakInArm, strays, rearms, counts, h, hub, calls>>

Stray(lost) ==
  /\ Handled("detached")
  /\ rearm /\ ~finishing /\ ~breakInArm
  /\ strays' = strays + 1 /\ sessionObserved' = FALSE /\ evidenceLost' = lost
  /\ IF strays + 1 > MaxRearms
     THEN EndAs("stopped", "strayBindsExhausted") /\ StopClient("stopping")
     ELSE /\ phaseValue' = "rearming" /\ UNCHANGED <<accepting, stopReason, calls>>
          /\ h' = "strayStopping" /\ hub' = FALSE
  /\ ChainRest /\ UNCHANGED <<breakInArm, rearms, counts, paused>>

\* A stray is re-armed as if nothing had been lost.
StrayBindUnmarked == Stray(evidenceLost)

\* strayBind(): a detach before any break re-arms, up to maxRearms times.
StrayBind == Stray(TRUE)

\* client.stop() of the stray's registration settled.
StrayStopped ==
  /\ h = "strayStopping" /\ h' = "idle"
  /\ LinkDown
  /\ IF finishing \/ Terminal
     THEN UNCHANGED reattach
     ELSE task' = [task EXCEPT ![strays] = "waiting"] /\ tries' = [tries EXCEPT ![strays] = 1]
  /\ UNCHANGED <<rearm, verdict, counts, session, shutdown, paused, queue, hub, seen>>

HandleBreak ==
  /\ Handled("break")
  /\ phaseValue' = "collecting" /\ sessionObserved' = TRUE /\ breakInArm' = TRUE /\ paused' = TRUE
  /\ observed' = observed + 1
  /\ h' = "classifying"
  /\ ChainRest
  /\ UNCHANGED <<accepting, stopReason, evidenceLost, exact, unresolved, truncated, strays, rearms, hub, calls>>

\* classify() ended: exact only if source, statement and receiver could be read from the paused
\* workload; anything else, an error break included, is unresolved evidence.
Classify(resolved) ==
  /\ h = "classifying"
  /\ resolved => hub /\ workload = "paused"
  /\ exact' = IF resolved THEN exact + 1 ELSE exact
  /\ unresolved' = IF resolved THEN unresolved ELSE unresolved + 1
  /\ UNCHANGED <<observed, session, queue>>

\* The break ends with an invocation; without a hub it throws, and the chain's catch calls fail().
EndBreak(step, lost) ==
  IF hub
  THEN Invoke("H", step) /\ h' = "releasing" /\ evidenceLost' = lost /\ UNCHANGED <<hub, paused>>
  ELSE h' = "idle" /\ paused' = FALSE /\ evidenceLost' = TRUE /\ UNCHANGED <<hub, calls>>

EndCaptureAs(reason) == IF hub THEN EndAs("stopped", reason) ELSE EndAs("failed", "fatal")

\* At the cap the workload is released and the capture truncated.
ReachCap(resolved) ==
  /\ Classify(resolved) /\ observed >= MaxObserved
  /\ truncated' = TRUE
  /\ EndCaptureAs("maxObservedWrites") /\ EndBreak("release", TRUE)
  /\ ChainRest

\* The break is released although finish()'s release has let the workload go.
FinishAtBreakAlways(resolved) ==
  /\ Classify(resolved) /\ observed < MaxObserved /\ finishing
  /\ EndCaptureAs("finished") /\ EndBreak("release", evidenceLost \/ ~resolved)
  /\ ChainRest /\ UNCHANGED truncated

\* finish() was called meanwhile: its release is awaited, or this break is released here.
FinishAtBreak(resolved) ==
  /\ Classify(resolved) /\ observed < MaxObserved /\ finishing
  /\ IF shutdownRelease \in {"pending", "true"}
     THEN /\ EndAs("stopped", "finished") /\ evidenceLost' = (evidenceLost \/ ~resolved)
          /\ h' = "awaitShutdown" /\ UNCHANGED <<paused, hub, calls>>
     ELSE EndCaptureAs("finished") /\ EndBreak("release", evidenceLost \/ ~resolved)
  /\ ChainRest /\ UNCHANGED truncated

Continue(resolved) ==
  /\ Classify(resolved) /\ observed < MaxObserved /\ ~finishing
  /\ EndBreak("continue", evidenceLost \/ ~resolved)
  /\ IF hub THEN UNCHANGED <<accepting, phaseValue, stopReason>> ELSE EndAs("failed", "fatal")
  /\ ChainRest /\ UNCHANGED truncated

\* The invocation that resumes or releases the workload resolved.
Resumed ==
  /\ Answered("releasing") /\ reply["H"] = "ok"
  /\ paused' = FALSE /\ h' = "idle"
  /\ ChainRest /\ UNCHANGED <<verdict, counts, session, queue, hub, calls>>

\* It rejected: the chain's catch calls fail().
ResumeRejected ==
  /\ Answered("releasing") /\ reply["H"] = "error"
  /\ Fail
  /\ ChainRest /\ UNCHANGED <<counts, session, queue>>

\* The handler that waited for finish()'s release releases this break itself if that one failed.
ShutdownAwaited ==
  /\ h = "awaitShutdown"
  /\ \/ /\ shutdownRelease = "true"
        /\ paused' = FALSE /\ h' = "idle"
        /\ UNCHANGED <<verdict, hub, calls>>
     \/ /\ shutdownRelease = "false"
        /\ EndCaptureAs("finished") /\ EndBreak("release", evidenceLost)
  /\ ChainRest /\ UNCHANGED <<counts, session, queue>>

----------------------------------------------------------------------------
(* reattach(), one task per generation *)

RearmRest == UNCHANGED <<rearm, counts, sessionObserved, strays, shutdown, queue, h, seen>>

\* rearm.attach() has not settled.
Attaching(g) == task[g] \in {"authorizing", "attaching"}

\* The wait is over: before its timer fires, queued callbacks of the stray have been handled, and an
\* attach that the stray superseded, whose connection it stopped, has been rejected.  connect() first
\* asks for the authorization header.
Reattach(g) ==
  /\ task[g] = "waiting" /\ queue = <<>> /\ \A e \in Generations : ~Attaching(e)
  /\ IF Superseded(g)
     THEN task' = [task EXCEPT ![g] = "over"] /\ UNCHANGED <<breakInArm, phaseValue>>
     ELSE /\ task' = [task EXCEPT ![g] = "authorizing"]
          /\ breakInArm' = FALSE /\ phaseValue' = "arming"
  /\ RearmRest /\ UNCHANGED <<accepting, stopReason, evidenceLost, rearms, tries, paused, hub, calls, server>>

\* The header is there: whatever happened meanwhile, connect() takes a new hub, starts it and
\* invokes Attach.
Connect(g) ==
  /\ task[g] = "authorizing"
  /\ task' = [task EXCEPT ![g] = "attaching"]
  /\ hub' = TRUE /\ link' = "up" /\ inv' = <<>> /\ wire' = <<>> /\ lookup' = FALSE
  /\ reply' = [reply EXCEPT !["R"] = "pending"]
  /\ RearmRest /\ UNCHANGED <<verdict, breakInArm, rearms, tries, paused, server>>

\* The re-arm failed for good; no break is handled, so fail() has nothing to release.
GiveUpRearm == EndAs("failed", "fatal") /\ evidenceLost' = TRUE /\ paused' = FALSE

\* There is no header, and nothing to stop.
AuthorizationFails(g) ==
  /\ task[g] = "authorizing"
  /\ task' = [task EXCEPT ![g] = "over"]
  /\ IF Superseded(g) THEN UNCHANGED <<verdict, paused>> ELSE GiveUpRearm
  /\ fault' = TRUE
  /\ UNCHANGED <<rearm, counts, session, shutdown, queue, h, tries, hub, calls, server, writes, missed>>

\* Attach resolved: counted, unless a later stray superseded this generation.
Reattached(g) ==
  /\ task[g] = "attaching" /\ reply["R"] = "ok"
  /\ task' = [task EXCEPT ![g] = "over"]
  /\ rearms' = IF g = strays THEN rearms + 1 ELSE rearms
  /\ RearmRest /\ UNCHANGED <<verdict, breakInArm, tries, paused, hub, calls, server>>

\* connect() rejected and stopped its hub, unless the stop of a later stray had done so.
ReattachRejected(g) ==
  /\ task[g] = "attaching" /\ reply["R"] \in {"busy", "error"}
  /\ IF g = strays THEN hub' = FALSE /\ LinkDown ELSE UNCHANGED <<hub, calls, server>>
  /\ \/ /\ Superseded(g)
        /\ task' = [task EXCEPT ![g] = "over"]
        /\ UNCHANGED <<verdict, paused, tries>>
     \/ /\ ~Superseded(g) /\ reply["R"] = "busy" /\ tries[g] < MaxAttempts
        /\ phaseValue' = "rearming"
        /\ task' = [task EXCEPT ![g] = "waiting"] /\ tries' = [tries EXCEPT ![g] = tries[g] + 1]
        /\ UNCHANGED <<accepting, stopReason, evidenceLost, paused>>
     \/ /\ ~Superseded(g) /\ (reply["R"] = "busy" => tries[g] >= MaxAttempts)
        /\ task' = [task EXCEPT ![g] = "over"]
        /\ GiveUpRearm
        /\ UNCHANGED tries
  /\ RearmRest /\ UNCHANGED <<breakInArm, rearms>>

----------------------------------------------------------------------------
(* finish() *)

FinishRest == UNCHANGED <<rearm, counts, session, queue, h, tries, paused, seen>>

\* A pending re-arm wait is cancelled.
Finish ==
  /\ f = "no" /\ f' = "awaitRearm"
  /\ finishing' = TRUE /\ window' = writes
  /\ task' = [g \in Generations |-> IF task[g] = "waiting" THEN "over" ELSE task[g]]
  /\ FinishRest /\ UNCHANGED <<verdict, shutdownRelease, hub, calls, server>>

\* The latest re-attach settled: the workload is released while events are still accepted.
ReleaseForShutdown ==
  /\ f = "awaitRearm"
  /\ \A g \in Generations : Attaching(g) => \E later \in Generations : later > g /\ task[later] # "none"
  /\ IF accepting /\ ~Terminal /\ hub
     THEN shutdownRelease' = "pending" /\ f' = "releasing" /\ Invoke("F", "release")
     ELSE shutdownRelease' = "false" /\ f' = "draining" /\ UNCHANGED calls
  /\ FinishRest /\ UNCHANGED <<verdict, finishing, window, task, hub, server>>

ShutdownReleased ==
  /\ f = "releasing" /\ reply["F"] \in {"ok", "error"}
  /\ shutdownRelease' = IF reply["F"] = "ok" THEN "true" ELSE "false"
  /\ f' = "draining"
  /\ FinishRest /\ UNCHANGED <<verdict, finishing, window, task, hub, calls, server>>

\* drainEvents(), then the report's state; a handler never leaves `paused' set (PausedWhileHandled).
Drained ==
  /\ f = "draining" /\ h = "idle" /\ queue = <<>>
  /\ accepting' = FALSE
  /\ stopReason' = IF stopReason = "null" THEN "finished" ELSE stopReason
  /\ phaseValue' = IF phaseValue = "failed" THEN phaseValue ELSE "stopped"
  /\ evidenceLost' = (evidenceLost \/ (~sessionObserved /\ phaseValue # "failed"))
  /\ f' = IF hub THEN "stopping" ELSE "done"
  /\ hub' = FALSE
  /\ FinishRest /\ UNCHANGED <<finishing, shutdownRelease, window, task, calls, server>>

Finished ==
  /\ f = "stopping" /\ f' = "done"
  /\ LinkDown
  /\ FinishRest /\ UNCHANGED <<verdict, finishing, shutdownRelease, window, task, hub>>

----------------------------------------------------------------------------
(* The hub connection: dispatched messages, the asynchronous identity lookup, a dropped connection *)

Collector == <<rearm, verdict, counts, session, shutdown, paused, h, reattach>>

Callback ==
  /\ link = "up" /\ wire # <<>> /\ Head(wire).kind \in {"break", "detached", "fatal"}
  /\ wire' = Tail(wire)
  /\ IF hub THEN Accept(Head(wire).kind) ELSE UNCHANGED queue
  /\ UNCHANGED <<hub, reply, link, inv, lookup, server, seen, Collector>>

Completion ==
  /\ link = "up" /\ wire # <<>> /\ Head(wire).kind = "completion"
  /\ wire' = Tail(wire)
  /\ reply' = [reply EXCEPT ![Head(wire).who] = Head(wire).answer]
  /\ UNCHANGED <<hub, link, inv, lookup, queue, server, seen, Collector>>

SessionBound ==
  /\ hub /\ lookup /\ lookup' = FALSE
  /\ Accept("bound")
  /\ UNCHANGED <<hub, reply, link, inv, wire, server, seen, Collector>>

HubClosed ==
  /\ hub /\ hub' = FALSE
  /\ LinkDown /\ Accept("fatal") /\ fault' = TRUE
  /\ UNCHANGED <<writes, missed, Collector>>

----------------------------------------------------------------------------
(* Business Central *)

ServerRest == UNCHANGED <<hub, link, queue, Collector>>

Completes(who, answer) == [kind |-> "completion", who |-> who, answer |-> answer]
AttachUnanswered == link = "up" /\ \A m \in ToSet(wire) : m.kind = "completion" => m.who # "R"

\* The registration may exist, and even bind and end, before Attach is answered.
ServerRegisters ==
  /\ AttachUnanswered /\ reply["R"] = "pending"
  /\ registration' = "armed"
  /\ reply' = [reply EXCEPT !["R"] = "registered"]
  /\ ServerRest /\ UNCHANGED <<inv, wire, lookup, workload, seen>>

\* "busy": the previous registration is not released yet
ServerAnswersAttach ==
  /\ AttachUnanswered
  /\ \E answer \in {"ok", "busy", "error"} :
       /\ reply["R"] \in (CASE answer = "ok" -> {"registered"} [] answer = "busy" -> {"pending"}
                            [] answer = "error" -> {"pending", "registered"})
       /\ wire' = Append(wire, Completes("R", answer))
       /\ fault' = (fault \/ answer = "error")
  /\ ServerRest /\ UNCHANGED <<reply, inv, lookup, server, writes, missed>>

Bind ==
  /\ link = "up" /\ registration = "armed"
  /\ registration' = "bound" /\ workload' = "running" /\ lookup' = TRUE
  /\ ServerRest /\ UNCHANGED <<reply, inv, wire, seen>>

Write ==
  /\ workload = "running" /\ writes < MaxWrites
  /\ workload' = "paused" /\ writes' = writes + 1
  /\ wire' = Append(wire, [kind |-> "break"])
  /\ ServerRest /\ UNCHANGED <<reply, inv, lookup, registration, missed, fault>>

\* The bound session ends: a stray at once, a workload when it is done.
SessionEnds ==
  /\ workload = "running"
  /\ workload' = "none" /\ registration' = "none"
  /\ wire' = Append(wire, [kind |-> "detached"])
  /\ ServerRest /\ UNCHANGED <<reply, inv, lookup, seen>>

\* The scenario writes while no debugger is registered, after the collector saw its session end.
WriteUnseen ==
  /\ f = "no" /\ registration = "none" /\ (strays > 0 \/ Terminal)
  /\ missed' = TRUE
  /\ ServerRest /\ UNCHANGED <<reply, inv, wire, lookup, server, writes, fault>>

DebuggerException ==
  /\ link = "up" /\ registration # "none" /\ ~fault /\ fault' = TRUE
  /\ wire' = Append(wire, [kind |-> "fatal"])
  /\ ServerRest /\ UNCHANGED <<reply, inv, lookup, server, writes, missed>>

\* SetBreakpointResponse, in the order of the invocations
ServerSteps ==
  /\ inv # <<>> /\ inv' = Tail(inv)
  /\ LET who == Head(inv).who IN
     \/ /\ Head(inv).step = "continue" /\ workload = "paused"
        /\ workload' = "running"
        /\ wire' = Append(wire, Completes(who, "ok"))
        /\ UNCHANGED <<registration, fault>>
     \/ /\ Head(inv).step = "release" /\ workload # "none"
        /\ workload' = "none" /\ registration' = "none"
        /\ wire' = wire \o <<[kind |-> "detached"], Completes(who, "ok")>>
        /\ UNCHANGED fault
     \/ /\ wire' = Append(wire, Completes(who, "error"))
        /\ fault' = (fault \/ workload = "paused")
        /\ UNCHANGED server
  /\ ServerRest /\ UNCHANGED <<reply, lookup, writes, missed>>

Chain ==
  \/ DropEvent \/ HandleBound \/ HandleFatal \/ HandleDetached \/ HandleBreak
  \/ StrayBind \/ StrayStopped \/ Stopped \/ FailReleased
  \/ (\E resolved \in BOOLEAN : ReachCap(resolved) \/ FinishAtBreak(resolved) \/ Continue(resolved))
  \/ Resumed \/ ResumeRejected \/ ShutdownAwaited

Rearm ==
  \E g \in Generations :
    Reattach(g) \/ Connect(g) \/ AuthorizationFails(g) \/ Reattached(g) \/ ReattachRejected(g)

Finishing == ReleaseForShutdown \/ ShutdownReleased \/ Drained \/ Finished

Network == Callback \/ Completion \/ SessionBound

Server == ServerSteps \/ ServerAnswersAttach

TriageNext ==
  \/ Chain \/ Rearm \/ Finishing \/ Network \/ Server
  \/ Finish \/ HubClosed
  \/ ServerRegisters \/ Bind \/ Write \/ SessionEnds \/ WriteUnseen \/ DebuggerException

\* The event loop runs what is ready and the server answers what it is asked; nothing else is owed:
\* neither a call of finish(), nor a callback, nor the end of a session.  (An authorization header is
\* awaited without a timeout: its Azure CLI process is taken to exit.)
TriageFairness ==
  WF_triageVars(Chain) /\ WF_triageVars(Rearm) /\ WF_triageVars(Finishing) /\ WF_triageVars(Network) /\ WF_triageVars(Server)

TriageSpec == TriageInit /\ [][TriageNext]_triageVars /\ TriageFairness

----------------------------------------------------------------------------
(* Properties *)

Complete == ~truncated /\ phaseValue # "failed" /\ unresolved = 0 /\ ~evidenceLost

\* A report that says complete has seen everything: every write the workload made before finish()
\* was called broke, was classified exactly, and none was made while the debugger was detached.
CompleteIsExact ==
  f = "done" /\ Complete => exact = observed /\ observed >= window /\ ~missed

\* The workload is not held by anybody but the handler of its break, so the drained finish() finds
\* nothing left to release.
PausedWhileHandled == paused => h # "idle"

\* A capture fails only because the server, the connection or the authorization did, or every re-attach was refused:
\* a break that crosses finish()'s release does not make it fail.  (At the cap it may: the release
\* is asked twice.)
FailsForAReason == phaseValue = "failed" => fault \/ truncated \/ \E g \in Generations : tries[g] = MaxAttempts

\* Neither the workload nor the capture is given up by mistake.
HandledSafely == TriageTypeOK /\ PausedWhileHandled /\ FailsForAReason

\* A pending re-arm never attaches after finish (the comment in finish()), and a re-attach in
\* flight is not retried.  The one connection that may still be gained is that of a re-attach that
\* was in flight, before or after its authorization; finish() waits for it, and stops it before it
\* returns its report.
NoAttachAfterFinish ==
  [][finishing =>
       /\ \A g \in Generations : task'[g] = "authorizing" => task[g] = "authorizing"
       /\ hub' /\ ~hub => f = "awaitRearm" /\ \E g \in Generations : task[g] = "authorizing"
       /\ f' = "done" => ~hub']_triageVars

\* "Collection and automatic continuation do not depend on polling": a workload stopped at a write
\* goes on, whether it is continued, released, or let go with the connection.
WorkloadGoesOn == []<>(workload # "paused")

\* finish() returns its report.
FinishReturns == []<>(finishing => f = "done")

\* Neither the workload nor the report is ever stuck in the capture.
CaptureProceeds == WorkloadGoesOn /\ FinishReturns
=============================================================================
