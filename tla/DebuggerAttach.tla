-------------------------- MODULE DebuggerAttach --------------------------
(***************************************************************************)
(* One connection of class DebuggerClient (src/src/core/hubs/               *)
(* debugger-hub.ts): connect(), the hub callbacks, the asynchronous         *)
(* configuration and identity lookup after a bind, the teardown of a        *)
(* rejected user-filtered attach, and stop().                               *)
(*                                                                          *)
(* The client is single threaded; a step is the code between two awaits.    *)
(* `wire' is the ordered stream of callbacks and invocation completions     *)
(* from the server.  Receiving a completion settles the promise; the        *)
(* awaiting code continues later, because SignalR dispatches every message  *)
(* of a frame before the continuations run.                                 *)
(***************************************************************************)
EXTENDS Naturals, Sequences, SequencesExt

CONSTANTS
  Targets,       \* what DebugAttachOptions selects: subset of {"next", "user", "exact"}
  MaxCallbacks   \* bound: callbacks the server sends

ASSUME AttachAssumption ==
  /\ Targets \subseteq {"next", "user", "exact"} /\ Targets # {}
  /\ MaxCallbacks \in Nat

VARIABLES
  target,               \* the selector of this connect
  attach,               \* where connect() is
  debugHub,                  \* this.hub === hub
  exactAttachFatal,     \* local of connect(): a fatal captured during an exact Attach
  userAttachFatal,      \* this.userAttachFatal # null
  userAttachFailed,     \* this.userAttachFailed
  sessionBoundReported, \* this.sessionBoundReported
  bindingHandled,       \* this.bindingHandled
  binding,              \* where finishSessionBinding is
  teardown,             \* where failUserAttach is
  stop,                 \* where stop() is
  reply,                \* per hub invocation: its promise
  events,               \* what onEvent was called with
  link,                 \* environment: the SignalR connection
  wire,                 \* environment: its messages not yet dispatched
  sent,                 \* ghost: callbacks sent
  rejected              \* ghost: a fatal was seen before any sessionBound of a user-filtered attach

flags  == <<exactAttachFatal, userAttachFatal, userAttachFailed, sessionBoundReported>>
procs  == <<attach, binding, teardown, stop>>
connection == <<link, wire, sent, reply>>
attachVars   == <<target, procs, debugHub, flags, bindingHandled, events, connection, rejected>>

Invocations == {"Attach", "DebugAdapterConfigurationDone", "GetNstSessionInfo"}
Callbacks == {"break", "bound", "detached", "fatal"}
AttachMessage == [kind : Callbacks] \cup [kind : {"completion"}, call : Invocations, ok : BOOLEAN]

\* boundWarning: the sessionBound event without identity ("could not be read")
Bounds == {"sessionBound", "boundWarning"}
Events == Bounds \cup {"break", "detached", "fatal"}

AttachTypeOK ==
  /\ target \in Targets
  /\ attach \in {"idle", "auth", "starting", "attaching", "rejecting", "stopping", "attached", "failed"}
  /\ binding \in {"none", "configuring", "lookup", "closing", "done"}
  /\ teardown \in {"none", "running", "done"}
  /\ stop \in {"no", "stopping", "done"}
  /\ {debugHub, bindingHandled, rejected} \subseteq BOOLEAN
  /\ {exactAttachFatal, userAttachFatal, userAttachFailed, sessionBoundReported} \subseteq BOOLEAN
  /\ reply \in [Invocations -> {"none", "pending", "ok", "error"}]
  /\ events \in Seq(Events)
  /\ link \in {"none", "opening", "open", "closed"}
  /\ wire \in Seq(AttachMessage)
  /\ sent \in 0..MaxCallbacks
  /\ debugHub => link \in {"opening", "open"} \* this.hub is never a closed connection

AttachInit ==
  /\ target = CHOOSE t \in Targets : TRUE
  /\ attach = "idle" /\ binding = "none" /\ teardown = "none" /\ stop = "no"
  /\ debugHub = FALSE /\ bindingHandled = FALSE
  /\ exactAttachFatal = FALSE /\ userAttachFatal = FALSE
  /\ userAttachFailed = FALSE /\ sessionBoundReported = FALSE
  /\ reply = [c \in Invocations |-> "none"]
  /\ events = <<>>
  /\ link = "none" /\ wire = <<>> /\ sent = 0
  /\ rejected = FALSE

Emit(e) == events' = Append(events, e)

Invoke(call) == reply' = [reply EXCEPT ![call] = "pending"]
Settled(call) == reply[call] \in {"ok", "error"}

\* The connection is gone: pending invocations reject, undispatched messages are lost.
CloseLink ==
  /\ link' = "closed" /\ wire' = <<>>
  /\ reply' = [c \in Invocations |-> IF reply[c] = "pending" THEN "error" ELSE reply[c]]
  /\ UNCHANGED sent

\* failUserAttach up to its first await
FailUserAttach ==
  /\ userAttachFailed' = TRUE /\ teardown' = "running" /\ debugHub' = FALSE

----------------------------------------------------------------------------
(* connect() *)

\* connect() is called, and asks for the authorization header.
Connect ==
  /\ attach = "idle"
  /\ attach' = "auth" /\ target' \in Targets
  /\ UNCHANGED <<binding, teardown, stop, debugHub, flags, bindingHandled, events, connection, rejected>>

\* The authorization header arrived: the hub is created and every flag reset.
AttachAuthorized ==
  /\ attach = "auth"
  /\ attach' = "starting" /\ link' = "opening" /\ debugHub' = TRUE
  /\ exactAttachFatal' = FALSE /\ userAttachFatal' = FALSE
  /\ userAttachFailed' = FALSE /\ sessionBoundReported' = FALSE /\ bindingHandled' = FALSE
  /\ UNCHANGED <<target, binding, teardown, stop, events, wire, sent, reply, rejected>>

Unauthorized ==
  /\ attach = "auth"
  /\ attach' = "failed"
  /\ UNCHANGED <<target, binding, teardown, stop, debugHub, flags, bindingHandled, events, connection, rejected>>

Started ==
  /\ attach = "starting" /\ link = "opening"
  /\ attach' = "attaching" /\ link' = "open" /\ Invoke("Attach")
  /\ UNCHANGED <<target, binding, teardown, stop, debugHub, flags, bindingHandled, events, wire, sent, rejected>>

StartFails ==
  /\ attach = "starting"
  /\ attach' = "stopping" /\ debugHub' = FALSE
  /\ UNCHANGED <<target, binding, teardown, stop, flags, bindingHandled, events, connection, rejected>>

\* A captured fatal turns even an accepted Attach into a failure.
AttachAccepted ==
  /\ attach = "attaching" /\ reply["Attach"] = "ok"
  /\ ~exactAttachFatal /\ ~userAttachFatal
  /\ attach' = "attached"
  /\ UNCHANGED <<target, binding, teardown, stop, debugHub, flags, bindingHandled, events, connection, rejected>>

\* The catch of connect(): StopDebugging is awaited first after a captured user rejection.
AttachRejected ==
  /\ attach = "attaching" /\ Settled("Attach")
  /\ reply["Attach"] = "error" \/ exactAttachFatal \/ userAttachFatal
  /\ IF userAttachFatal
     THEN attach' = "rejecting" /\ UNCHANGED debugHub
     ELSE attach' = "stopping" /\ debugHub' = FALSE
  /\ UNCHANGED <<target, binding, teardown, stop, flags, bindingHandled, events, connection, rejected>>

RejectionStopped ==
  /\ attach = "rejecting"
  /\ attach' = "stopping" /\ debugHub' = FALSE
  /\ UNCHANGED <<target, binding, teardown, stop, flags, bindingHandled, events, connection, rejected>>

\* hub.stop() settled: connect() rethrows.
AttachFailed ==
  /\ attach = "stopping"
  /\ attach' = "failed" /\ CloseLink
  /\ UNCHANGED <<target, binding, teardown, stop, debugHub, flags, bindingHandled, events, rejected>>

----------------------------------------------------------------------------
(* Hub callbacks *)

Received(kind) ==
  /\ link = "open" /\ wire # <<>> /\ Head(wire).kind = kind
  /\ wire' = Tail(wire)

\* The break is delivered whatever became of the hub.
BreakUnguarded ==
  /\ Received("break")
  /\ Emit("break")
  /\ UNCHANGED <<target, procs, debugHub, flags, bindingHandled, link, sent, reply, rejected>>

Break ==
  /\ Received("break")
  /\ IF debugHub /\ ~userAttachFailed THEN Emit("break") ELSE UNCHANGED events
  /\ UNCHANGED <<target, procs, debugHub, flags, bindingHandled, link, sent, reply, rejected>>

OnDetachedFromConnection ==
  /\ Received("detached")
  /\ IF debugHub THEN Emit("detached") ELSE UNCHANGED events
  /\ UNCHANGED <<target, procs, debugHub, flags, bindingHandled, link, sent, reply, rejected>>

BoundReported == \E i \in 1..Len(events) : events[i] \in Bounds

OnFatalDebuggerException ==
  /\ Received("fatal")
  /\ rejected' = (rejected \/ (debugHub /\ target = "user" /\ ~BoundReported))
  /\ \/ /\ ~debugHub
        /\ UNCHANGED <<debugHub, flags, teardown, events>>
     \/ /\ debugHub /\ attach = "attaching" /\ target = "exact"
        /\ exactAttachFatal' = TRUE
        /\ UNCHANGED <<debugHub, userAttachFatal, userAttachFailed, sessionBoundReported, teardown, events>>
     \/ /\ debugHub /\ attach = "attaching" /\ target = "user"
        /\ userAttachFatal' = TRUE
        /\ UNCHANGED <<debugHub, exactAttachFatal, userAttachFailed, sessionBoundReported, teardown, events>>
     \/ /\ debugHub /\ attach # "attaching" /\ target = "user" /\ ~sessionBoundReported /\ ~userAttachFailed
        /\ FailUserAttach
        /\ UNCHANGED <<exactAttachFatal, userAttachFatal, sessionBoundReported, events>>
     \/ /\ debugHub /\ (attach = "attaching" => target = "next")
        /\ target = "user" => sessionBoundReported
        /\ IF userAttachFailed THEN UNCHANGED events ELSE Emit("fatal")
        /\ UNCHANGED <<debugHub, flags, teardown>>
  /\ UNCHANGED <<target, attach, binding, stop, bindingHandled, link, sent, reply>>

\* A second bind callback starts a second finishSessionBinding.
BoundEveryTime ==
  /\ Received("bound")
  /\ IF debugHub
     THEN binding' = "configuring" /\ Invoke("DebugAdapterConfigurationDone") /\ bindingHandled' = TRUE
     ELSE UNCHANGED <<binding, reply, bindingHandled>>
  /\ UNCHANGED <<target, attach, teardown, stop, debugHub, flags, events, link, sent, rejected>>

\* HubConnected or OnAttachedToConnection, the first one wins.  pendingDebugOptions is set exactly
\* while the hub is and the bind is unhandled, so finishSessionBinding always configures first.
HandleSessionBound ==
  /\ Received("bound")
  /\ IF debugHub /\ ~bindingHandled
     THEN binding' = "configuring" /\ Invoke("DebugAdapterConfigurationDone") /\ bindingHandled' = TRUE
     ELSE UNCHANGED <<binding, reply, bindingHandled>>
  /\ UNCHANGED <<target, attach, teardown, stop, debugHub, flags, events, link, sent, rejected>>

\* The promise of an invocation settles.
Completion ==
  /\ Received("completion")
  /\ reply' = [reply EXCEPT ![Head(wire).call] = IF Head(wire).ok THEN "ok" ELSE "error"]
  /\ UNCHANGED <<target, procs, debugHub, flags, bindingHandled, events, link, sent, rejected>>

\* hub.onclose after the connection dropped
Closed ==
  /\ link = "open"
  /\ CloseLink
  /\ debugHub' = FALSE
  /\ IF debugHub THEN Emit("fatal") ELSE UNCHANGED events
  /\ UNCHANGED <<target, procs, flags, bindingHandled, rejected>>

----------------------------------------------------------------------------
(* finishSessionBinding, failBoundConfiguration, failUserAttach, stop *)

ConfigurationFailed ==
  /\ binding = "configuring" /\ reply["DebugAdapterConfigurationDone"] = "error"
  /\ IF debugHub
     THEN binding' = "closing" /\ debugHub' = FALSE /\ Emit("fatal")
     ELSE binding' = "done" /\ UNCHANGED <<debugHub, events>>
  /\ UNCHANGED <<target, attach, teardown, stop, flags, bindingHandled, connection, rejected>>

\* failBoundConfiguration's StopDebugging and hub.stop() settled.
ConfigurationClosed ==
  /\ binding = "closing"
  /\ binding' = "done" /\ CloseLink
  /\ UNCHANGED <<target, attach, teardown, stop, debugHub, flags, bindingHandled, events, rejected>>

Configured ==
  /\ binding = "configuring" /\ reply["DebugAdapterConfigurationDone"] = "ok"
  /\ \/ /\ ~debugHub \/ userAttachFailed
        /\ binding' = "done" /\ UNCHANGED <<debugHub, userAttachFailed, teardown, reply>>
     \/ /\ debugHub /\ ~userAttachFailed /\ userAttachFatal
        /\ binding' = "done" /\ FailUserAttach /\ UNCHANGED reply
     \/ /\ debugHub /\ ~userAttachFailed /\ ~userAttachFatal
        /\ binding' = "lookup" /\ Invoke("GetNstSessionInfo")
        /\ UNCHANGED <<debugHub, userAttachFailed, teardown>>
  /\ UNCHANGED <<target, attach, stop, exactAttachFatal, userAttachFatal, sessionBoundReported>>
  /\ UNCHANGED <<bindingHandled, events, link, wire, sent, rejected>>

\* A user rejection captured meanwhile wins over the identity.
IdentityRead ==
  /\ binding = "lookup" /\ reply["GetNstSessionInfo"] = "ok"
  /\ binding' = "done"
  /\ \/ /\ userAttachFatal /\ ~userAttachFailed
        /\ FailUserAttach /\ UNCHANGED <<sessionBoundReported, events>>
     \/ /\ userAttachFailed \/ (~userAttachFatal /\ ~debugHub)
        /\ UNCHANGED <<debugHub, userAttachFailed, teardown, sessionBoundReported, events>>
     \/ /\ ~userAttachFatal /\ ~userAttachFailed /\ debugHub
        /\ sessionBoundReported' = TRUE /\ Emit("sessionBound")
        /\ UNCHANGED <<debugHub, userAttachFailed, teardown>>
  /\ UNCHANGED <<target, attach, stop, exactAttachFatal, userAttachFatal, bindingHandled, connection, rejected>>

\* The lookup failed or its answer is malformed: a warning, with none of the checks above.
IdentityUnknown ==
  /\ binding = "lookup" /\ Settled("GetNstSessionInfo")
  /\ binding' = "done"
  /\ IF debugHub THEN Emit("boundWarning") ELSE UNCHANGED events
  /\ UNCHANGED <<target, attach, teardown, stop, debugHub, flags, bindingHandled, connection, rejected>>

\* The teardown is awaited but the rejection never reported.
UserAttachTornDownSilently ==
  /\ teardown = "running"
  /\ teardown' = "done" /\ CloseLink
  /\ UNCHANGED <<target, attach, binding, stop, debugHub, flags, bindingHandled, events, rejected>>

\* failUserAttach's StopDebugging and hub.stop() settled: the actionable fatal event.
UserAttachTornDown ==
  /\ teardown = "running"
  /\ teardown' = "done" /\ CloseLink /\ Emit("fatal")
  /\ UNCHANGED <<target, attach, binding, stop, debugHub, flags, bindingHandled, rejected>>

\* stop(), once the hub exists (before that it has nothing to stop: module DebugSlot).
Stop ==
  /\ stop = "no" /\ attach \notin {"idle", "auth"}
  /\ stop' = IF debugHub THEN "stopping" ELSE "done"
  /\ debugHub' = FALSE
  /\ userAttachFatal' = FALSE /\ userAttachFailed' = FALSE /\ sessionBoundReported' = FALSE
  /\ UNCHANGED <<target, attach, binding, teardown, exactAttachFatal, bindingHandled, events, connection, rejected>>

ClientStopped ==
  /\ stop = "stopping"
  /\ stop' = "done" /\ CloseLink
  /\ UNCHANGED <<target, attach, binding, teardown, debugHub, flags, bindingHandled, events, rejected>>

----------------------------------------------------------------------------
(* The server *)

\* Callbacks follow the Attach invocation; a break or a detach follows a bind.
ServerCalls(kind) ==
  /\ link = "open" /\ sent < MaxCallbacks
  /\ kind \in {"break", "detached"} => bindingHandled \/ [kind |-> "bound"] \in ToSet(wire)
  /\ sent' = sent + 1
  /\ wire' = Append(wire, [kind |-> kind])
  /\ UNCHANGED <<target, procs, debugHub, flags, bindingHandled, events, link, reply, rejected>>

AttachAnswers(call) ==
  /\ link = "open" /\ reply[call] = "pending"
  /\ \A m \in ToSet(wire) : m.kind = "completion" => m.call # call
  /\ \E ok \in BOOLEAN : wire' = Append(wire, [kind |-> "completion", call |-> call, ok |-> ok])
  /\ UNCHANGED <<target, procs, debugHub, flags, bindingHandled, events, link, sent, reply, rejected>>

Client ==
  \/ AttachAuthorized \/ Unauthorized \/ Started \/ StartFails
  \/ AttachAccepted \/ AttachRejected \/ RejectionStopped \/ AttachFailed
  \/ ConfigurationFailed \/ ConfigurationClosed \/ Configured
  \/ IdentityRead \/ IdentityUnknown \/ UserAttachTornDown \/ ClientStopped

DispatchCallback ==
  \/ Break \/ OnDetachedFromConnection \/ OnFatalDebuggerException \/ HandleSessionBound \/ Completion

AttachNext ==
  \/ Client \/ DispatchCallback
  \/ Connect \/ Closed \/ Stop
  \/ \E kind \in Callbacks : ServerCalls(kind)
  \/ \E call \in Invocations : AttachAnswers(call)

\* The event loop runs what is ready and the server answers every invocation; neither a callback,
\* nor a dropped connection, nor a stop is ever owed.
Fairness ==
  /\ WF_attachVars(Client) /\ WF_attachVars(DispatchCallback)
  /\ \A call \in Invocations : WF_attachVars(AttachAnswers(call))

AttachSpec == AttachInit /\ [][AttachNext]_attachVars /\ Fairness

----------------------------------------------------------------------------
(* Properties *)

Pending ==
  \/ attach \notin {"idle", "attached", "failed"}
  \/ binding = "closing" \/ teardown = "running" \/ stop = "stopping"

\* Whoever gives the hub up also closes the connection: once nothing is in progress, a client
\* without a hub (rejected attach, failed configuration, refused user, stop) left none open.
NoOrphanLink == ~Pending /\ ~debugHub => link # "open"

\* sessionBound is reported at most once, whichever bind callbacks the server build fires, and only
\* for a debugger whose configuration the server accepted.
BoundOnceConfigured ==
  /\ BoundReported => reply["DebugAdapterConfigurationDone"] = "ok"
  /\ \A i, j \in 1..Len(events) : events[i] \in Bounds /\ events[j] \in Bounds => i = j

\* A debugger that is being given up goes quiet.  Once the refusal of a user-filtered attach tears
\* it down, the session hears nothing but fatal events of it: no bind, no break, no detach.  After
\* stop() the only event that may still arrive is the fatal of a teardown begun before it.
QuietOnceGivenUp ==
  [][events' # events =>
       /\ teardown # "none" => Last(events') = "fatal"
       /\ stop # "no" => UserAttachTornDown]_attachVars

\* The debugger is still the caller's, and safe to use.
AttachSafe == AttachTypeOK /\ NoOrphanLink /\ BoundOnceConfigured

\* connect() has settled, and a fatal that refused the user filter has surfaced: a fatal event or a
\* rejected connect.
AttachSettled ==
  /\ attach \in {"idle", "attached", "failed"}
  /\ rejected => attach = "failed" \/ stop # "no" \/ "fatal" \in ToSet(events)

\* "If identity lookup fails, it reports a nonfatal warning-form sessionBound event and debugging
\* remains active" (docs/debugging.md): the refusal teardown is for attaches not bound yet.
TeardownOnlyUnbound == [][teardown = "none" /\ teardown' = "running" => ~BoundReported]_attachVars
=============================================================================
