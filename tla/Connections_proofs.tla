------------------------- MODULE Connections_proofs -------------------------
(***************************************************************************)
(* The ways to Business Central that module MCConnections checks side by    *)
(* side, one part after the other: the debugger's connection                *)
(* (DebuggerAttach), native calls and test tools on their way past the gate *)
(* (TestGate, with NativeMcp and Authorization, which it extends), and the  *)
(* request over HTTP/1.0 (Http10).  Each part has its inductive invariant   *)
(* and what follows from it for all values of its constants.                *)
(***************************************************************************)
EXTENDS DebuggerAttach, TestGate, Http10, FiniteSetTheorems, TLAPS

----------------------------------------------------------------------------
(* The debugger's connection: the inductive invariant *)

\* Before the hub exists nothing else does.
NothingYet ==
  attach \in {"idle", "auth"} =>
    /\ binding = "none" /\ teardown = "none" /\ stop = "no" /\ link = "none"
    /\ ~debugHub /\ ~bindingHandled

\* Who has given up the hub and closes its connection.
GivingUp == attach = "stopping" \/ binding = "closing" \/ teardown = "running" \/ stop = "stopping"

\* A connection belongs to the hub or to whoever is closing it, never to both.
LinkInv ==
  /\ GivingUp => ~debugHub
  /\ link \in {"opening", "open"} => debugHub \/ GivingUp
  /\ teardown # "none" \/ stop # "no" => ~debugHub

Answers(m, invocation) == m.kind = "completion" /\ m.call = invocation

\* An invocation is answered once, while its promise is pending.
AnswersInv ==
  \A i \in 1..Len(wire), invocation \in Invocations : Answers(wire[i], invocation) =>
    /\ reply[invocation] = "pending"
    /\ \A j \in 1..Len(wire) : Answers(wire[j], invocation) => i = j

\* The one bind: configured before its identity is looked up, and reported last.
BindInv ==
  /\ binding # "none" => bindingHandled
  /\ binding = "lookup" => reply["DebugAdapterConfigurationDone"] = "ok"
  /\ BoundReported => binding = "done"
  /\ BoundOnceConfigured

AttachInv == AttachTypeOK /\ NothingYet /\ LinkInv /\ AnswersInv /\ BindInv

----------------------------------------------------------------------------
(* The stream of messages, the events *)

LEMMA AttachInits == AttachInit => AttachInv
<1> SUFFICES ASSUME AttachInit PROVE AttachInv
  OBVIOUS
<1>1. AttachTypeOK
  <2>1. target \in Targets /\ 0 \in 0..MaxCallbacks
    BY AttachAssumption DEF AttachInit
  <2>2. reply \in [Invocations -> {"none", "pending", "ok", "error"}] /\ events \in Seq(Events) /\ wire \in Seq(AttachMessage)
    BY DEF AttachInit
  <2> QED
    BY <2>1, <2>2 DEF AttachInit, AttachTypeOK
<1>2. NothingYet /\ LinkInv /\ AnswersInv /\ BindInv
  BY DEF AttachInit, NothingYet, LinkInv, GivingUp, AnswersInv, BindInv, BoundReported, BoundOnceConfigured
<1> QED
  BY <1>1, <1>2 DEF AttachInv

LEMMA Messages ==
  /\ \A kind \in Callbacks : [kind |-> kind] \in AttachMessage /\ [kind |-> kind].kind # "completion"
  /\ \A invocation \in Invocations, ok \in BOOLEAN :
       LET m == [kind |-> "completion", call |-> invocation, ok |-> ok]
       IN  m \in AttachMessage /\ m.kind = "completion" /\ m.call = invocation
  /\ \A m \in AttachMessage : m.kind = "completion" => m.call \in Invocations /\ m.ok \in BOOLEAN
BY DEF AttachMessage, Callbacks

\* Only a report of the bind counts, and there is room for one.
LEMMA EventEmitted ==
  ASSUME events \in Seq(Events), NEW e \in Events, Emit(e)
  PROVE  /\ events' \in Seq(Events) /\ Last(events') = e
         /\ e \notin Bounds => (BoundReported' <=> BoundReported)
         /\ e \notin Bounds \/ ~BoundReported =>
              ((\A i, j \in 1..Len(events) : events[i] \in Bounds /\ events[j] \in Bounds => i = j) =>
                 (\A i, j \in 1..Len(events') : events'[i] \in Bounds /\ events'[j] \in Bounds => i = j))
<1>1. /\ events' \in Seq(Events) /\ Len(events) \in Nat /\ Len(events') = Len(events) + 1
      /\ events'[Len(events')] = e
      /\ \A i \in 1..Len(events) : events'[i] = events[i]
  BY DEF Emit
<1>2. \A i \in 1..Len(events') : i \in 1..Len(events) \/ i = Len(events) + 1
  BY <1>1
<1>3. 1..Len(events) \subseteq 1..Len(events')
  BY <1>1
<1> QED
  BY <1>1, <1>2, <1>3 DEF Last, BoundReported

LEMMA BindKept ==
  ASSUME BindInv, UNCHANGED <<binding, bindingHandled, events>>,
         reply["DebugAdapterConfigurationDone"] = "ok" => reply'["DebugAdapterConfigurationDone"] = "ok"
  PROVE  BindInv'
BY DEF BindInv, BoundOnceConfigured, BoundReported

\* Closing the connection settles what is pending and drops what is not dispatched.
LEMMA LinkClosed ==
  ASSUME AttachTypeOK, CloseLink
  PROVE  /\ link' = "closed" /\ wire' \in Seq(AttachMessage) /\ sent' \in 0..MaxCallbacks
         /\ reply' \in [Invocations -> {"none", "pending", "ok", "error"}]
         /\ \A invocation \in Invocations : reply[invocation] = "ok" => reply'[invocation] = "ok"
         /\ AnswersInv'
<1>1. reply' \in [Invocations -> {"none", "pending", "ok", "error"}]
  BY DEF AttachTypeOK, CloseLink
<1>2. \A invocation \in Invocations : reply[invocation] = "ok" => reply'[invocation] = "ok"
  BY DEF CloseLink
<1>3. AnswersInv'
  BY DEF AnswersInv, CloseLink
<1> QED
  BY <1>1, <1>2, <1>3 DEF CloseLink, AttachTypeOK

LEMMA Invoked ==
  ASSUME AttachTypeOK, AnswersInv, NEW invocation \in Invocations, Invoke(invocation), wire' = wire
  PROVE  /\ reply' \in [Invocations -> {"none", "pending", "ok", "error"}] /\ AnswersInv'
         /\ \A other \in Invocations : other # invocation => reply'[other] = reply[other]
<1>1. /\ reply' \in [Invocations -> {"none", "pending", "ok", "error"}] /\ reply'[invocation] = "pending"
      /\ \A other \in Invocations : other # invocation => reply'[other] = reply[other]
  BY DEF AttachTypeOK, Invoke
<1> QED
  BY <1>1 DEF AnswersInv

\* A message is dispatched in its order.
LEMMA Dispatched ==
  ASSUME AttachTypeOK, NEW kind, Received(kind)
  PROVE  /\ wire' \in Seq(AttachMessage) /\ Len(wire) \in Nat /\ 1 \in 1..Len(wire) /\ Len(wire') = Len(wire) - 1
         /\ wire[1] \in AttachMessage /\ Head(wire) = wire[1] /\ wire[1].kind = kind
         /\ \A i \in 1..Len(wire') : i + 1 \in 1..Len(wire) /\ i + 1 # 1 /\ wire'[i] = wire[i + 1]
<1>1. wire \in Seq(AttachMessage) /\ wire # <<>> /\ wire' = Tail(wire) /\ Head(wire).kind = kind
  BY DEF AttachTypeOK, Received
<1>2. Len(wire) \in Nat \ {0} /\ wire' \in Seq(AttachMessage) /\ Len(wire') = Len(wire) - 1
  BY <1>1
<1>3. Head(wire) = wire[1] /\ wire[1] \in AttachMessage
  BY <1>1, <1>2
<1>4. \A i \in 1..Len(wire') : i + 1 \in 1..Len(wire) /\ i + 1 # 1 /\ wire'[i] = wire[i + 1]
  BY <1>1, <1>2
<1> QED
  BY <1>1, <1>2, <1>3, <1>4

LEMMA Redispatched ==
  ASSUME AnswersInv, Len(wire') \in Nat,
         \A i \in 1..Len(wire') : i + 1 \in 1..Len(wire) /\ wire'[i] = wire[i + 1],
         \A i \in 1..Len(wire'), invocation \in Invocations :
           Answers(wire'[i], invocation) /\ reply[invocation] = "pending" => reply'[invocation] = "pending"
  PROVE  AnswersInv'
<1> SUFFICES ASSUME NEW i \in 1..Len(wire'), NEW invocation \in Invocations, Answers(wire'[i], invocation)
             PROVE  /\ reply'[invocation] = "pending"
                    /\ \A j \in 1..Len(wire') : Answers(wire'[j], invocation) => i = j
  BY DEF AnswersInv, Answers
<1>1. i + 1 \in 1..Len(wire) /\ Answers(wire[i + 1], invocation)
  BY DEF Answers
<1>2. reply'[invocation] = "pending"
  BY <1>1 DEF AnswersInv
<1>3. ASSUME NEW j \in 1..Len(wire'), Answers(wire'[j], invocation) PROVE i = j
  <2>1. j + 1 \in 1..Len(wire) /\ Answers(wire[j + 1], invocation)
    BY <1>3 DEF Answers
  <2>2. i + 1 = j + 1
    BY <1>1, <2>1 DEF AnswersInv
  <2> QED
    BY <2>2
<1> QED
  BY <1>2, <1>3

LEMMA CallbackDispatched ==
  ASSUME AttachTypeOK, AnswersInv, NEW kind, Received(kind), reply' = reply
  PROVE  wire' \in Seq(AttachMessage) /\ AnswersInv'
<1>1. /\ wire' \in Seq(AttachMessage) /\ Len(wire') \in Nat
      /\ \A i \in 1..Len(wire') : i + 1 \in 1..Len(wire) /\ wire'[i] = wire[i + 1]
  BY Dispatched
<1> QED
  BY <1>1, Redispatched

\* What the server sends comes last.
LEMMA MessageSent ==
  ASSUME AttachTypeOK, AnswersInv, NEW m \in AttachMessage, wire' = Append(wire, m), reply' = reply,
         m.kind = "completion" =>
           /\ reply[m.call] = "pending"
           /\ \A i \in 1..Len(wire) : wire[i].kind = "completion" => wire[i].call # m.call
  PROVE  wire' \in Seq(AttachMessage) /\ AnswersInv'
<1>1. /\ wire' \in Seq(AttachMessage) /\ Len(wire) \in Nat /\ Len(wire') = Len(wire) + 1
      /\ wire'[Len(wire) + 1] = m
      /\ \A i \in 1..Len(wire) : wire'[i] = wire[i]
  BY DEF AttachTypeOK
<1>2. \A i \in 1..Len(wire') : i \in 1..Len(wire) \/ i = Len(wire) + 1
  BY <1>1
<1> QED
  BY <1>1, <1>2 DEF AnswersInv, Answers

----------------------------------------------------------------------------
(* connect(), step by step *)

LEMMA ConnectKept == ASSUME AttachInv, Connect PROVE AttachInv'
<1>0. AttachTypeOK /\ NothingYet /\ LinkInv /\ AnswersInv /\ BindInv
  BY DEF AttachInv
<1>1. AttachTypeOK'
  BY <1>0 DEF Connect, Emit, flags, procs, connection, AttachTypeOK
<1>2. NothingYet' /\ LinkInv'
  BY <1>0 DEF Connect, Emit, flags, procs, connection, NothingYet, LinkInv, GivingUp
<1>3. AnswersInv'
  BY <1>0 DEF Connect, flags, procs, connection, AnswersInv
<1>4. BindInv'
  BY <1>0, BindKept DEF Connect, flags, procs, connection
<1> QED
  BY <1>1, <1>2, <1>3, <1>4 DEF AttachInv

LEMMA UnauthorizedKept == ASSUME AttachInv, Unauthorized PROVE AttachInv'
<1>0. AttachTypeOK /\ NothingYet /\ LinkInv /\ AnswersInv /\ BindInv
  BY DEF AttachInv
<1>1. AttachTypeOK'
  BY <1>0 DEF Unauthorized, Emit, flags, procs, connection, AttachTypeOK
<1>2. NothingYet' /\ LinkInv'
  BY <1>0 DEF Unauthorized, Emit, flags, procs, connection, NothingYet, LinkInv, GivingUp
<1>3. AnswersInv'
  BY <1>0 DEF Unauthorized, flags, procs, connection, AnswersInv
<1>4. BindInv'
  BY <1>0, BindKept DEF Unauthorized, flags, procs, connection
<1> QED
  BY <1>1, <1>2, <1>3, <1>4 DEF AttachInv

LEMMA StartFailsKept == ASSUME AttachInv, StartFails PROVE AttachInv'
<1>0. AttachTypeOK /\ NothingYet /\ LinkInv /\ AnswersInv /\ BindInv
  BY DEF AttachInv
<1>1. AttachTypeOK'
  BY <1>0 DEF StartFails, Emit, flags, procs, connection, AttachTypeOK
<1>2. NothingYet' /\ LinkInv'
  BY <1>0 DEF StartFails, Emit, flags, procs, connection, NothingYet, LinkInv, GivingUp
<1>3. AnswersInv'
  BY <1>0 DEF StartFails, flags, procs, connection, AnswersInv
<1>4. BindInv'
  BY <1>0, BindKept DEF StartFails, flags, procs, connection
<1> QED
  BY <1>1, <1>2, <1>3, <1>4 DEF AttachInv

LEMMA AttachAcceptedKept == ASSUME AttachInv, AttachAccepted PROVE AttachInv'
<1>0. AttachTypeOK /\ NothingYet /\ LinkInv /\ AnswersInv /\ BindInv
  BY DEF AttachInv
<1>1. AttachTypeOK'
  BY <1>0 DEF AttachAccepted, Emit, flags, procs, connection, AttachTypeOK
<1>2. NothingYet' /\ LinkInv'
  BY <1>0 DEF AttachAccepted, Emit, flags, procs, connection, NothingYet, LinkInv, GivingUp
<1>3. AnswersInv'
  BY <1>0 DEF AttachAccepted, flags, procs, connection, AnswersInv
<1>4. BindInv'
  BY <1>0, BindKept DEF AttachAccepted, flags, procs, connection
<1> QED
  BY <1>1, <1>2, <1>3, <1>4 DEF AttachInv

LEMMA AttachRejectedKept == ASSUME AttachInv, AttachRejected PROVE AttachInv'
<1>0. AttachTypeOK /\ NothingYet /\ LinkInv /\ AnswersInv /\ BindInv
  BY DEF AttachInv
<1>1. AttachTypeOK'
  BY <1>0 DEF AttachRejected, Emit, flags, procs, connection, AttachTypeOK
<1>2. NothingYet' /\ LinkInv'
  BY <1>0 DEF AttachRejected, Emit, flags, procs, connection, NothingYet, LinkInv, GivingUp
<1>3. AnswersInv'
  BY <1>0 DEF AttachRejected, flags, procs, connection, AnswersInv
<1>4. BindInv'
  BY <1>0, BindKept DEF AttachRejected, flags, procs, connection
<1> QED
  BY <1>1, <1>2, <1>3, <1>4 DEF AttachInv

LEMMA RejectionStoppedKept == ASSUME AttachInv, RejectionStopped PROVE AttachInv'
<1>0. AttachTypeOK /\ NothingYet /\ LinkInv /\ AnswersInv /\ BindInv
  BY DEF AttachInv
<1>1. AttachTypeOK'
  BY <1>0 DEF RejectionStopped, Emit, flags, procs, connection, AttachTypeOK
<1>2. NothingYet' /\ LinkInv'
  BY <1>0 DEF RejectionStopped, Emit, flags, procs, connection, NothingYet, LinkInv, GivingUp
<1>3. AnswersInv'
  BY <1>0 DEF RejectionStopped, flags, procs, connection, AnswersInv
<1>4. BindInv'
  BY <1>0, BindKept DEF RejectionStopped, flags, procs, connection
<1> QED
  BY <1>1, <1>2, <1>3, <1>4 DEF AttachInv

\* Nothing was bound or reported before the hub exists.
LEMMA AttachAuthorizedKept == ASSUME AttachInv, AttachAuthorized PROVE AttachInv'
<1>0. AttachTypeOK /\ NothingYet /\ LinkInv /\ AnswersInv /\ BindInv
  BY DEF AttachInv
<1>1. AttachTypeOK'
  BY <1>0 DEF AttachAuthorized, Emit, flags, procs, connection, AttachTypeOK
<1>2. NothingYet' /\ LinkInv'
  BY <1>0 DEF AttachAuthorized, Emit, flags, procs, connection, NothingYet, LinkInv, GivingUp
<1>3. AnswersInv'
  BY <1>0 DEF AttachAuthorized, flags, procs, connection, AnswersInv
<1>4. BindInv'
  BY <1>0 DEF AttachAuthorized, procs, NothingYet, BindInv, BoundReported, BoundOnceConfigured
<1> QED
  BY <1>1, <1>2, <1>3, <1>4 DEF AttachInv

LEMMA StartedKept == ASSUME AttachInv, Started PROVE AttachInv'
<1>0. AttachTypeOK /\ NothingYet /\ LinkInv /\ AnswersInv /\ BindInv
  BY DEF AttachInv
<1>1. /\ reply' \in [Invocations -> {"none", "pending", "ok", "error"}] /\ AnswersInv'
      /\ \A other \in Invocations : other # "Attach" => reply'[other] = reply[other]
  BY <1>0, Invoked DEF Started, Invocations
<1>2. AttachTypeOK'
  BY <1>0, <1>1 DEF Started, Emit, flags, procs, connection, AttachTypeOK
<1>3. NothingYet' /\ LinkInv'
  BY <1>0 DEF Started, Emit, flags, procs, connection, NothingYet, LinkInv, GivingUp
<1>4. AnswersInv'
  BY <1>1
<1>5. BindInv'
  BY <1>0, <1>1, BindKept DEF Started, flags, procs, connection, Invocations
<1> QED
  BY <1>2, <1>3, <1>4, <1>5 DEF AttachInv

LEMMA AttachFailedKept == ASSUME AttachInv, AttachFailed PROVE AttachInv'
<1>0. AttachTypeOK /\ NothingYet /\ LinkInv /\ AnswersInv /\ BindInv
  BY DEF AttachInv
<1>1. /\ link' = "closed" /\ wire' \in Seq(AttachMessage) /\ sent' \in 0..MaxCallbacks
      /\ reply' \in [Invocations -> {"none", "pending", "ok", "error"}] /\ AnswersInv'
      /\ reply["DebugAdapterConfigurationDone"] = "ok" => reply'["DebugAdapterConfigurationDone"] = "ok"
  BY <1>0, LinkClosed DEF AttachFailed, Invocations
<1>2. AttachTypeOK'
  BY <1>0, <1>1 DEF AttachFailed, Emit, flags, procs, connection, LinkInv, GivingUp, AttachTypeOK
<1>3. NothingYet' /\ LinkInv'
  BY <1>0, <1>1
  DEF AttachFailed, Emit, flags, procs, connection, LinkInv, GivingUp, NothingYet, LinkInv, GivingUp
<1>4. AnswersInv'
  BY <1>1
<1>5. BindInv'
  BY <1>0, <1>1, BindKept DEF AttachFailed, flags, procs, connection
<1> QED
  BY <1>2, <1>3, <1>4, <1>5 DEF AttachInv

----------------------------------------------------------------------------
(* Hub callbacks *)

LEMMA BreakKept == ASSUME AttachInv, Break PROVE AttachInv'
<1>0. AttachTypeOK /\ NothingYet /\ LinkInv /\ AnswersInv /\ BindInv
  BY DEF AttachInv
<1>1. events' = Append(events, "break") =>
        /\ events' \in Seq(Events)
        /\ (BoundReported' <=> BoundReported)
        /\ (\A i, j \in 1..Len(events) : events[i] \in Bounds /\ events[j] \in Bounds => i = j) =>
             (\A i, j \in 1..Len(events') : events'[i] \in Bounds /\ events'[j] \in Bounds => i = j)
  <2>1. events \in Seq(Events) /\ "break" \in Events /\ "break" \notin Bounds
    BY <1>0 DEF AttachTypeOK, Events, Bounds
  <2> QED
    BY <2>1, EventEmitted, Zenon DEF Emit
<1>2. wire' \in Seq(AttachMessage) /\ AnswersInv'
  BY <1>0, CallbackDispatched DEF Break, procs, connection
<1>3. AttachTypeOK'
  BY <1>0, <1>1, <1>2 DEF Break, Emit, flags, procs, connection, Received, AttachTypeOK
<1>4. NothingYet' /\ LinkInv'
  BY <1>0 DEF Break, Emit, flags, procs, connection, Received, NothingYet, LinkInv, GivingUp
<1>5. AnswersInv'
  BY <1>2
<1>6. BindInv'
  <2>1. CASE events' = events
    BY <1>0, <2>1, BindKept DEF Break, procs, connection
  <2>2. CASE events' = Append(events, "break")
    BY <1>0, <1>1, <2>2 DEF Break, procs, connection, BindInv, BoundOnceConfigured
  <2> QED
    BY <2>1, <2>2 DEF Break, Emit
<1> QED
  BY <1>3, <1>4, <1>5, <1>6 DEF AttachInv

LEMMA OnDetachedFromConnectionKept == ASSUME AttachInv, OnDetachedFromConnection PROVE AttachInv'
<1>0. AttachTypeOK /\ NothingYet /\ LinkInv /\ AnswersInv /\ BindInv
  BY DEF AttachInv
<1>1. events' = Append(events, "detached") =>
        /\ events' \in Seq(Events)
        /\ (BoundReported' <=> BoundReported)
        /\ (\A i, j \in 1..Len(events) : events[i] \in Bounds /\ events[j] \in Bounds => i = j) =>
             (\A i, j \in 1..Len(events') : events'[i] \in Bounds /\ events'[j] \in Bounds => i = j)
  <2>1. events \in Seq(Events) /\ "detached" \in Events /\ "detached" \notin Bounds
    BY <1>0 DEF AttachTypeOK, Events, Bounds
  <2> QED
    BY <2>1, EventEmitted, Zenon DEF Emit
<1>2. wire' \in Seq(AttachMessage) /\ AnswersInv'
  BY <1>0, CallbackDispatched DEF OnDetachedFromConnection, procs, connection
<1>3. AttachTypeOK'
  BY <1>0, <1>1, <1>2 DEF OnDetachedFromConnection, Emit, flags, procs, connection, Received, AttachTypeOK
<1>4. NothingYet' /\ LinkInv'
  BY <1>0 DEF OnDetachedFromConnection, Emit, flags, procs, connection, Received, NothingYet, LinkInv, GivingUp
<1>5. AnswersInv'
  BY <1>2
<1>6. BindInv'
  <2>1. CASE events' = events
    BY <1>0, <2>1, BindKept DEF OnDetachedFromConnection, procs, connection
  <2>2. CASE events' = Append(events, "detached")
    BY <1>0, <1>1, <2>2 DEF OnDetachedFromConnection, procs, connection, BindInv, BoundOnceConfigured
  <2> QED
    BY <2>1, <2>2 DEF OnDetachedFromConnection, Emit
<1> QED
  BY <1>3, <1>4, <1>5, <1>6 DEF AttachInv

LEMMA OnFatalDebuggerExceptionKept == ASSUME AttachInv, OnFatalDebuggerException PROVE AttachInv'
<1>0. AttachTypeOK /\ NothingYet /\ LinkInv /\ AnswersInv /\ BindInv
  BY DEF AttachInv
<1>1. events' = Append(events, "fatal") =>
        /\ events' \in Seq(Events)
        /\ (BoundReported' <=> BoundReported)
        /\ (\A i, j \in 1..Len(events) : events[i] \in Bounds /\ events[j] \in Bounds => i = j) =>
             (\A i, j \in 1..Len(events') : events'[i] \in Bounds /\ events'[j] \in Bounds => i = j)
  <2>1. events \in Seq(Events) /\ "fatal" \in Events /\ "fatal" \notin Bounds
    BY <1>0 DEF AttachTypeOK, Events, Bounds
  <2> QED
    BY <2>1, EventEmitted, Zenon DEF Emit
<1>2. wire' \in Seq(AttachMessage) /\ AnswersInv'
  BY <1>0, CallbackDispatched DEF OnFatalDebuggerException, procs, connection
<1>3. AttachTypeOK'
  BY <1>0, <1>1, <1>2
  DEF OnFatalDebuggerException, Emit, flags, procs, connection, Received, FailUserAttach, AttachTypeOK
<1>4. NothingYet' /\ LinkInv'
  BY <1>0
  DEF OnFatalDebuggerException, Emit, flags, procs, connection, Received, FailUserAttach, NothingYet, LinkInv,
     GivingUp
<1>5. AnswersInv'
  BY <1>2
<1>6. BindInv'
  <2>1. CASE events' = events
    BY <1>0, <2>1, BindKept DEF OnFatalDebuggerException, procs, connection
  <2>2. CASE events' = Append(events, "fatal")
    BY <1>0, <1>1, <2>2 DEF OnFatalDebuggerException, procs, connection, BindInv, BoundOnceConfigured
  <2> QED
    BY <2>1, <2>2 DEF OnFatalDebuggerException, Emit
<1> QED
  BY <1>3, <1>4, <1>5, <1>6 DEF AttachInv

\* The first bind is the only one, and nothing was reported before it.
LEMMA HandleSessionBoundKept == ASSUME AttachInv, HandleSessionBound PROVE AttachInv'
<1>0. AttachTypeOK /\ NothingYet /\ LinkInv /\ AnswersInv /\ BindInv
  BY DEF AttachInv
<1>1. wire' \in Seq(AttachMessage) /\ AnswersInv' /\ reply' \in [Invocations -> {"none", "pending", "ok", "error"}]
  <2>1. CASE reply' = reply
    BY <1>0, <2>1, CallbackDispatched DEF HandleSessionBound, AttachTypeOK
  <2>2. CASE Invoke("DebugAdapterConfigurationDone")
    <3>1. /\ wire' \in Seq(AttachMessage) /\ Len(wire') \in Nat
          /\ \A i \in 1..Len(wire') : i + 1 \in 1..Len(wire) /\ wire'[i] = wire[i + 1]
      BY <1>0, Dispatched DEF HandleSessionBound
    <3>3. /\ reply' \in [Invocations -> {"none", "pending", "ok", "error"}]
          /\ \A invocation \in Invocations : reply[invocation] = "pending" => reply'[invocation] = "pending"
      BY <1>0, <2>2 DEF AttachTypeOK, Invoke
    <3> QED
      BY <1>0, <3>1, <3>3, Redispatched
  <2> QED
    BY <2>1, <2>2 DEF HandleSessionBound
<1>2. AttachTypeOK'
  BY <1>0, <1>1 DEF HandleSessionBound, Emit, flags, procs, connection, Received, AttachTypeOK
<1>3. NothingYet' /\ LinkInv'
  BY <1>0 DEF HandleSessionBound, Emit, flags, procs, connection, Received, NothingYet, LinkInv, GivingUp
<1>4. AnswersInv'
  BY <1>1
<1>5. BindInv'
  <2>1. CASE debugHub /\ ~bindingHandled
    BY <1>0, <2>1 DEF HandleSessionBound, BindInv, BoundOnceConfigured, BoundReported
  <2>2. CASE ~(debugHub /\ ~bindingHandled)
    BY <1>0, <2>2, BindKept DEF HandleSessionBound
  <2> QED
    BY <2>1, <2>2
<1> QED
  BY <1>2, <1>3, <1>4, <1>5 DEF AttachInv

\* What is settled stays settled.
LEMMA CompletionKept == ASSUME AttachInv, Completion PROVE AttachInv'
<1>0. AttachTypeOK /\ NothingYet /\ LinkInv /\ AnswersInv /\ BindInv
  BY DEF AttachInv
<1>1. /\ Len(wire') \in Nat /\ wire' \in Seq(AttachMessage) /\ 1 \in 1..Len(wire)
      /\ Head(wire) = wire[1] /\ wire[1] \in AttachMessage /\ wire[1].kind = "completion"
      /\ \A i \in 1..Len(wire') : i + 1 \in 1..Len(wire) /\ i + 1 # 1 /\ wire'[i] = wire[i + 1]
  BY <1>0, Dispatched DEF Completion
<1>2. wire[1].call \in Invocations /\ reply[wire[1].call] = "pending"
  BY <1>0, <1>1, Messages DEF AnswersInv, Answers
<1>3. /\ reply' \in [Invocations -> {"none", "pending", "ok", "error"}]
       /\ \A other \in Invocations : other # wire[1].call => reply'[other] = reply[other]
  BY <1>0, <1>1, <1>2 DEF Completion, AttachTypeOK
<1>4. AttachTypeOK'
  BY <1>0, <1>1, <1>3 DEF Completion, Emit, flags, procs, connection, Received, AttachTypeOK
<1>5. NothingYet' /\ LinkInv'
  BY <1>0 DEF Completion, Emit, flags, procs, connection, Received, NothingYet, LinkInv, GivingUp
<1>6. AnswersInv'
  <2>1. ASSUME NEW i \in 1..Len(wire'), NEW invocation \in Invocations, Answers(wire'[i], invocation)
        PROVE  invocation # wire[1].call
    <3>1. i + 1 \in 1..Len(wire) /\ i + 1 # 1 /\ Answers(wire[i + 1], invocation)
      BY <1>1, <2>1 DEF Answers
    <3>2. invocation = wire[1].call => Answers(wire[1], invocation)
      BY <1>1 DEF Answers
    <3> QED
      BY <1>0, <1>1, <3>1, <3>2 DEF AnswersInv
  <2>2. /\ Len(wire') \in Nat
        /\ \A i \in 1..Len(wire') : i + 1 \in 1..Len(wire) /\ wire'[i] = wire[i + 1]
    BY <1>1
  <2> QED
    BY <1>0, <1>3, <2>1, <2>2, Redispatched
<1>7. BindInv'
  BY <1>0, <1>2, <1>3, BindKept DEF Completion, flags, procs, connection, Invocations
<1> QED
  BY <1>4, <1>5, <1>6, <1>7 DEF AttachInv

LEMMA ClosedKept == ASSUME AttachInv, Closed PROVE AttachInv'
<1>0. AttachTypeOK /\ NothingYet /\ LinkInv /\ AnswersInv /\ BindInv
  BY DEF AttachInv
<1>1. events' = Append(events, "fatal") =>
        /\ events' \in Seq(Events)
        /\ (BoundReported' <=> BoundReported)
        /\ (\A i, j \in 1..Len(events) : events[i] \in Bounds /\ events[j] \in Bounds => i = j) =>
             (\A i, j \in 1..Len(events') : events'[i] \in Bounds /\ events'[j] \in Bounds => i = j)
  <2>1. events \in Seq(Events) /\ "fatal" \in Events /\ "fatal" \notin Bounds
    BY <1>0 DEF AttachTypeOK, Events, Bounds
  <2> QED
    BY <2>1, EventEmitted, Zenon DEF Emit
<1>2. /\ link' = "closed" /\ wire' \in Seq(AttachMessage) /\ sent' \in 0..MaxCallbacks
      /\ reply' \in [Invocations -> {"none", "pending", "ok", "error"}] /\ AnswersInv'
      /\ reply["DebugAdapterConfigurationDone"] = "ok" => reply'["DebugAdapterConfigurationDone"] = "ok"
  BY <1>0, LinkClosed DEF Closed, Invocations
<1>3. AttachTypeOK'
  BY <1>0, <1>1, <1>2 DEF Closed, Emit, flags, procs, connection, AttachTypeOK
<1>4. NothingYet' /\ LinkInv'
  BY <1>0, <1>2 DEF Closed, Emit, flags, procs, connection, NothingYet, LinkInv, GivingUp
<1>5. AnswersInv'
  BY <1>2
<1>6. BindInv'
  <2>1. CASE events' = events
    BY <1>0, <1>2, <2>1, BindKept DEF Closed, procs, connection
  <2>2. CASE events' = Append(events, "fatal")
    BY <1>0, <1>2, <1>1, <2>2 DEF Closed, procs, connection, BindInv, BoundOnceConfigured
  <2> QED
    BY <2>1, <2>2 DEF Closed, Emit
<1> QED
  BY <1>3, <1>4, <1>5, <1>6 DEF AttachInv

----------------------------------------------------------------------------
(* Binding, teardown, stop *)

LEMMA ConfigurationFailedKept == ASSUME AttachInv, ConfigurationFailed PROVE AttachInv'
<1>0. AttachTypeOK /\ NothingYet /\ LinkInv /\ AnswersInv /\ BindInv
  BY DEF AttachInv
<1>1. events' = Append(events, "fatal") =>
        /\ events' \in Seq(Events)
        /\ (BoundReported' <=> BoundReported)
        /\ (\A i, j \in 1..Len(events) : events[i] \in Bounds /\ events[j] \in Bounds => i = j) =>
             (\A i, j \in 1..Len(events') : events'[i] \in Bounds /\ events'[j] \in Bounds => i = j)
  <2>1. events \in Seq(Events) /\ "fatal" \in Events /\ "fatal" \notin Bounds
    BY <1>0 DEF AttachTypeOK, Events, Bounds
  <2> QED
    BY <2>1, EventEmitted, Zenon DEF Emit
<1>2. AttachTypeOK'
  BY <1>0, <1>1 DEF ConfigurationFailed, Emit, flags, procs, connection, AttachTypeOK
<1>3. NothingYet' /\ LinkInv'
  BY <1>0 DEF ConfigurationFailed, Emit, flags, procs, connection, NothingYet, LinkInv, GivingUp
<1>4. AnswersInv'
  BY <1>0 DEF ConfigurationFailed, flags, procs, connection, AnswersInv
<1>5. BindInv'
  <2>1. ~BoundReported
    BY <1>0 DEF ConfigurationFailed, BindInv
  <2>2. ~BoundReported'
    BY <1>1, <2>1 DEF ConfigurationFailed, Emit, BoundReported
  <2> QED
    BY <1>0, <1>1, <2>1, <2>2
    DEF ConfigurationFailed, Emit, BindInv, BoundOnceConfigured, BoundReported, connection
<1> QED
  BY <1>2, <1>3, <1>4, <1>5 DEF AttachInv

LEMMA ConfigurationClosedKept == ASSUME AttachInv, ConfigurationClosed PROVE AttachInv'
<1>0. AttachTypeOK /\ NothingYet /\ LinkInv /\ AnswersInv /\ BindInv
  BY DEF AttachInv
<1>1. /\ link' = "closed" /\ wire' \in Seq(AttachMessage) /\ sent' \in 0..MaxCallbacks
      /\ reply' \in [Invocations -> {"none", "pending", "ok", "error"}] /\ AnswersInv'
      /\ reply["DebugAdapterConfigurationDone"] = "ok" => reply'["DebugAdapterConfigurationDone"] = "ok"
  BY <1>0, LinkClosed DEF ConfigurationClosed, Invocations
<1>2. AttachTypeOK'
  BY <1>0, <1>1 DEF ConfigurationClosed, Emit, flags, procs, connection, LinkInv, GivingUp, AttachTypeOK
<1>3. NothingYet' /\ LinkInv'
  BY <1>0, <1>1
  DEF ConfigurationClosed, Emit, flags, procs, connection, LinkInv, GivingUp, NothingYet, LinkInv, GivingUp
<1>4. AnswersInv'
  BY <1>1
<1>5. BindInv'
  BY <1>0, <1>1 DEF ConfigurationClosed, BindInv, BoundOnceConfigured, BoundReported
<1> QED
  BY <1>2, <1>3, <1>4, <1>5 DEF AttachInv

LEMMA ConfiguredKept == ASSUME AttachInv, Configured PROVE AttachInv'
<1>0. AttachTypeOK /\ NothingYet /\ LinkInv /\ AnswersInv /\ BindInv
  BY DEF AttachInv
<1>1. /\ reply' \in [Invocations -> {"none", "pending", "ok", "error"}] /\ AnswersInv'
      /\ reply'["DebugAdapterConfigurationDone"] = reply["DebugAdapterConfigurationDone"]
  <2>1. CASE reply' = reply
    BY <1>0, <2>1 DEF Configured, AttachTypeOK, AnswersInv
  <2>2. CASE Invoke("GetNstSessionInfo")
    BY <1>0, <2>2, Invoked DEF Configured, Invocations
  <2> QED
    BY <2>1, <2>2 DEF Configured
<1>2. AttachTypeOK'
  <2>1. CASE UNCHANGED <<debugHub, userAttachFailed, teardown>>
    BY <1>0, <1>1, <2>1 DEF Configured, AttachTypeOK
  <2>2. CASE FailUserAttach
    BY <1>0, <1>1, <2>2 DEF Configured, FailUserAttach, AttachTypeOK
  <2> QED
    BY <2>1, <2>2 DEF Configured
<1>3. NothingYet' /\ LinkInv'
  BY <1>0 DEF Configured, Emit, flags, procs, connection, FailUserAttach, NothingYet, LinkInv, GivingUp
<1>4. AnswersInv'
  BY <1>1
<1>5. BindInv'
  BY <1>0, <1>1 DEF Configured, BindInv, BoundOnceConfigured, BoundReported
<1> QED
  BY <1>2, <1>3, <1>4, <1>5 DEF AttachInv

LEMMA IdentityReadKept == ASSUME AttachInv, IdentityRead PROVE AttachInv'
<1>0. AttachTypeOK /\ NothingYet /\ LinkInv /\ AnswersInv /\ BindInv
  BY DEF AttachInv
<1>1. ~BoundReported /\ bindingHandled /\ reply["DebugAdapterConfigurationDone"] = "ok" /\ binding' = "done"
  BY <1>0 DEF IdentityRead, BindInv
<1>2. events' = Append(events, "sessionBound") =>
        /\ events' \in Seq(Events)
        /\ \A i, j \in 1..Len(events') :
              events'[i] \in Bounds /\ events'[j] \in Bounds => i = j
  <2>1. events \in Seq(Events) /\ "sessionBound" \in Events
    BY <1>0 DEF AttachTypeOK, Events, Bounds
  <2>2. \A i, j \in 1..Len(events) : events[i] \in Bounds /\ events[j] \in Bounds => i = j
    BY <1>1 DEF BoundReported
  <2> QED
    BY <1>1, <2>1, <2>2, EventEmitted, Zenon DEF Emit
<1>3. AttachTypeOK'
  <2>1. CASE FailUserAttach /\ UNCHANGED <<sessionBoundReported, events>>
    BY <1>0, <2>1 DEF IdentityRead, FailUserAttach, AttachTypeOK, procs, connection
  <2>2. CASE UNCHANGED <<debugHub, userAttachFailed, teardown, sessionBoundReported, events>>
    BY <1>0, <2>2 DEF IdentityRead, AttachTypeOK, procs, connection
  <2>3. CASE sessionBoundReported' = TRUE /\ Emit("sessionBound") /\ UNCHANGED <<debugHub, userAttachFailed, teardown>>
    BY <1>0, <1>2, <2>3 DEF IdentityRead, Emit, AttachTypeOK, procs, connection
  <2> QED
    BY <2>1, <2>2, <2>3 DEF IdentityRead
<1>4. NothingYet' /\ LinkInv'
  BY <1>0 DEF IdentityRead, Emit, flags, procs, connection, FailUserAttach, NothingYet, LinkInv, GivingUp
<1>5. AnswersInv'
  BY <1>0 DEF IdentityRead, flags, procs, connection, AnswersInv
<1>6. BindInv'
  <2>1. CASE events' = events
    BY <1>0, <1>1, <2>1 DEF IdentityRead, connection, BindInv, BoundOnceConfigured, BoundReported
  <2>2. CASE events' = Append(events, "sessionBound")
    BY <1>2, <1>1, <2>2 DEF IdentityRead, connection, BindInv, BoundOnceConfigured, BoundReported
  <2> QED
    BY <2>1, <2>2 DEF IdentityRead, Emit
<1> QED
  BY <1>3, <1>4, <1>5, <1>6 DEF AttachInv

LEMMA IdentityUnknownKept == ASSUME AttachInv, IdentityUnknown PROVE AttachInv'
<1>0. AttachTypeOK /\ NothingYet /\ LinkInv /\ AnswersInv /\ BindInv
  BY DEF AttachInv
<1>1. ~BoundReported /\ bindingHandled /\ reply["DebugAdapterConfigurationDone"] = "ok" /\ binding' = "done"
  BY <1>0 DEF IdentityUnknown, BindInv
<1>2. events' = Append(events, "boundWarning") =>
        /\ events' \in Seq(Events)
        /\ \A i, j \in 1..Len(events') :
              events'[i] \in Bounds /\ events'[j] \in Bounds => i = j
  <2>1. events \in Seq(Events) /\ "boundWarning" \in Events
    BY <1>0 DEF AttachTypeOK, Events, Bounds
  <2>2. \A i, j \in 1..Len(events) : events[i] \in Bounds /\ events[j] \in Bounds => i = j
    BY <1>1 DEF BoundReported
  <2> QED
    BY <1>1, <2>1, <2>2, EventEmitted, Zenon DEF Emit
<1>3. AttachTypeOK'
  BY <1>0, <1>2 DEF IdentityUnknown, Emit, flags, procs, connection, FailUserAttach, AttachTypeOK
<1>4. NothingYet' /\ LinkInv'
  BY <1>0 DEF IdentityUnknown, Emit, flags, procs, connection, FailUserAttach, NothingYet, LinkInv, GivingUp
<1>5. AnswersInv'
  BY <1>0 DEF IdentityUnknown, flags, procs, connection, AnswersInv
<1>6. BindInv'
  <2>1. CASE events' = events
    BY <1>0, <1>1, <2>1 DEF IdentityUnknown, connection, BindInv, BoundOnceConfigured, BoundReported
  <2>2. CASE events' = Append(events, "boundWarning")
    BY <1>2, <1>1, <2>2 DEF IdentityUnknown, connection, BindInv, BoundOnceConfigured, BoundReported
  <2> QED
    BY <2>1, <2>2 DEF IdentityUnknown, Emit
<1> QED
  BY <1>3, <1>4, <1>5, <1>6 DEF AttachInv

LEMMA UserAttachTornDownKept == ASSUME AttachInv, UserAttachTornDown PROVE AttachInv'
<1>0. AttachTypeOK /\ NothingYet /\ LinkInv /\ AnswersInv /\ BindInv
  BY DEF AttachInv
<1>1. events' = Append(events, "fatal") =>
        /\ events' \in Seq(Events)
        /\ (BoundReported' <=> BoundReported)
        /\ (\A i, j \in 1..Len(events) : events[i] \in Bounds /\ events[j] \in Bounds => i = j) =>
             (\A i, j \in 1..Len(events') : events'[i] \in Bounds /\ events'[j] \in Bounds => i = j)
  <2>1. events \in Seq(Events) /\ "fatal" \in Events /\ "fatal" \notin Bounds
    BY <1>0 DEF AttachTypeOK, Events, Bounds
  <2> QED
    BY <2>1, EventEmitted, Zenon DEF Emit
<1>2. /\ link' = "closed" /\ wire' \in Seq(AttachMessage) /\ sent' \in 0..MaxCallbacks
      /\ reply' \in [Invocations -> {"none", "pending", "ok", "error"}] /\ AnswersInv'
      /\ reply["DebugAdapterConfigurationDone"] = "ok" => reply'["DebugAdapterConfigurationDone"] = "ok"
  BY <1>0, LinkClosed DEF UserAttachTornDown, Invocations
<1>3. AttachTypeOK'
  BY <1>0, <1>1, <1>2 DEF UserAttachTornDown, Emit, flags, procs, connection, LinkInv, GivingUp, AttachTypeOK
<1>4. NothingYet' /\ LinkInv'
  BY <1>0, <1>2
  DEF UserAttachTornDown, Emit, flags, procs, connection, LinkInv, GivingUp, NothingYet, LinkInv, GivingUp
<1>5. AnswersInv'
  BY <1>2
<1>6. BindInv'
  BY <1>0, <1>1, <1>2 DEF UserAttachTornDown, Emit, BindInv, BoundOnceConfigured, BoundReported
<1> QED
  BY <1>3, <1>4, <1>5, <1>6 DEF AttachInv

LEMMA StopKept == ASSUME AttachInv, Stop PROVE AttachInv'
<1>0. AttachTypeOK /\ NothingYet /\ LinkInv /\ AnswersInv /\ BindInv
  BY DEF AttachInv
<1>1. AttachTypeOK'
  BY <1>0 DEF Stop, Emit, flags, procs, connection, AttachTypeOK
<1>2. NothingYet' /\ LinkInv'
  BY <1>0 DEF Stop, Emit, flags, procs, connection, NothingYet, LinkInv, GivingUp
<1>3. AnswersInv'
  BY <1>0 DEF Stop, flags, procs, connection, AnswersInv
<1>4. BindInv'
  BY <1>0, BindKept DEF Stop, flags, procs, connection
<1> QED
  BY <1>1, <1>2, <1>3, <1>4 DEF AttachInv

LEMMA ClientStoppedKept == ASSUME AttachInv, ClientStopped PROVE AttachInv'
<1>0. AttachTypeOK /\ NothingYet /\ LinkInv /\ AnswersInv /\ BindInv
  BY DEF AttachInv
<1>1. /\ link' = "closed" /\ wire' \in Seq(AttachMessage) /\ sent' \in 0..MaxCallbacks
      /\ reply' \in [Invocations -> {"none", "pending", "ok", "error"}] /\ AnswersInv'
      /\ reply["DebugAdapterConfigurationDone"] = "ok" => reply'["DebugAdapterConfigurationDone"] = "ok"
  BY <1>0, LinkClosed DEF ClientStopped, Invocations
<1>2. AttachTypeOK'
  BY <1>0, <1>1 DEF ClientStopped, Emit, flags, procs, connection, LinkInv, GivingUp, AttachTypeOK
<1>3. NothingYet' /\ LinkInv'
  BY <1>0, <1>1
  DEF ClientStopped, Emit, flags, procs, connection, LinkInv, GivingUp, NothingYet, LinkInv, GivingUp
<1>4. AnswersInv'
  BY <1>1
<1>5. BindInv'
  BY <1>0, <1>1, BindKept DEF ClientStopped, flags, procs, connection
<1> QED
  BY <1>2, <1>3, <1>4, <1>5 DEF AttachInv

----------------------------------------------------------------------------
(* The server *)

LEMMA ServerCallsKept == ASSUME AttachInv, NEW kind \in Callbacks, ServerCalls(kind) PROVE AttachInv'
<1>0. AttachTypeOK /\ NothingYet /\ LinkInv /\ AnswersInv /\ BindInv
  BY DEF AttachInv
<1>1. wire' \in Seq(AttachMessage) /\ AnswersInv'
  <2>1. [kind |-> kind] \in AttachMessage /\ [kind |-> kind].kind # "completion"
    BY Messages
  <2> QED
    BY <1>0, <2>1, MessageSent DEF ServerCalls
<1>2. AttachTypeOK'
  BY <1>0, <1>1, AttachAssumption DEF ServerCalls, Emit, flags, procs, connection, AttachTypeOK
<1>3. NothingYet' /\ LinkInv'
  BY <1>0 DEF ServerCalls, Emit, flags, procs, connection, NothingYet, LinkInv, GivingUp
<1>4. AnswersInv'
  BY <1>1
<1>5. BindInv'
  BY <1>0, BindKept DEF ServerCalls, flags, procs, connection
<1> QED
  BY <1>2, <1>3, <1>4, <1>5 DEF AttachInv

LEMMA AttachAnswersKept ==
  ASSUME AttachInv, NEW invocation \in Invocations, AttachAnswers(invocation)
  PROVE  AttachInv'
<1>0. AttachTypeOK /\ NothingYet /\ LinkInv /\ AnswersInv /\ BindInv
  BY DEF AttachInv
<1>1. wire' \in Seq(AttachMessage) /\ AnswersInv'
  <2>1. PICK ok \in BOOLEAN : wire' = Append(wire, [kind |-> "completion", call |-> invocation, ok |-> ok])
    BY DEF AttachAnswers
  <2> DEFINE m == [kind |-> "completion", call |-> invocation, ok |-> ok]
  <2>2. m \in AttachMessage /\ m.call = invocation
    BY Messages
  <2>3. \A i \in 1..Len(wire) : wire[i].kind = "completion" => wire[i].call # invocation
    BY <1>0 DEF AttachAnswers, ToSet, AttachTypeOK
  <2>4. reply[invocation] = "pending" /\ wire' = Append(wire, m) /\ reply' = reply
    BY <2>1 DEF AttachAnswers
  <2> HIDE DEF m
  <2> QED
    BY <1>0, <2>2, <2>3, <2>4, MessageSent
<1>2. AttachTypeOK'
  BY <1>0, <1>1 DEF AttachAnswers, Emit, flags, procs, connection, AttachTypeOK
<1>3. NothingYet' /\ LinkInv'
  BY <1>0 DEF AttachAnswers, Emit, flags, procs, connection, NothingYet, LinkInv, GivingUp
<1>4. AnswersInv'
  BY <1>1
<1>5. BindInv'
  BY <1>0, BindKept DEF AttachAnswers, flags, procs, connection
<1> QED
  BY <1>2, <1>3, <1>4, <1>5 DEF AttachInv

----------------------------------------------------------------------------
(* Every step of the debugger's connection *)

LEMMA AttachStep == AttachInv /\ [AttachNext]_attachVars => AttachInv'
<1> SUFFICES ASSUME AttachInv, [AttachNext]_attachVars PROVE AttachInv'
  OBVIOUS
<1>1. CASE Client
  BY <1>1, AttachAuthorizedKept, UnauthorizedKept, StartedKept, StartFailsKept, AttachAcceptedKept,
     AttachRejectedKept, RejectionStoppedKept, AttachFailedKept, ConfigurationFailedKept,
     ConfigurationClosedKept, ConfiguredKept, IdentityReadKept, IdentityUnknownKept, UserAttachTornDownKept,
     ClientStoppedKept
  DEF Client
<1>2. CASE DispatchCallback
  BY <1>2, BreakKept, OnDetachedFromConnectionKept, OnFatalDebuggerExceptionKept, HandleSessionBoundKept,
     CompletionKept
  DEF DispatchCallback
<1>3. CASE Connect \/ Closed \/ Stop
  BY <1>3, ConnectKept, ClosedKept, StopKept
<1>4. CASE \E kind \in Callbacks : ServerCalls(kind)
  BY <1>4, ServerCallsKept
<1>5. CASE \E invocation \in Invocations : AttachAnswers(invocation)
  BY <1>5, AttachAnswersKept
<1>6. CASE UNCHANGED attachVars
  <2> USE <1>6 DEF attachVars, procs, flags, connection
  <2>1. AttachTypeOK' /\ NothingYet' /\ LinkInv'
    BY DEF AttachInv, AttachTypeOK, NothingYet, LinkInv, GivingUp
  <2>2. AnswersInv' /\ BindInv'
    BY DEF AttachInv, AnswersInv, BindInv, BoundReported, BoundOnceConfigured
  <2> QED
    BY <2>1, <2>2 DEF AttachInv
<1> QED
  BY <1>1, <1>2, <1>3, <1>4, <1>5, <1>6 DEF AttachNext

LEMMA AttachInvariance == AttachSpec => []AttachInv
BY AttachInits, AttachStep, PTL DEF AttachSpec

\* A debugger's connection that is given up is closed by whoever gave it up, and a bind is reported
\* once, for a configuration the server accepted.
THEOREM AttachTrusted == AttachSpec => []AttachSafe
<1>1. AttachInv => AttachSafe
  BY DEF AttachInv, AttachSafe, LinkInv, GivingUp, NoOrphanLink, Pending, BindInv
<1> QED
  BY <1>1, AttachInvariance, PTL

\* A debugger that is given up is quiet: no event but the fatal one of its teardown, none after stop().
THEOREM GivenUpIsQuiet == AttachSpec => QuietOnceGivenUp
<1>1. AttachInv /\ [AttachNext]_attachVars =>
        [events' # events =>
           /\ teardown # "none" => Last(events') = "fatal"
           /\ stop # "no" => UserAttachTornDown]_attachVars
  <2> SUFFICES ASSUME AttachInv, AttachNext, events' # events, teardown # "none" \/ stop # "no"
               PROVE  UserAttachTornDown /\ Last(events') = "fatal"
    BY DEF attachVars
  <2>1. ~debugHub /\ events \in Seq(Events)
    BY DEF AttachInv, LinkInv, AttachTypeOK
  <2>2. UserAttachTornDown
    BY <2>1
    DEF AttachNext, Client, DispatchCallback, ServerCalls, AttachAnswers, AttachAuthorized, Unauthorized,
       Started, StartFails, AttachAccepted, AttachRejected, RejectionStopped, AttachFailed,
       ConfigurationFailed, ConfigurationClosed, Configured, IdentityRead, IdentityUnknown, ClientStopped,
       Break, OnDetachedFromConnection, OnFatalDebuggerException, HandleSessionBound, Completion, Connect,
       Closed, Stop
  <2>3. Emit("fatal") /\ "fatal" \in Events
    BY <2>2 DEF UserAttachTornDown, Events
  <2> QED
    BY <2>1, <2>2, <2>3, EventEmitted
<1> QED
  BY <1>1, AttachInvariance, PTL DEF AttachSpec, QuietOnceGivenUp

----------------------------------------------------------------------------
(* Native calls and the gate: the inductive invariant *)

\* Only a tenant's provider makes its caller wait.
HeadersInv == \A c \in Callers : header[c].st \in {"waiting", "resolved"} => ProviderOf[c] \in Tenants

\* The transport of a call, and what it has learned.
Transported(n, s) ==
  /\ s.transport = "open" <=> n.phase \in {"connect", "operation", "deleting", "closing"}
  /\ s.known => s.session

\* A call sends nothing before it connects, its operation runs from its connect on, and it asks for the
\* end of a session it knows of before it closes.
Upstream(n, s) ==
  /\ n.phase \in {"idle", "authorization"} => ~s.session /\ ~s.known /\ s.upstream = "none"
  /\ n.phase = "connect" => s.upstream = "none"
  /\ n.phase = "operation" => s.upstream # "none"
  /\ n.phase \in {"closing", "over"} /\ s.known => s.asked

\* A timeout knows whether it left an operation behind, and the handler passes that on.
Told(c, n, s) ==
  n.outcome.code = "TIMEOUT" =>
    /\ n.phase \in {"deleting", "closing"} =>
         /\ n.outcome.retryable /\ ~n.outcome.warned
         /\ n.outcome.timeoutPhase \in {"connect", "operation"}
         /\ n.outcome.timeoutPhase = "operation" <=> s.upstream # "none"
    /\ RunLocked(c) /\ n.phase = "over" =>
         /\ n.outcome.retryable => s.upstream = "none"
         /\ n.outcome.warned <=> s.upstream # "none"

CallsInv == \A c \in Calls : Upstream(call[c], server[c]) /\ Told(c, call[c], server[c])

\* The deadline has not passed unseen, and a header from the cache outlives it.
DeadlineInv ==
  \A c \in Calls : call[c].phase \in {"authorization", "connect", "operation"} =>
    /\ now <= call[c].deadline
    /\ header[c].from = "cache" => header[c].exp > call[c].deadline

\* The test-run lock is taken exactly if somebody holds it, and nobody shares it.
LockInv ==
  /\ testRunActive <=> Holders # {}
  /\ \A a, b \in Holders : a = b

\* The cached verdict ages from the moment it was given.
VerdictInv ==
  /\ info.kept => info.expiresAt <= now + TTL
  /\ VerdictRecent

GateInv ==
  /\ TypeOK /\ HeadersInv /\ NobodyForgotten
  /\ CallsInv /\ DeadlineInv
  /\ LockInv /\ VerdictInv

----------------------------------------------------------------------------
(* What callers of the gateway see *)

LEMMA GateInits == Init => GateInv
<1> SUFFICES ASSUME Init PROVE GateInv
  OBVIOUS
<1> USE DEF Init, AuthInit, NativeInit
<1>1. AuthTypeOK /\ HeadersInv /\ NobodyForgotten
  <2>1. now \in 0..MaxNow
    BY AuthorizationAssumption
  <2>2. \A c \in Callers : header[c] = NoHeader
    OBVIOUS
  <2>3. AuthTypeOK
    BY <2>1 DEF AuthTypeOK, Header, NoHeader
  <2> QED
    BY <2>2, <2>3 DEF HeadersInv, NobodyForgotten, Waiting, NoHeader
<1>2. \A c \in Calls : /\ call[c] = [phase |-> "idle", deadline |-> 0, outcome |-> Success]
                       /\ server[c].transport = "none" /\ ~server[c].session /\ ~server[c].known /\ server[c].upstream = "none"
  OBVIOUS
<1>3. NativeTypeOK
  BY <1>2 DEF NativeTypeOK, Call, Server, Outcome, Success, Phases, Codes
<1>4. CallsInv /\ DeadlineInv
  BY <1>2 DEF CallsInv, Upstream, Told, DeadlineInv, Success
<1>5. LockInv
  BY <1>2 DEF LockInv, Holders, InFlight
<1>6. VerdictInv /\ TypeOK
  BY <1>1, <1>3, GateAssumption DEF VerdictInv, VerdictRecent, TypeOK, NoInfo, Info, Gate
<1> QED
  BY <1>1, <1>4, <1>5, <1>6 DEF GateInv

\* What an error of the connection becomes is no timeout.
LEMMA FaultNormalized ==
  \A c, fault : Normalized(c, fault) \in Outcome /\ Normalized(c, fault).code # "TIMEOUT"
<1>1. \A code \in Codes \ {"TIMEOUT"}, retryable \in BOOLEAN :
        Failure(code, retryable) \in Outcome /\ Failure(code, retryable).code # "TIMEOUT"
  BY DEF Failure, Success, Outcome, Phases, Codes
<1> QED
  BY <1>1 DEF Normalized, Codes

----------------------------------------------------------------------------
(* A step of one native call *)

\* Where the lock stays as it is, or its holder gives it back.
LockStep(c, n) ==
  \/ testRunActive' = testRunActive /\ (InFlight(c) <=> n.phase \notin {"idle", "over"})
  \/ FreeLock(c) /\ InFlight(c) /\ n.phase = "over"

LEMMA OneCall ==
  ASSUME GateInv, NEW c \in Calls, NEW n \in Call, NEW s \in Server,
         call' = [call EXCEPT ![c] = n], server' = [server EXCEPT ![c] = s],
         Transported(n, s), Upstream(n, s), Told(c, n, s),
         n.phase \in {"authorization", "connect", "operation"} =>
           call[c].phase \in {"authorization", "connect", "operation"} /\ n.deadline = call[c].deadline,
         LockStep(c, n), UNCHANGED <<now, authVars, gateVars>>
  PROVE  GateInv'
<1> USE DEF authVars, gateVars
<1>0. TypeOK /\ HeadersInv /\ NobodyForgotten /\ CallsInv /\ DeadlineInv /\ LockInv /\ VerdictInv
  BY DEF GateInv
<1>1. /\ call' \in [Calls -> Call] /\ server' \in [Calls -> Server]
      /\ call'[c] = n /\ server'[c] = s
      /\ \A d \in Calls : d # c => call'[d] = call[d] /\ server'[d] = server[d]
  BY <1>0 DEF TypeOK, NativeTypeOK
<1>2. TypeOK'
  <2>1. testRunActive' \in BOOLEAN
    BY <1>0 DEF LockStep, FreeLock, TypeOK, NativeTypeOK
  <2>2. \A d \in Calls : Transported(call'[d], server'[d])
    BY <1>0, <1>1 DEF TypeOK, NativeTypeOK, Transported
  <2> QED
    BY <1>0, <1>1, <2>1, <2>2 DEF TypeOK, NativeTypeOK, AuthTypeOK, Transported
<1>3. HeadersInv' /\ NobodyForgotten'
  BY <1>0 DEF HeadersInv, NobodyForgotten, Waiting
<1>4. CallsInv'
  <2> SUFFICES ASSUME NEW d \in Calls PROVE Upstream(call[d], server[d])' /\ Told(d, call[d], server[d])'
    BY DEF CallsInv
  <2>1. CASE d = c
    BY <1>1, <2>1 DEF Upstream, Told
  <2>2. CASE d # c
    BY <1>0, <1>1, <2>2 DEF CallsInv, Upstream, Told
  <2> QED
    BY <2>1, <2>2
<1>5. DeadlineInv'
  BY <1>0, <1>1 DEF DeadlineInv
<1>6. LockInv'
  <2>1. \A d \in Calls : d # c => (InFlight(d)' <=> InFlight(d))
    BY <1>1 DEF InFlight
  <2>2. InFlight(c)' <=> n.phase \notin {"idle", "over"}
    BY <1>1 DEF InFlight
  <2>3. CASE testRunActive' = testRunActive /\ (InFlight(c) <=> n.phase \notin {"idle", "over"})
    <3>1. Holders' = Holders
      BY <2>1, <2>2, <2>3 DEF Holders, RunLocked
    <3> QED
      BY <1>0, <2>3, <3>1 DEF LockInv
  <2>4. CASE FreeLock(c) /\ InFlight(c) /\ n.phase = "over" /\ ~RunLocked(c)
    <3>1. Holders' = Holders
      BY <2>1, <2>4 DEF Holders, RunLocked
    <3>2. testRunActive' = testRunActive
      BY <1>0, <2>4 DEF FreeLock, TypeOK, NativeTypeOK
    <3> QED
      BY <1>0, <3>1, <3>2 DEF LockInv
  <2>5. CASE FreeLock(c) /\ InFlight(c) /\ n.phase = "over" /\ RunLocked(c)
    <3>1. c \in Holders
      BY <2>5 DEF Holders
    <3>2. \A x : x \in Holders' => x \in Holders /\ x # c
      BY <2>1, <2>2, <2>5, GateAssumption DEF Holders, RunLocked
    <3>3. Holders' = {}
      BY <1>0, <3>1, <3>2 DEF LockInv
    <3> QED
      BY <2>5, <3>3 DEF LockInv, FreeLock
  <2> QED
    BY <2>3, <2>4, <2>5 DEF LockStep
<1>7. VerdictInv'
  BY <1>0 DEF VerdictInv, VerdictRecent
<1> QED
  BY <1>2, <1>3, <1>4, <1>5, <1>6, <1>7 DEF GateInv

\* What is known of a call before its step.
LEMMA OneCallTyped ==
  ASSUME GateInv, NEW c \in Calls
  PROVE  /\ call \in [Calls -> Call] /\ server \in [Calls -> Server] /\ testRunActive \in BOOLEAN
         /\ call[c] \in Call /\ server[c] \in Server
         /\ Transported(call[c], server[c]) /\ Upstream(call[c], server[c]) /\ Told(c, call[c], server[c])
BY DEF GateInv, TypeOK, NativeTypeOK, CallsInv, Transported

LEMMA RefuseActiveKept == ASSUME GateInv, NEW c \in Calls, RefuseActive(c), UNCHANGED gateVars PROVE GateInv'
<1> DEFINE n == [call[c] EXCEPT !.phase = "over", !.outcome = Failure("TEST_RUN_ACTIVE", FALSE)]
<1> DEFINE s == server[c]
<1>1. /\ call \in [Calls -> Call] /\ server \in [Calls -> Server] /\ testRunActive \in BOOLEAN
      /\ call[c] \in Call /\ server[c] \in Server
      /\ Transported(call[c], server[c]) /\ Upstream(call[c], server[c]) /\ Told(c, call[c], server[c])
  BY OneCallTyped
<1>2. n \in Call /\ s \in Server
  BY <1>1 DEF RefuseActive, Call, Server, Outcome, Phases, Codes, Failure, Success
<1>3. call' = [call EXCEPT ![c] = n] /\ server' = [server EXCEPT ![c] = s]
  BY <1>1 DEF RefuseActive, Call, Server
<1>4. Transported(n, s) /\ Upstream(n, s) /\ Told(c, n, s)
  BY <1>1 DEF RefuseActive, Transported, Upstream, Told, Failure, Success, RunLocked, Server, Call
<1>5. /\ n.phase \in {"authorization", "connect", "operation"} =>
           call[c].phase \in {"authorization", "connect", "operation"} /\ n.deadline = call[c].deadline
      /\ LockStep(c, n)
  BY <1>1 DEF RefuseActive, LockStep, InFlight, Call
<1>6. UNCHANGED <<now, authVars, gateVars>>
  BY DEF RefuseActive, authVars
<1> HIDE DEF n, s
<1> QED
  BY <1>2, <1>3, <1>4, <1>5, <1>6, OneCall

LEMMA RefuseTargetKept == ASSUME GateInv, NEW c \in Calls, RefuseTarget(c), UNCHANGED gateVars PROVE GateInv'
<1> DEFINE n == [call[c] EXCEPT !.phase = "over", !.outcome = Failure("INVALID_ARGUMENT", FALSE)]
<1> DEFINE s == server[c]
<1>1. /\ call \in [Calls -> Call] /\ server \in [Calls -> Server] /\ testRunActive \in BOOLEAN
      /\ call[c] \in Call /\ server[c] \in Server
      /\ Transported(call[c], server[c]) /\ Upstream(call[c], server[c]) /\ Told(c, call[c], server[c])
  BY OneCallTyped
<1>2. n \in Call /\ s \in Server
  BY <1>1 DEF RefuseTarget, Call, Server, Outcome, Phases, Codes, Failure, Success
<1>3. call' = [call EXCEPT ![c] = n] /\ server' = [server EXCEPT ![c] = s]
  BY <1>1 DEF RefuseTarget, Call, Server
<1>4. Transported(n, s) /\ Upstream(n, s) /\ Told(c, n, s)
  BY <1>1 DEF RefuseTarget, Transported, Upstream, Told, Failure, Success, RunLocked, Server, Call
<1>5. /\ n.phase \in {"authorization", "connect", "operation"} =>
           call[c].phase \in {"authorization", "connect", "operation"} /\ n.deadline = call[c].deadline
      /\ LockStep(c, n)
  BY <1>1 DEF RefuseTarget, LockStep, InFlight, Call
<1>6. UNCHANGED <<now, authVars, gateVars>>
  BY DEF RefuseTarget, authVars
<1> HIDE DEF n, s
<1> QED
  BY <1>2, <1>3, <1>4, <1>5, <1>6, OneCall

LEMMA AuthorizationFailsKept ==
  ASSUME GateInv, NEW c \in Calls, AuthorizationFails(c), UNCHANGED gateVars
  PROVE  GateInv'
<1> DEFINE n == [phase |-> "over", deadline |-> 0, outcome |-> Failure("AUTHENTICATION_FAILED", FALSE)]
<1> DEFINE s == server[c]
<1>1. /\ call \in [Calls -> Call] /\ server \in [Calls -> Server] /\ testRunActive \in BOOLEAN
      /\ call[c] \in Call /\ server[c] \in Server
      /\ Transported(call[c], server[c]) /\ Upstream(call[c], server[c]) /\ Told(c, call[c], server[c])
  BY OneCallTyped
<1>2. n \in Call /\ s \in Server
  BY <1>1 DEF AuthorizationFails, Call, Server, Outcome, Phases, Codes, Failure, Success, Leave, Warned
<1>3. call' = [call EXCEPT ![c] = n] /\ server' = [server EXCEPT ![c] = s]
  BY <1>1 DEF AuthorizationFails, Call, Server, Leave, Warned, Failure, Success
<1>4. Transported(n, s) /\ Upstream(n, s) /\ Told(c, n, s)
  BY <1>1
  DEF AuthorizationFails, Transported, Upstream, Told, Failure, Success, RunLocked, Server, Call, Leave, Warned
<1>5. /\ n.phase \in {"authorization", "connect", "operation"} =>
           call[c].phase \in {"authorization", "connect", "operation"} /\ n.deadline = call[c].deadline
      /\ LockStep(c, n)
  BY <1>1 DEF AuthorizationFails, LockStep, InFlight, Call, Leave, Warned
<1>6. UNCHANGED <<now, authVars, gateVars>>
  BY DEF AuthorizationFails, authVars
<1> HIDE DEF n, s
<1> QED
  BY <1>2, <1>3, <1>4, <1>5, <1>6, OneCall

LEMMA HeadersRejectedKept ==
  ASSUME GateInv, NEW c \in Calls, HeadersRejected(c), UNCHANGED gateVars
  PROVE  GateInv'
<1> DEFINE n == [phase |-> "over", deadline |-> 0, outcome |-> Failure("INVALID_ARGUMENT", FALSE)]
<1> DEFINE s == server[c]
<1>1. /\ call \in [Calls -> Call] /\ server \in [Calls -> Server] /\ testRunActive \in BOOLEAN
      /\ call[c] \in Call /\ server[c] \in Server
      /\ Transported(call[c], server[c]) /\ Upstream(call[c], server[c]) /\ Told(c, call[c], server[c])
  BY OneCallTyped
<1>2. n \in Call /\ s \in Server
  BY <1>1 DEF HeadersRejected, Call, Server, Outcome, Phases, Codes, Failure, Success, Leave, Warned
<1>3. call' = [call EXCEPT ![c] = n] /\ server' = [server EXCEPT ![c] = s]
  BY <1>1 DEF HeadersRejected, Call, Server, Leave, Warned, Failure, Success
<1>4. Transported(n, s) /\ Upstream(n, s) /\ Told(c, n, s)
  BY <1>1
  DEF HeadersRejected, Transported, Upstream, Told, Failure, Success, RunLocked, Server, Call, Leave, Warned
<1>5. /\ n.phase \in {"authorization", "connect", "operation"} =>
           call[c].phase \in {"authorization", "connect", "operation"} /\ n.deadline = call[c].deadline
      /\ LockStep(c, n)
  BY <1>1 DEF HeadersRejected, LockStep, InFlight, Call, Leave, Warned
<1>6. UNCHANGED <<now, authVars, gateVars>>
  BY DEF HeadersRejected, authVars
<1> HIDE DEF n, s
<1> QED
  BY <1>2, <1>3, <1>4, <1>5, <1>6, OneCall

LEMMA AuthorizedKept == ASSUME GateInv, NEW c \in Calls, Authorized(c), UNCHANGED gateVars PROVE GateInv'
<1> DEFINE n == [call[c] EXCEPT !.phase = "connect"]
<1> DEFINE s == [server[c] EXCEPT !.transport = "open"]
<1>1. /\ call \in [Calls -> Call] /\ server \in [Calls -> Server] /\ testRunActive \in BOOLEAN
      /\ call[c] \in Call /\ server[c] \in Server
      /\ Transported(call[c], server[c]) /\ Upstream(call[c], server[c]) /\ Told(c, call[c], server[c])
  BY OneCallTyped
<1>2. n \in Call /\ s \in Server
  BY <1>1 DEF Authorized, Call, Server, Outcome, Phases, Codes, Failure, Success
<1>3. call' = [call EXCEPT ![c] = n] /\ server' = [server EXCEPT ![c] = s]
  BY <1>1 DEF Authorized, Call, Server
<1>4. Transported(n, s) /\ Upstream(n, s) /\ Told(c, n, s)
  BY <1>1 DEF Authorized, Transported, Upstream, Told, Failure, Success, RunLocked, Server, Call
<1>5. /\ n.phase \in {"authorization", "connect", "operation"} =>
           call[c].phase \in {"authorization", "connect", "operation"} /\ n.deadline = call[c].deadline
      /\ LockStep(c, n)
  BY <1>1 DEF Authorized, LockStep, InFlight, Call
<1>6. UNCHANGED <<now, authVars, gateVars>>
  BY DEF Authorized, authVars
<1> HIDE DEF n, s
<1> QED
  BY <1>2, <1>3, <1>4, <1>5, <1>6, OneCall

LEMMA SessionOpensKept == ASSUME GateInv, NEW c \in Calls, SessionOpens(c), UNCHANGED gateVars PROVE GateInv'
<1> DEFINE n == call[c]
<1> DEFINE s == [server[c] EXCEPT !.session = TRUE]
<1>1. /\ call \in [Calls -> Call] /\ server \in [Calls -> Server] /\ testRunActive \in BOOLEAN
      /\ call[c] \in Call /\ server[c] \in Server
      /\ Transported(call[c], server[c]) /\ Upstream(call[c], server[c]) /\ Told(c, call[c], server[c])
  BY OneCallTyped
<1>2. n \in Call /\ s \in Server
  BY <1>1 DEF SessionOpens, Call, Server, Outcome, Phases, Codes, Failure, Success
<1>3. call' = [call EXCEPT ![c] = n] /\ server' = [server EXCEPT ![c] = s]
  BY <1>1 DEF SessionOpens, Call, Server
<1>4. Transported(n, s) /\ Upstream(n, s) /\ Told(c, n, s)
  BY <1>1 DEF SessionOpens, Transported, Upstream, Told, Failure, Success, RunLocked, Server, Call
<1>5. /\ n.phase \in {"authorization", "connect", "operation"} =>
           call[c].phase \in {"authorization", "connect", "operation"} /\ n.deadline = call[c].deadline
      /\ LockStep(c, n)
  BY <1>1 DEF SessionOpens, LockStep, InFlight, Call
<1>6. UNCHANGED <<now, authVars, gateVars>>
  BY DEF SessionOpens, authVars
<1> HIDE DEF n, s
<1> QED
  BY <1>2, <1>3, <1>4, <1>5, <1>6, OneCall

LEMMA SessionKnownKept == ASSUME GateInv, NEW c \in Calls, SessionKnown(c), UNCHANGED gateVars PROVE GateInv'
<1> DEFINE n == call[c]
<1> DEFINE s == [server[c] EXCEPT !.known = TRUE]
<1>1. /\ call \in [Calls -> Call] /\ server \in [Calls -> Server] /\ testRunActive \in BOOLEAN
      /\ call[c] \in Call /\ server[c] \in Server
      /\ Transported(call[c], server[c]) /\ Upstream(call[c], server[c]) /\ Told(c, call[c], server[c])
  BY OneCallTyped
<1>2. n \in Call /\ s \in Server
  BY <1>1 DEF SessionKnown, Call, Server, Outcome, Phases, Codes, Failure, Success
<1>3. call' = [call EXCEPT ![c] = n] /\ server' = [server EXCEPT ![c] = s]
  BY <1>1 DEF SessionKnown, Call, Server
<1>4. Transported(n, s) /\ Upstream(n, s) /\ Told(c, n, s)
  BY <1>1 DEF SessionKnown, Transported, Upstream, Told, Failure, Success, RunLocked, Server, Call
<1>5. /\ n.phase \in {"authorization", "connect", "operation"} =>
           call[c].phase \in {"authorization", "connect", "operation"} /\ n.deadline = call[c].deadline
      /\ LockStep(c, n)
  BY <1>1 DEF SessionKnown, LockStep, InFlight, Call
<1>6. UNCHANGED <<now, authVars, gateVars>>
  BY DEF SessionKnown, authVars
<1> HIDE DEF n, s
<1> QED
  BY <1>2, <1>3, <1>4, <1>5, <1>6, OneCall

LEMMA ConnectedKept == ASSUME GateInv, NEW c \in Calls, Connected(c), UNCHANGED gateVars PROVE GateInv'
<1> DEFINE n == [call[c] EXCEPT !.phase = "operation"]
<1> DEFINE s == [server[c] EXCEPT !.upstream = "running"]
<1>1. /\ call \in [Calls -> Call] /\ server \in [Calls -> Server] /\ testRunActive \in BOOLEAN
      /\ call[c] \in Call /\ server[c] \in Server
      /\ Transported(call[c], server[c]) /\ Upstream(call[c], server[c]) /\ Told(c, call[c], server[c])
  BY OneCallTyped
<1>2. n \in Call /\ s \in Server
  BY <1>1 DEF Connected, Call, Server, Outcome, Phases, Codes, Failure, Success
<1>3. call' = [call EXCEPT ![c] = n] /\ server' = [server EXCEPT ![c] = s]
  BY <1>1 DEF Connected, Call, Server
<1>4. Transported(n, s) /\ Upstream(n, s) /\ Told(c, n, s)
  BY <1>1 DEF Connected, Transported, Upstream, Told, Failure, Success, RunLocked, Server, Call
<1>5. /\ n.phase \in {"authorization", "connect", "operation"} =>
           call[c].phase \in {"authorization", "connect", "operation"} /\ n.deadline = call[c].deadline
      /\ LockStep(c, n)
  BY <1>1 DEF Connected, LockStep, InFlight, Call
<1>6. UNCHANGED <<now, authVars, gateVars>>
  BY DEF Connected, authVars
<1> HIDE DEF n, s
<1> QED
  BY <1>2, <1>3, <1>4, <1>5, <1>6, OneCall

LEMMA UpstreamEndsKept == ASSUME GateInv, NEW c \in Calls, UpstreamEnds(c), UNCHANGED gateVars PROVE GateInv'
<1> DEFINE n == call[c]
<1> DEFINE s == [server[c] EXCEPT !.upstream = "done"]
<1>1. /\ call \in [Calls -> Call] /\ server \in [Calls -> Server] /\ testRunActive \in BOOLEAN
      /\ call[c] \in Call /\ server[c] \in Server
      /\ Transported(call[c], server[c]) /\ Upstream(call[c], server[c]) /\ Told(c, call[c], server[c])
  BY OneCallTyped
<1>2. n \in Call /\ s \in Server
  BY <1>1 DEF UpstreamEnds, Call, Server, Outcome, Phases, Codes, Failure, Success
<1>3. call' = [call EXCEPT ![c] = n] /\ server' = [server EXCEPT ![c] = s]
  BY <1>1 DEF UpstreamEnds, Call, Server
<1>4. Transported(n, s) /\ Upstream(n, s) /\ Told(c, n, s)
  BY <1>1 DEF UpstreamEnds, Transported, Upstream, Told, Failure, Success, RunLocked, Server, Call
<1>5. /\ n.phase \in {"authorization", "connect", "operation"} =>
           call[c].phase \in {"authorization", "connect", "operation"} /\ n.deadline = call[c].deadline
      /\ LockStep(c, n)
  BY <1>1 DEF UpstreamEnds, LockStep, InFlight, Call
<1>6. UNCHANGED <<now, authVars, gateVars>>
  BY DEF UpstreamEnds, authVars
<1> HIDE DEF n, s
<1> QED
  BY <1>2, <1>3, <1>4, <1>5, <1>6, OneCall

LEMMA AnsweredKept == ASSUME GateInv, NEW c \in Calls, Answered(c), UNCHANGED gateVars PROVE GateInv'
<1> DEFINE n == [phase |-> "deleting", deadline |-> 0, outcome |-> Success]
<1> DEFINE s == server[c]
<1>1. /\ call \in [Calls -> Call] /\ server \in [Calls -> Server] /\ testRunActive \in BOOLEAN
      /\ call[c] \in Call /\ server[c] \in Server
      /\ Transported(call[c], server[c]) /\ Upstream(call[c], server[c]) /\ Told(c, call[c], server[c])
  BY OneCallTyped
<1>2. n \in Call /\ s \in Server
  BY <1>1 DEF Answered, Call, Server, Outcome, Phases, Codes, Failure, Success, CleanUp
<1>3. call' = [call EXCEPT ![c] = n] /\ server' = [server EXCEPT ![c] = s]
  BY <1>1 DEF Answered, Call, Server, CleanUp
<1>4. Transported(n, s) /\ Upstream(n, s) /\ Told(c, n, s)
  BY <1>1 DEF Answered, Transported, Upstream, Told, Failure, Success, RunLocked, Server, Call, CleanUp
<1>5. /\ n.phase \in {"authorization", "connect", "operation"} =>
           call[c].phase \in {"authorization", "connect", "operation"} /\ n.deadline = call[c].deadline
      /\ LockStep(c, n)
  BY <1>1 DEF Answered, LockStep, InFlight, Call, CleanUp
<1>6. UNCHANGED <<now, authVars, gateVars>>
  BY DEF Answered, authVars
<1> HIDE DEF n, s
<1> QED
  BY <1>2, <1>3, <1>4, <1>5, <1>6, OneCall

LEMMA RequestFailsKept == ASSUME GateInv, NEW c \in Calls, RequestFails(c), UNCHANGED gateVars PROVE GateInv'
<1>1. PICK fault \in Faults :
        /\ CleanUp(c, Normalized(c, fault))
        /\ Normalized(c, fault) \in Outcome /\ Normalized(c, fault).code # "TIMEOUT"
  BY FaultNormalized DEF RequestFails
<1> DEFINE n == [phase |-> "deleting", deadline |-> 0, outcome |-> Normalized(c, fault)]
<1> DEFINE s == server[c]
<1>2. /\ call \in [Calls -> Call] /\ server \in [Calls -> Server] /\ testRunActive \in BOOLEAN
      /\ call[c] \in Call /\ server[c] \in Server
      /\ Transported(call[c], server[c]) /\ Upstream(call[c], server[c]) /\ Told(c, call[c], server[c])
  BY OneCallTyped
<1>3. n \in Call /\ s \in Server
  BY <1>2, <1>1 DEF RequestFails, Call, Server, Outcome, Phases, Codes, Failure, Success, CleanUp
<1>4. call' = [call EXCEPT ![c] = n] /\ server' = [server EXCEPT ![c] = s]
  BY <1>2, <1>1 DEF RequestFails, Call, Server, CleanUp
<1>5. Transported(n, s) /\ Upstream(n, s) /\ Told(c, n, s)
  BY <1>2, <1>1
  DEF RequestFails, Transported, Upstream, Told, Failure, Success, RunLocked, Server, Call, CleanUp
<1>6. /\ n.phase \in {"authorization", "connect", "operation"} =>
           call[c].phase \in {"authorization", "connect", "operation"} /\ n.deadline = call[c].deadline
      /\ LockStep(c, n)
  BY <1>2, <1>1 DEF RequestFails, LockStep, InFlight, Call, CleanUp
<1>7. UNCHANGED <<now, authVars, gateVars>>
  BY DEF RequestFails, authVars
<1> HIDE DEF n, s
<1> QED
  BY <1>3, <1>4, <1>5, <1>6, <1>7, OneCall

LEMMA TerminateSessionKept ==
  ASSUME GateInv, NEW c \in Calls, TerminateSession(c), UNCHANGED gateVars
  PROVE  GateInv'
<1> DEFINE n == [call[c] EXCEPT !.phase = "closing"]
<1> DEFINE s == [server[c] EXCEPT !.asked = server[c].transport = "open" /\ server[c].known]
<1>1. /\ call \in [Calls -> Call] /\ server \in [Calls -> Server] /\ testRunActive \in BOOLEAN
      /\ call[c] \in Call /\ server[c] \in Server
      /\ Transported(call[c], server[c]) /\ Upstream(call[c], server[c]) /\ Told(c, call[c], server[c])
  BY OneCallTyped
<1>2. n \in Call /\ s \in Server
  BY <1>1 DEF TerminateSession, Call, Server, Outcome, Phases, Codes, Failure, Success
<1>3. call' = [call EXCEPT ![c] = n] /\ server' = [server EXCEPT ![c] = s]
  BY <1>1 DEF TerminateSession, Call, Server
<1>4. Transported(n, s) /\ Upstream(n, s) /\ Told(c, n, s)
  BY <1>1 DEF TerminateSession, Transported, Upstream, Told, Failure, Success, RunLocked, Server, Call
<1>5. /\ n.phase \in {"authorization", "connect", "operation"} =>
           call[c].phase \in {"authorization", "connect", "operation"} /\ n.deadline = call[c].deadline
      /\ LockStep(c, n)
  BY <1>1 DEF TerminateSession, LockStep, InFlight, Call
<1>6. UNCHANGED <<now, authVars, gateVars>>
  BY DEF TerminateSession, authVars
<1> HIDE DEF n, s
<1> QED
  BY <1>2, <1>3, <1>4, <1>5, <1>6, OneCall

LEMMA CloseKept == ASSUME GateInv, NEW c \in Calls, Close(c), UNCHANGED gateVars PROVE GateInv'
<1> DEFINE n == [phase |-> "over", deadline |-> 0, outcome |-> Warned(c, call[c].outcome)]
<1> DEFINE s == [server[c] EXCEPT !.transport = "closed"]
<1>1. /\ call \in [Calls -> Call] /\ server \in [Calls -> Server] /\ testRunActive \in BOOLEAN
      /\ call[c] \in Call /\ server[c] \in Server
      /\ Transported(call[c], server[c]) /\ Upstream(call[c], server[c]) /\ Told(c, call[c], server[c])
  BY OneCallTyped
<1>2. n \in Call /\ s \in Server
  BY <1>1 DEF Close, Call, Server, Outcome, Phases, Codes, Failure, Success, Leave, Warned
<1>3. call' = [call EXCEPT ![c] = n] /\ server' = [server EXCEPT ![c] = s]
  BY <1>1 DEF Close, Call, Server, Leave, Warned
<1>4. Transported(n, s) /\ Upstream(n, s) /\ Told(c, n, s)
  BY <1>1 DEF Close, Transported, Upstream, Told, Failure, Success, RunLocked, Server, Call, Leave, Warned
<1>5. /\ n.phase \in {"authorization", "connect", "operation"} =>
           call[c].phase \in {"authorization", "connect", "operation"} /\ n.deadline = call[c].deadline
      /\ LockStep(c, n)
  BY <1>1 DEF Close, LockStep, InFlight, Call, Leave, Warned
<1>6. UNCHANGED <<now, authVars, gateVars>>
  BY DEF Close, authVars
<1> HIDE DEF n, s
<1> QED
  BY <1>2, <1>3, <1>4, <1>5, <1>6, OneCall

LEMMA TimedOutUnauthorized ==
  ASSUME GateInv, NEW c \in Calls, TimedOut(c), call[c].phase = "authorization", UNCHANGED gateVars
  PROVE  GateInv'
<1> DEFINE n == [phase |-> "over", deadline |-> 0,
                 outcome |-> Warned(c, [Failure("TIMEOUT", TRUE) EXCEPT !.timeoutPhase = call[c].phase])]
<1> DEFINE s == server[c]
<1>1. /\ call \in [Calls -> Call] /\ server \in [Calls -> Server] /\ testRunActive \in BOOLEAN
      /\ call[c] \in Call /\ server[c] \in Server
      /\ Transported(call[c], server[c]) /\ Upstream(call[c], server[c]) /\ Told(c, call[c], server[c])
  BY OneCallTyped
<1>2. n \in Call /\ s \in Server
  BY <1>1 DEF TimedOut, Call, Server, Outcome, Phases, Codes, Failure, Success, Leave, Warned, Abort
<1>3. call' = [call EXCEPT ![c] = n] /\ server' = [server EXCEPT ![c] = s]
  BY <1>1 DEF TimedOut, Call, Server, Leave, Warned, Abort
<1>4. Transported(n, s) /\ Upstream(n, s) /\ Told(c, n, s)
  BY <1>1
  DEF TimedOut, Transported, Upstream, Told, Failure, Success, RunLocked, Server, Call, Leave, Warned, Abort
<1>5. /\ n.phase \in {"authorization", "connect", "operation"} =>
           call[c].phase \in {"authorization", "connect", "operation"} /\ n.deadline = call[c].deadline
      /\ LockStep(c, n)
  BY <1>1 DEF TimedOut, LockStep, InFlight, Call, Leave, Warned, Abort
<1>6. UNCHANGED <<now, authVars, gateVars>>
  BY DEF TimedOut, authVars
<1> HIDE DEF n, s
<1> QED
  BY <1>2, <1>3, <1>4, <1>5, <1>6, OneCall

LEMMA TimedOutConnected ==
  ASSUME GateInv, NEW c \in Calls, TimedOut(c), call[c].phase # "authorization", UNCHANGED gateVars
  PROVE  GateInv'
<1> DEFINE n == [phase |-> "deleting", deadline |-> 0,
                 outcome |-> [Failure("TIMEOUT", TRUE) EXCEPT !.timeoutPhase = call[c].phase]]
<1> DEFINE s == server[c]
<1>1. /\ call \in [Calls -> Call] /\ server \in [Calls -> Server] /\ testRunActive \in BOOLEAN
      /\ call[c] \in Call /\ server[c] \in Server
      /\ Transported(call[c], server[c]) /\ Upstream(call[c], server[c]) /\ Told(c, call[c], server[c])
  BY OneCallTyped
<1>2. n \in Call /\ s \in Server
  BY <1>1 DEF TimedOut, Call, Server, Outcome, Phases, Codes, Failure, Success, CleanUp, Abort
<1>3. call' = [call EXCEPT ![c] = n] /\ server' = [server EXCEPT ![c] = s]
  BY <1>1 DEF TimedOut, Call, Server, CleanUp, Abort
<1>4. Transported(n, s) /\ Upstream(n, s) /\ Told(c, n, s)
  BY <1>1 DEF TimedOut, Transported, Upstream, Told, Failure, Success, RunLocked, Server, Call, CleanUp, Abort
<1>5. /\ n.phase \in {"authorization", "connect", "operation"} =>
           call[c].phase \in {"authorization", "connect", "operation"} /\ n.deadline = call[c].deadline
      /\ LockStep(c, n)
  BY <1>1 DEF TimedOut, LockStep, InFlight, Call, CleanUp, Abort
<1>6. UNCHANGED <<now, authVars, gateVars>>
  BY DEF TimedOut, authVars
<1> HIDE DEF n, s
<1> QED
  BY <1>2, <1>3, <1>4, <1>5, <1>6, OneCall

----------------------------------------------------------------------------
(* Headers *)

LEMMA GotTyped ==
  ASSUME AuthTypeOK, NEW c \in Callers, NEW st \in {"none", "waiting", "resolved", "ok", "failed"},
         NEW exp \in Nat, NEW from \in {"", "fixed", "cache", "cli"}, Got(c, st, exp, from)
  PROVE  /\ header' \in [Callers -> Header]
         /\ header'[c].st = st /\ header'[c].exp = exp /\ header'[c].from = from
         /\ \A d \in Callers : d # c => header'[d] = header[d]
<1> DEFINE new == [st |-> st, exp |-> exp, from |-> from]
<1>1. new \in Header /\ new.st = st /\ new.exp = exp /\ new.from = from
  BY DEF Header
<1>2. header' = [header EXCEPT ![c] = new] /\ header \in [Callers -> Header]
  BY DEF Got, AuthTypeOK
<1> HIDE DEF new
<1> QED
  BY <1>1, <1>2

\* A caller joins or starts the acquisition it waits for, and what the cache hands out lasts longer than
\* any deadline.
LEMMA HeaderGot ==
  ASSUME GateInv, NEW c \in Callers, GetAuthorizationHeader(c), now' = now
  PROVE  /\ AuthTypeOK' /\ HeadersInv' /\ NobodyForgotten'
         /\ \A d \in Callers : d # c => header'[d] = header[d]
         /\ header'[c].from = "cache" => header'[c].exp > now + RefreshWindow
<1>0. AuthTypeOK /\ HeadersInv /\ NobodyForgotten /\ ProviderOf[c] \in Tenants \cup {"basic", "bearer"}
  BY AuthorizationAssumption DEF GateInv, TypeOK
<1>1. CASE FixedHeader(c)
  <2>1. PICK st \in {"ok", "failed"}, exp \in Nat, from \in {"", "fixed"} : Got(c, st, exp, from)
    BY <1>1, AuthorizationAssumption DEF FixedHeader
  <2>2. UNCHANGED <<cached, acquiring>>
    BY <1>1 DEF FixedHeader
  <2>3. /\ header' \in [Callers -> Header]
        /\ header'[c].st \in {"ok", "failed"} /\ header'[c].from # "cache"
        /\ \A d \in Callers : d # c => header'[d] = header[d]
    <3>1. st \in {"none", "waiting", "resolved", "ok", "failed"} /\ from \in {"", "fixed", "cache", "cli"}
      OBVIOUS
    <3>2. /\ header' \in [Callers -> Header]
          /\ header'[c].st = st /\ header'[c].exp = exp /\ header'[c].from = from
          /\ \A d \in Callers : d # c => header'[d] = header[d]
      BY <1>0, <2>1, <3>1, GotTyped, Zenon
    <3> QED
      BY <3>2
  <2>4. AuthTypeOK' /\ HeadersInv'
    BY <1>0, <2>2, <2>3 DEF AuthTypeOK, HeadersInv
  <2>5. NobodyForgotten'
    BY <1>0, <2>2, <2>3 DEF NobodyForgotten, Waiting
  <2> QED
    BY <2>3, <2>4, <2>5
<1>2. CASE CachedHeader(c)
  <2>1. PICK exp \in Nat : Got(c, "ok", exp, "cache") /\ exp > now + RefreshWindow
    BY <1>0, <1>2 DEF CachedHeader, FreshToKeep, AuthTypeOK
  <2>2. UNCHANGED <<cached, acquiring>>
    BY <1>2 DEF CachedHeader
  <2>3. /\ header' \in [Callers -> Header]
        /\ header'[c].st = "ok" /\ header'[c].exp > now + RefreshWindow
        /\ \A d \in Callers : d # c => header'[d] = header[d]
    <3>1. "ok" \in {"none", "waiting", "resolved", "ok", "failed"} /\ "cache" \in {"", "fixed", "cache", "cli"}
      OBVIOUS
    <3>2. /\ header' \in [Callers -> Header]
          /\ header'[c].st = "ok" /\ header'[c].exp = exp
          /\ \A d \in Callers : d # c => header'[d] = header[d]
      BY <1>0, <2>1, <3>1, GotTyped, Zenon
    <3> QED
      BY <2>1, <3>2
  <2> QED
    BY <1>0, <2>2, <2>3 DEF AuthTypeOK, HeadersInv, NobodyForgotten, Waiting
<1>3. CASE AwaitAcquisition(c)
  <2>1. /\ header' \in [Callers -> Header]
        /\ header'[c].st = "waiting" /\ header'[c].from # "cache"
        /\ \A d \in Callers : d # c => header'[d] = header[d]
    <3>1. Got(c, "waiting", 0, "")
      BY <1>3 DEF AwaitAcquisition
    <3>2. "waiting" \in {"none", "waiting", "resolved", "ok", "failed"} /\ "" \in {"", "fixed", "cache", "cli"} /\ 0 \in Nat
      OBVIOUS
    <3>3. /\ header' \in [Callers -> Header]
          /\ header'[c].st = "waiting" /\ header'[c].from = ""
          /\ \A d \in Callers : d # c => header'[d] = header[d]
      BY <1>0, <3>1, <3>2, GotTyped, Zenon
    <3> QED
      BY <3>3
  <2>2. ProviderOf[c] \in Tenants /\ acquiring' = [acquiring EXCEPT ![ProviderOf[c]] = TRUE] /\ cached' = cached
    BY <1>3 DEF AwaitAcquisition
  <2>3. AuthTypeOK' /\ HeadersInv'
    BY <1>0, <2>1, <2>2 DEF AuthTypeOK, HeadersInv
  <2>5. NobodyForgotten'
    <3> SUFFICES ASSUME NEW t \in Tenants, NEW d \in Callers, header'[d].st = "waiting", ProviderOf[d] = t
                 PROVE  acquiring'[t]
      BY DEF NobodyForgotten, Waiting
    <3>1. CASE t = ProviderOf[c]
      BY <1>0, <2>2, <3>1 DEF AuthTypeOK
    <3>2. CASE t # ProviderOf[c]
      BY <1>0, <2>1, <2>2, <3>2 DEF AuthTypeOK, NobodyForgotten, Waiting
    <3> QED
      BY <3>1, <3>2
  <2> QED
    BY <1>0, <2>1, <2>3, <2>5 DEF AuthTypeOK
<1> QED
  BY <1>1, <1>2, <1>3 DEF GetAuthorizationHeader

\* The end of an acquisition, and the store that follows it, concern headers that are waited for, none of
\* which came from the cache.
LEMMA AuthKept == ASSUME GateInv, AuthNext, UNCHANGED <<nativeVars, gateVars>> PROVE GateInv'
<1> USE DEF nativeVars, gateVars
<1>0. AuthTypeOK /\ HeadersInv /\ NobodyForgotten /\ TypeOK /\ CallsInv /\ DeadlineInv /\ LockInv /\ VerdictInv
  BY DEF GateInv, TypeOK
<1>1. CASE \E t \in Tenants : Acquired(t) \/ AcquireFailed(t)
  <2>1. PICK t \in Tenants, st \in {"resolved", "failed"}, exp \in Nat : AcquireEnds(t, st, exp)
    <3>1. now \in Nat /\ Lifetimes \subseteq Nat
      BY <1>0, AuthorizationAssumption DEF AuthTypeOK
    <3> QED
      BY <1>1, <3>1 DEF Acquired, AcquireFailed
  <2>2. PICK new \in Header : new.st = st /\ new.exp = exp /\ new.from # "cache" /\
                              header' = [c \in Callers |-> IF c \in Waiting(t) THEN new ELSE header[c]]
    <3> DEFINE got == [st |-> st, exp |-> exp, from |-> IF st = "failed" THEN "" ELSE "cli"]
    <3>1. got \in Header /\ got.st = st /\ got.exp = exp /\ got.from # "cache"
      BY DEF Header
    <3>2. header' = [c \in Callers |-> IF c \in Waiting(t) THEN got ELSE header[c]]
      BY <2>1 DEF AcquireEnds
    <3> HIDE DEF got
    <3> QED
      BY <3>1, <3>2
  <2>3. now' = now /\ cached' = cached /\ acquiring' = [acquiring EXCEPT ![t] = FALSE]
    BY <2>1 DEF AcquireEnds
  <2>4. AuthTypeOK'
    BY <1>0, <2>2, <2>3 DEF AuthTypeOK
  <2>5. HeadersInv'
    BY <1>0, <2>2 DEF HeadersInv, Waiting
  <2>6. NobodyForgotten'
    BY <1>0, <2>2, <2>3 DEF NobodyForgotten, Waiting, AuthTypeOK
  <2>7. DeadlineInv'
    BY <1>0, <2>2, <2>3, NativeAssumption DEF DeadlineInv
  <2> QED
    BY <1>0, <2>3, <2>4, <2>5, <2>6, <2>7
    DEF GateInv, TypeOK, NativeTypeOK, CallsInv, Upstream, Told, LockInv, Holders, InFlight, RunLocked, VerdictInv, VerdictRecent
<1>2. CASE \E c \in Callers : StoreToken(c)
  <2>1. PICK c \in Callers : StoreToken(c)
    BY <1>2
  <2>2. /\ ProviderOf[c] \in Tenants /\ cached' = [cached EXCEPT ![ProviderOf[c]] = header[c].exp]
        /\ now' = now /\ acquiring' = acquiring
        /\ header' = [header EXCEPT ![c].st = "ok"]
    BY <1>0, <2>1 DEF StoreToken, HeadersInv
  <2>3. /\ header' \in [Callers -> Header] /\ header'[c].st = "ok"
        /\ \A d \in Callers : header'[d].from = header[d].from /\ header'[d].exp = header[d].exp
                              /\ (d # c => header'[d] = header[d])
    BY <1>0, <2>2 DEF AuthTypeOK, Header
  <2>4. AuthTypeOK'
    BY <1>0, <2>2, <2>3 DEF AuthTypeOK, Header
  <2>5. HeadersInv' /\ NobodyForgotten'
    BY <1>0, <2>2, <2>3 DEF HeadersInv, NobodyForgotten, Waiting
  <2>6. DeadlineInv'
    BY <1>0, <2>2, <2>3, NativeAssumption DEF DeadlineInv
  <2> QED
    BY <1>0, <2>2, <2>4, <2>5, <2>6
    DEF GateInv, TypeOK, NativeTypeOK, CallsInv, Upstream, Told, LockInv, Holders, InFlight, RunLocked, VerdictInv, VerdictRecent
<1> QED
  BY <1>1, <1>2 DEF AuthNext

\* A call takes the lock, if it needs it, and its header.
LEMMA UseKept == ASSUME GateInv, NEW c \in Calls, Use(c), UNCHANGED gateVars PROVE GateInv'
<1> USE DEF gateVars
<1>0. TypeOK /\ CallsInv /\ DeadlineInv /\ LockInv /\ VerdictInv
  BY DEF GateInv
<1>1. c \in Callers /\ now \in Nat /\ Timeout[c] \in Nat /\ Timeout[c] <= RefreshWindow /\ RefreshWindow \in Nat
  BY <1>0, NativeAssumption, AuthorizationAssumption DEF TypeOK, AuthTypeOK
<1>2. /\ call[c].phase = "idle" /\ server' = server /\ now' = now /\ GetAuthorizationHeader(c)
      /\ call' = [call EXCEPT ![c].phase = "authorization", ![c].deadline = now + Timeout[c]]
      /\ IF RunLocked(c) THEN Claim ELSE testRunActive' = testRunActive
  BY DEF Use
<1>3. /\ call' \in [Calls -> Call] /\ call'[c].phase = "authorization" /\ call'[c].deadline = now + Timeout[c]
      /\ call'[c].outcome = call[c].outcome
      /\ \A d \in Calls : d # c => call'[d] = call[d]
  <2> DEFINE new == [call[c] EXCEPT !.phase = "authorization", !.deadline = now + Timeout[c]]
  <2>1. call \in [Calls -> Call] /\ now + Timeout[c] \in Nat
    BY <1>0, <1>1 DEF TypeOK, NativeTypeOK
  <2>2. call[c] \in Call
    BY <2>1
  <2>3. /\ new \in Call /\ new.phase = "authorization" /\ new.deadline = now + Timeout[c]
        /\ new.outcome = call[c].outcome
    BY <2>1, <2>2 DEF Call, Phases
  <2>4. call' = [call EXCEPT ![c] = new]
    BY <1>2
  <2> HIDE DEF new
  <2> QED
    BY <2>1, <2>3, <2>4
<1>4. /\ AuthTypeOK' /\ HeadersInv' /\ NobodyForgotten'
      /\ \A d \in Callers : d # c => header'[d] = header[d]
      /\ header'[c].from = "cache" => header'[c].exp > now + RefreshWindow
  BY <1>1, <1>2, HeaderGot
<1>5. TypeOK'
  BY <1>0, <1>2, <1>3, <1>4 DEF TypeOK, NativeTypeOK, Claim
<1>6. CallsInv'
  BY <1>0, <1>2, <1>3 DEF CallsInv, Upstream, Told, RunLocked
<1>7. DeadlineInv'
  <2> SUFFICES ASSUME NEW d \in Calls, call'[d].phase \in {"authorization", "connect", "operation"}
               PROVE  now' <= call'[d].deadline /\ (header'[d].from = "cache" => header'[d].exp > call'[d].deadline)
    BY DEF DeadlineInv
  <2>1. CASE d = c
    <3>1. header'[c].exp \in Nat
      BY <1>1, <1>4 DEF AuthTypeOK, Header
    <3>2. now' <= call'[c].deadline
      BY <1>1, <1>2, <1>3
    <3>3. header'[c].from = "cache" => header'[c].exp > call'[c].deadline
      BY <1>1, <1>3, <1>4, <3>1
    <3> QED
      BY <2>1, <3>2, <3>3
  <2>2. CASE d # c
    BY <1>0, <1>2, <1>3, <1>4, <2>2, NativeAssumption DEF DeadlineInv
  <2> QED
    BY <2>1, <2>2
<1>8. LockInv'
  <2>1. \A d \in Calls : d # c => (InFlight(d)' <=> InFlight(d))
    BY <1>3 DEF InFlight
  <2>2. InFlight(c)' /\ ~InFlight(c)
    BY <1>2, <1>3 DEF InFlight
  <2>3. CASE RunLocked(c)
    <3>1. Holders = {} /\ testRunActive'
      BY <1>0, <1>2, <2>3 DEF LockInv, Claim
    <3>2. Holders' = {c}
      BY <2>1, <2>2, <2>3, <3>1 DEF Holders, RunLocked
    <3> QED
      BY <3>1, <3>2 DEF LockInv
  <2>4. CASE ~RunLocked(c)
    <3>1. Holders' = Holders
      BY <2>1, <2>4 DEF Holders, RunLocked
    <3> QED
      BY <1>0, <1>2, <2>4, <3>1 DEF LockInv
  <2> QED
    BY <2>3, <2>4
<1>9. VerdictInv'
  BY <1>0, <1>2 DEF VerdictInv, VerdictRecent
<1> QED
  BY <1>4, <1>5, <1>6, <1>7, <1>8, <1>9 DEF GateInv

----------------------------------------------------------------------------
(* A step of one gate *)

\* Where the gate holds the lock before its step, or finds it free, and afterwards holds it exactly if it
\* goes on.
LEMMA OneGate ==
  ASSUME GateInv, NEW g \in Gates, NEW n \in Gate,
         gate' = [gate EXCEPT ![g] = n], UNCHANGED <<now, call, server>>,
         AuthTypeOK', HeadersInv', NobodyForgotten', \A c \in Calls : header'[c] = header[c],
         gate[g].phase # "idle" \/ ~testRunActive,
         testRunActive' \in BOOLEAN, testRunActive' <=> n.phase # "idle",
         info' \in Info, info'.kept => info'.expiresAt <= now + TTL,
         n.phase = "running" => n.age < TTL
  PROVE  GateInv'
<1>0. TypeOK /\ CallsInv /\ DeadlineInv /\ LockInv /\ VerdictInv
  BY DEF GateInv
<1>1. /\ gate' \in [Gates -> Gate] /\ gate'[g] = n
      /\ \A h \in Gates : h # g => gate'[h] = gate[h]
  BY <1>0 DEF TypeOK
<1>2. TypeOK'
  BY <1>0, <1>1 DEF TypeOK, NativeTypeOK
<1>3. CallsInv' /\ DeadlineInv'
  BY <1>0 DEF CallsInv, Upstream, Told, DeadlineInv
<1>4. LockInv'
  <2>1. \A x : x \in Holders /\ x # g <=> x \in Holders' /\ x # g
    BY <1>1 DEF Holders, RunLocked, InFlight
  <2>2. g \in Holders' <=> n.phase # "idle"
    BY <1>1, GateAssumption DEF Holders
  <2>3. \A x : x \in Holders => x = g
    <3>1. CASE ~testRunActive
      BY <1>0, <3>1 DEF LockInv
    <3>2. CASE gate[g].phase # "idle"
      <4>1. g \in Holders
        BY <3>2 DEF Holders
      <4> QED
        BY <1>0, <4>1 DEF LockInv
    <3> QED
      BY <3>1, <3>2
  <2>4. \A x : x \in Holders' => x = g
    BY <2>1, <2>3
  <2>5. testRunActive' <=> Holders' # {}
    BY <2>2, <2>4
  <2> QED
    BY <2>4, <2>5 DEF LockInv
<1>5. VerdictInv'
  BY <1>0, <1>1 DEF VerdictInv, VerdictRecent
<1> QED
  BY <1>2, <1>3, <1>4, <1>5 DEF GateInv

\* The header of a gate goes; nobody waits for it any more.
LEMMA Forgotten ==
  ASSUME GateInv, NEW g \in Gates, Forget(g), UNCHANGED <<now, cached, acquiring>>
  PROVE  AuthTypeOK' /\ HeadersInv' /\ NobodyForgotten' /\ \A c \in Calls : header'[c] = header[c]
<1>0. AuthTypeOK /\ HeadersInv /\ NobodyForgotten
  BY DEF GateInv, TypeOK
<1>1. g \in Callers /\ g \notin Calls /\ Calls \subseteq Callers
  BY GateAssumption, NativeAssumption
<1>2. NoHeader \in Header /\ NoHeader.st = "none"
  BY DEF NoHeader, Header
<1>3. /\ header' \in [Callers -> Header] /\ header'[g].st = "none"
      /\ \A c \in Callers : c # g => header'[c] = header[c]
  BY <1>0, <1>1, <1>2 DEF Forget, AuthTypeOK
<1>4. AuthTypeOK' /\ HeadersInv'
  BY <1>0, <1>3 DEF AuthTypeOK, HeadersInv
<1>5. NobodyForgotten'
  BY <1>0, <1>3 DEF NobodyForgotten, Waiting
<1> QED
  BY <1>1, <1>3, <1>4, <1>5

LEMMA HeadersLeftAlone ==
  ASSUME GateInv, UNCHANGED <<now, authVars>>
  PROVE  AuthTypeOK' /\ HeadersInv' /\ NobodyForgotten' /\ \A c \in Calls : header'[c] = header[c]
<1>0. AuthTypeOK /\ HeadersInv /\ NobodyForgotten
  BY DEF GateInv, TypeOK
<1> QED
  BY <1>0 DEF AuthTypeOK, HeadersInv, NobodyForgotten, Waiting, authVars

LEMMA GateFacts ==
  ASSUME GateInv, NEW g \in Gates
  PROVE  /\ gate \in [Gates -> Gate] /\ gate[g] \in Gate /\ info \in Info /\ now \in Nat /\ testRunActive \in BOOLEAN
         /\ info.kept => info.expiresAt <= now + TTL
         /\ gate[g].phase # "idle" => testRunActive
<1>0. TypeOK /\ LockInv /\ VerdictInv
  BY DEF GateInv
<1>1. gate[g].phase # "idle" => g \in Holders
  BY DEF Holders
<1> QED
  BY <1>0, <1>1, AuthorizationAssumption DEF TypeOK, AuthTypeOK, NativeTypeOK, LockInv, VerdictInv

LEMMA GateTyped ==
  /\ \A phase \in {"idle", "authorizing", "requesting", "running"}, age \in Nat :
       LET n == [phase |-> phase, age |-> age] IN n \in Gate /\ n.phase = phase /\ n.age = age
  /\ \A n \in Gate, phase \in {"idle", "authorizing", "requesting", "running"} :
       LET m == [n EXCEPT !.phase = phase] IN m \in Gate /\ m.phase = phase
BY DEF Gate

\* The cached verdict is at most as old as the cache lets it become.
LEMMA GateHitKept == ASSUME GateInv, NEW g \in Gates, GateHit(g) PROVE GateInv'
<1>1. /\ gate \in [Gates -> Gate] /\ info \in Info /\ now \in Nat /\ info.expiresAt <= now + TTL
      /\ info.expiresAt > now /\ TTL \in Nat
  BY GateFacts, GateAssumption DEF GateHit, Known
<1>2. info.supported \in BOOLEAN /\ info.expiresAt \in Nat
  BY <1>1 DEF Info
<1>3. now + TTL - info.expiresAt \in Nat /\ now + TTL - info.expiresAt < TTL
  BY <1>1, <1>2
<1> DEFINE phase == IF info.supported THEN "running" ELSE "idle"
           age == IF info.supported THEN now + TTL - info.expiresAt ELSE 0
           n == [phase |-> phase, age |-> age]
<1>4. n \in Gate /\ n.phase = phase /\ n.age = age
  <2>1. phase \in {"idle", "authorizing", "requesting", "running"} /\ age \in Nat
    BY <1>2, <1>3
  <2> QED
    BY <2>1 DEF Gate
<1>5. /\ gate' = [gate EXCEPT ![g] = n] /\ testRunActive' = info.supported
      /\ ~testRunActive /\ UNCHANGED <<now, authVars, call, server, info>>
  BY DEF GateHit, Verdict
<1>6. AuthTypeOK' /\ HeadersInv' /\ NobodyForgotten' /\ \A c \in Calls : header'[c] = header[c]
  BY <1>5, HeadersLeftAlone
<1>7. testRunActive' <=> n.phase # "idle"
  BY <1>2, <1>4, <1>5
<1>8. n.phase = "running" => n.age < TTL
  BY <1>3, <1>4
<1> HIDE DEF n, phase, age
<1> QED
  BY <1>1, <1>2, <1>4, <1>5, <1>6, <1>7, <1>8, OneGate

\* The gate takes the lock before it asks, and the entry it found is gone.
LEMMA GateMissKept == ASSUME GateInv, NEW g \in Gates, GateMiss(g) PROVE GateInv'
<1>1. gate \in [Gates -> Gate] /\ gate[g] \in Gate
  BY GateFacts
<1> DEFINE n == [gate[g] EXCEPT !.phase = "authorizing"]
<1>2. n \in Gate /\ n.phase = "authorizing"
  BY <1>1 DEF Gate
<1>3. /\ gate' = [gate EXCEPT ![g] = n] /\ ~testRunActive /\ testRunActive' = TRUE /\ info' = NoInfo
      /\ GetAuthorizationHeader(g) /\ UNCHANGED <<now, call, server>>
  BY DEF GateMiss, GoTo, Claim
<1>4. AuthTypeOK' /\ HeadersInv' /\ NobodyForgotten' /\ \A c \in Calls : header'[c] = header[c]
  BY <1>3, HeaderGot, GateAssumption, NativeAssumption
<1>5. NoInfo \in Info /\ ~NoInfo.kept
  BY DEF NoInfo, Info
<1> HIDE DEF n
<1> QED
  BY <1>2, <1>3, <1>4, <1>5, OneGate

\* No entry stays behind a failure, and the lock is free again.
LEMMA GateFailsKept ==
  ASSUME GateInv, NEW g \in Gates, GateFails(g), gate[g].phase # "idle",
         AuthTypeOK', HeadersInv', NobodyForgotten', \A c \in Calls : header'[c] = header[c]
  PROVE  GateInv'
<1>1. gate \in [Gates -> Gate] /\ gate[g] \in Gate
  BY GateFacts
<1> DEFINE n == [gate[g] EXCEPT !.phase = "idle"]
<1>2. n \in Gate /\ n.phase = "idle"
  BY <1>1 DEF Gate
<1>3. /\ gate' = [gate EXCEPT ![g] = n] /\ testRunActive' = FALSE /\ info' = NoInfo
      /\ UNCHANGED <<now, call, server>>
  BY DEF GateFails, GoTo
<1>4. NoInfo \in Info /\ ~NoInfo.kept
  BY DEF NoInfo, Info
<1> HIDE DEF n
<1> QED
  BY <1>2, <1>3, <1>4, OneGate

LEMMA HeaderFailsKept == ASSUME GateInv, NEW g \in Gates, HeaderFails(g) PROVE GateInv'
<1>1. GateFails(g) /\ gate[g].phase # "idle" /\ Forget(g) /\ UNCHANGED <<now, cached, acquiring>>
  BY DEF HeaderFails, GateFails
<1> QED
  BY <1>1, Forgotten, GateFailsKept

LEMMA MetadataFailsKept == ASSUME GateInv, NEW g \in Gates, MetadataFails(g) PROVE GateInv'
<1>1. GateFails(g) /\ gate[g].phase # "idle" /\ UNCHANGED <<now, authVars>>
  BY DEF MetadataFails, GateFails
<1> QED
  BY <1>1, HeadersLeftAlone, GateFailsKept

LEMMA RequestMetadataKept == ASSUME GateInv, NEW g \in Gates, RequestMetadata(g) PROVE GateInv'
<1>1. gate \in [Gates -> Gate] /\ gate[g] \in Gate /\ info \in Info /\ (info.kept => info.expiresAt <= now + TTL)
  BY GateFacts
<1> DEFINE n == [gate[g] EXCEPT !.phase = "requesting"]
<1>2. n \in Gate /\ n.phase = "requesting"
  BY <1>1 DEF Gate
<1>3. /\ gate' = [gate EXCEPT ![g] = n] /\ gate[g].phase = "authorizing" /\ Forget(g)
      /\ UNCHANGED <<now, cached, acquiring, testRunActive, call, server, info>>
  BY DEF RequestMetadata, GoTo, nativeVars
<1>4. AuthTypeOK' /\ HeadersInv' /\ NobodyForgotten' /\ \A c \in Calls : header'[c] = header[c]
  BY <1>3, Forgotten
<1>5. testRunActive
  BY <1>3, GateFacts
<1> HIDE DEF n
<1> QED
  BY <1>1, <1>2, <1>3, <1>4, <1>5, OneGate

\* A verdict that was just given has no age.
LEMMA MetadataAnswersKept == ASSUME GateInv, NEW g \in Gates, MetadataAnswers(g) PROVE GateInv'
<1>1. gate \in [Gates -> Gate] /\ now \in Nat /\ TTL \in Nat \ {0}
  BY GateFacts, GateAssumption
<1>2. PICK supported \in BOOLEAN : /\ info' = [kept |-> TRUE, expiresAt |-> now + TTL, supported |-> supported]
                                   /\ Verdict(g, supported, 0)
  BY DEF MetadataAnswers
<1> DEFINE phase == IF supported THEN "running" ELSE "idle"
           n == [phase |-> phase, age |-> 0]
<1>3. n \in Gate /\ n.phase = phase /\ n.age = 0
  BY DEF Gate
<1>4. /\ gate' = [gate EXCEPT ![g] = n] /\ testRunActive' = supported /\ gate[g].phase # "idle"
      /\ UNCHANGED <<now, authVars, call, server>>
  BY <1>2 DEF MetadataAnswers, Verdict
<1>5. AuthTypeOK' /\ HeadersInv' /\ NobodyForgotten' /\ \A c \in Calls : header'[c] = header[c]
  BY <1>4, HeadersLeftAlone
<1>6. info' \in Info /\ info'.expiresAt <= now + TTL
  BY <1>1, <1>2 DEF Info
<1>7. testRunActive' <=> n.phase # "idle"
  BY <1>3, <1>4
<1>8. n.phase = "running" => n.age < TTL
  BY <1>1, <1>3
<1> HIDE DEF n, phase
<1> QED
  BY <1>3, <1>4, <1>5, <1>6, <1>7, <1>8, OneGate

LEMMA RunEndsKept == ASSUME GateInv, NEW g \in Gates, RunEnds(g) PROVE GateInv'
<1>1. gate \in [Gates -> Gate] /\ info \in Info /\ (info.kept => info.expiresAt <= now + TTL)
  BY GateFacts
<1> DEFINE n == [phase |-> "idle", age |-> 0]
<1>2. n \in Gate /\ n.phase = "idle"
  BY DEF Gate
<1>3. /\ gate' = [gate EXCEPT ![g] = n] /\ testRunActive' = FALSE /\ gate[g].phase # "idle"
      /\ UNCHANGED <<now, authVars, call, server, info>>
  BY DEF RunEnds
<1>4. AuthTypeOK' /\ HeadersInv' /\ NobodyForgotten' /\ \A c \in Calls : header'[c] = header[c]
  BY <1>3, HeadersLeftAlone
<1> HIDE DEF n
<1> QED
  BY <1>1, <1>2, <1>3, <1>4, OneGate

----------------------------------------------------------------------------
(* Every step of calls and gates *)

\* Time goes on only where no deadline is due; the cached verdict expires no later for it.
LEMMA TickKept == ASSUME GateInv, Tick PROVE GateInv'
<1>0. TypeOK /\ HeadersInv /\ NobodyForgotten /\ CallsInv /\ DeadlineInv /\ LockInv /\ VerdictInv
  BY DEF GateInv
<1>1. now \in Nat /\ MaxNow \in Nat /\ now < MaxNow /\ now' = now + 1 /\ TTL \in Nat
  BY <1>0, AuthorizationAssumption, GateAssumption DEF TypeOK, AuthTypeOK, Tick
<1>2. UNCHANGED <<cached, acquiring, header, testRunActive, call, server, info, gate>>
  BY DEF Tick, authVars, nativeVars, gateVars
<1>3. TypeOK'
  BY <1>0, <1>1, <1>2 DEF TypeOK, AuthTypeOK, NativeTypeOK
<1>4. HeadersInv' /\ NobodyForgotten' /\ CallsInv' /\ LockInv'
  BY <1>0, <1>2
  DEF HeadersInv, NobodyForgotten, Waiting, CallsInv, Upstream, Told, LockInv, Holders, RunLocked, InFlight
<1>5. DeadlineInv'
  <2> SUFFICES ASSUME NEW c \in Calls, call[c].phase \in {"authorization", "connect", "operation"}
               PROVE  now + 1 <= call[c].deadline /\ (header[c].from = "cache" => header[c].exp > call[c].deadline)
    BY <1>1, <1>2 DEF DeadlineInv
  <2>1. now < call[c].deadline
    BY DEF Tick, NoCallOverdue
  <2>2. call[c].deadline \in Nat
    BY <1>0 DEF TypeOK, NativeTypeOK, Call
  <2> QED
    BY <1>0, <1>1, <2>1, <2>2 DEF DeadlineInv
<1>6. VerdictInv'
  <2>1. info.expiresAt \in Nat
    BY <1>0 DEF TypeOK, Info
  <2> QED
    BY <1>0, <1>1, <1>2, <2>1 DEF VerdictInv, VerdictRecent
<1> QED
  BY <1>3, <1>4, <1>5, <1>6 DEF GateInv

LEMMA CallKept == ASSUME GateInv, NativeNext, UNCHANGED gateVars PROVE GateInv'
<1>1. PICK c \in Calls : CallNext(c)
  BY DEF NativeNext
<1>2. CASE RefuseActive(c)
  BY <1>2, RefuseActiveKept
<1>3. CASE RefuseTarget(c)
  BY <1>3, RefuseTargetKept
<1>4. CASE Use(c)
  BY <1>4, UseKept
<1>5. CASE AuthorizationFails(c)
  BY <1>5, AuthorizationFailsKept
<1>6. CASE HeadersRejected(c)
  BY <1>6, HeadersRejectedKept
<1>7. CASE Authorized(c)
  BY <1>7, AuthorizedKept
<1>8. CASE SessionOpens(c)
  BY <1>8, SessionOpensKept
<1>9. CASE SessionKnown(c)
  BY <1>9, SessionKnownKept
<1>10. CASE Connected(c)
  BY <1>10, ConnectedKept
<1>11. CASE UpstreamEnds(c)
  BY <1>11, UpstreamEndsKept
<1>12. CASE Answered(c)
  BY <1>12, AnsweredKept
<1>13. CASE RequestFails(c)
  BY <1>13, RequestFailsKept
<1>14. CASE TerminateSession(c)
  BY <1>14, TerminateSessionKept
<1>15. CASE Close(c)
  BY <1>15, CloseKept
<1>16. CASE TimedOut(c)
  BY <1>16, TimedOutUnauthorized, TimedOutConnected
<1> QED
  BY <1>1, <1>2, <1>3, <1>4, <1>5, <1>6, <1>7, <1>8, <1>9, <1>10, <1>11, <1>12, <1>13, <1>14, <1>15, <1>16
  DEF CallNext, CallStep

LEMMA GateKept == ASSUME GateInv, GateNext PROVE GateInv'
<1>1. PICK g \in Gates : \/ GateHit(g) \/ GateMiss(g) \/ HeaderFails(g) \/ RequestMetadata(g)
                         \/ MetadataFails(g) \/ MetadataAnswers(g) \/ RunEnds(g)
  BY DEF GateNext
<1> QED
  BY <1>1, GateHitKept, GateMissKept, HeaderFailsKept, RequestMetadataKept, MetadataFailsKept,
     MetadataAnswersKept,
     RunEndsKept

LEMMA GateStep == GateInv /\ [Next]_vars => GateInv'
<1> SUFFICES ASSUME GateInv, [Next]_vars PROVE GateInv'
  OBVIOUS
<1>1. CASE NativeNext /\ UNCHANGED gateVars
  BY <1>1, CallKept
<1>2. CASE AuthNext /\ UNCHANGED <<nativeVars, gateVars>>
  BY <1>2, AuthKept
<1>3. CASE GateNext
  BY <1>3, GateKept
<1>4. CASE Tick
  BY <1>4, TickKept
<1>5. CASE UNCHANGED vars
  BY <1>5
  DEF vars, authVars, nativeVars, gateVars, GateInv, TypeOK, AuthTypeOK, NativeTypeOK, HeadersInv,
     NobodyForgotten,
     Waiting, CallsInv, Upstream, Told, DeadlineInv, LockInv, Holders, RunLocked, InFlight, VerdictInv, VerdictRecent
<1> QED
  BY <1>1, <1>2, <1>3, <1>4, <1>5 DEF Next

LEMMA GateInvariance == Spec => []GateInv
BY GateInits, GateStep, PTL DEF Spec

----------------------------------------------------------------------------
(* What holds of native calls and the gate *)

\* What was checked earlier is still good where it is used: a header from the cache is valid as long as it
\* may be sent, because a deadline lies within the margin with which the cache hands it out; a run is let
\* through on a verdict younger than the cache's time to live; whoever waits for az waits for one that runs.
THEOREM NothingGoesStale == Spec => []NothingStale
<1>1. GateInv => NothingStale
  <2> SUFFICES ASSUME GateInv PROVE NothingStale
    OBVIOUS
  <2>1. AuthTypeOK /\ NativeTypeOK /\ NobodyForgotten /\ DeadlineInv /\ VerdictInv /\ Calls \subseteq Callers
    BY NativeAssumption DEF GateInv, TypeOK
  <2>2. CachedHeaderOutlivesCall
    <3> SUFFICES ASSUME NEW c \in Calls, header[c].from = "cache", call[c].phase \in {"connect", "operation"}
                 PROVE  header[c].exp > now
      BY DEF CachedHeaderOutlivesCall
    <3>1. now \in Nat /\ call[c].deadline \in Nat /\ header[c].exp \in Nat
      <4>1. now \in Nat
        BY <2>1, AuthorizationAssumption DEF AuthTypeOK
      <4>2. c \in Callers /\ header[c] \in Header /\ call[c] \in Call
        BY <2>1 DEF AuthTypeOK, NativeTypeOK
      <4> QED
        BY <4>1, <4>2 DEF Header, Call
    <3>2. now <= call[c].deadline /\ header[c].exp > call[c].deadline
      BY <2>1 DEF DeadlineInv
    <3> QED
      BY <3>1, <3>2
  <2> QED
    BY <2>1, <2>2 DEF NothingStale, VerdictInv
<1> QED
  BY <1>1, GateInvariance, PTL

\* The test-run lock has one holder or is free, a session a call knew of was asked to end before the call
\* returned, and a timeout says whether a run may still be going on.
THEOREM EverythingAccountedFor == Spec => []NothingLeftBehind
<1>1. GateInv => NothingLeftBehind
  <2> SUFFICES ASSUME GateInv PROVE NothingLeftBehind
    OBVIOUS
  <2>1. TypeOK /\ CallsInv /\ LockInv
    BY DEF GateInv
  <2>2. RunLockExact
    <3>1. CASE Holders = {}
      BY <2>1, <3>1, FS_EmptySet DEF RunLockExact, LockInv
    <3>2. CASE Holders # {}
      <4>1. PICK x : Holders = {x}
        BY <2>1, <3>2 DEF LockInv
      <4>2. Cardinality(Holders) = 1
        BY <4>1, FS_Singleton
      <4> QED
        BY <2>1, <3>2, <4>2 DEF RunLockExact, LockInv
    <3> QED
      BY <3>1, <3>2
  <2>3. SessionsGivenBack /\ TimeoutsTellTheTruth
    BY <2>1 DEF CallsInv, Upstream, Told, SessionsGivenBack, TimeoutsTellTheTruth
  <2> QED
    BY <2>1, <2>2, <2>3 DEF NothingLeftBehind
<1> QED
  BY <1>1, GateInvariance, PTL

----------------------------------------------------------------------------
(* HTTP/1.0: the inductive invariant *)

Outcomes == {"none", "pending", "ok", "aborted", "invalid", "protocol", "network"}

\* The one chunk of the queue, if there is one.
InQueue(s) == IF s.queue = <<>> THEN 0 ELSE s.queue[1]
Bytes(s) == s.taken + InQueue(s)

Whole(s, units) == IF HasLength(s) THEN units = s.response.declared ELSE s.ended
Due(s) == IF HasLength(s) /\ s.response.declared < BodyReceived(s) THEN s.response.declared ELSE BodyReceived(s)

\* The connection, the caller's signal and the promise.
Held(s) ==
  /\ Open(s) <=> s.listening
  /\ Open(s) => ~s.aborted /\ (s.outcome = "pending" \/ s.stream = "open")
  /\ s.stream = "open" => Open(s)

\* At most one chunk is queued, and the socket paused for it.
Flowing(s) ==
  /\ Open(s) => (s.paused <=> s.queue # <<>>)
  /\ Len(s.queue) <= 1
  /\ s.reading => s.queue = <<>> /\ Open(s)

\* Who has which part of the body.
Owned(s) ==
  /\ s.stream \in {"open", "closed", "errored", "cancelled"} => s.outcome = "ok" /\ s.client = "fetch"
  /\ s.stream = "none" => s.queue = <<>> /\ ~s.reading
  /\ s.outcome \in {"none", "pending"} => s.taken = 0
  /\ s.outcome = "none" => s.socket = "none" /\ ~s.paused
  /\ s.outcome = "ok" => s.response.kind \notin {"malformed", "chunked"}
  /\ s.outcome = "ok" /\ s.client = "get" => Whole(s, s.taken)

\* While the body streams, all that came of it was passed on and more is to come; once it is closed, it is whole.
Streamed(s) ==
  /\ s.stream = "open" =>
       /\ Bytes(s) = BodyReceived(s) /\ Bytes(s) <= MaxBody
       /\ HasLength(s) => Bytes(s) < s.response.declared
  /\ s.stream = "closed" =>
       /\ Bytes(s) = Due(s) /\ Due(s) <= MaxBody
       /\ Whole(s, Bytes(s))

Sound(s) == s \in Http /\ Held(s) /\ Flowing(s) /\ Owned(s) /\ Streamed(s)

HttpInv == Sound(http)

----------------------------------------------------------------------------
(* The chunks enqueued and not read: none or one *)

LEMMA NoneQueued == ASSUME NEW s, s.queue = <<>> PROVE Queued(s) = 0
<1> DEFINE S == DOMAIN s.queue
           Sum(f) == [x \in SUBSET S |-> IF x = {} THEN 0 ELSE LET i == CHOOSE j \in x : TRUE IN s.queue[i] + f[x \ {i}]]
           sum == CHOOSE f : f = Sum(f)
           whole == [x \in SUBSET S |-> 0]
<1>1. S = {}
  OBVIOUS
<1>2. Queued(s) = sum[S]
  BY DEF Queued, FoldFunction, FoldFunctionOnSet, MapThenFoldSet
<1>3. whole = Sum(whole)
  BY <1>1
<1>4. sum = Sum(sum)
  <2> HIDE DEF whole, Sum
  <2> QED
    BY <1>3
<1> HIDE DEF sum, S
<1> QED
  BY <1>1, <1>2, <1>4

LEMMA OneQueued == ASSUME NEW s, NEW units \in Nat, s.queue = <<units>> PROVE Queued(s) = units
<1> DEFINE S == DOMAIN s.queue
           Sum(f) == [x \in SUBSET S |-> IF x = {} THEN 0 ELSE LET i == CHOOSE j \in x : TRUE IN s.queue[i] + f[x \ {i}]]
           sum == CHOOSE f : f = Sum(f)
           whole == [x \in SUBSET S |-> IF x = {} THEN 0 ELSE units]
<1>1. S = {1} /\ s.queue[1] = units
  OBVIOUS
<1>2. Queued(s) = sum[S]
  BY DEF Queued, FoldFunction, FoldFunctionOnSet, MapThenFoldSet
<1>3. \A x \in SUBSET S : x = {} \/ x = {1}
  BY <1>1
<1>4. (CHOOSE j \in {1} : TRUE) = 1 /\ {1} \ {1} = {}
  OBVIOUS
<1>5. whole = Sum(whole)
  <2>1. whole[{}] = 0
    OBVIOUS
  <2>2. ASSUME NEW x \in SUBSET S
        PROVE  (IF x = {} THEN 0 ELSE units) =
               (IF x = {} THEN 0 ELSE LET i == CHOOSE j \in x : TRUE IN s.queue[i] + whole[x \ {i}])
    <3>1. CASE x = {}
      BY <3>1
    <3>2. CASE x = {1}
      <4> HIDE DEF whole, S
      <4> QED
        BY <1>1, <1>4, <2>1, <3>2
    <3> QED
      BY <1>3, <3>1, <3>2
  <2> QED
    BY <2>2, Zenon
<1>6. sum = Sum(sum)
  <2> HIDE DEF whole, Sum
  <2> QED
    BY <1>5
<1> HIDE DEF sum
<1>7. sum[{}] = 0
  BY <1>6
<1>8. sum[{1}] = s.queue[1] + sum[{}]
  <2>1. {1} \in SUBSET S /\ {1} # {}
    BY <1>1
  <2>2. sum[{1}] = LET i == CHOOSE j \in {1} : TRUE IN s.queue[i] + sum[{1} \ {i}]
    BY <1>6, <2>1, Zenon
  <2> QED
    BY <1>4, <2>2
<1> QED
  BY <1>1, <1>2, <1>7, <1>8

LEMMA QueueFacts ==
  ASSUME NEW s \in Http, Len(s.queue) <= 1
  PROVE  Queued(s) = InQueue(s) /\ BodyBytes(s) = Bytes(s) /\ InQueue(s) \in Nat
<1>1. s.queue \in Seq(Nat \ {0}) /\ s.taken \in Nat
  BY DEF Http
<1>2. CASE s.queue = <<>>
  BY <1>2, NoneQueued DEF InQueue, BodyBytes, Bytes
<1>3. CASE s.queue # <<>>
  <2> DEFINE units == s.queue[1]
  <2>1. units \in Nat /\ Len(s.queue) = 1
    <3>1. Len(s.queue) \in Nat /\ Len(s.queue) # 0
      BY <1>1, <1>3
    <3>2. \A n \in Nat : n # 0 /\ n <= 1 => n = 1
      OBVIOUS
    <3>3. Len(s.queue) = 1
      BY <3>1, <3>2
    <3> QED
      BY <1>1, <3>3
  <2>2. s.queue = <<units>>
    BY <1>1, <2>1
  <2> HIDE DEF units
  <2>3. Queued(s) = units
    BY <2>1, <2>2, OneQueued
  <2> QED
    BY <1>1, <1>3, <2>1, <2>2, <2>3 DEF InQueue, BodyBytes, Bytes
<1> QED
  BY <1>2, <1>3

\* The sizes of a response are counted in natural numbers.
LEMMA Sizes ==
  ASSUME NEW s \in Http
  PROVE  /\ BodyStart(s) \in Nat /\ HeadEnd(s) \in Nat /\ s.received \in Nat /\ BodyReceived(s) \in Int
         /\ HeadersComplete(s) => BodyReceived(s) \in Nat
         /\ s.response.declared \in Int /\ s.response.kind \in Kinds
         /\ HasLength(s) => s.response.declared \in Nat
         /\ ~HasLength(s) => s.response.declared \in {NoLength, BadLength}
<1>1. s.response \in Response /\ s.received \in Nat
  BY Http10Assumption DEF Http
<1>2. s.response.interims \in Nat /\ s.response.head \in Nat /\ s.response.kind \in Kinds
      /\ s.response.declared \in {NoLength, BadLength} \cup Nat
  BY <1>1 DEF Response
<1>3. HeadEnd(s) \in Nat
  BY <1>2 DEF HeadEnd, InterimSize, Terminator
<1>4. BodyStart(s) \in Nat
  BY <1>3 DEF BodyStart, Terminator
<1> QED
  BY <1>1, <1>2, <1>3, <1>4 DEF BodyReceived, HeadersComplete, HasLength, NoLength, BadLength

----------------------------------------------------------------------------
(* The ends *)

LEMMA GivenBack ==
  ASSUME NEW s \in Http
  PROVE  GiveBack(s) \in Http /\ ~Open(GiveBack(s)) /\ ~GiveBack(s).listening
BY DEF GiveBack, Http, Open

\* A request that ends before there is a stream.
LEMMA Finished ==
  ASSUME NEW s \in Http, s.stream = "none", s.queue = <<>>, ~s.reading,
         NEW outcome \in Outcomes \ {"none", "pending"},
         outcome = "ok" => /\ s.response.kind \notin {"malformed", "chunked"}
                           /\ s.client = "get" => Whole(s, s.taken)
  PROVE  Sound(Finish(s, outcome))
<1> DEFINE t == Finish(s, outcome)
<1>1. /\ t \in Http /\ t.outcome = outcome /\ t.socket = "destroyed" /\ ~t.listening
      /\ t.stream = s.stream /\ t.queue = s.queue /\ t.reading = s.reading /\ t.client = s.client
      /\ t.response = s.response /\ t.ended = s.ended /\ t.taken = s.taken
  BY DEF Finish, GiveBack, Http, Outcomes
<1>2. Whole(s, s.taken) => Whole(t, t.taken)
  BY <1>1 DEF Whole, HasLength
<1> HIDE DEF t
<1>3. Held(t) /\ Flowing(t)
  BY <1>1 DEF Held, Flowing, Open
<1>4. Owned(t) /\ Streamed(t)
  BY <1>1, <1>2 DEF Owned, Streamed, Outcomes
<1> QED
  BY <1>1, <1>3, <1>4 DEF Sound, t

\* A request that fails, before its headers or in its stream.
LEMMA Failed ==
  ASSUME NEW s \in Http, NEW outcome \in Outcomes \ {"none", "pending", "ok"},
         \/ s.outcome = "pending" /\ s.stream = "none" /\ s.queue = <<>> /\ ~s.reading
         \/ s.outcome = "ok" /\ s.client = "fetch" /\ s.response.kind \notin {"malformed", "chunked"}
  PROVE  Sound(Fail(s, outcome))
<1>1. CASE s.outcome = "pending"
  BY <1>1, Finished DEF Fail
<1>2. CASE s.outcome # "pending"
  <2> DEFINE t == Fail(s, outcome)
  <2>1. /\ t \in Http /\ t.outcome = "ok" /\ t.socket = "destroyed" /\ ~t.listening
        /\ t.stream = "errored" /\ t.queue = <<>> /\ ~t.reading /\ t.client = "fetch"
        /\ t.response = s.response
    <3>1. t = [s EXCEPT !.socket = "destroyed", !.listening = FALSE, !.stream = "errored", !.queue = <<>>, !.reading = FALSE]
      BY <1>2 DEF Fail, GiveBack, Http
    <3> HIDE DEF t
    <3>2. <<>> \in Seq(Nat \ {0})
      OBVIOUS
    <3>3. s.outcome = "ok" /\ s.client = "fetch"
      BY <1>2
    <3> QED
      BY <3>1, <3>2, <3>3 DEF Http
  <2> HIDE DEF t
  <2>2. Held(t) /\ Flowing(t)
    BY <2>1 DEF Held, Flowing, Open
  <2>3. Owned(t) /\ Streamed(t)
    BY <1>2, <2>1 DEF Owned, Streamed
  <2> QED
    BY <2>1, <2>2, <2>3 DEF Sound, t
<1> QED
  BY <1>1, <1>2

\* A stream that ends with the whole body.
LEMMA BodyFinished ==
  ASSUME NEW s \in Http, s.outcome = "ok", s.client = "fetch", s.response.kind \notin {"malformed", "chunked"},
         Len(s.queue) <= 1, Bytes(s) = Due(s), Due(s) <= MaxBody, Whole(s, Bytes(s))
  PROVE  Sound(FinishBody(s))
<1> DEFINE t == FinishBody(s)
<1>1. /\ t \in Http /\ t.outcome = "ok" /\ t.socket = "destroyed" /\ ~t.listening
      /\ t.stream = "closed" /\ t.queue = s.queue /\ ~t.reading /\ t.client = "fetch"
      /\ t.response = s.response /\ t.ended = s.ended /\ t.taken = s.taken /\ t.received = s.received
  BY DEF FinishBody, GiveBack, Http
<1>2. Bytes(t) = Bytes(s) /\ Due(t) = Due(s) /\ (Whole(s, Bytes(s)) => Whole(t, Bytes(t)))
  BY <1>1 DEF Bytes, InQueue, Due, Whole, HasLength, BodyReceived, BodyStart, HeadEnd
<1> HIDE DEF t
<1>3. Held(t) /\ Flowing(t)
  BY <1>1 DEF Held, Flowing, Open
<1>4. Owned(t) /\ Streamed(t)
  BY <1>1, <1>2 DEF Owned, Streamed
<1> QED
  BY <1>1, <1>3, <1>4 DEF Sound, t

----------------------------------------------------------------------------
(* Chunks *)

\* A chunk goes to the waiting reader or into the empty queue.
LEMMA Enqueued ==
  ASSUME NEW s \in Http, ~s.paused, s.queue = <<>>, NEW units \in Nat \ {0}
  PROVE  LET t == Enqueue(s, units) IN
         /\ t \in Http /\ Bytes(t) = Bytes(s) + units /\ Len(t.queue) <= 1
         /\ t.paused <=> t.queue # <<>>
         /\ ~t.reading
         /\ t.client = s.client /\ t.outcome = s.outcome /\ t.response = s.response /\ t.socket = s.socket
         /\ t.received = s.received /\ t.ended = s.ended /\ t.listening = s.listening /\ t.aborted = s.aborted
         /\ t.stream = s.stream
<1> DEFINE t == Enqueue(s, units)
<1>1. CASE s.reading
  <2>1. t = [s EXCEPT !.taken = s.taken + units, !.reading = FALSE]
    BY <1>1 DEF Enqueue
  <2>2. s.taken + units \in Nat
    BY DEF Http
  <2> HIDE DEF t
  <2>3. t \in Http /\ t.taken = s.taken + units /\ t.queue = s.queue
    BY <2>1, <2>2 DEF Http
  <2>4. Bytes(t) = Bytes(s) + units
    BY <2>2, <2>3 DEF Bytes, InQueue, Http
  <2> QED
    BY <2>1, <2>3, <2>4 DEF Http, t
<1>2. CASE ~s.reading
  <2>1. t = [s EXCEPT !.queue = <<units>>, !.paused = TRUE]
    <3>1. Append(s.queue, units) = <<units>> /\ Len(s.queue) + 1 >= HighWater
      BY DEF HighWater
    <3> QED
      BY <1>2, <3>1 DEF Enqueue
  <2>2. <<units>> \in Seq(Nat \ {0}) /\ Len(<<units>>) = 1 /\ <<units>>[1] = units /\ <<units>> # <<>>
    OBVIOUS
  <2> HIDE DEF t
  <2>3. t \in Http /\ t.queue = <<units>> /\ t.taken = s.taken
    BY <2>1, <2>2 DEF Http
  <2>4. Bytes(t) = Bytes(s) + units
    BY <2>2, <2>3 DEF Bytes, InQueue, Http
  <2> QED
    BY <1>2, <2>1, <2>2, <2>3, <2>4 DEF Http, t
<1> QED
  BY <1>1, <1>2

\* What is in the stream's state before the body goes on with a segment.
Streaming(s, units) ==
  /\ s \in Http /\ s.outcome = "ok" /\ s.client = "fetch" /\ s.response.kind \notin {"malformed", "chunked"}
  /\ s.stream = "open" /\ Open(s) /\ s.listening /\ ~s.aborted
  /\ ~s.paused /\ s.queue = <<>>
  /\ Bytes(s) + units = BodyReceived(s) /\ Bytes(s) <= MaxBody
  /\ HasLength(s) => Bytes(s) < s.response.declared

LEMMA BodyPushed == ASSUME NEW s, NEW units \in Nat, Streaming(s, units) PROVE Sound(PushBody(s, units))
<1> DEFINE take == IF HasLength(s) /\ units > Remaining(s) THEN Remaining(s) ELSE units
           pushed == Enqueue(s, take)
<1>0. /\ s \in Http /\ s.outcome = "ok" /\ s.client = "fetch" /\ s.response.kind \notin {"malformed", "chunked"}
      /\ s.stream = "open" /\ Open(s) /\ s.listening /\ ~s.aborted /\ ~s.paused /\ s.queue = <<>>
      /\ Bytes(s) + units = BodyReceived(s) /\ Bytes(s) <= MaxBody
      /\ HasLength(s) => Bytes(s) < s.response.declared
  BY DEF Streaming
<1>1. /\ Bytes(s) \in Nat /\ BodyBytes(s) = Bytes(s) /\ s.response.declared \in Int /\ MaxBody \in Nat
      /\ Remaining(s) = s.response.declared - Bytes(s)
  <2>1. s.taken \in Nat /\ Len(s.queue) <= 1
    BY <1>0 DEF Http
  <2>2. InQueue(s) \in Nat /\ BodyBytes(s) = Bytes(s)
    BY <1>0, <2>1, QueueFacts
  <2>3. s.response.declared \in Int
    BY <1>0, Sizes
  <2> QED
    BY <2>1, <2>2, <2>3, Http10Assumption DEF Bytes, Remaining
<1>2. CASE units = 0
  <2>1. PushBody(s, units) = s
    BY <1>2 DEF PushBody
  <2>2. Held(s) /\ Flowing(s) /\ Owned(s) /\ Streamed(s)
    BY <1>0, <1>1, <1>2 DEF Held, Flowing, Owned, Streamed, Http
  <2> QED
    BY <1>0, <2>1, <2>2 DEF Sound
<1>3. CASE units # 0
  <2>1. /\ take \in Nat \ {0} /\ take <= units
        /\ HasLength(s) => /\ Bytes(s) + take <= s.response.declared
                           /\ take # units => Bytes(s) + take = s.response.declared
        /\ ~HasLength(s) => take = units
    BY <1>0, <1>1, <1>3
  <2> HIDE DEF take
  <2>2. /\ pushed \in Http /\ Bytes(pushed) = Bytes(s) + take /\ Len(pushed.queue) <= 1
        /\ pushed.paused <=> pushed.queue # <<>>
        /\ ~pushed.reading
        /\ pushed.client = s.client /\ pushed.outcome = s.outcome /\ pushed.response = s.response /\ pushed.socket = s.socket
        /\ pushed.received = s.received /\ pushed.ended = s.ended /\ pushed.listening = s.listening
        /\ pushed.aborted = s.aborted /\ pushed.stream = s.stream
    BY <1>0, <2>1, Enqueued
  <2> HIDE DEF pushed
  <2>3. CASE BodyBytes(s) + take > MaxBody
    <3>1. PushBody(s, units) = Fail(s, "protocol")
      BY <1>3, <2>3 DEF PushBody, take, pushed
    <3> QED
      BY <1>0, <3>1, Failed DEF Outcomes
  <2>4. CASE ~(BodyBytes(s) + take > MaxBody) /\ HasLength(s) /\ Remaining(s) = take
    <3>1. PushBody(s, units) = FinishBody(pushed)
      BY <1>3, <2>4 DEF PushBody, take, pushed
    <3>2. HasLength(pushed) /\ BodyReceived(pushed) = BodyReceived(s) /\ pushed.response.declared = Bytes(pushed)
      BY <1>1, <2>1, <2>2, <2>4 DEF HasLength, BodyReceived, BodyStart, HeadEnd
    <3>3. Bytes(pushed) = Due(pushed) /\ Due(pushed) <= MaxBody /\ Whole(pushed, Bytes(pushed))
      BY <1>0, <1>1, <2>1, <2>2, <2>4, <3>2 DEF Due, Whole
    <3> QED
      BY <1>0, <2>2, <3>1, <3>3, BodyFinished
  <2>5. CASE ~(BodyBytes(s) + take > MaxBody) /\ ~(HasLength(s) /\ Remaining(s) = take)
    <3>1. PushBody(s, units) = pushed
      BY <1>3, <2>5 DEF PushBody, take, pushed
    <3>2. HasLength(pushed) = HasLength(s) /\ BodyReceived(pushed) = BodyReceived(s)
      BY <2>2 DEF HasLength, BodyReceived, BodyStart, HeadEnd
    <3>3. take = units
      BY <1>1, <2>1, <2>5
    <3>4. Held(pushed) /\ Flowing(pushed)
      BY <1>0, <2>2 DEF Held, Flowing, Open
    <3>5. Owned(pushed)
      BY <1>0, <2>2 DEF Owned
    <3>6. Streamed(pushed)
      BY <1>0, <1>1, <2>1, <2>2, <2>5, <3>2, <3>3 DEF Streamed
    <3> QED
      BY <2>2, <3>1, <3>4, <3>5, <3>6 DEF Sound
  <2> QED
    BY <2>3, <2>4, <2>5
<1> QED
  BY <1>2, <1>3

----------------------------------------------------------------------------
(* Data and the end of it *)

\* The head is complete: what lies beyond it is the beginning of the body.
LEMMA HeadersJudged ==
  ASSUME NEW s \in Http, Held(s), Flowing(s), Owned(s), Streamed(s),
         s.client = "fetch", s.outcome = "pending", Open(s), ~s.paused
  PROVE  Sound(OnHeaders(s))
<1> DEFINE opened == [s EXCEPT !.outcome = "ok", !.stream = "open"]
<1>0. s.stream = "none" /\ s.queue = <<>> /\ ~s.reading /\ s.taken = 0 /\ s.listening /\ ~s.aborted
  BY DEF Held, Owned, Http
<1>1. /\ opened \in Http /\ opened.outcome = "ok" /\ opened.client = "fetch" /\ opened.response = s.response
      /\ opened.stream = "open" /\ Open(opened) /\ opened.listening /\ ~opened.aborted /\ ~opened.paused
      /\ opened.queue = <<>> /\ opened.taken = 0 /\ opened.received = s.received
  BY <1>0 DEF Http, Open
<1> HIDE DEF opened
<1>2. BodyReceived(opened) = BodyReceived(s) /\ HasLength(opened) = HasLength(s) /\ Bytes(opened) = 0
  BY <1>1 DEF BodyReceived, BodyStart, HeadEnd, HasLength, Bytes, InQueue
<1>3. /\ s.response.declared \in Int /\ (HeadersComplete(s) => BodyReceived(s) \in Nat)
      /\ MaxHeader \in Nat /\ MaxBody \in Nat /\ s.received \in Nat /\ HeadEnd(s) \in Nat
      /\ s.response.kind \in Kinds
  BY Sizes, Http10Assumption
<1>4. CASE ~HeadersComplete(s) /\ s.received <= MaxHeader
  BY <1>4 DEF OnHeaders, Sound
<1> DEFINE long == (IF HeadersComplete(s) THEN HeadEnd(s) ELSE s.received) > MaxHeader
           bad == s.response.kind \in {"malformed", "switch", "chunked"} \/ s.response.declared = BadLength
<1>5. CASE ~(~HeadersComplete(s) /\ s.received <= MaxHeader) /\ (long \/ bad)
  <2>1. OnHeaders(s) = Fail(s, "protocol")
    BY <1>5 DEF OnHeaders
  <2> QED
    BY <1>0, <2>1, Failed DEF Outcomes
<1>6. CASE HeadersComplete(s) /\ ~long /\ ~bad
  <2>1. s.response.kind \notin {"malformed", "chunked"}
    BY <1>6
  <2>2. CASE s.response.kind = "bodyless"
    <3>1. OnHeaders(s) = Finish(s, "ok")
      BY <1>6, <2>2 DEF OnHeaders
    <3> QED
      BY <1>0, <2>1, <3>1, Finished DEF Outcomes
  <2>3. CASE s.response.kind # "bodyless" /\ s.response.declared = 0
    <3>1. OnHeaders(s) = FinishBody(opened)
      BY <1>6, <2>3 DEF OnHeaders, opened
    <3>2. Bytes(opened) = Due(opened) /\ Due(opened) <= MaxBody /\ Whole(opened, Bytes(opened))
      BY <1>1, <1>2, <1>3, <1>6, <2>3 DEF Due, Whole, HasLength
    <3>3. Len(opened.queue) <= 1
      BY <1>1
    <3> QED
      BY <1>1, <2>1, <3>1, <3>2, <3>3, BodyFinished
  <2>4. CASE s.response.kind # "bodyless" /\ s.response.declared # 0
    <3>1. OnHeaders(s) = PushBody(opened, BodyReceived(s))
      BY <1>6, <2>4 DEF OnHeaders, opened
    <3>2. Streaming(opened, BodyReceived(s))
      BY <1>1, <1>2, <1>3, <1>6, <2>1, <2>4 DEF Streaming, HasLength
    <3> QED
      BY <1>3, <1>6, <3>1, <3>2, BodyPushed
  <2> QED
    BY <2>2, <2>3, <2>4
<1>7. HeadersComplete(s) \/ long \/ (~HeadersComplete(s) /\ s.received <= MaxHeader)
  BY <1>3
<1> QED
  BY <1>4, <1>5, <1>6, <1>7

\* get's parser compares the declared length with what arrived.
LEMMA ResponseParsed ==
  ASSUME NEW s \in Http, s.stream = "none", s.queue = <<>>, ~s.reading,
         HasLength(s) \/ s.ended
  PROVE  Sound(FinishParsed(s))
<1>1. CASE ~Parsed(s)
  BY <1>1, Finished DEF FinishParsed, Outcomes
<1>2. CASE Parsed(s)
  <2> DEFINE t == FinishParsed(s)
  <2>1. BodyReceived(s) \in Nat /\ s.response.kind \notin {"malformed", "chunked"}
    BY <1>2, Sizes DEF Parsed
  <2>2. t = [s EXCEPT !.socket = "destroyed", !.listening = FALSE, !.outcome = "ok", !.taken = BodyReceived(s)]
    BY <1>2 DEF FinishParsed, Finish, GiveBack, Http
  <2> HIDE DEF t
  <2>3. /\ t \in Http /\ t.outcome = "ok" /\ t.socket = "destroyed" /\ ~t.listening
        /\ t.stream = "none" /\ t.queue = <<>> /\ ~t.reading
        /\ t.response = s.response /\ t.ended = s.ended /\ t.taken = BodyReceived(s)
    BY <2>1, <2>2 DEF Http
  <2>4. Whole(t, t.taken)
    BY <1>2, <2>3 DEF Whole, HasLength, Parsed, NoLength
  <2>5. Held(t) /\ Flowing(t)
    BY <2>3 DEF Held, Flowing, Open
  <2>6. Owned(t) /\ Streamed(t)
    BY <2>1, <2>3, <2>4 DEF Owned, Streamed
  <2> QED
    BY <2>3, <2>5, <2>6 DEF Sound, t
<1> QED
  BY <1>1, <1>2

\* A segment arrives.
LEMMA DataKept == ASSUME Sound(http), DataArrives PROVE Sound(http')
<1>1. PICK units \in 1..(BodyStart(http) + http.response.body - http.received) :
        http' = LET s == [http EXCEPT !.received = @ + units] IN IF s.client = "get" THEN GetData(s) ELSE FetchData(s, units)
  BY DEF DataArrives
<1> DEFINE s == [http EXCEPT !.received = @ + units]
<1>2. http \in Http /\ http.socket = "connected" /\ ~http.paused /\ http.received \in Nat /\ units \in Nat \ {0}
      /\ Held(http) /\ Flowing(http) /\ Owned(http) /\ Streamed(http)
  <2>1. BodyStart(http) + http.response.body - http.received \in Int
    <3>1. http.response.body \in Nat
      BY Http10Assumption DEF Sound, Http, Response
    <3> QED
      BY <3>1, Sizes DEF Sound
  <2> QED
    BY <2>1 DEF Sound, DataArrives, Http
<1>3. /\ s \in Http /\ s.received = http.received + units
      /\ s.client = http.client /\ s.outcome = http.outcome /\ s.response = http.response /\ s.socket = "connected"
      /\ ~s.paused /\ s.ended = http.ended /\ s.listening = http.listening /\ s.aborted = http.aborted
      /\ s.stream = http.stream /\ s.queue = http.queue /\ s.reading = http.reading /\ s.taken = http.taken
  <2>1. http.received + units \in Nat
    BY <1>2
  <2>2. s = [http EXCEPT !.received = http.received + units]
    OBVIOUS
  <2> HIDE DEF s
  <2> QED
    BY <1>2, <2>1, <2>2 DEF Http
<1>4. http' = IF s.client = "get" THEN GetData(s) ELSE FetchData(s, units)
  BY <1>1
<1> HIDE DEF s
<1>5. Open(http) /\ Open(s) /\ Held(s) /\ Flowing(s)
  BY <1>2, <1>3 DEF Open, Held, Flowing
<1>6. CASE s.client = "get"
  <2>1. s.outcome = "pending" /\ s.stream = "none" /\ s.queue = <<>> /\ ~s.reading
    BY <1>2, <1>3, <1>5, <1>6 DEF Held, Owned, Http
  <2>2. Owned(s) /\ Streamed(s)
    BY <1>2, <1>3, <2>1 DEF Owned, Streamed
  <2>3. Sound(s)
    BY <1>3, <1>5, <2>2 DEF Sound
  <2>4. Sound(Finish(s, "protocol"))
    BY <1>3, <2>1, Finished DEF Outcomes
  <2>5. HasLength(s) => Sound(FinishParsed(s))
    BY <1>3, <2>1, ResponseParsed
  <2> QED
    BY <1>4, <1>6, <2>3, <2>4, <2>5 DEF GetData
<1>7. CASE s.client # "get" /\ s.outcome = "pending"
  <2>1. s.client = "fetch" /\ Owned(s) /\ Streamed(s)
    BY <1>2, <1>3, <1>7 DEF Owned, Streamed, Http
  <2> QED
    BY <1>3, <1>4, <1>5, <1>7, <2>1, HeadersJudged DEF FetchData
<1>8. CASE s.client # "get" /\ s.outcome # "pending"
  <2>1. s.client = "fetch" /\ s.stream = "open" /\ s.outcome = "ok" /\ s.queue = <<>> /\ s.listening /\ ~s.aborted
        /\ s.response.kind \notin {"malformed", "chunked"}
    BY <1>2, <1>3, <1>5, <1>8 DEF Held, Flowing, Owned, Http
  <2>2. /\ Bytes(s) = Bytes(http) /\ BodyReceived(s) = BodyReceived(http) + units /\ HasLength(s) = HasLength(http)
        /\ BodyReceived(http) \in Int
    <3>1. BodyStart(s) = BodyStart(http) /\ BodyStart(http) \in Nat
      BY <1>2, <1>3, Sizes DEF BodyStart, HeadEnd
    <3> QED
      BY <1>2, <1>3, <3>1 DEF Bytes, InQueue, BodyReceived, HasLength
  <2>3. Streaming(s, units)
    BY <1>2, <1>3, <1>5, <2>1, <2>2 DEF Streaming, Streamed
  <2> QED
    BY <1>2, <1>4, <1>8, <2>3, BodyPushed DEF FetchData
<1> QED
  BY <1>6, <1>7, <1>8

\* Business Central closes: a body without a length is whole then, one with a length is not.
LEMMA EndKept == ASSUME Sound(http), EndArrives PROVE Sound(http')
<1> DEFINE s == [http EXCEPT !.ended = TRUE]
<1>1. http \in Http /\ http.socket = "connected" /\ ~http.paused
      /\ Held(http) /\ Flowing(http) /\ Owned(http) /\ Streamed(http)
  BY DEF Sound, EndArrives
<1>2. /\ s \in Http /\ s.ended /\ s.received = http.received
      /\ s.client = http.client /\ s.outcome = http.outcome /\ s.response = http.response /\ s.socket = "connected"
      /\ s.stream = http.stream /\ s.queue = http.queue /\ s.reading = http.reading /\ s.taken = http.taken
  BY <1>1 DEF Http
<1>3. http' = IF s.client = "get" THEN FinishParsed(s) ELSE FetchEnd(s)
  BY DEF EndArrives
<1> HIDE DEF s
<1>4. Open(http)
  BY <1>1 DEF Open
<1>5. CASE s.client = "get"
  <2>1. s.stream = "none" /\ s.queue = <<>> /\ ~s.reading
    BY <1>1, <1>2, <1>4, <1>5 DEF Owned, Http
  <2> QED
    BY <1>2, <1>3, <1>5, <2>1, ResponseParsed
<1>6. CASE s.client # "get" /\ s.outcome = "pending"
  <2>1. s.stream = "none" /\ s.queue = <<>> /\ ~s.reading
    BY <1>1, <1>2, <1>6 DEF Owned, Http
  <2>2. Sound(Fail(s, "protocol"))
    BY <1>2, <1>6, <2>1, Failed DEF Outcomes
  <2> QED
    BY <1>3, <1>6, <2>2 DEF FetchEnd
<1>7. CASE s.client # "get" /\ s.outcome # "pending"
  <2>1. s.client = "fetch" /\ s.stream = "open" /\ s.outcome = "ok" /\ s.response.kind \notin {"malformed", "chunked"}
        /\ Len(s.queue) <= 1
    BY <1>1, <1>2, <1>4, <1>7 DEF Held, Flowing, Owned, Http
  <2>2. CASE HasLength(s) /\ Remaining(s) > 0
    <3>1. Sound(Fail(s, "protocol"))
      BY <1>2, <2>1, Failed DEF Outcomes
    <3> QED
      BY <1>3, <1>7, <2>2, <3>1 DEF FetchEnd
  <2>3. CASE ~(HasLength(s) /\ Remaining(s) > 0)
    <3>1. Bytes(s) = Bytes(http) /\ BodyReceived(s) = BodyReceived(http) /\ HasLength(s) = HasLength(http)
      BY <1>2 DEF Bytes, InQueue, BodyReceived, BodyStart, HeadEnd, HasLength
    <3>2. Bytes(s) = BodyReceived(s) /\ Bytes(s) <= MaxBody /\ (HasLength(s) => Bytes(s) < s.response.declared)
      BY <1>1, <1>2, <2>1, <3>1 DEF Streamed
    <3>3. BodyBytes(s) = Bytes(s) /\ Bytes(s) \in Nat /\ s.response.declared \in Int
      <4>1. BodyBytes(s) = Bytes(s) /\ InQueue(s) \in Nat /\ s.taken \in Nat
        BY <1>2, <2>1, QueueFacts DEF Http
      <4>2. s.response.declared \in Int
        BY <1>2, Sizes
      <4> QED
        BY <4>1, <4>2 DEF Bytes
    <3>4. ~HasLength(s)
      BY <2>3, <3>2, <3>3 DEF Remaining
    <3>5. Sound(FinishBody(s))
      BY <1>2, <2>1, <3>2, <3>4, BodyFinished DEF Due, Whole
    <3> QED
      BY <1>3, <1>7, <2>3, <3>5 DEF FetchEnd
  <2> QED
    BY <2>2, <2>3
<1> QED
  BY <1>5, <1>6, <1>7

----------------------------------------------------------------------------
(* The call and the reader *)

LEMMA RefusedKept == ASSUME Sound(http), Refused PROVE Sound(http')
<1>1. PICK o \in {"aborted", "invalid", "protocol"} : http' = [http EXCEPT !.outcome = o]
  BY DEF Refused
<1>2. http \in Http /\ http.outcome = "none" /\ Held(http) /\ Flowing(http) /\ Owned(http) /\ Streamed(http)
  BY DEF Sound, Refused
<1>3. http.stream = "none" /\ http.queue = <<>> /\ ~http.reading /\ ~Open(http) /\ ~http.listening
  BY <1>2 DEF Owned, Held, Open, Http
<1>4. /\ http' \in Http /\ http'.outcome = o /\ http'.stream = "none" /\ http'.queue = <<>> /\ ~http'.reading
      /\ ~Open(http') /\ ~http'.listening
  BY <1>1, <1>2, <1>3 DEF Http, Open
<1>5. Held(http') /\ Flowing(http') /\ Owned(http') /\ Streamed(http')
  BY <1>4 DEF Held, Flowing, Owned, Streamed
<1> QED
  BY <1>4, <1>5 DEF Sound

LEMMA StartKept == ASSUME Sound(http), HttpStarts PROVE Sound(http')
<1>1. PICK client \in {"get", "fetch"}, r \in Responses :
        http' = [http EXCEPT !.client = client, !.response = r, !.outcome = "pending",
                             !.socket = "connecting", !.listening = TRUE]
  BY DEF HttpStarts
<1>2. http \in Http /\ http.outcome = "none" /\ ~http.aborted /\ Held(http) /\ Flowing(http) /\ Owned(http) /\ Streamed(http)
  BY DEF Sound, HttpStarts
<1>3. http.stream = "none" /\ http.queue = <<>> /\ ~http.reading /\ ~http.paused /\ http.taken = 0
  BY <1>2 DEF Owned, Http
<1>4. /\ http' \in Http /\ http'.outcome = "pending" /\ http'.stream = "none" /\ http'.queue = <<>> /\ ~http'.reading
      /\ Open(http') /\ http'.listening /\ ~http'.paused /\ http'.taken = 0 /\ ~http'.aborted
  BY <1>1, <1>2, <1>3 DEF Http, Open
<1>5. Held(http') /\ Flowing(http') /\ Owned(http') /\ Streamed(http')
  BY <1>4 DEF Held, Flowing, Owned, Streamed
<1> QED
  BY <1>4, <1>5 DEF Sound

LEMMA ConnectsKept == ASSUME Sound(http), Connects PROVE Sound(http')
<1>1. http \in Http /\ Open(http) /\ Held(http) /\ Flowing(http) /\ Owned(http) /\ Streamed(http)
  BY DEF Sound, Connects, Open
<1>2. http' = [http EXCEPT !.socket = "connected"]
  BY DEF Connects
<1>3. /\ http' \in Http /\ Open(http') /\ http'.listening = http.listening /\ http'.aborted = http.aborted
      /\ http'.outcome = http.outcome /\ http'.stream = http.stream /\ http'.paused = http.paused
      /\ http'.queue = http.queue /\ http'.reading = http.reading /\ http'.client = http.client
      /\ http'.taken = http.taken /\ http'.response = http.response /\ http'.received = http.received
      /\ http'.ended = http.ended
  BY <1>1, <1>2 DEF Http, Open
<1>4. Bytes(http') = Bytes(http) /\ BodyReceived(http') = BodyReceived(http) /\ HasLength(http') = HasLength(http)
  BY <1>3 DEF Bytes, InQueue, BodyReceived, BodyStart, HeadEnd, HasLength
<1>5. Held(http') /\ Flowing(http')
  BY <1>1, <1>3 DEF Held, Flowing
<1>6. http.outcome # "none" /\ http.stream # "closed"
  BY <1>1, <1>3 DEF Held, Owned
<1>7. Owned(http')
  BY <1>1, <1>3, <1>4, <1>6 DEF Owned, Whole
<1>8. Streamed(http')
  BY <1>1, <1>3, <1>4, <1>6 DEF Streamed
<1> QED
  BY <1>3, <1>5, <1>7, <1>8 DEF Sound

\* What an open connection can still come to.
LEMMA OpenFacts ==
  ASSUME Sound(http), Open(http)
  PROVE  \/ http.outcome = "pending" /\ http.stream = "none" /\ http.queue = <<>> /\ ~http.reading
         \/ http.outcome = "ok" /\ http.client = "fetch" /\ http.response.kind \notin {"malformed", "chunked"}
<1>1. http \in Http /\ Held(http) /\ Owned(http)
  BY DEF Sound
<1> QED
  BY <1>1 DEF Held, Owned, Http

LEMMA ConnectionBreaksKept == ASSUME Sound(http), ConnectionBreaks PROVE Sound(http')
<1>1. http \in Http /\ Open(http) /\ Owned(http)
  BY DEF Sound, ConnectionBreaks
<1>2. CASE http.client = "get"
  <2>1. Sound(Finish(http, "network"))
    BY <1>1, <1>2, OpenFacts, Finished DEF Outcomes
  <2> QED
    BY <1>2, <2>1 DEF ConnectionBreaks
<1>3. CASE http.client # "get"
  <2>1. Sound(Fail(http, "network"))
    BY <1>1, OpenFacts, Failed DEF Outcomes
  <2> QED
    BY <1>3, <2>1 DEF ConnectionBreaks
<1> QED
  BY <1>2, <1>3

LEMMA SignalKept == ASSUME Sound(http), SignalAborts PROVE Sound(http')
<1> DEFINE s == [http EXCEPT !.aborted = TRUE]
<1>1. http \in Http /\ Held(http) /\ Flowing(http) /\ Owned(http) /\ Streamed(http)
  BY DEF Sound
<1>2. /\ s \in Http /\ s.listening = http.listening /\ s.socket = http.socket
      /\ s.outcome = http.outcome /\ s.stream = http.stream /\ s.paused = http.paused
      /\ s.queue = http.queue /\ s.reading = http.reading /\ s.client = http.client
      /\ s.taken = http.taken /\ s.response = http.response /\ s.received = http.received
      /\ s.ended = http.ended
  BY <1>1 DEF Http
<1>3. http' = IF ~s.listening THEN s ELSE IF s.client = "get" THEN Finish(s, "aborted") ELSE Fail(s, "aborted")
  BY DEF SignalAborts
<1> HIDE DEF s
<1>4. CASE ~s.listening
  <2>1. /\ Bytes(s) = Bytes(http) /\ BodyReceived(s) = BodyReceived(http) /\ HasLength(s) = HasLength(http)
        /\ Open(s) = Open(http)
    BY <1>2 DEF Bytes, InQueue, BodyReceived, BodyStart, HeadEnd, HasLength, Open
  <2>2. ~Open(s) /\ ~Open(http)
    BY <1>1, <1>2, <1>4, <2>1 DEF Held
  <2>3. Held(s) /\ Flowing(s)
    BY <1>1, <1>2, <1>4, <2>2 DEF Held, Flowing
  <2>4. Owned(s)
    BY <1>1, <1>2, <2>1 DEF Owned, Whole
  <2>5. Streamed(s)
    BY <1>1, <1>2, <2>1 DEF Streamed, Due, Whole
  <2> QED
    BY <1>2, <1>3, <1>4, <2>3, <2>4, <2>5 DEF Sound
<1>5. CASE s.listening
  <2>1. Open(http)
    BY <1>1, <1>2, <1>5 DEF Held
  <2>2. \/ s.outcome = "pending" /\ s.stream = "none" /\ s.queue = <<>> /\ ~s.reading
        \/ s.outcome = "ok" /\ s.client = "fetch" /\ s.response.kind \notin {"malformed", "chunked"}
    BY <1>2, <2>1, OpenFacts
  <2>3. s.client = "get" => Sound(Finish(s, "aborted"))
    BY <1>2, <2>2, Finished DEF Outcomes
  <2>4. Sound(Fail(s, "aborted"))
    BY <1>2, <2>2, Failed DEF Outcomes
  <2> QED
    BY <1>3, <1>5, <2>3, <2>4
<1> QED
  BY <1>4, <1>5

\* A chunk changes hands: none of it is lost or given twice.
LEMMA ReadKept == ASSUME Sound(http), ReadsChunk PROVE Sound(http')
<1>1. http \in Http /\ Held(http) /\ Flowing(http) /\ Owned(http) /\ Streamed(http)
      /\ http.stream \in {"open", "closed"} /\ http.queue # <<>>
  BY DEF Sound, ReadsChunk
<1>2. http.queue \in Seq(Nat \ {0}) /\ Len(http.queue) <= 1 /\ http.taken \in Nat
  BY <1>1 DEF Http, Flowing
<1>3. Len(http.queue) = 1
  <2>1. Len(http.queue) \in Nat /\ Len(http.queue) # 0
    BY <1>1, <1>2
  <2>2. \A n \in Nat : n # 0 /\ n <= 1 => n = 1
    OBVIOUS
  <2> QED
    BY <1>2, <2>1, <2>2
<1>4. Head(http.queue) = http.queue[1] /\ http.queue[1] \in Nat /\ Tail(http.queue) = <<>>
  <2> DEFINE units == http.queue[1]
  <2>1. units \in Nat
    BY <1>2, <1>3
  <2>2. http.queue = <<units>>
    BY <1>2, <1>3
  <2> HIDE DEF units
  <2>3. Head(<<units>>) = units /\ Tail(<<units>>) = <<>>
    OBVIOUS
  <2> QED
    BY <2>1, <2>2, <2>3 DEF units
<1>5. http' = [http EXCEPT !.taken = http.taken + http.queue[1], !.queue = <<>>, !.paused = FALSE]
  <2>1. http' = Pull([http EXCEPT !.taken = http.taken + http.queue[1], !.queue = <<>>])
    BY <1>4 DEF ReadsChunk
  <2> DEFINE s == [http EXCEPT !.taken = http.taken + http.queue[1], !.queue = <<>>]
  <2>2. s.queue = <<>> /\ Len(<<>>) < HighWater
    BY <1>1 DEF Http, HighWater
  <2>3. Pull(s) = [s EXCEPT !.paused = FALSE]
    BY <2>2 DEF Pull
  <2> QED
    BY <2>1, <2>3
<1>6. http.taken + http.queue[1] \in Nat /\ <<>> \in Seq(Nat \ {0})
  BY <1>2, <1>4
<1>7. /\ http' \in Http /\ http'.listening = http.listening /\ http'.socket = http.socket /\ http'.aborted = http.aborted
      /\ http'.outcome = http.outcome /\ http'.stream = http.stream /\ ~http'.paused
      /\ http'.queue = <<>> /\ http'.reading = http.reading /\ http'.client = http.client
      /\ http'.taken = http.taken + http.queue[1] /\ http'.response = http.response /\ http'.received = http.received
      /\ http'.ended = http.ended
  BY <1>1, <1>5, <1>6 DEF Http
<1>8. /\ Bytes(http') = Bytes(http) /\ BodyReceived(http') = BodyReceived(http) /\ HasLength(http') = HasLength(http)
      /\ Open(http') = Open(http)
  BY <1>1, <1>4, <1>6, <1>7 DEF Bytes, InQueue, BodyReceived, BodyStart, HeadEnd, HasLength, Open
<1>9. Held(http') /\ Flowing(http')
  BY <1>1, <1>7, <1>8 DEF Held, Flowing
<1>10. Owned(http')
  BY <1>1, <1>7, <1>8 DEF Owned, Whole
<1>11. Streamed(http')
  BY <1>1, <1>7, <1>8 DEF Streamed, Due, Whole
<1> QED
  BY <1>7, <1>9, <1>10, <1>11 DEF Sound

LEMMA AwaitKept == ASSUME Sound(http), AwaitsChunk PROVE Sound(http')
<1>1. http \in Http /\ Held(http) /\ Flowing(http) /\ Owned(http) /\ Streamed(http)
      /\ http.stream = "open" /\ http.queue = <<>>
  BY DEF Sound, AwaitsChunk
<1>2. http' = [http EXCEPT !.reading = TRUE, !.paused = FALSE]
  <2> DEFINE s == [http EXCEPT !.reading = TRUE]
  <2>1. s.queue = <<>> /\ Len(<<>>) < HighWater
    BY <1>1 DEF Http, HighWater
  <2>2. Pull(s) = [s EXCEPT !.paused = FALSE]
    BY <2>1 DEF Pull
  <2> QED
    BY <2>2 DEF AwaitsChunk
<1>3. /\ http' \in Http /\ http'.listening = http.listening /\ http'.socket = http.socket /\ http'.aborted = http.aborted
      /\ http'.outcome = http.outcome /\ http'.stream = "open" /\ ~http'.paused
      /\ http'.queue = <<>> /\ http'.reading /\ http'.client = http.client
      /\ http'.taken = http.taken /\ http'.response = http.response /\ http'.received = http.received
      /\ http'.ended = http.ended
  BY <1>1, <1>2 DEF Http
<1>4. /\ Bytes(http') = Bytes(http) /\ BodyReceived(http') = BodyReceived(http) /\ HasLength(http') = HasLength(http)
      /\ Open(http') = Open(http)
  BY <1>1, <1>3 DEF Bytes, InQueue, BodyReceived, BodyStart, HeadEnd, HasLength, Open
<1>5. Held(http') /\ Flowing(http')
  BY <1>1, <1>3, <1>4 DEF Held, Flowing
<1>6. Owned(http') /\ Streamed(http')
  BY <1>1, <1>3, <1>4 DEF Owned, Streamed, Whole
<1> QED
  BY <1>3, <1>5, <1>6 DEF Sound

LEMMA CancelKept == ASSUME Sound(http), Cancels PROVE Sound(http')
<1>1. http \in Http /\ Held(http) /\ Flowing(http) /\ Owned(http) /\ Streamed(http)
  BY DEF Sound
<1>2. http.outcome = "ok" /\ http.client = "fetch"
  BY <1>1 DEF Cancels, Owned, Http
<1>3. http' = [http EXCEPT !.socket = "destroyed", !.listening = FALSE, !.stream = "cancelled", !.queue = <<>>, !.reading = FALSE]
  BY DEF Cancels, GiveBack
<1>4. <<>> \in Seq(Nat \ {0}) /\ Len(<<>>) = 0
  OBVIOUS
<1>5. /\ http' \in Http /\ ~Open(http') /\ ~http'.listening /\ http'.outcome = "ok" /\ http'.client = "fetch"
      /\ http'.stream = "cancelled" /\ http'.queue = <<>> /\ ~http'.reading /\ http'.response = http.response
  BY <1>1, <1>2, <1>3, <1>4 DEF Http, Open
<1>6. Held(http') /\ Flowing(http') /\ Owned(http') /\ Streamed(http')
  BY <1>1, <1>2, <1>4, <1>5 DEF Held, Flowing, Owned, Streamed
<1> QED
  BY <1>5, <1>6 DEF Sound

LEMMA HttpInits == HttpInit => Sound(http)
<1> SUFFICES ASSUME HttpInit PROVE Sound(http)
  OBVIOUS
<1>1. (CHOOSE r \in Responses : TRUE) \in Responses /\ <<>> \in Seq(Nat \ {0}) /\ Len(<<>>) = 0
  BY Http10Assumption
<1>2. /\ http \in Http /\ http.outcome = "none" /\ http.stream = "none" /\ http.queue = <<>> /\ ~http.reading
      /\ http.socket = "none" /\ ~http.listening /\ ~http.paused /\ http.taken = 0
  BY <1>1 DEF HttpInit, Http
<1> QED
  BY <1>1, <1>2 DEF Sound, Held, Flowing, Owned, Streamed, Open

LEMMA HttpInvariance == HttpSpec => []HttpInv
<1>1. HttpInit => HttpInv
  BY HttpInits DEF HttpInv
<1>2. HttpInv /\ [HttpNext]_http => HttpInv'
  BY DataKept, EndKept, RefusedKept, StartKept, ConnectsKept, ConnectionBreaksKept, SignalKept, ReadKept,
     AwaitKept, CancelKept
  DEF HttpNext, HttpInv
<1> QED
  BY <1>1, <1>2, PTL DEF HttpSpec

\* Whatever arrives in whatever segments, and whenever the connection ends, breaks or is given up: no
\* truncated body is handed over as a success, no unit of one is lost or repeated, a connection is open
\* only where the caller's signal ends it, and backpressure does not stall the reader.
THEOREM HttpTrusted == HttpSpec => []HttpHonest
<1>1. HttpInv => HttpHonest
  <2> SUFFICES ASSUME Sound(http) PROVE HttpHonest
    BY DEF HttpInv
  <2>1. http \in Http /\ Held(http) /\ Flowing(http) /\ Owned(http) /\ Streamed(http)
    BY DEF Sound
  <2>2. BodyBytes(http) = Bytes(http) /\ Len(http.queue) \in Nat /\ (http.queue = <<>> <=> Len(http.queue) = 0)
    <3>1. BodyBytes(http) = Bytes(http)
      BY <2>1, QueueFacts DEF Flowing
    <3>2. http.queue \in Seq(Nat \ {0})
      BY <2>1 DEF Http
    <3> QED
      BY <3>1, <3>2
  <2>3. NeverTruncated
    <3>1. MaxBody \in Nat /\ BodyReceived(http) \in Int /\ http.response.declared \in Int
      BY <2>1, Sizes, Http10Assumption
    <3>2. http.stream = "open" => Bytes(http) = Due(http) /\ Due(http) <= MaxBody
      BY <2>1, <3>1 DEF Streamed, Due
    <3> QED
      BY <2>1, <2>2, <3>2 DEF NeverTruncated, Owned, Streamed, Due, Whole
  <2>4. ConnectionAbortable
    BY <2>1 DEF ConnectionAbortable, Held
  <2>5. ReaderFlows
    BY <2>1, <2>2 DEF ReaderFlows, Flowing, HighWater
  <2> QED
    BY <2>1, <2>3, <2>4, <2>5 DEF HttpHonest, HttpTypeOK
<1> QED
  BY <1>1, HttpInvariance, PTL
=============================================================================
