------------------------- MODULE Debugging_proofs -------------------------
(***************************************************************************)
(* Proofs about the debug session, for every queue capacity and every set   *)
(* of callers, and about the slot that admits one session at a time, for    *)
(* any number of concurrent tool calls.                                     *)
(***************************************************************************)
EXTENDS DebugSession, DebugSlot, SequenceTheorems, TLAPS

-----------------------------------------------------------------------------
(* The session *)

\* The part of the type invariant a push or a wait can disturb.
SessionTyped ==
  /\ queue \in Seq(Event) /\ Len(queue) <= QueueCap
  /\ waiter \in BOOLEAN /\ bound \in BOOLEAN /\ paused \in BOOLEAN
  /\ executionRevision \in Nat /\ droppedEvents \in Nat
  /\ pushed \in Nat /\ received \in Nat /\ answer \in Answer

\* Enqueue keeps the queue typed, and is the append of the event after an overflow made room.
LEMMA EnqueueTyped ==
  ASSUME SessionTyped, NEW e \in Event, Enqueue(e)
  PROVE  /\ queue' \in Seq(Event) /\ Len(queue') <= QueueCap
         /\ droppedEvents' \in Nat
         /\ Len(queue') + droppedEvents' = Len(queue) + droppedEvents + 1
         /\ Len(queue') > 0
         /\ queue'[Len(queue')] = e
         /\ \A i \in 1..(Len(queue') - 1) : queue'[i] = queue[Len(queue) - Len(queue') + 1 + i]
<1>1. CASE Len(queue) >= QueueCap
  <2>1. queue # <<>> /\ Len(queue) = QueueCap
    BY <1>1, SessionAssumption DEF SessionTyped
  <2>2. /\ Tail(queue) \in Seq(Event)
        /\ Len(Tail(queue)) = Len(queue) - 1
        /\ \A i \in 1..Len(Tail(queue)) : Tail(queue)[i] = queue[i + 1]
    BY <2>1, HeadTailProperties DEF SessionTyped
  <2>3. queue' = Append(Tail(queue), e) /\ droppedEvents' = droppedEvents + 1
    BY <1>1 DEF Enqueue
  <2>4. /\ queue' \in Seq(Event)
        /\ Len(queue') = Len(queue)
        /\ queue'[Len(queue')] = e
        /\ \A i \in 1..(Len(queue') - 1) : queue'[i] = Tail(queue)[i]
    BY <2>2, <2>3, AppendProperties DEF SessionTyped
  <2> QED
    BY <2>1, <2>2, <2>3, <2>4, SessionAssumption DEF SessionTyped
<1>2. CASE ~(Len(queue) >= QueueCap)
  <2>1. queue' = Append(queue, e) /\ droppedEvents' = droppedEvents
    BY <1>2 DEF Enqueue
  <2>2. /\ queue' \in Seq(Event)
        /\ Len(queue') = Len(queue) + 1
        /\ queue'[Len(queue')] = e
        /\ \A i \in 1..(Len(queue') - 1) : queue'[i] = queue[i]
    BY <2>1, AppendProperties DEF SessionTyped
  <2> QED
    BY <1>2, <2>1, <2>2, SessionAssumption DEF SessionTyped
<1> QED
  BY <1>1, <1>2

\* A push keeps the session typed.
LEMMA PushTyped ==
  ASSUME SessionTyped, NEW kind \in Kinds, NEW run \in Nat, NEW results \in Nat,
         Push(kind, run, results)
  PROVE  SessionTyped'
<1> DEFINE e == [n |-> pushed + 1, run |-> run]
<1>1. e \in Event
  BY DEF Event, SessionTyped
<1>2. bound' \in BOOLEAN /\ paused' \in BOOLEAN /\ executionRevision' \in Nat /\ pushed' \in Nat
  <2>1. pushed' \in Nat /\ ExecutionState(kind)
    BY DEF Push, SessionTyped
  <2>2. executionRevision' \in Nat
    BY <2>1 DEF ExecutionState, SessionTyped
  <2>3. bound' \in BOOLEAN /\ paused' \in BOOLEAN
    BY <2>1, Zenon DEF ExecutionState, SessionTyped
  <2> QED
    BY <2>1, <2>2, <2>3
<1>3. CASE waiter
  <2>1. waiter' = FALSE /\ Deliver(e, results) /\ UNCHANGED <<queue, droppedEvents>>
    BY <1>3, Zenon DEF Push
  <2>2. received' \in Nat /\ answer' \in Answer
    BY <1>1, <2>1 DEF Deliver, Event, Answer, SessionTyped
  <2> QED
    BY <1>2, <2>1, <2>2, Zenon DEF SessionTyped
<1>4. CASE ~waiter
  <2>1. Enqueue(e) /\ UNCHANGED <<waiter, received, answer>>
    BY <1>4, Zenon DEF Push
  <2>2. queue' \in Seq(Event) /\ Len(queue') <= QueueCap /\ droppedEvents' \in Nat
    BY <1>1, <2>1, EnqueueTyped
  <2> QED
    BY <1>2, <2>1, <2>2, Zenon DEF SessionTyped
<1> QED
  BY <1>3, <1>4

\* The rest of the type invariant.
RestTyped ==
  /\ lastTestRun \in Nat /\ testRun \in Nat /\ runs \in Nat
  /\ resume \in [Callers -> Resume] /\ resumes \in Nat
  /\ blind \subseteq Blindness /\ disowned \in BOOLEAN
  /\ hub \in BOOLEAN
  /\ wire \in Seq(Message) /\ breaks \in Nat /\ failures \in Nat
  /\ workload \in {"unbound", "running", "paused", "gone"}
  /\ identity \in {"none", "lookup", "known", "unread"}
  /\ closing \in {"no", "failUserAttach", "failBoundConfiguration"}
  /\ userFiltered \in BOOLEAN

LEMMA TypeSplit == (TypeOK <=> SessionTyped /\ RestTyped) /\ (TypeOK' <=> SessionTyped' /\ RestTyped')
BY Zenon DEF TypeOK, SessionTyped, RestTyped

LEMMA DisconnectedTyped ==
  ASSUME RestTyped, Disconnected
  PROVE  resume' \in [Callers -> Resume] /\ wire' \in Seq(Message) /\ workload' = "gone"
<1>1. resume' \in [Callers -> Resume]
  BY DEF Disconnected, RestTyped, Resume
<1>2. wire' \in Seq(Message) /\ workload' = "gone"
  BY DEF Disconnected
<1> QED
  BY <1>1, <1>2

\* Every step keeps every variable in its type.
THEOREM TypeCorrect == Spec => []TypeOK
<1>1. Init => TypeOK
  <2> SUFFICES ASSUME Init PROVE TypeOK
    OBVIOUS
  <2>1. resume \in [Callers -> Resume]
    BY DEF Init, Idle, Resume
  <2>2. queue \in Seq(Event) /\ Len(queue) <= QueueCap /\ wire \in Seq(Message) /\ answer \in Answer
    BY SessionAssumption DEF Init, Answer, Kinds
  <2>3. /\ executionRevision \in Nat /\ lastTestRun \in Nat /\ droppedEvents \in Nat
        /\ testRun \in Nat /\ pushed \in Nat /\ received \in Nat /\ runs \in Nat
        /\ breaks \in Nat /\ failures \in Nat /\ resumes \in Nat
    BY DEF Init
  <2>4. /\ blind \subseteq Blindness /\ disowned \in BOOLEAN
        /\ waiter \in BOOLEAN /\ bound \in BOOLEAN /\ paused \in BOOLEAN /\ hub \in BOOLEAN
        /\ workload \in {"unbound", "running", "paused", "gone"}
        /\ identity \in {"none", "lookup", "known", "unread"}
        /\ closing \in {"no", "failUserAttach", "failBoundConfiguration"} /\ userFiltered \in BOOLEAN
    BY Zenon DEF Init
  <2> QED
    BY <2>1, <2>2, <2>3, <2>4, Zenon DEF TypeOK
<1>2. TypeOK /\ [Next]_vars => TypeOK'
  <2> SUFFICES ASSUME SessionTyped, RestTyped, [Next]_vars
               PROVE  SessionTyped' /\ RestTyped'
    BY TypeSplit, Zenon
  <2>1. CASE WaitQueued
    <3>1. queue # <<>> /\ queue' = Tail(queue) /\ Deliver(Head(queue), lastTestRun)
      BY <2>1 DEF WaitQueued
    <3>2. queue' \in Seq(Event) /\ Len(queue') <= QueueCap /\ Head(queue) \in Event
      BY <3>1, HeadTailProperties, SessionAssumption DEF SessionTyped
    <3>3. received' \in Nat /\ answer' \in Answer
      <4>1. lastTestRun \in Nat /\ received \in Nat
        BY DEF SessionTyped, RestTyped
      <4> QED
        BY <3>1, <3>2, <4>1 DEF Deliver, Event, Answer
    <3>8. SessionTyped'
      BY <2>1, <3>2, <3>3, Zenon DEF WaitQueued, SessionTyped
    <3>9. RestTyped'
      BY <2>1, <3>2, <3>3, Zenon DEF WaitQueued, RestTyped, server, tests, calls, hubState
    <3> QED
      BY <3>8, <3>9
  <2>2. CASE WaitPending
    <3>8. SessionTyped'
      BY <2>2, Zenon DEF WaitPending, SessionTyped
    <3>9. RestTyped'
      BY <2>2, Zenon DEF WaitPending, RestTyped, server, tests, calls, hubState
    <3> QED
      BY <3>8, <3>9
  <2>3. CASE WaitTimeout
    <3>8. SessionTyped'
      BY <2>3, Zenon DEF WaitTimeout, SessionTyped
    <3>9. RestTyped'
      BY <2>3, Zenon DEF WaitTimeout, RestTyped, server, tests, calls, hubState
    <3> QED
      BY <3>8, <3>9
  <2>4. CASE Callback
    <3>1. wire' \in Seq(Message) /\ Head(wire).kind \in Kinds
      BY <2>4, HeadTailProperties DEF Callback, RestTyped, Kinds
    <3>2. SessionTyped'
      BY <2>4, <3>1, PushTyped DEF Callback
    <3> QED
      BY <2>4, <3>1, <3>2, Zenon DEF Callback, RestTyped, tests, calls, hubState
  <2>5. CASE Completion
    <3>1. wire' \in Seq(Message) /\ Head(wire) \in Message
      BY <2>5, HeadTailProperties DEF Completion, RestTyped
    <3>2. Head(wire).caller \in Callers
      BY <2>5, <3>1 DEF Completion, Message
    <3>3. resume' \in [Callers -> Resume]
      BY <2>5, <3>2 DEF Completion, RestTyped, Resume
    <3>8. SessionTyped'
      BY <2>5, <3>1, <3>3, Zenon DEF Completion, SessionTyped, session, events
    <3>9. RestTyped'
      BY <2>5, <3>1, <3>3, Zenon DEF Completion, RestTyped, tests, calls, hubState
    <3> QED
      BY <3>8, <3>9
  <2>6. CASE SessionBound
    <3>1. SessionTyped'
      BY <2>6, PushTyped DEF SessionBound, Kinds
    <3>2. identity' \in {"none", "lookup", "known", "unread"}
      BY <2>6 DEF SessionBound
    <3> QED
      BY <2>6, <3>1, <3>2, Zenon DEF SessionBound, RestTyped, server, tests, calls, hubState
  <2>7. CASE HubClosed
    <3>1. SessionTyped'
      BY <2>7, PushTyped DEF HubClosed, Kinds
    <3>2. resume' \in [Callers -> Resume] /\ wire' \in Seq(Message) /\ workload' = "gone"
      BY <2>7, DisconnectedTyped DEF HubClosed
    <3> QED
      BY <2>7, <3>1, <3>2, Zenon DEF HubClosed, RestTyped, tests
  <2>20. CASE OnFatalDebuggerException
    <3>1. wire' \in Seq(Message)
      BY <2>20, HeadTailProperties DEF OnFatalDebuggerException, RestTyped
    <3>2. CASE hub' = FALSE /\ closing' = "failUserAttach" /\ UNCHANGED <<session, disowned>>
      BY <2>20, <3>1, <3>2, Zenon
         DEF OnFatalDebuggerException, SessionTyped, RestTyped, session, events, tests, calls
    <3>3. CASE Push("fatal", 0, 0) /\ disowned' = TRUE /\ UNCHANGED <<hub, closing>>
      <4>1. SessionTyped'
        BY <3>3, PushTyped DEF Kinds
      <4> QED
        BY <2>20, <3>1, <3>3, <4>1, Zenon DEF OnFatalDebuggerException, RestTyped, tests, calls
    <3> QED
      BY <2>20, <3>2, <3>3, Zenon DEF OnFatalDebuggerException
  <2>21. CASE Ignored
    <3>1. wire' \in Seq(Message)
      BY <2>21, HeadTailProperties DEF Ignored, RestTyped
    <3>8. SessionTyped'
      BY <2>21, <3>1, Zenon DEF Ignored, SessionTyped, session, events
    <3>9. RestTyped'
      BY <2>21, <3>1, Zenon DEF Ignored, RestTyped, tests, calls, hubState
    <3> QED
      BY <3>8, <3>9
  <2>22. CASE ConfigurationFails
    <3>1. SessionTyped'
      BY <2>22, PushTyped DEF ConfigurationFails, Kinds
    <3> QED
      BY <2>22, <3>1, Zenon DEF ConfigurationFails, RestTyped, server, tests, calls
  <2>23. CASE HubStopped
    <3>1. ASSUME Push("fatal", 0, 0) PROVE SessionTyped'
      BY <3>1, PushTyped DEF Kinds
    <3>2. ASSUME UNCHANGED session PROVE SessionTyped'
      BY <3>2, Zenon DEF SessionTyped, session, events
    <3>3. resume' \in [Callers -> Resume] /\ wire' \in Seq(Message) /\ workload' = "gone"
      BY <2>23, DisconnectedTyped DEF HubStopped
    <3> QED
      BY <2>23, <3>1, <3>2, <3>3, Zenon DEF HubStopped, RestTyped, tests
  <2>24. CASE ServerFails
    <3>1. wire' \in Seq(Message) /\ failures' \in Nat
      BY <2>24 DEF ServerFails, RestTyped, Message
    <3>2. workload' \in {"unbound", "running", "paused", "gone"}
      BY <2>24 DEF ServerFails, RestTyped
    <3>8. SessionTyped'
      BY <2>24, <3>1, <3>2, Zenon DEF ServerFails, SessionTyped, session, events
    <3>9. RestTyped'
      BY <2>24, <3>1, <3>2, Zenon DEF ServerFails, RestTyped, tests, calls, hubState
    <3> QED
      BY <3>8, <3>9
  <2>8. CASE StartRun
    <3>1. runs' \in Nat /\ testRun' \in Nat
      BY <2>8 DEF StartRun, RestTyped
    <3>8. SessionTyped'
      BY <2>8, <3>1, Zenon DEF StartRun, SessionTyped, session, events
    <3>9. RestTyped'
      BY <2>8, <3>1, Zenon DEF StartRun, RestTyped, server, calls, hubState
    <3> QED
      BY <3>8, <3>9
  <2>9. CASE RunFinished
    <3>1. SessionTyped'
      BY <2>9, PushTyped DEF RunFinished, Kinds, RestTyped
    <3>2. lastTestRun' \in Nat /\ testRun' \in Nat
      BY <2>9 DEF RunFinished, RestTyped
    <3> QED
      BY <2>9, <3>1, <3>2, Zenon DEF RunFinished, RestTyped, server, calls, hubState
  <2>10. CASE RunFailed
    <3>1. SessionTyped' /\ testRun' \in Nat
      BY <2>10, PushTyped DEF RunFailed, Kinds, RestTyped
    <3> QED
      BY <2>10, <3>1, Zenon DEF RunFailed, RestTyped, server, calls, hubState
  <2>11. CASE Bind
    <3>8. SessionTyped'
      BY <2>11, Zenon DEF Bind, SessionTyped, session, events
    <3>9. RestTyped'
      BY <2>11, Zenon DEF Bind, RestTyped, tests, calls
    <3> QED
      BY <3>8, <3>9
  <2>12. CASE BreakHit
    <3>1. wire' \in Seq(Message) /\ breaks' \in Nat
      BY <2>12 DEF BreakHit, RestTyped, Message
    <3>8. SessionTyped'
      BY <2>12, <3>1, Zenon DEF BreakHit, SessionTyped, session, events
    <3>9. RestTyped'
      BY <2>12, <3>1, Zenon DEF BreakHit, RestTyped, tests, calls, hubState
    <3> QED
      BY <3>8, <3>9
  <2>13. CASE WorkloadEnds
    <3>1. wire' \in Seq(Message)
      BY <2>13 DEF WorkloadEnds, RestTyped, Message
    <3>8. SessionTyped'
      BY <2>13, <3>1, Zenon DEF WorkloadEnds, SessionTyped, session, events
    <3>9. RestTyped'
      BY <2>13, <3>1, Zenon DEF WorkloadEnds, RestTyped, tests, calls, hubState
    <3> QED
      BY <3>8, <3>9
  <2>14. ASSUME NEW c \in Callers, BeginResume(c) PROVE SessionTyped' /\ RestTyped'
    <3>1. executionRevision' \in Nat /\ resumes' \in Nat
      BY <2>14 DEF BeginResume, SessionTyped, RestTyped
    <3>2. [pc |-> IF hub THEN "sent" ELSE "rejected",
           revision |-> executionRevision + 1, wasPaused |-> paused] \in Resume
      <4>1. executionRevision + 1 \in Nat
        BY DEF SessionTyped
      <4>2. (IF hub THEN "sent" ELSE "rejected") \in {"idle", "sent", "answered", "rejected"}
        OBVIOUS
      <4> QED
        BY <4>1, <4>2, Zenon DEF Resume, SessionTyped
    <3>3. resume' \in [Callers -> Resume]
      BY <2>14, <3>2, Zenon DEF BeginResume, RestTyped
    <3>4. blind' \subseteq Blindness
      BY <2>14 DEF BeginResume, RestTyped, Blindness
    <3>8. SessionTyped'
      BY <2>14, <3>1, <3>3, <3>4, Zenon DEF BeginResume, SessionTyped, events
    <3>9. RestTyped'
      BY <2>14, <3>1, <3>3, <3>4, Zenon DEF BeginResume, RestTyped, server, tests, hubState
    <3> QED
      BY <3>8, <3>9
  <2>15. ASSUME NEW c \in Callers, ResumeAccepted(c) PROVE SessionTyped' /\ RestTyped'
    <3>1. resume' \in [Callers -> Resume]
      BY <2>15 DEF ResumeAccepted, Idle, Resume, RestTyped
    <3>8. SessionTyped'
      BY <2>15, <3>1, Zenon DEF ResumeAccepted, SessionTyped, session, events
    <3>9. RestTyped'
      BY <2>15, <3>1, Zenon DEF ResumeAccepted, RestTyped, server, tests, calls, hubState
    <3> QED
      BY <3>8, <3>9
  <2>16. ASSUME NEW c \in Callers, RollbackResume(c) PROVE SessionTyped' /\ RestTyped'
    <3>1. resume' \in [Callers -> Resume]
      BY <2>16 DEF RollbackResume, Idle, Resume, RestTyped
    <3>2. paused' \in BOOLEAN
      <4>1. resume[c].wasPaused \in BOOLEAN
        BY DEF RestTyped, Resume
      <4> QED
        BY <2>16, <4>1, Zenon DEF RollbackResume, SessionTyped
    <3>8. SessionTyped'
      BY <2>16, <3>1, <3>2, Zenon DEF RollbackResume, SessionTyped, events
    <3>9. RestTyped'
      BY <2>16, <3>1, <3>2, Zenon DEF RollbackResume, RestTyped, server, tests, hubState
    <3> QED
      BY <3>8, <3>9
  <2>17. ASSUME NEW c \in Callers, ServerAccepts(c) PROVE SessionTyped' /\ RestTyped'
    <3>1. wire' \in Seq(Message)
      <4>1. /\ [kind |-> "detached"] \in Message
            /\ [kind |-> "accepted", caller |-> c] \in Message
        BY DEF Message
      <4>2. Append(wire, [kind |-> "detached"]) \in Seq(Message)
        BY <4>1, AppendProperties DEF RestTyped
      <4>3. Append(Append(wire, [kind |-> "detached"]), [kind |-> "accepted", caller |-> c]) \in Seq(Message)
        BY <4>1, <4>2, AppendProperties
      <4>4. Append(wire, [kind |-> "accepted", caller |-> c]) \in Seq(Message)
        BY <4>1, AppendProperties DEF RestTyped
      <4> QED
        BY <2>17, <4>3, <4>4, Zenon DEF ServerAccepts
    <3>2. workload' \in {"unbound", "running", "paused", "gone"}
      BY <2>17 DEF ServerAccepts
    <3>8. SessionTyped'
      BY <2>17, <3>1, <3>2, Zenon DEF ServerAccepts, SessionTyped, session, events
    <3>9. RestTyped'
      BY <2>17, <3>1, <3>2, Zenon DEF ServerAccepts, RestTyped, tests, calls, hubState
    <3> QED
      BY <3>8, <3>9
  <2>18. ASSUME NEW c \in Callers, ServerRefuses(c) PROVE SessionTyped' /\ RestTyped'
    <3>1. wire' \in Seq(Message)
      BY <2>18 DEF ServerRefuses, RestTyped, Message
    <3>8. SessionTyped'
      BY <2>18, <3>1, Zenon DEF ServerRefuses, SessionTyped, session, events
    <3>9. RestTyped'
      BY <2>18, <3>1, Zenon DEF ServerRefuses, RestTyped, tests, calls, hubState
    <3> QED
      BY <3>8, <3>9
  <2>19. CASE UNCHANGED vars
    <3>1. SessionTyped'
      BY <2>19, Zenon DEF vars, SessionTyped, session, events
    <3> QED
      BY <2>19, <3>1, Zenon DEF vars, calls, RestTyped, server, tests, hubState
  <2> QED
    BY <2>1, <2>2, <2>3, <2>4, <2>5, <2>6, <2>7, <2>8, <2>9, <2>10, <2>11, <2>12, <2>13,
       <2>14, <2>15, <2>16, <2>17, <2>18, <2>19, <2>20, <2>21, <2>22, <2>23, <2>24, Zenon DEF Next
<1> QED
  BY <1>1, <1>2, PTL DEF Spec

----------------------------------------------------------------------------
(* The event queue *)

\* A push keeps the queue accounted for, in order and without starving a waiter.
LEMMA PushQueue ==
  ASSUME SessionTyped, QueueSafety, NEW kind \in Kinds, NEW run \in Nat, NEW results \in Nat,
         Push(kind, run, results)
  PROVE  QueueSafety' /\ (answer' = answer \/ answer'.n > answer.n)
<1> DEFINE e == [n |-> pushed + 1, run |-> run]
<1>1. e \in Event /\ e.n = pushed + 1 /\ pushed' = pushed + 1
  BY DEF Event, SessionTyped, Push
<1>2. CASE waiter
  <2>1. waiter' = FALSE /\ Deliver(e, results) /\ queue' = queue /\ droppedEvents' = droppedEvents
    BY <1>2, Zenon DEF Push
  <2>2. queue = <<>> /\ Len(queue) = 0 /\ Len(queue') = 0
    BY <1>2, <2>1 DEF QueueSafety, WaiterNeverStarved
  <2>3. NoSilentLoss'
    BY <1>1, <2>1, <2>2 DEF Deliver, QueueSafety, NoSilentLoss, SessionTyped
  <2>4. NewestEventsKept'
    BY <1>1, <2>1, <2>2 DEF Deliver, NewestEventsKept, SessionTyped
  <2>5. answer'.n > answer.n
    BY <1>1, <2>1, <2>2 DEF Deliver, QueueSafety, NewestEventsKept, SessionTyped, Answer
  <2> QED
    BY <2>1, <2>3, <2>4, <2>5 DEF QueueSafety, WaiterNeverStarved
<1>3. CASE ~waiter
  <2>1. Enqueue(e) /\ waiter' = waiter /\ received' = received /\ answer' = answer
    BY <1>3, Zenon DEF Push
  <2>2. /\ queue' \in Seq(Event) /\ droppedEvents' \in Nat
        /\ Len(queue') + droppedEvents' = Len(queue) + droppedEvents + 1
        /\ Len(queue') > 0
        /\ queue'[Len(queue')] = e
        /\ \A i \in 1..(Len(queue') - 1) : queue'[i] = queue[Len(queue) - Len(queue') + 1 + i]
    BY <1>1, <2>1, EnqueueTyped
  <2>3. Len(queue) \in Nat /\ Len(queue') \in Nat /\ pushed \in Nat
    BY <2>2 DEF SessionTyped
  <2>4. Len(queue') <= Len(queue) + 1
    <3>1. droppedEvents' >= droppedEvents
      BY <2>1 DEF Enqueue, SessionTyped
    <3> QED
      BY <2>2, <2>3, <3>1 DEF SessionTyped
  <2>5. NoSilentLoss'
    <3>1. /\ pushed = received + Len(queue) + droppedEvents
          /\ received \in Nat /\ droppedEvents \in Nat
      BY DEF QueueSafety, NoSilentLoss, SessionTyped
    <3>2. /\ pushed' = pushed + 1 /\ received' = received
          /\ Len(queue') + droppedEvents' = Len(queue) + droppedEvents + 1
          /\ droppedEvents' \in Nat
      BY <1>1, <2>1, <2>2
    <3>3. pushed' = received' + Len(queue') + droppedEvents'
      BY <2>3, <3>1, <3>2
    <3> QED
      BY <3>3 DEF NoSilentLoss
  <2>6. \A i \in 1..Len(queue') : queue'[i].n = pushed' - Len(queue') + i
    <3> SUFFICES ASSUME NEW i \in 1..Len(queue') PROVE queue'[i].n = pushed' - Len(queue') + i
      OBVIOUS
    <3>1. CASE i = Len(queue')
      BY <1>1, <2>2, <2>3, <3>1
    <3>2. CASE i < Len(queue')
      <4> DEFINE j == Len(queue) - Len(queue') + 1 + i
      <4>1. i \in 1..(Len(queue') - 1) /\ j \in 1..Len(queue)
        BY <2>3, <2>4, <3>2
      <4>2. queue'[i] = queue[j] /\ queue[j].n = pushed - Len(queue) + j
        BY <2>2, <4>1 DEF QueueSafety, NewestEventsKept
      <4> QED
        BY <1>1, <2>3, <4>1, <4>2
    <3> QED
      BY <2>3, <3>1, <3>2
  <2>7. answer'.n <= pushed' - Len(queue')
    <3>1. answer.n \in Nat /\ answer.n <= pushed - Len(queue)
      BY DEF QueueSafety, NewestEventsKept, SessionTyped, Answer
    <3> QED
      BY <1>1, <2>1, <2>3, <2>4, <3>1
  <2> QED
    BY <1>3, <2>1, <2>5, <2>6, <2>7 DEF QueueSafety, NewestEventsKept, WaiterNeverStarved
<1> QED
  BY <1>2, <1>3

\* bcdev_debug_wait on a filled queue answers the oldest event and leaves the rest as it was.
LEMMA WaitQueue ==
  ASSUME SessionTyped, QueueSafety, WaitQueued
  PROVE  QueueSafety' /\ answer'.n > answer.n
<1>1. /\ ~waiter' /\ pushed' = pushed /\ droppedEvents' = droppedEvents
      /\ queue # <<>> /\ queue' = Tail(queue) /\ Deliver(Head(queue), lastTestRun)
  BY Zenon DEF WaitQueued, QueueSafety, WaiterNeverStarved
<1>2. /\ Head(queue) = queue[1] /\ Len(queue) \in Nat /\ Len(queue) >= 1
      /\ Len(queue') = Len(queue) - 1
      /\ \A i \in 1..Len(queue') : queue'[i] = queue[i + 1]
  BY <1>1, HeadTailProperties DEF SessionTyped
<1>3. NoSilentLoss'
  BY <1>1, <1>2 DEF Deliver, QueueSafety, NoSilentLoss, SessionTyped
<1>4. answer'.n = queue[1].n /\ queue[1].n = pushed - Len(queue) + 1
  BY <1>1, <1>2 DEF Deliver, QueueSafety, NewestEventsKept
<1>5. answer.n \in Nat /\ answer.n <= pushed - Len(queue) /\ pushed \in Nat
  BY DEF QueueSafety, NewestEventsKept, SessionTyped, Answer
<1>6. \A i \in 1..Len(queue') : queue'[i].n = pushed' - Len(queue') + i
  BY <1>1, <1>2, <1>5 DEF QueueSafety, NewestEventsKept
<1>7. answer'.n > answer.n /\ answer'.n <= pushed' - Len(queue')
  BY <1>1, <1>2, <1>4, <1>5
<1> QED
  BY <1>1, <1>3, <1>6, <1>7 DEF QueueSafety, NewestEventsKept, WaiterNeverStarved

\* The queue invariant holds initially, and every step keeps it and answers in order.
LEMMA QueueInit == Init => QueueSafety
<1> SUFFICES ASSUME Init PROVE QueueSafety
  OBVIOUS
<1>1. NoSilentLoss
  BY DEF Init, NoSilentLoss
<1>2. NewestEventsKept
  BY DEF Init, NewestEventsKept
<1> QED
  BY <1>1, <1>2 DEF Init, QueueSafety, WaiterNeverStarved

LEMMA QueueStep ==
  ASSUME TypeOK, QueueSafety, [Next]_vars
  PROVE  QueueSafety' /\ (answer' = answer \/ answer'.n > answer.n)
<1>1. SessionTyped /\ RestTyped
  BY TypeSplit, Zenon
<1>2. CASE WaitQueued
  BY <1>1, <1>2, WaitQueue
<1>3. CASE WaitPending \/ WaitTimeout
  BY <1>3 DEF WaitPending, WaitTimeout, QueueSafety, NoSilentLoss, NewestEventsKept, WaiterNeverStarved
<1>4. CASE Callback
  <2>1. Head(wire).kind \in Kinds
    BY <1>4 DEF Callback, Kinds
  <2> QED
    BY <1>1, <1>4, <2>1, PushQueue DEF Callback
<1>5. CASE SessionBound
  BY <1>1, <1>5, PushQueue DEF SessionBound, Kinds
<1>6. CASE HubClosed \/ ConfigurationFails
  BY <1>1, <1>6, PushQueue DEF HubClosed, ConfigurationFails, Kinds
<1>7. CASE RunFinished
  BY <1>1, <1>7, PushQueue DEF RunFinished, Kinds, RestTyped
<1>8. CASE RunFailed
  BY <1>1, <1>8, PushQueue DEF RunFailed, Kinds, RestTyped
<1>9. ASSUME UNCHANGED events PROVE QueueSafety' /\ answer' = answer
  BY <1>9 DEF events, QueueSafety, NoSilentLoss, NewestEventsKept, WaiterNeverStarved
<1>10. ASSUME Ignored \/ Completion \/ StartRun \/ Bind \/ ServerFails \/ BreakHit \/ WorkloadEnds PROVE UNCHANGED events
  BY <1>10, Zenon DEF Ignored, Completion, StartRun, Bind, ServerFails, BreakHit, WorkloadEnds, session
<1>13. CASE OnFatalDebuggerException \/ HubStopped
  <2>1. Push("fatal", 0, 0) \/ UNCHANGED events
    BY <1>13, Zenon DEF OnFatalDebuggerException, HubStopped, session
  <2> QED
    BY <1>1, <1>9, <2>1, PushQueue DEF Kinds
<1>11. ASSUME NEW c \in Callers,
              BeginResume(c) \/ ResumeAccepted(c) \/ RollbackResume(c)
                \/ ServerAccepts(c) \/ ServerRefuses(c)
       PROVE  UNCHANGED events
  BY <1>11, Zenon
     DEF BeginResume, ResumeAccepted, RollbackResume, ServerAccepts, ServerRefuses, session
<1>12. CASE UNCHANGED vars
  BY <1>9, <1>12, Zenon DEF vars, session
<1> QED
  BY <1>2, <1>3, <1>4, <1>5, <1>6, <1>7, <1>8, <1>9, <1>10, <1>11, <1>12, <1>13, Zenon DEF Next

\* No event is lost silently, an overflow discards the oldest, and no waiter sits beside a queued
\* event: for every queue capacity, any number of callers and events of any kind.
THEOREM QueueSafe == Spec => []QueueSafety
<1>1. QueueSafety /\ TypeOK /\ [Next]_vars => QueueSafety'
  BY QueueStep
<1> QED
  BY <1>1, QueueInit, TypeCorrect, PTL DEF Spec, QueueSafety

\* Each answer of bcdev_debug_wait is newer than the one before it.
THEOREM AnswersOrdered == Spec => AnswersInOrder
<1>1. TypeOK /\ QueueSafety /\ [Next]_vars => [answer' # answer => answer'.n > answer.n]_vars
  BY QueueStep
<1>2. Spec => []QueueSafety
  BY QueueSafe, PTL DEF QueueSafety
<1> QED
  BY <1>1, <1>2, TypeCorrect, PTL DEF Spec, AnswersInOrder
----------------------------------------------------------------------------
(* The pause *)

DetachUnderway == \E i \in 1..Len(wire) : wire[i].kind = "detached"
Completes(i, c) == wire[i].kind \in {"accepted", "refused"} /\ wire[i].caller = c
AcceptedOnWire(c) == \E i \in 1..Len(wire) : wire[i].kind = "accepted" /\ wire[i].caller = c

\* An invocation is answered once, a detach says that the workload is gone, and a connection that is
\* closed says nothing.  A session without a hub has no identity.
WireInv ==
  /\ \A i \in 1..Len(wire), c \in Callers : Completes(i, c) => resume[c].pc = "sent"
  /\ \A i, j \in 1..Len(wire), c \in Callers : Completes(i, c) /\ Completes(j, c) => i = j
  /\ DetachUnderway => workload = "gone"
  /\ (bound => identity = "known" /\ hub) /\ (closing # "no" => ~hub)
  /\ workload = "unbound" => identity = "none"

\* Resumes in progress differ in their revision, and only the latest can be rolled back, while the
\* session is not paused.
RevisionInv ==
  /\ \A c \in Callers : resume[c].pc # "idle" =>
       /\ resume[c].revision <= executionRevision
       /\ paused => resume[c].revision # executionRevision
  /\ \A c, d \in Callers : resume[c].pc # "idle" /\ resume[d].pc # "idle" /\ c # d =>
       resume[c].revision # resume[d].revision

\* The resume of c, if it fails, gives the pause back.
Restores(c) ==
  /\ resume[c].pc \in {"sent", "rejected"} /\ ~AcceptedOnWire(c)
  /\ resume[c].wasPaused /\ resume[c].revision = executionRevision

\* A workload stopped at a break the session has handled is known to be, or will be.
KnownInv ==
  hub /\ workload = "paused" /\ ~BreakUnderway /\ "overlapping" \notin blind /\ ~disowned =>
    paused \/ \E c \in Callers : Restores(c)

\* The workload is stopped, or lost to a debugger whose failure is the last news on the wire.
Stopped ==
  \/ workload = "paused"
  \/ /\ workload = "gone"
     /\ \E k \in 1..Len(wire) : wire[k].kind = "fatal" /\ \A i \in 1..Len(wire) : wire[i].kind = "break" => i < k

\* The resume of c is under way and may still be refused.
Refusable(c) == resume[c].pc \in {"sent", "rejected"} /\ ~AcceptedOnWire(c)

\* While every resume was asked of a session known to be paused: the session and its resumes do not
\* get ahead of the workload.
SightedInv ==
  /\ paused => Stopped /\ ~BreakUnderway /\ \A c \in Callers : resume[c].pc \notin {"sent", "rejected"}
  /\ \A c \in Callers : Refusable(c) =>
       /\ workload \in {"paused", "gone"} /\ ~BreakUnderway
       /\ resume[c].revision = executionRevision => Stopped
  /\ \A c, d \in Callers : resume[c].pc \in {"sent", "rejected"} /\ resume[d].pc \in {"sent", "rejected"} => c = d
  /\ BreakUnderway => Stopped
  /\ \A i, j \in 1..Len(wire) : wire[i].kind = "break" /\ wire[j].kind \in {"break", "accepted"} => j <= i

PauseInv == WireInv /\ RevisionInv /\ KnownInv /\ (blind = {} /\ hub => SightedInv)

\* What a push does to the pause.
LEMMA PushedState ==
  ASSUME NEW kind \in Kinds, NEW run \in Nat, NEW results \in Nat, Push(kind, run, results)
  PROVE  /\ kind = "break" => paused' /\ executionRevision' = executionRevision + 1
         /\ kind \in {"detached", "fatal"} => ~paused' /\ ~bound' /\ executionRevision' = executionRevision + 1
         /\ kind \in {"sessionBound", "testRunFinished"} => paused' = paused /\ executionRevision' = executionRevision
         /\ kind \in {"break", "testRunFinished"} => bound' = bound
<1>1. ExecutionState(kind)
  BY DEF Push
<1> QED
  BY <1>1 DEF ExecutionState

\* What the pause and the resumes are about.
PauseTyped ==
  /\ wire \in Seq(Message) /\ resume \in [Callers -> Resume] /\ executionRevision \in Nat
  /\ {paused, hub, bound, userFiltered} \subseteq BOOLEAN /\ blind \subseteq Blindness

LEMMA PauseTypes == TypeOK => PauseTyped
BY DEF TypeOK, PauseTyped

\* The client takes the first message of the wire.
LEMMA WireTaken ==
  ASSUME PauseTyped, wire # <<>>, wire' = Tail(wire)
  PROVE  /\ Len(wire) \in Nat /\ Len(wire) >= 1 /\ Len(wire') = Len(wire) - 1 /\ wire[1] = Head(wire)
         /\ \A i \in 1..Len(wire') : i + 1 \in 1..Len(wire) /\ wire'[i] = wire[i + 1]
         /\ \A i \in 1..Len(wire) : i # 1 => i - 1 \in 1..Len(wire') /\ wire'[i - 1] = wire[i]
<1>1. /\ Len(wire) \in Nat /\ Len(wire) >= 1 /\ Len(wire') = Len(wire) - 1 /\ wire[1] = Head(wire)
      /\ \A i \in 1..Len(wire') : wire'[i] = wire[i + 1]
  BY HeadTailProperties DEF PauseTyped
<1>2. \A i \in 1..Len(wire) : i # 1 => i - 1 \in 1..Len(wire') /\ (i - 1) + 1 = i
  BY <1>1
<1> QED
  BY <1>1, <1>2

\* The server sends one more.
LEMMA WireSent ==
  ASSUME PauseTyped, NEW m \in Message, wire' = Append(wire, m)
  PROVE  /\ Len(wire) \in Nat /\ Len(wire') = Len(wire) + 1 /\ wire'[Len(wire')] = m
         /\ \A i \in 1..Len(wire) : i \in 1..Len(wire') /\ wire'[i] = wire[i]
         /\ \A i \in 1..Len(wire') : i \in 1..Len(wire) \/ i = Len(wire')
<1>1. /\ Len(wire) \in Nat /\ Len(wire') = Len(wire) + 1 /\ wire'[Len(wire')] = m
      /\ \A i \in 1..Len(wire) : wire'[i] = wire[i]
  BY AppendProperties DEF PauseTyped
<1> QED
  BY <1>1

\* What of the wire the invariant is about, when a message is taken: less.
LEMMA TakenLess ==
  ASSUME PauseTyped, PauseInv, wire # <<>>, wire' = Tail(wire)
  PROVE  /\ BreakUnderway' => BreakUnderway
         /\ Head(wire).kind # "break" => (BreakUnderway => BreakUnderway')
         /\ DetachUnderway' => DetachUnderway
         /\ \A c \in Callers : AcceptedOnWire(c)' => AcceptedOnWire(c)
         /\ \A c \in Callers : AcceptedOnWire(c) => AcceptedOnWire(c)' \/ (Head(wire).kind = "accepted" /\ Head(wire).caller = c)
         /\ \A i, j \in 1..Len(wire'), c \in Callers : (Completes(i, c) /\ Completes(j, c))' => i = j
         /\ \A i \in 1..Len(wire'), c \in Callers : Completes(i, c)' =>
              resume[c].pc = "sent" /\ (Head(wire).kind \in {"accepted", "refused"} => Head(wire).caller # c)
<1>1. /\ Len(wire) \in Nat /\ Len(wire) >= 1 /\ Len(wire') = Len(wire) - 1 /\ wire[1] = Head(wire)
      /\ \A i \in 1..Len(wire') : i + 1 \in 1..Len(wire) /\ wire'[i] = wire[i + 1]
      /\ \A i \in 1..Len(wire) : i # 1 => i - 1 \in 1..Len(wire') /\ wire'[i - 1] = wire[i]
  BY WireTaken
<1>2. (BreakUnderway' => BreakUnderway) /\ (DetachUnderway' => DetachUnderway)
  BY <1>1 DEF BreakUnderway, DetachUnderway
<1>3. Head(wire).kind # "break" => (BreakUnderway => BreakUnderway')
  BY <1>1 DEF BreakUnderway
<1>4. \A c \in Callers : /\ AcceptedOnWire(c)' => AcceptedOnWire(c)
                         /\ AcceptedOnWire(c) => AcceptedOnWire(c)' \/ (Head(wire).kind = "accepted" /\ Head(wire).caller = c)
  BY <1>1 DEF AcceptedOnWire
<1>5. \A i \in 1..Len(wire'), c \in Callers : Completes(i, c)' => Completes(i + 1, c)
  BY <1>1 DEF Completes
<1>6. 1 \in 1..Len(wire) /\ \A i \in 1..Len(wire') : i \in Nat /\ i + 1 # 1
  BY <1>1
<1>7. \A i, j \in 1..Len(wire'), c \in Callers : (Completes(i, c) /\ Completes(j, c))' => i = j
  <2> SUFFICES ASSUME NEW i \in 1..Len(wire'), NEW j \in 1..Len(wire'), NEW c \in Callers, Completes(i, c)', Completes(j, c)'
               PROVE  i = j
    OBVIOUS
  <2>1. i + 1 = j + 1
    BY <1>1, <1>5 DEF PauseInv, WireInv
  <2> QED
    BY <1>6, <2>1
<1>8. \A i \in 1..Len(wire'), c \in Callers : Completes(i, c)' =>
        resume[c].pc = "sent" /\ (Head(wire).kind \in {"accepted", "refused"} => Head(wire).caller # c)
  <2> SUFFICES ASSUME NEW i \in 1..Len(wire'), NEW c \in Callers, Completes(i, c)'
               PROVE  resume[c].pc = "sent" /\ (Head(wire).kind \in {"accepted", "refused"} => Head(wire).caller # c)
    OBVIOUS
  <2>1. Completes(i + 1, c) /\ i + 1 \in 1..Len(wire) /\ i + 1 # 1
    BY <1>1, <1>5, <1>6
  <2>2. ~Completes(1, c)
    BY <1>6, <2>1 DEF PauseInv, WireInv
  <2> QED
    BY <1>1, <2>1, <2>2 DEF PauseInv, WireInv, Completes
<1> QED
  BY <1>2, <1>3, <1>4, <1>7, <1>8

\* A message taken leaves the order of the rest, and no break behind one that was taken.
LEMMA TakenOrder ==
  ASSUME PauseTyped, SightedInv, wire # <<>>, wire' = Tail(wire)
  PROVE  /\ \A i, j \in 1..Len(wire') : wire'[i].kind = "break" /\ wire'[j].kind \in {"break", "accepted"} => j <= i
         /\ Head(wire).kind = "break" => ~BreakUnderway' /\ \A c \in Callers : ~AcceptedOnWire(c)
<1>1. /\ Len(wire) \in Nat /\ Len(wire) >= 1 /\ Len(wire') = Len(wire) - 1 /\ wire[1] = Head(wire)
      /\ \A i \in 1..Len(wire') : i + 1 \in 1..Len(wire) /\ wire'[i] = wire[i + 1]
  BY WireTaken
<1>2. \A i, j \in 1..Len(wire) : wire[i].kind = "break" /\ wire[j].kind \in {"break", "accepted"} => j <= i
  BY DEF SightedInv
<1>3. \A i, j \in 1..Len(wire') : wire'[i].kind = "break" /\ wire'[j].kind \in {"break", "accepted"} => j <= i
  <2> SUFFICES ASSUME NEW i \in 1..Len(wire'), NEW j \in 1..Len(wire'),
                      wire'[i].kind = "break", wire'[j].kind \in {"break", "accepted"}
               PROVE  j <= i
    OBVIOUS
  <2>1. j + 1 <= i + 1
    BY <1>1, <1>2
  <2> QED
    BY <1>1, <2>1
<1>4. ASSUME Head(wire).kind = "break" PROVE ~BreakUnderway' /\ \A c \in Callers : ~AcceptedOnWire(c)
  <2>1. \A j \in 1..Len(wire) : wire[j].kind \in {"break", "accepted"} => j = 1
    <3>1. 1 \in 1..Len(wire)
      BY <1>1
    <3>2. \A j \in 1..Len(wire) : j <= 1 => j = 1
      BY <1>1
    <3> QED
      BY <1>1, <1>2, <1>4, <3>1, <3>2
  <2>2. ~BreakUnderway'
    <3> SUFFICES ASSUME NEW i \in 1..Len(wire'), wire'[i].kind = "break" PROVE FALSE
      BY DEF BreakUnderway
    <3>1. i + 1 = 1
      BY <1>1, <2>1
    <3> QED
      BY <1>1, <3>1
  <2>3. \A c \in Callers : ~AcceptedOnWire(c)
    BY <1>1, <1>4, <2>1 DEF AcceptedOnWire
  <2> QED
    BY <2>2, <2>3
<1> QED
  BY <1>3, <1>4

\* A stopped workload stays so while messages are taken, until the news of its loss is.
LEMMA StoppedTaken ==
  ASSUME PauseTyped, Stopped, wire # <<>>, wire' = Tail(wire), workload' = workload,
         Head(wire).kind # "fatal" \/ BreakUnderway'
  PROVE  Stopped'
<1>1. CASE workload = "paused"
  BY <1>1 DEF Stopped
<1>2. CASE workload # "paused"
  <2>1. workload = "gone"
    BY <1>2 DEF Stopped
  <2>2. PICK k \in 1..Len(wire) : wire[k].kind = "fatal" /\ \A i \in 1..Len(wire) : wire[i].kind = "break" => i < k
    BY <1>2 DEF Stopped
  <2>3. /\ Len(wire) \in Nat /\ Len(wire) >= 1 /\ wire[1] = Head(wire)
        /\ \A i \in 1..Len(wire') : i + 1 \in 1..Len(wire) /\ wire'[i] = wire[i + 1]
        /\ \A i \in 1..Len(wire) : i # 1 => i - 1 \in 1..Len(wire') /\ wire'[i - 1] = wire[i]
    BY WireTaken
  <2>4. k # 1
    <3>1. CASE Head(wire).kind # "fatal"
      BY <2>2, <2>3, <3>1
    <3>2. CASE BreakUnderway'
      <4>1. PICK i \in 1..Len(wire') : wire'[i].kind = "break"
        BY <3>2 DEF BreakUnderway
      <4>2. i + 1 < k /\ i \in Nat
        BY <2>2, <2>3, <4>1
      <4> QED
        BY <4>2
    <3> QED
      BY <3>1, <3>2
  <2>5. k - 1 \in 1..Len(wire') /\ wire'[k - 1].kind = "fatal"
    BY <2>2, <2>3, <2>4
  <2>6. \A i \in 1..Len(wire') : wire'[i].kind = "break" => i < k - 1
    <3> SUFFICES ASSUME NEW i \in 1..Len(wire'), wire'[i].kind = "break" PROVE i < k - 1
      OBVIOUS
    <3>1. i + 1 < k
      BY <2>2, <2>3
    <3> QED
      BY <3>1
  <2> QED
    BY <2>1, <2>5, <2>6 DEF Stopped
<1> QED
  BY <1>1, <1>2

\* ... and while anything but a break is sent.
LEMMA StoppedSent ==
  ASSUME PauseTyped, NEW m \in Message, m.kind # "break", wire' = Append(wire, m),
         (Stopped /\ workload' = workload) \/ (m.kind = "fatal" /\ workload' = "gone")
  PROVE  Stopped'
<1>1. /\ Len(wire) \in Nat /\ Len(wire') = Len(wire) + 1 /\ wire'[Len(wire')] = m
      /\ \A i \in 1..Len(wire) : i \in 1..Len(wire') /\ wire'[i] = wire[i]
      /\ \A i \in 1..Len(wire') : i \in 1..Len(wire) \/ i = Len(wire')
  BY WireSent
<1>2. CASE m.kind = "fatal" /\ workload' = "gone"
  <2>1. Len(wire') \in 1..Len(wire') /\ wire'[Len(wire')].kind = "fatal"
    BY <1>1, <1>2
  <2>2. \A i \in 1..Len(wire') : wire'[i].kind = "break" => i < Len(wire')
    BY <1>1
  <2> QED
    BY <1>2, <2>1, <2>2 DEF Stopped
<1>3. CASE Stopped /\ workload' = workload
  BY <1>1, <1>3 DEF Stopped
<1> QED
  BY <1>2, <1>3

LEMMA QuietPause ==
  ASSUME PauseInv, UNCHANGED <<wire, workload, hub, identity, closing, bound, resume>>,
         UNCHANGED <<paused, executionRevision, blind, disowned>>
  PROVE  PauseInv'
<1>1. WireInv' /\ RevisionInv'
  BY DEF PauseInv, WireInv, RevisionInv, Completes, DetachUnderway
<1>2. KnownInv'
  BY DEF PauseInv, KnownInv, BreakUnderway, Restores, AcceptedOnWire
<1>3. blind' = {} /\ hub' => SightedInv'
  BY DEF PauseInv, SightedInv, Stopped, Refusable, BreakUnderway, AcceptedOnWire
<1> QED
  BY <1>1, <1>2, <1>3 DEF PauseInv

LEMMA BoundPause ==
  ASSUME PauseTyped, PauseInv, SessionBound
  PROVE  PauseInv'
<1>1. /\ UNCHANGED <<wire, workload, hub, closing, resume, paused, executionRevision, blind, disowned>>
      /\ hub /\ identity = "lookup" /\ (bound' => identity' = "known")
  BY PushedState DEF SessionBound, Kinds, server, calls
<1>2. WireInv' /\ RevisionInv'
  BY <1>1 DEF PauseInv, WireInv, RevisionInv, Completes, DetachUnderway
<1>3. KnownInv'
  BY <1>1 DEF PauseInv, KnownInv, BreakUnderway, Restores, AcceptedOnWire
<1>4. blind' = {} => SightedInv'
  BY <1>1 DEF PauseInv, SightedInv, Stopped, Refusable, BreakUnderway, AcceptedOnWire
<1> QED
  BY <1>2, <1>3, <1>4 DEF PauseInv

LEMMA CallbackPause ==
  ASSUME PauseTyped, PauseInv, Callback
  PROVE  PauseInv'
<1>1. /\ hub /\ wire # <<>> /\ wire' = Tail(wire) /\ Head(wire).kind \in {"break", "detached"}
      /\ UNCHANGED <<workload, resume, blind, hub, identity, closing>> /\ disowned' = (disowned /\ Head(wire).kind # "break")
      /\ Push(Head(wire).kind, 0, 0)
  BY DEF Callback, calls, hubState
<1>2. /\ Head(wire).kind = "break" => paused' /\ bound' = bound
      /\ Head(wire).kind = "detached" => ~paused' /\ ~bound' /\ DetachUnderway
      /\ executionRevision' = executionRevision + 1 /\ executionRevision \in Nat
  <2>1. Head(wire).kind \in Kinds /\ 0 \in Nat
    BY <1>1 DEF Kinds
  <2>2. 1 \in 1..Len(wire) /\ wire[1] = Head(wire)
    BY <1>1, WireTaken
  <2> QED
    BY <1>1, <2>1, <2>2, PushedState DEF PauseTyped, DetachUnderway
<1>3. WireInv'
  BY <1>1, <1>2, TakenLess DEF PauseInv, WireInv
<1>4. RevisionInv' /\ \A c \in Callers : resume[c].pc # "idle" => resume'[c].revision # executionRevision'
  <2>1. \A c \in Callers : resume[c].revision \in Nat
    BY DEF PauseTyped, Resume
  <2> QED
    BY <1>1, <1>2, <2>1 DEF PauseInv, RevisionInv
<1>5. KnownInv'
  <2>1. CASE Head(wire).kind = "break"
    BY <1>2, <2>1 DEF KnownInv
  <2>2. CASE Head(wire).kind = "detached"
    BY <1>1, <1>2, <2>2 DEF PauseInv, WireInv, KnownInv
  <2> QED
    BY <1>1, <2>1, <2>2
<1>6. ASSUME blind' = {} PROVE SightedInv'
  <2>0. SightedInv
    BY <1>1, <1>6 DEF PauseInv
  <2>1. \A i, j \in 1..Len(wire') : wire'[i].kind = "break" /\ wire'[j].kind \in {"break", "accepted"} => j <= i
    BY <1>1, <2>0, TakenOrder
  <2>2. CASE Head(wire).kind = "break"
    <3>1. ~BreakUnderway' /\ \A c \in Callers : ~AcceptedOnWire(c)
      BY <1>1, <2>0, <2>2, TakenOrder
    <3>2. BreakUnderway
      BY <1>1, <2>2, WireTaken DEF BreakUnderway
    <3>3. Stopped /\ \A c \in Callers : resume[c].pc \notin {"sent", "rejected"}
      BY <1>1, <2>0, <3>1, <3>2 DEF SightedInv, Refusable
    <3>4. Stopped'
      BY <1>1, <2>2, <3>3, StoppedTaken
    <3> QED
      BY <1>1, <2>1, <3>1, <3>3, <3>4 DEF SightedInv, Refusable
  <2>3. CASE Head(wire).kind = "detached"
    <3>1. ~paused' /\ workload = "gone"
      BY <1>2, <2>3 DEF PauseInv, WireInv
    <3>2. \A c \in Callers : AcceptedOnWire(c) => AcceptedOnWire(c)'
      BY <1>1, <2>3, TakenLess
    <3>3. (BreakUnderway' => BreakUnderway) /\ (Stopped => Stopped')
      BY <1>1, <2>3, TakenLess, StoppedTaken
    <3>4. \A c \in Callers : Refusable(c)' => Refusable(c) /\ resume'[c].revision # executionRevision'
      BY <1>1, <1>4, <3>2 DEF Refusable
    <3> QED
      BY <1>1, <2>0, <2>1, <3>1, <3>3, <3>4 DEF SightedInv
  <2> QED
    BY <1>1, <2>2, <2>3
<1> QED
  BY <1>3, <1>4, <1>5, <1>6 DEF PauseInv

\* The server's fatal exception clears the pause of a workload that may well be stopped, or, before
\* the bind is reported, takes the hub of a user-filtered attach.
LEMMA FatalPause ==
  ASSUME PauseTyped, PauseInv, OnFatalDebuggerException
  PROVE  PauseInv'
<1>1. /\ hub /\ wire # <<>> /\ wire' = Tail(wire) /\ Head(wire).kind = "fatal"
      /\ UNCHANGED <<workload, resume, blind, identity>>
  BY DEF OnFatalDebuggerException, calls
<1>2. CASE hub' = FALSE /\ identity # "known" /\ UNCHANGED <<session, disowned>>
  <2>1. UNCHANGED <<bound, paused, executionRevision>> /\ ~bound
    BY <1>2 DEF session, PauseInv, WireInv
  <2>2. WireInv'
    BY <1>1, <1>2, <2>1, TakenLess DEF PauseInv, WireInv
  <2>3. RevisionInv' /\ KnownInv'
    BY <1>1, <1>2, <2>1 DEF PauseInv, RevisionInv, KnownInv
  <2> QED
    BY <1>2, <2>2, <2>3 DEF PauseInv
<1>3. CASE Push("fatal", 0, 0) /\ disowned' = TRUE /\ UNCHANGED <<hub, closing>>
  <2>1. ~paused' /\ ~bound' /\ executionRevision' = executionRevision + 1 /\ executionRevision \in Nat
    BY <1>3, PushedState DEF PauseTyped, Kinds
  <2>2. WireInv'
    BY <1>1, <1>3, <2>1, TakenLess DEF PauseInv, WireInv
  <2>3. RevisionInv' /\ \A c \in Callers : resume[c].pc # "idle" => resume'[c].revision # executionRevision'
    <3>1. \A c \in Callers : resume[c].revision \in Nat
      BY DEF PauseTyped, Resume
    <3> QED
      BY <1>1, <2>1, <3>1 DEF PauseInv, RevisionInv
  <2>4. KnownInv'
    BY <1>3 DEF KnownInv
  <2>5. ASSUME blind' = {} PROVE SightedInv'
    <3>0. SightedInv
      BY <1>1, <2>5 DEF PauseInv
    <3>1. \A i, j \in 1..Len(wire') : wire'[i].kind = "break" /\ wire'[j].kind \in {"break", "accepted"} => j <= i
      BY <1>1, <3>0, TakenOrder
    <3>2. \A c \in Callers : AcceptedOnWire(c) => AcceptedOnWire(c)'
      BY <1>1, TakenLess
    <3>3. (BreakUnderway' => BreakUnderway) /\ (BreakUnderway' => Stopped')
      BY <1>1, <3>0, TakenLess, StoppedTaken DEF SightedInv
    <3>4. \A c \in Callers : Refusable(c)' => Refusable(c) /\ resume'[c].revision # executionRevision'
      BY <1>1, <2>3, <3>2 DEF Refusable
    <3> QED
      BY <1>1, <2>1, <3>0, <3>1, <3>3, <3>4 DEF SightedInv
  <2> QED
    BY <2>2, <2>3, <2>4, <2>5 DEF PauseInv
<1> QED
  BY <1>2, <1>3 DEF OnFatalDebuggerException

LEMMA IgnoredPause ==
  ASSUME PauseTyped, PauseInv, Ignored
  PROVE  PauseInv'
<1>1. /\ ~hub /\ wire # <<>> /\ wire' = Tail(wire)
      /\ UNCHANGED <<workload, resume, blind, paused, bound, executionRevision, hub, identity, closing>>
  BY DEF Ignored, calls, session, hubState
<1>2. WireInv' /\ RevisionInv' /\ KnownInv'
  BY <1>1, TakenLess DEF PauseInv, WireInv, RevisionInv, KnownInv
<1> QED
  BY <1>1, <1>2 DEF PauseInv

LEMMA CompletionPause ==
  ASSUME PauseTyped, PauseInv, Completion
  PROVE  PauseInv'
<1>0. PICK a : a = Head(wire).caller
  OBVIOUS
<1>1. /\ wire # <<>> /\ wire' = Tail(wire) /\ Head(wire).kind \in {"accepted", "refused"}
      /\ UNCHANGED <<paused, bound, executionRevision, workload, blind, hub, identity, closing, disowned>>
      /\ resume' = [resume EXCEPT ![a].pc = IF Head(wire).kind = "accepted" THEN "answered" ELSE "rejected"]
  BY <1>0 DEF Completion, session, hubState
<1>2. a \in Callers
  <2>1. Head(wire) \in Message
    BY <1>1, HeadTailProperties DEF PauseTyped
  <2> QED
    BY <1>0, <1>1, <2>1 DEF Message
<1>3. wire[1] = Head(wire) /\ 1 \in 1..Len(wire)
  BY <1>1, WireTaken
<1>4. resume[a].pc = "sent"
  BY <1>0, <1>1, <1>2, <1>3 DEF PauseInv, WireInv, Completes
<1>5. /\ \A c \in Callers : /\ resume'[c].revision = resume[c].revision /\ resume'[c].wasPaused = resume[c].wasPaused
                            /\ c # a => resume'[c].pc = resume[c].pc
      /\ Head(wire).kind = "accepted" => resume'[a].pc = "answered"
      /\ Head(wire).kind = "refused" => resume'[a].pc = "rejected"
  BY <1>1, <1>2 DEF PauseTyped, Resume
<1>6. WireInv'
  <2>1. \A i \in 1..Len(wire'), c \in Callers : Completes(i, c)' => resume'[c].pc = "sent"
    BY <1>0, <1>1, <1>5, TakenLess
  <2> QED
    BY <1>1, <1>2, <2>1, TakenLess DEF PauseInv, WireInv
<1>7. RevisionInv'
  <2>1. \A c \in Callers : resume'[c].pc # "idle" => resume[c].pc # "idle"
    BY <1>4, <1>5
  <2> QED
    BY <1>1, <1>5, <2>1 DEF PauseInv, RevisionInv
<1>8. ASSUME NEW c \in Callers, resume[c].pc \in {"sent", "rejected"}, ~AcceptedOnWire(c)
      PROVE  resume'[c].pc \in {"sent", "rejected"} /\ ~AcceptedOnWire(c)'
  <2>1. ~(Head(wire).kind = "accepted" /\ a = c)
    BY <1>0, <1>3, <1>8 DEF AcceptedOnWire
  <2> QED
    BY <1>1, <1>5, <1>8, <2>1, TakenLess
<1>9. BreakUnderway' <=> BreakUnderway
  BY <1>1, TakenLess
<1>10. KnownInv'
  <2>1. \A c \in Callers : Restores(c) => Restores(c)'
    BY <1>1, <1>5, <1>8 DEF Restores
  <2> QED
    BY <1>1, <1>9, <2>1 DEF PauseInv, KnownInv
<1>11. ASSUME blind' = {}, hub PROVE SightedInv'
  <2>0. SightedInv
    BY <1>1, <1>11 DEF PauseInv
  <2>1. \A i, j \in 1..Len(wire') : wire'[i].kind = "break" /\ wire'[j].kind \in {"break", "accepted"} => j <= i
    BY <1>1, <2>0, TakenOrder
  <2>2. \A c \in Callers : resume'[c].pc \in {"sent", "rejected"} => resume[c].pc \in {"sent", "rejected"}
    BY <1>4, <1>5
  <2>3. ASSUME NEW c \in Callers, resume'[c].pc \in {"sent", "rejected"}, ~AcceptedOnWire(c)'
        PROVE  ~AcceptedOnWire(c)
    <3>1. ~(Head(wire).kind = "accepted" /\ a = c)
      BY <1>5, <2>3
    <3> QED
      BY <1>0, <1>1, <2>3, <3>1, TakenLess
  <2>4. \A c \in Callers : Refusable(c)' => Refusable(c) /\ resume'[c].revision = resume[c].revision
    BY <1>5, <2>2, <2>3 DEF Refusable
  <2>5. Stopped => Stopped'
    BY <1>1, StoppedTaken
  <2>6. paused => \A c \in Callers : resume'[c].pc \notin {"sent", "rejected"}
    BY <2>0, <2>2 DEF SightedInv
  <2> QED
    BY <1>1, <1>9, <2>0, <2>1, <2>2, <2>4, <2>5, <2>6 DEF SightedInv
<1> QED
  BY <1>1, <1>6, <1>7, <1>10, <1>11 DEF PauseInv

LEMMA ClosedPause ==
  ASSUME PauseTyped, PauseInv, HubClosed \/ HubStopped
  PROVE  PauseInv'
<1>1. /\ hub' = FALSE /\ wire' = <<>> /\ workload' = "gone"
      /\ resume' = [c \in Callers |->
           IF resume[c].pc = "sent" THEN [resume[c] EXCEPT !.pc = "rejected"] ELSE resume[c]]
  BY DEF PauseInv, WireInv, HubClosed, HubStopped, Disconnected, PauseTyped
<1>2. /\ executionRevision \in Nat
      /\ \/ ~paused' /\ ~bound' /\ executionRevision' = executionRevision + 1
         \/ UNCHANGED <<paused, bound, executionRevision>> /\ ~bound
  <2>1. CASE Push("fatal", 0, 0)
    BY <2>1, PushedState DEF PauseTyped, Kinds
  <2>2. CASE HubStopped /\ UNCHANGED session
    BY <2>2 DEF HubStopped, session, PauseTyped, PauseInv, WireInv
  <2> QED
    BY <2>1, <2>2, Zenon DEF HubClosed, HubStopped
<1>3. /\ Len(wire') = 0 /\ 1..Len(wire') = {}
  BY <1>1
<1>4. \A c \in Callers : /\ resume[c].revision \in Nat /\ resume'[c].revision = resume[c].revision
                         /\ resume'[c].pc # "idle" => resume[c].pc # "idle"
  BY <1>1 DEF PauseTyped, Resume
<1>5. WireInv'
  BY <1>1, <1>2, <1>3 DEF WireInv, DetachUnderway
<1>6. RevisionInv'
  BY <1>2, <1>4 DEF PauseInv, RevisionInv
<1>7. KnownInv'
  BY <1>1 DEF KnownInv
<1> QED
  BY <1>1, <1>5, <1>6, <1>7 DEF PauseInv

LEMMA MisconfiguredPause ==
  ASSUME PauseTyped, PauseInv, ConfigurationFails
  PROVE  PauseInv'
<1>1. /\ UNCHANGED <<wire, workload, identity, resume, blind>> /\ hub' = FALSE
      /\ ~paused' /\ ~bound' /\ executionRevision' = executionRevision + 1 /\ executionRevision \in Nat
  BY PushedState DEF ConfigurationFails, PauseTyped, Kinds, server, calls
<1>2. WireInv'
  BY <1>1 DEF PauseInv, WireInv, Completes, DetachUnderway
<1>3. RevisionInv'
  <2>1. \A c \in Callers : resume[c].revision \in Nat
    BY DEF PauseTyped, Resume
  <2> QED
    BY <1>1, <2>1 DEF PauseInv, RevisionInv
<1> QED
  BY <1>1, <1>2, <1>3 DEF PauseInv, KnownInv

LEMMA RunFailedPause ==
  ASSUME PauseTyped, PauseInv, RunFailed, testRun \in Nat
  PROVE  PauseInv'
<1>1. /\ UNCHANGED <<wire, workload, hub, identity, closing, resume, blind>> /\ disowned'
      /\ ~paused' /\ ~bound' /\ executionRevision' = executionRevision + 1 /\ executionRevision \in Nat
  BY PushedState DEF RunFailed, PauseTyped, Kinds, server, calls, hubState
<1>2. WireInv'
  BY <1>1 DEF PauseInv, WireInv, Completes, DetachUnderway
<1>3. RevisionInv' /\ \A c \in Callers : resume[c].pc # "idle" => resume'[c].revision # executionRevision'
  <2>1. \A c \in Callers : resume[c].revision \in Nat
    BY DEF PauseTyped, Resume
  <2> QED
    BY <1>1, <2>1 DEF PauseInv, RevisionInv
<1>4. KnownInv'
  BY <1>1 DEF KnownInv
<1>5. ASSUME blind' = {}, hub PROVE SightedInv'
  <2>1. SightedInv
    BY <1>1, <1>5 DEF PauseInv
  <2>2. \A c \in Callers : Refusable(c)' => Refusable(c) /\ resume'[c].revision # executionRevision'
    BY <1>1, <1>3 DEF Refusable, AcceptedOnWire
  <2> QED
    BY <1>1, <2>1, <2>2 DEF SightedInv, BreakUnderway, Stopped
<1> QED
  BY <1>1, <1>2, <1>3, <1>4, <1>5 DEF PauseInv

\* The first bind, which finds nothing said of a workload yet.
LEMMA BindPause ==
  ASSUME PauseTyped, PauseInv, Bind
  PROVE  PauseInv'
<1>1. /\ hub /\ workload = "unbound" /\ workload' = "running"
      /\ UNCHANGED <<wire, hub, closing, bound, resume, paused, executionRevision, blind, disowned>>
      /\ identity' = "lookup" /\ identity = "none"
  BY DEF Bind, session, calls, PauseInv, WireInv
<1>2. WireInv' /\ RevisionInv' /\ KnownInv'
  BY <1>1 DEF PauseInv, WireInv, RevisionInv, KnownInv, Completes, DetachUnderway
<1>3. ASSUME blind' = {} PROVE SightedInv'
  <2>1. SightedInv
    BY <1>1, <1>3 DEF PauseInv
  <2> QED
    BY <1>1, <2>1 DEF SightedInv, Stopped, Refusable, BreakUnderway, AcceptedOnWire
<1> QED
  BY <1>2, <1>3 DEF PauseInv

\* What of the wire the invariant is about, when a callback is sent.
LEMMA CallbackSent ==
  ASSUME PauseTyped, WireInv, NEW m \in Message, m.kind \in {"break", "detached", "fatal"}, wire' = Append(wire, m),
         resume' = resume
  PROVE  /\ \A c \in Callers : AcceptedOnWire(c)' <=> AcceptedOnWire(c)
         /\ BreakUnderway' <=> BreakUnderway \/ m.kind = "break"
         /\ DetachUnderway' <=> DetachUnderway \/ m.kind = "detached"
         /\ \A i \in 1..Len(wire'), c \in Callers : Completes(i, c)' => resume[c].pc = "sent"
         /\ \A i, j \in 1..Len(wire'), c \in Callers : (Completes(i, c) /\ Completes(j, c))' => i = j
<1>1. /\ Len(wire) \in Nat /\ Len(wire') = Len(wire) + 1 /\ wire'[Len(wire')] = m
      /\ \A i \in 1..Len(wire) : i \in 1..Len(wire') /\ wire'[i] = wire[i]
      /\ \A i \in 1..Len(wire') : i \in 1..Len(wire) \/ i = Len(wire')
  BY WireSent
<1>2. Len(wire') \in 1..Len(wire')
  BY <1>1
<1>3. \A c \in Callers : AcceptedOnWire(c)' <=> AcceptedOnWire(c)
  BY <1>1 DEF AcceptedOnWire
<1>4. /\ BreakUnderway' <=> BreakUnderway \/ m.kind = "break"
      /\ DetachUnderway' <=> DetachUnderway \/ m.kind = "detached"
  BY <1>1, <1>2 DEF BreakUnderway, DetachUnderway
<1>5. \A i \in 1..Len(wire'), c \in Callers : Completes(i, c)' => i \in 1..Len(wire) /\ Completes(i, c)
  BY <1>1 DEF Completes
<1>6. \A i \in 1..Len(wire'), c \in Callers : Completes(i, c)' => resume[c].pc = "sent"
  BY <1>5 DEF WireInv
<1>7. \A i, j \in 1..Len(wire'), c \in Callers : (Completes(i, c) /\ Completes(j, c))' => i = j
  BY <1>5 DEF WireInv
<1> QED
  BY <1>3, <1>4, <1>6, <1>7

LEMMA BreakPause ==
  ASSUME PauseTyped, PauseInv, BreakHit
  PROVE  PauseInv'
<1>1. PICK m : m = [kind |-> "break"]
  OBVIOUS
<1>2. /\ workload = "running" /\ workload' = "paused" /\ wire' = Append(wire, m)
      /\ UNCHANGED <<hub, identity, closing, bound, resume, paused, executionRevision, blind, disowned>>
  BY <1>1 DEF BreakHit, session, calls, hubState
<1>3. m \in Message /\ m.kind = "break"
  BY <1>1 DEF Message
<1>4. /\ \A c \in Callers : AcceptedOnWire(c)' <=> AcceptedOnWire(c)
      /\ BreakUnderway' /\ ~DetachUnderway'
      /\ \A i \in 1..Len(wire'), c \in Callers : Completes(i, c)' => resume[c].pc = "sent"
      /\ \A i, j \in 1..Len(wire'), c \in Callers : (Completes(i, c) /\ Completes(j, c))' => i = j
  BY <1>2, <1>3, CallbackSent DEF PauseInv, WireInv
<1>5. WireInv' /\ RevisionInv' /\ KnownInv'
  BY <1>2, <1>4 DEF PauseInv, WireInv, RevisionInv, KnownInv
<1>6. ASSUME blind' = {}, hub PROVE SightedInv'
  <2>1. SightedInv
    BY <1>2, <1>6 DEF PauseInv
  <2>2. ~BreakUnderway /\ ~paused /\ \A c \in Callers : ~Refusable(c)
    BY <1>2, <2>1 DEF SightedInv, Stopped
  <2>3. \A i, j \in 1..Len(wire') : wire'[i].kind = "break" /\ wire'[j].kind \in {"break", "accepted"} => j <= i
    <3>1. /\ Len(wire) \in Nat /\ Len(wire') = Len(wire) + 1
          /\ \A i \in 1..Len(wire) : wire'[i] = wire[i]
          /\ \A i \in 1..Len(wire') : i \in 1..Len(wire) \/ i = Len(wire')
      BY <1>2, <1>3, WireSent
    <3>2. \A i \in 1..Len(wire') : wire'[i].kind = "break" => i = Len(wire')
      BY <2>2, <3>1 DEF BreakUnderway
    <3> QED
      BY <3>1, <3>2
  <2> QED
    BY <1>2, <1>4, <2>1, <2>2, <2>3 DEF SightedInv, Stopped, Refusable
<1> QED
  BY <1>2, <1>5, <1>6 DEF PauseInv

LEMMA EndsPause ==
  ASSUME PauseTyped, PauseInv, WorkloadEnds
  PROVE  PauseInv'
<1>1. PICK m : m = [kind |-> "detached"]
  OBVIOUS
<1>2. /\ workload = "running" /\ workload' = "gone" /\ wire' = Append(wire, m)
      /\ UNCHANGED <<hub, identity, closing, bound, resume, paused, executionRevision, blind, disowned>>
  BY <1>1 DEF WorkloadEnds, session, calls, hubState
<1>3. m \in Message /\ m.kind = "detached"
  BY <1>1 DEF Message
<1>4. /\ \A c \in Callers : AcceptedOnWire(c)' <=> AcceptedOnWire(c)
      /\ (BreakUnderway' <=> BreakUnderway)
      /\ \A i \in 1..Len(wire'), c \in Callers : Completes(i, c)' => resume[c].pc = "sent"
      /\ \A i, j \in 1..Len(wire'), c \in Callers : (Completes(i, c) /\ Completes(j, c))' => i = j
  BY <1>2, <1>3, CallbackSent DEF PauseInv, WireInv
<1>5. WireInv' /\ RevisionInv' /\ KnownInv'
  BY <1>2, <1>4 DEF PauseInv, WireInv, RevisionInv, KnownInv
<1>6. ASSUME blind' = {}, hub PROVE SightedInv'
  <2>1. SightedInv
    BY <1>2, <1>6 DEF PauseInv
  <2>2. ~BreakUnderway /\ ~paused /\ \A c \in Callers : ~Refusable(c)
    BY <1>2, <2>1 DEF SightedInv, Stopped
  <2>3. \A i \in 1..Len(wire') : wire'[i].kind # "break"
    BY <1>4, <2>2 DEF BreakUnderway
  <2> QED
    BY <1>2, <1>4, <2>1, <2>2, <2>3 DEF SightedInv, Refusable
<1> QED
  BY <1>2, <1>5, <1>6 DEF PauseInv

\* The server's debugger fails: a stopped workload stays stopped, or is lost and the news is last.
LEMMA FailsPause ==
  ASSUME PauseTyped, PauseInv, ServerFails
  PROVE  PauseInv'
<1>1. PICK m : m = [kind |-> "fatal"]
  OBVIOUS
<1>2. /\ hub /\ workload' \in {workload, "gone"} /\ wire' = Append(wire, m)
      /\ UNCHANGED <<hub, identity, closing, bound, resume, paused, executionRevision, blind, disowned>>
  BY <1>1 DEF ServerFails, session, calls, hubState
<1>3. m \in Message /\ m.kind = "fatal"
  BY <1>1 DEF Message
<1>4. /\ \A c \in Callers : AcceptedOnWire(c)' <=> AcceptedOnWire(c)
      /\ (BreakUnderway' <=> BreakUnderway) /\ (DetachUnderway' <=> DetachUnderway)
      /\ \A i \in 1..Len(wire'), c \in Callers : Completes(i, c)' => resume[c].pc = "sent"
      /\ \A i, j \in 1..Len(wire'), c \in Callers : (Completes(i, c) /\ Completes(j, c))' => i = j
  BY <1>2, <1>3, CallbackSent DEF PauseInv
<1>5. WireInv' /\ RevisionInv' /\ KnownInv'
  BY <1>2, <1>4 DEF PauseInv, WireInv, RevisionInv, KnownInv, Restores
<1>6. ASSUME blind' = {} PROVE SightedInv'
  <2>1. SightedInv
    BY <1>2, <1>6 DEF PauseInv
  <2>2. \A i, j \in 1..Len(wire') : wire'[i].kind = "break" /\ wire'[j].kind \in {"break", "accepted"} => j <= i
    <3>1. /\ Len(wire) \in Nat /\ Len(wire') = Len(wire) + 1 /\ wire'[Len(wire')] = m
          /\ \A i \in 1..Len(wire) : wire'[i] = wire[i]
          /\ \A i \in 1..Len(wire') : i \in 1..Len(wire) \/ i = Len(wire')
      BY <1>2, <1>3, WireSent
    <3> QED
      BY <1>3, <2>1, <3>1 DEF SightedInv
  <2>3. Stopped => Stopped'
    BY <1>2, <1>3, StoppedSent
  <2>4. \A c \in Callers : Refusable(c)' <=> Refusable(c)
    BY <1>2, <1>4 DEF Refusable
  <2> QED
    BY <1>2, <1>4, <2>1, <2>2, <2>3, <2>4 DEF SightedInv
<1> QED
  BY <1>2, <1>5, <1>6 DEF PauseInv

LEMMA BeginPause ==
  ASSUME PauseTyped, PauseInv, NEW c \in Callers, BeginResume(c)
  PROVE  PauseInv'
<1>1. PICK x : x = [pc |-> IF hub THEN "sent" ELSE "rejected", revision |-> executionRevision + 1, wasPaused |-> paused]
  OBVIOUS
<1>2. /\ resume[c].pc = "idle" /\ resume' = [resume EXCEPT ![c] = x] /\ ~paused'
      /\ executionRevision' = executionRevision + 1 /\ executionRevision \in Nat
      /\ UNCHANGED <<wire, workload, hub, identity, closing, bound, disowned>>
      /\ blind' = IF paused THEN blind
                  ELSE blind \cup {IF \E d \in Callers : resume[d].pc # "idle" THEN "overlapping" ELSE "early"}
  BY <1>1 DEF BeginResume, server, hubState, PauseTyped
<1>3. /\ x.pc \in {"sent", "rejected"} /\ (x.pc = "sent" <=> hub) /\ x.revision = executionRevision + 1
      /\ x.wasPaused <=> paused
  BY <1>1
<1>4. resume'[c] = x /\ \A d \in Callers : (d # c => resume'[d] = resume[d]) /\ resume[d].revision \in Nat
  BY <1>2 DEF PauseTyped, Resume
<1>5. \A i \in 1..Len(wire) : ~Completes(i, c)
  BY <1>2 DEF PauseInv, WireInv
<1>6. ~AcceptedOnWire(c)
  BY <1>5 DEF AcceptedOnWire, Completes
<1>7. WireInv'
  <2>1. \A i \in 1..Len(wire), d \in Callers : Completes(i, d) => resume'[d].pc = "sent"
    BY <1>4, <1>5 DEF PauseInv, WireInv
  <2> QED
    BY <1>2, <1>3, <1>4, <2>1 DEF PauseInv, WireInv, Completes, DetachUnderway
<1>8. RevisionInv'
  <2>1. \A d \in Callers : d # c /\ resume[d].pc # "idle" => resume[d].revision < executionRevision + 1
    BY <1>2, <1>4 DEF PauseInv, RevisionInv
  <2>3. ASSUME NEW d \in Callers, resume'[d].pc # "idle"
        PROVE  /\ resume'[d].revision <= executionRevision'
               /\ d # c => resume'[d].revision # executionRevision'
    <3>1. CASE d = c
      BY <1>2, <1>3, <1>4, <3>1
    <3>2. CASE d # c
      BY <1>2, <1>4, <2>1, <2>3, <3>2
    <3> QED
      BY <3>1, <3>2
  <2>4. \A d, e \in Callers : resume'[d].pc # "idle" /\ resume'[e].pc # "idle" /\ d # e =>
          resume'[d].revision # resume'[e].revision
    <3> SUFFICES ASSUME NEW d \in Callers, NEW e \in Callers, resume'[d].pc # "idle", resume'[e].pc # "idle", d # e
                 PROVE  resume'[d].revision # resume'[e].revision
      OBVIOUS
    <3>1. CASE d = c \/ e = c
      BY <1>2, <1>3, <1>4, <2>1, <3>1
    <3>2. CASE d # c /\ e # c
      BY <1>4, <3>2 DEF PauseInv, RevisionInv
    <3> QED
      BY <3>1, <3>2
  <2> QED
    BY <1>2, <2>3, <2>4 DEF RevisionInv
<1>9. KnownInv'
  <2> SUFFICES ASSUME hub, workload = "paused", ~BreakUnderway, "overlapping" \notin blind', ~disowned
               PROVE  \E d \in Callers : Restores(d)'
    BY <1>2 DEF KnownInv, BreakUnderway
  <2>1. CASE paused
    BY <1>2, <1>3, <1>4, <1>6, <2>1 DEF Restores, AcceptedOnWire
  <2>2. CASE ~paused
    <3>1. "overlapping" \notin blind /\ \A d \in Callers : resume[d].pc = "idle"
      BY <1>2, <2>2
    <3> QED
      BY <2>2, <3>1 DEF PauseInv, KnownInv, Restores
  <2> QED
    BY <2>1, <2>2
<1>10. ASSUME blind' = {}, hub PROVE SightedInv'
  <2>1. paused /\ SightedInv
    BY <1>2, <1>10 DEF PauseInv
  <2>2. /\ Stopped /\ ~BreakUnderway
        /\ \A d \in Callers : resume[d].pc \notin {"sent", "rejected"}
    BY <2>1 DEF SightedInv
  <2>3. \A d \in Callers : resume'[d].pc \in {"sent", "rejected"} => d = c
    BY <1>4, <2>2
  <2>4. Stopped' /\ ~BreakUnderway' /\ workload' \in {"paused", "gone"}
    BY <1>2, <2>2 DEF Stopped, BreakUnderway
  <2> QED
    BY <1>2, <2>1, <2>3, <2>4 DEF SightedInv
<1> QED
  BY <1>2, <1>7, <1>8, <1>9, <1>10 DEF PauseInv

LEMMA AcceptedPause ==
  ASSUME PauseTyped, PauseInv, NEW c \in Callers, ResumeAccepted(c)
  PROVE  PauseInv'
<1>1. /\ resume[c].pc = "answered" /\ resume' = [resume EXCEPT ![c] = Idle]
      /\ UNCHANGED <<wire, workload, hub, identity, closing, bound, paused, executionRevision, blind, disowned>>
  BY DEF ResumeAccepted, session, server, hubState
<1>2. resume'[c].pc = "idle" /\ \A d \in Callers : d # c => resume'[d] = resume[d]
  BY <1>1 DEF PauseTyped, Idle
<1>3. WireInv' /\ RevisionInv'
  BY <1>1, <1>2 DEF PauseInv, WireInv, RevisionInv, Completes, DetachUnderway
<1>4. KnownInv'
  <2>1. \A d \in Callers : Restores(d) => d # c
    BY <1>1 DEF Restores
  <2> QED
    BY <1>1, <1>2, <2>1 DEF PauseInv, KnownInv, BreakUnderway, Restores, AcceptedOnWire
<1>5. blind' = {} /\ hub => SightedInv'
  BY <1>1, <1>2 DEF PauseInv, SightedInv, Stopped, Refusable, BreakUnderway, AcceptedOnWire
<1> QED
  BY <1>1, <1>3, <1>4, <1>5 DEF PauseInv

LEMMA RollbackPause ==
  ASSUME PauseTyped, PauseInv, NEW c \in Callers, RollbackResume(c)
  PROVE  PauseInv'
<1>1. /\ resume[c].pc = "rejected" /\ resume' = [resume EXCEPT ![c] = Idle]
      /\ paused' = IF executionRevision = resume[c].revision THEN resume[c].wasPaused ELSE paused
      /\ UNCHANGED <<wire, workload, hub, identity, closing, bound, executionRevision, blind, disowned>>
  BY DEF RollbackResume, events, server, hubState
<1>2. resume'[c].pc = "idle" /\ \A d \in Callers : d # c => resume'[d] = resume[d]
  BY <1>1 DEF PauseTyped, Idle
<1>3. ~AcceptedOnWire(c)
  BY <1>1 DEF PauseInv, WireInv, AcceptedOnWire, Completes
<1>4. resume[c].wasPaused \in BOOLEAN
  BY DEF PauseTyped, Resume
<1>5. /\ executionRevision = resume[c].revision => ~paused /\ (paused' <=> resume[c].wasPaused)
      /\ executionRevision # resume[c].revision => (paused' <=> paused)
  BY <1>1, <1>4 DEF PauseInv, RevisionInv
<1>6. WireInv'
  BY <1>1, <1>2 DEF PauseInv, WireInv, Completes, DetachUnderway
<1>7. RevisionInv'
  <2>1. \A d \in Callers : d # c /\ resume[d].pc # "idle" /\ executionRevision = resume[c].revision =>
          resume[d].revision # executionRevision
    BY <1>1 DEF PauseInv, RevisionInv
  <2> QED
    BY <1>1, <1>2, <1>5, <2>1 DEF PauseInv, RevisionInv
<1>8. KnownInv'
  <2> SUFFICES ASSUME hub, workload = "paused", ~BreakUnderway, "overlapping" \notin blind, ~disowned
               PROVE  paused' \/ \E d \in Callers : Restores(d)'
    BY <1>1 DEF KnownInv, BreakUnderway
  <2>1. CASE paused
    BY <1>5, <2>1
  <2>2. CASE ~paused
    <3>1. PICK d \in Callers : Restores(d)
      BY <2>2 DEF PauseInv, KnownInv
    <3>2. CASE d = c
      BY <1>5, <3>1, <3>2 DEF Restores
    <3>3. CASE d # c
      BY <1>1, <1>2, <3>1, <3>3 DEF Restores, AcceptedOnWire
    <3> QED
      BY <3>2, <3>3
  <2> QED
    BY <2>1, <2>2
<1>9. ASSUME blind' = {}, hub PROVE SightedInv'
  <2>1. SightedInv
    BY <1>1, <1>9 DEF PauseInv
  <2>2. \A d \in Callers : resume'[d].pc \in {"sent", "rejected"} => FALSE
    BY <1>1, <1>2, <2>1 DEF SightedInv
  <2>3. ~paused /\ ~BreakUnderway
    BY <1>1, <1>3, <2>1 DEF SightedInv, Refusable
  <2>4. paused' => Stopped
    BY <1>1, <1>3, <1>5, <2>1, <2>3 DEF SightedInv, Refusable
  <2> QED
    BY <1>1, <2>1, <2>2, <2>3, <2>4 DEF SightedInv, Stopped, Refusable, BreakUnderway, AcceptedOnWire
<1> QED
  BY <1>1, <1>6, <1>7, <1>8, <1>9 DEF PauseInv

\* What of the wire the invariant is about, when an invocation is answered.
LEMMA AnswerSent ==
  ASSUME PauseTyped, WireInv, NEW c \in Callers, Unanswered(c), resume' = resume,
         NEW m \in Message, m.kind \in {"accepted", "refused"}, m.caller = c, wire' = Append(wire, m)
  PROVE  /\ \A d \in Callers : AcceptedOnWire(d)' <=> AcceptedOnWire(d) \/ (d = c /\ m.kind = "accepted")
         /\ (BreakUnderway' <=> BreakUnderway) /\ (DetachUnderway' <=> DetachUnderway)
         /\ ~AcceptedOnWire(c) /\ resume[c].pc = "sent"
         /\ \A i \in 1..Len(wire'), d \in Callers : Completes(i, d)' => resume[d].pc = "sent"
         /\ \A i, j \in 1..Len(wire'), d \in Callers : (Completes(i, d) /\ Completes(j, d))' => i = j
<1>1. /\ Len(wire) \in Nat /\ Len(wire') = Len(wire) + 1 /\ wire'[Len(wire')] = m
      /\ \A i \in 1..Len(wire) : i \in 1..Len(wire') /\ wire'[i] = wire[i]
      /\ \A i \in 1..Len(wire') : i \in 1..Len(wire) \/ i = Len(wire')
  BY WireSent
<1>2. Len(wire') \in 1..Len(wire') /\ resume[c].pc = "sent"
  BY <1>1 DEF Unanswered
<1>3. \A d \in Callers : AcceptedOnWire(d)' <=> AcceptedOnWire(d) \/ (d = c /\ m.kind = "accepted")
  BY <1>1, <1>2 DEF AcceptedOnWire
<1>4. (BreakUnderway' <=> BreakUnderway) /\ (DetachUnderway' <=> DetachUnderway)
  BY <1>1, <1>2 DEF BreakUnderway, DetachUnderway
<1>5. \A i \in 1..Len(wire) : ~Completes(i, c)
  BY DEF Unanswered, Completes
<1>6. ~AcceptedOnWire(c)
  BY <1>5 DEF AcceptedOnWire, Completes
<1>7. \A i \in 1..Len(wire'), d \in Callers : Completes(i, d)' =>
        (i \in 1..Len(wire) /\ Completes(i, d)) \/ (i = Len(wire') /\ d = c)
  BY <1>1 DEF Completes
<1>8. \A i \in 1..Len(wire'), d \in Callers : Completes(i, d)' => resume[d].pc = "sent"
  BY <1>2, <1>7 DEF WireInv
<1>9. \A i, j \in 1..Len(wire'), d \in Callers : (Completes(i, d) /\ Completes(j, d))' => i = j
  BY <1>5, <1>7 DEF WireInv
<1> QED
  BY <1>2, <1>3, <1>4, <1>6, <1>8, <1>9

LEMMA RefusesPause ==
  ASSUME PauseTyped, PauseInv, NEW c \in Callers, ServerRefuses(c)
  PROVE  PauseInv'
<1>1. PICK m : m = [kind |-> "refused", caller |-> c]
  OBVIOUS
<1>2. /\ wire' = Append(wire, m) /\ Unanswered(c)
      /\ UNCHANGED <<workload, hub, identity, closing, bound, resume, paused, executionRevision, blind, disowned>>
  BY <1>1 DEF ServerRefuses, session, calls, hubState
<1>3. m \in Message /\ m.kind = "refused" /\ m.caller = c
  BY <1>1 DEF Message
<1>4. /\ \A d \in Callers : AcceptedOnWire(d)' <=> AcceptedOnWire(d)
      /\ (BreakUnderway' <=> BreakUnderway) /\ (DetachUnderway' <=> DetachUnderway)
      /\ \A i \in 1..Len(wire'), d \in Callers : Completes(i, d)' => resume[d].pc = "sent"
      /\ \A i, j \in 1..Len(wire'), d \in Callers : (Completes(i, d) /\ Completes(j, d))' => i = j
  BY <1>2, <1>3, AnswerSent DEF PauseInv
<1>5. WireInv' /\ RevisionInv'
  BY <1>2, <1>4 DEF PauseInv, WireInv, RevisionInv
<1>6. KnownInv'
  BY <1>2, <1>4 DEF PauseInv, KnownInv, Restores
<1>7. ASSUME blind' = {}, hub PROVE SightedInv'
  <2>1. SightedInv
    BY <1>2, <1>7 DEF PauseInv
  <2>2. \A i, j \in 1..Len(wire') : wire'[i].kind = "break" /\ wire'[j].kind \in {"break", "accepted"} => j <= i
    <3>1. /\ Len(wire) \in Nat /\ Len(wire') = Len(wire) + 1 /\ wire'[Len(wire')] = m
          /\ \A i \in 1..Len(wire) : wire'[i] = wire[i]
          /\ \A i \in 1..Len(wire') : i \in 1..Len(wire) \/ i = Len(wire')
      BY <1>2, <1>3, WireSent
    <3> QED
      BY <1>3, <2>1, <3>1 DEF SightedInv
  <2>3. Stopped => Stopped'
    BY <1>2, <1>3, StoppedSent
  <2> QED
    BY <1>2, <1>4, <2>1, <2>2, <2>3 DEF SightedInv, Refusable
<1> QED
  BY <1>2, <1>5, <1>6, <1>7 DEF PauseInv

\* An invocation the server accepts is one nobody hears of before its workload is under way again.
LEMMA AcceptsPause ==
  ASSUME PauseTyped, PauseInv, NEW c \in Callers, ServerAccepts(c)
  PROVE  PauseInv'
<1>1. PICK m : m = [kind |-> "accepted", caller |-> c]
  OBVIOUS
<1>2. PICK q : q = [kind |-> "detached"]
  OBVIOUS
<1>3. m \in Message /\ m.kind = "accepted" /\ m.caller = c /\ q \in Message /\ q.kind = "detached"
  BY <1>1, <1>2 DEF Message
<1>4. /\ Unanswered(c) /\ workload = "paused" /\ workload' \in {"running", "gone"}
      /\ UNCHANGED <<hub, identity, closing, bound, resume, paused, executionRevision, blind, disowned>>
      /\ \/ workload' = "running" /\ wire' = Append(wire, m)
         \/ workload' = "gone" /\ wire' = Append(Append(wire, q), m)
  BY <1>1, <1>2 DEF ServerAccepts, session, calls, hubState
<1>5. /\ \A d \in Callers : AcceptedOnWire(d)' <=> AcceptedOnWire(d) \/ d = c
      /\ BreakUnderway' <=> BreakUnderway
      /\ DetachUnderway' => workload' = "gone"
      /\ \A i \in 1..Len(wire'), d \in Callers : Completes(i, d)' => resume[d].pc = "sent"
      /\ \A i, j \in 1..Len(wire'), d \in Callers : (Completes(i, d) /\ Completes(j, d))' => i = j
      /\ ~AcceptedOnWire(c) /\ resume[c].pc = "sent"
  <2>0. ~DetachUnderway /\ WireInv
    BY <1>4 DEF PauseInv, WireInv
  <2>1. CASE workload' = "running" /\ wire' = Append(wire, m)
    BY <1>3, <1>4, <2>0, <2>1, AnswerSent
  <2>2. CASE workload' = "gone" /\ wire' = Append(Append(wire, q), m)
    <3>1. PICK w : w = Append(wire, q)
      OBVIOUS
    <3>2. /\ Len(wire) \in Nat /\ w \in Seq(Message) /\ Len(w) = Len(wire) + 1 /\ w[Len(w)] = q
          /\ \A i \in 1..Len(wire) : w[i] = wire[i]
      BY <1>3, <3>1, AppendProperties DEF PauseTyped
    <3>3. /\ Len(wire') = Len(w) + 1 /\ wire'[Len(wire')] = m
          /\ \A i \in 1..Len(w) : wire'[i] = w[i]
      BY <1>3, <2>2, <3>1, <3>2, AppendProperties
    <3>4. /\ Len(wire') = Len(wire) + 2 /\ wire'[Len(wire) + 1] = q /\ wire'[Len(wire) + 2] = m
          /\ \A i \in 1..Len(wire) : i \in 1..Len(wire') /\ wire'[i] = wire[i]
          /\ \A i \in 1..Len(wire') : i \in 1..Len(wire) \/ i = Len(wire) + 1 \/ i = Len(wire) + 2
          /\ Len(wire) + 2 \in 1..Len(wire')
      <4>1. Len(wire') = Len(wire) + 2 /\ Len(w) \in 1..Len(w) /\ Len(w) = Len(wire) + 1
        BY <3>2, <3>3
      <4>2. \A i \in 1..Len(wire) : i \in 1..Len(w)
        BY <3>2
      <4>3. wire'[Len(wire) + 1] = q /\ wire'[Len(wire) + 2] = m
        BY <3>2, <3>3, <4>1
      <4>4. \A i \in 1..Len(wire) : i \in 1..Len(wire') /\ wire'[i] = wire[i]
        BY <3>2, <3>3, <4>1, <4>2
      <4>5. Len(wire) + 2 \in 1..Len(wire') /\ \A i \in 1..Len(wire') : i \in 1..Len(wire) \/ i = Len(wire) + 1 \/ i = Len(wire) + 2
        BY <3>2, <4>1
      <4> QED
        BY <4>1, <4>3, <4>4, <4>5
    <3>5. \A d \in Callers : AcceptedOnWire(d)' <=> AcceptedOnWire(d) \/ d = c
      BY <1>3, <3>4 DEF AcceptedOnWire
    <3>6. BreakUnderway' <=> BreakUnderway
      BY <1>3, <3>4 DEF BreakUnderway
    <3>7. \A i \in 1..Len(wire) : ~Completes(i, c)
      BY <1>4 DEF Unanswered, Completes
    <3>8. ~AcceptedOnWire(c) /\ resume[c].pc = "sent"
      BY <1>4, <3>7 DEF AcceptedOnWire, Completes, Unanswered
    <3>9. \A i \in 1..Len(wire'), d \in Callers : Completes(i, d)' =>
            (i \in 1..Len(wire) /\ Completes(i, d)) \/ (i = Len(wire) + 2 /\ d = c)
      BY <1>3, <3>4 DEF Completes
    <3>10. \A i \in 1..Len(wire'), d \in Callers : Completes(i, d)' => resume[d].pc = "sent"
      BY <2>0, <3>8, <3>9 DEF WireInv
    <3>11. \A i, j \in 1..Len(wire'), d \in Callers : (Completes(i, d) /\ Completes(j, d))' => i = j
      BY <2>0, <3>7, <3>9 DEF WireInv
    <3> QED
      BY <2>2, <3>5, <3>6, <3>8, <3>10, <3>11
  <2> QED
    BY <1>4, <2>1, <2>2
<1>6. WireInv' /\ RevisionInv' /\ KnownInv'
  BY <1>4, <1>5 DEF PauseInv, WireInv, RevisionInv, KnownInv
<1>7. ASSUME blind' = {}, hub PROVE SightedInv'
  <2>1. SightedInv
    BY <1>4, <1>7 DEF PauseInv
  <2>2. ~BreakUnderway /\ ~paused /\ \A d \in Callers : resume[d].pc \in {"sent", "rejected"} => d = c
    BY <1>4, <1>5, <2>1 DEF SightedInv, Refusable
  <2>4. \A d \in Callers : ~Refusable(d)'
    BY <1>4, <1>5, <2>2 DEF Refusable
  <2>3. \A i \in 1..Len(wire') : wire'[i].kind # "break"
    BY <1>5, <2>2 DEF BreakUnderway
  <2> QED
    BY <1>4, <1>5, <2>1, <2>2, <2>3, <2>4 DEF SightedInv
<1> QED
  BY <1>4, <1>6, <1>7 DEF PauseInv

LEMMA PauseStep ==
  ASSUME TypeOK, PauseInv, [Next]_vars
  PROVE  PauseInv'
<1>1. PauseTyped /\ testRun \in Nat
  BY PauseTypes DEF TypeOK
<1>2. CASE WaitQueued \/ WaitPending \/ WaitTimeout
  BY <1>2, QuietPause DEF WaitQueued, WaitPending, WaitTimeout, server, calls, hubState
<1>3. CASE RunFinished
  <2>1. UNCHANGED <<paused, bound, executionRevision>>
    BY <1>1, <1>3, PushedState DEF RunFinished, Kinds
  <2> QED
    BY <1>3, <2>1, QuietPause DEF RunFinished, server, calls, hubState
<1>4. CASE StartRun
  BY <1>4, QuietPause DEF StartRun, session, server, calls, hubState
<1>5. CASE UNCHANGED vars
  BY <1>5, QuietPause DEF vars, session, server, calls, hubState
<1>6. CASE Callback \/ OnFatalDebuggerException \/ Ignored \/ Completion \/ SessionBound \/ RunFailed
  BY <1>1, <1>6, CallbackPause, FatalPause, IgnoredPause, CompletionPause, BoundPause, RunFailedPause
<1>8. CASE ConfigurationFails \/ HubClosed \/ HubStopped \/ Bind \/ ServerFails \/ BreakHit \/ WorkloadEnds
  BY <1>1, <1>8, MisconfiguredPause, ClosedPause, BindPause, FailsPause, BreakPause, EndsPause
<1>7. ASSUME NEW c \in Callers,
             BeginResume(c) \/ ResumeAccepted(c) \/ RollbackResume(c) \/ ServerAccepts(c) \/ ServerRefuses(c)
      PROVE  PauseInv'
  BY <1>1, <1>7, BeginPause, AcceptedPause, RollbackPause, AcceptsPause, RefusesPause
<1> QED
  BY <1>2, <1>3, <1>4, <1>5, <1>6, <1>7, <1>8, Zenon DEF Next

\* The session's pause is the workload's, for any number of overlapping resumes, breaks and runs: the
\* NST identity is handed out only for a workload that is stopped, and a workload stopped at a break
\* that was handled is known to be (beginResume and rollbackResume of state.ts).
THEOREM PauseTrusted == Spec => []PauseAgrees
<1>1. Init => PauseInv
  <2> SUFFICES ASSUME Init PROVE PauseInv
    OBVIOUS
  <2>1. wire = <<>> /\ 1..Len(wire) = {} /\ hub /\ ~paused /\ ~bound /\ identity = "none" /\ closing = "no" /\ workload = "unbound" /\ \A c \in Callers : resume[c].pc = "idle"
    BY DEF Init, Idle
  <2>2. WireInv /\ RevisionInv
    BY <2>1 DEF WireInv, RevisionInv, DetachUnderway
  <2>3. KnownInv /\ SightedInv
    BY <2>1 DEF KnownInv, SightedInv, Refusable, BreakUnderway
  <2> QED
    BY <2>2, <2>3 DEF PauseInv
<1>2. PauseInv => PauseAgrees
  <2> SUFFICES ASSUME PauseInv PROVE IdentityOnlyWhilePaused /\ PausedWorkloadIsKnown
    BY DEF PauseAgrees
  <2>1. IdentityOnlyWhilePaused
    BY DEF PauseInv, WireInv, SightedInv, Stopped, IdentityOnlyWhilePaused, FatalUnderway
  <2>2. PausedWorkloadIsKnown
    BY DEF PauseInv, KnownInv, Restores, PausedWorkloadIsKnown, ResumePending
  <2> QED
    BY <2>1, <2>2
<1> QED
  BY <1>1, <1>2, PauseStep, TypeCorrect, PTL DEF Spec

-----------------------------------------------------------------------------
(* The slot *)

Starting == {"auth", "connecting", "setup"}

\* What a call's progress says about the slot and the state.  Only a call that still has to publish
\* its session may set the state, and it holds the slot; a session being ended is named no more.
CallInv(c) ==
  /\ pc[c] = "idle" => debugSlot # c /\ ending[c] = "none"
  /\ pc[c] = "indexing" => debugSlot = c /\ ending[c] = "none"
  /\ debug = c \/ recordWrites = c => pc[c] \in Starting \cup {"returned"} /\ ending[c] = "none"
  /\ c \notin Order /\ pc[c] \in Starting \cup {"returned"} =>
       debug = c \/ recordWrites = c \/ ending[c] # "none"
  /\ ending[c] = "over" => debugSlot # c
  /\ c \in Order /\ pc[c] = "returned" => debugSlot # c
  /\ pc[c] \in {"cleaning", "failed"} => debugSlot # c
  /\ c \in Order => ending[c] = "none"

\* The inductive invariant.
SlotInv == SlotTypeOK /\ SlotCoversState /\ \A c \in Calls : CallInv(c)

LEMMA CallsDisjoint ==
  /\ \A c \in Manual : c \in Calls /\ c \notin Record /\ c \notin Order /\ c # None
  /\ \A c \in Record : c \in Calls /\ c \notin Manual /\ c \notin Order /\ c # None
  /\ \A c \in Order : c \in Calls /\ c \notin Manual /\ c \notin Record /\ c # None
BY SlotAssumption DEF Calls

\* Every step keeps every variable in its type.
LEMMA TypeStep ==
  ASSUME SlotTypeOK, [SlotNext]_slotVars
  PROVE  SlotTypeOK'
<1>1. CASE UNCHANGED slotVars
  BY <1>1 DEF SlotTypeOK, slotVars, state
<1>2. ASSUME NEW c \in Calls,
             \/ Claim(c) \/ PublishSession(c) \/ PublishRecording(c) \/ PublishNothing(c)
             \/ Authorized(c) \/ Connected(c) \/ SessionReturned(c) \/ RecordingReturned(c)
      PROVE  SlotTypeOK'
  BY <1>2, CallsDisjoint
     DEF SlotTypeOK, Phases, state, Goto, Claim, ClaimDebugSlot, PublishSession, PublishRecording,
         PublishNothing, Authorized, Connected, SessionReturned, RecordingReturned
<1>3. ASSUME NEW c \in Calls, Fail(c) \/ Cleaned(c) \/ OrderOver(c) \/ StopRecording(c)
      PROVE  SlotTypeOK'
  BY <1>3, CallsDisjoint
     DEF SlotTypeOK, Phases, state, Goto, ReleaseDebugSlot, Fail, Cleaned, OrderOver, StopRecording
<1>4. ASSUME NEW c \in Calls, BeginDetach(c) \/ BeginFinish(c) PROVE SlotTypeOK'
  BY <1>4, CallsDisjoint DEF SlotTypeOK, MarkEarly, BeginDetach, BeginFinish
<1>5. ASSUME NEW c \in Calls, Ended(c) PROVE SlotTypeOK'
  <2>1. link' \in [Calls -> BOOLEAN]
    BY <1>5, Zenon DEF SlotTypeOK, Ended
  <2>2. ending' \in [Calls -> {"none", "draining", "stopping", "over"}]
        /\ debugSlot' \in Calls \cup {None}
    BY <1>5 DEF SlotTypeOK, Ended, ReleaseDebugSlot
  <2> QED
    BY <1>5, <2>1, <2>2, Zenon DEF SlotTypeOK, Ended, state
<1> QED
  BY <1>1, <1>2, <1>3, <1>4, <1>5 DEF SlotNext

\* The state and the slot agree after every step.
LEMMA CoverStep ==
  ASSUME SlotInv, [SlotNext]_slotVars
  PROVE  SlotCoversState'
<1>1. CASE UNCHANGED slotVars
  BY <1>1 DEF SlotInv, SlotCoversState, slotVars, state
<1>2. ASSUME NEW c \in Calls, Claim(c) PROVE SlotCoversState'
  BY <1>2, CallsDisjoint DEF SlotInv, SlotTypeOK, SlotCoversState, CallInv, Starting, state, Claim, ClaimDebugSlot, Goto
<1>3. ASSUME NEW c \in Calls, PublishSession(c) PROVE SlotCoversState'
  BY <1>3, CallsDisjoint DEF SlotInv, SlotTypeOK, SlotCoversState, CallInv, Starting, state, PublishSession, Goto
<1>4. ASSUME NEW c \in Calls, PublishRecording(c) PROVE SlotCoversState'
  BY <1>4, CallsDisjoint DEF SlotInv, SlotTypeOK, SlotCoversState, CallInv, Starting, state, PublishRecording, Goto
<1>5. ASSUME NEW c \in Calls, PublishNothing(c) PROVE SlotCoversState'
  BY <1>5, CallsDisjoint DEF SlotInv, SlotTypeOK, SlotCoversState, CallInv, Starting, state, PublishNothing, Goto
<1>6. ASSUME NEW c \in Calls, Authorized(c) PROVE SlotCoversState'
  BY <1>6, CallsDisjoint DEF SlotInv, SlotTypeOK, SlotCoversState, CallInv, Starting, state, Authorized, Goto
<1>7. ASSUME NEW c \in Calls, Connected(c) PROVE SlotCoversState'
  BY <1>7, CallsDisjoint DEF SlotInv, SlotTypeOK, SlotCoversState, CallInv, Starting, state, Connected, Goto
<1>8. ASSUME NEW c \in Calls, SessionReturned(c) PROVE SlotCoversState'
  BY <1>8, CallsDisjoint DEF SlotInv, SlotTypeOK, SlotCoversState, CallInv, Starting, state, SessionReturned, Goto
<1>9. ASSUME NEW c \in Calls, RecordingReturned(c) PROVE SlotCoversState'
  BY <1>9, CallsDisjoint DEF SlotInv, SlotTypeOK, SlotCoversState, CallInv, Starting, state, RecordingReturned, Goto
<1>10. ASSUME NEW c \in Calls, Fail(c) PROVE SlotCoversState'
  BY <1>10, CallsDisjoint DEF SlotInv, SlotTypeOK, SlotCoversState, CallInv, Starting, state, Fail, ReleaseDebugSlot, Goto
<1>11. ASSUME NEW c \in Calls, Cleaned(c) PROVE SlotCoversState'
  BY <1>11, CallsDisjoint DEF SlotInv, SlotTypeOK, SlotCoversState, CallInv, Starting, state, Cleaned, Goto
<1>12. ASSUME NEW c \in Calls, OrderOver(c) PROVE SlotCoversState'
  BY <1>12, CallsDisjoint DEF SlotInv, SlotTypeOK, SlotCoversState, CallInv, Starting, state, OrderOver, ReleaseDebugSlot, Goto
<1>13. ASSUME NEW c \in Calls, BeginDetach(c) PROVE SlotCoversState'
  BY <1>13, CallsDisjoint DEF SlotInv, SlotTypeOK, SlotCoversState, CallInv, Starting, state, BeginDetach
<1>14. ASSUME NEW c \in Calls, BeginFinish(c) PROVE SlotCoversState'
  BY <1>14, CallsDisjoint DEF SlotInv, SlotTypeOK, SlotCoversState, CallInv, Starting, state, BeginFinish
<1>15. ASSUME NEW c \in Calls, StopRecording(c) PROVE SlotCoversState'
  BY <1>15, CallsDisjoint DEF SlotInv, SlotTypeOK, SlotCoversState, CallInv, Starting, state, StopRecording
<1>16. ASSUME NEW c \in Calls, Ended(c) PROVE SlotCoversState'
  BY <1>16, CallsDisjoint DEF SlotInv, SlotTypeOK, SlotCoversState, CallInv, Starting, state, Ended, ReleaseDebugSlot
<1> QED
  BY <1>1, <1>2, <1>3, <1>4, <1>5, <1>6, <1>7, <1>8, <1>9, <1>10, <1>11, <1>12, <1>13, <1>14, <1>15, <1>16 DEF SlotNext

\* Every step keeps the progress of every call consistent with the slot and the state.
LEMMA CallStep ==
  ASSUME SlotInv, [SlotNext]_slotVars, NEW d \in Calls
  PROVE  CallInv(d)'
<1>1. CASE UNCHANGED slotVars
  BY <1>1 DEF SlotInv, CallInv, slotVars, state
<1>2. ASSUME NEW c \in Calls, Claim(c) PROVE CallInv(d)'
  BY <1>2, CallsDisjoint DEF SlotInv, SlotTypeOK, SlotCoversState, CallInv, Starting, state, Claim, ClaimDebugSlot, Goto
<1>3. ASSUME NEW c \in Calls, PublishSession(c) PROVE CallInv(d)'
  BY <1>3, CallsDisjoint DEF SlotInv, SlotTypeOK, SlotCoversState, CallInv, Starting, state, PublishSession, Goto
<1>4. ASSUME NEW c \in Calls, PublishRecording(c) PROVE CallInv(d)'
  BY <1>4, CallsDisjoint DEF SlotInv, SlotTypeOK, SlotCoversState, CallInv, Starting, state, PublishRecording, Goto
<1>5. ASSUME NEW c \in Calls, PublishNothing(c) PROVE CallInv(d)'
  BY <1>5, CallsDisjoint DEF SlotInv, SlotTypeOK, SlotCoversState, CallInv, Starting, state, PublishNothing, Goto
<1>6. ASSUME NEW c \in Calls, Authorized(c) PROVE CallInv(d)'
  BY <1>6, CallsDisjoint DEF SlotInv, SlotTypeOK, SlotCoversState, CallInv, Starting, state, Authorized, Goto
<1>7. ASSUME NEW c \in Calls, Connected(c) PROVE CallInv(d)'
  BY <1>7, CallsDisjoint DEF SlotInv, SlotTypeOK, SlotCoversState, CallInv, Starting, state, Connected, Goto
<1>8. ASSUME NEW c \in Calls, SessionReturned(c) PROVE CallInv(d)'
  BY <1>8, CallsDisjoint DEF SlotInv, SlotTypeOK, SlotCoversState, CallInv, Starting, state, SessionReturned, Goto
<1>9. ASSUME NEW c \in Calls, RecordingReturned(c) PROVE CallInv(d)'
  BY <1>9, CallsDisjoint DEF SlotInv, SlotTypeOK, SlotCoversState, CallInv, Starting, state, RecordingReturned, Goto
<1>10. ASSUME NEW c \in Calls, Fail(c) PROVE CallInv(d)'
  <2>1. /\ pc' = [pc EXCEPT ![c] = "cleaning"] /\ ending' = ending
        /\ debug' = IF debug = c THEN None ELSE debug
        /\ recordWrites' = IF recordWrites = c THEN None ELSE recordWrites
        /\ debugSlot' = IF debugSlot = c THEN None ELSE debugSlot
        /\ c \notin Order /\ c # None /\ d # None
    BY <1>10, SlotAssumption DEF Fail, Goto, ReleaseDebugSlot
  <2>2. pc \in [Calls -> Phases] /\ CallInv(c) /\ CallInv(d)
    BY DEF SlotInv, SlotTypeOK
  <2>3. CASE d = c
    BY <2>1, <2>2, <2>3 DEF CallInv, Starting
  <2>4. CASE d # c
    BY <2>1, <2>2, <2>4 DEF CallInv, Starting
  <2> QED
    BY <2>3, <2>4
<1>11. ASSUME NEW c \in Calls, Cleaned(c) PROVE CallInv(d)'
  BY <1>11, CallsDisjoint DEF SlotInv, SlotTypeOK, SlotCoversState, CallInv, Starting, state, Cleaned, Goto
<1>12. ASSUME NEW c \in Calls, OrderOver(c) PROVE CallInv(d)'
  BY <1>12, CallsDisjoint DEF SlotInv, SlotTypeOK, SlotCoversState, CallInv, Starting, state, OrderOver, ReleaseDebugSlot, Goto
<1>13. ASSUME NEW c \in Calls, BeginDetach(c) PROVE CallInv(d)'
  <2>1. /\ debug = c /\ debug' = None /\ recordWrites' = recordWrites
        /\ pc' = pc /\ debugSlot' = debugSlot
        /\ ending' = [ending EXCEPT ![c] = "stopping"]
        /\ c # None /\ d # None
    BY <1>13, SlotAssumption DEF BeginDetach
  <2>2. /\ pc \in [Calls -> Phases] /\ CallInv(c) /\ CallInv(d)
        /\ ending \in [Calls -> {"none", "draining", "stopping", "over"}]
        /\ c \notin Order /\ recordWrites # c
    BY <2>1, CallsDisjoint DEF SlotInv, SlotTypeOK
  <2>3. CASE d = c
    BY <2>1, <2>2, <2>3 DEF CallInv, Starting
  <2>4. CASE d # c
    BY <2>1, <2>2, <2>4 DEF CallInv, Starting
  <2> QED
    BY <2>3, <2>4
<1>14. ASSUME NEW c \in Calls, BeginFinish(c) PROVE CallInv(d)'
  <2>1. /\ recordWrites = c /\ recordWrites' = None /\ debug' = debug
        /\ pc' = pc /\ debugSlot' = debugSlot
        /\ ending' = [ending EXCEPT ![c] = "draining"]
        /\ c # None /\ d # None
    BY <1>14, SlotAssumption DEF BeginFinish
  <2>2. /\ pc \in [Calls -> Phases] /\ CallInv(c) /\ CallInv(d)
        /\ ending \in [Calls -> {"none", "draining", "stopping", "over"}]
        /\ c \notin Order /\ debug # c
    BY <2>1, CallsDisjoint DEF SlotInv, SlotTypeOK
  <2>3. CASE d = c
    BY <2>1, <2>2, <2>3 DEF CallInv, Starting
  <2>4. CASE d # c
    BY <2>1, <2>2, <2>4 DEF CallInv, Starting
  <2> QED
    BY <2>3, <2>4
<1>15. ASSUME NEW c \in Calls, StopRecording(c) PROVE CallInv(d)'
  BY <1>15, CallsDisjoint DEF SlotInv, SlotTypeOK, SlotCoversState, CallInv, Starting, state, StopRecording
<1>16. ASSUME NEW c \in Calls, Ended(c) PROVE CallInv(d)'
  BY <1>16, CallsDisjoint DEF SlotInv, SlotTypeOK, SlotCoversState, CallInv, Starting, state, Ended, ReleaseDebugSlot
<1> QED
  BY <1>1, <1>2, <1>3, <1>4, <1>5, <1>6, <1>7, <1>8, <1>9, <1>10, <1>11, <1>12, <1>13, <1>14, <1>15, <1>16 DEF SlotNext

LEMMA SlotInitially == SlotInit => SlotInv
BY SlotAssumption DEF SlotInit, SlotInv, SlotTypeOK, SlotCoversState, CallInv, Starting, Phases, Calls

LEMMA Invariance == SlotSpec => []SlotInv
<1>1. SlotInv /\ [SlotNext]_slotVars => SlotInv'
  BY TypeStep, CoverStep, CallStep DEF SlotInv
<1> QED
  BY <1>1, SlotInitially, PTL DEF SlotSpec

\* Every variable stays in its type, and a recording's slot token is there exactly as long as it is.
THEOREM SlotTypeCorrect == SlotSpec => []SlotTypeOK
<1>1. SlotInv => SlotTypeOK
  BY DEF SlotInv
<1> QED
  BY <1>1, Invariance, PTL

\* However starts, failures and ends interleave, the published session or recording holds the slot,
\* and whoever holds the slot is starting, published, or being ended.
THEOREM SlotOwned == SlotSpec => []SlotHeldByItsUser
<1>1. SlotInv => SlotCoversState
  BY DEF SlotInv
<1>2. SlotInv => SlotReleasable
  BY DEF SlotInv, SlotTypeOK, CallInv, Starting, Phases, SlotReleasable
<1>3. SlotInv => SlotHeldByItsUser
  BY <1>1, <1>2 DEF SlotHeldByItsUser
<1> QED
  BY <1>3, Invariance, PTL
----------------------------------------------------------------------------
(* What a session leaves behind.                                            *)

\* A capture of order mode holds the slot throughout.  A session that is not ended before its start
\* call returned is ended after it, for good, and is connected only while somebody answers for it.
LinkInv(c) ==
  /\ c \in Order /\ pc[c] \in {"auth", "connecting", "capturing"} => debugSlot = c
  /\ pc[c] = "setup" => c \notin Order
  /\ pc[c] = "capturing" => c \in Order
  /\ c \notin early =>
       /\ ending[c] # "none" => pc[c] = "returned"
       /\ ending[c] \in {"stopping", "over"} => ~client[c]
       /\ link[c] => \/ pc[c] \in {"setup", "capturing", "cleaning"}
                     \/ pc[c] = "returned" /\ c \notin Order /\ ending[c] # "over"

CleanInv == SlotInv /\ SeedOfRecording /\ \A c \in Calls : LinkInv(c)

\* Every step keeps what is known of the connection of every call.
LEMMA LinkStep ==
  ASSUME CleanInv, [SlotNext]_slotVars, NEW d \in Calls
  PROVE  LinkInv(d)'
<1>1. CASE UNCHANGED slotVars
  BY <1>1 DEF CleanInv, SlotInv, LinkInv, slotVars, state
<1>2. ASSUME NEW c \in Calls, Claim(c) PROVE LinkInv(d)'
  BY <1>2, CallsDisjoint DEF CleanInv, SlotInv, LinkInv, SlotTypeOK, SlotCoversState, CallInv, Starting, state, Claim, ClaimDebugSlot, Goto
<1>3. ASSUME NEW c \in Calls, PublishSession(c) PROVE LinkInv(d)'
  BY <1>3, CallsDisjoint DEF CleanInv, SlotInv, LinkInv, SlotTypeOK, SlotCoversState, CallInv, Starting, state, PublishSession, Goto
<1>4. ASSUME NEW c \in Calls, PublishRecording(c) PROVE LinkInv(d)'
  BY <1>4, CallsDisjoint DEF CleanInv, SlotInv, LinkInv, SlotTypeOK, SlotCoversState, CallInv, Starting, state, PublishRecording, Goto
<1>5. ASSUME NEW c \in Calls, PublishNothing(c) PROVE LinkInv(d)'
  BY <1>5, CallsDisjoint DEF CleanInv, SlotInv, LinkInv, SlotTypeOK, SlotCoversState, CallInv, Starting, state, PublishNothing, Goto
<1>6. ASSUME NEW c \in Calls, Authorized(c) PROVE LinkInv(d)'
  BY <1>6, CallsDisjoint DEF CleanInv, SlotInv, LinkInv, SlotTypeOK, SlotCoversState, CallInv, Starting, state, Authorized, Goto
<1>7. ASSUME NEW c \in Calls, Connected(c) PROVE LinkInv(d)'
  BY <1>7, CallsDisjoint DEF CleanInv, SlotInv, LinkInv, SlotTypeOK, SlotCoversState, CallInv, Starting, state, Connected, Goto
<1>8. ASSUME NEW c \in Calls, SessionReturned(c) PROVE LinkInv(d)'
  BY <1>8, CallsDisjoint DEF CleanInv, SlotInv, LinkInv, SlotTypeOK, SlotCoversState, CallInv, Starting, state, SessionReturned, Goto
<1>9. ASSUME NEW c \in Calls, RecordingReturned(c) PROVE LinkInv(d)'
  BY <1>9, CallsDisjoint DEF CleanInv, SlotInv, LinkInv, SlotTypeOK, SlotCoversState, CallInv, Starting, state, RecordingReturned, Goto
<1>10. ASSUME NEW c \in Calls, Fail(c) PROVE LinkInv(d)'
  BY <1>10, CallsDisjoint DEF CleanInv, SlotInv, LinkInv, SlotTypeOK, SlotCoversState, CallInv, Starting, state, Fail, ReleaseDebugSlot, Goto
<1>11. ASSUME NEW c \in Calls, Cleaned(c) PROVE LinkInv(d)'
  BY <1>11, CallsDisjoint DEF CleanInv, SlotInv, LinkInv, SlotTypeOK, SlotCoversState, CallInv, Starting, state, Cleaned, Goto
<1>12. ASSUME NEW c \in Calls, OrderOver(c) PROVE LinkInv(d)'
  BY <1>12, CallsDisjoint DEF CleanInv, SlotInv, LinkInv, SlotTypeOK, SlotCoversState, CallInv, Starting, state, OrderOver, ReleaseDebugSlot, Goto
<1>13. ASSUME NEW c \in Calls, BeginDetach(c) PROVE LinkInv(d)'
  BY <1>13, CallsDisjoint DEF CleanInv, SlotInv, LinkInv, SlotTypeOK, SlotCoversState, CallInv, Starting, state, BeginDetach, MarkEarly
<1>14. ASSUME NEW c \in Calls, BeginFinish(c) PROVE LinkInv(d)'
  BY <1>14, CallsDisjoint DEF CleanInv, SlotInv, LinkInv, SlotTypeOK, SlotCoversState, CallInv, Starting, state, BeginFinish, MarkEarly
<1>15. ASSUME NEW c \in Calls, StopRecording(c) PROVE LinkInv(d)'
  BY <1>15, CallsDisjoint DEF CleanInv, SlotInv, LinkInv, SlotTypeOK, SlotCoversState, CallInv, Starting, state, StopRecording
<1>16. ASSUME NEW c \in Calls, Ended(c) PROVE LinkInv(d)'
  BY <1>16, CallsDisjoint DEF CleanInv, SlotInv, LinkInv, SlotTypeOK, SlotCoversState, CallInv, Starting, state, Ended, ReleaseDebugSlot
<1> QED
  BY <1>1, <1>2, <1>3, <1>4, <1>5, <1>6, <1>7, <1>8, <1>9, <1>10, <1>11, <1>12, <1>13, <1>14, <1>15, <1>16 DEF SlotNext

\* The static writers stay those of the running recording.
LEMMA SeedStep ==
  ASSUME CleanInv, [SlotNext]_slotVars
  PROVE  SeedOfRecording'
<1>1. CASE UNCHANGED slotVars
  BY <1>1 DEF CleanInv, SlotInv, LinkInv, SeedOfRecording, slotVars, state
<1>2. ASSUME NEW c \in Calls, Claim(c) PROVE SeedOfRecording'
  BY <1>2, CallsDisjoint DEF CleanInv, SlotInv, LinkInv, SeedOfRecording, SlotTypeOK, SlotCoversState, CallInv, Starting, state, Claim, ClaimDebugSlot, Goto
<1>3. ASSUME NEW c \in Calls, PublishSession(c) PROVE SeedOfRecording'
  BY <1>3, CallsDisjoint DEF CleanInv, SlotInv, LinkInv, SeedOfRecording, SlotTypeOK, SlotCoversState, CallInv, Starting, state, PublishSession, Goto
<1>4. ASSUME NEW c \in Calls, PublishRecording(c) PROVE SeedOfRecording'
  BY <1>4, CallsDisjoint DEF CleanInv, SlotInv, LinkInv, SeedOfRecording, SlotTypeOK, SlotCoversState, CallInv, Starting, state, PublishRecording, Goto
<1>5. ASSUME NEW c \in Calls, PublishNothing(c) PROVE SeedOfRecording'
  BY <1>5, CallsDisjoint DEF CleanInv, SlotInv, LinkInv, SeedOfRecording, SlotTypeOK, SlotCoversState, CallInv, Starting, state, PublishNothing, Goto
<1>6. ASSUME NEW c \in Calls, Authorized(c) PROVE SeedOfRecording'
  BY <1>6, CallsDisjoint DEF CleanInv, SlotInv, LinkInv, SeedOfRecording, SlotTypeOK, SlotCoversState, CallInv, Starting, state, Authorized, Goto
<1>7. ASSUME NEW c \in Calls, Connected(c) PROVE SeedOfRecording'
  BY <1>7, CallsDisjoint DEF CleanInv, SlotInv, LinkInv, SeedOfRecording, SlotTypeOK, SlotCoversState, CallInv, Starting, state, Connected, Goto
<1>8. ASSUME NEW c \in Calls, SessionReturned(c) PROVE SeedOfRecording'
  BY <1>8, CallsDisjoint DEF CleanInv, SlotInv, LinkInv, SeedOfRecording, SlotTypeOK, SlotCoversState, CallInv, Starting, state, SessionReturned, Goto
<1>9. ASSUME NEW c \in Calls, RecordingReturned(c) PROVE SeedOfRecording'
  BY <1>9, CallsDisjoint DEF CleanInv, SlotInv, LinkInv, SeedOfRecording, SlotTypeOK, SlotCoversState, CallInv, Starting, state, RecordingReturned, Goto
<1>10. ASSUME NEW c \in Calls, Fail(c) PROVE SeedOfRecording'
  BY <1>10, CallsDisjoint DEF CleanInv, SlotInv, LinkInv, SeedOfRecording, SlotTypeOK, SlotCoversState, CallInv, Starting, state, Fail, ReleaseDebugSlot, Goto
<1>11. ASSUME NEW c \in Calls, Cleaned(c) PROVE SeedOfRecording'
  BY <1>11, CallsDisjoint DEF CleanInv, SlotInv, LinkInv, SeedOfRecording, SlotTypeOK, SlotCoversState, CallInv, Starting, state, Cleaned, Goto
<1>12. ASSUME NEW c \in Calls, OrderOver(c) PROVE SeedOfRecording'
  BY <1>12, CallsDisjoint DEF CleanInv, SlotInv, LinkInv, SeedOfRecording, SlotTypeOK, SlotCoversState, CallInv, Starting, state, OrderOver, ReleaseDebugSlot, Goto
<1>13. ASSUME NEW c \in Calls, BeginDetach(c) PROVE SeedOfRecording'
  BY <1>13, CallsDisjoint DEF CleanInv, SlotInv, LinkInv, SeedOfRecording, SlotTypeOK, SlotCoversState, CallInv, Starting, state, BeginDetach, MarkEarly
<1>14. ASSUME NEW c \in Calls, BeginFinish(c) PROVE SeedOfRecording'
  BY <1>14, CallsDisjoint DEF CleanInv, SlotInv, LinkInv, SeedOfRecording, SlotTypeOK, SlotCoversState, CallInv, Starting, state, BeginFinish, MarkEarly
<1>15. ASSUME NEW c \in Calls, StopRecording(c) PROVE SeedOfRecording'
  BY <1>15, CallsDisjoint DEF CleanInv, SlotInv, LinkInv, SeedOfRecording, SlotTypeOK, SlotCoversState, CallInv, Starting, state, StopRecording
<1>16. ASSUME NEW c \in Calls, Ended(c) PROVE SeedOfRecording'
  BY <1>16, CallsDisjoint DEF CleanInv, SlotInv, LinkInv, SeedOfRecording, SlotTypeOK, SlotCoversState, CallInv, Starting, state, Ended, ReleaseDebugSlot
<1> QED
  BY <1>1, <1>2, <1>3, <1>4, <1>5, <1>6, <1>7, <1>8, <1>9, <1>10, <1>11, <1>12, <1>13, <1>14, <1>15, <1>16 DEF SlotNext

LEMMA CleanInitially == SlotInit => CleanInv
BY SlotInitially DEF SlotInit, CleanInv, LinkInv, SeedOfRecording

LEMMA CleanInvariance == SlotSpec => []CleanInv
<1>1. SlotInv /\ [SlotNext]_slotVars => SlotInv'
  BY TypeStep, CoverStep, CallStep DEF SlotInv
<1>2. CleanInv /\ [SlotNext]_slotVars => CleanInv'
  BY <1>1, LinkStep, SeedStep DEF CleanInv
<1> QED
  BY <1>2, CleanInitially, PTL DEF SlotSpec

\* Whatever overlaps or fails, a session that was not ended before its start call returned leaves
\* neither a connection nobody answers for nor the static writers of a recording that is over.
THEOREM NothingLeft == SlotSpec => []SlotEndsClean
<1>1. ASSUME CleanInv, NEW c \in Calls \ early, link[c] PROVE Owned(c)
  <2>1. /\ CallInv(c) /\ LinkInv(c) /\ SlotCoversState
        /\ ending[c] \in {"none", "draining", "stopping", "over"}
        /\ c # None /\ c \notin early /\ link[c]
    BY <1>1, SlotAssumption DEF CleanInv, SlotInv, SlotTypeOK
  <2>2. CASE pc[c] \in {"returned", "setup"}
    <3>1. c \notin Order /\ ending[c] # "over"
      BY <2>1, <2>2 DEF LinkInv
    <3>2. CASE ending[c] = "none"
      BY <2>1, <2>2, <3>1, <3>2 DEF CallInv, Starting, SlotCoversState, Owned
    <3>3. CASE ending[c] # "none"
      BY <2>1, <3>1, <3>3 DEF Owned
    <3> QED
      BY <3>2, <3>3
  <2>3. CASE pc[c] \in {"capturing", "cleaning"}
    BY <2>1, <2>3, <1>1 DEF LinkInv, Owned
  <2> QED
    BY <2>1, <2>2, <2>3 DEF LinkInv
<1>2. CleanInv => SlotEndsClean
  BY <1>1 DEF CleanInv, SlotInv, SlotEndsClean, NoOrphanDebugger
<1> QED
  BY <1>2, CleanInvariance, PTL
=============================================================================
