----------------------------- MODULE DebugSlot -----------------------------
(***************************************************************************)
(* The single debugger slot of ServerState (src/src/mcp/state.ts) and the   *)
(* tool calls that share it: bcdev_debug_attach / _detach (debug-tools.ts), *)
(* bcdev_record_writes_start / _finish (record-write-tools.ts) and the      *)
(* record-write capture of order mode (test-order-tool.ts).                 *)
(*                                                                          *)
(* MCP runs tool calls concurrently: every action is the code of one call   *)
(* between two awaits.  A call starts at most one session, so the call      *)
(* names the session it creates, its client and its slot token.             *)
(***************************************************************************)
EXTENDS Naturals, FiniteSets

CONSTANTS
  Manual,   \* bcdev_debug_attach calls
  Record,   \* bcdev_record_writes_start calls
  Order,    \* order-mode calls that capture record writes
  None      \* null

Calls == Manual \cup Record \cup Order

ASSUME SlotAssumption ==
  /\ Manual \cap Record = {} /\ Manual \cap Order = {} /\ Record \cap Order = {}
  /\ None \notin Calls

VARIABLES
  debugSlot,            \* state.debugSlot: the call whose token it holds
  debug,                \* state.debug
  recordWrites,         \* state.recordWrites (and recordingId, set and cleared with it)
  recordWriteSlotToken, \* state.recordWriteSlotToken
  recordWriteStatic,    \* state.recordWriteStatic: the recording it was computed for
  pc,                   \* per call: where its handler is
  ending,               \* per session: where its detach or finish handler is
  client,                  \* per session: client.hub # null
  link,                 \* environment: the debugger connection of the session
  early                 \* ghost: sessions ended before their start call returned

state == <<debug, recordWrites, recordWriteSlotToken, recordWriteStatic>>
slotVars  == <<debugSlot, state, pc, ending, client, link, early>>

Phases == {"idle", "indexing", "auth", "connecting", "setup", "capturing", "cleaning",
           "returned", "failed"}

SlotTypeOK ==
  /\ debugSlot \in Calls \cup {None}
  /\ debug \in Manual \cup {None}
  /\ recordWrites \in Record \cup {None}
  /\ recordWriteSlotToken = recordWrites \* the finish of a recording finds its own slot token
  /\ recordWriteStatic \in Record \cup {None}
  /\ pc \in [Calls -> Phases]
  /\ ending \in [Calls -> {"none", "draining", "stopping", "over"}]
  /\ client \in [Calls -> BOOLEAN]
  /\ link \in [Calls -> BOOLEAN]
  /\ early \subseteq Calls

SlotInit ==
  /\ debugSlot = None /\ debug = None
  /\ recordWrites = None /\ recordWriteSlotToken = None /\ recordWriteStatic = None
  /\ pc = [c \in Calls |-> "idle"]
  /\ ending = [c \in Calls |-> "none"]
  /\ client = [c \in Calls |-> FALSE] /\ link = [c \in Calls |-> FALSE]
  /\ early = {}

Goto(c, phase) == pc' = [pc EXCEPT ![c] = phase]

\* The slot is freed without comparing tokens.
ReleaseAny(c) == debugSlot' = None

\* releaseDebugSlot: a stale token frees nothing.
ReleaseDebugSlot(c) == debugSlot' = IF debugSlot = c THEN None ELSE debugSlot

\* claimDebugSlot, which first repeats assertDebugSlotAvailable
ClaimDebugSlot(c) ==
  /\ debugSlot = None /\ recordWrites = None /\ debug = None
  /\ debugSlot' = c

\* The call claims the slot before its first await; a call refused changes nothing.
Claim(c) ==
  /\ pc[c] = "idle"
  /\ ClaimDebugSlot(c)
  /\ Goto(c, "indexing")
  /\ UNCHANGED <<state, ending, client, link, early>>

----------------------------------------------------------------------------
(* The start handlers: index, connect, then breakpoints or the static writers *)

\* AlObjectIndex.build returned: the session becomes visible before client.connect.
PublishSession(c) ==
  /\ c \in Manual /\ pc[c] = "indexing"
  /\ debug' = c
  /\ Goto(c, "auth")
  /\ UNCHANGED <<debugSlot, recordWrites, recordWriteSlotToken, recordWriteStatic, ending, client, link, early>>

PublishRecording(c) ==
  /\ c \in Record /\ pc[c] = "indexing"
  /\ recordWrites' = c /\ recordWriteSlotToken' = c
  /\ Goto(c, "auth")
  /\ UNCHANGED <<debugSlot, debug, recordWriteStatic, ending, client, link, early>>

\* Order mode keeps its collector to itself: only the slot is taken.
PublishNothing(c) ==
  /\ c \in Order /\ pc[c] = "indexing"
  /\ Goto(c, "auth")
  /\ UNCHANGED <<debugSlot, state, ending, client, link, early>>

\* connect(): the authorization header arrived, this.hub is set.
Authorized(c) ==
  /\ pc[c] = "auth"
  /\ client' = [client EXCEPT ![c] = TRUE]
  /\ Goto(c, "connecting")
  /\ UNCHANGED <<debugSlot, state, ending, link, early>>

\* connect() resolved; a client stopped meanwhile rejects it instead.
Connected(c) ==
  /\ pc[c] = "connecting" /\ client[c]
  /\ link' = [link EXCEPT ![c] = TRUE]
  /\ Goto(c, IF c \in Order THEN "capturing" ELSE "setup")
  /\ UNCHANGED <<debugSlot, state, ending, client, early>>

\* mapBreakpoints resolved (with a live hub or no breakpoint to set): { attached: true }.
SessionReturned(c) ==
  /\ c \in Manual /\ pc[c] = "setup"
  /\ Goto(c, "returned")
  /\ UNCHANGED <<debugSlot, state, ending, client, link, early>>

\* The static writers arrived and seed the finish-time cross-check: { armed: true }.
RecordingReturned(c) ==
  /\ c \in Record /\ pc[c] = "setup"
  /\ recordWriteStatic' = c
  /\ Goto(c, "returned")
  /\ UNCHANGED <<debugSlot, debug, recordWrites, recordWriteSlotToken, ending, client, link, early>>

\* Any step of a start call throws: its catch gives everything back, then awaits client.stop().
Fail(c) ==
  /\ c \notin Order /\ pc[c] \in {"indexing", "auth", "connecting", "setup"}
  /\ debug' = IF debug = c THEN None ELSE debug
  /\ recordWrites' = IF recordWrites = c THEN None ELSE recordWrites
  /\ recordWriteSlotToken' = IF recordWriteSlotToken = c THEN None ELSE recordWriteSlotToken
  /\ recordWriteStatic' = IF c \in Record THEN None ELSE recordWriteStatic
  /\ client' = [client EXCEPT ![c] = FALSE]
  /\ ReleaseDebugSlot(c)
  /\ Goto(c, "cleaning")
  /\ UNCHANGED <<ending, link, early>>

\* The error is rethrown without stopping the client.
CleanedUnstopped(c) ==
  /\ pc[c] = "cleaning"
  /\ Goto(c, "failed")
  /\ UNCHANGED <<debugSlot, state, ending, client, link, early>>

\* client.stop() settled: the error is rethrown.
Cleaned(c) ==
  /\ pc[c] = "cleaning"
  /\ link' = [link EXCEPT ![c] = FALSE]
  /\ Goto(c, "failed")
  /\ UNCHANGED <<debugSlot, state, ending, client, early>>

\* runTestsWithRecordWrites ended either way with its client stopped; finally frees the slot.
OrderOver(c) ==
  /\ c \in Order /\ pc[c] \in {"indexing", "auth", "connecting", "capturing"}
  /\ client' = [client EXCEPT ![c] = FALSE] /\ link' = [link EXCEPT ![c] = FALSE]
  /\ ReleaseDebugSlot(c)
  /\ Goto(c, "returned")
  /\ UNCHANGED <<state, ending, early>>

----------------------------------------------------------------------------
(* bcdev_debug_detach and bcdev_record_writes_finish *)

MarkEarly(c) == early' = IF pc[c] = "returned" THEN early ELSE early \cup {c}

\* requireSession, then client.stop() up to its await
BeginDetach(c) ==
  /\ debug = c /\ MarkEarly(c)
  /\ debugSlot \in Manual \cup {None} \* debugOwner # "recordWrites"
  /\ debug' = None
  /\ client' = [client EXCEPT ![c] = FALSE]
  /\ ending' = [ending EXCEPT ![c] = "stopping"]
  /\ UNCHANGED <<debugSlot, recordWrites, recordWriteSlotToken, recordWriteStatic, pc, link>>

\* requireTriage; collector.finish() first releases the workload and drains its events
BeginFinish(c) ==
  /\ recordWrites = c /\ MarkEarly(c)
  /\ recordWrites' = None /\ recordWriteSlotToken' = None /\ recordWriteStatic' = None
  /\ ending' = [ending EXCEPT ![c] = "draining"]
  /\ UNCHANGED <<debugSlot, debug, pc, client, link>>

\* collector.finish() calls client.stop().
StopRecording(c) ==
  /\ ending[c] = "draining"
  /\ client' = [client EXCEPT ![c] = FALSE]
  /\ ending' = [ending EXCEPT ![c] = "stopping"]
  /\ UNCHANGED <<debugSlot, state, pc, link, early>>

\* StopDebugging and hub.stop() settled (stop() without a hub did nothing); finally frees the slot.
\* A connect() still waiting for its Attach has been rejected by then.
Ended(c) ==
  /\ ending[c] = "stopping"
  /\ ending' = [ending EXCEPT ![c] = "over"]
  /\ link' = [link EXCEPT ![c] = link[c] /\ client[c]]
  /\ ReleaseDebugSlot(c)
  /\ UNCHANGED <<state, pc, client, early>>

SlotNext == \E c \in Calls :
  \/ Claim(c)
  \/ PublishSession(c) \/ PublishRecording(c) \/ PublishNothing(c)
  \/ Authorized(c) \/ Connected(c)
  \/ SessionReturned(c) \/ RecordingReturned(c)
  \/ Fail(c) \/ Cleaned(c) \/ OrderOver(c)
  \/ BeginDetach(c) \/ BeginFinish(c) \/ StopRecording(c) \/ Ended(c)

SlotSpec == SlotInit /\ [][SlotNext]_slotVars

----------------------------------------------------------------------------
(* Properties *)

\* Whatever the interleaving of starts, failures, detaches and finishes, the session or recording
\* the state names holds the slot: no second debugger can be started next to it, and its end frees
\* the slot of nobody else.
SlotCoversState ==
  /\ debug # None => debugSlot = debug
  /\ recordWrites # None => debugSlot = recordWrites

\* The slot is never leaked: whoever holds it is still starting, is named by the state (so that a
\* detach or finish reaches it), or is just being ended.
SlotReleasable ==
  debugSlot # None =>
    \/ pc[debugSlot] \in {"indexing", "auth", "connecting", "setup", "capturing"}
    \/ debugSlot \in {debug, recordWrites}
    \/ ending[debugSlot] \in {"draining", "stopping"}

\* The slot is held exactly by the session or recording that needs it.
SlotHeldByItsUser == SlotCoversState /\ SlotReleasable

Owned(c) == debugSlot = c \/ pc[c] = "cleaning" \/ ending[c] \in {"draining", "stopping"}

\* A debugger connection is never left behind: its session holds the slot or somebody is stopping
\* it, for every session that was not ended before its start call returned.
NoOrphanDebugger == \A c \in Calls \ early : link[c] => Owned(c)

\* The static writers kept for the finish-time cross-check are those of the running recording,
\* unless some recording was finished before its start call returned.
SeedOfRecording == early \cap Record = {} /\ recordWriteStatic # None => recordWriteStatic = recordWrites

\* However calls overlap, what has ended has left neither a connection nor its seed.
SlotEndsClean == SlotTypeOK /\ NoOrphanDebugger /\ SeedOfRecording

\* bcdev_debug_detach and bcdev_record_writes_finish end the debugger whenever they are called:
\* "Stop debugging and close the session" (debug-tools.ts).
EndedIsStopped == \A c \in Calls : link[c] => Owned(c)
=============================================================================
