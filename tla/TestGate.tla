------------------------------ MODULE TestGate ------------------------------
(***************************************************************************)
(* The way of a test tool to its run, beside the native calls: it claims    *)
(* the same test-run lock (claimTestRun) and asks requireTestRunningSupport *)
(* (src/src/mcp/tools/shared.ts) whether the server can run tests, which    *)
(* fetchServerInfo (src/src/core/server-info.ts) answers from dev/metadata  *)
(* with a header of the same shared providers; a success is cached for a    *)
(* while, a failure is not.  The run behind the gate is module TestRun.     *)
(* The lock is held across the whole gate, so no second gate ever finds a   *)
(* request pending: the branch that joins one is not modelled.              *)
(***************************************************************************)
EXTENDS NativeMcp

CONSTANTS
  Gates, \* callers of the test tools, each again and again
  TTL    \* serverInfoCacheTtlMs

ASSUME GateAssumption == Gates \subseteq Callers /\ Gates \cap Calls = {} /\ TTL \in Nat \ {0}

VARIABLES
  info,     \* serverInfoByDeps of the one target: the cached entry
  gate      \* per test tool call: where it is

gateVars == <<info, gate>>
vars == <<now, authVars, nativeVars, gateVars>>

Info == [kept : BOOLEAN, expiresAt : Nat, supported : BOOLEAN]
Gate == [phase : {"idle", "authorizing", "requesting", "running"}, age : Nat]

TypeOK ==
  /\ AuthTypeOK /\ NativeTypeOK
  /\ info \in Info
  /\ gate \in [Gates -> Gate]

NoInfo == [kept |-> FALSE, expiresAt |-> 0, supported |-> FALSE]

Init ==
  /\ AuthInit /\ NativeInit
  /\ info = NoInfo
  /\ gate = [g \in Gates |-> [phase |-> "idle", age |-> 0]]

GoTo(g, phase) == gate' = [gate EXCEPT ![g].phase = phase]

\* assertTestRunningSupport on an answer of the given age; the handler's finally frees the lock.
Verdict(g, supported, age) ==
  /\ gate' = [gate EXCEPT ![g] = [phase |-> IF supported THEN "running" ELSE "idle",
                                   age |-> IF supported THEN age ELSE 0]]
  /\ testRunActive' = supported

\* The header goes with its request.
Forget(g) == header' = [header EXCEPT ![g] = NoHeader]

\* Once cached, the answer is taken for good.
KnownForGood == info.kept

\* cached.expiresAt > now()
Known == info.kept /\ info.expiresAt > now

GateHit(g) ==
  /\ gate[g].phase = "idle" /\ ~testRunActive /\ Known
  /\ Verdict(g, info.supported, now + TTL - info.expiresAt)
  /\ UNCHANGED <<now, authVars, call, server, info>>

\* A new entry replaces the old one; its request needs a header first.
GateMiss(g) ==
  /\ gate[g].phase = "idle" /\ ~Known /\ Claim
  /\ info' = NoInfo
  /\ GoTo(g, "authorizing") /\ GetAuthorizationHeader(g)
  /\ UNCHANGED <<now, call, server>>

\* A failed entry is evicted; the call ends and the lock is freed.
GateFails(g) ==
  /\ info' = NoInfo
  /\ GoTo(g, "idle") /\ testRunActive' = FALSE
  /\ UNCHANGED <<now, call, server>>

HeaderFails(g) ==
  /\ gate[g].phase = "authorizing" /\ header[g].st = "failed"
  /\ GateFails(g) /\ Forget(g)
  /\ UNCHANGED <<cached, acquiring>>

RequestMetadata(g) ==
  /\ gate[g].phase = "authorizing" /\ header[g].st = "ok"
  /\ GoTo(g, "requesting") /\ Forget(g)
  /\ UNCHANGED <<now, cached, acquiring, nativeVars, info>>

\* Unreachable, timed out, rejected, or no JSON.
MetadataFails(g) ==
  /\ gate[g].phase = "requesting"
  /\ GateFails(g)
  /\ UNCHANGED authVars

\* An upgrade, or another server at the same address, may change the answer from one request to the next.
MetadataAnswers(g) ==
  /\ gate[g].phase = "requesting"
  /\ \E supported \in BOOLEAN :
       /\ info' = [kept |-> TRUE, expiresAt |-> now + TTL, supported |-> supported]
       /\ Verdict(g, supported, 0)
  /\ UNCHANGED <<now, authVars, call, server>>

RunEnds(g) ==
  /\ gate[g].phase = "running"
  /\ gate' = [gate EXCEPT ![g] = [phase |-> "idle", age |-> 0]] /\ testRunActive' = FALSE
  /\ UNCHANGED <<now, authVars, call, server, info>>

GateNext ==
  \E g \in Gates :
    \/ GateHit(g) \/ GateMiss(g) \/ HeaderFails(g) \/ RequestMetadata(g)
    \/ MetadataFails(g) \/ MetadataAnswers(g) \/ RunEnds(g)

Tick ==
  /\ now < MaxNow /\ Drained /\ NoCallOverdue
  /\ now' = now + 1
  /\ UNCHANGED <<authVars, nativeVars, gateVars>>

Next ==
  \/ NativeNext /\ UNCHANGED gateVars
  \/ AuthNext /\ UNCHANGED <<nativeVars, gateVars>>
  \/ GateNext
  \/ Tick

\* Time passes whatever else happens, and the event loop runs what is due.  Neither az nor any server
\* is fair.
Spec ==
  /\ Init /\ [][Next]_vars
  /\ SF_vars(Tick)
  /\ \A c \in Calls : WF_vars(CallStep(c) /\ UNCHANGED gateVars)
  /\ \A c \in Callers : WF_vars(StoreToken(c) /\ UNCHANGED <<nativeVars, gateVars>>)

----------------------------------------------------------------------------
(* Properties *)

Holders == {c \in Calls : RunLocked(c) /\ InFlight(c)} \cup
           {g \in Gates : gate[g].phase # "idle"}

\* The test-run lock has exactly one holder while it is taken, and none when it is free: no path of a
\* native call or of the gate frees another's lock or keeps its own.
RunLockExact == Cardinality(Holders) = IF testRunActive THEN 1 ELSE 0

\* No verdict on the server is older than the cache's time to live when a run is let through.
VerdictRecent == \A g \in Gates : gate[g].phase = "running" => gate[g].age < TTL

\* Nothing that was checked earlier has gone stale where it is used: a cached header still valid when it
\* may be sent, a cached server verdict within its time to live, a joined acquisition still running.
NothingStale == CachedHeaderOutlivesCall /\ VerdictRecent /\ NobodyForgotten

\* What a native call leaves behind is accounted for: the run lock has its one holder, its session was asked to end, and an operation
\* that may still run is named to the caller.
NothingLeftBehind == TypeOK /\ RunLockExact /\ SessionsGivenBack /\ TimeoutsTellTheTruth
=============================================================================
