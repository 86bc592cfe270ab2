----------------------------- MODULE NativeMcp -----------------------------
(***************************************************************************)
(* SdkNativeMcpGateway.use (src/src/core/native-mcp.ts) and the handlers of *)
(* bcdev_native_list and bcdev_native_call                                  *)
(* (src/src/mcp/tools/native-mcp-tools.ts).  Every call has one deadline    *)
(* over three phases (authorization, connect, operation), opens an upstream *)
(* MCP session of its own and gives it back before it returns; a call in    *)
(* the runtime context holds the test-run lock meanwhile.                   *)
(***************************************************************************)
EXTENDS Authorization, FiniteSets

CONSTANTS
  Calls,    \* native calls
  Context,  \* Calls -> the native context
  Cloud,    \* the calls whose target is not on-prem
  Timeout,  \* Calls -> timeoutMs
  Faults    \* what may go wrong between the gateway and Business Central

ASSUME NativeAssumption ==
  /\ Calls \subseteq Callers /\ Cloud \subseteq Calls
  /\ Context \in [Calls -> {"list", "business", "runtime", "debugging"}]
  /\ Timeout \in [Calls -> 1..RefreshWindow]

VARIABLES
  testRunActive, \* state.testRunActive
  call,          \* per call: the locals of use() and of the handler
  server         \* per call: its upstream session and operation, and its transport

nativeVars == <<testRunActive, call, server>>

Phases == {"idle", "authorization", "connect", "operation", "deleting", "closing", "over"}

Codes == {"", "TIMEOUT", "AUTHENTICATION_FAILED", "UNSUPPORTED_SERVER", "SERVER_REJECTED",
          "ENDPOINT_UNREACHABLE", "NOT_FOUND", "PROTOCOL_ERROR", "INVALID_ARGUMENT", "TEST_RUN_ACTIVE"}

Outcome == [code : Codes, retryable : BOOLEAN, timeoutPhase : Phases \cup {""}, warned : BOOLEAN]

Call == [phase : Phases, deadline : Nat, outcome : Outcome]

Server ==
  [session : BOOLEAN,                          \* Business Central opened one
   transport : {"none", "open", "closed"},
   known : BOOLEAN,                            \* the transport has the session's id
   asked : BOOLEAN,                            \* a DELETE of the session was sent
   upstream : {"none", "running", "done"}]     \* the requested operation, at Business Central

NativeTypeOK ==
  /\ testRunActive \in BOOLEAN
  /\ call \in [Calls -> Call]
  /\ server \in [Calls -> Server]
  /\ \A c \in Calls :
       /\ server[c].transport = "open" <=> call[c].phase \in {"connect", "operation", "deleting", "closing"}
       /\ server[c].known => server[c].session

Success == [code |-> "", retryable |-> FALSE, timeoutPhase |-> "", warned |-> FALSE]
Failure(code, retryable) == [Success EXCEPT !.code = code, !.retryable = retryable]

NativeInit ==
  /\ testRunActive = FALSE
  /\ call = [c \in Calls |-> [phase |-> "idle", deadline |-> 0, outcome |-> Success]]
  /\ server = [c \in Calls |-> [session |-> FALSE, transport |-> "none", known |-> FALSE,
                                asked |-> FALSE, upstream |-> "none"]]

\* normalizeNativeError
Normalized(c, fault) ==
  CASE fault = "HTTP 401"                        -> Failure("AUTHENTICATION_FAILED", FALSE)
    [] fault = "HTTP 404"                        -> Failure("UNSUPPORTED_SERVER", FALSE)
    [] fault = "HTTP 503" /\ c \notin Cloud      -> Failure("UNSUPPORTED_SERVER", FALSE)
    [] fault = "HTTP 503" /\ c \in Cloud         -> Failure("SERVER_REJECTED", TRUE)
    [] fault \in {"HTTP 400", "invalid params"}  -> Failure("SERVER_REJECTED", FALSE)
    [] fault \in {"HTTP 500", "internal error"}  -> Failure("SERVER_REJECTED", TRUE)
    [] fault \in {"closed", "fetch failed"}      -> Failure("ENDPOINT_UNREACHABLE", TRUE)
    [] fault = "method not found"                -> Failure("NOT_FOUND", FALSE)
    [] OTHER                                     -> Failure("PROTOCOL_ERROR", FALSE)

RunLocked(c) == Context[c] = "runtime"

\* claimTestRun
Claim == ~testRunActive /\ testRunActive' = TRUE

\* if (runLocked) state.testRunActive = false
FreeLock(c) == testRunActive' = (testRunActive /\ ~RunLocked(c))

----------------------------------------------------------------------------
(* The handler up to the gateway, and the authorization phase *)

RefuseActive(c) ==
  /\ call[c].phase = "idle" /\ RunLocked(c) /\ testRunActive
  /\ call' = [call EXCEPT ![c].phase = "over", ![c].outcome = Failure("TEST_RUN_ACTIVE", FALSE)]
  /\ UNCHANGED <<now, authVars, testRunActive, server>>

\* targetFrom throws: no company, a misplaced parameter, no matching debug session.  Claim and finally
\* are one turn of the event loop.
RefuseTarget(c) ==
  /\ call[c].phase = "idle" /\ ~(RunLocked(c) /\ testRunActive)
  /\ call' = [call EXCEPT ![c].phase = "over", ![c].outcome = Failure("INVALID_ARGUMENT", FALSE)]
  /\ UNCHANGED <<now, authVars, testRunActive, server>>

\* The timer runs from before the authorization.  (Bound: the deadline is within MaxNow.)
Use(c) ==
  /\ call[c].phase = "idle" /\ now + Timeout[c] <= MaxNow
  /\ IF RunLocked(c) THEN Claim ELSE UNCHANGED testRunActive
  /\ call' = [call EXCEPT ![c].phase = "authorization", ![c].deadline = now + Timeout[c]]
  /\ GetAuthorizationHeader(c)
  /\ UNCHANGED <<now, server>>

\* Only a timeout of the connect is told apart.
WarnedBeforeOperation(c, o) ==
  IF RunLocked(c) /\ o.code = "TIMEOUT" /\ o.timeoutPhase = "connect"
  THEN [o EXCEPT !.retryable = FALSE, !.warned = TRUE] ELSE o

\* The handler's catch: a run that may still be executing must not be retried.
Warned(c, o) ==
  IF RunLocked(c) /\ o.code = "TIMEOUT" /\ o.timeoutPhase = "operation"
  THEN [o EXCEPT !.retryable = FALSE, !.warned = TRUE] ELSE o

\* Past the try: no connection was made, so nothing is to be cleaned up and the handler's finally runs.
Leave(c, outcome) ==
  /\ call' = [call EXCEPT ![c] = [phase |-> "over", deadline |-> 0, outcome |-> Warned(c, outcome)]]
  /\ FreeLock(c)

\* Past the try with a connection: the finally terminates the session, then closes.
CleanUp(c, outcome) ==
  /\ call' = [call EXCEPT ![c] = [phase |-> "deleting", deadline |-> 0, outcome |-> outcome]]
  /\ UNCHANGED testRunActive

AuthorizationFails(c) ==
  /\ call[c].phase = "authorization" /\ header[c].st = "failed"
  /\ Leave(c, Failure("AUTHENTICATION_FAILED", FALSE))
  /\ UNCHANGED <<now, authVars, server>>

\* requestHeaders throws: a header value with a newline, or no confirmed debug identity.
HeadersRejected(c) ==
  /\ call[c].phase = "authorization" /\ header[c].st = "ok"
  /\ Leave(c, Failure("INVALID_ARGUMENT", FALSE))
  /\ UNCHANGED <<now, authVars, server>>

Authorized(c) ==
  /\ call[c].phase = "authorization" /\ header[c].st = "ok"
  /\ call' = [call EXCEPT ![c].phase = "connect"]
  /\ server' = [server EXCEPT ![c].transport = "open"]
  /\ UNCHANGED <<now, authVars, testRunActive>>

----------------------------------------------------------------------------
(* connect and operation *)

\* Business Central opens a session on the initialize request.
SessionOpens(c) ==
  /\ server[c].transport = "open" /\ ~server[c].session
  /\ server' = [server EXCEPT ![c].session = TRUE]
  /\ UNCHANGED <<now, authVars, testRunActive, call>>

\* Its answer carries the session id; the initialized notification is still to be accepted.
SessionKnown(c) ==
  /\ call[c].phase = "connect" /\ server[c].session /\ ~server[c].known
  /\ server' = [server EXCEPT ![c].known = TRUE]
  /\ UNCHANGED <<now, authVars, testRunActive, call>>

\* connect resolved: tools/list or tools/call is on its way.
Connected(c) ==
  /\ call[c].phase = "connect" /\ server[c].known
  /\ call' = [call EXCEPT ![c].phase = "operation"]
  /\ server' = [server EXCEPT ![c].upstream = "running"]
  /\ UNCHANGED <<now, authVars, testRunActive>>

UpstreamEnds(c) ==
  /\ server[c].upstream = "running"
  /\ server' = [server EXCEPT ![c].upstream = "done"]
  /\ UNCHANGED <<now, authVars, testRunActive, call>>

Answered(c) ==
  /\ call[c].phase = "operation" /\ server[c].upstream = "done"
  /\ CleanUp(c, Success)
  /\ UNCHANGED <<now, authVars, server>>

\* A lost connection or a gateway's error says nothing of the operation at Business Central.
RequestFails(c) ==
  /\ call[c].phase \in {"connect", "operation"}
  /\ \E fault \in Faults : CleanUp(c, Normalized(c, fault))
  /\ UNCHANGED <<now, authVars, server>>

\* The timer aborts only: the request rejects by its signal, the session can still be ended.
Abort(c) == UNCHANGED server

\* abortable(): the call gives up the shared acquisition or the connect without stopping it.
TimedOut(c) ==
  LET outcome == [Failure("TIMEOUT", TRUE) EXCEPT !.timeoutPhase = call[c].phase] IN
  /\ call[c].phase \in {"authorization", "connect", "operation"} /\ now >= call[c].deadline
  /\ Abort(c)
  /\ IF call[c].phase = "authorization" THEN Leave(c, outcome) ELSE CleanUp(c, outcome)
  /\ UNCHANGED <<now, authVars>>

----------------------------------------------------------------------------
(* finally: two bounded cleanups, each over after two seconds at the latest *)

\* The DELETE is sent if the transport is open and has a session id; nobody learns what came of it.
TerminateSession(c) ==
  /\ call[c].phase = "deleting"
  /\ call' = [call EXCEPT ![c].phase = "closing"]
  /\ server' = [server EXCEPT ![c].asked = server[c].transport = "open" /\ server[c].known]
  /\ UNCHANGED <<now, authVars, testRunActive>>

Close(c) ==
  /\ call[c].phase = "closing"
  /\ Leave(c, call[c].outcome)
  /\ server' = [server EXCEPT ![c].transport = "closed"]
  /\ UNCHANGED <<now, authVars>>

----------------------------------------------------------------------------

\* What the event loop owes a call: its own steps, and the timer when it is due.
CallStep(c) ==
  \/ AuthorizationFails(c) \/ Authorized(c) \/ TimedOut(c) \/ TerminateSession(c) \/ Close(c)

CallNext(c) ==
  \/ RefuseActive(c) \/ RefuseTarget(c) \/ Use(c) \/ CallStep(c) \/ HeadersRejected(c)
  \/ SessionOpens(c) \/ SessionKnown(c) \/ Connected(c) \/ UpstreamEnds(c) \/ Answered(c) \/ RequestFails(c)

NativeNext == \E c \in Calls : CallNext(c)

\* A timer that is due fires before time goes on.
NoCallOverdue ==
  \A c \in Calls : call[c].phase \in {"authorization", "connect", "operation"} => now < call[c].deadline

----------------------------------------------------------------------------
(* Properties *)

InFlight(c) == call[c].phase \notin {"idle", "over"}

\* A header that came from the cache is still valid whenever it may be sent: no deadline reaches past
\* the margin with which the cache hands out a token.
CachedHeaderOutlivesCall ==
  \A c \in Calls :
    header[c].from = "cache" /\ call[c].phase \in {"connect", "operation"} => header[c].exp > now

\* A call that learned its upstream session asks Business Central to end it before it returns, whatever
\* the timeout interrupted.
SessionsGivenBack == \A c \in Calls : call[c].phase = "over" /\ server[c].known => server[c].asked

\* A runtime call whose caller may simply try again after a timeout has no run behind it, and one
\* that may have left a run behind is told so.
TimeoutsTellTheTruth ==
  \A c \in Calls : RunLocked(c) /\ call[c].phase = "over" /\ call[c].outcome.code = "TIMEOUT" =>
    /\ call[c].outcome.retryable => server[c].upstream = "none"
    /\ call[c].outcome.warned <=> server[c].upstream # "none"
=============================================================================
