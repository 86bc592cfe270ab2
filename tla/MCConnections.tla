--------------------------- MODULE MCConnections ---------------------------
(***************************************************************************)
(* The ways the server talks to Business Central while something else may   *)
(* happen to it: a debugger's connection, a test run's, a native call's     *)
(* beside the gate of a test tool, and the HTTP/1.0 request under the last  *)
(* one and under the Automation API.  The first three share only the        *)
(* test-run lock, which TestRun and TestGate each model with holders of     *)
(* their own, and what a request may come to is an outcome in its callers'  *)
(* modules; so they are checked side by side in one state space, and `part' *)
(* says which of them a behaviour is of.                                    *)
(***************************************************************************)
EXTENDS DebuggerAttach, TestRun, TestGate, Http10, TLC

\* two calls over a plan of two groups: one repeats it, the other runs it once
CONSTANTS repeat, once
MCAttempts == (repeat :> 2) @@ (once :> 1)

\* a runtime call and a test tool that share a tenant's token, beside a business call
CONSTANTS runtime, business, tool, tenant
MCProviderOf == (runtime :> tenant) @@ (business :> "bearer") @@ (tool :> tenant)
MCContext == (runtime :> "runtime") @@ (business :> "business")
MCTimeout == (runtime :> 1) @@ (business :> 1)

\* answers with no, a wrong, an exceeded, a met and an unmet Content-Length, with and without a 100 Continue
MCResponses ==
  {r \in [kind : Kinds, interims : {0, 1}, head : {1, 2}, declared : {NoLength, BadLength, 0, 1, 2},
          body : 0..3] :
     /\ r.interims = 0 \/ r.head = 1
     /\ r.kind \in {"plain", "bodyless"} \/ (r.declared = NoLength /\ r.body = 1)}

VARIABLE part

OfAttach(A) == part = "attach" /\ A /\ UNCHANGED <<part, runVars, vars, http>>
OfRun(A) == part = "run" /\ A /\ UNCHANGED <<part, attachVars, vars, http>>
OfNative(A) == part = "native" /\ A /\ UNCHANGED <<part, attachVars, runVars, http>>
OfHttp(A) == part = "http" /\ A /\ UNCHANGED <<part, attachVars, runVars, vars>>

MCInit == AttachInit /\ RunInit /\ Init /\ HttpInit /\ part \in {"attach", "run", "native", "http"}

MCNext == OfAttach(AttachNext) \/ OfRun(RunNext) \/ OfNative(Next) \/ OfHttp(HttpNext)

MCVars == <<part, attachVars, runVars, vars, http>>

MCSpec ==
  /\ MCInit /\ [][MCNext]_MCVars
  /\ WF_MCVars(OfAttach(Client)) /\ WF_MCVars(OfAttach(DispatchCallback))
  /\ \A i \in Invocations : WF_MCVars(OfAttach(AttachAnswers(i)))
  /\ \A t \in Tools : WF_MCVars(OfRun(Step(t)))
  /\ SF_MCVars(OfNative(Tick))
  /\ \A c \in Calls : WF_MCVars(OfNative(CallStep(c) /\ UNCHANGED gateVars))
  /\ \A c \in Callers : WF_MCVars(OfNative(StoreToken(c) /\ UNCHANGED <<nativeVars, gateVars>>))
  /\ WF_MCVars(OfHttp(SignalAborts))

(* Whatever is rejected, closes, hangs or is cancelled: connect() settles and
   its caller hears of a refusal, the test-run lock of a run is given back, a
   native call is over by its deadline, and the connection of a request that
   nobody answers or reads is closed. *)
ConnectionsSettle ==
  []<>(AttachSettled /\ ~runLock /\ (\A c \in Calls : ~InFlight(c)) /\ ~Open(http))
=============================================================================
