----------------------------- MODULE TestTools -----------------------------
(***************************************************************************)
(* bcdev_test_orchestrate and the call graphs, which share no state, side   *)
(* by side: `part' says which of the two a behaviour is of.                 *)
(***************************************************************************)
EXTENDS TestRepeat, CallGraphs

VARIABLE part

OfOrchestration(A) == part = "orchestration" /\ A /\ UNCHANGED <<part, callGraphVars>>
OfGraphs(A) == part = "graphs" /\ A /\ UNCHANGED <<part, vars>>

\* the part that does not move is at one of its initial states
ToolsInit ==
  \/ part = "orchestration" /\ Init /\ GraphInitOn(CHOOSE m \in Machines : TRUE)
  \/ part = "graphs" /\ GraphInit /\ Init /\ mode = "repeat"

ToolsNext == OfOrchestration(Next) \/ OfGraphs(GraphNext)

toolsVars == <<part, vars, callGraphVars>>

ToolsSpec ==
  /\ ToolsInit /\ [][ToolsNext]_toolsVars
  /\ \A c \in Call : WF_toolsVars(OfGraphs(Lookup(c))) /\ WF_toolsVars(OfGraphs(BuildStep(c)))
  /\ \A p \in Process : WF_toolsVars(OfGraphs(Resolver(p)))

(* Neither part acts on what may have changed since: a run that may still be
   active, a cancellation, a remembered failure. *)
StepsSound == RunsStop /\ NothingStale
=============================================================================
