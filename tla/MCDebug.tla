------------------------------ MODULE MCDebug ------------------------------
(***************************************************************************)
(* The event queue of one debug session, and the slot that the calls which  *)
(* start and end sessions compete for, side by side in one state space:     *)
(* `part' says which of the two a behaviour is of.  They meet in the client *)
(* only, which the one takes for granted and the other starts and stops.    *)
(***************************************************************************)
EXTENDS DebugSession, DebugSlot, TLC

CONSTANTS c1, c2, a1, a2, r1, r2, o1

\* overlapping calls of one tool are interchangeable
CallSymmetry == Permutations(Callers) \cup Permutations(Manual) \cup Permutations(Record)

VARIABLE part

MCInit == Init /\ SlotInit /\ part \in {"session", "slot"}

\* bound: Break and OnFatalDebuggerException callbacks and test runs, together
FewEvents == breaks + failures + runs <= 2

MCNext ==
  \/ part = "session" /\ Next /\ FewEvents' /\ UNCHANGED <<part, slotVars>>
  \/ part = "slot" /\ SlotNext /\ UNCHANGED <<part, vars>>

MCVars == <<part, vars, slotVars>>

MCSpec == MCInit /\ [][MCNext]_MCVars
=============================================================================
