------------------------------ MODULE TestPlan ------------------------------
(***************************************************************************)
(* What the test tools promise, told without hubs, messages and stages: one *)
(* tool at a time runs its plan, group after group; it calls an attempt     *)
(* complete only when every group of it has run, starts another attempt     *)
(* only after a complete one, and returns only with a reported attempt.     *)
(* TestRun is shown to implement it.                                        *)
(***************************************************************************)
EXTENDS Naturals

CONSTANTS
  Tools,      \* calls of the test tools
  NumGroups,  \* codeunit groups of the plan
  Attempts    \* per call: the attempts it asks for

VARIABLES
  active,   \* the calls that run tests
  attempt,  \* per call: the attempt it is in, 0 before the first
  done,     \* per call: groups of that attempt that have run
  report    \* per call: the report of that attempt

vars == <<active, attempt, done, report>>

Init ==
  /\ active = {}
  /\ attempt = [t \in Tools |-> 0]
  /\ done = [t \in Tools |-> 0]
  /\ report = [t \in Tools |-> "none"]

Claim(t) ==
  /\ active = {} /\ active' = {t}
  /\ attempt[t] = 0
  /\ UNCHANGED <<attempt, done, report>>

Start(t) ==
  /\ t \in active
  /\ attempt[t] = 0 \/ report[t] = "complete"
  /\ attempt[t] < Attempts[t]
  /\ attempt' = [attempt EXCEPT ![t] = attempt[t] + 1]
  /\ done' = [done EXCEPT ![t] = 0]
  /\ report' = [report EXCEPT ![t] = "none"]
  /\ UNCHANGED active

\* The server may still finish a group of an aborted attempt.
RunGroup(t) ==
  /\ t \in active /\ attempt[t] > 0
  /\ done[t] < NumGroups
  /\ done' = [done EXCEPT ![t] = done[t] + 1]
  /\ UNCHANGED <<active, attempt, report>>

Report(t, verdict) ==
  /\ t \in active /\ attempt[t] > 0 /\ report[t] = "none"
  /\ verdict = "complete" => done[t] = NumGroups
  /\ report' = [report EXCEPT ![t] = verdict]
  /\ UNCHANGED <<active, attempt, done>>

Return(t) ==
  /\ t \in active /\ active' = active \ {t}
  /\ attempt[t] = 0 \/ report[t] # "none"
  /\ UNCHANGED <<attempt, done, report>>

Next == \E t \in Tools :
  \/ Claim(t) \/ Start(t) \/ RunGroup(t) \/ Return(t)
  \/ \E verdict \in {"complete", "aborted"} : Report(t, verdict)

Spec == Init /\ [][Next]_vars
=============================================================================
