----------------------------- MODULE TestWorld -----------------------------
(***************************************************************************)
(* What Business Central does with one Initialize of the test runner hub,   *)
(* as src/src/core/test-order-plan.ts records it: the groups of a plan run  *)
(* in order in one session, the methods of a group in declaration order     *)
(* whatever was asked for, and data is rolled back after every group.       *)
(***************************************************************************)
EXTENDS Naturals, Sequences, SequencesExt, FiniteSets

CONSTANTS
  Method, Table,
  CodeunitOf, \* Method -> its codeunit
  Declared,   \* all methods, codeunit by codeunit, in declaration order
  Worlds      \* how the methods depend on each other

ASSUME WorldAssumption ==
  /\ Declared \in Seq(Method) /\ ToSet(Declared) = Method
  /\ \A i, j \in DOMAIN Declared : Declared[i] = Declared[j] => i = j
  /\ \A i, j, k \in DOMAIN Declared :
       i <= j /\ j <= k /\ CodeunitOf[Declared[i]] = CodeunitOf[Declared[k]] => CodeunitOf[Declared[j]] = CodeunitOf[Declared[i]]

(* writes and touches: per method, its tables; rollback: the AutoRollback
   methods; session: pairs <<polluter, victim>> by SingleInstance state;
   needs: per method, how many polluters fail it (0: it always fails);
   brittle: methods that instead fail without them; flaky: methods that fail
   at random *)
World ==
  [writes : [Method -> SUBSET Table], touches : [Method -> SUBSET Table], rollback : SUBSET Method,
   session : SUBSET (Method \X Method), needs : [Method -> Nat], brittle : SUBSET Method, flaky : SUBSET Method]

ASSUME WorldsAssumption == Worlds \subseteq World /\ Worlds # {}

VARIABLE world

Statuses == {"passed", "failed", "none"}

SameGroup(p, v) == CodeunitOf[p] = CodeunitOf[v]

\* of the methods that ran before v, those whose effect v sees
Polluters(before, v) ==
  {p \in before : \/ SameGroup(p, v) /\ p \notin world.rollback /\ world.writes[p] \cap world.touches[v] # {}
                  \/ <<p, v>> \in world.session}

Fails(before, v) ==
  LET polluted == Cardinality(Polluters(before, v)) >= world.needs[v]
  IN IF v \in world.brittle THEN ~polluted ELSE polluted

\* the order a plan's groups really run in
IsBefore(s, p, v) == \E i, j \in DOMAIN s : i < j /\ s[i] = p /\ s[j] = v
Before(plan, v) ==
  {p \in ToSet(plan) : IF SameGroup(p, v) THEN IsBefore(Declared, p, v) ELSE IsBefore(plan, p, v)}

\* what a complete run reports; methods outside the plan have no row
Reports(plan) ==
  LET run == ToSet(plan)
      failing == {m \in run \ world.flaky : Fails(Before(plan, m), m)}
  IN {[m \in Method |-> IF m \notin run THEN "none" ELSE IF m \in failing \cup unlucky THEN "failed" ELSE "passed"] :
        unlucky \in SUBSET (world.flaky \cap run)}

\* rows that never arrive
Without(rows, lost) == [m \in Method |-> IF m \in lost THEN "none" ELSE rows[m]]
=============================================================================
