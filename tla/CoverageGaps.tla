---------------------------- MODULE CoverageGaps ----------------------------
(***************************************************************************)
(* What bcdev_test_run makes of the procedure coverage of one run: the gaps *)
(* of a diff (src/src/core/coverage-gaps.ts), the coverage map that later   *)
(* selections read (coverage-map.ts), the Cobertura report (cobertura.ts),  *)
(* and the risk al-sem's digest gives a routine (risk.ts).  An entry of the *)
(* coverage says which test ran and which procedures it reached.            *)
(***************************************************************************)
EXTENDS TestSelection

CoveredBy(coverage, r) == {e.test : e \in {x \in coverage : x.test = r \/ r \in x.procedures}}

\* Status gone wrong: what an aborted run did not report counts as uncovered
AbortForgotten(item, run) ==
  CASE ~run.deployed -> "unknown"
    [] run.deployed /\ CoveredBy(run.coverage, item.of) # {} -> "covered"
    [] OTHER -> IF ~item.identified \/ ~run.complete THEN "unknown" ELSE "uncovered"

\* a run: its coverage, whether it was aborted, whether every payload came,
\* and whether the caller asserted that the changes are deployed
Status(item, run) ==
  CASE ~run.deployed -> "unknown"
    [] run.deployed /\ item.identified /\ CoveredBy(run.coverage, item.of) # {} -> "covered"
    [] OTHER -> IF ~item.identified \/ run.aborted \/ ~run.complete THEN "unknown" ELSE "uncovered"

Gaps(in, run) ==
  LET touched == {item \in in.found.members : ChangedIn(in, item)}
      procedures == {[of |-> item.of, status |-> Status(item, run)] : item \in {x \in touched : x.kind = "proc"}}
  IN [phase |-> "gaps", procedures |-> procedures,
      uncovered |-> {item \in touched : item.kind = "proc" /\ Status(item, run) = "uncovered"},
      complete |-> /\ in.found.complete /\ ~run.aborted
                   /\ \A p \in procedures : p.status # "unknown"
                   /\ \A item \in touched : item.kind = "proc"
                   /\ \A f \in File : in.found.unattributed[f] \cap in.lines[f] = {}]

\* a test that several groups report gets the union of its procedures
BuildMap(coverage, named, complete) ==
  [complete |-> complete, none |-> FALSE,
   tests |-> {[test |-> t, named |-> t \in named, procedures |-> UNION {e.procedures : e \in {x \in coverage : x.test = t}}] :
                t \in {e.test : e \in coverage}}]

\* one row per procedure outside the test codeunits; hits counts tests
Cobertura(coverage, members, excluded) ==
  LET rows == {item \in members : item.kind = "proc" /\ item.file \notin excluded /\ item.identified}
  IN {[of |-> item.of, hits |-> Cardinality({e.test : e \in {x \in coverage : item.of \in x.procedures}})] : item \in rows}

-----------------------------------------------------------------------------
(* Risk.  An entry of the digest has the name, file and line of a routine   *)
(* with effects.                                                            *)

\* FindRisk gone wrong: any routine of the name will do
RiskByName(entries, item) ==
  LET same == {e \in entries : SameName(e, item)}
  IN IF same = {} THEN None ELSE (CHOOSE e \in same : \A x \in same : e.line <= x.line).risk

FindRisk(entries, item) ==
  LET inSpan == {e \in entries : SameName(e, item) /\ e.line \in item.first..item.last}
  IN IF inSpan = {} THEN None ELSE (CHOOSE e \in inSpan : \A x \in inSpan : e.line <= x.line).risk

AnnotateRisk(entries, items) == {[of |-> item.of, risk |-> FindRisk(entries, item)] : item \in items}
=============================================================================
