---------------------------- MODULE MCTestTools ----------------------------
(***************************************************************************)
(* Orchestration: four methods of two codeunits and six ways in which they  *)
(* may depend on each other.  Graphs: two calls in one of two server        *)
(* processes, on five machines.                                             *)
(***************************************************************************)
EXTENDS TestTools, TLC

CONSTANTS a1, a2, a3, b1, t
MCCodeunitOf == (a1 :> 1) @@ (a2 :> 1) @@ (a3 :> 1) @@ (b1 :> 2)
MCDeclared == <<a1, a2, a3, b1>>
Off(S) == [m \in Method |-> IF m \in S THEN {t} ELSE {}]
Base == [writes |-> Off({}), touches |-> Off({}), rollback |-> {}, session |-> {},
         needs |-> [m \in Method |-> 1], brittle |-> {}, flaky |-> {}]
MCWorlds ==
  { [Base EXCEPT !.writes = Off({a1}), !.touches = Off({a3})],
    [Base EXCEPT !.writes = Off({a1, a2}), !.touches = Off({a3}), !.needs = [@ EXCEPT ![a3] = 2]],
    [Base EXCEPT !.session = {<<a3, b1>>}],
    [Base EXCEPT !.session = {<<b1, a2>>, <<a1, b1>>}],
    [Base EXCEPT !.writes = Off({a1}), !.touches = Off({a2}), !.brittle = {a2}],
    [Base EXCEPT !.writes = Off({a1}), !.touches = Off({a2, a3}), !.rollback = {a1}, !.flaky = {a2}, !.needs = [@ EXCEPT ![b1] = 0]] }
All(c) == [id |-> c, all |-> TRUE, methods |-> {}]
Some(c, S) == [id |-> c, all |-> FALSE, methods |-> S]
MCRequests == { <<All(1), All(2)>>, <<Some(2, {b1}), Some(1, {a1, a3})>>, <<All(1), All(1)>>, <<All(3)>>, <<Some(1, {b1})>>, <<Some(2, {})>> }
MCOddRows == {<<>>, <<"failed">>, <<"skipped">>, <<"passed", "failed">>}

CONSTANTS one, two, c1, c2
MCProcessOf == [c \in Call |-> one]
Machine(env, download, onPath, file, engine) ==
  [env |-> env, download |-> download, path |-> onPath, cached |-> file, choice |-> engine]
MCMachines ==
  { Machine(FALSE, TRUE, None, "bad", "al-sem"), Machine(FALSE, FALSE, "old", None, "auto"),
    Machine(TRUE, FALSE, None, None, "auto"), Machine(FALSE, FALSE, "pinned", "good", "al-sem"), Machine(FALSE, FALSE, None, "good", "altool") }
=============================================================================
