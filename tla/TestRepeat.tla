----------------------------- MODULE TestRepeat -----------------------------
(***************************************************************************)
(* bcdev_test_orchestrate (src/src/mcp/tools/test-tools.ts): mode 'order'   *)
(* of TestOrder, or mode 'repeat', which runs one selection several times   *)
(* and compares what the attempts reported                                  *)
(* (src/src/core/test-orchestration.ts).  A report may lack rows, repeat    *)
(* them or be cut short; the comparison is to call nothing stable that was  *)
(* not seen to be.                                                          *)
(***************************************************************************)
EXTENDS TestOrder

CONSTANTS
  MaxRuns, \* bound on the attempts asked for
  OddRows  \* what a run may report of a method, other than that it passed

ASSUME RepeatAssumption == MaxRuns \in Nat \ {0, 1} /\ OddRows \subseteq Seq({"passed", "failed", "skipped"})

VARIABLES
  mode,  \* the mode asked for
  repeat \* the locals of the handler in mode 'repeat'

vars == <<orderVars, mode, repeat>>

Concrete == {"passed", "failed", "skipped"}
RepeatRun == [rows : [Method -> Seq(Concrete)], aborted : BOOLEAN]

Init ==
  /\ OrderInit
  /\ mode \in {"order", "repeat"}
  /\ mode = "repeat" => world = CHOOSE w \in Worlds : TRUE \* any will do: mode 'repeat' does not depend on it
  /\ repeat = [step |-> "idle", request |-> <<>>, requested |-> 0, runs |-> <<>>, noticed |-> FALSE]

-----------------------------------------------------------------------------
(* The comparison *)

\* methods named in the request, and methods it covers
Named(request) == UNION {request[i].methods : i \in {j \in DOMAIN request : ~request[j].all}}
Covered(request) == {m \in Method : \E i \in DOMAIN request : CodeunitOf[m] = request[i].id /\ (request[i].all \/ m \in request[i].methods)}

Identities(r) == Named(r.request) \cup {m \in Method : \E i \in DOMAIN r.runs : r.runs[i].rows[m] # <<>>}

\* as if the last of several rows were the result
LastRow(r, m, i) ==
  IF i > Len(r.runs) \/ r.runs[i].rows[m] = <<>> THEN "missing" ELSE r.runs[i].rows[m][Len(r.runs[i].rows[m])]

Observation(r, m, i) ==
  CASE i > Len(r.runs) \/ r.runs[i].rows[m] = <<>> -> "missing"
    [] OTHER -> IF Len(r.runs[i].rows[m]) > 1 THEN "ambiguous" ELSE r.runs[i].rows[m][1]

Seen(r, m) == {Observation(r, m, i) : i \in 1..r.requested}

Stability(r, m) ==
  CASE {"passed", "failed"} \subseteq Seen(r, m) -> "flaky"
    [] OTHER -> IF Seen(r, m) \cap {"missing", "ambiguous"} # {} THEN "incomplete"
                ELSE IF Cardinality(Seen(r, m)) = 1 THEN CHOOSE s \in Concrete : s \in Seen(r, m)
                ELSE "inconsistent"

RepeatComplete(r) ==
  /\ Len(r.runs) = r.requested /\ \A i \in DOMAIN r.runs : ~r.runs[i].aborted
  /\ Identities(r) # {} /\ \A m \in Identities(r) : Seen(r, m) \subseteq Concrete

Outcome(r) ==
  LET stabilities == {Stability(r, m) : m \in Identities(r)} IN
  CASE ~RepeatComplete(r) -> "incomplete"
    [] OTHER -> IF stabilities \cap {"flaky", "inconsistent"} # {} THEN "unstable"
                ELSE IF "failed" \in stabilities THEN "failed" ELSE "passed"

With(r, i, status) == {m \in Identities(r) : Observation(r, m, i) = status}
Diff(r, i, status) ==
  [added |-> With(r, i + 1, status) \ With(r, i, status), removed |-> With(r, i, status) \ With(r, i + 1, status)]
Diffs(r, status) == [i \in 1..(Len(r.runs) - 1) |-> Diff(r, i, status)]
Changed(r, i) == {m \in Identities(r) : Observation(r, m, i) # Observation(r, m, i + 1)}

-----------------------------------------------------------------------------
(* Steps *)

\* the server may not support running tests at all
BeginRepeat ==
  /\ mode = "repeat" /\ repeat.step = "idle"
  /\ \E request \in Requests, requested \in 2..MaxRuns, supported \in BOOLEAN :
       repeat' = [repeat EXCEPT !.step = IF supported THEN "run" ELSE "over", !.request = request, !.requested = requested]
  /\ UNCHANGED <<orderVars, mode>>

\* one row of every method covered, but for one method at most
Attempts(request) ==
  LET passed == [m \in Method |-> IF m \in Covered(request) THEN <<"passed">> ELSE <<>>]
  IN {passed} \cup {[passed EXCEPT ![odd] = rows] : odd \in Covered(request), rows \in OddRows}

\* as if the next attempt were made whatever became of this one
GoesOn(r) == IF Len(r.runs) = r.requested THEN [r EXCEPT !.step = "over"] ELSE r

\* the loop's condition and its breaks, where the cancellation is looked at after the attempt
AfterAttempt(r) ==
  CASE r.runs[Len(r.runs)].aborted \/ Len(r.runs) = r.requested -> [r EXCEPT !.step = "over"]
    [] OTHER -> IF cancelled THEN [r EXCEPT !.step = "over", !.noticed = TRUE] ELSE r

\* one attempt, complete or aborted; one that throws counts as aborted
Attempt ==
  /\ repeat.step = "run" /\ ~cancelled
  /\ \E rows \in Attempts(repeat.request), fault \in {"none"} \cup (Faults \cap {"abort", "throw"}) :
       LET run == IF fault = "throw" THEN [rows |-> [m \in Method |-> <<>>], aborted |-> TRUE]
                  ELSE [rows |-> rows, aborted |-> fault = "abort"]
       IN /\ repeat' = AfterAttempt([repeat EXCEPT !.runs = Append(@, run)])
          /\ active' = run.aborted
  /\ UNCHANGED <<order, slot, cancelled, lost, world, mode>>

\* the cancellation is seen before the next attempt
Notice ==
  /\ repeat.step = "run" /\ cancelled
  /\ repeat' = [repeat EXCEPT !.step = "over", !.noticed = TRUE]
  /\ UNCHANGED <<orderVars, mode>>

CancelRepeat ==
  /\ repeat.step = "run" /\ ~cancelled
  /\ cancelled' = TRUE
  /\ UNCHANGED <<order, slot, lost, active, world, mode, repeat>>

Next ==
  \/ mode = "order" /\ OrderNext /\ UNCHANGED <<mode, repeat>>
  \/ BeginRepeat
  \/ Attempt
  \/ Notice
  \/ CancelRepeat

Spec == Init /\ [][Next]_vars

-----------------------------------------------------------------------------
(* Properties *)

TypeOK ==
  /\ mode \in {"order", "repeat"}
  /\ repeat \in [step : {"idle", "run", "over"}, request : Requests \cup {<<>>}, requested : 0..MaxRuns,
                 runs : Seq(RepeatRun), noticed : BOOLEAN]

\* what the raw rows say
OnlyRow(r, m, i, status) == r.runs[i].rows[m] = <<status>>

(* An outcome other than incomplete rests on every attempt asked for, none of
   them aborted, each with one row of each method the request names; and
   'passed' on no failure in any of them. *)
OutcomeRests ==
  repeat.step = "over" /\ Outcome(repeat) # "incomplete" =>
    /\ Len(repeat.runs) = repeat.requested
    /\ \A i \in DOMAIN repeat.runs :
         /\ ~repeat.runs[i].aborted
         /\ \A m \in Method : Len(repeat.runs[i].rows[m]) <= 1
         /\ \A m \in Named(repeat.request) : Len(repeat.runs[i].rows[m]) = 1
         /\ Outcome(repeat) = "passed" => \A m \in Method : ~OnlyRow(repeat, m, i, "failed")

(* The differences between adjacent attempts lead from what passed (or failed)
   in the one to what did in the other, and where a method is not listed as
   changed nothing was. *)
DiffsAddUp ==
  repeat.step = "over" =>
    \A status \in {"passed", "failed"} : \A i \in DOMAIN Diffs(repeat, status) :
      LET d == Diffs(repeat, status)[i]
          before == {m \in Method : OnlyRow(repeat, m, i, status)}
          after == {m \in Method : OnlyRow(repeat, m, i + 1, status)}
      IN /\ (before \ d.removed) \cup d.added = after
         /\ \A m \in Identities(repeat) \ Changed(repeat, i) : m \in before <=> m \in after

\* What mode 'repeat' answers is what its runs reported.
RepeatHonest == TypeOK /\ OutcomeRests /\ DiffsAddUp

(* Nothing is run after an aborted or failed run, which may still be active on
   the server, nor after the cancellation was seen: in mode 'repeat', and in
   mode 'order' up to the end of the bisection. *)
RunsStop ==
  [][/\ order.step \in {"runs", "bisect"} /\ (active \/ order.halted) => order'.initializes = order.initializes
     /\ repeat.step # "idle" /\ (active \/ repeat.noticed) => repeat'.runs = repeat.runs]_vars
=============================================================================
