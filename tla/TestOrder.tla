----------------------------- MODULE TestOrder -----------------------------
(***************************************************************************)
(* Mode 'order' of bcdev_test_orchestrate                                   *)
(* (src/src/core/test-order-*.ts, src/src/mcp/tools/test-order-tool.ts):    *)
(* every method alone, the selection recorded, reversed and shuffled, the   *)
(* classification of what was seen, the bisection of every victim down to   *)
(* its polluter, and at last one debugger-bound run that captures writes.   *)
(* One Initialize at a time; the first that fails is to be the last.        *)
(***************************************************************************)
EXTENDS TestWorld

CONSTANTS
  Requests,   \* the selections asked for
  MaxMethods, \* ORDER_MODE_MAX_METHODS
  Shuffles,   \* number of seeds
  MaxProbes,
  Pollution,  \* the table pollutionTableId may name
  Faults      \* what may befall an Initialize: "lost row", "abort", "throw"

ASSUME OrderAssumption ==
  /\ \A request \in Requests :
       /\ Len(request) \in Nat /\ DOMAIN request = 1..Len(request)
       /\ \A i \in DOMAIN request : request[i].methods \subseteq Method
  /\ MaxMethods \in Nat /\ Shuffles \in Nat /\ MaxProbes \in Nat \ {0} /\ Pollution \in Table
  /\ Faults \subseteq {"lost row", "abort", "throw"}

VARIABLES
  order,     \* the locals of runOrderOrchestration, runOrderMode and bisectPolluters
  slot,      \* state.debugSlot: "free", "busy" with somebody else's, or "mine"
  cancelled, \* the client's signal.aborted
  lost,      \* whether a complete run left out a row
  active     \* whether the server may still be running an Initialize nobody waits for

orderVars == <<order, slot, cancelled, lost, active, world>>

Plan == Seq(Method)
Outcomes == {"none", "found", "notReproduced", "compound", "capped", "inconclusive"}
Verdict == [outcome : Outcomes, remaining : Plan]
NoVerdict == [outcome |-> "none", remaining |-> <<>>]

NoRows == [m \in Method |-> "none"]

OrderInit ==
  /\ world \in Worlds
  /\ order = [step |-> "idle", selection |-> <<>>, table |-> FALSE, predicted |-> {}, todo |-> <<>>, isolation |-> NoRows, runs |-> <<>>,
              halted |-> FALSE, initializes |-> 0, probes |-> 0, victims |-> <<>>, phase |-> "confirm", hints |-> <<>>,
              remaining |-> <<>>, hinted |-> {}, verdict |-> [m \in Method |-> NoVerdict], evidence |-> {}, complete |-> FALSE]
  /\ slot = "free"
  /\ cancelled = FALSE
  /\ lost = FALSE
  /\ active = FALSE

-----------------------------------------------------------------------------
(* Selections and plans *)

\* a list filtered: its elements at these places, and its elements of a set
AtPlaces(s, places) ==
  LET kept[n \in 0..Len(s)] ==
        IF n = 0 THEN <<>> ELSE IF n \in places THEN Append(kept[n - 1], s[n]) ELSE kept[n - 1]
  IN kept[Len(s)]
Only(s, S) == AtPlaces(s, {i \in DOMAIN s : s[i] \in S})

\* expandOrderSelection: each codeunit once and known, each method declared, not too many
Chosen(part) == Only(Declared, {m \in Method : CodeunitOf[m] = part.id /\ (part.all \/ m \in part.methods)})
Expand(request) == FlattenSeq([i \in DOMAIN request |-> Chosen(request[i])])
Acceptable(request) ==
  /\ \A i, j \in DOMAIN request : request[i].id = request[j].id => i = j
  /\ \A i \in DOMAIN request :
       /\ \E m \in Method : CodeunitOf[m] = request[i].id
       /\ request[i].all \/ \A m \in request[i].methods : CodeunitOf[m] = request[i].id
  /\ Expand(request) # <<>> /\ Len(Expand(request)) <= MaxMethods

Group(selection, c) == Only(selection, {m \in Method : CodeunitOf[m] = c})

\* planTestOrder: codeunit groups by first appearance, then recorded, reversed or shuffled
Firsts(selection) ==
  AtPlaces(selection, {j \in DOMAIN selection : \A i \in 1..(j - 1) : ~SameGroup(selection[i], selection[j])})
Codeunits(selection) == [k \in DOMAIN Firsts(selection) |-> CodeunitOf[Firsts(selection)[k]]]
InOrder(selection, ids) == FlattenSeq([i \in DOMAIN ids |-> Group(selection, ids[i])])
Recorded(selection) == InOrder(selection, Codeunits(selection))
Reversed(selection) == InOrder(selection, Reverse(Codeunits(selection)))
Shuffled(selection) == {InOrder(selection, ids) : ids \in SetToSeqs(ToSet(Codeunits(selection)))}

-----------------------------------------------------------------------------
(* al-sem's prediction *)

\* createAlSemOrderPredictor: the tables written by methods that are not rolled
\* back are looked up one by one; nothing without the digest, less without a look-up
Written(selection) == UNION {world.writes[m] : m \in ToSet(selection) \ world.rollback}
Answered(selection) == SUBSET Written(selection)

\* predictOrderPollution
Predicted(selection, tables) ==
  {pair \in ToSet(selection) \X ToSet(selection) :
     /\ pair[1] \notin world.rollback
     /\ SameGroup(pair[1], pair[2]) /\ IsBefore(selection, pair[1], pair[2])
     /\ world.writes[pair[1]] \cap world.touches[pair[2]] \cap tables # {}}

-----------------------------------------------------------------------------
(* Analysis *)

Prefix(plan, m) == SubSeq(plan, 1, SelectInSeq(plan, LAMBDA x : x = m) - 1)

Observed(o, m) == {i \in DOMAIN o.runs : o.runs[i].rows[m] # "none"}
FailingRuns(o, m) == {i \in DOMAIN o.runs : o.runs[i].rows[m] = "failed"}

\* the statuses seen after exactly these predecessors; alone is after none
SeenAfter(o, m, prefix) ==
  {o.runs[i].rows[m] : i \in {j \in Observed(o, m) : Prefix(o.runs[j].plan, m) = prefix}}
    \cup IF prefix = <<>> THEN {o.isolation[m]} ELSE {}

\* analyzeTestOrder
Classify(o, m) ==
  LET seen == {o.runs[i].rows[m] : i \in Observed(o, m)}
      alone == o.isolation[m]
  IN CASE \E prefix \in {<<>>} \cup {Prefix(o.runs[i].plan, m) : i \in Observed(o, m)} :
            {"passed", "failed"} \subseteq SeenAfter(o, m, prefix)        -> "flakyInSameOrder"
       [] OTHER ->
     CASE seen \cup ({alone} \ {"none"}) = {}                             -> "incomplete"
       [] alone = "passed" /\ "failed" \in seen                           -> "odVictim"
       [] alone = "failed" /\ "passed" \in seen                           -> "odBrittle"
       [] alone = "none" /\ {"passed", "failed"} \subseteq seen           -> "orderDependent"
       [] OTHER -> IF "failed" \in seen \cup {alone} THEN "consistentFail" ELSE "consistentPass"

\* explainPredictions
Explained(o, p, v) ==
  CASE o.verdict[v].outcome = "found" /\ o.verdict[v].remaining = <<p>> -> "confirmed"
    [] OTHER -> IF <<p, v, "passed">> \in o.hinted \/ Classify(o, v) = "consistentPass" THEN "refuted" ELSE "unresolved"

\* what preceded it in every failing run, in the order of the first
Candidates(o, m) ==
  LET failing == FailingRuns(o, m)
      first == CHOOSE i \in failing : \A j \in failing : i <= j
  IN Only(Prefix(o.runs[first].plan, m), {p \in Method : \A i \in failing : p \in ToSet(Prefix(o.runs[i].plan, m))})

-----------------------------------------------------------------------------
(* Bisection *)

Victim(o) == Head(o.victims)
Half(o) == (Len(o.remaining) + 1) \div 2
\* as if the middle one belonged to neither half
HalfButOne(o) == SubSeq(o.remaining, 1, Half(o) - 1)
FirstHalf(o) == SubSeq(o.remaining, 1, Half(o))
SecondHalf(o) == SubSeq(o.remaining, Half(o) + 1, Len(o.remaining))

Probed(o) ==
  CASE o.phase = "hint" -> <<Head(o.hints)>>
    [] o.phase = "confirm" -> o.remaining
    [] o.phase = "first" -> FirstHalf(o)
    [] o.phase = "second" -> SecondHalf(o)

\* other codeunits' candidates, then the victim's own group, the victim last
ProbePlan(o) ==
  LET v == Victim(o) IN
  Recorded(Only(Probed(o), {p \in Method : ~SameGroup(p, v)}) \o Only(Probed(o), {p \in Method : SameGroup(p, v)}) \o <<v>>)

Finished(o) == [o EXCEPT !.step = "done"]

StartVictim(o) ==
  IF o.victims = <<>> THEN Finished(o)
  ELSE LET v == Head(o.victims)
           candidates == Candidates(o, v)
           hints == Only(o.selection, {p \in ToSet(candidates) : <<p, v>> \in o.predicted})
       IN [o EXCEPT !.step = "bisect", !.remaining = candidates, !.hints = hints,
                    !.phase = IF hints = <<>> THEN "confirm" ELSE "hint"]

Settle(o, outcome, remaining) ==
  StartVictim([o EXCEPT !.verdict[Victim(o)] = [outcome |-> outcome, remaining |-> remaining], !.victims = Tail(@)])

\* keep the half that fails, until one candidate is left
Narrow(o, remaining) ==
  IF Len(remaining) > 1 THEN [o EXCEPT !.remaining = remaining, !.phase = "first"]
  ELSE Settle(o, IF remaining = <<>> THEN "inconclusive" ELSE "found", remaining)

Hinted(o, status) ==
  LET p == Head(o.hints)
      told == [o EXCEPT !.hinted = @ \cup {<<p, Victim(o), status>>}]
  IN IF status = "failed" THEN Settle(told, "found", <<p>>)
     ELSE [told EXCEPT !.hints = Tail(@), !.phase = IF Len(o.hints) = 1 THEN "confirm" ELSE "hint"]

Confirmed(o, status) ==
  CASE status = "failed" -> Narrow(o, o.remaining)
    [] status = "passed" -> Settle(o, "notReproduced", o.remaining)
    [] OTHER -> Settle(o, "inconclusive", o.remaining)

\* as if a half that passed condemned the other
OtherHalf(o, status) ==
  CASE status = "failed" -> Narrow(o, Probed(o))
    [] status = "passed" -> Narrow(o, SecondHalf(o))
    [] OTHER -> Settle(o, "inconclusive", o.remaining)

Halved(o, status) ==
  CASE status = "failed" -> Narrow(o, Probed(o))
    [] status = "passed" -> IF o.phase = "first" THEN [o EXCEPT !.phase = "second"] ELSE Settle(o, "compound", o.remaining)
    [] OTHER -> Settle(o, "inconclusive", o.remaining)

\* what a probe's rows say of the victim
TakeProbe(o, rows) ==
  LET p == [o EXCEPT !.probes = @ + 1]
      status == rows[Victim(o)]
  IN CASE o.phase = "hint" -> Hinted(p, status)
       [] o.phase = "confirm" -> Confirmed(p, status)
       [] OTHER -> Halved(p, status)

\* the rows of an order run; after the last, every od-victim is bisected
TakeRun(o, rows) ==
  LET next == Head(o.todo)
      taken == [o EXCEPT !.todo = Tail(@),
                         !.isolation = IF next.alone THEN [@ EXCEPT ![next.plan[1]] = rows[next.plan[1]]] ELSE @,
                         !.runs = IF next.alone THEN @ ELSE Append(@, [plan |-> next.plan, rows |-> rows])]
  IN IF taken.todo # <<>> THEN taken
     ELSE StartVictim([taken EXCEPT !.victims = Only(o.selection, {m \in Method : Classify(taken, m) = "odVictim"})])

-----------------------------------------------------------------------------
(* Steps *)

\* each method alone, then recorded, reversed and shuffled
Todo(selection, shuffles) ==
  [i \in DOMAIN selection |-> [alone |-> TRUE, plan |-> <<selection[i]>>]]
    \o << [alone |-> FALSE, plan |-> Recorded(selection)], [alone |-> FALSE, plan |-> Reversed(selection)] >>
    \o [i \in 1..Shuffles |-> [alone |-> FALSE, plan |-> shuffles[i]]]

\* the handler up to the first Initialize
Begin ==
  /\ order.step = "idle"
  /\ \E request \in Requests, table \in BOOLEAN, supported \in BOOLEAN :
       LET selection == Expand(request) IN
       IF ~Acceptable(request) \/ (table /\ slot # "free") \/ ~supported THEN order' = [order EXCEPT !.step = "over"]
       ELSE \E tables \in Answered(selection), shuffles \in [1..Shuffles -> Shuffled(selection)] :
              order' = [order EXCEPT !.step = "runs", !.selection = selection, !.table = table,
                          !.predicted = Predicted(selection, tables), !.todo = Todo(selection, shuffles)]
  /\ UNCHANGED <<slot, cancelled, lost, active, world>>

Capped(o) == o.step = "bisect" /\ o.probes >= MaxProbes
NextPlan(o) == IF o.step = "runs" THEN Head(o.todo).plan ELSE ProbePlan(o)
Take(o, rows) == IF o.step = "runs" THEN TakeRun(o, rows) ELSE TakeProbe(o, rows)
Starting(o) == o.step \in {"runs", "bisect"} /\ ~Capped(o)

ProbeCap ==
  /\ Capped(order)
  /\ order' = Settle(order, "capped", order.remaining)
  /\ UNCHANGED <<slot, cancelled, lost, active, world>>

\* runOrderMode's runner, once it is halted or sees the cancellation: nothing runs any more
RunNothing ==
  /\ Starting(order) /\ (order.halted \/ cancelled)
  /\ order' = Take([order EXCEPT !.halted = TRUE], NoRows)
  /\ UNCHANGED <<slot, cancelled, lost, active, world>>

\* an aborted or failed run may still be active on the server
Halts(fault) == fault \in {"abort", "throw"}

Initialize ==
  /\ Starting(order) /\ ~order.halted /\ ~cancelled
  /\ \E rows \in Reports(NextPlan(order)), fault \in Faults \cup {"none"}, m \in ToSet(NextPlan(order)) :
       LET told == CASE fault = "none" -> rows
                     [] fault \in {"lost row", "abort"} -> Without(rows, {m})
                     [] fault = "throw" -> NoRows
       IN /\ fault = "lost row" => ~lost
          /\ order' = Take([order EXCEPT !.initializes = @ + 1, !.halted = Halts(fault)], told)
          /\ lost' = (lost \/ fault = "lost row")
          /\ active' = (fault \in {"abort", "throw"})
  /\ UNCHANGED <<slot, cancelled, world>>

\* as if only a halt made the answer incomplete
CompleteUnlessHalted(o) == ~o.halted

\* the classification, and whether it is called complete
Unresolved(o) == {m \in Method : o.verdict[m].outcome \notin {"none", "found"}}
Complete(o) == ~o.halted /\ Unresolved(o) = {} /\ \A m \in ToSet(o.selection) : Classify(o, m) # "incomplete"

Suspects(o) == UNION {ToSet(o.verdict[m].remaining) : m \in Method}

Done ==
  /\ order.step = "done"
  /\ LET o == [order EXCEPT !.complete = Complete(order), !.step = "over"] IN
     IF ~order.table \/ Suspects(order) = {} THEN order' = o /\ UNCHANGED slot
     ELSE IF cancelled \/ slot # "free" THEN order' = [o EXCEPT !.complete = FALSE] /\ UNCHANGED slot
     ELSE order' = [o EXCEPT !.step = "capture", !.initializes = @ + 1] /\ slot' = "mine"
  /\ UNCHANGED <<cancelled, lost, active, world>>

\* attributePolluterWrites
Evidence(o, seen, complete) ==
  {<<p, IF p \in seen THEN "writeObserved" ELSE IF complete THEN "noWriteObserved" ELSE "unknown">> : p \in Suspects(o)}

\* runTestsWithRecordWrites: the collector is complete when it missed no write of
\* what ran; that the run may have been aborted is not looked at
CaptureEnds ==
  /\ order.step = "capture"
  /\ LET writers == {m \in ToSet(order.selection) : Pollution \in world.writes[m]} IN
     \/ order' = [order EXCEPT !.step = "over", !.complete = FALSE]
     \/ \E aborted \in BOOLEAN, complete \in BOOLEAN, seen \in SUBSET writers :
          /\ aborted => "abort" \in Faults
          /\ complete /\ ~aborted => seen = writers
          /\ order' = [order EXCEPT !.step = "over", !.complete = @ /\ complete, !.evidence = Evidence(order, seen, complete)]
  /\ slot' = "free"
  /\ UNCHANGED <<cancelled, lost, active, world>>

Cancel ==
  /\ order.step \notin {"idle", "over"} /\ ~cancelled
  /\ cancelled' = TRUE
  /\ UNCHANGED <<order, slot, lost, active, world>>

\* a debug session begins or ends; the slot is read before the first and after the last of the runs
SlotTaken ==
  /\ slot # "mine" /\ order.step \in {"idle", "done"}
  /\ slot' = IF slot = "free" THEN "busy" ELSE "free"
  /\ UNCHANGED <<order, cancelled, lost, active, world>>

OrderStep == Begin \/ ProbeCap \/ RunNothing \/ Initialize \/ Done \/ CaptureEnds
OrderNext == OrderStep \/ Cancel \/ SlotTaken
OrderSpec == OrderInit /\ [][OrderNext]_orderVars

-----------------------------------------------------------------------------
(* Properties *)

OrderState ==
  [step : {"idle", "runs", "bisect", "done", "capture", "over"}, selection : Plan, table : BOOLEAN,
   predicted : SUBSET (Method \X Method), todo : Seq([alone : BOOLEAN, plan : Plan]),
   isolation : [Method -> Statuses], runs : Seq([plan : Plan, rows : [Method -> Statuses]]),
   halted : BOOLEAN, initializes : Nat, probes : 0..MaxProbes, victims : Plan,
   phase : {"hint", "confirm", "first", "second"}, hints : Plan, remaining : Plan,
   hinted : SUBSET (Method \X Method \X {"failed", "passed", "none"}),
   verdict : [Method -> Verdict],
   evidence : SUBSET (Method \X {"writeObserved", "noWriteObserved", "unknown"}), complete : BOOLEAN]

OrderTypeOK ==
  /\ order \in OrderState
  /\ cancelled \in BOOLEAN /\ lost \in BOOLEAN /\ active \in BOOLEAN
  /\ slot \in {"free", "busy", "mine"} /\ (slot = "mine" <=> order.step = "capture")

Steady(m) == m \notin world.flaky

(* Every plan keeps each codeunit's methods in declaration order, as the server
   runs them anyway: what the analysis takes for the predecessors of a method
   are the methods that ran before it (test-order-plan.ts:30). *)
PlansRunAsPlanned ==
  Starting(order) =>
    LET plan == NextPlan(order) IN
    \A m \in ToSet(plan) : Before(plan, m) = {p \in ToSet(plan) : IsBefore(plan, p, m)}

(* A polluter the bisection names makes the victim fail by itself, and the
   victim passes without it; a victim with one polluter is never reported as
   not reproduced or compound, and a compound set does fail it. *)
PolluterNamed ==
  \A v \in {m \in Method : Steady(m)} :
    LET w == order.verdict[v] IN
    /\ w.outcome = "found" => Fails({w.remaining[1]}, v) /\ ~Fails({}, v)
    /\ w.outcome = "compound" => Fails(ToSet(w.remaining), v)
    /\ w.outcome \in {"notReproduced", "compound"} => Cardinality(Polluters(Method, v)) # 1 \/ world.needs[v] # 1

(* What the bisection says rests on plans that ran as they were planned. *)
BlameSound == OrderTypeOK /\ PlansRunAsPlanned /\ PolluterNamed

(* A complete order missed no victim: whatever fails after others in one of its
   runs and passes alone was traced to a polluter; and what it told of a
   prediction it calls refuted, that the victim passed after it, was seen. *)
NoVictimMissed ==
  order.step = "over" /\ ~lost /\ ~order.halted =>
    /\ order.complete =>
         \A i \in DOMAIN order.runs, v \in {m \in ToSet(order.selection) : Steady(m)} :
           Fails(Before(order.runs[i].plan, v), v) /\ ~Fails({}, v) => order.verdict[v].outcome = "found"
    /\ \A pair \in order.predicted :
         Explained(order, pair[1], pair[2]) = "refuted" /\ Steady(pair[2]) =>
           \/ <<pair[1], pair[2], "passed">> \in order.hinted
           \/ \E i \in DOMAIN order.runs :
                pair[1] \in ToSet(Prefix(order.runs[i].plan, pair[2])) /\ order.runs[i].rows[pair[2]] = "passed"

(* No Initialize starts after one that was aborted or failed, whose run may
   still be active on the server (test-order-mode.ts:75). *)
NothingAfterHalt == [][active => order'.initializes = order.initializes]_orderVars

(* A suspect that is reported without a write, and not as unknown, does not
   write the table (test-order-tool.ts:96). *)
CleanMeansNoWrite == \A p \in Method : <<p, "noWriteObserved">> \in order.evidence => Pollution \notin world.writes[p]
=============================================================================
