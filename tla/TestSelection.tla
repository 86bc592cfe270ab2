--------------------------- MODULE TestSelection ---------------------------
(***************************************************************************)
(* Which tests a diff needs (src/src/core/test-selection.ts), over the call *)
(* graph an engine writes (src/src/core/call-graph.ts).  An engine's output *)
(* is a record of rows; the graph is what the parser makes of it.           *)
(***************************************************************************)
EXTENDS AlSource

CONSTANTS
  Test,      \* the routines that are [Test] methods
  NameOf,    \* Routine -> its name; overloads of an object share one
  Platform   \* the nodes of an al-sem graph that stand for code outside the project: its hubs

ASSUME SelectionAssumption == Test \subseteq Routine \ Trigger /\ IsFiniteSet(Platform) /\ Platform # {}

Universal == "universal" \* the hub that may call anything
Node == Routine \cup Platform \cup {Universal}

-----------------------------------------------------------------------------
(* The graph.                                                               *)

EdgeKinds == {"Direct", "Event", "Interface", "Run", "Trigger"}
Confidences == {"Resolved", "OverApprox", "Open"}
Malformed == [engine |-> "malformed"]

\* an unknown confidence reads as Open, an unknown kind as it is, hidden
\* callers that cannot be read as hidden callers all the same
ParseAlSem(out) ==
  IF ~out.meta THEN Malformed
  ELSE [engine |-> "al-sem", nodes |-> out.nodes, recovered |-> out.recovered, hidden |-> {n \in Node : out.hidden[n] # None},
        edges |-> {[e EXCEPT !.confidence = IF @ \in Confidences THEN @ ELSE "Open"] : e \in out.edges}]

ParseAltool(out) ==
  IF \E e \in out.edges : e.kind \notin EdgeKinds THEN Malformed
  ELSE [engine |-> "altool", nodes |-> out.nodes, recovered |-> {}, hidden |-> {}, edges |-> out.edges]

\* what can be reached from a set of nodes along steps <<from, to>>: no path is
\* longer than there are nodes
Beyond(steps, near) == {s[2] : s \in {x \in steps : x[1] \in near}}
Reach(steps, start) ==
  LET within[n \in 0..Cardinality(Node)] ==
        IF n = 0 THEN start ELSE LET near == within[n - 1] IN near \cup Beyond(steps, near)
  IN within[Cardinality(Node)]

\* the callers, direct or not, of a set of nodes; a hub that may call
\* anything is a caller of every node
Cone(edges, targets, universal) ==
  Reach({<<e.callee, e.caller>> : e \in edges} \cup (Node \X universal), targets)

DirectEdges(graph) == {e \in graph.edges : e.kind = "Direct" /\ e.confidence # "Open"}
PinnedEdges(graph) == {e \in graph.edges : e.confidence # "Open"}
HubOf(graph) == {n.id : n \in graph.nodes} \cap {Universal}

ReverseReachable(graph, targets) ==
  [direct |-> Cone(DirectEdges(graph), targets, {}), indirect |-> Cone(PinnedEdges(graph), targets, {}),
   all |-> Cone(graph.edges, targets, HubOf(graph))]

Reason(cone, n) == IF n \in cone.direct THEN "direct" ELSE IF n \in cone.indirect THEN "event" ELSE "dynamic"

-----------------------------------------------------------------------------
(* Joining what discovery found to the graph's nodes.                       *)

Locals(graph) == {n \in graph.nodes : n.id \in Routine}
SameName(n, item) == n.file = item.file /\ NameOf[n.id] = NameOf[item.of]

AlSemNodes(graph, item) ==
  LET located == {n \in Locals(graph) : SameName(n, item) /\ n.line \in item.first..item.last}
  IN {n.id : n \in IF located # {} THEN located ELSE {m \in Locals(graph) : SameName(m, item)}}

AltoolNodes(graph, item) ==
  LET byId == {n \in Locals(graph) : item.identified /\ n.id = item.of}
  IN {n.id : n \in IF byId # {} THEN byId ELSE {m \in Locals(graph) : SameName(m, item)}}

NodesOf(graph, item) == IF graph.engine = "al-sem" THEN AlSemNodes(graph, item) ELSE AltoolNodes(graph, item)

-----------------------------------------------------------------------------
(* The evidence: which tests, and why.  An input has the change set         *)
(* (`lines` of every file, `nonAl`, `unresolved`), what discovery `found`   *)
(* in the changed files, the project's `tests`, the `graph`, the coverage   *)
(* `map` or NoMap, and the size of a shard.                                 *)

NoMap == [complete |-> FALSE, tests |-> {}, none |-> TRUE]

ChangedIn(in, item) == in.lines[item.file] \cap item.first..item.last # {}
Changed(in) == {item \in in.found.members : ChangedIn(in, item) /\ (item.kind = "proc" \/ in.graph.engine = "al-sem")}
OwnTest(in, item) == {t \in in.tests : item.kind = "proc" /\ t.file = item.file /\ NameOf[t.of] = NameOf[item.of]}

\* the recorded tests that ran a procedure, where they still exist
History(in, item) ==
  IF ~item.identified THEN {}
  ELSE {t \in in.tests : \E e \in in.map.tests : e.test = t.of /\ (t.identified \/ e.named) /\ item.of \in e.procedures}

\* what the graph and the history say of a changed routine
Finding(in, item) ==
  LET nodes == NodesOf(in.graph, item)
      cone == ReverseReachable(in.graph, nodes)
      history == History(in, item)
      hidden == in.graph.engine = "al-sem" /\ cone.all \cap in.graph.hidden # {}
  IN [item |-> item, inGraph |-> nodes # {}, history |-> history, hiddenUnresolved |-> hidden /\ history = {},
      reached |-> UNION {{<<t, Reason(cone, n)>> : n \in NodesOf(in.graph, t) \cap cone.all} : t \in in.tests}]

Findings(in) == {Finding(in, item) : item \in {x \in Changed(in) : OwnTest(in, x) = {}}}

\* <<test, reason, changed routine>>; a changed test stands for itself
OwnNotes(in) ==
  UNION {{<<t, IF t.identified /\ \E e \in in.map.tests : e.test = t.of THEN "direct" ELSE "new-test", item.of>> : t \in OwnTest(in, item)} :
           item \in Changed(in)}
Notes(findings) ==
  UNION {{<<r[1], r[2], g.item.of>> : r \in g.reached} \cup {<<t, "coverage-history", g.item.of>> : t \in g.history} : g \in findings}

Uncoverable(findings) == {g.item : g \in {x \in findings : x.reached = {} /\ x.history = {} /\ ~x.hiddenUnresolved}}

\* what the selection cannot see
Fallback(in, findings) ==
  \/ in.nonAl \/ in.unresolved # {} \/ ~in.found.complete
  \/ in.graph.engine # "al-sem" /\ \E item \in in.found.members : item.kind = "trigger" /\ ChangedIn(in, item)
  \/ \E f \in File : in.found.unattributed[f] \cap in.lines[f] # {}
  \/ in.graph.engine = "al-sem" /\ \E f \in in.graph.recovered : in.lines[f] # {}
  \/ in.graph.engine = "al-sem" /\ in.tests # {} /\ ~\E n \in in.graph.nodes : n.id \in Test
  \/ \E g \in findings : ~g.inGraph \/ g.hiddenUnresolved

-----------------------------------------------------------------------------
(* The plan: ranked, grouped by codeunit, cut into shards.                  *)

Score == [r \in {"new-test", "direct", "coverage-history", "event", "dynamic"} |->
            CASE r = "new-test" -> 100 [] r = "direct" -> 90 [] r = "coverage-history" -> 80 [] r = "event" -> 50 [] OTHER -> 30]

Confidence(reasons) ==
  IF "new-test" \in reasons THEN 100
  ELSE IF "coverage-history" \in reasons /\ reasons \cap {"direct", "event"} # {} THEN 95
  ELSE Max({Score[r] : r \in reasons})

Ranked(notes) ==
  LET of(t) == {n \in notes : n[1] = t}
      rank(t) == Confidence({n[2] : n \in of(t)}) * 10 + Cardinality({n[3] : n \in of(t)})
  IN SetToSortSeq({n[1] : n \in notes}, LAMBDA s, t : rank(s) > rank(t))

\* the codeunits of a list of tests, in order of their first test
CodeunitsOf(list) == FoldLeft(LAMBDA cs, t : IF Contains(cs, t.file) THEN cs ELSE Append(cs, t.file), <<>>, list)

Shards(list, size) ==
  LET cs == CodeunitsOf(list)
      count == (Len(cs) + size - 1) \div size
  IN [k \in 1..count |->
        {[codeunit |-> c, methods |-> {t.of : t \in {x \in ToSet(list) : x.file = c}}] :
           c \in {cs[i] : i \in {j \in DOMAIN cs : (j - 1) \div size = k - 1}}}]

Planned(in, findings, all, notes) ==
  [tests |-> {n[1].of : n \in notes}, uncoverable |-> Uncoverable(findings), all |-> all,
   shards |-> Shards(IF all THEN SetToSeq(in.tests) ELSE Ranked(notes), in.size), engine |-> in.graph.engine]

SelectionOf(in, findings) == Planned(in, findings, Fallback(in, findings), OwnNotes(in) \cup Notes(findings))

Selection(in) == SelectionOf(in, Findings(in))
=============================================================================
