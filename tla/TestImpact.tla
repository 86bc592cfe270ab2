----------------------------- MODULE TestImpact -----------------------------
(***************************************************************************)
(* One diff through the tools that look at it (src/src/mcp/tools/           *)
(* test-tools.ts): bcdev_test_run records a coverage map and classifies the *)
(* changed procedures, bcdev_test_select chooses the tests.  Each awaits    *)
(* its reads of the working tree one after the other; the tree may be       *)
(* edited between them and while the tests run, and published.              *)
(***************************************************************************)
EXTENDS CoverageGaps

CONSTANTS
  FileOf,     \* Routine -> its file
  Programs,   \* what the routines call, and what the tools can know of them
  Tree,       \* the working trees there may be
  Edits,      \* Tree -> its files, aligned with the merge base's; which are untracked, which deleted; whether others changed
  Unedited,   \* the tree that equals the merge base
  Racing,     \* the trees that an edit may lead to while a selection reads (a bound on the model)
  RunArgs,    \* selections of tests that a run may be given
  Sizes       \* shard sizes

Hows == {"direct", "event", "run", "newer", "odd", "hub", "any", "hidden"}
Call == [from : Routine, to : Routine, how : Hows]

(* calls and, once its caller has been edited, the calls a routine makes;
   identified: the routines whose method id discovery can compute; recovered:
   the files al-sem cannot parse; effects: what al-sem's digest knows *)
Program ==
  [calls : SUBSET Call, later : SUBSET Call, identified : SUBSET Routine, recovered : SUBSET File, effects : [Routine -> {None, "writes", "commits"}]]

VARIABLES
  program,
  tree,    \* the working tree
  server,  \* what is published
  run,     \* the run under way, or the last one
  map,     \* the coverage map file: NoMap, Torn, or a map
  gaps, report, \* what the last run answered
  pick     \* bcdev_test_select: the trees its reads saw, then its answer

vars == <<program, tree, server, run, map, gaps, report, pick>>

Torn == [complete |-> FALSE, tests |-> {}, none |-> FALSE, torn |-> TRUE]
NoRun == [phase |-> "idle"]
NoAnswer == [phase |-> "none"]

-----------------------------------------------------------------------------
(* The code: what a tree contains and what runs when a test is called.      *)

Source(t, f) == CurrentLines(Edits[t].files[f])
Compiled(t, f) == Preprocessed(Source(t, f)).lines
Codes == [t \in Tree |-> [r \in Routine |-> Code(Source(t, FileOf[r]), r)]]
Exists(t, r) == Codes[t][r] # <<>>
Altered(t) == {r \in Routine : Codes[t][r] # Codes[Unedited][r]}

CallsIn(t) ==
  {c \in program.calls \cup {x \in program.later : x.from \in Altered(t)} : Exists(t, c.from) /\ Exists(t, c.to)}

\* the routines a test runs, itself included
Runs(calls, test) == Reach({<<c.from, c.to>> : c \in calls}, {test})

-----------------------------------------------------------------------------
(* What the tools read of a tree.                                           *)

Lines == [t \in Tree |-> [r \in Routine |->
  LET s == Compiled(t, FileOf[r])
      starts == {i \in Where(s, Starts) : s[i].of = r}
  IN IF starts = {} THEN 0 ELSE Min(starts)]]

\* a file that is not there cannot be read
Missing == [members |-> {}, unattributed |-> {}, complete |-> FALSE]
Parsed == [t \in Tree |-> [f \in File |-> IF f \in Edits[t].deleted THEN Missing ELSE Discovered(Source(t, f))]]

\* What a tree's text has to have of AL's grammar: a routine is declared once, in its file,
\* and no declaration stands inside a body that ends
Grammatical(s, f) ==
  LET declared == Where(s, Starts) IN
  /\ s \in Seq(Line)
  /\ \A i \in declared : s[i].of \in Routine /\ FileOf[s[i].of] = f /\ (s[i].kind = "trigger" <=> s[i].of \in Trigger)
  /\ \A i, j \in declared : s[i].of = s[j].of => i = j
  /\ \A b \in Where(s, {"begin"}), i \in declared : b < i => ProcedureEnd(s, b, Len(s)) < i

ASSUME ImpactAssumption ==
  /\ FileOf \in [Routine -> File] /\ Programs \subseteq Program /\ Unedited \in Tree /\ Racing \subseteq Tree /\ RunArgs \subseteq SUBSET Test
  /\ \A t \in Tree : \A f \in Edits[t].deleted : f \in File /\ Source(t, f) = <<>>
  /\ \A t \in Tree : (\A f \in File : Grammatical(Compiled(t, f), f)) /\ \A x \in Test : Exists(t, x) => Lines[t][x] > 0

\* a deleted file has no lines of its own; one that was only emptied has the first
Unresolved(t) == Edits[t].deleted
GitLines == [t \in Tree |-> [f \in File |-> IF f \in Unresolved(t) THEN {} ELSE ChangedLines(Edits[t].files[f], f \in Edits[t].untracked)]]

Joined(parsed, files) ==
  [members |-> UNION {{[of |-> m.of, kind |-> m.kind, first |-> m.first, last |-> m.last, file |-> f,
                        identified |-> m.kind = "proc" /\ m.of \in program.identified] : m \in parsed[f].members} : f \in files},
   unattributed |-> [f \in File |-> IF f \in files THEN parsed[f].unattributed ELSE {}],
   complete |-> \A f \in files : parsed[f].complete]

Discover(t, files) == Joined(Parsed[t], files)

\* every [Test] method of the project; where discovery misses one it has no span
Listed(found, there) ==
  {m \in found : m.of \in there}
  \cup {[of |-> x, kind |-> "proc", first |-> 1, last |-> 0, file |-> FileOf[x], identified |-> FALSE] : x \in there \ {m.of : m \in found}}

TestFiles == {FileOf[x] : x \in Test}
TestsOf(t) == Listed({m \in Discover(t, TestFiles).members : m.of \in Test}, {x \in Test : Lines[t][x] > 0})

\* what an engine writes for the calls of a tree; the calls of a file al-sem
\* cannot parse, and those no engine shows, are missing
Rows(c) ==
  LET edge(a, b, k, conf) == [caller |-> a, callee |-> b, kind |-> k, confidence |-> conf]
  IN CASE c.how = "direct" -> {edge(c.from, c.to, "Direct", "Resolved")}
       [] c.how = "event" -> {edge(c.from, c.to, "Event", "OverApprox")}
       [] c.how = "run" -> {edge(c.from, c.to, "Run", "Resolved")}
       [] c.how = "newer" -> {edge(c.from, c.to, "Newer", "Resolved")}
       [] c.how = "odd" -> {edge(c.from, c.to, "Direct", "Guess")}
       [] c.how = "hub" -> {edge(c.from, h, "Direct", "Open") : h \in Platform} \cup {edge(h, c.to, "Direct", "Open") : h \in Platform}
       [] c.how = "any" -> {edge(c.from, Universal, "Direct", "Open")}
       [] OTHER -> {}

Output(engine, calls, line) ==
  LET shown == IF engine = "al-sem" THEN {c \in calls : FileOf[c.from] \notin program.recovered}
               ELSE {c \in calls : c.how \in {"direct", "event"} /\ {c.from, c.to} \cap Trigger = {}}
      called == {c.to : c \in {x \in calls : x.how = "hidden"}}
      routines == {r \in Routine : (engine = "al-sem" \/ r \notin Trigger) /\ line[r] > 0}
  IN [meta |-> TRUE, recovered |-> program.recovered,
      nodes |-> {[id |-> r, file |-> FileOf[r], line |-> line[r]] : r \in routines}
                \cup {[id |-> h, file |-> None, line |-> 0] : h \in IF engine = "al-sem" THEN Platform \cup {Universal} ELSE {}},
      hidden |-> [n \in Node |-> IF n \in called THEN "unreadable" ELSE None],
      edges |-> UNION {Rows(c) : c \in shown}]

Parse(engine, out) ==
  CASE engine = "al-sem" -> ParseAlSem(out)
    [] engine = "altool" -> ParseAltool(out)
    [] OTHER -> [engine |-> "none", nodes |-> {}, edges |-> {}, recovered |-> {}, hidden |-> {}]

Graph(engine, t) == Parse(engine, Output(engine, CallsIn(t), Lines[t]))

Digest(t) ==
  {[id |-> r, file |-> FileOf[r], line |-> Lines[t][r], risk |-> program.effects[r]] :
     r \in {x \in Routine : Exists(t, x) /\ program.effects[x] # None}}

\* what discovery finds, in tree s, of the files that the diff of tree d changes
FoundOf(d, s) == Discover(s, {f \in File : GitLines[d][f] # {}})
Found(t) == FoundOf(t, t)

-----------------------------------------------------------------------------
(* The run.                                                                 *)

\* bcdev_test_run reads the diff, the changed files and, for the report, all files before
\* the tests run; the caller asserts that the changes are deployed exactly when they are
StartRun ==
  /\ run = NoRun /\ pick = NoAnswer
  /\ \E tests \in RunArgs :
       run' = [phase |-> "preparing", tests |-> tests, deployed |-> server = tree, seen |-> <<tree>>, code |-> server]
  /\ UNCHANGED <<program, tree, server, map, gaps, report, pick>>

Prepare ==
  /\ run.phase = "preparing"
  /\ run' = [run EXCEPT !.seen = Append(@, tree), !.phase = IF Len(run.seen) = 2 THEN "running" ELSE @]
  /\ UNCHANGED <<program, tree, server, map, gaps, report, pick>>

\* the map is complete when every test completed and every payload came
Answers(coverage, r, in, all, named) ==
  /\ gaps' = [Gaps(in, r) EXCEPT !.uncovered = AnnotateRisk(Digest(tree), @)]
  /\ report' = [phase |-> "report", complete |-> r.complete /\ ~r.aborted /\ all.complete, rows |-> Cobertura(coverage, all.members, TestFiles)]
  /\ map' \in {BuildMap(coverage, named, r.complete /\ ~r.aborted), Torn}

Covered(calls, tests) == {[test |-> x, procedures |-> Runs(calls, x) \ (Trigger \cup {x})] : x \in tests}

\* the tests that completed, and those of them whose payload came
FinishRun ==
  /\ run.phase = "running"
  /\ \E done, paid \in SUBSET run.tests, aborted \in BOOLEAN :
       /\ paid \subseteq done /\ (aborted \/ done = run.tests)
       /\ \E coverage \in {Covered(CallsIn(run.code), paid)} :
            Answers(coverage, [coverage |-> coverage, aborted |-> aborted, complete |-> paid = done, deployed |-> run.deployed],
                    [lines |-> GitLines[run.seen[1]], found |-> FoundOf(run.seen[1], run.seen[2])],
                    Discover(run.seen[3], File \ Edits[run.seen[3]].deleted),
                    {m.of : m \in {x \in Discover(tree, TestFiles).members : x.identified}})
  /\ run' = [run EXCEPT !.phase = "done"]
  /\ UNCHANGED <<program, tree, server, pick>>

\* the change under test, and one more while a selection reads, where no run came before (a bound on the model)
Edit ==
  /\ \/ pick = NoAnswer /\ tree = Unedited /\ tree' \in Tree \ {Unedited}
     \/ pick.phase = "reading" /\ run = NoRun /\ tree = pick.seen[1] /\ tree' \in Racing \ {tree}
  /\ UNCHANGED <<program, server, run, map, gaps, report, pick>>

Publish ==
  /\ server # tree /\ run = NoRun /\ pick = NoAnswer
  /\ server' = tree
  /\ UNCHANGED <<program, tree, run, map, gaps, report, pick>>

-----------------------------------------------------------------------------
(* bcdev_test_select.                                                       *)

\* the tests are read first, then the diff, the changed files, the call graph
InputOf(seen, engine) ==
  LET found == FoundOf(seen[2], seen[3])
  IN [lines |-> GitLines[seen[2]], nonAl |-> Edits[seen[2]].nonAl, unresolved |-> Unresolved(seen[2]), found |-> found, tests |-> TestsOf(seen[1]),
      graph |-> Graph(IF found.members = {} THEN "none" ELSE engine, seen[4]), map |-> NoMap, size |-> 1]

\* no file, or not a map, and no graph are errors
Answered(in, selection, history) ==
  IF (history /\ map \in {NoMap, Torn}) \/ in.graph = Malformed
  THEN [phase |-> "failed"]
  ELSE [phase |-> "answered", seen |-> pick.seen, history |-> history, engine |-> selection.engine, size |-> in.size,
        tests |-> selection.tests, all |-> selection.all, known |-> {t.of : t \in in.tests},
        shards |-> selection.shards, uncoverable |-> AnnotateRisk(Digest(tree), selection.uncoverable)]

Selected(in, history) == Answered(in, Selection(in), history)

\* the map, if any, was recorded before the edit, and no run meets a selection (bounds on the model)
Select ==
  /\ pick = NoAnswer /\ server = Unedited
  /\ run.phase = "idle" \/ (run.phase = "done" /\ run.seen[1] = Unedited)
  /\ pick' = [phase |-> "reading", seen |-> <<tree>>]
  /\ gaps' = NoAnswer /\ report' = NoAnswer \* they were the answer of the call before
  /\ UNCHANGED <<program, tree, server, run, map>>

ReadOn ==
  /\ pick.phase = "reading" /\ Len(pick.seen) < 4
  /\ pick' = [pick EXCEPT !.seen = Append(@, tree)]
  /\ UNCHANGED <<program, tree, server, run, map, gaps, report>>

\* the digest is read last, once the tests are selected
Answer ==
  /\ pick.phase = "reading" /\ Len(pick.seen) = 4
  /\ \E engine \in {"al-sem", "altool"} :
       \E in \in {InputOf(pick.seen, engine)}, size \in Sizes, history \in BOOLEAN :
         pick' = Selected([in EXCEPT !.map = IF history THEN map ELSE NoMap, !.size = size], history)
  /\ UNCHANGED <<program, tree, server, run, map, gaps, report>>

Init ==
  /\ program \in Programs /\ tree = Unedited /\ server = Unedited
  /\ run = NoRun /\ map = NoMap /\ gaps = NoAnswer /\ report = NoAnswer /\ pick = NoAnswer

Next == StartRun \/ Prepare \/ FinishRun \/ Edit \/ Publish \/ Select \/ ReadOn \/ Answer

Spec == Init /\ [][Next]_vars

-----------------------------------------------------------------------------
(* Properties.                                                              *)

TypeOK ==
  /\ program \in Program /\ tree \in Tree /\ server \in Tree
  /\ run.phase \in {"idle", "preparing", "running", "done"} /\ gaps.phase \in {"none", "gaps"} /\ report.phase \in {"none", "report"}
  /\ pick.phase \in {"none", "reading", "failed", "answered"}
  /\ gaps.phase = "gaps" => \A p \in gaps.procedures : p.of \notin Trigger /\ p.status \in {"covered", "uncovered", "unknown"}
  /\ \A e \in map.tests : e.test \in Test /\ e.procedures \subseteq Routine \ Trigger

\* the calls an engine can show, and those it can only hint at
Shown(engine, calls) ==
  IF engine = "al-sem"
  THEN {c \in calls : c.how # "hidden" /\ (FileOf[c.from] \in program.recovered => GitLines[tree][FileOf[c.from]] # {})}
  ELSE {c \in calls : c.how \in {"direct", "event"} /\ {c.from, c.to} \cap Trigger = {}}
Hinted(engine, calls) == Shown(engine, calls) \cup {c \in calls : engine = "al-sem" /\ c.how = "hidden"}

\* the routines that the map given to bcdev_test_select knows
Mapped == IF pick.history THEN UNION {e.procedures : e \in map.tests} ELSE {}

Survivors == {r \in Altered(tree) : Exists(tree, r)}

\* code that belongs to no routine; what of it was not there before, but for lines
\* with nothing but a string literal, which discovery does not see
Outside(t) == [f \in File |-> Code(Source(t, f), None)]
NewDeclarations(t) ==
  \E f \in File : \E line \in ToSet(Compiled(t, f)) :
    line.of = None /\ line.kind \notin {"blank", "head", "close", "text"} /\ line.id \notin ToSet(Outside(Unedited)[f])

\* an answer whose reads all saw one tree
Coherent == pick.phase = "answered" /\ \A i \in 1..4 : pick.seen[i] = tree

\* a procedure that bears the name of a test of its codeunit stands for that test
StandsForTest(r) == r \notin Trigger /\ \E x \in pick.known : FileOf[x] = FileOf[r] /\ NameOf[x] = NameOf[r]

(* Every test that runs changed code, along calls the call graph shows, is
   selected or the whole suite is asked for; along calls it only knows to be
   hidden, unless the coverage map knows some test that ran the code; new
   code outside every routine asks for the whole suite (test-selection.ts:11).
   A changed procedure with the name of a test stands for that test and for no
   other that runs it (test-selection.ts:280).  Of an answer whose reads saw
   different trees nothing of the kind holds. *)
NoShownTestDropped ==
  Coherent /\ ~pick.all =>
    /\ ~NewDeclarations(tree)
    /\ \A calls \in {CallsIn(tree)}, t \in Test \ pick.tests :
         \A r \in Survivors \cap Runs(Hinted(pick.engine, calls), t) :
           r \in Mapped \ Runs(Shown(pick.engine, calls), t) \/ (r # t /\ StandsForTest(r))

(* The graph's half of that: a test in which discovery finds a changed line is
   selected, and so is every test that runs another such routine, as above,
   unless the routine bears the name of a test of its codeunit and stands for
   that test (test-selection.ts:280). *)
LocatedTestsKept ==
  Coherent /\ ~pick.all =>
    \A located \in {{m.of : m \in {x \in Found(tree).members : ChangedIn([lines |-> GitLines[tree]], x)}}}, calls \in {CallsIn(tree)} :
      /\ located \cap Test \subseteq pick.tests
      /\ \A t \in Test \ pick.tests : \A r \in located \cap Runs(Hinted(pick.engine, calls), t) :
           r \in Mapped \ Runs(Shown(pick.engine, calls), t) \/ StandsForTest(r)

(* With al-sem, what is called uncoverable no test can reach, be it through
   calls the graph only knows to be hidden (test-selection.ts:17); and the
   risk it is ranked by is its own, not that of an overload of its name.  The
   graph shows no call of a file that al-sem had to recover, which asks for the
   whole suite only where that file itself changed (test-selection.ts:202). *)
UncoverableProved ==
  Coherent =>
    \A u \in pick.uncoverable :
      /\ u.risk \in {None, program.effects[u.of]}
      /\ pick.engine = "al-sem" /\ ~pick.all => \A calls \in {CallsIn(tree)}, t \in Test : u.of \notin Runs(Hinted("al-sem", calls), t)

(* The plan runs the selection, or every test of the project: each in one
   shard, no codeunit in two, no shard larger than asked for. *)
PlanRunsSelection ==
  pick.phase = "answered" =>
    LET cus(k) == {c.codeunit : c \in pick.shards[k]}
    IN /\ UNION {UNION {c.methods : c \in pick.shards[k]} : k \in DOMAIN pick.shards} = IF pick.all THEN pick.known ELSE pick.tests
       /\ \A k \in DOMAIN pick.shards : Cardinality(pick.shards[k]) \in 1..pick.size
       /\ \A j, k \in DOMAIN pick.shards : j # k => cus(j) \cap cus(k) = {}

\* What is selected is enough, and what is planned is what is selected.
SelectionSound == TypeOK /\ NoShownTestDropped /\ LocatedTestsKept /\ PlanRunsSelection

\* what the tests of the last run really ran
Executed == UNION {Runs(CallsIn(run.code), t) : t \in run.tests}

(* A changed procedure is called covered only if a test of this run reached
   it, and uncovered only if none can have, on code the caller asserted to be
   the changed one (coverage-gaps.ts:109). *)
StatusTruthful ==
  gaps.phase = "gaps" =>
    \A p \in gaps.procedures :
      /\ p.status = "covered" => p.of \in Executed
      /\ p.status = "uncovered" => p.of \notin Executed /\ run.code = run.seen[1]

(* A report that says it is complete counts the tests that reached a routine,
   and as never reached only what none reached (cobertura.ts:25). *)
ReportExact ==
  report.phase = "report" /\ report.complete =>
    \A row \in report.rows : row.hits = Cardinality({t \in run.tests : row.of \in Runs(CallsIn(run.code), t)})

(* A gate that is complete has classified every procedure that changed and is
   still there, and no code outside the routines is new but string literals on
   lines of their own, if the diff and the sources were read of one tree
   (coverage-gaps.ts:84). *)
GateClassifies ==
  gaps.phase = "gaps" /\ gaps.complete /\ run.seen[1] = run.seen[2] =>
    \A t \in {run.seen[1]} :
      /\ ~NewDeclarations(t)
      /\ \A r \in Altered(t) : Exists(t, r) => \E p \in gaps.procedures : p.of = r /\ p.status # "unknown"

\* What the run's answers say of the changed code is true of it.
CoverageTruthful == StatusTruthful /\ ReportExact /\ GateClassifies

(* A diff that changes what belongs to no procedure, or removes code, blocks
   the gate (coverage-gaps.ts:80, git-changes.ts:233). *)
GateSeesEveryChange ==
  gaps.phase = "gaps" /\ gaps.complete =>
    /\ \A r \in Altered(run.seen[1]) : Exists(run.seen[1], r)
    /\ Outside(run.seen[1]) = Outside(Unedited)

(* No test that runs changed code is dropped (test-selection.ts:12). *)
NoReachingTestDropped ==
  pick.phase = "answered" /\ pick.engine = "al-sem" /\ ~pick.all =>
    \A r \in Survivors, t \in Test : r \in Runs(Hinted("al-sem", CallsIn(tree)), t) => t \in pick.tests
=============================================================================
