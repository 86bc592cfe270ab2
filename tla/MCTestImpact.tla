---------------------------- MODULE MCTestImpact ----------------------------
EXTENDS TestImpact
CONSTANTS p, q, q2, z, onRun, t1, t2, t3, o1, app, tests, tests2, hub

MCFileOf == [x \in Routine |-> CASE x \in {t1, t2, o1} -> tests [] x = t3 -> tests2 [] OTHER -> app]
MCNameOf == [x \in Routine |-> CASE x = q2 -> q [] x = o1 -> t1 [] OTHER -> x]

\* the text of a file: <<kind, routine>>
Text(s) == [i \in DOMAIN s |-> [kind |-> s[i][1], of |-> s[i][2], id |-> i]]
Proc(x) == <<<<"proc", x>>, <<"begin", x>>, <<"stmt", x>>, <<"end", x>>>>
TestProc(x) == <<<<"attr", x>>>> \o Proc(x)
Gap == <<<<"blank", None>>>>
Decl == <<<<"decl", None>>>>
Literal(x) == <<<<"text", x>>>>
Object(body) == <<<<"head", None>>>> \o body \o <<<<"close", None>>>>
MCBase ==
  [f \in File |->
    Text(IF f = app
         THEN Object(Gap \o Decl \o Literal(None) \o Gap \o <<<<"proc", p>>, <<"begin", p>>, <<"if on", p>>, <<"stmt", p>>, <<"else", p>>, <<"stmt", p>>, <<"endif", p>>, <<"end", p>>>>
                     \o Gap \o <<<<"proc", q>>, <<"begin", q>>, <<"stmt", q>>>> \o Literal(q) \o <<<<"end", q>>>> \o Gap \o Proc(q2) \o <<<<"if off", None>>>> \o Proc(z) \o <<<<"endif", None>>>>
                     \o <<<<"trigger", onRun>>, <<"begin", onRun>>, <<"stmt", onRun>>, <<"end", onRun>>>>)
         ELSE IF f = tests THEN Object(TestProc(t1) \o Gap \o TestProc(t2) \o Proc(o1)) ELSE Object(TestProc(t3)))]

\* an edit of one place: the lines from..to of a file go, `put` come after them
Change(f, from, to, put) == [file |-> f, from |-> from, to |-> to, put |-> put, deleted |-> FALSE]
Fresh(i, kind, of) == [line |-> [kind |-> kind, of |-> of, id |-> 100 + i], mark |-> "new"]
Cut(f, i) == Change(f, i, i, <<>>)
Rewrite(f, i, kind, of) == Change(f, i, i, <<Fresh(i, kind, of)>>)
Add(f, i, kind, of) == Change(f, i + 1, i, <<Fresh(i, kind, of)>>)

\* a line goes, changes, or gets a new one after it
ChangesAt(f, i, line) ==
  {Cut(f, i)}
  \cup (IF line.kind \in {"head", "end"} THEN {Add(f, i, "decl", None)} ELSE {})
  \cup (IF line.kind = "begin" THEN {Add(f, i, "stmt", line.of)} ELSE {})
  \cup (IF line.kind \in {"stmt", "proc", "else", "decl", "text"} THEN {Rewrite(f, i, line.kind, line.of)} ELSE {})
  \cup (IF line.kind = "if on" THEN {Rewrite(f, i, "if off", line.of)} ELSE {})
  \cup (IF line.kind = "if off" THEN {Rewrite(f, i, "if on", line.of)} ELSE {})

\* all the lines of a file go, or the file itself
Emptied(f, base) == {[Change(f, 1, Len(base[f]), <<>>) EXCEPT !.deleted = gone] : gone \in BOOLEAN}

\* a routine goes, or all there is
ChangesOf(f, base) ==
  {Change(f, Min(is), Max(is), <<>>) : is \in {{i \in DOMAIN base[f] : base[f][i].of = x} : x \in {p, q, q2, onRun}} \ {{}}}
  \cup Emptied(f, base)

\* a working tree is named by its edits; the last one is of a file that is not AL
Trees(base) ==
  {{}} \cup {{c} : c \in UNION {ChangesAt(app, i, base[app][i]) : i \in DOMAIN base[app]} \cup ChangesOf(app, base)}
  \cup {{Rewrite(app, i, "stmt", base[app][i].of), Rewrite(tests, 5, "stmt", t1)} : i \in Where(base[app], {"stmt"})}
  \cup {{Rewrite(tests, i, base[tests][i].kind, base[tests][i].of)} : i \in Where(base[tests], {"stmt", "attr"})}
  \cup {{c} : c \in Emptied(tests2, base)} \cup {{Change(None, 1, 0, <<>>)}}

Edited(lines, changes) ==
  LET entry(mark, from, to) == [i \in 1..(to + 1 - from) |-> [line |-> lines[from + i - 1], mark |-> mark]]
  IN IF changes = {} THEN entry("same", 1, Len(lines))
     ELSE LET c == CHOOSE x \in changes : TRUE
          IN entry("same", 1, c.from - 1) \o entry("gone", c.from, c.to) \o c.put \o entry("same", c.to + 1, Len(lines))

EditsOf(base, trees) ==
  [t \in trees |-> [files |-> [f \in File |-> Edited(base[f], {c \in t : c.file = f})], untracked |-> {}, deleted |-> {c.file : c \in {x \in t : x.deleted}}, nonAl |-> \E c \in t : c.file \notin File]]

MCEdits == EditsOf(MCBase, Trees(MCBase))
MCTree == Trees(MCBase)

\* while a selection reads, an edit may rewrite q or delete the file
MCRacing ==
  {{Rewrite(app, i, "stmt", q)} : i \in {j \in Where(MCBase[app], {"stmt"}) : MCBase[app][j].of = q}}
  \cup {{c} : c \in {x \in Emptied(app, MCBase) : x.deleted}}

On(x, y, how) == [from |-> x, to |-> y, how |-> how]
Plain == [calls |-> {}, later |-> {}, identified |-> Routine \ Trigger, recovered |-> {}, effects |-> [x \in Routine |-> None]]
MCPrograms ==
  { [Plain EXCEPT !.calls = {On(t1, p, "direct"), On(p, q, "direct"), On(t3, q, "event"), On(t2, q, "odd"), On(t3, onRun, "run")}, !.later = {On(p, q2, "newer")},
                  !.effects = [@ EXCEPT ![q] = "writes"]],
    [Plain EXCEPT !.calls = {On(t1, q, "hub"), On(q, p, "odd"), On(t2, p, "any")}, !.identified = @ \ {q}, !.effects = [@ EXCEPT ![q2] = "commits"]],
    [Plain EXCEPT !.calls = {On(t1, q, "hidden"), On(t2, q, "hidden"), On(t3, p, "direct"), On(p, onRun, "direct")}, !.later = {On(q, onRun, "hidden")}],
    [Plain EXCEPT !.calls = {On(t1, p, "direct"), On(p, q, "direct"), On(onRun, q2, "direct"), On(t3, onRun, "direct"), On(t2, t1, "direct"), On(t3, o1, "direct")}, !.recovered = {app}, !.identified = @ \ {t3}] }
MCRunArgs == {{t1, t3}}
=============================================================================
