--------------------------- MODULE TestRun_proofs ---------------------------
(* Proofs about TestRun, for any number of calls, groups and attempts: its  *)
(* invariants, and that it implements TestPlan.                             *)
EXTENDS TestRun, SequenceTheorems, TLAPS

Active == {"preparing", "authorizing", "connecting", "initializing", "running", "stopping", "between", "ending"}

\* The lock is held exactly while one call is active.
LockInv ==
  /\ runLock <=> \E t \in Tools : run[t].stage \in Active
  /\ \A t, u \in Tools : run[t].stage \in Active /\ run[u].stage \in Active => t = u

Rows(wire) == {i \in DOMAIN wire : wire[i].kind = "TestCompleted"}
Completions(wire) == {i \in DOMAIN wire : wire[i].kind = "TestRunCompleted"}

\* A connection that has served nothing, to a run that has received nothing.
Fresh(r, h) ==
  /\ r.groupIndex = 0 /\ r.results = <<>> /\ r.groupResultBaseline = 0 /\ r.coverageComplete
  /\ h.wire = <<>> /\ h.open = {} /\ h.asked = 0 /\ h.served = 0 /\ h.evidence = {}

\* Until the group under way is served, nothing of it is on the way.
Unserved(r, h) ==
  /\ h.served = r.groupIndex - 1
  /\ Completions(h.wire) = {} /\ Rows(h.wire) = {}
  /\ r.groupResultBaseline = Len(r.results)

\* Then its completion is on the way, behind those of its rows that have not been received, and what it
\* says of the coverage is evidence unless a row, received or not, shows that the group ran tests.
Served(r, h) ==
  /\ h.served = r.groupIndex
  /\ \E i \in DOMAIN h.wire :
       /\ Completions(h.wire) = {i}
       /\ \A j \in Rows(h.wire) : j < i
       /\ r.groupIndex \in h.evidence <=>
            \/ h.wire[i].tests = "full"
            \/ h.wire[i].tests = "empty" /\ ~GroupExecutedTests(r) /\ \A j \in Rows(h.wire) : ~h.wire[j].named

\* The groups before the one under way have been judged.
GroupInv(r, h) ==
  /\ r.groupIndex \in Groups /\ h.asked = r.groupIndex
  /\ Unserved(r, h) \/ Served(r, h)
  /\ h.evidence \subseteq 1..h.served
  /\ r.coverageComplete <=> 1..(r.groupIndex - 1) \subseteq h.evidence

\* Every group has been judged.
Whole(r, h) ==
  /\ h.asked = NumGroups /\ h.served = NumGroups
  /\ r.coverageComplete <=> h.evidence = Groups

CallInv(r, h) ==
  /\ r.stage \in {"idle", "preparing"} => r.attempt = 0 /\ r.report = "none"
  /\ r.stage \in {"authorizing", "connecting", "initializing", "running"} => r.attempt > 0 /\ r.report = "none"
  /\ r.stage \in {"authorizing", "connecting", "initializing"} => Fresh(r, h)
  /\ r.stage = "running" => GroupInv(r, h)
  /\ r.stage \in {"stopping", "between"} => r.attempt > 0 /\ r.report # "none"
  /\ r.stage = "between" => r.report = "complete"
  /\ r.stage \in {"ending", "over"} => (r.attempt = 0 <=> r.report = "none")
  /\ r.stage \in {"stopping", "between", "ending"} /\ r.report = "complete" => Whole(r, h)

\* The inductive invariant.
RunInv == RunTypeOK /\ LockInv /\ \A t \in Tools : CallInv(run[t], hub[t])

\* What the invariant says of one call.
CallOK(t) ==
  /\ run[t] \in Run /\ hub[t] \in Hub
  /\ run[t].attempt <= Attempts[t] /\ run[t].groupResultBaseline <= Len(run[t].results)
  /\ hub[t].served <= hub[t].asked
  /\ hub[t].up => run[t].stage \in {"initializing", "running", "stopping"}
  /\ CallInv(run[t], hub[t])

----------------------------------------------------------------------------
(* Connections and locals keep their types *)

LEMMA ClosedTyped ==
  ASSUME NEW h \in Hub
  PROVE  [h EXCEPT !.up = FALSE, !.wire = <<>>, !.open = {}] \in Hub
<1>1. <<>> \in Seq(Message)
  OBVIOUS
<1> QED
  BY <1>1 DEF Hub

LEMMA DispatchedTyped ==
  ASSUME NEW h \in Hub, h.wire # <<>>, NEW g, g = [h EXCEPT !.wire = Tail(h.wire)]
  PROVE  /\ g \in Hub /\ g.wire = Tail(h.wire) /\ g.up = h.up /\ g.asked = h.asked /\ g.served = h.served
         /\ g.evidence = h.evidence
<1>1. h.wire \in Seq(Message)
  BY DEF Hub
<1>2. Tail(h.wire) \in Seq(Message)
  BY <1>1
<1>3. g \in Hub
  BY <1>2 DEF Hub
<1>4. g.wire = Tail(h.wire) /\ g.up = h.up /\ g.asked = h.asked /\ g.served = h.served /\ g.evidence = h.evidence
  BY DEF Hub
<1> QED
  BY <1>3, <1>4

LEMMA ReceivedTyped ==
  ASSUME NEW r \in Run, NEW named \in BOOLEAN, NEW q, q = [r EXCEPT !.results = Append(r.results, named)]
  PROVE  /\ q \in Run /\ Len(q.results) = Len(r.results) + 1 /\ Len(r.results) \in Nat
         /\ q.stage = r.stage /\ q.report = r.report /\ q.attempt = r.attempt
         /\ q.groupResultBaseline = r.groupResultBaseline /\ r.groupResultBaseline \in Nat
         /\ q.coverageComplete = r.coverageComplete
<1>1. r.results \in Seq(BOOLEAN)
  BY DEF Run
<1>2. /\ Append(r.results, named) \in Seq(BOOLEAN) /\ Len(Append(r.results, named)) = Len(r.results) + 1
      /\ Len(r.results) \in Nat
  BY <1>1
<1>3. q \in Run
  BY <1>2 DEF Run
<1>4. /\ q.results = Append(r.results, named)
      /\ q.stage = r.stage /\ q.report = r.report /\ q.attempt = r.attempt
      /\ q.groupResultBaseline = r.groupResultBaseline /\ r.groupResultBaseline \in Nat
      /\ q.coverageComplete = r.coverageComplete
  BY DEF Run
<1> QED
  BY <1>2, <1>3, <1>4

LEMMA ReturnedTyped ==
  ASSUME NEW r \in Run, NEW h \in Hub
  PROVE  /\ [r EXCEPT !.stage = "over", !.results = <<>>, !.groupResultBaseline = 0, !.coverageComplete = TRUE] \in Run
         /\ [h EXCEPT !.evidence = {}] \in Hub
<1>1. <<>> \in Seq(BOOLEAN)
  OBVIOUS
<1> QED
  BY <1>1 DEF Run, Hub

LEMMA SettledTyped ==
  ASSUME NEW r \in Run, NEW q, q = [r EXCEPT !.stage = "stopping", !.report = "aborted"]
  PROVE  /\ q \in Run /\ q.stage = "stopping" /\ q.report = "aborted" /\ q.attempt = r.attempt
         /\ q.results = r.results /\ q.groupResultBaseline = r.groupResultBaseline
BY DEF Run

----------------------------------------------------------------------------
(* Messages on their way *)

\* Taking the first message off the wire moves the others one place forward.
LEMMA Tailed ==
  ASSUME NEW h \in Hub, h.wire # <<>>
  PROVE  /\ Tail(h.wire) \in Seq(Message) /\ Len(h.wire) \in Nat \ {0} /\ Len(Tail(h.wire)) = Len(h.wire) - 1
         /\ \A j \in DOMAIN Tail(h.wire) : j + 1 \in DOMAIN h.wire /\ Tail(h.wire)[j] = h.wire[j + 1]
         /\ \A j \in DOMAIN h.wire : j # 1 => j - 1 \in DOMAIN Tail(h.wire) /\ h.wire[j] = Tail(h.wire)[j - 1]
         /\ 1 \in DOMAIN h.wire /\ Head(h.wire) = h.wire[1] /\ h.wire[1] \in Message
BY DEF Hub

\* The rows and completions behind the first message.
LEMMA TailedKinds ==
  ASSUME NEW h \in Hub, h.wire # <<>>
  PROVE  /\ \A j \in Rows(Tail(h.wire)) : j \in Nat \ {0} /\ j + 1 \in Rows(h.wire) /\ Tail(h.wire)[j] = h.wire[j + 1]
         /\ \A j \in Rows(h.wire) :
              j \in Nat \ {0} /\ (j # 1 => j - 1 \in Rows(Tail(h.wire)) /\ Tail(h.wire)[j - 1] = h.wire[j])
         /\ \A j \in Completions(Tail(h.wire)) : j \in Nat \ {0} /\ j + 1 \in Completions(h.wire)
         /\ \A j \in Completions(h.wire) :
              j \in Nat \ {0} /\ (j # 1 => j - 1 \in Completions(Tail(h.wire)) /\ Tail(h.wire)[j - 1] = h.wire[j])
<1>1. h.wire \in Seq(Message) /\ Tail(h.wire) \in Seq(Message)
  BY Tailed DEF Hub
<1> QED
  BY <1>1, Tailed DEF Rows, Completions

\* A row received counts for the group under way.
LEMMA RowReceived ==
  ASSUME NEW r \in Run, NEW h \in Hub, r.groupResultBaseline <= Len(r.results),
         GroupInv(r, h), h.wire # <<>>, Head(h.wire).kind = "TestCompleted",
         NEW q \in Run, q = [r EXCEPT !.results = Append(r.results, Head(h.wire).named)],
         NEW g \in Hub, g = [h EXCEPT !.wire = Tail(h.wire)]
  PROVE  GroupInv(q, g)
<1>1. 1 \in Rows(h.wire) /\ h.wire[1].named \in BOOLEAN /\ Head(h.wire) = h.wire[1]
  BY Tailed DEF Rows, Message
<1>2. Served(r, h)
  BY <1>1 DEF GroupInv, Unserved
<1>3. PICK i \in DOMAIN h.wire :
       /\ Completions(h.wire) = {i}
       /\ \A j \in Rows(h.wire) : j < i
       /\ r.groupIndex \in h.evidence <=>
            \/ h.wire[i].tests = "full"
            \/ h.wire[i].tests = "empty" /\ ~GroupExecutedTests(r) /\ \A j \in Rows(h.wire) : ~h.wire[j].named
  BY <1>2 DEF Served
<1>4. /\ i \in Nat \ {0, 1} /\ i - 1 \in DOMAIN Tail(h.wire) /\ Tail(h.wire)[i - 1] = h.wire[i]
      /\ Completions(Tail(h.wire)) = {i - 1}
      /\ \A j \in Rows(Tail(h.wire)) : j < i - 1
  <2>1. i \in Completions(h.wire) /\ i \in Nat /\ i > 1 /\ i # 1
    BY <1>1, <1>3, TailedKinds
  <2>2. i - 1 \in Completions(Tail(h.wire)) /\ i \in Nat \ {0, 1} /\ Tail(h.wire)[i - 1] = h.wire[i]
    BY <2>1, TailedKinds
  <2>3. ASSUME NEW j \in Completions(Tail(h.wire)) PROVE j = i - 1
    <3>1. j \in Nat /\ j + 1 = i
      BY <1>3, TailedKinds
    <3> QED
      BY <2>2, <3>1
  <2>4. ASSUME NEW j \in Rows(Tail(h.wire)) PROVE j < i - 1
    <3>1. j \in Nat /\ j + 1 < i
      BY <1>3, TailedKinds
    <3> QED
      BY <2>2, <3>1
  <2> QED
    BY <2>2, <2>3, <2>4 DEF Completions
<1>5. /\ r.results \in Seq(BOOLEAN) /\ r.groupResultBaseline \in Nat
      /\ q.results = Append(r.results, h.wire[1].named) /\ q.groupResultBaseline = r.groupResultBaseline
      /\ q.groupIndex = r.groupIndex /\ q.coverageComplete = r.coverageComplete
      /\ g.wire = Tail(h.wire) /\ g.evidence = h.evidence /\ g.asked = h.asked /\ g.served = h.served
  BY <1>1 DEF Run, Hub
<1>6. GroupExecutedTests(q) <=> GroupExecutedTests(r) \/ h.wire[1].named
  <2>1. /\ Len(q.results) = Len(r.results) + 1 /\ Len(r.results) \in Nat
        /\ q.results[Len(q.results)] = h.wire[1].named
        /\ \A j \in 1..Len(r.results) : q.results[j] = r.results[j]
    BY <1>5
  <2>2. \A j \in r.groupResultBaseline + 1 .. Len(q.results) :
          j = Len(q.results) \/ j \in r.groupResultBaseline + 1 .. Len(r.results)
    BY <1>5, <2>1
  <2>3. ASSUME GroupExecutedTests(q) PROVE GroupExecutedTests(r) \/ h.wire[1].named
    <3>1. PICK j \in r.groupResultBaseline + 1 .. Len(q.results) : q.results[j]
      BY <1>5, <2>3 DEF GroupExecutedTests
    <3>2. CASE j = Len(q.results)
      BY <2>1, <3>1, <3>2
    <3>3. CASE j \in r.groupResultBaseline + 1 .. Len(r.results)
      BY <1>5, <2>1, <3>1, <3>3 DEF GroupExecutedTests
    <3> QED
      BY <2>2, <3>2, <3>3
  <2>4. ASSUME GroupExecutedTests(r) PROVE GroupExecutedTests(q)
    <3>1. PICK j \in r.groupResultBaseline + 1 .. Len(r.results) : r.results[j]
      BY <2>4 DEF GroupExecutedTests
    <3> QED
      BY <1>5, <2>1, <3>1 DEF GroupExecutedTests
  <2>5. ASSUME h.wire[1].named PROVE GroupExecutedTests(q)
    <3>1. Len(q.results) \in r.groupResultBaseline + 1 .. Len(q.results)
      BY <1>5, <2>1
    <3>2. q.results[Len(q.results)]
      BY <2>1, <2>5, Zenon
    <3> QED
      BY <1>5, <3>1, <3>2, Zenon DEF GroupExecutedTests
  <2> QED
    BY <2>3, <2>4, <2>5
<1>7. (\A j \in Rows(h.wire) : ~h.wire[j].named) <=>
        ~h.wire[1].named /\ \A j \in Rows(Tail(h.wire)) : ~Tail(h.wire)[j].named
  <2>1. ASSUME NEW j \in Rows(h.wire), j # 1
        PROVE  j - 1 \in Rows(Tail(h.wire)) /\ Tail(h.wire)[j - 1] = h.wire[j]
    BY <2>1, TailedKinds
  <2> QED
    BY <1>1, <2>1, TailedKinds
<1>8. Served(q, g)
  <2>1. r.groupIndex \in h.evidence <=>
          \/ Tail(h.wire)[i - 1].tests = "full"
          \/ /\ Tail(h.wire)[i - 1].tests = "empty" /\ ~GroupExecutedTests(q)
             /\ \A j \in Rows(Tail(h.wire)) : ~Tail(h.wire)[j].named
    BY <1>3, <1>4, <1>6, <1>7
  <2> QED
    <3>1. g.served = q.groupIndex /\ i - 1 \in DOMAIN g.wire
      BY <1>2, <1>4, <1>5 DEF Served
    <3> QED
      BY <1>4, <1>5, <2>1, <3>1, Zenon DEF Served
<1> QED
  BY <1>5, <1>8 DEF GroupInv

\* The completion of a group is judged by what its coverage evidence says.
LEMMA CompletionJudged ==
  ASSUME NEW r \in Run, NEW h \in Hub,
         GroupInv(r, h), h.wire # <<>>, Head(h.wire).kind = "TestRunCompleted"
  PROVE  /\ h.served = r.groupIndex /\ Rows(Tail(h.wire)) = {} /\ Completions(Tail(h.wire)) = {}
         /\ Covered(r, Head(h.wire).tests) <=> r.groupIndex \in h.evidence
<1>1. 1 \in Completions(h.wire) /\ Head(h.wire) = h.wire[1]
  BY Tailed DEF Completions
<1>2. Served(r, h)
  BY <1>1 DEF GroupInv, Unserved
<1>3. PICK i \in DOMAIN h.wire :
       /\ Completions(h.wire) = {i}
       /\ \A j \in Rows(h.wire) : j < i
       /\ r.groupIndex \in h.evidence <=>
            \/ h.wire[i].tests = "full"
            \/ h.wire[i].tests = "empty" /\ ~GroupExecutedTests(r) /\ \A j \in Rows(h.wire) : ~h.wire[j].named
  BY <1>2 DEF Served
<1>4. i = 1 /\ Rows(h.wire) = {}
  BY <1>1, <1>3, TailedKinds
<1>5. Covered(r, Head(h.wire).tests) <=> r.groupIndex \in h.evidence
  BY <1>1, <1>3, <1>4 DEF Covered
<1>6. Rows(Tail(h.wire)) = {} /\ Completions(Tail(h.wire)) = {}
  <2>1. ASSUME NEW j \in Rows(Tail(h.wire)) PROVE FALSE
    BY <1>4, TailedKinds
  <2>2. ASSUME NEW j \in Completions(Tail(h.wire)) PROVE FALSE
    <3>1. j \in Nat \ {0} /\ j + 1 = 1
      BY <1>3, <1>4, TailedKinds
    <3> QED
      BY <3>1
  <2> QED
    BY <2>1, <2>2
<1> QED
  BY <1>2, <1>5, <1>6 DEF Served

\* More messages behind those on the wire: their places, and those of the old ones.
LEMMA Appended ==
  ASSUME NEW v \in Seq(Message), NEW w \in Seq(Message)
  PROVE  /\ v \o w \in Seq(Message) /\ DOMAIN v = 1..Len(v) /\ DOMAIN (v \o w) = 1..(Len(v) + Len(w))
         /\ \A j \in 1..Len(v) : (v \o w)[j] = v[j]
         /\ \A j \in 1..Len(w) : (v \o w)[Len(v) + j] = w[j]
         /\ Len(v) \in Nat /\ Len(w) \in Nat
OBVIOUS

\* A message that is no row and no completion changes nothing about them.
LEMMA AnswerAppended ==
  ASSUME NEW r, NEW h \in Hub, GroupInv(r, h),
         NEW answer \in {<<>>, <<[kind |-> "rejected"]>>},
         NEW g \in Hub, g.wire = h.wire \o answer, g.evidence = h.evidence, g.asked = h.asked, g.served = h.served
  PROVE  GroupInv(r, g)
<1>1. h.wire \in Seq(Message) /\ answer \in Seq(Message)
  <2>1. [kind |-> "rejected"] \in Message
    BY DEF Message
  <2>2. <<[kind |-> "rejected"]>> \in Seq(Message) /\ <<>> \in Seq(Message)
    BY <2>1
  <2> QED
    BY <2>2 DEF Hub
<1>2. \A j \in 1..Len(answer) : answer[j].kind = "rejected"
  OBVIOUS
<1>3. /\ Rows(g.wire) = Rows(h.wire) /\ Completions(g.wire) = Completions(h.wire)
      /\ \A j \in DOMAIN h.wire : j \in DOMAIN g.wire /\ g.wire[j] = h.wire[j]
  <2>1. \A j \in DOMAIN g.wire : j \in DOMAIN h.wire \/ g.wire[j].kind = "rejected"
    <3>1. \A j \in DOMAIN g.wire : j \in 1..Len(h.wire) \/ \E k \in 1..Len(answer) : j = Len(h.wire) + k
      BY <1>1, Appended
    <3> QED
      BY <1>1, <1>2, <3>1, Appended
  <2>2. \A j \in DOMAIN h.wire : j \in DOMAIN g.wire /\ g.wire[j] = h.wire[j]
    BY <1>1, Appended
  <2> QED
    BY <2>1, <2>2 DEF Rows, Completions
<1>4. \A j \in Rows(h.wire) : g.wire[j] = h.wire[j]
  BY <1>3 DEF Rows
<1>5. Unserved(r, h) => Unserved(r, g)
  BY <1>3 DEF Unserved
<1>6. Served(r, h) => Served(r, g)
  BY <1>3, <1>4 DEF Served
<1> QED
  BY <1>5, <1>6 DEF GroupInv

\* Where an element of two sequences and one more is.
LEMMA Places ==
  ASSUME NEW a \in Nat, NEW b \in Nat, NEW j \in 1..(a + b + 1)
  PROVE  j \in 1..a \/ j = a + b + 1 \/ \E k \in 1..b : j = a + k
<1>1. CASE j > a /\ j # a + b + 1
  <2>1. j - a \in 1..b /\ j = a + (j - a)
    BY <1>1
  <2> QED
    BY <2>1
<1> QED
  BY <1>1

LEMMA RowsTyped ==
  ASSUME NEW rows \in {<<>>} \cup {<<[kind |-> "TestCompleted", named |-> b]>> : b \in BOOLEAN},
         NEW tests \in {"missing", "empty", "full"}
  PROVE  rows \in Seq(Message) /\ <<[kind |-> "TestRunCompleted", tests |-> tests]>> \in Seq(Message)
<1>1. \A m \in Message : <<m>> \in Seq(Message)
  OBVIOUS
<1>2. /\ \A b \in BOOLEAN : [kind |-> "TestCompleted", named |-> b] \in Message
      /\ [kind |-> "TestRunCompleted", tests |-> tests] \in Message
  BY DEF Message
<1>3. \A b \in BOOLEAN : <<[kind |-> "TestCompleted", named |-> b]>> \in Seq(Message)
  BY <1>1, <1>2
<1>4. <<>> \in Seq(Message)
  OBVIOUS
<1> QED
  BY <1>1, <1>2, <1>3, <1>4

\* The server runs the group under way: its row, if it has one, and its completion.
LEMMA GroupServed ==
  ASSUME NEW r \in Run, NEW h \in Hub, GroupInv(r, h), h.served < h.asked,
         NEW rows \in {<<>>} \cup {<<[kind |-> "TestCompleted", named |-> b]>> : b \in BOOLEAN},
         NEW tests \in {"missing", "empty", "full"}, NEW told \in BOOLEAN,
         told <=> tests = "full" \/ (tests = "empty" /\ ~ \E i \in DOMAIN rows : rows[i].named),
         NEW g \in Hub, g.asked = h.asked, g.served = h.served + 1,
         g.wire = (h.wire \o rows) \o <<[kind |-> "TestRunCompleted", tests |-> tests]>>,
         g.evidence = IF told THEN h.evidence \cup {h.served + 1} ELSE h.evidence
  PROVE  GroupInv(r, g)
<1> DEFINE done == <<[kind |-> "TestRunCompleted", tests |-> tests]>>
           n == Len(h.wire) + Len(rows) + 1
<1>1. h.wire \in Seq(Message) /\ rows \in Seq(Message) /\ done \in Seq(Message) /\ Len(done) = 1
  BY RowsTyped DEF Hub
<1>2. /\ \A j \in 1..Len(rows) : rows[j].kind = "TestCompleted" /\ rows[j].named \in BOOLEAN
      /\ DOMAIN rows = 1..Len(rows)
  OBVIOUS
<1>3. Unserved(r, h) /\ h.asked = r.groupIndex /\ r.groupIndex \in Groups
  BY PlanAssumption DEF GroupInv, Served, Hub, Groups
<1>4. /\ g.wire = (h.wire \o rows) \o done /\ g.served = r.groupIndex /\ g.asked = h.asked
      /\ g.evidence = IF told THEN h.evidence \cup {r.groupIndex} ELSE h.evidence
  <2>1. h.served + 1 = r.groupIndex
    BY <1>3, PlanAssumption DEF Unserved, Groups
  <2> QED
    BY <2>1
<1>6. /\ DOMAIN h.wire = 1..Len(h.wire) /\ DOMAIN g.wire = 1..n /\ Len(h.wire) \in Nat /\ Len(rows) \in Nat
      /\ \A j \in 1..Len(h.wire) : g.wire[j] = h.wire[j]
      /\ \A j \in 1..Len(rows) : g.wire[Len(h.wire) + j] = rows[j]
      /\ g.wire[n] = done[1]
  <2>1. /\ DOMAIN h.wire = 1..Len(h.wire) /\ DOMAIN (h.wire \o rows) = 1..(Len(h.wire) + Len(rows))
        /\ Len(h.wire \o rows) = Len(h.wire) + Len(rows) /\ h.wire \o rows \in Seq(Message)
        /\ Len(h.wire) \in Nat /\ Len(rows) \in Nat
        /\ \A j \in 1..Len(h.wire) : (h.wire \o rows)[j] = h.wire[j]
        /\ \A j \in 1..Len(rows) : (h.wire \o rows)[Len(h.wire) + j] = rows[j]
    BY <1>1, Appended
  <2>2. /\ DOMAIN g.wire = 1..n
        /\ \A j \in 1..(Len(h.wire) + Len(rows)) : g.wire[j] = (h.wire \o rows)[j]
        /\ g.wire[n] = done[1]
    BY <1>1, <1>4, <2>1
  <2>3. \A j \in 1..Len(h.wire) : j \in 1..(Len(h.wire) + Len(rows))
    BY <2>1
  <2>4. \A j \in 1..Len(rows) : Len(h.wire) + j \in 1..(Len(h.wire) + Len(rows))
    BY <2>1
  <2> QED
    BY <2>1, <2>2, <2>3, <2>4
<1>7. /\ \A j \in DOMAIN h.wire : g.wire[j].kind = "rejected" \/ g.wire[j].kind \notin {"TestCompleted", "TestRunCompleted"}
      /\ \A j \in DOMAIN g.wire : j \in DOMAIN h.wire \/ j = n \/ \E k \in 1..Len(rows) : j = Len(h.wire) + k
      /\ g.wire[n].kind = "TestRunCompleted" /\ g.wire[n].tests = tests /\ n \in DOMAIN g.wire
  <2>1. \A j \in DOMAIN h.wire : h.wire[j].kind \notin {"TestCompleted", "TestRunCompleted"}
    BY <1>3 DEF Unserved, Rows, Completions
  <2>2. \A j \in 1..n : j \in 1..Len(h.wire) \/ j = n \/ \E k \in 1..Len(rows) : j = Len(h.wire) + k
    BY <1>6, Places
  <2> QED
    BY <1>6, <2>1, <2>2
<1>8. Completions(g.wire) = {n}
  <2>1. ASSUME NEW j \in DOMAIN g.wire, j # n PROVE g.wire[j].kind # "TestRunCompleted"
    BY <1>2, <1>6, <1>7, <2>1
  <2> QED
    BY <1>7, <2>1 DEF Completions
<1>9. \A j \in Rows(g.wire) : j < n /\ \E k \in 1..Len(rows) : j = Len(h.wire) + k /\ g.wire[j] = rows[k]
  <2>1. ASSUME NEW j \in Rows(g.wire) PROVE \E k \in 1..Len(rows) : j = Len(h.wire) + k /\ g.wire[j] = rows[k]
    BY <1>6, <1>7 DEF Rows
  <2>2. ASSUME NEW k \in 1..Len(rows) PROVE Len(h.wire) + k < n
    BY <1>6
  <2> QED
    BY <2>1, <2>2, Zenon
<1>10. (\E i \in DOMAIN rows : rows[i].named) <=> (\E j \in Rows(g.wire) : g.wire[j].named)
  <2>1. ASSUME NEW k \in 1..Len(rows) PROVE Len(h.wire) + k \in Rows(g.wire) /\ g.wire[Len(h.wire) + k] = rows[k]
    <3>1. Len(h.wire) + k \in DOMAIN g.wire
      BY <1>6
    <3> QED
      BY <1>2, <1>6, <3>1 DEF Rows
  <2> QED
    BY <1>2, <1>9, <2>1
<1>11. ~GroupExecutedTests(r)
  <2>1. r.groupResultBaseline = Len(r.results) /\ Len(r.results) \in Nat
    BY <1>3 DEF Unserved, Run
  <2>2. r.groupResultBaseline + 1 .. Len(r.results) = {}
    BY <2>1
  <2> QED
    BY <2>2 DEF GroupExecutedTests
<1>12. h.evidence \subseteq 1..(r.groupIndex - 1) /\ r.groupIndex \notin h.evidence
  BY <1>3 DEF GroupInv, Unserved, Groups
<1>13. Served(r, g)
  <2>1. r.groupIndex \in g.evidence <=>
          \/ g.wire[n].tests = "full"
          \/ g.wire[n].tests = "empty" /\ ~GroupExecutedTests(r) /\ \A j \in Rows(g.wire) : ~g.wire[j].named
    <3>1. r.groupIndex \in g.evidence <=> told
      BY <1>4, <1>12
    <3>2. (\A j \in Rows(g.wire) : ~g.wire[j].named) <=> ~ \E i \in DOMAIN rows : rows[i].named
      BY <1>10
    <3> QED
      BY <1>7, <1>11, <3>1, <3>2
  <2> QED
    BY <1>4, <1>7, <1>8, <1>9, <2>1 DEF Served
<1>14. g.evidence \subseteq 1..g.served
  BY <1>3, <1>4, <1>12, PlanAssumption DEF Groups
<1>15. r.coverageComplete <=> 1..(r.groupIndex - 1) \subseteq g.evidence
  <2>1. r.groupIndex \notin 1..(r.groupIndex - 1)
    BY <1>3, PlanAssumption DEF Groups
  <2> QED
    BY <1>4, <2>1 DEF GroupInv
<1> QED
  BY <1>3, <1>4, <1>13, <1>14, <1>15 DEF GroupInv

\* What serving a group makes of the connection.
LEMMA ServedTyped ==
  ASSUME NEW h \in Hub, h.served < h.asked,
         NEW rows \in {<<>>} \cup {<<[kind |-> "TestCompleted", named |-> b]>> : b \in BOOLEAN},
         NEW tests \in {"missing", "empty", "full"}, NEW evidence, evidence \in {h.evidence, h.evidence \cup {h.served + 1}}
  PROVE  /\ (h.wire \o rows) \o <<[kind |-> "TestRunCompleted", tests |-> tests]>> \in Seq(Message)
         /\ h.served + 1 \in 0..NumGroups /\ evidence \in SUBSET Groups
<1>1. h.wire \in Seq(Message) /\ rows \in Seq(Message)
      /\ <<[kind |-> "TestRunCompleted", tests |-> tests]>> \in Seq(Message)
  BY RowsTyped DEF Hub
<1>2. (h.wire \o rows) \o <<[kind |-> "TestRunCompleted", tests |-> tests]>> \in Seq(Message)
  BY <1>1, Appended
<1>3. h.served + 1 \in 0..NumGroups /\ h.served + 1 \in Groups
  BY PlanAssumption DEF Hub, Groups
<1> QED
  BY <1>2, <1>3 DEF Hub

LEMMA ServedHub ==
  ASSUME NEW h \in Hub, NEW wire \in Seq(Message), NEW served \in 0..NumGroups, NEW evidence \in SUBSET Groups
  PROVE  [h EXCEPT !.served = served, !.wire = wire, !.evidence = evidence] \in Hub
BY DEF Hub

----------------------------------------------------------------------------
(* Groups *)

\* Every group invoked so far has been judged.
Judged(r, h) ==
  /\ h.asked = r.groupIndex /\ h.served = r.groupIndex
  /\ Completions(h.wire) = {} /\ Rows(h.wire) = {}
  /\ h.evidence \subseteq 1..r.groupIndex
  /\ r.coverageComplete <=> 1..r.groupIndex \subseteq h.evidence

LEMMA AllJudged ==
  ASSUME NEW r, NEW h, Judged(r, h), r.groupIndex = NumGroups
  PROVE  Whole(r, h)
BY DEF Judged, Whole, Groups

LEMMA NextInvoked ==
  ASSUME NEW r \in Run, NEW h \in Hub, Judged(r, h), r.groupIndex # NumGroups,
         NEW q, q = [r EXCEPT !.groupIndex = r.groupIndex + 1, !.groupResultBaseline = Len(r.results)],
         NEW g, g = [h EXCEPT !.open = h.open \cup {r.groupIndex + 1}, !.asked = r.groupIndex + 1]
  PROVE  q \in Run /\ g \in Hub /\ GroupInv(q, g)
<1>1. r.groupIndex \in Nat /\ r.groupIndex + 1 \in Groups /\ Len(r.results) \in Nat
  BY PlanAssumption DEF Run, Groups
<1>2. q \in Run
  <2>1. r.groupIndex + 1 \in 0..NumGroups
    BY <1>1, PlanAssumption DEF Groups
  <2> QED
    BY <1>1, <2>1 DEF Run
<1>3. g \in Hub
  <2>1. r.groupIndex + 1 \in 0..NumGroups /\ h.open \cup {r.groupIndex + 1} \in SUBSET Groups
    BY <1>1, PlanAssumption DEF Groups, Hub
  <2> QED
    BY <2>1 DEF Hub
<1>4. /\ q.groupIndex = r.groupIndex + 1 /\ q.groupResultBaseline = Len(r.results) /\ q.results = r.results
      /\ q.coverageComplete = r.coverageComplete
      /\ g.asked = r.groupIndex + 1 /\ g.served = h.served /\ g.wire = h.wire /\ g.evidence = h.evidence
  BY DEF Run, Hub
<1>5. Unserved(q, g)
  BY <1>1, <1>4 DEF Judged, Unserved
<1> QED
  BY <1>1, <1>2, <1>3, <1>4, <1>5 DEF Judged, GroupInv

----------------------------------------------------------------------------
(* Steps of one call *)

LEMMA PrepareFailsOK ==
  ASSUME RunInv, NEW t \in Tools, PrepareFails(t)
  PROVE  CallOK(t)'
<1>1. CallOK(t)
  BY DEF RunInv, RunTypeOK, CallOK
<1> QED
  BY <1>1, PlanAssumption DEF RunInv, RunTypeOK, CallOK, CallInv, Run, Hub, Groups, PrepareFails, Goto, Whole, Fresh

LEMMA RunAuthorizedOK ==
  ASSUME RunInv, NEW t \in Tools, RunAuthorized(t)
  PROVE  CallOK(t)'
<1>1. CallOK(t)
  BY DEF RunInv, RunTypeOK, CallOK
<1> QED
  BY <1>1, PlanAssumption DEF RunInv, RunTypeOK, CallOK, CallInv, Run, Hub, Groups, RunAuthorized, Goto, Whole, Fresh

LEMMA CallToolOK ==
  ASSUME RunInv, NEW t \in Tools, CallTool(t)
  PROVE  CallOK(t)'
<1>1. CallOK(t)
  BY DEF RunInv, RunTypeOK, CallOK
<1> QED
  BY <1>1, PlanAssumption DEF RunInv, RunTypeOK, CallOK, CallInv, Run, Hub, Groups, CallTool, Goto, Whole, Fresh

LEMMA RunConnectedOK ==
  ASSUME RunInv, NEW t \in Tools, RunConnected(t)
  PROVE  CallOK(t)'
<1>1. CallOK(t)
  BY DEF RunInv, RunTypeOK, CallOK
<1> QED
  BY <1>1, PlanAssumption DEF RunInv, RunTypeOK, CallOK, CallInv, Run, Hub, Groups, RunConnected, Goto, Whole, Fresh

LEMMA CancelOK ==
  ASSUME RunInv, NEW t \in Tools, Cancel(t)
  PROVE  CallOK(t)'
<1>1. CallOK(t)
  BY DEF RunInv, RunTypeOK, CallOK
<1> QED
  BY <1>1, PlanAssumption DEF RunInv, RunTypeOK, CallOK, CallInv, Run, Hub, Groups, Cancel, Whole, Fresh

LEMMA ConnectFailsOK ==
  ASSUME RunInv, NEW t \in Tools, ConnectFails(t)
  PROVE  CallOK(t)'
<1>1. CallOK(t)
  BY DEF RunInv, RunTypeOK, CallOK
<1> QED
  BY <1>1, PlanAssumption DEF RunInv, RunTypeOK, CallOK, CallInv, Run, Hub, Groups, ConnectFails, Settle, Whole, Fresh

LEMMA BeginAttemptOK ==
  ASSUME RunInv, NEW t \in Tools, BeginAttempt(t)
  PROVE  CallOK(t)'
<1>1. CallOK(t)
  BY DEF RunInv, RunTypeOK, CallOK
<1>2. /\ run'[t] = [stage |-> "authorizing", attempt |-> run[t].attempt + 1, groupIndex |-> 0, results |-> <<>>,
                   groupResultBaseline |-> 0, coverageComplete |-> TRUE, report |-> "none"]
      /\ hub'[t] = NoHub /\ run[t].attempt < Attempts[t]
  BY <1>1 DEF RunInv, RunTypeOK, BeginAttempt, NoHub
<1>3. run'[t].attempt = run[t].attempt + 1 /\ Len(run'[t].results) = 0
  BY <1>1, <1>2 DEF CallOK, Run, Hub, NoHub
<1>4. run'[t] \in Run /\ hub'[t] \in Hub
  BY <1>1, <1>2, PlanAssumption DEF CallOK, Run, Hub, NoHub
<1>5. CallInv(run'[t], hub'[t])
  BY <1>1, <1>2, <1>3, PlanAssumption DEF CallOK, CallInv, Run, Hub, NoHub, Fresh
<1> QED
  BY <1>1, <1>2, <1>3, <1>4, <1>5, PlanAssumption DEF CallOK, Run, Hub, NoHub

LEMMA NoMoreAttemptsOK ==
  ASSUME RunInv, NEW t \in Tools, NoMoreAttempts(t)
  PROVE  CallOK(t)'
<1>1. CallOK(t)
  BY DEF RunInv, RunTypeOK, CallOK
<1>2. /\ run[t].stage \in {"preparing", "between"}
      /\ run'[t] = [run[t] EXCEPT !.stage = "ending"] /\ hub'[t] = hub[t]
  BY <1>1 DEF RunInv, RunTypeOK, NoMoreAttempts, Goto
<1>3. run'[t].attempt = run[t].attempt /\ run'[t].stage = "ending" /\ run'[t].report = run[t].report
      /\ run'[t].coverageComplete = run[t].coverageComplete /\ run'[t].results = run[t].results
  BY <1>1, <1>2 DEF CallOK, Run, Hub
<1>4. run'[t] \in Run /\ hub'[t] \in Hub
  BY <1>1, <1>2 DEF CallOK, Run, Hub
<1>5. CallInv(run'[t], hub'[t])
  BY <1>1, <1>2, <1>3 DEF CallOK, CallInv, Run, Hub, Whole
<1> QED
  BY <1>1, <1>2, <1>3, <1>4, <1>5 DEF CallOK, Run, Hub

LEMMA RunUnauthorizedOK ==
  ASSUME RunInv, NEW t \in Tools, RunUnauthorized(t)
  PROVE  CallOK(t)'
<1>1. CallOK(t)
  BY DEF RunInv, RunTypeOK, CallOK
<1>2. /\ run[t].stage = "authorizing"
      /\ run'[t] = [run[t] EXCEPT !.stage = "ending", !.report = "aborted"] /\ hub'[t] = hub[t]
  BY <1>1 DEF RunInv, RunTypeOK, RunUnauthorized
<1>3. run'[t].attempt = run[t].attempt /\ run'[t].stage = "ending" /\ run'[t].report = "aborted"
      /\ run'[t].results = run[t].results
  BY <1>1, <1>2 DEF CallOK, Run, Hub
<1>4. run'[t] \in Run /\ hub'[t] \in Hub
  BY <1>1, <1>2 DEF CallOK, Run, Hub
<1>5. CallInv(run'[t], hub'[t])
  BY <1>1, <1>2, <1>3 DEF CallOK, CallInv, Run, Hub, Whole
<1> QED
  BY <1>1, <1>2, <1>3, <1>4, <1>5 DEF CallOK, Run, Hub

LEMMA EndOK ==
  ASSUME RunInv, NEW t \in Tools, End(t)
  PROVE  CallOK(t)'
<1>1. CallOK(t)
  BY DEF RunInv, RunTypeOK, CallOK
<1>2. /\ run[t].stage = "ending"
      /\ run'[t] = [run[t] EXCEPT !.stage = "over", !.results = <<>>, !.groupResultBaseline = 0,
                                  !.coverageComplete = TRUE]
      /\ hub'[t] = [hub[t] EXCEPT !.evidence = {}]
  BY <1>1 DEF RunInv, RunTypeOK, End, Return
<1>3. run'[t].attempt = run[t].attempt /\ run'[t].stage = "over" /\ run'[t].report = run[t].report
      /\ Len(run'[t].results) = 0 /\ run'[t].groupResultBaseline = 0 /\ hub'[t].up = hub[t].up
      /\ hub'[t].served = hub[t].served /\ hub'[t].asked = hub[t].asked
  BY <1>1, <1>2 DEF CallOK, Run, Hub
<1>4. run'[t] \in Run /\ hub'[t] \in Hub
  BY <1>1, <1>2, ReturnedTyped DEF CallOK
<1>5. CallInv(run'[t], hub'[t])
  BY <1>1, <1>2, <1>3 DEF CallOK, CallInv, Run, Hub, Whole
<1> QED
  BY <1>1, <1>2, <1>3, <1>4, <1>5 DEF CallOK

LEMMA StoppedOK ==
  ASSUME RunInv, NEW t \in Tools, Stopped(t)
  PROVE  CallOK(t)'
<1>1. CallOK(t)
  BY DEF RunInv, RunTypeOK, CallOK
<1>2. /\ run[t].stage = "stopping"
      /\ hub'[t] = [hub[t] EXCEPT !.up = FALSE, !.wire = <<>>, !.open = {}]
      /\ run'[t] = [run[t] EXCEPT !.stage = IF run[t].report = "complete" THEN "between" ELSE "ending"]
  BY <1>1 DEF RunInv, RunTypeOK, Stopped, Goto
<1>3. run'[t].attempt = run[t].attempt /\ run'[t].report = run[t].report
      /\ run'[t].stage = (IF run[t].report = "complete" THEN "between" ELSE "ending")
      /\ run'[t].coverageComplete = run[t].coverageComplete /\ run'[t].results = run[t].results
      /\ ~hub'[t].up /\ hub'[t].served = hub[t].served /\ hub'[t].asked = hub[t].asked /\ hub'[t].evidence = hub[t].evidence
  BY <1>1, <1>2 DEF CallOK, Run, Hub
<1>4. run'[t] \in Run /\ hub'[t] \in Hub
  <2>1. hub'[t] \in Hub
    BY <1>1, <1>2, ClosedTyped DEF CallOK
  <2>2. run'[t] \in Run
    BY <1>1, <1>2 DEF CallOK, Run
  <2> QED
    BY <2>1, <2>2
<1>5. CallInv(run'[t], hub'[t])
  BY <1>1, <1>2, <1>3 DEF CallOK, CallInv, Run, Hub, Whole
<1> QED
  BY <1>1, <1>2, <1>3, <1>4, <1>5 DEF CallOK, Run, Hub

LEMMA HubClosedOK ==
  ASSUME RunInv, NEW t \in Tools, HubClosed(t)
  PROVE  CallOK(t)'
<1>1. CallOK(t)
  BY DEF RunInv, RunTypeOK, CallOK
<1>2. /\ hub[t].up
      /\ hub'[t] = [hub[t] EXCEPT !.up = FALSE, !.wire = <<>>, !.open = {}]
      /\ run'[t] = IF run[t].stage # "stopping" THEN [run[t] EXCEPT !.stage = "stopping", !.report = "aborted"] ELSE run[t]
  BY <1>1 DEF RunInv, RunTypeOK, HubClosed, Settle
<1>3. run'[t].attempt = run[t].attempt
      /\ run'[t].stage = "stopping" /\ run'[t].report = (IF run[t].stage # "stopping" THEN "aborted" ELSE run[t].report)
      /\ run'[t].coverageComplete = run[t].coverageComplete /\ run'[t].results = run[t].results
      /\ ~hub'[t].up /\ hub'[t].served = hub[t].served /\ hub'[t].asked = hub[t].asked /\ hub'[t].evidence = hub[t].evidence
  BY <1>1, <1>2 DEF CallOK, Run, Hub
<1>4. run'[t] \in Run /\ hub'[t] \in Hub
  <2>1. hub'[t] \in Hub
    BY <1>1, <1>2, ClosedTyped DEF CallOK
  <2>2. run'[t] \in Run
    BY <1>1, <1>2 DEF CallOK, Run
  <2> QED
    BY <2>1, <2>2
<1>5. CallInv(run'[t], hub'[t])
  BY <1>1, <1>2, <1>3 DEF CallOK, CallInv, Run, Hub, Whole
<1> QED
  BY <1>1, <1>2, <1>3, <1>4, <1>5 DEF CallOK, Run, Hub

LEMMA RunTestsRejectedOK ==
  ASSUME RunInv, NEW t \in Tools, RunTestsRejected(t)
  PROVE  CallOK(t)'
<1>1. CallOK(t)
  BY DEF RunInv, RunTypeOK, CallOK
<1>2. /\ hub[t].wire # <<>> /\ hub[t].up
      /\ hub'[t] = [hub[t] EXCEPT !.wire = Tail(hub[t].wire)]
      /\ run'[t] = IF run[t].stage = "running" THEN [run[t] EXCEPT !.stage = "stopping", !.report = "aborted"] ELSE run[t]
  BY <1>1 DEF RunInv, RunTypeOK, RunTestsRejected, Dispatch, Dispatched, Settle
<1>3. /\ hub'[t] \in Hub /\ hub'[t].up /\ hub'[t].asked = hub[t].asked /\ hub'[t].served = hub[t].served
      /\ hub'[t].evidence = hub[t].evidence
  BY <1>1, <1>2, DispatchedTyped DEF CallOK
<1>4. run[t].stage \in {"running", "stopping"}
  BY <1>1, <1>2 DEF CallOK, CallInv, Fresh
<1>5. CASE run[t].stage = "running"
  <2>1. CallInv(run'[t], hub'[t])
    BY <1>1, <1>2, <1>5, SettledTyped DEF CallOK, CallInv
  <2>2. run'[t] = [run[t] EXCEPT !.stage = "stopping", !.report = "aborted"]
    BY <1>2, <1>5
  <2>3. /\ run'[t] \in Run /\ run'[t].stage = "stopping" /\ run'[t].attempt = run[t].attempt
        /\ run'[t].results = run[t].results /\ run'[t].groupResultBaseline = run[t].groupResultBaseline
    BY <1>1, <2>2, SettledTyped, Zenon DEF CallOK
  <2> QED
    BY <1>1, <1>2, <1>3, <2>1, <2>3 DEF CallOK
<1>6. CASE run[t].stage = "stopping"
  BY <1>1, <1>2, <1>3, <1>6 DEF CallOK, CallInv, Whole
<1> QED
  BY <1>4, <1>5, <1>6

LEMMA TestCompletedOK ==
  ASSUME RunInv, NEW t \in Tools, TestCompleted(t)
  PROVE  CallOK(t)'
<1>1. CallOK(t)
  BY DEF RunInv, RunTypeOK, CallOK
<1>2. /\ hub[t].wire # <<>> /\ hub[t].up /\ Head(hub[t].wire).kind = "TestCompleted"
      /\ hub'[t] = [hub[t] EXCEPT !.wire = Tail(hub[t].wire)]
      /\ run'[t] = [run[t] EXCEPT !.results = Append(run[t].results, Head(hub[t].wire).named)]
  BY <1>1 DEF RunInv, RunTypeOK, TestCompleted, Dispatch, Dispatched
<1>3. /\ hub'[t] \in Hub /\ hub'[t].up /\ hub'[t].asked = hub[t].asked /\ hub'[t].served = hub[t].served
      /\ hub'[t].evidence = hub[t].evidence
  BY <1>1, <1>2, DispatchedTyped DEF CallOK
<1>4. /\ run'[t] \in Run /\ Len(run'[t].results) = Len(run[t].results) + 1 /\ Len(run[t].results) \in Nat
      /\ run'[t].stage = run[t].stage /\ run'[t].report = run[t].report /\ run'[t].attempt = run[t].attempt
      /\ run'[t].groupResultBaseline = run[t].groupResultBaseline /\ run[t].groupResultBaseline \in Nat
      /\ run'[t].coverageComplete = run[t].coverageComplete
  <2>1. Head(hub[t].wire).named \in BOOLEAN
    BY <1>1, <1>2, Tailed DEF CallOK, Message
  <2> QED
    BY <1>1, <1>2, <2>1, ReceivedTyped DEF CallOK
<1>5. run[t].stage \in {"running", "stopping"}
  BY <1>1, <1>2 DEF CallOK, CallInv, Fresh
<1>6. CASE run[t].stage = "running"
  <2>1. GroupInv(run'[t], hub'[t])
    BY <1>1, <1>2, <1>3, <1>4, <1>6, RowReceived DEF CallOK, CallInv
  <2>2. CallInv(run'[t], hub'[t])
    BY <1>1, <1>4, <1>6, <2>1 DEF CallOK, CallInv
  <2> QED
    BY <1>1, <1>2, <1>3, <1>4, <1>6, <2>2 DEF CallOK
<1>7. CASE run[t].stage = "stopping"
  <2>1. CallInv(run'[t], hub'[t])
    BY <1>1, <1>3, <1>4, <1>7 DEF CallOK, CallInv, Whole
  <2> QED
    BY <1>1, <1>2, <1>3, <1>4, <1>7, <2>1 DEF CallOK
<1> QED
  BY <1>5, <1>6, <1>7

\* runNextGroup ends the run when all groups have been judged, and invokes the next one otherwise.
LEMMA RunNextGroupOK ==
  ASSUME RunTypeOK, NEW t \in Tools, NEW r \in Run, NEW h \in Hub, Judged(r, h), RunNextGroup(t, r, h),
         r.stage = "running", r.report = "none", r.attempt > 0, r.attempt <= Attempts[t],
         r.groupResultBaseline <= Len(r.results), h.up
  PROVE  CallOK(t)'
<1>1. CASE r.groupIndex = NumGroups
  <2>1. run'[t] = [r EXCEPT !.stage = "stopping", !.report = "complete"] /\ hub'[t] = h
    BY <1>1 DEF RunTypeOK, RunNextGroup
  <2>5. run'[t] \in Run
    BY <2>1 DEF Run
  <2>2. /\ run'[t].stage = "stopping" /\ run'[t].report = "complete"
        /\ run'[t].attempt = r.attempt /\ run'[t].results = r.results
        /\ run'[t].groupResultBaseline = r.groupResultBaseline /\ run'[t].coverageComplete = r.coverageComplete
    BY <2>1 DEF Run
  <2>3. Whole(r, h) /\ h.served = h.asked /\ h.served \in Nat
    BY <1>1, AllJudged DEF Judged, Hub
  <2>4. CallInv(run'[t], hub'[t])
    BY <2>1, <2>2, <2>3 DEF CallInv, Whole
  <2> QED
    BY <2>1, <2>2, <2>3, <2>4, <2>5 DEF CallOK
<1>2. CASE r.groupIndex # NumGroups
  <2>1. /\ run'[t] = [r EXCEPT !.groupIndex = r.groupIndex + 1, !.groupResultBaseline = Len(r.results)]
        /\ hub'[t] = [h EXCEPT !.open = h.open \cup {r.groupIndex + 1}, !.asked = r.groupIndex + 1]
    BY <1>2 DEF RunTypeOK, RunNextGroup
  <2>2. run'[t] \in Run /\ hub'[t] \in Hub /\ GroupInv(run'[t], hub'[t])
    BY <1>2, <2>1, NextInvoked
  <2>3. /\ run'[t].stage = "running" /\ run'[t].report = "none" /\ run'[t].attempt = r.attempt
        /\ run'[t].groupResultBaseline = Len(r.results) /\ run'[t].results = r.results /\ Len(r.results) \in Nat
        /\ hub'[t].up /\ hub'[t].served = r.groupIndex /\ hub'[t].asked = r.groupIndex + 1 /\ r.groupIndex \in Nat
    BY <2>1 DEF Run, Hub, Judged
  <2>4. CallInv(run'[t], hub'[t])
    BY <2>2, <2>3 DEF CallInv
  <2> QED
    BY <2>2, <2>3, <2>4 DEF CallOK
<1> QED
  BY <1>1, <1>2

LEMMA InitializedOK ==
  ASSUME RunInv, NEW t \in Tools, Initialized(t)
  PROVE  CallOK(t)'
<1> DEFINE r == [run[t] EXCEPT !.stage = "running"]
<1>1. CallOK(t)
  BY DEF RunInv, RunTypeOK, CallOK
<1>2. run[t].stage = "initializing" /\ hub[t].up /\ RunNextGroup(t, r, hub[t])
  BY DEF Initialized
<1>3. Fresh(run[t], hub[t])
  BY <1>1, <1>2 DEF CallOK, CallInv
<1>4. /\ r \in Run /\ r.stage = "running" /\ r.report = run[t].report /\ r.attempt = run[t].attempt
      /\ r.results = run[t].results /\ r.groupResultBaseline = run[t].groupResultBaseline
      /\ r.groupIndex = run[t].groupIndex /\ r.coverageComplete = run[t].coverageComplete
  BY <1>1 DEF CallOK, Run
<1>5. Judged(r, hub[t])
  BY <1>3, <1>4 DEF Fresh, Judged, Rows, Completions
<1> QED
  <2>1. r.report = "none" /\ r.attempt > 0 /\ r.attempt <= Attempts[t] /\ r.groupResultBaseline <= Len(r.results)
    BY <1>1, <1>2, <1>4 DEF CallOK, CallInv
  <2> HIDE DEF r
  <2> QED
    BY <1>1, <1>2, <1>4, <1>5, <2>1, RunNextGroupOK DEF RunInv, CallOK

LEMMA TestRunCompletedOK ==
  ASSUME RunInv, NEW t \in Tools, TestRunCompleted(t)
  PROVE  CallOK(t)'
<1> DEFINE covered == Covered(run[t], Head(hub[t].wire).tests)
           r == [run[t] EXCEPT !.coverageComplete = run[t].coverageComplete /\ covered]
           h == [hub[t] EXCEPT !.wire = Tail(hub[t].wire)]
<1>1. CallOK(t)
  BY DEF RunInv, RunTypeOK, CallOK
<1>2. hub[t].wire # <<>> /\ hub[t].up /\ Head(hub[t].wire).kind = "TestRunCompleted"
  BY DEF TestRunCompleted, Dispatch
<1>3. h \in Hub /\ h.up /\ h.asked = hub[t].asked /\ h.served = hub[t].served /\ h.evidence = hub[t].evidence
      /\ h.wire = Tail(hub[t].wire)
  BY <1>1, <1>2, DispatchedTyped DEF CallOK
<1>4. run[t].stage \in {"running", "stopping"}
  BY <1>1, <1>2 DEF CallOK, CallInv, Fresh
<1>5. CASE run[t].stage = "running"
  <2>1. RunNextGroup(t, r, h)
    BY <1>5 DEF TestRunCompleted, Dispatched
  <2>2. GroupInv(run[t], hub[t])
    BY <1>1, <1>5 DEF CallOK, CallInv
  <2>3. covered \in BOOLEAN
    BY DEF Covered
  <2>4. /\ r \in Run /\ r.stage = "running" /\ r.report = run[t].report /\ r.attempt = run[t].attempt
        /\ r.results = run[t].results /\ r.groupResultBaseline = run[t].groupResultBaseline
        /\ r.groupIndex = run[t].groupIndex /\ (r.coverageComplete <=> run[t].coverageComplete /\ covered)
    <3> HIDE DEF covered
    <3> QED
      BY <1>1, <1>5, <2>3 DEF CallOK, Run
  <2>5. /\ h.served = run[t].groupIndex /\ Rows(h.wire) = {} /\ Completions(h.wire) = {}
        /\ covered <=> run[t].groupIndex \in h.evidence
    BY <1>1, <1>2, <1>3, <2>2, CompletionJudged DEF CallOK
  <2> HIDE DEF covered, r, h
  <2>6. Judged(r, h)
    <3>1. /\ run[t].groupIndex \in Groups /\ h.evidence \subseteq 1..h.served /\ h.asked = run[t].groupIndex
          /\ run[t].coverageComplete <=> 1..(run[t].groupIndex - 1) \subseteq h.evidence
      BY <1>3, <2>2 DEF GroupInv
    <3>2. 1..run[t].groupIndex = 1..(run[t].groupIndex - 1) \cup {run[t].groupIndex}
      BY <3>1, PlanAssumption DEF Groups
    <3>3. r.coverageComplete <=> 1..run[t].groupIndex \subseteq h.evidence
      BY <2>4, <2>5, <3>1, <3>2
    <3> QED
      BY <2>4, <2>5, <3>1, <3>3 DEF Judged
  <2>7. r.report = "none" /\ r.attempt > 0 /\ r.attempt <= Attempts[t] /\ r.groupResultBaseline <= Len(r.results)
    BY <1>1, <1>5, <2>4 DEF CallOK, CallInv
  <2> QED
    BY <1>3, <2>1, <2>4, <2>6, <2>7, RunNextGroupOK DEF RunInv
<1>6. CASE run[t].stage = "stopping"
  <2>1. run'[t] = run[t] /\ hub'[t] = h
    BY <1>1, <1>6 DEF TestRunCompleted, Dispatched, RunInv, RunTypeOK
  <2> HIDE DEF h
  <2> QED
    BY <1>1, <1>3, <1>6, <2>1 DEF CallOK, CallInv, Whole
<1> QED
  BY <1>4, <1>5, <1>6

LEMMA RunTestsOK ==
  ASSUME RunInv, NEW t \in Tools, RunTests(t)
  PROVE  CallOK(t)'
<1>1. CallOK(t)
  BY DEF RunInv, RunTypeOK, CallOK
<1>2. /\ hub[t].up /\ hub[t].served < hub[t].asked
      /\ run'[t] = run[t]
  BY DEF RunTests
<1>3. PICK rows \in {<<>>} \cup {<<[kind |-> "TestCompleted", named |-> b]>> : b \in BOOLEAN},
           tests \in {"missing", "empty", "full"} :
        LET told == tests = "full" \/ (tests = "empty" /\ ~ \E i \in DOMAIN rows : rows[i].named) IN
        hub' = [hub EXCEPT ![t].served = hub[t].served + 1,
                  ![t].wire = @ \o rows \o <<[kind |-> "TestRunCompleted", tests |-> tests]>>,
                  ![t].evidence = IF told THEN @ \cup {hub[t].served + 1} ELSE @]
  BY Zenon DEF RunTests
<1> DEFINE told == tests = "full" \/ (tests = "empty" /\ ~ \E i \in DOMAIN rows : rows[i].named)
<1>8. told \in BOOLEAN
  OBVIOUS
<1>9. (told <=> tests = "full" \/ (tests = "empty" /\ ~ \E i \in DOMAIN rows : rows[i].named))
  OBVIOUS
<1>10. hub' = [hub EXCEPT ![t].served = hub[t].served + 1,
                 ![t].wire = @ \o rows \o <<[kind |-> "TestRunCompleted", tests |-> tests]>>,
                 ![t].evidence = IF told THEN @ \cup {hub[t].served + 1} ELSE @]
  BY <1>3
<1> HIDE DEF told
<1> DEFINE wire == (hub[t].wire \o rows) \o <<[kind |-> "TestRunCompleted", tests |-> tests]>>
           evidence == IF told THEN hub[t].evidence \cup {hub[t].served + 1} ELSE hub[t].evidence
<1>11. hub'[t] = [hub[t] EXCEPT !.served = hub[t].served + 1, !.wire = wire, !.evidence = evidence]
  BY <1>10 DEF RunInv, RunTypeOK
<1>4. run[t].stage \in {"running", "stopping"} /\ hub[t].served \in Nat /\ hub[t].asked \in Nat
  BY <1>1, <1>2 DEF CallOK, CallInv, Fresh, Hub
<1>12. hub[t] \in Hub /\ evidence \in {hub[t].evidence, hub[t].evidence \cup {hub[t].served + 1}}
  BY <1>1 DEF CallOK
<1> HIDE DEF evidence
<1>13. wire \in Seq(Message) /\ hub[t].served + 1 \in 0..NumGroups /\ evidence \in SUBSET Groups
  BY <1>2, <1>12, ServedTyped
<1> HIDE DEF wire
<1>5. /\ hub'[t] \in Hub /\ hub'[t].wire = wire /\ hub'[t].served = hub[t].served + 1
      /\ hub'[t].evidence = evidence /\ hub'[t].asked = hub[t].asked /\ hub'[t].up = hub[t].up
  <2>1. hub'[t] \in Hub
    <3>1. [hub[t] EXCEPT !.served = hub[t].served + 1, !.wire = wire, !.evidence = evidence] \in Hub
      BY <1>12, <1>13, ServedHub, Zenon
    <3> QED
      BY <1>11, <3>1, Zenon
  <2>2. hub'[t].wire = wire /\ hub'[t].served = hub[t].served + 1 /\ hub'[t].evidence = evidence
    BY <1>11, <1>12 DEF Hub
  <2>3. hub'[t].asked = hub[t].asked /\ hub'[t].up = hub[t].up
    BY <1>11, <1>12 DEF Hub
  <2> QED
    BY <2>1, <2>2, <2>3
<1>6. CASE run[t].stage = "running"
  <2>1. run[t] \in Run /\ GroupInv(run[t], hub[t])
    BY <1>1, <1>6 DEF CallOK, CallInv
  <2>2. GroupInv(run[t], hub'[t])
    <3>1. /\ hub'[t] \in Hub /\ hub'[t].asked = hub[t].asked /\ hub'[t].served = hub[t].served + 1
          /\ hub'[t].wire = (hub[t].wire \o rows) \o <<[kind |-> "TestRunCompleted", tests |-> tests]>>
          /\ hub'[t].evidence = IF told THEN hub[t].evidence \cup {hub[t].served + 1} ELSE hub[t].evidence
      BY <1>5 DEF wire, evidence
    <3> QED
      BY <1>2, <1>8, <1>9, <1>12, <2>1, <3>1, GroupServed, Zenon
  <2>3. CallInv(run'[t], hub'[t])
    BY <1>1, <1>2, <1>6, <2>2 DEF CallOK, CallInv
  <2> QED
    BY <1>1, <1>2, <1>4, <1>5, <1>6, <2>3 DEF CallOK
<1>7. CASE run[t].stage = "stopping"
  <2>1. run[t].report # "complete"
    BY <1>1, <1>2, <1>7, PlanAssumption DEF CallOK, CallInv, Whole
  <2>2. CallInv(run'[t], hub'[t])
    BY <1>1, <1>2, <1>7, <2>1 DEF CallOK, CallInv
  <2> QED
    BY <1>1, <1>2, <1>4, <1>5, <1>7, <2>2 DEF CallOK
<1> QED
  BY <1>4, <1>6, <1>7

LEMMA ServerAnswersOK ==
  ASSUME RunInv, NEW t \in Tools, ServerAnswers(t)
  PROVE  CallOK(t)'
<1>1. CallOK(t)
  BY DEF RunInv, RunTypeOK, CallOK
<1>2. PICK group \in hub[t].open, answer \in {<<>>, <<[kind |-> "rejected"]>>} :
        hub'[t] = [hub[t] EXCEPT !.open = hub[t].open \ {group}, !.wire = hub[t].wire \o answer]
  BY <1>1 DEF ServerAnswers, RunInv, RunTypeOK
<1>3. run'[t] = run[t] /\ hub[t].up
  BY DEF ServerAnswers
<1>4. hub'[t] \in Hub
  <2>1. answer \in Seq(Message) /\ hub[t].wire \in Seq(Message)
    <3>1. [kind |-> "rejected"] \in Message
      BY DEF Message
    <3>2. <<[kind |-> "rejected"]>> \in Seq(Message) /\ <<>> \in Seq(Message)
      BY <3>1
    <3> QED
      BY <1>1, <3>2 DEF CallOK, Hub
  <2>2. hub[t].wire \o answer \in Seq(Message)
    BY <2>1, Appended
  <2> QED
    BY <1>1, <1>2, <2>2 DEF CallOK, Hub
<1>5. /\ hub'[t].wire = hub[t].wire \o answer /\ hub'[t].evidence = hub[t].evidence
      /\ hub'[t].asked = hub[t].asked /\ hub'[t].served = hub[t].served /\ hub'[t].up = hub[t].up
  BY <1>1, <1>2 DEF CallOK, Hub
<1>6. run[t].stage = "running" => GroupInv(run[t], hub'[t])
  BY <1>1, <1>4, <1>5, AnswerAppended DEF CallOK, CallInv
<1>7. run[t].stage = "initializing" => hub[t].open = {}
  BY <1>1 DEF CallOK, CallInv, Fresh
<1>8. CallInv(run'[t], hub'[t])
  BY <1>1, <1>3, <1>5, <1>6, <1>7 DEF CallOK, CallInv, Whole
<1> QED
  BY <1>1, <1>3, <1>4, <1>5, <1>8 DEF CallOK

----------------------------------------------------------------------------
(* Every step *)

\* A step of call t changes no other call.
OnlyCall(t) ==
  /\ run' = [run EXCEPT ![t] = run'[t]]
  /\ hub' = [hub EXCEPT ![t] = hub'[t]]
  /\ cancelled' \in [Tools -> BOOLEAN]

\* The steps of one call.
CallStep(t) == Step(t) \/ CallTool(t) \/ HubClosed(t) \/ ServerAnswers(t) \/ Cancel(t)

LEMMA StepOfCall ==
  ASSUME RunInv, NEW t \in Tools, CallStep(t)
  PROVE  OnlyCall(t)
<1> USE DEF RunInv, RunTypeOK, OnlyCall
<1>1. CASE PrepareFails(t)
  BY <1>1 DEF PrepareFails, Goto
<1>2. CASE BeginAttempt(t)
  BY <1>2 DEF BeginAttempt, NoHub
<1>3. CASE NoMoreAttempts(t)
  BY <1>3 DEF NoMoreAttempts, Goto
<1>4. CASE RunUnauthorized(t)
  BY <1>4 DEF RunUnauthorized
<1>5. CASE RunAuthorized(t)
  BY <1>5 DEF RunAuthorized, Goto
<1>6. CASE End(t)
  BY <1>6 DEF End, Return
<1>7. CASE ConnectFails(t)
  BY <1>7 DEF ConnectFails, Settle
<1>8. CASE RunConnected(t)
  BY <1>8 DEF RunConnected, Goto
<1>9. CASE Initialized(t)
  BY <1>9 DEF Initialized, RunNextGroup
<1>10. CASE TestCompleted(t)
  BY <1>10 DEF TestCompleted, Dispatch, Dispatched
<1>11. CASE TestRunCompleted(t)
  BY <1>11 DEF TestRunCompleted, Dispatch, Dispatched, RunNextGroup
<1>12. CASE RunTestsRejected(t)
  BY <1>12 DEF RunTestsRejected, Dispatch, Dispatched, Settle
<1>13. CASE Stopped(t)
  BY <1>13 DEF Stopped, Goto
<1>14. CASE RunTests(t)
  BY <1>14 DEF RunTests
<1>15. CASE CallTool(t)
  BY <1>15 DEF CallTool, Goto
<1>16. CASE HubClosed(t)
  BY <1>16 DEF HubClosed, Settle
<1>17. CASE ServerAnswers(t)
  BY <1>17 DEF ServerAnswers
<1>18. CASE Cancel(t)
  BY <1>18 DEF Cancel
<1> QED
  BY <1>1, <1>2, <1>3, <1>4, <1>5, <1>6, <1>7, <1>8, <1>9, <1>10, <1>11, <1>12, <1>13, <1>14, <1>15, <1>16, <1>17, <1>18 DEF CallStep, Step

LEMMA CallKept ==
  ASSUME RunInv, NEW t \in Tools, CallStep(t)
  PROVE  CallOK(t)'
<1>1. CASE PrepareFails(t)
  BY <1>1, PrepareFailsOK
<1>2. CASE BeginAttempt(t)
  BY <1>2, BeginAttemptOK
<1>3. CASE NoMoreAttempts(t)
  BY <1>3, NoMoreAttemptsOK
<1>4. CASE RunUnauthorized(t)
  BY <1>4, RunUnauthorizedOK
<1>5. CASE RunAuthorized(t)
  BY <1>5, RunAuthorizedOK
<1>6. CASE End(t)
  BY <1>6, EndOK
<1>7. CASE ConnectFails(t)
  BY <1>7, ConnectFailsOK
<1>8. CASE RunConnected(t)
  BY <1>8, RunConnectedOK
<1>9. CASE Initialized(t)
  BY <1>9, InitializedOK
<1>10. CASE TestCompleted(t)
  BY <1>10, TestCompletedOK
<1>11. CASE TestRunCompleted(t)
  BY <1>11, TestRunCompletedOK
<1>12. CASE RunTestsRejected(t)
  BY <1>12, RunTestsRejectedOK
<1>13. CASE Stopped(t)
  BY <1>13, StoppedOK
<1>14. CASE RunTests(t)
  BY <1>14, RunTestsOK
<1>15. CASE CallTool(t)
  BY <1>15, CallToolOK
<1>16. CASE HubClosed(t)
  BY <1>16, HubClosedOK
<1>17. CASE ServerAnswers(t)
  BY <1>17, ServerAnswersOK
<1>18. CASE Cancel(t)
  BY <1>18, CancelOK
<1> QED
  BY <1>1, <1>2, <1>3, <1>4, <1>5, <1>6, <1>7, <1>8, <1>9, <1>10, <1>11, <1>12, <1>13, <1>14, <1>15, <1>16, <1>17, <1>18 DEF CallStep, Step

\* What a step does to what other calls, and the plan, see of the call.
Same(t) == run'[t].attempt = run[t].attempt /\ hub'[t].served = hub[t].served /\ run'[t].report = run[t].report
Works(t) == /\ Same(t) /\ runLock' = runLock
            /\ \/ run[t].stage \in Active /\ run'[t].stage \in Active
               \/ run'[t].stage = run[t].stage
Claims(t) == Same(t) /\ ~runLock /\ runLock' /\ run[t].stage = "idle" /\ run'[t].stage = "preparing"
Returns(t) == Same(t) /\ runLock' = FALSE /\ run[t].stage = "ending" /\ run'[t].stage = "over"
Starts(t) ==
  /\ run[t].stage \in {"preparing", "between"} /\ run'[t].stage \in Active /\ runLock' = runLock
  /\ run[t].attempt < Attempts[t] /\ run'[t].attempt = run[t].attempt + 1
  /\ hub'[t].served = 0 /\ run'[t].report = "none"
Serves(t) ==
  /\ run'[t] = run[t] /\ runLock' = runLock /\ hub[t].up
  /\ hub[t].served < hub[t].asked /\ hub'[t].served = hub[t].served + 1
Reports(t) ==
  /\ run[t].stage \in {"authorizing", "connecting", "initializing", "running"} /\ run'[t].stage \in {"stopping", "ending"}
  /\ run'[t].attempt = run[t].attempt /\ hub'[t].served = hub[t].served /\ runLock' = runLock
  /\ run'[t].report \in {"complete", "aborted"}

LEMMA NextEffect ==
  ASSUME RunTypeOK, NEW t \in Tools, NEW r \in Run, NEW h \in Hub, r.stage = "running", RunNextGroup(t, r, h)
  PROVE  /\ run'[t].attempt = r.attempt /\ hub'[t].served = h.served
         /\ \/ run'[t].stage = "running" /\ run'[t].report = r.report
            \/ run'[t].stage = "stopping" /\ run'[t].report = "complete"
<1>1. CASE r.groupIndex = NumGroups
  <2>1. run'[t] = [r EXCEPT !.stage = "stopping", !.report = "complete"] /\ hub'[t] = h
    BY <1>1 DEF RunTypeOK, RunNextGroup
  <2> QED
    BY <2>1 DEF Run
<1>2. CASE r.groupIndex # NumGroups
  <2>1. /\ run'[t] = [r EXCEPT !.groupIndex = r.groupIndex + 1, !.groupResultBaseline = Len(r.results)]
        /\ hub'[t] = [h EXCEPT !.open = h.open \cup {r.groupIndex + 1}, !.asked = r.groupIndex + 1]
    BY <1>2 DEF RunTypeOK, RunNextGroup
  <2>2. run'[t].attempt = r.attempt /\ run'[t].stage = r.stage /\ run'[t].report = r.report
    BY <2>1 DEF Run
  <2>3. hub'[t].served = h.served
    BY <2>1 DEF Hub
  <2> QED
    BY <2>2, <2>3
<1> QED
  BY <1>1, <1>2

LEMMA Effect ==
  ASSUME RunInv, NEW t \in Tools, CallStep(t)
  PROVE  Works(t) \/ Claims(t) \/ Returns(t) \/ Starts(t) \/ Serves(t) \/ Reports(t)
<1> DEFINE E == Works(t) \/ Claims(t) \/ Returns(t) \/ Starts(t) \/ Serves(t) \/ Reports(t)
<1>0. /\ run[t] \in Run /\ hub[t] \in Hub /\ run \in [Tools -> Run] /\ hub \in [Tools -> Hub]
      /\ hub[t].up => run[t].stage \in {"initializing", "running", "stopping"}
  BY DEF RunInv, RunTypeOK
<1>1. CASE PrepareFails(t)
  BY <1>0, <1>1 DEF PrepareFails, Goto, Works, Same, Active, Run, Hub
<1>2. CASE BeginAttempt(t)
  BY <1>0, <1>2 DEF BeginAttempt, NoHub, Starts, Same, Active, Run, Hub
<1>3. CASE NoMoreAttempts(t)
  BY <1>0, <1>3 DEF NoMoreAttempts, Goto, Works, Same, Active, Run, Hub
<1>4. CASE RunUnauthorized(t)
  BY <1>0, <1>4 DEF RunUnauthorized, Reports, Run, Hub
<1>5. CASE RunAuthorized(t)
  BY <1>0, <1>5 DEF RunAuthorized, Goto, Works, Same, Active, Run, Hub
<1>6. CASE End(t)
  BY <1>0, <1>6 DEF End, Return, Returns, Same, Active, Run, Hub
<1>7. CASE ConnectFails(t)
  BY <1>0, <1>7 DEF ConnectFails, Settle, Reports, Run, Hub
<1>8. CASE RunConnected(t)
  BY <1>0, <1>8 DEF RunConnected, Goto, Works, Same, Active, Run, Hub
<1>9. CASE Initialized(t)
  <2> DEFINE r == [run[t] EXCEPT !.stage = "running"]
  <2>1. RunNextGroup(t, r, hub[t]) /\ run[t].stage = "initializing" /\ runLock' = runLock
    BY <1>9 DEF Initialized
  <2>2. r \in Run /\ r.stage = "running" /\ r.attempt = run[t].attempt /\ r.report = run[t].report
    BY <1>0 DEF Run
  <2> HIDE DEF r
  <2> QED
    BY <1>0, <2>1, <2>2, NextEffect DEF RunInv, Works, Reports, Same, Active
<1>10. CASE TestCompleted(t)
  BY <1>0, <1>10 DEF TestCompleted, Dispatch, Dispatched, Works, Same, Active, Run, Hub
<1>11. CASE TestRunCompleted(t)
  <2> DEFINE r == [run[t] EXCEPT !.coverageComplete =
                     run[t].coverageComplete /\ Covered(run[t], Head(hub[t].wire).tests)]
             h == [hub[t] EXCEPT !.wire = Tail(hub[t].wire)]
  <2>1. runLock' = runLock /\ run[t].stage \in {"initializing", "running", "stopping"} /\ hub[t].wire # <<>>
    BY <1>0, <1>11 DEF TestRunCompleted, Dispatch
  <2>2. h \in Hub /\ h.served = hub[t].served
    BY <1>0, <2>1, DispatchedTyped
  <2>3. CASE run[t].stage = "running"
    <3>1. RunNextGroup(t, r, h)
      BY <1>11, <2>3 DEF TestRunCompleted, Dispatched
    <3>2. Covered(run[t], Head(hub[t].wire).tests) \in BOOLEAN
      BY DEF Covered
    <3>3. r \in Run /\ r.stage = "running" /\ r.attempt = run[t].attempt /\ r.report = run[t].report
      BY <1>0, <2>3, <3>2 DEF Run
    <3> HIDE DEF r, h
    <3> QED
      BY <1>0, <2>1, <2>2, <2>3, <3>1, <3>3, NextEffect DEF RunInv, Works, Reports, Same, Active
  <2>4. CASE run[t].stage # "running"
    <3>1. run' = run /\ hub'[t] = h
      BY <1>0, <1>11, <2>4 DEF TestRunCompleted, Dispatched
    <3> HIDE DEF h
    <3> QED
      BY <2>1, <2>2, <3>1 DEF Works, Same, Active
  <2> QED
    BY <2>3, <2>4
<1>12. CASE RunTestsRejected(t)
  BY <1>0, <1>12 DEF RunTestsRejected, Dispatch, Dispatched, Settle, Works, Reports, Same, Active, Run, Hub
<1>13. CASE Stopped(t)
  BY <1>0, <1>13 DEF Stopped, Goto, Works, Same, Active, Run, Hub
<1>14. CASE RunTests(t)
  BY <1>0, <1>14 DEF RunTests, Serves, Run, Hub
<1>15. CASE CallTool(t)
  BY <1>0, <1>15 DEF CallTool, Goto, Claims, Same, Active, Run, Hub
<1>16. CASE HubClosed(t)
  BY <1>0, <1>16 DEF HubClosed, Settle, Works, Reports, Same, Active, Run, Hub
<1>17. CASE ServerAnswers(t)
  BY <1>0, <1>17 DEF ServerAnswers, Works, Same, Active, Run, Hub
<1>18. CASE Cancel(t)
  BY <1>0, <1>18 DEF Cancel, Works, Same, Active, Run, Hub
<1> QED
  BY <1>1, <1>2, <1>3, <1>4, <1>5, <1>6, <1>7, <1>8, <1>9, <1>10, <1>11, <1>12, <1>13, <1>14, <1>15, <1>16, <1>17, <1>18 DEF CallStep, Step

LEMMA LockKept ==
  ASSUME RunInv, NEW t \in Tools, CallStep(t)
  PROVE  LockInv'
<1>1. \A u \in Tools : u # t => run'[u] = run[u]
  BY StepOfCall DEF OnlyCall, RunInv, RunTypeOK
<1>2. LockInv
  BY DEF RunInv
<1>3. CASE Works(t) \/ Serves(t) \/ Starts(t) \/ Reports(t)
  <2>1. runLock' = runLock /\ (run[t].stage \in Active <=> run'[t].stage \in Active)
    BY <1>3 DEF Works, Serves, Starts, Reports, Active
  <2> QED
    BY <1>1, <1>2, <2>1 DEF LockInv
<1>4. CASE Claims(t)
  BY <1>1, <1>2, <1>4 DEF LockInv, Claims, Active
<1>5. CASE Returns(t)
  BY <1>1, <1>2, <1>5 DEF LockInv, Returns, Active
<1> QED
  BY <1>3, <1>4, <1>5, Effect

LEMMA RunInvInit == RunInit => RunInv
<1> SUFFICES ASSUME RunInit PROVE RunInv
  OBVIOUS
<1>1. <<>> \in Seq(BOOLEAN) /\ <<>> \in Seq(Message)
  OBVIOUS
<1>2. RunTypeOK
  <2>1. ASSUME NEW t \in Tools
        PROVE  /\ run[t] = [stage |-> "idle", attempt |-> 0, groupIndex |-> 0, results |-> <<>>,
                            groupResultBaseline |-> 0, coverageComplete |-> TRUE, report |-> "none"]
               /\ hub[t] = NoHub
    BY DEF RunInit
  <2>2. [stage |-> "idle", attempt |-> 0, groupIndex |-> 0, results |-> <<>>,
         groupResultBaseline |-> 0, coverageComplete |-> TRUE, report |-> "none"] \in Run
    BY <1>1, PlanAssumption DEF Run
  <2>3. NoHub \in Hub
    BY <1>1, PlanAssumption DEF Hub, NoHub
  <2>4. run \in [Tools -> Run] /\ hub \in [Tools -> Hub]
    BY <2>2, <2>3 DEF RunInit
  <2>5. \A t \in Tools : 0 <= Attempts[t]
    BY PlanAssumption
  <2>6. ASSUME NEW t \in Tools
        PROVE  /\ run[t].attempt = 0 /\ run[t].groupResultBaseline = 0 /\ Len(run[t].results) = 0
               /\ hub[t].served = 0 /\ hub[t].asked = 0 /\ ~hub[t].up
    BY <2>1 DEF NoHub
  <2>7. runLock \in BOOLEAN /\ cancelled \in [Tools -> BOOLEAN]
    BY DEF RunInit
  <2> QED
    BY <2>4, <2>5, <2>6, <2>7 DEF RunTypeOK
<1>3. LockInv
  BY DEF RunInit, LockInv, Active
<1>4. \A t \in Tools : CallInv(run[t], hub[t])
  BY DEF RunInit, CallInv
<1> QED
  BY <1>2, <1>3, <1>4 DEF RunInv

LEMMA RunInvKept == RunInv /\ [RunNext]_runVars => RunInv'
<1> SUFFICES ASSUME RunInv, [RunNext]_runVars PROVE RunInv'
  OBVIOUS
<1>1. CASE UNCHANGED runVars
  BY <1>1 DEF runVars, RunInv, RunTypeOK, LockInv
<1>2. ASSUME NEW t \in Tools, CallStep(t) PROVE RunInv'
  <2>1. OnlyCall(t) /\ CallOK(t)' /\ LockInv'
    BY <1>2, StepOfCall, CallKept, LockKept
  <2>2. runLock' \in BOOLEAN
    BY <1>2, Effect DEF Works, Claims, Returns, Starts, Serves, Reports, RunInv, RunTypeOK
  <2>3. \A u \in Tools : u # t => run'[u] = run[u] /\ hub'[u] = hub[u]
    BY <2>1 DEF OnlyCall, RunInv, RunTypeOK
  <2>4. run' \in [Tools -> Run] /\ hub' \in [Tools -> Hub]
    BY <2>1 DEF OnlyCall, CallOK, RunInv, RunTypeOK
  <2>5. ASSUME NEW u \in Tools PROVE CallOK(u)'
    BY <2>1, <2>3 DEF CallOK, RunInv, RunTypeOK
  <2> QED
    BY <2>1, <2>2, <2>4, <2>5 DEF RunInv, RunTypeOK, OnlyCall, CallOK
<1> QED
  BY <1>1, <1>2 DEF RunNext, CallStep

THEOREM RunInvariant == RunSpec => []RunInv
<1> QED
  BY RunInvInit, RunInvKept, PTL DEF RunSpec

\* The state keeps its shape: stages, locals, connections and the lock.
THEOREM TypeCorrect == RunSpec => []RunTypeOK
<1> QED
  BY RunInvariant, PTL DEF RunInv

\* What a call keeps of its runs can be trusted: coverage is called complete exactly if every group's was
\* reported in full.
THEOREM RunsTrusted == RunSpec => []RunSafe
<1>1. RunInv => RunSafe
  <2> SUFFICES ASSUME RunInv, NEW t \in Tools, run[t].stage \in {"between", "ending"}, run[t].report # "none"
               PROVE  MapComplete(t) <=> run[t].report = "complete" /\ hub[t].evidence = Groups
    BY DEF RunSafe, CoverageHonest, RunInv
  <2>1. CallInv(run[t], hub[t])
    BY DEF RunInv
  <2> QED
    BY <2>1 DEF CallInv, Whole, MapComplete
<1> QED
  BY <1>1, RunInvariant, PTL

----------------------------------------------------------------------------
(* The runs implement the plan *)

\* The state of the plan, read off the calls.
active == {t \in Tools : run[t].stage \notin {"idle", "over"}}
attempt == [t \in Tools |-> run[t].attempt]
done == [t \in Tools |-> hub[t].served]
report == [t \in Tools |-> run[t].report]

LEMMA PlanState ==
  ASSUME RunInv, NEW t \in Tools, CallStep(t)
  PROVE  /\ active' = IF run'[t].stage \in {"idle", "over"} THEN active \ {t} ELSE active \cup {t}
         /\ attempt' = [attempt EXCEPT ![t] = run'[t].attempt]
         /\ done' = [done EXCEPT ![t] = hub'[t].served]
         /\ report' = [report EXCEPT ![t] = run'[t].report]
<1>1. \A u \in Tools : u # t => run'[u] = run[u] /\ hub'[u] = hub[u]
  BY StepOfCall DEF OnlyCall, RunInv, RunTypeOK
<1> QED
  BY <1>1 DEF active, attempt, done, report

LEMMA PlanStep ==
  ASSUME RunInv, NEW t \in Tools, CallStep(t)
  PROVE  [Plan!Next]_(Plan!vars)
<1> USE DEF active, attempt, done, report
<1>1. /\ active' = IF run'[t].stage \in {"idle", "over"} THEN active \ {t} ELSE active \cup {t}
      /\ attempt' = [attempt EXCEPT ![t] = run'[t].attempt]
      /\ done' = [done EXCEPT ![t] = hub'[t].served]
      /\ report' = [report EXCEPT ![t] = run'[t].report]
  BY PlanState
<1>2. /\ run[t] \in Run /\ hub[t] \in Hub /\ CallInv(run[t], hub[t]) /\ CallInv(run'[t], hub'[t]) /\ LockInv
      /\ hub[t].up => run[t].stage \in {"initializing", "running", "stopping"}
  BY CallKept DEF RunInv, RunTypeOK, CallOK
<1>3. /\ attempt[t] = run[t].attempt /\ done[t] = hub[t].served /\ report[t] = run[t].report
      /\ t \in active <=> run[t].stage \notin {"idle", "over"}
  OBVIOUS
<1> DEFINE Keeps == attempt' = attempt /\ done' = done /\ report' = report
<1>4. Same(t) => Keeps
  <2> SUFFICES ASSUME Same(t) PROVE Keeps
    OBVIOUS
  <2>1. /\ attempt' = [attempt EXCEPT ![t] = attempt[t]] /\ done' = [done EXCEPT ![t] = done[t]]
        /\ report' = [report EXCEPT ![t] = report[t]]
    <3> HIDE DEF active, attempt, done, report
    <3> QED
      BY <1>1, <1>3 DEF Same
  <2>2. /\ attempt = [u \in Tools |-> attempt[u]] /\ done = [u \in Tools |-> done[u]]
        /\ report = [u \in Tools |-> report[u]]
    OBVIOUS
  <2> HIDE DEF active, attempt, done, report
  <2> QED
    BY <2>1, <2>2
<1> HIDE DEF active, attempt, done, report, Keeps
<1>5. CASE Works(t)
  <2>1. active' = active
    BY <1>1, <1>3, <1>5 DEF Works, Active
  <2> QED
    BY <1>4, <1>5, <2>1 DEF Works, Plan!vars, active, attempt, done, report, Keeps
<1>6. CASE Claims(t)
  <2>1. active = {}
    BY <1>2, <1>6 DEF Claims, LockInv, active, Active, RunInv, RunTypeOK, Run
  <2>2. active' = {t}
    BY <1>1, <1>6, <2>1 DEF Claims
  <2>3. attempt[t] = 0
    BY <1>2, <1>3, <1>6 DEF Claims, CallInv
  <2>4. Plan!Claim(t)
    BY <1>4, <1>6, <2>1, <2>2, <2>3 DEF Claims, Plan!Claim, active, attempt, done, report, Keeps
  <2> QED
    BY <2>4 DEF Plan!Next
<1>7. CASE Returns(t)
  <2>1. t \in active /\ active' = active \ {t}
    BY <1>1, <1>3, <1>7 DEF Returns
  <2>2. attempt[t] = 0 \/ report[t] # "none"
    BY <1>2, <1>3, <1>7 DEF Returns, CallInv
  <2>3. Plan!Return(t)
    BY <1>4, <1>7, <2>1, <2>2 DEF Returns, Plan!Return, active, attempt, done, report, Keeps
  <2> QED
    BY <2>3 DEF Plan!Next
<1>8. CASE Starts(t)
  <2>1. t \in active /\ active' = active
    BY <1>1, <1>3, <1>8 DEF Starts, Active
  <2>2. attempt[t] = 0 \/ report[t] = "complete"
    BY <1>2, <1>3, <1>8 DEF Starts, CallInv
  <2>3. /\ attempt[t] < Attempts[t] /\ attempt' = [attempt EXCEPT ![t] = attempt[t] + 1]
        /\ done' = [done EXCEPT ![t] = 0] /\ report' = [report EXCEPT ![t] = "none"]
    BY <1>1, <1>3, <1>8 DEF Starts
  <2>4. Plan!Start(t)
    BY <2>1, <2>2, <2>3 DEF Plan!Start, active, attempt, done, report
  <2> QED
    BY <2>4 DEF Plan!Next
<1>9. CASE Serves(t)
  <2>1. t \in active /\ active' = active /\ attempt' = attempt /\ report' = report
    <3>1. run[t].stage \in {"initializing", "running", "stopping"} /\ run'[t] = run[t]
      BY <1>2, <1>9 DEF Serves
    <3>2. attempt' = [attempt EXCEPT ![t] = attempt[t]] /\ report' = [report EXCEPT ![t] = report[t]]
      BY <1>1, <1>3, <3>1
    <3> QED
      BY <1>1, <1>3, <3>1, <3>2 DEF attempt, report
  <2>2. attempt[t] > 0
    BY <1>2, <1>3, <1>9 DEF Serves, CallInv
  <2>3. done[t] < NumGroups /\ done' = [done EXCEPT ![t] = done[t] + 1]
    BY <1>1, <1>2, <1>3, <1>9, PlanAssumption DEF Serves, Hub
  <2>4. Plan!RunGroup(t)
    BY <2>1, <2>2, <2>3 DEF Plan!RunGroup, active, attempt, done, report
  <2> QED
    BY <2>4 DEF Plan!Next
<1>10. CASE Reports(t)
  <2>1. t \in active /\ active' = active
    BY <1>1, <1>3, <1>10 DEF Reports
  <2>2. attempt[t] > 0 /\ report[t] = "none"
    BY <1>2, <1>3, <1>10 DEF Reports, CallInv
  <2>3. attempt' = attempt /\ done' = done
    BY <1>1, <1>3, <1>10 DEF Reports, attempt, done
  <2>4. run'[t].report = "complete" => done[t] = NumGroups
    BY <1>2, <1>3, <1>10 DEF Reports, CallInv, Whole
  <2> QED
    <3>1. run'[t].report \in {"complete", "aborted"}
      BY <1>10 DEF Reports
    <3>2. CASE run'[t].report = "complete"
      <4>1. Plan!Report(t, "complete")
        BY <1>1, <2>1, <2>2, <2>3, <2>4, <3>2 DEF Plan!Report, active, attempt, done, report
      <4> QED
        BY <4>1 DEF Plan!Next
    <3>3. CASE run'[t].report = "aborted"
      <4>1. Plan!Report(t, "aborted")
        BY <1>1, <2>1, <2>2, <2>3, <3>3 DEF Plan!Report, active, attempt, done, report
      <4> QED
        BY <4>1 DEF Plan!Next
    <3> QED
      BY <3>1, <3>2, <3>3
<1> QED
  BY <1>5, <1>6, <1>7, <1>8, <1>9, <1>10, Effect

\* The calls implement the plan: one at a time, no attempt is called complete before every group of it has
\* run, none follows an aborted one, and no call returns from an attempt without a report.
THEOREM ImplementsPlan == RunSpec => RunsPlan
<1>1. RunInit => Plan!Init
  BY DEF RunInit, NoHub, Plan!Init
<1>2. RunInv /\ [RunNext]_runVars => [Plan!Next]_(Plan!vars)
  <2>1. CASE UNCHANGED runVars
    BY <2>1 DEF runVars, Plan!vars
  <2> QED
    BY <2>1, PlanStep DEF RunNext, CallStep
<1> QED
  BY <1>1, <1>2, RunInvariant, PTL DEF RunSpec, RunsPlan, Plan!Spec

=============================================================================
