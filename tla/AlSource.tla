------------------------------ MODULE AlSource ------------------------------
(***************************************************************************)
(* How the text of an AL project becomes changed lines and routines:        *)
(* src/src/core/git-changes.ts reads the diff of the working tree against   *)
(* the merge base, src/src/core/al-procedures.ts runs the preprocessor and  *)
(* finds the span of every procedure and trigger.  A line is one token of   *)
(* its file: what it holds (`kind`), the routine it belongs to (`of`; the   *)
(* programs read it only where a routine is declared) and an `id`.  A line  *)
(* of kind "text" holds but a '...' literal and punctuation, of which the   *)
(* tokenizer makes nothing that discovery looks at.                         *)
(***************************************************************************)
EXTENDS Naturals, Sequences, SequencesExt, FiniteSets

CONSTANTS
  Routine,
  Trigger,  \* the routines that are triggers
  File,
  Base      \* File -> the lines of the merge base

None == "none"

ASSUME SourceAssumption == Trigger \subseteq Routine /\ None \notin Routine /\ IsFiniteSet(Routine)

Directives == {"if on", "if off", "if bad", "else", "endif"}
Starts == {"proc", "trigger"}
Kinds == Directives \cup Starts \cup {"head", "decl", "attr", "begin", "stmt", "end", "close", "blank", "text"}

Line == [kind : Kinds, of : Routine \cup {None}, id : Nat]

\* the lines a condition or a set of kinds names
Where(s, K) == {i \in DOMAIN s : s[i].kind \in K}

-----------------------------------------------------------------------------
(* The working tree: a file is the alignment of its two versions.           *)

Same(line) == [line |-> line, mark |-> "same"]
CurrentLines(f) == LET kept == SelectSeq(f, LAMBDA e : e.mark # "gone") IN [i \in DOMAIN kept |-> kept[i].line]

\* the number of the working tree's line at or before entry i
LineNo(f, i) == Cardinality({j \in 1..i : f[j].mark # "gone"})

\* the hunks of `git diff --unified=0`
Hunks(f) == {h \in (DOMAIN f) \X (DOMAIN f) :
  /\ h[1] <= h[2] /\ \A i \in h[1]..h[2] : f[i].mark # "same"
  /\ h[1] = 1 \/ f[h[1] - 1].mark = "same"
  /\ h[2] = Len(f) \/ f[h[2] + 1].mark = "same"}

\* HunkLines gone wrong: a deletion is anchored to the line before it
AnchoredBefore(f, h) ==
  LET start == LineNo(f, h[1] - 1)
      count == LineNo(f, h[2]) - start
  IN IF count = 0 THEN {IF start = 0 THEN 1 ELSE start} ELSE (start + 1)..(start + count)

\* a hunk that only deletes is anchored to the lines on both its sides
HunkLines(f, h) ==
  LET start == LineNo(f, h[1] - 1)
      count == LineNo(f, h[2]) - start
  IN IF count = 0 THEN (IF start = 0 THEN 1 ELSE start)..(start + 1) ELSE (start + 1)..(start + count)

\* a file the merge base lacks is changed from its first line to its last
ChangedLines(f, untracked) ==
  IF untracked THEN 1..LineNo(f, Len(f)) ELSE UNION {HunkLines(f, h) : h \in Hunks(f)}

-----------------------------------------------------------------------------
(* The preprocessor: blanks the lines of the branches not taken, remembers  *)
(* the directives.                                                          *)

Blank(line) == [line EXCEPT !.kind = "blank"]
Active(stack) == stack = <<>> \/ Last(stack).active
OnTop(stack, frame) == Append(Front(stack), frame)

Directive(state, line) ==
  LET stack == state.stack
      fails == [state EXCEPT !.warned = TRUE, !.out = Append(@, Blank(line))]
      next(s) == [state EXCEPT !.stack = s, !.out = Append(@, Blank(line)), !.warned = @ \/ line.kind = "if bad"]
  IN CASE line.kind = "else" ->
            IF stack = <<>> \/ (stack # <<>> /\ Last(stack).elseSeen) THEN fails
            ELSE LET frame == Last(stack)
                 IN next(OnTop(stack, [frame EXCEPT !.active = frame.parent /\ ~frame.taken, !.taken = TRUE, !.elseSeen = TRUE]))
       [] line.kind = "endif" -> IF stack = <<>> THEN fails ELSE next(Front(stack))
       [] OTHER -> next(Append(stack, [parent |-> Active(stack), active |-> Active(stack) /\ line.kind = "if on",
                                       taken |-> line.kind = "if on", elseSeen |-> FALSE]))

Preprocessed(s) ==
  LET step(state, line) == IF line.kind \in Directives THEN Directive(state, line)
                           ELSE [state EXCEPT !.out = Append(@, IF Active(state.stack) THEN line ELSE Blank(line))]
      end == FoldLeft(step, [stack |-> <<>>, out |-> <<>>, warned |-> FALSE], s)
  IN [lines |-> end.out, directives |-> Where(s, Directives), complete |-> ~end.warned /\ end.stack = <<>>]

-----------------------------------------------------------------------------
(* The routines of one file.                                                *)

\* the object's braces; without both the file has no object
ObjectSpan(s) ==
  LET open == Where(s, {"head"})
      close == {i \in Where(s, {"close"}) : open # {} /\ i > Min(open)}
  IN IF open = {} \/ close = {} THEN {} ELSE Min(open)..Min(close)

\* back over the attributes above a declaration
DeclarationStart(s, i) ==
  LET above == {k \in 1..(i - 1) : s[k].kind = "attr" /\ \A j \in k..(i - 1) : s[j].kind \in {"attr", "blank", "text"}}
  IN IF above = {} THEN i ELSE Min(above)

\* the `end` that matches the `begin` at b
ProcedureEnd(s, b, last) ==
  LET depth(i) == Cardinality({j \in b..i : s[j].kind = "begin"}) - Cardinality({j \in b..i : s[j].kind = "end"})
      ends == {i \in b..last : depth(i) = 0}
  IN IF ends = {} THEN 0 ELSE Min(ends)

\* the span of the declaration at i; {} when its body is not found
SpanAt(s, i, last) ==
  LET next == {j \in (i + 1)..last : s[j].kind \in Starts \cup {"begin"}}
      b == IF next = {} THEN 0 ELSE Min(next)
      e == IF b = 0 \/ s[b].kind # "begin" THEN 0 ELSE ProcedureEnd(s, b, last)
  IN IF e = 0 THEN {} ELSE {[of |-> s[i].of, kind |-> s[i].kind, at |-> i, first |-> DeclarationStart(s, i), last |-> e]}

\* from the first line on; a declaration inside a body already found is passed over
Declarations(s, object) ==
  LET last == IF object = {} THEN 0 ELSE Max(object) - 1
      upTo[n \in 0..last] ==
        IF n = 0 THEN {}
        ELSE LET found == upTo[n - 1]
                 declares == n \in object /\ s[n].kind \in Starts /\ \A m \in found : m.last < n
             IN IF declares THEN found \cup SpanAt(s, n, last) ELSE found
      members == upTo[last]
  IN [members |-> members,
      complete |-> \A n \in object \cap 1..last : s[n].kind \in Starts => \E m \in members : n \in m.at..m.last]

\* what discovery says of a file
Discovered(source) ==
  LET pre == Preprocessed(source)
      s == pre.lines
      object == ObjectSpan(s)
      found == Declarations(s, object)
      covered == UNION {m.first..m.last : m \in found.members}
      semantic == Where(s, Kinds \ {"blank", "close", "text"}) \cup pre.directives
  IN [members |-> found.members, unattributed |-> semantic \ covered,
      complete |-> pre.complete /\ found.complete /\ \A i \in Where(s, Starts) : i \in object]

-----------------------------------------------------------------------------
(* What the compiler makes of a file: the lines of each routine, and the    *)
(* declarations that belong to none.                                        *)

Code(source, owner) ==
  LET s == Preprocessed(source).lines
      own == SelectSeq(s, LAMBDA line : line.of = owner /\ line.kind \notin {"blank", "head", "close"})
  IN [i \in DOMAIN own |-> own[i].id]
=============================================================================
