--------------------------- MODULE WriteStatement ---------------------------
(***************************************************************************)
(* How the record-write collector tells which record a break is about       *)
(* (src/src/core/record-write-triage.ts): classify() fetches the source of  *)
(* the top frame's object once per capture, finds the one write call in the *)
(* frame's statement, and for a call without a receiver looks for the       *)
(* `with' statement around it; a watch of that receiver decides.            *)
(*                                                                         *)
(* Source is a sequence of tokens.  The reader sees their texts only; a     *)
(* write also carries the receiver AL binds it to, which is what the reader *)
(* has to find out.  Programs are built by AL's own statement rules.        *)
(***************************************************************************)
EXTENDS Naturals, Sequences, SequencesExt

CONSTANT Programs \* the bodies of the routine the debugger breaks in

\* lexStatement: white space, comments and strings are gone, and the case of letters does not matter.
\* binds: the receiver of a write, "complex" if it is no identifier; "" for any other token
Token == [text : STRING, binds : STRING]

Operations == {"Insert", "Rename"}
NoArgument == {"Insert"}
Punctuation == {".", "(", ")", "[", "]", ";", "other", ""}

----------------------------------------------------------------------------
(* AL: a statement with the spans a debugger reports and its `with's *)

Word(text) == [tokens |-> <<[text |-> text, binds |-> ""]>>, spans |-> {}, withs |-> {}]

Shifted(spans, n) == {<<s[1] + n, s[2] + n>> : s \in spans}

Followed(p, q) ==
  [tokens |-> p.tokens \o q.tokens,
   spans |-> p.spans \cup Shifted(q.spans, Len(p.tokens)),
   withs |-> p.withs \cup Shifted(q.withs, Len(p.tokens))]

Nothing == [tokens |-> <<>>, spans |-> {}, withs |-> {}]

Words(texts) == FoldLeft(LAMBDA p, t : Followed(p, Word(t)), Nothing, texts)

Joined(parts) == FoldLeft(Followed, Nothing, parts)

Whole(p) == <<1, Len(p.tokens)>>
Spanned(p) == [p EXCEPT !.spans = @ \cup {Whole(p)}]

Writes(receiver, operation, argument) ==
  LET call == [Word(operation) EXCEPT !.tokens[1].binds = IF receiver = <<>> THEN "Rec"
                 ELSE IF Len(receiver) = 1 THEN receiver[1] ELSE "complex"]
      dotted == IF receiver = <<>> THEN <<>> ELSE Append(receiver, ".")
  IN Spanned(Joined(<<Words(dotted), call, Words(argument)>>))

\* the innermost `with' around a write without a receiver; a receiver that was written down stays
With(header, p) ==
  LET receiver == IF Len(header) = 1 THEN header[1] ELSE "complex"
      bound == [p EXCEPT !.tokens = [i \in DOMAIN @ |->
                  IF @[i].binds = "Rec" THEN [@[i] EXCEPT !.binds = receiver] ELSE @[i]]]
      all == Joined(<<Word("with"), Words(header), Word("do"), bound>>)
  IN [all EXCEPT !.withs = @ \cup {Whole(all)}]

IfThen(condition, p) == Joined(<<Word("if"), condition, Word("then"), p>>)
IfElse(condition, p, q) == Joined(<<IfThen(condition, p), Word("else"), q>>)
Block(p, q) == Joined(<<Word("begin"), p, Word(";"), q, Word("end")>>)
Repeat(p, condition) == Joined(<<Word("repeat"), p, Word("until"), condition>>)
CaseOf(p, q) == Joined(<<Words(<<"case", "x", "of", "x", "other">>), p, Word(";"), Word("else"), q, Word("end")>>)

----------------------------------------------------------------------------
(* inspectStatement: the one write call of a statement *)

Text(ts, i) == IF i \in DOMAIN ts THEN ts[i].text ELSE ""
Identifier(ts, i) == Text(ts, i) \notin Punctuation

IsOperationInvocation(ts, i) ==
  /\ ts[i].text \in Operations
  /\ \/ Text(ts, i + 1) = "("
     \/ /\ ts[i].text \in NoArgument
        /\ Text(ts, i + 1) \in {"", ";", ")", "]", "then", "do", "else", "until", "and", "or"}

Dotted(ts, i) == Text(ts, i - 1) = "."

UnsupportedReceiver(ts, i) ==
  Dotted(ts, i) /\ (~Identifier(ts, i - 2) \/ Text(ts, i - 3) \in {".", ")", "]"})

Unread(reason) == [reason |-> reason, receiver |-> "", at |-> 0]
Read(receiver, i) == [reason |-> "", receiver |-> receiver, at |-> i]

InspectStatement(ts) ==
  LET calls == {i \in DOMAIN ts : IsOperationInvocation(ts, i)} IN
  IF \E i \in calls : UnsupportedReceiver(ts, i) THEN Unread("receiverUnsupported")
  ELSE IF Cardinality(calls) > 1 THEN Unread("multipleWriteCandidates")
  ELSE IF calls = {} THEN Unread("writeStatementUnrecognized")
  ELSE LET i == CHOOSE c \in calls : TRUE IN
       Read(IF Dotted(ts, i) THEN Text(ts, i - 2) ELSE "implicit", i)

----------------------------------------------------------------------------
(* explicitWithContext: the `with' around a call without a receiver *)

After(ts) == Len(ts) + 1

Count(ts, texts, from, to) == Cardinality({i \in from..to : Text(ts, i) \in texts})

\* The end of what opens at `start', exclusive: matchingEnd and the first half of matchingUntil.
Matching(ts, opening, closing, start) ==
  LET ends == {i \in start..Len(ts) :
                 Text(ts, i) = closing /\ Count(ts, opening, start, i) = Count(ts, {closing}, start, i)}
  IN IF ends = {} THEN After(ts) ELSE Min(ends) + 1

PastSemicolon(ts, start) ==
  LET semicolons == {i \in start..Len(ts) : Text(ts, i) = ";"} IN
  IF semicolons = {} THEN After(ts) ELSE Min(semicolons) + 1

MatchingEnd(ts, start) == Matching(ts, {"begin", "case"}, "end", start)
MatchingUntil(ts, start) == PastSemicolon(ts, Matching(ts, {"repeat"}, "until", start))

AfterOptionalSemicolon(ts, i) == IF Text(ts, i) = ";" THEN i + 1 ELSE i

\* Within parentheses or brackets opened since `start'.
Nested(ts, start, i) ==
  \/ Count(ts, {"("}, start, i) > Count(ts, {")"}, start, i)
  \/ Count(ts, {"["}, start, i) > Count(ts, {"]"}, start, i)

\* What ends the scan of a statement: the first block in it, the first loop, or its semicolon.
Stops(ts, start) ==
  {i \in start..Len(ts) : ~Nested(ts, start, i) /\ Text(ts, i) \in {"begin", "case", "repeat", ";"}}

\* statementEnd gone wrong: the `else' of a block's `if' is not part of the statement
StatementEndAtBlock(ts, first) ==
  LET stops == Stops(ts, first)
      i == Min(stops)
  IN IF stops = {} THEN After(ts)
     ELSE IF Text(ts, i) = ";" THEN i + 1
     ELSE IF Text(ts, i) = "repeat" THEN MatchingUntil(ts, i)
     ELSE AfterOptionalSemicolon(ts, MatchingEnd(ts, i))

StatementEnd(ts, first) ==
  LET end[start \in 1..(Len(ts) + 2)] ==
        LET stops == Stops(ts, start)
            i == Min(stops)
            blockEnd == MatchingEnd(ts, i)
        IN IF stops = {} THEN After(ts)
           ELSE IF Text(ts, i) = ";" THEN i + 1
           ELSE IF Text(ts, i) = "repeat" THEN MatchingUntil(ts, i)
           ELSE IF Text(ts, blockEnd) = "else" THEN end[blockEnd + 1]
           ELSE AfterOptionalSemicolon(ts, blockEnd)
  IN end[first]

\* The `do' of the `with' at i, if the header ends there before `call'.
DoOf(ts, i, call) ==
  LET heads == {j \in (i + 1)..(call - 1) : ~Nested(ts, i + 1, j) /\ Text(ts, j) \in {"do", ";"}} IN
  IF heads = {} THEN 0 ELSE IF Text(ts, Min(heads)) = "do" THEN Min(heads) ELSE 0

\* The innermost statement that reaches the call; its header is a receiver if it is one identifier.
ExplicitWithContext(ts, call) ==
  LET around == {i \in 1..(call - 1) :
                   /\ Text(ts, i) = "with" /\ DoOf(ts, i, call) # 0
                   /\ call < StatementEnd(ts, DoOf(ts, i, call) + 1)}
      i == Max(around)
  IN IF around = {} THEN "Rec"
     ELSE IF DoOf(ts, i, call) = i + 2 /\ Identifier(ts, i + 1) THEN Text(ts, i + 1)
     ELSE "ambiguous"

InspectRecordWriteAtSpan(ts, span) ==
  LET inspected == InspectStatement(SubSeq(ts, span[1], span[2]))
      receiver == ExplicitWithContext(ts, span[1] + inspected.at - 1)
  IN IF inspected.receiver # "implicit" THEN inspected
     ELSE IF receiver = "ambiguous" THEN Unread("receiverUnsupported")
     ELSE Read(receiver, inspected.at)

----------------------------------------------------------------------------
(* classify *)

VARIABLE reader

NoSpan == <<0, 0>>

Sources == {"unasked", "deployed", "asserted", "local", "none", "failed"} \* asserted: local, changesDeployed

Verdicts ==
  {"", "matched", "unrelated", "statementSpanUnavailable", "inspectionFailed", "sourceUnavailable",
   "writeStatementUnrecognized", "multipleWriteCandidates", "receiverUnsupported", "receiverUnavailable",
   "receiverTypeUnresolved"}

ReaderInit ==
  reader = [pc |-> "running", program |-> Nothing, at |-> 0, span |-> NoSpan, source |-> "unasked",
            verdict |-> "", receiver |-> "", found |-> 0]

Settled(r, verdict) == [r EXCEPT !.pc = "running", !.verdict = verdict]

WritesOf(p) == {i \in DOMAIN p.tokens : p.tokens[i].binds # ""}

\* The debuggee writes a record; the top frame names one of the statements the write is in, or none.
BreaksAtWrite ==
  /\ reader.pc = "running"
  /\ \E p \in (IF reader.program = Nothing THEN Programs ELSE {reader.program}) :
     \E i \in WritesOf(p), span \in p.spans \cup {NoSpan} :
       /\ span = NoSpan \/ i \in span[1]..span[2]
       /\ reader' = [reader EXCEPT !.pc = "reading", !.program = p, !.at = i, !.span = span,
                                   !.verdict = "", !.receiver = "", !.found = 0]

SpanMissing ==
  /\ reader.pc = "reading" /\ reader.span = NoSpan
  /\ reader' = Settled(reader, "statementSpanUnavailable")

\* source() keeps the promise of the first request, whatever became of it: the deployed source, what
\* stands in for it locally, nothing, or a rejection.
Source(known) == IF known = "unasked" THEN Sources \ {"unasked"} ELSE {known}

SourceLost ==
  /\ reader.pc = "reading" /\ reader.span # NoSpan
  /\ \E source \in Source(reader.source) \cap {"none", "failed"} :
       reader' = [Settled(reader, IF source = "none" THEN "sourceUnavailable" ELSE "inspectionFailed")
                  EXCEPT !.source = source]

\* Local source need not have the lines the span names.
SpanOutside ==
  /\ reader.pc = "reading" /\ reader.span # NoSpan
  /\ \E source \in Source(reader.source) \cap {"asserted", "local"} :
       reader' = [Settled(reader, "statementSpanUnavailable") EXCEPT !.source = source]

\* Unasserted local source names what it would be, and counts for nothing.
ReadsSource ==
  /\ reader.pc = "reading" /\ reader.span # NoSpan
  /\ \E source \in Source(reader.source) \ {"none", "failed"},
        inspected \in {InspectRecordWriteAtSpan(reader.program.tokens, reader.span)} :
       LET known == [reader EXCEPT !.source = source, !.receiver = inspected.receiver,
                                   !.found = reader.span[1] + inspected.at - 1]
       IN reader' = IF inspected.reason # "" THEN Settled(known, inspected.reason)
                    ELSE IF source = "local" THEN Settled(known, "sourceUnavailable")
                    ELSE [known EXCEPT !.pc = "watching"]

\* evalWatch of the receiver rejects, finds nothing, or has a type, which may be a table and the target.
WatchesReceiver ==
  /\ reader.pc = "watching"
  /\ \E verdict \in {"inspectionFailed", "receiverUnavailable", "receiverTypeUnresolved", "unrelated", "matched"} :
       reader' = Settled(reader, verdict)

ReaderNext == BreaksAtWrite \/ SpanMissing \/ SourceLost \/ SpanOutside \/ ReadsSource \/ WatchesReceiver

----------------------------------------------------------------------------
(* Properties *)

ReaderTypeOK ==
  /\ reader.pc \in {"running", "reading", "watching"}
  /\ reader.span \in reader.program.spans \cup {NoSpan}
  /\ reader.program # Nothing => reader.at \in WritesOf(reader.program)
  /\ reader.source \in Sources /\ reader.verdict \in Verdicts

Decided == reader.verdict \in {"matched", "unrelated"}

\* Within a block that opens after `start'.
InBlock(ts, start, i) ==
  \E k \in (start + 1)..i : Count(ts, {"begin", "case", "repeat"}, k, i) > Count(ts, {"end", "until"}, k, i)

\* What follows a `with' statement up to the semicolon that separates it from the next one: an else or
\* until of a statement around it, and whole blocks there.
Overrun(p, i) ==
  \E w \in p.withs :
    w[2] < i /\ \A j \in (w[2] + 1)..i : Text(p.tokens, j) = ";" => InBlock(p.tokens, w[2], j)

InSpan(p, span) == {i \in WritesOf(p) : i \in span[1]..span[2]}

RightReceiver == reader.found = reader.at /\ reader.receiver = reader.program.tokens[reader.at].binds

\* "inspects each paused ... receiver, compares its runtime numeric table ID with tableId": a write is
\* counted as one of the target table, or as unrelated, by the record AL writes there, through every
\* nesting of with, if, case, block and loop.  (Not in what follows a `with' that ends without a
\* semicolon: see ReceiverAlwaysRight.)  Where the reader gives up, there is a reason in the source.
WriterNamed ==
  /\ ReaderTypeOK
  /\ Decided /\ ~Overrun(reader.program, reader.at) => RightReceiver
  /\ reader.verdict # "writeStatementUnrecognized"
  /\ reader.verdict = "multipleWriteCandidates" => Cardinality(InSpan(reader.program, reader.span)) > 1
  /\ reader.verdict = "receiverUnsupported" =>
       \E i \in InSpan(reader.program, reader.span) :
         reader.program.tokens[i].binds = "complex" \/ Overrun(reader.program, i)

\* The same without the exception: what docs/debugging.md promises of every counted write.
ReceiverAlwaysRight == Decided => RightReceiver
=============================================================================
