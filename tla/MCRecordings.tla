---------------------------- MODULE MCRecordings ----------------------------
(***************************************************************************)
(* The two tools that record what a workload does between two calls: the    *)
(* capture slot of profiles and snapshots, and the record-write collector,  *)
(* whose classification of one break is a part of its own (the collector    *)
(* knows of it only whether it was exact).  They share no state, so they    *)
(* are checked side by side in one state space: `part' says which of them a *)
(* behaviour is of, and the others keep one initial state.                  *)
(***************************************************************************)
EXTENDS CaptureSlot, RecordWriteTriage, WriteStatement

CONSTANTS p1, s1, s2

X == Word("x")
I == Writes(<<>>, "Insert", <<>>)
NotI == Joined(<<Word("not"), I>>)

Calls == {I, Writes(<<>>, "Rename", <<"(", "x", ")">>), Writes(<<"r">>, "Insert", <<>>),
          Writes(<<"r", ".", "a">>, "Insert", <<>>)}

Forms(P, Q) ==
  {With(<<"a">>, p) : p \in P} \cup {Repeat(p, X) : p \in P}
  \cup UNION {{IfElse(X, p, q), Block(p, q), CaseOf(p, q)} : <<p, q>> \in P \X Q}

\* every kind of call and condition at one level, every nesting of two, each of them in a `with', those
\* that hold a `with' before an else, and two statements of one level side by side in another
OneLevel ==
  {With(header, p) : header \in {<<"a">>, <<"b", "[", "other", "]">>}, p \in Calls}
  \cup {Spanned(IfThen(X, I)), Spanned(IfThen(NotI, I)), Spanned(IfElse(X, I, I)), Repeat(I, NotI)}
TwoLevels == Forms(Forms({I}, {I}), {I}) \cup Forms({I}, Forms({I}, {I}))
ThreeLevels ==
  {With(<<"b">>, p) : p \in TwoLevels} \cup {IfElse(X, p, I) : p \in {q \in TwoLevels : q.withs # {}}}

BothSides == Forms(Forms({I}, {I}), Forms({I}, {I}))

MCPrograms == {Joined(<<p, Word(";"), I>>) : p \in OneLevel \cup TwoLevels \cup ThreeLevels \cup BothSides}

VARIABLE part

OfCapture(A) == part = "capture" /\ A /\ UNCHANGED <<part, triageVars, reader>>
OfCollector(A) == part = "collector" /\ A /\ UNCHANGED <<part, captureVars, reader>>
OfReader(A) == part = "reader" /\ A /\ UNCHANGED <<part, captureVars, triageVars>>

MCInit ==
  /\ part \in {"capture", "collector", "reader"}
  /\ CaptureInit /\ TriageInit /\ ReaderInit
  /\ part # "collector" => ~rearm

MCNext == OfCapture(CaptureNext) \/ OfCollector(TriageNext) \/ OfReader(ReaderNext)

MCVars == <<part, captureVars, triageVars, reader>>

MCSpec ==
  /\ MCInit /\ [][MCNext]_MCVars
  /\ \A c \in Captures : WF_MCVars(OfCapture(Proceed(c)))
  /\ WF_MCVars(OfCollector(Chain)) /\ WF_MCVars(OfCollector(Rearm))
  /\ WF_MCVars(OfCollector(Finishing)) /\ WF_MCVars(OfCollector(Network))
  /\ WF_MCVars(OfCollector(Server))

(* Whatever is refused, lost or unanswered: the capture slot leaves every phase
   that refuses other calls, a workload stopped at a write goes on, and
   finish() returns. *)
RecordingsProceed == PhaseSettles /\ CaptureProceeds
=============================================================================
