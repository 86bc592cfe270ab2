-------------------------- MODULE TestImpact_proofs --------------------------
(***************************************************************************)
(* Proofs about one diff through the tools that look at it: for any AL      *)
(* project whose text has AL's grammar, any edits of it, any calls and any  *)
(* selection of tests.  Three arguments meet in the invariant ImpactInv:    *)
(*   - what discovery says of a routine is true of it (DiscoverySound);     *)
(*   - what an engine's graph leads to is closed under its edges, and the   *)
(*     graph has a way for every call its engine shows (ConeOK, AlSemShows, *)
(*     AltoolShows), so that a test the cone misses does not run the        *)
(*     routine (OutOfReach);                                                *)
(*   - what a finished run left behind is what its tests ran (StatusSound). *)
(***************************************************************************)
EXTENDS TestImpact, FiniteSetTheorems, WellFoundedInduction, TLAPS

\* Induction over the naturals, for a set.
LEMMA Induction ==
  ASSUME NEW G, 0 \in G, \A n \in Nat : n \in G => n + 1 \in G
  PROVE  \A n \in Nat : n \in G
<1> DEFINE T == Nat \ G
           R == OpToRel(<, Nat)
<1> SUFFICES ASSUME T # {} PROVE FALSE
  OBVIOUS
<1>1. IsWellFoundedOn(R, Nat)
  BY NatLessThanWellFounded, Zenon
<1>2. \A x, y \in Nat : x < y => <<x, y>> \in R
  BY DEF OpToRel
<1>3. T \subseteq Nat
  OBVIOUS
<1> HIDE DEF R
<1>4. PICK x \in T : \A y \in T : ~ (<<y, x>> \in R)
  BY <1>1, <1>3, WFMin
<1>5. x # 0 /\ x - 1 \in Nat /\ x - 1 < x
  OBVIOUS
<1>6. x - 1 \in T
  OBVIOUS
<1> QED BY <1>2, <1>4, <1>5, <1>6

\* A set of naturals that has an element has a least one.
LEMMA Least ==
  ASSUME NEW T, T \subseteq Nat, T # {}
  PROVE  \E x \in T : \A y \in T : x <= y
<1> DEFINE R == OpToRel(<, Nat)
<1>1. IsWellFoundedOn(R, Nat)
  BY NatLessThanWellFounded, Zenon
<1>2. \A x, y \in Nat : x < y => <<x, y>> \in R
  BY DEF OpToRel
<1> HIDE DEF R
<1>3. PICK x \in T : \A y \in T : ~ (<<y, x>> \in R)
  BY <1>1, WFMin
<1>4. \A y \in T : ~(y < x)
  BY <1>2, <1>3
<1>5. \A y \in T : x <= y
  BY <1>4
<1> QED BY <1>5

-----------------------------------------------------------------------------
(* Induction, and recursive functions one step after the other *)

\* f goes from a to the N-th of its values by the steps F
Told(f, N, S, a, F) == f \in [0..N -> S] /\ f[0] = a /\ \A n \in 1..N : f[n] = F[n][f[n - 1]]

\* A function that is told step by step exists.
LEMMA StepByStep ==
  ASSUME NEW N \in Nat, NEW S, NEW a \in S, NEW F \in [1..N -> [S -> S]]
  PROVE  \E f : Told(f, N, S, a, F)
<1> DEFINE Rule(f, K) == f = [n \in 0..K |-> IF n = 0 THEN a ELSE F[n][f[n - 1]]]
           G == {K \in Nat : K <= N => \E f \in [0..K -> S] : Rule(f, K)}
<1>1. 0 \in G
  <2> DEFINE f == [n \in 0..0 |-> a]
  <2>1. f \in [0..0 -> S] /\ Rule(f, 0)
    OBVIOUS
  <2> QED BY <2>1
<1>2. ASSUME NEW K \in Nat, K \in G PROVE K + 1 \in G
  <2> SUFFICES ASSUME K + 1 <= N PROVE \E f \in [0..(K + 1) -> S] : Rule(f, K + 1)
    OBVIOUS
  <2>1. PICK f \in [0..K -> S] : Rule(f, K)
    BY <1>2
  <2> DEFINE g == [n \in 0..(K + 1) |-> IF n \in 0..K THEN f[n] ELSE F[K + 1][f[K]]]
  <2>2. K + 1 \in 1..N /\ K \in 0..K
    OBVIOUS
  <2>3. f[K] \in S /\ F[K + 1] \in [S -> S]
    BY <2>1, <2>2
  <2>4. F[K + 1][f[K]] \in S
    BY <2>3
  <2>5. g \in [0..(K + 1) -> S]
    BY <2>1, <2>4
  <2>6. \A n \in 0..K : g[n] = f[n]
    OBVIOUS
  <2>7. \A n \in 0..K : f[n] = IF n = 0 THEN a ELSE F[n][f[n - 1]]
    BY <2>1
  <2>8. \A n \in 0..(K + 1) : g[n] = IF n = 0 THEN a ELSE F[n][g[n - 1]]
    <3> TAKE n \in 0..(K + 1)
    <3>1. CASE n = K + 1
      <4>1. n # 0 /\ n - 1 = K /\ n \notin 0..K
        BY <3>1
      <4>2. g[n] = F[K + 1][f[K]]
        BY <4>1
      <4> HIDE DEF g
      <4> QED BY <2>2, <2>6, <3>1, <4>1, <4>2
    <3>2. CASE n \in 0..K
      <4>1. n # 0 => n - 1 \in 0..K
        BY <3>2
      <4> HIDE DEF g
      <4> QED BY <2>6, <2>7, <3>2, <4>1
    <3> QED BY <3>1, <3>2
  <2> HIDE DEF g
  <2>9. Rule(g, K + 1)
    BY <2>5, <2>8
  <2> HIDE DEF Rule
  <2> QED BY <2>5, <2>9
<1> HIDE DEF G
<1>3. N \in G
  BY <1>1, <1>2, Induction
<1>4. PICK f \in [0..N -> S] : Rule(f, N)
  BY <1>3 DEF G
<1>5. \A n \in 0..N : f[n] = IF n = 0 THEN a ELSE F[n][f[n - 1]]
  BY <1>4
<1>6. 0 \in 0..N /\ \A n \in 1..N : n \in 0..N /\ n # 0
  OBVIOUS
<1>7. f[0] = a /\ \A n \in 1..N : f[n] = F[n][f[n - 1]]
  BY <1>5, <1>6
<1> QED BY <1>7 DEF Told

-----------------------------------------------------------------------------
(* What can be reached *)

\* A graph has finitely many nodes.
LEMMA NodesFinite == IsFiniteSet(Node) /\ Cardinality(Node) \in Nat
<1>1. IsFiniteSet(Node)
  BY SourceAssumption, SelectionAssumption, FS_Union, FS_Singleton DEF Node
<1> QED BY <1>1, FS_CardinalityType

\* within is the recursive function of Reach.
Walks(within, steps, start) ==
  /\ within \in [0..Cardinality(Node) -> SUBSET Node]
  /\ Reach(steps, start) = within[Cardinality(Node)]
  /\ within[0] = start
  /\ \A n \in 1..Cardinality(Node) : within[n] = within[n - 1] \cup Beyond(steps, within[n - 1])

\* The recursive function of Reach, one step after the other.
LEMMA ReachOneByOne ==
  ASSUME NEW steps \in SUBSET (Node \X Node), NEW start \in SUBSET Node
  PROVE  \E within : Walks(within, steps, start)
<1> DEFINE N == Cardinality(Node)
           S == SUBSET Node
           Step == [near \in S |-> near \cup Beyond(steps, near)]
           F == [n \in 1..N |-> Step]
           Rule(f) == f = [n \in 0..N |-> IF n = 0 THEN start ELSE f[n - 1] \cup Beyond(steps, f[n - 1])]
<1>1. N \in Nat
  BY NodesFinite
<1>2. Step \in [S -> S]
  BY DEF Beyond
<1> HIDE DEF N
<1>3. F \in [1..N -> [S -> S]]
  BY <1>2
<1>4. PICK f : Told(f, N, S, start, F)
  <2>1. start \in S
    OBVIOUS
  <2> HIDE DEF F, S
  <2> QED BY <1>1, <1>3, <2>1, StepByStep
<1>5. Rule(f)
  <2>1. \A n \in 0..N : n # 0 => n - 1 \in 0..N /\ n \in 1..N
    BY <1>1
  <2>0. f \in [0..N -> S] /\ f[0] = start /\ \A n \in 1..N : f[n] = F[n][f[n - 1]]
    <3> HIDE DEF F, S
    <3> QED BY <1>4 DEF Told
  <2>2. \A n \in 0..N : n # 0 => f[n - 1] \in S
    BY <2>0, <2>1
  <2>3. \A n \in 0..N : f[n] = IF n = 0 THEN start ELSE f[n - 1] \cup Beyond(steps, f[n - 1])
    BY <2>0, <2>1, <2>2
  <2> HIDE DEF F, S
  <2> QED BY <2>0, <2>3
<1> DEFINE g == CHOOSE g : Rule(g)
<1>6. Rule(g)
  <2> HIDE DEF Rule
  <2> QED BY <1>5
<1>7. Reach(steps, start) = g[N]
  BY DEF Reach, N
<1> HIDE DEF g
<1>8. \A n \in 0..N : g[n] = IF n = 0 THEN start ELSE g[n - 1] \cup Beyond(steps, g[n - 1])
  BY <1>6
<1>9. g[0] = start
  <2>1. 0 \in 0..N
    BY <1>1
  <2> QED BY <1>8, <2>1
<1>10. \A n \in 1..N : n \in 0..N /\ n # 0
  BY <1>1
<1>11. \A n \in 1..N : g[n] = g[n - 1] \cup Beyond(steps, g[n - 1])
  BY <1>8, <1>10
<1>12. \A near \in S : Beyond(steps, near) \in S
  BY DEF Beyond
<1> DEFINE P == {n \in Nat : n <= N => g[n] \in S}
<1>13. 0 \in P
  BY <1>9
<1>14. ASSUME NEW n \in Nat, n \in P PROVE n + 1 \in P
  <2> SUFFICES ASSUME n + 1 <= N PROVE g[n + 1] \in S
    OBVIOUS
  <2>1. n + 1 \in 1..N /\ n + 1 - 1 = n /\ n <= N
    BY <1>1
  <2>2. g[n] \in S
    BY <1>14, <2>1
  <2> QED BY <1>11, <1>12, <2>1, <2>2
<1> HIDE DEF P
<1>15. \A n \in 0..N : g[n] \in S
  <2>1. \A n \in Nat : n \in P
    BY <1>13, <1>14, Induction
  <2> QED BY <1>1, <2>1 DEF P
<1>16. g \in [0..N -> S]
  BY <1>6, <1>15
<1> QED BY <1>7, <1>9, <1>11, <1>16 DEF N, Walks

\* What can be reached holds where one starts, is a part of whatever does and
\* is closed under the steps, and is closed under the steps itself.
LEMMA ReachOK ==
  ASSUME NEW steps \in SUBSET (Node \X Node), NEW start \in SUBSET Node
  PROVE  /\ start \subseteq Reach(steps, start) /\ Reach(steps, start) \subseteq Node
         /\ \A T : start \subseteq T /\ (\A s \in steps : s[1] \in T => s[2] \in T) => Reach(steps, start) \subseteq T
         /\ \A s \in steps : s[1] \in Reach(steps, start) => s[2] \in Reach(steps, start)
<1> DEFINE N == Cardinality(Node)
<1>1. N \in Nat /\ IsFiniteSet(Node)
  BY NodesFinite
<1>0. PICK within : Walks(within, steps, start)
  BY ReachOneByOne
<1>2. /\ within \in [0..N -> SUBSET Node] /\ Reach(steps, start) = within[N] /\ within[0] = start
      /\ \A n \in 1..N : within[n] = within[n - 1] \cup Beyond(steps, within[n - 1])
  BY <1>0 DEF Walks
<1> HIDE DEF N
<1>3. \A n \in Nat : n + 1 <= N => n + 1 \in 1..N /\ n \in 0..N /\ n + 1 - 1 = n
  BY <1>1
<1>4. \A n \in Nat : n + 1 <= N => within[n + 1] = within[n] \cup Beyond(steps, within[n])
  BY <1>2, <1>3
<1>5. \A n \in Nat : n <= N => start \subseteq within[n]
  <2> DEFINE P == {n \in Nat : n <= N => start \subseteq within[n]}
  <2>1. 0 \in P
    BY <1>2
  <2>2. \A n \in Nat : n \in P => n + 1 \in P
    BY <1>1, <1>4
  <2> HIDE DEF P
  <2>3. \A n \in Nat : n \in P
    BY <2>1, <2>2, Induction
  <2> QED BY <2>3 DEF P
<1>6. ASSUME NEW T, start \subseteq T, \A s \in steps : s[1] \in T => s[2] \in T
      PROVE  Reach(steps, start) \subseteq T
  <2> DEFINE P == {n \in Nat : n <= N => within[n] \subseteq T}
  <2>1. 0 \in P
    BY <1>2, <1>6
  <2>2. ASSUME NEW n \in Nat, n \in P PROVE n + 1 \in P
    <3> SUFFICES ASSUME n + 1 <= N PROVE within[n + 1] \subseteq T
      OBVIOUS
    <3>1. within[n] \subseteq T
      BY <1>1, <2>2
    <3>2. Beyond(steps, within[n]) \subseteq T
      BY <1>6, <3>1 DEF Beyond
    <3> QED BY <1>4, <3>1, <3>2
  <2> HIDE DEF P
  <2>3. \A n \in Nat : n \in P
    BY <2>1, <2>2, Induction
  <2> QED BY <1>1, <1>2, <2>3 DEF P
<1>7. \A n \in 0..N : within[n] \in SUBSET Node
  BY <1>2
<1>8. Beyond(steps, within[N]) \subseteq within[N]
  <2> DEFINE P == {n \in Nat : n <= N => n <= Cardinality(within[n]) \/ Beyond(steps, within[n]) \subseteq within[n]}
  <2>0. \A n \in 0..N : IsFiniteSet(within[n]) /\ Cardinality(within[n]) \in Nat
    BY <1>1, <1>7, FS_Subset, FS_CardinalityType
  <2>1. 0 \in P
    <3>1. 0 \in 0..N
      BY <1>1
    <3> QED BY <2>0, <3>1
  <2>2. ASSUME NEW n \in Nat, n \in P PROVE n + 1 \in P
    <3> SUFFICES ASSUME n + 1 <= N
                 PROVE  n + 1 <= Cardinality(within[n + 1]) \/ Beyond(steps, within[n + 1]) \subseteq within[n + 1]
      OBVIOUS
    <3>0. n \in 0..N /\ n + 1 \in 0..N
      BY <1>1
    <3>1. within[n + 1] = within[n] \cup Beyond(steps, within[n])
      BY <1>4
    <3>2. CASE Beyond(steps, within[n]) \subseteq within[n]
      <4>1. within[n + 1] = within[n]
        BY <3>1, <3>2
      <4> QED BY <3>2, <4>1
    <3>3. CASE ~(Beyond(steps, within[n]) \subseteq within[n])
      <4>1. n <= Cardinality(within[n])
        BY <2>2, <3>0, <3>3
      <4>2. within[n] \subseteq within[n + 1] /\ within[n] # within[n + 1]
        BY <3>1, <3>3
      <4>3. Cardinality(within[n]) < Cardinality(within[n + 1])
        <5>1. Cardinality(within[n]) <= Cardinality(within[n + 1])
          BY <2>0, <3>0, <4>2, FS_Subset
        <5>2. Cardinality(within[n]) # Cardinality(within[n + 1])
          BY <2>0, <3>0, <4>2, FS_Subset
        <5> QED BY <2>0, <3>0, <5>1, <5>2
      <4> QED BY <2>0, <3>0, <4>1, <4>3
    <3> QED BY <3>2, <3>3
  <2> HIDE DEF P
  <2>3. N \in P
    BY <1>1, <2>1, <2>2, Induction
  <2>4. N \in 0..N
    BY <1>1
  <2>5. CASE N <= Cardinality(within[N])
    <3>1. within[N] \subseteq Node
      BY <1>7, <2>4
    <3>2. Cardinality(within[N]) = N
      BY <1>1, <2>0, <2>4, <2>5, <3>1, FS_Subset DEF N
    <3>3. within[N] = Node
      BY <1>1, <3>1, <3>2, FS_Subset DEF N
    <3> QED BY <3>3 DEF Beyond
  <2> QED BY <1>1, <2>3, <2>5 DEF P
<1>9. N \in 0..N
  BY <1>1
<1>10. \A s \in steps : s[1] \in within[N] => s[2] \in within[N]
  BY <1>8 DEF Beyond
<1> QED BY <1>1, <1>2, <1>5, <1>6, <1>7, <1>9, <1>10

-----------------------------------------------------------------------------
(* The routines of a file *)

\* Min is the least element.
LEMMA MinIs ==
  ASSUME NEW T, T \subseteq Nat, T # {}
  PROVE  Min(T) \in T /\ \A y \in T : Min(T) <= y
<1>1. \E x \in T : \A y \in T : x <= y
  BY Least
<1> QED BY <1>1 DEF Min

LastLine(object) == IF object = {} THEN 0 ELSE Max(object) - 1

\* An object ends inside its file.
LEMMA ObjectEnds ==
  ASSUME NEW s \in Seq(Line)
  PROVE  LastLine(ObjectSpan(s)) \in 0..Len(s)
<1> DEFINE open == Where(s, {"head"})
           close == {i \in Where(s, {"close"}) : open # {} /\ i > Min(open)}
<1>1. Len(s) \in Nat /\ DOMAIN s = 1..Len(s)
  OBVIOUS
<1>2. CASE open = {} \/ close = {}
  BY <1>1, <1>2 DEF ObjectSpan, LastLine
<1>3. CASE open # {} /\ close # {}
  <2>1. open \subseteq 1..Len(s) /\ close \subseteq 1..Len(s)
    BY <1>1 DEF Where
  <2>2. Min(open) \in 1..Len(s)
    BY <1>3, <2>1, MinIs
  <2>3. Min(close) \in close
    <3>1. close \subseteq Nat /\ close # {}
      BY <1>3, <2>1
    <3> HIDE DEF close
    <3> QED BY <3>1, MinIs
  <2>4. Min(close) \in 1..Len(s) /\ Min(open) < Min(close)
    BY <2>1, <2>2, <2>3
  <2>5. ObjectSpan(s) = Min(open)..Min(close)
    BY <1>3 DEF ObjectSpan
  <2> DEFINE a == Min(open)
             b == Min(close)
  <2>6. a \in Nat /\ b \in Nat /\ a < b /\ b >= 1 /\ b <= Len(s)
    BY <1>1, <2>2, <2>4
  <2> HIDE DEF a, b, open, close
  <2>7. b \in a..b /\ \A y \in a..b : b >= y
    BY <2>6
  <2>8. \A x \in a..b : (\A y \in a..b : x >= y) => x = b
    BY <2>6
  <2>9. Max(a..b) = b
    BY <2>7, <2>8 DEF Max
  <2>10. ObjectSpan(s) = a..b /\ a..b # {}
    BY <2>5, <2>7 DEF a, b
  <2> QED BY <1>1, <2>6, <2>9, <2>10 DEF LastLine
<1> QED BY <1>2, <1>3

\* the spans of the declarations of a file
Spans(s, last) == UNION {SpanAt(s, i, last) : i \in Where(s, Starts)}

\* The members of a file have the spans of its declarations.
LEMMA MembersAre ==
  ASSUME NEW s \in Seq(Line)
  PROVE  Declarations(s, ObjectSpan(s)).members \subseteq Spans(s, LastLine(ObjectSpan(s)))
<1> DEFINE object == ObjectSpan(s)
           last == LastLine(object)
           S == SUBSET Spans(s, last)
           More(n, found) == IF n \in object /\ s[n].kind \in Starts /\ \A m \in found : m.last < n
                             THEN found \cup SpanAt(s, n, last) ELSE found
           F == [n \in 1..last |-> [found \in S |-> More(n, found)]]
           Rule(f) == f = [n \in 0..last |-> IF n = 0 THEN {} ELSE More(n, f[n - 1])]
<1>1. last \in 0..Len(s) /\ Len(s) \in Nat /\ DOMAIN s = 1..Len(s)
  BY ObjectEnds
<1> HIDE DEF last
<1>2. ASSUME NEW n \in 1..last, NEW found \in S PROVE More(n, found) \in S
  <2>1. n \in DOMAIN s
    BY <1>1
  <2>2. s[n].kind \in Starts => SpanAt(s, n, last) \subseteq Spans(s, last)
    BY <2>1 DEF Spans, Where
  <2> QED BY <2>2
<1>3. F \in [1..last -> [S -> S]]
  <2> HIDE DEF S, More
  <2>1. \A n \in 1..last, found \in S : More(n, found) \in S
    BY <1>2
  <2> QED BY <2>1
<1> HIDE DEF More
<1>4. PICK f : Told(f, last, S, {}, F)
  <2>1. {} \in S
    OBVIOUS
  <2> HIDE DEF F, S
  <2>2. last \in Nat
    BY <1>1
  <2> QED BY <1>3, <2>1, <2>2, StepByStep
<1>5. Rule(f)
  <2>1. \A n \in 0..last : n # 0 => n - 1 \in 0..last /\ n \in 1..last
    BY <1>1
  <2>0. f \in [0..last -> S] /\ f[0] = {} /\ \A n \in 1..last : f[n] = F[n][f[n - 1]]
    <3> HIDE DEF F, S
    <3> QED BY <1>4 DEF Told
  <2> HIDE DEF S
  <2>2. \A n \in 0..last : n # 0 => f[n - 1] \in S
    BY <2>0, <2>1
  <2>3. \A n \in 0..last : f[n] = IF n = 0 THEN {} ELSE More(n, f[n - 1])
    BY <2>0, <2>1, <2>2
  <2> HIDE DEF F
  <2> QED BY <2>0, <2>3
<1> DEFINE g == CHOOSE g : Rule(g)
<1>6. Rule(g)
  <2> HIDE DEF Rule
  <2> QED BY <1>5
<1>7. Declarations(s, object).members = g[last]
  BY DEF Declarations, last, LastLine, More
<1> HIDE DEF g
<1>8. \A n \in 0..last : g[n] = IF n = 0 THEN {} ELSE More(n, g[n - 1])
  BY <1>6
<1> HIDE DEF Rule
<1>9. g[0] = {}
  <2>1. 0 \in 0..last
    BY <1>1
  <2> QED BY <1>8, <2>1
<1> DEFINE P == {n \in Nat : n <= last => g[n] \in S}
<1>10. 0 \in P
  BY <1>9
<1>11. ASSUME NEW n \in Nat, n \in P PROVE n + 1 \in P
  <2> SUFFICES ASSUME n + 1 <= last PROVE g[n + 1] \in S
    OBVIOUS
  <2>1. n + 1 \in 1..last /\ n + 1 \in 0..last /\ n + 1 # 0 /\ n + 1 - 1 = n /\ n <= last
    BY <1>1
  <2>2. g[n] \in S
    BY <1>11, <2>1
  <2>3. g[n + 1] = More(n + 1, g[n])
    BY <1>8, <2>1
  <2> HIDE DEF S
  <2> QED BY <1>2, <2>1, <2>2, <2>3
<1> HIDE DEF P
<1>12. \A n \in Nat : n \in P
  BY <1>10, <1>11, Induction
<1>13. g[last] \in S
  BY <1>1, <1>12 DEF P
<1> QED BY <1>7, <1>13 DEF last

\* A span is that of its declaration and of no other.
LEMMA SpanHolds ==
  ASSUME NEW s, NEW f, Grammatical(s, f), NEW i \in Where(s, Starts), NEW last \in 0..Len(s), NEW m \in SpanAt(s, i, last)
  PROVE  /\ m.of = s[i].of /\ m.kind = s[i].kind /\ m.first \in Nat \ {0} /\ m.last \in Nat /\ i \in m.first..m.last
         /\ \A j \in Where(s, Starts) : j \in m.first..m.last => j = i
<1> DEFINE next == {j \in (i + 1)..last : s[j].kind \in Starts \cup {"begin"}}
           b == IF next = {} THEN 0 ELSE Min(next)
           e == IF b = 0 \/ s[b].kind # "begin" THEN 0 ELSE ProcedureEnd(s, b, last)
           above == {k \in 1..(i - 1) : s[k].kind = "attr" /\ \A j \in k..(i - 1) : s[j].kind \in {"attr", "blank", "text"}}
           first == IF above = {} THEN i ELSE Min(above)
<1>1. Len(s) \in Nat /\ DOMAIN s = 1..Len(s) /\ i \in 1..Len(s) /\ last \in Nat /\ last <= Len(s)
  BY DEF Grammatical, Where
<1>2. e # 0 /\ m = [of |-> s[i].of, kind |-> s[i].kind, at |-> i, first |-> first, last |-> e]
  BY DEF SpanAt, DeclarationStart
<1>3. /\ first \in 1..i
      /\ \A j \in first..(i - 1) : s[j].kind \notin Starts
  <2>1. above \subseteq 1..(i - 1) /\ above \subseteq Nat
    BY <1>1
  <2>2. CASE above = {}
    BY <1>1, <2>2
  <2>3. CASE above # {}
    <3>1. Min(above) \in above
      BY <2>1, <2>3, MinIs
    <3>2. first \in above
      BY <2>3, <3>1
    <3>3. first \in 1..(i - 1) /\ \A j \in first..(i - 1) : s[j].kind \in {"attr", "blank", "text"}
      BY <3>2
    <3> HIDE DEF first
    <3> QED BY <1>1, <3>3 DEF Starts
  <2> QED BY <2>2, <2>3
<1>4. /\ next # {} /\ b \in next /\ s[b].kind = "begin" /\ e = ProcedureEnd(s, b, last)
      /\ \A j \in (i + 1)..(b - 1) : s[j].kind \notin Starts
  <2>1. next \subseteq (i + 1)..last /\ next \subseteq Nat
    BY <1>1
  <2>2. next # {} /\ s[b].kind = "begin" /\ e = ProcedureEnd(s, b, last)
    BY <1>2
  <2>3. b \in next /\ \A y \in next : b <= y
    BY <2>1, <2>2, MinIs
  <2>4. ASSUME NEW j \in (i + 1)..(b - 1), s[j].kind \in Starts PROVE FALSE
    <3>1. b \in (i + 1)..last
      BY <2>1, <2>3
    <3> HIDE DEF b
    <3>2. j \in (i + 1)..last /\ j < b
      BY <1>1, <2>4, <3>1
    <3>3. j \in next
      BY <2>4, <3>2
    <3>4. b <= j
      BY <2>3, <3>3
    <3> QED BY <1>1, <3>1, <3>2, <3>4
  <2> QED BY <2>2, <2>3, <2>4
<1>5. b \in (i + 1)..last /\ b \in Where(s, {"begin"})
  BY <1>1, <1>4 DEF Where
<1> HIDE DEF next, b, e, above, first
<1> DEFINE depth(k) == Cardinality({j \in b..k : s[j].kind = "begin"}) - Cardinality({j \in b..k : s[j].kind = "end"})
           ends(n) == {k \in b..n : depth(k) = 0}
<1>6. \A n : ProcedureEnd(s, b, n) = IF ends(n) = {} THEN 0 ELSE Min(ends(n))
  BY DEF ProcedureEnd
<1> HIDE DEF depth
<1>7. ends(last) # {} /\ e = Min(ends(last))
  BY <1>2, <1>4, <1>6
<1>8. ends(last) \subseteq b..last /\ ends(last) \subseteq ends(Len(s)) /\ ends(Len(s)) \subseteq Nat /\ ends(last) \subseteq Nat
  BY <1>1, <1>5
<1>9. e \in ends(last) /\ \A y \in ends(last) : e <= y
  BY <1>7, <1>8, MinIs
<1>10. e \in b..last
  BY <1>8, <1>9
<1>11. ProcedureEnd(s, b, Len(s)) \in Nat /\ e <= ProcedureEnd(s, b, Len(s))
  <2> DEFINE z == ProcedureEnd(s, b, Len(s))
  <2>1. ends(Len(s)) # {}
    BY <1>7, <1>8
  <2>2. z \in ends(Len(s))
    BY <1>6, <1>8, <2>1, MinIs
  <2>3. z \in b..Len(s) /\ depth(z) = 0
    BY <2>2
  <2> HIDE DEF z
  <2>4. CASE z <= last
    <3>1. z \in b..last
      BY <1>1, <1>5, <2>3, <2>4
    <3>2. z \in ends(last)
      BY <2>3, <3>1
    <3> QED BY <1>1, <1>5, <1>9, <2>3, <3>2 DEF z
  <2>5. CASE ~(z <= last)
    BY <1>1, <1>5, <1>10, <2>3, <2>5 DEF z
  <2> QED BY <2>4, <2>5
<1> HIDE DEF ends
<1>12. m.of = s[i].of /\ m.kind = s[i].kind /\ m.first = first /\ m.last = e
  BY <1>2
<1>13. i < b /\ b <= e /\ first <= i /\ first \in Nat \ {0} /\ e \in Nat /\ b \in Nat /\ i \in Nat
  BY <1>1, <1>3, <1>5, <1>10
<1>14. ASSUME NEW j \in Where(s, Starts), j \in first..e PROVE j = i
  <2>1. s[j].kind \in Starts /\ j \in Nat
    BY <1>1 DEF Where
  <2>2. ~(j < i)
    BY <1>3, <1>13, <1>14, <2>1
  <2>3. ~(i < j /\ j < b)
    BY <1>4, <1>13, <2>1
  <2>4. j # b
    BY <1>4, <2>1 DEF Starts
  <2>5. ~(b < j)
    <3>1. b < j => ProcedureEnd(s, b, Len(s)) < j
      BY <1>5 DEF Grammatical
    <3> QED BY <1>11, <1>13, <1>14, <2>1, <3>1
  <2> QED BY <1>13, <2>1, <2>2, <2>3, <2>4, <2>5
<1> QED BY <1>12, <1>13, <1>14

-----------------------------------------------------------------------------
(* The routines of a tree *)

\* the line of a declaration of r
DeclaredAt(t, r, i) ==
  LET s == Compiled(t, FileOf[r]) IN i \in Where(s, Starts) /\ s[i].of = r

\* A routine has one line, or none.
LEMMA LineIs ==
  ASSUME NEW t \in Tree, NEW r \in Routine
  PROVE  /\ Lines[t][r] \in Nat
         /\ Lines[t][r] # 0 => DeclaredAt(t, r, Lines[t][r])
         /\ \A i : DeclaredAt(t, r, i) => i = Lines[t][r] /\ i # 0
<1> DEFINE s == Compiled(t, FileOf[r])
           starts == {i \in Where(s, Starts) : s[i].of = r}
<1>1. FileOf[r] \in File
  BY ImpactAssumption
<1>2. Grammatical(s, FileOf[r])
  BY <1>1, ImpactAssumption
<1>3. s \in Seq(Line) /\ \A i, j \in Where(s, Starts) : s[i].of = s[j].of => i = j
  BY <1>2 DEF Grammatical
<1> HIDE DEF s
<1>4. Where(s, Starts) \subseteq Nat \ {0}
  BY <1>3 DEF Where
<1>5. starts \subseteq Nat \ {0} /\ \A i, j \in starts : i = j
  BY <1>3, <1>4
<1>6. Lines[t][r] = IF starts = {} THEN 0 ELSE Min(starts)
  BY DEF Lines, s
<1>7. \A i : DeclaredAt(t, r, i) <=> i \in starts
  BY DEF DeclaredAt, s
<1> HIDE DEF starts
<1>8. starts # {} => Min(starts) \in starts
  <2>1. starts \subseteq Nat
    BY <1>5
  <2> QED BY <2>1, MinIs
<1>9. CASE starts = {}
  BY <1>6, <1>7, <1>9
<1>10. CASE starts # {}
  <2>1. Lines[t][r] \in starts
    BY <1>6, <1>8, <1>10
  <2>2. DeclaredAt(t, r, Lines[t][r])
    BY <1>7, <2>1
  <2>3. \A i : DeclaredAt(t, r, i) => i = Lines[t][r] /\ i # 0
    BY <1>5, <1>7, <2>1
  <2> QED BY <1>5, <2>1, <2>2, <2>3
<1> QED BY <1>9, <1>10

\* What discovery says of a routine is true of it.
Sound(t, item) ==
  /\ item.of \in Routine /\ FileOf[item.of] = item.file
  /\ Lines[t][item.of] # 0 /\ Lines[t][item.of] \in item.first..item.last /\ item.first \in Nat \ {0} /\ item.last \in Nat
  /\ \A r \in Routine : FileOf[r] = item.file /\ Lines[t][r] # 0 /\ Lines[t][r] \in item.first..item.last => r = item.of
  /\ item.kind \in Starts /\ (item.kind = "trigger" <=> item.of \in Trigger)
  /\ item.identified => item.kind = "proc"

\* Each member of what discovery says of some files.
LEMMA DiscoverySound ==
  ASSUME NEW t \in Tree, NEW files, files \subseteq File, NEW item \in Discover(t, files).members
  PROVE  Sound(t, item) /\ item.file \in files
<1>0. PICK f \in files :
        \E m \in Parsed[t][f].members :
          item = [of |-> m.of, kind |-> m.kind, first |-> m.first, last |-> m.last, file |-> f,
                  identified |-> m.kind = "proc" /\ m.of \in program.identified]
  BY DEF Discover, Joined
<1>1. PICK m \in Parsed[t][f].members :
        item = [of |-> m.of, kind |-> m.kind, first |-> m.first, last |-> m.last, file |-> f,
                identified |-> m.kind = "proc" /\ m.of \in program.identified]
  BY <1>0
<1> DEFINE s == Compiled(t, f)
<1>2. m \in Declarations(s, ObjectSpan(s)).members
  <2>1. Parsed[t][f] = IF f \in Edits[t].deleted THEN Missing ELSE Discovered(Source(t, f))
    BY DEF Parsed
  <2>2. Parsed[t][f] = Discovered(Source(t, f))
    BY <2>1 DEF Missing
  <2> QED BY <2>2 DEF Discovered, Compiled
<1>3. Grammatical(s, f)
  BY ImpactAssumption
<1>4. s \in Seq(Line)
  BY <1>3 DEF Grammatical
<1> HIDE DEF s
<1> DEFINE last == LastLine(ObjectSpan(s))
<1>5. last \in 0..Len(s) /\ m \in Spans(s, last)
  BY <1>2, <1>4, ObjectEnds, MembersAre
<1> HIDE DEF last
<1>6. PICK i \in Where(s, Starts) : m \in SpanAt(s, i, last)
  BY <1>5 DEF Spans
<1>7. /\ m.of = s[i].of /\ m.kind = s[i].kind /\ m.first \in Nat \ {0} /\ m.last \in Nat /\ i \in m.first..m.last
      /\ \A j \in Where(s, Starts) : j \in m.first..m.last => j = i
  BY <1>3, <1>5, <1>6, SpanHolds
<1>8. m.of \in Routine /\ FileOf[m.of] = f /\ (m.kind = "trigger" <=> m.of \in Trigger)
  BY <1>3, <1>7 DEF Grammatical
<1>13. m.kind \in Starts
  BY <1>7 DEF Where
<1>9. DeclaredAt(t, m.of, i)
  BY <1>7, <1>8 DEF DeclaredAt, s
<1>10. i = Lines[t][m.of] /\ i # 0
  BY <1>8, <1>9, LineIs
<1>11. ASSUME NEW r \in Routine, FileOf[r] = f, Lines[t][r] # 0, Lines[t][r] \in m.first..m.last
       PROVE  r = m.of
  <2>1. DeclaredAt(t, r, Lines[t][r])
    BY <1>11, LineIs
  <2>2. Lines[t][r] \in Where(s, Starts) /\ s[Lines[t][r]].of = r
    BY <1>11, <2>1 DEF DeclaredAt, s
  <2> QED BY <1>7, <1>11, <2>2
<1>12. item.of = m.of /\ item.kind = m.kind /\ item.first = m.first /\ item.last = m.last /\ item.file = f
       /\ (item.identified => m.kind = "proc")
  BY <1>1
<1> HIDE DEF s
<1> QED BY <1>7, <1>8, <1>10, <1>11, <1>12, <1>13 DEF Sound

\* what is known of an entry of the project's tests
Entry(t, x) ==
  x.of \in Test /\ x.file = FileOf[x.of] /\ Lines[t][x.of] # 0 /\ (Sound(t, x) \/ (x.first = 1 /\ x.last = 0 /\ ~x.identified))

\* Every test that is declared is listed.
LEMMA TestsListed ==
  ASSUME NEW t \in Tree
  PROVE  (\A x \in TestsOf(t) : Entry(t, x)) /\ (\A x \in Test : Lines[t][x] # 0 => \E y \in TestsOf(t) : y.of = x)
<1> DEFINE found == {m \in Discover(t, TestFiles).members : m.of \in Test}
           there == {x \in Test : Lines[t][x] > 0}
           blank(x) == [of |-> x, kind |-> "proc", first |-> 1, last |-> 0, file |-> FileOf[x], identified |-> FALSE]
<1>1. TestsOf(t) = {m \in found : m.of \in there} \cup {blank(x) : x \in there \ {m.of : m \in found}}
  BY DEF TestsOf, Listed
<1>2. TestFiles \subseteq File /\ Test \subseteq Routine
  BY ImpactAssumption, SelectionAssumption DEF TestFiles
<1>3. \A m \in found : Sound(t, m) /\ m.of \in Test
  BY <1>2, DiscoverySound
<1>4. \A x \in Test : Lines[t][x] \in Nat
  BY <1>2, LineIs
<1>5. \A x \in there : x \in Test /\ Lines[t][x] # 0
  BY <1>4
<1>6. \A x \in Test : Lines[t][x] # 0 => x \in there
  BY <1>4
<1> HIDE DEF found, there
<1>7. \A x \in there : Entry(t, blank(x)) /\ blank(x).of = x
  BY <1>5 DEF Entry
<1>8. \A m \in found : Entry(t, m)
  BY <1>3 DEF Entry, Sound
<1> HIDE DEF blank
<1>9. ASSUME NEW x \in there PROVE \E y \in TestsOf(t) : y.of = x
  <2>1. CASE \E m \in found : m.of = x
    BY <1>1, <2>1
  <2>2. CASE ~ \E m \in found : m.of = x
    BY <1>1, <1>7, <2>2
  <2> QED BY <2>1, <2>2
<1> QED BY <1>1, <1>6, <1>7, <1>8, <1>9

-----------------------------------------------------------------------------
(* What a graph shows *)

\* the calls an engine writes down
Legible(engine, c) ==
  IF engine = "al-sem" THEN c.how # "hidden" /\ FileOf[c.from] \notin program.recovered
  ELSE c.how \in {"direct", "event"} /\ {c.from, c.to} \cap Trigger = {}

\* a call shows in a set of edges: as one, through a hub, or as a call of anything
ShownIn(edges, engine, c) ==
  \E e \in edges :
    /\ e.caller = c.from
    /\ \/ e.callee = c.to
       \/ engine = "al-sem" /\ e.callee = Universal
       \/ engine = "al-sem" /\ \E d \in edges : d.caller = e.callee /\ d.callee = c.to

\* g has the declared routines the engine knows, a way for every call it writes down, and the hidden callees
Shows(engine, g, t) ==
  /\ g.engine = engine /\ \A e \in g.edges : e.caller \in Node /\ e.callee \in Node
  /\ \A r \in Routine : Lines[t][r] # 0 /\ (engine = "al-sem" \/ r \notin Trigger) =>
       [id |-> r, file |-> FileOf[r], line |-> Lines[t][r]] \in Locals(g)
  /\ \A c \in CallsIn(t) : Legible(engine, c) => ShownIn(g.edges, engine, c)
  /\ engine = "al-sem" =>
       /\ g.recovered = program.recovered /\ HubOf(g) = {Universal}
       /\ \A c \in CallsIn(t) : c.how = "hidden" => c.to \in g.hidden

\* The calls of a tree are calls of its routines.
LEMMA CallsAre ==
  ASSUME program \in Program, NEW t
  PROVE  CallsIn(t) \subseteq Call /\ \A c \in CallsIn(t) : Exists(t, c.from)
BY DEF CallsIn, Program

\* what al-sem writes of a call, read
Edge(a, b, k, conf) == [caller |-> a, callee |-> b, kind |-> k, confidence |-> conf]
Read(e) == [e EXCEPT !.confidence = IF @ \in Confidences THEN @ ELSE "Open"]

\* The rows of a call are edges between nodes, and al-sem's show every call that is not hidden.
LEMMA RowsAre ==
  ASSUME NEW c \in Call
  PROVE  /\ \A e \in Rows(c) : Read(e).caller = e.caller /\ Read(e).callee = e.callee /\ e.caller \in Node /\ e.callee \in Node
         /\ c.how # "hidden" => ShownIn(Rows(c), "al-sem", c)
         /\ c.how \in {"direct", "event"} => ShownIn(Rows(c), "altool", c) /\ \A e \in Rows(c) : e.kind \in EdgeKinds
<1>1. c.from \in Routine /\ c.to \in Routine /\ c.how \in Hows
  BY DEF Call
<1>2. c.from \in Node /\ c.to \in Node /\ Platform \subseteq Node /\ Universal \in Node
  BY <1>1 DEF Node
<1>3. PICK h : h \in Platform
  BY SelectionAssumption
<1>4. \A a, b, k, conf : /\ Edge(a, b, k, conf).caller = a /\ Edge(a, b, k, conf).callee = b /\ Edge(a, b, k, conf).kind = k
                         /\ Read(Edge(a, b, k, conf)).caller = a /\ Read(Edge(a, b, k, conf)).callee = b
  BY DEF Edge, Read
<1> DEFINE one(k, conf) == {Edge(c.from, c.to, k, conf)}
<1>5. /\ c.how = "direct" => Rows(c) = one("Direct", "Resolved")
      /\ c.how = "event" => Rows(c) = one("Event", "OverApprox")
      /\ c.how = "run" => Rows(c) = one("Run", "Resolved")
      /\ c.how = "newer" => Rows(c) = one("Newer", "Resolved")
      /\ c.how = "odd" => Rows(c) = one("Direct", "Guess")
      /\ c.how = "hub" => Rows(c) = {Edge(c.from, x, "Direct", "Open") : x \in Platform} \cup {Edge(x, c.to, "Direct", "Open") : x \in Platform}
      /\ c.how = "any" => Rows(c) = {Edge(c.from, Universal, "Direct", "Open")}
      /\ c.how = "hidden" => Rows(c) = {}
  BY <1>1 DEF Rows, Edge, Hows
<1>6. CASE c.how \in {"direct", "event", "run", "newer", "odd"}
  <2>1. PICK k, conf : Rows(c) = one(k, conf) /\ (c.how \in {"direct", "event"} => k \in EdgeKinds)
    BY <1>5, <1>6 DEF EdgeKinds
  <2>2. ShownIn(Rows(c), "al-sem", c) /\ ShownIn(Rows(c), "altool", c)
    BY <1>4, <2>1 DEF ShownIn
  <2> QED BY <1>2, <1>4, <1>6, <2>1, <2>2
<1>7. CASE c.how = "hub"
  <2>1. /\ Edge(c.from, h, "Direct", "Open") \in Rows(c) /\ Edge(h, c.to, "Direct", "Open") \in Rows(c)
    BY <1>3, <1>5, <1>7
  <2>2. \A e \in Rows(c) : (\E x \in Platform : e = Edge(c.from, x, "Direct", "Open")) \/ (\E x \in Platform : e = Edge(x, c.to, "Direct", "Open"))
    BY <1>5, <1>7
  <2>3. \A e \in Rows(c) : Read(e).caller = e.caller /\ Read(e).callee = e.callee /\ e.caller \in Node /\ e.callee \in Node
    BY <1>2, <1>4, <2>2
  <2>4. ShownIn(Rows(c), "al-sem", c)
    BY <1>4, <2>1 DEF ShownIn
  <2> QED BY <1>7, <2>3, <2>4
<1>8. CASE c.how = "any"
  <2>1. ShownIn(Rows(c), "al-sem", c)
    BY <1>4, <1>5, <1>8 DEF ShownIn
  <2> QED BY <1>2, <1>4, <1>5, <1>8, <2>1
<1>9. CASE c.how = "hidden"
  BY <1>5, <1>9
<1> QED BY <1>1, <1>6, <1>7, <1>8, <1>9 DEF Hows

\* al-sem's graph of a tree, as it is read.
LEMMA AlSemShows ==
  ASSUME program \in Program, NEW t \in Tree
  PROVE  Shows("al-sem", Graph("al-sem", t), t)
<1> DEFINE calls == CallsIn(t)
           line == Lines[t]
           shown == {c \in calls : FileOf[c.from] \notin program.recovered}
           called == {c.to : c \in {x \in calls : x.how = "hidden"}}
           routines == {r \in Routine : line[r] > 0}
           nodes == {[id |-> r, file |-> FileOf[r], line |-> line[r]] : r \in routines}
                      \cup {[id |-> h, file |-> None, line |-> 0] : h \in Platform \cup {Universal}}
           edges == UNION {Rows(c) : c \in shown}
           out == Output("al-sem", calls, line)
           g == Graph("al-sem", t)
<1>1. /\ out.meta /\ out.recovered = program.recovered /\ out.nodes = nodes /\ out.edges = edges
      /\ out.hidden = [n \in Node |-> IF n \in called THEN "unreadable" ELSE None]
  BY DEF Output
<1>2. /\ g.engine = "al-sem" /\ g.recovered = out.recovered /\ g.nodes = out.nodes
      /\ g.hidden = {n \in Node : out.hidden[n] # None} /\ g.edges = {Read(e) : e \in out.edges}
  BY <1>1 DEF Graph, Parse, ParseAlSem, Read
<1>3. calls \subseteq Call
  BY CallsAre
<1> HIDE DEF calls, line, out, g
<1>4. HubOf(g) = {Universal}
  <2>1. [id |-> Universal, file |-> None, line |-> 0] \in nodes
    OBVIOUS
  <2> HIDE DEF nodes
  <2> QED BY <1>1, <1>2, <2>1 DEF HubOf
<1>5. \A e \in g.edges : e.caller \in Node /\ e.callee \in Node
  <2> SUFFICES ASSUME NEW c \in shown, NEW e \in Rows(c) PROVE Read(e).caller \in Node /\ Read(e).callee \in Node
    BY <1>1, <1>2
  <2>1. c \in Call
    BY <1>3
  <2> QED BY <2>1, RowsAre
<1>6. ASSUME NEW r \in Routine, line[r] # 0 PROVE [id |-> r, file |-> FileOf[r], line |-> line[r]] \in Locals(g)
  <2>1. line[r] > 0
    BY <1>6, LineIs DEF line
  <2>2. [id |-> r, file |-> FileOf[r], line |-> line[r]] \in nodes
    BY <2>1
  <2> HIDE DEF nodes
  <2> QED BY <1>1, <1>2, <2>2 DEF Locals
<1>7. ASSUME NEW c \in calls, c.how = "hidden" PROVE c.to \in g.hidden
  <2>1. c.to \in Node /\ c.to \in called
    BY <1>3, <1>7 DEF Call, Node
  <2> QED BY <1>1, <1>2, <2>1 DEF None
<1>8. ASSUME NEW c \in calls, Legible("al-sem", c) PROVE ShownIn(g.edges, "al-sem", c)
  <2>1. c \in Call /\ c \in shown /\ c.how # "hidden"
    BY <1>3, <1>8 DEF Legible
  <2>2. \A e \in Rows(c) : Read(e) \in g.edges /\ Read(e).caller = e.caller /\ Read(e).callee = e.callee
    BY <1>1, <1>2, <2>1, RowsAre
  <2>3. ShownIn(Rows(c), "al-sem", c)
    BY <2>1, RowsAre
  <2> QED BY <2>2, <2>3 DEF ShownIn
<1> QED BY <1>1, <1>2, <1>4, <1>5, <1>6, <1>7, <1>8 DEF Shows, calls, line, g

\* altool's graph of a tree, as it is read: it has no triggers and shows direct calls and events.
LEMMA AltoolShows ==
  ASSUME program \in Program, NEW t \in Tree
  PROVE  Shows("altool", Graph("altool", t), t)
<1> DEFINE calls == CallsIn(t)
           line == Lines[t]
           shown == {c \in calls : c.how \in {"direct", "event"} /\ {c.from, c.to} \cap Trigger = {}}
           routines == {r \in Routine : r \notin Trigger /\ line[r] > 0}
           nodes == {[id |-> r, file |-> FileOf[r], line |-> line[r]] : r \in routines}
           edges == UNION {Rows(c) : c \in shown}
           out == Output("altool", calls, line)
           g == Graph("altool", t)
<1>1. nodes \subseteq out.nodes /\ out.edges = edges
  BY DEF Output
<1>3. calls \subseteq Call
  BY CallsAre
<1>4. \A c \in shown : c \in Call /\ c.how \in {"direct", "event"}
  BY <1>3
<1>5. \A e \in edges : e.kind \in EdgeKinds /\ e.caller \in Node /\ e.callee \in Node
  <2> SUFFICES ASSUME NEW c \in shown, NEW e \in Rows(c) PROVE e.kind \in EdgeKinds /\ e.caller \in Node /\ e.callee \in Node
    OBVIOUS
  <2> HIDE DEF shown
  <2> QED BY <1>4, RowsAre
<1> HIDE DEF calls, line, out
<1>2. g.engine = "altool" /\ g.nodes = out.nodes /\ g.edges = out.edges
  <2>1. ParseAltool(out) = [engine |-> "altool", nodes |-> out.nodes, recovered |-> {}, hidden |-> {}, edges |-> out.edges]
    BY <1>1, <1>5 DEF ParseAltool
  <2>2. g = ParseAltool(out)
    BY DEF Graph, Parse, out, calls, line
  <2> HIDE DEF g
  <2> QED BY <2>1, <2>2
<1> HIDE DEF g
<1>6. ASSUME NEW r \in Routine, line[r] # 0, r \notin Trigger PROVE [id |-> r, file |-> FileOf[r], line |-> line[r]] \in Locals(g)
  <2>1. line[r] > 0
    BY <1>6, LineIs DEF line
  <2>2. [id |-> r, file |-> FileOf[r], line |-> line[r]] \in nodes
    BY <1>6, <2>1
  <2> HIDE DEF nodes
  <2> QED BY <1>1, <1>2, <2>2 DEF Locals
<1>8. ASSUME NEW c \in calls, Legible("altool", c) PROVE ShownIn(g.edges, "altool", c)
  <2>1. c \in shown
    BY <1>8 DEF Legible
  <2>2. Rows(c) \subseteq g.edges
    BY <1>1, <1>2, <2>1
  <2>3. ShownIn(Rows(c), "altool", c)
    BY <1>4, <2>1, RowsAre
  <2> QED BY <2>2, <2>3 DEF ShownIn
<1> QED BY <1>1, <1>2, <1>5, <1>6, <1>8 DEF Shows, calls, line, g

\* A routine that is declared is among the nodes its entry is joined to.
LEMMA NodeOfSelf ==
  ASSUME NEW t \in Tree, NEW engine, NEW g, Shows(engine, g, t), engine \in {"al-sem", "altool"},
         NEW item, item.of \in Routine, item.file = FileOf[item.of], Lines[t][item.of] # 0,
         engine = "al-sem" \/ item.of \notin Trigger,
         Sound(t, item) \/ (item.first = 1 /\ item.last = 0)
  PROVE  item.of \in NodesOf(g, item)
<1> DEFINE n == [id |-> item.of, file |-> FileOf[item.of], line |-> Lines[t][item.of]]
           located == {x \in Locals(g) : SameName(x, item) /\ x.line \in item.first..item.last}
           byId == {x \in Locals(g) : item.identified /\ x.id = item.of}
           named == {x \in Locals(g) : SameName(x, item)}
<1>1. n \in Locals(g) /\ SameName(n, item) /\ n.id = item.of
  BY DEF Shows, SameName
<1>2. Sound(t, item) => n \in located
  BY <1>1 DEF Sound
<1>3. item.first = 1 /\ item.last = 0 => located = {}
  OBVIOUS
<1>4. engine = "al-sem" => NodesOf(g, item) = {x.id : x \in IF located # {} THEN located ELSE named}
  BY DEF NodesOf, AlSemNodes, Shows
<1>5. engine = "altool" => NodesOf(g, item) = {x.id : x \in IF byId # {} THEN byId ELSE named}
  BY DEF NodesOf, AltoolNodes, Shows
<1>6. n \in named /\ \A x \in byId : x.id = item.of
  BY <1>1
<1> HIDE DEF n, located, byId, named
<1> QED BY <1>1, <1>2, <1>3, <1>4, <1>5, <1>6

\* The callers of some routines are closed under the graph's edges, backwards.
LEMMA ConeOK ==
  ASSUME NEW t \in Tree, NEW engine, NEW g, Shows(engine, g, t), NEW targets \in SUBSET Routine
  PROVE  LET all == ReverseReachable(g, targets).all IN
         /\ targets \subseteq all
         /\ \A e \in g.edges : e.callee \in all => e.caller \in all
         /\ engine = "al-sem" /\ all # {} => Universal \in all
<1> DEFINE hub == HubOf(g)
           steps == {<<e.callee, e.caller>> : e \in g.edges} \cup (Node \X hub)
           all == ReverseReachable(g, targets).all
<1>1. all = Reach(steps, targets)
  BY DEF ReverseReachable, Cone, Shows
<1>2. Universal \in Node /\ targets \in SUBSET Node /\ hub \subseteq {Universal}
  BY DEF Node, HubOf
<1> HIDE DEF hub
<1>3. steps \in SUBSET (Node \X Node)
  BY <1>2 DEF Shows
<1>4. \A e \in g.edges : <<e.callee, e.caller>> \in steps
  OBVIOUS
<1>5. engine = "al-sem" => \A n \in Node : <<n, Universal>> \in steps
  BY DEF Shows, hub
<1> HIDE DEF steps, all
<1>6. /\ targets \subseteq all /\ all \subseteq Node
      /\ \A s \in steps : s[1] \in all => s[2] \in all
  BY <1>1, <1>2, <1>3, ReachOK
<1>7. \A e \in g.edges : e.callee \in all => e.caller \in all
  BY <1>4, <1>6
<1>8. engine = "al-sem" /\ all # {} => Universal \in all
  BY <1>5, <1>6
<1> QED BY <1>6, <1>7, <1>8 DEF all

\* A test runs what its calls lead to, and nothing that they do not.
LEMMA RunsOK ==
  ASSUME NEW calls, calls \subseteq Call, NEW x \in Routine
  PROVE  /\ x \in Runs(calls, x)
         /\ \A T : x \in T /\ (\A c \in calls : c.from \in T => c.to \in T) => Runs(calls, x) \subseteq T
<1> DEFINE steps == {<<c.from, c.to>> : c \in calls}
<1>1. steps \in SUBSET (Node \X Node) /\ {x} \in SUBSET Node
  BY DEF Call, Node
<1>2. \A T : (\A c \in calls : c.from \in T => c.to \in T) => \A s \in steps : s[1] \in T => s[2] \in T
  OBVIOUS
<1> HIDE DEF steps
<1>3. /\ {x} \subseteq Reach(steps, {x})
      /\ \A T : {x} \subseteq T /\ (\A s \in steps : s[1] \in T => s[2] \in T) => Reach(steps, {x}) \subseteq T
  BY <1>1, ReachOK
<1>4. Runs(calls, x) = Reach(steps, {x})
  BY DEF Runs, steps
<1> QED BY <1>2, <1>3, <1>4

\* The risk a routine is ranked by is its own.
LEMMA RiskIsItsOwn ==
  ASSUME NEW t \in Tree, NEW item, Sound(t, item)
  PROVE  FindRisk(Digest(t), item) \in {None, program.effects[item.of]}
<1> DEFINE entry == [id |-> item.of, file |-> FileOf[item.of], line |-> Lines[t][item.of], risk |-> program.effects[item.of]]
           inSpan == {e \in Digest(t) : SameName(e, item) /\ e.line \in item.first..item.last}
<1>1. ASSUME NEW e \in inSpan PROVE e = entry
  <2>1. PICK r \in Routine : e = [id |-> r, file |-> FileOf[r], line |-> Lines[t][r], risk |-> program.effects[r]]
    BY DEF Digest
  <2>2. FileOf[r] = item.file /\ Lines[t][r] \in item.first..item.last
    BY <2>1 DEF SameName
  <2>3. Lines[t][r] # 0
    BY <2>2 DEF Sound
  <2>4. r = item.of
    BY <2>2, <2>3 DEF Sound
  <2> QED BY <2>1, <2>4
<1>2. CASE inSpan = {}
  BY <1>2 DEF FindRisk
<1>3. CASE inSpan # {}
  <2>1. entry \in inSpan /\ \A x \in inSpan : x = entry
    BY <1>1, <1>3
  <2>2. entry.line \in Nat /\ entry.risk = program.effects[item.of]
    BY LineIs DEF Sound
  <2>3. FindRisk(Digest(t), item) = (CHOOSE e \in inSpan : \A x \in inSpan : e.line <= x.line).risk
    BY <1>3 DEF FindRisk
  <2> HIDE DEF entry, inSpan
  <2>4. entry.line <= entry.line
    BY <2>2
  <2>5. (CHOOSE e \in inSpan : \A x \in inSpan : e.line <= x.line) \in inSpan
    BY <2>1, <2>4
  <2> QED BY <2>1, <2>2, <2>3, <2>5
<1> QED BY <1>2, <1>3

\* in is what an engine and a diff of the tree give the selection
Asked(engine, in, t) ==
  /\ in.lines = GitLines[t] /\ in.tests = TestsOf(t) /\ in.found = Found(t)
  /\ engine \in {"al-sem", "altool"} /\ Shows(engine, in.graph, t)

\* What discovery found in the changed files is true of the tree it read.
LEMMA FoundSound ==
  ASSUME NEW d, NEW t \in Tree
  PROVE  /\ \A item \in FoundOf(d, t).members : Sound(t, item)
         /\ \A item \in Found(t).members : Sound(t, item)
<1>1. \A b : {f \in File : GitLines[b][f] # {}} \subseteq File
  OBVIOUS
<1>2. \A b : \A item \in FoundOf(b, t).members : Sound(t, item)
  BY <1>1, DiscoverySound DEF FoundOf
<1> QED BY <1>2 DEF Found

\* a call that the engine writes down, or that al-sem knows to be hidden
Known(engine, t, c) ==
  \/ Legible(engine, c)
  \/ engine = "al-sem" /\ c.how # "hidden" /\ GitLines[t][FileOf[c.from]] # {}
  \/ engine = "al-sem" /\ c.how = "hidden"

\* the entries of a test are not among those that reach a changed routine
Unreached(in, item, x) == \A r \in Finding(in, item).reached : r[1].of # x

\* A test that no path of the graph leads from to a changed routine does not run it.
LEMMA OutOfReach ==
  ASSUME program \in Program, NEW t \in Tree, NEW engine, NEW in, Asked(engine, in, t), ~Fallback(in, Findings(in)),
         NEW item \in Changed(in), OwnTest(in, item) = {}, NEW x \in Test, Unreached(in, item, x),
         NEW calls, calls \subseteq CallsIn(t), \A c \in calls : Known(engine, t, c),
         History(in, item) = {} \/ \A c \in calls : c.how # "hidden"
  PROVE  item.of \notin Runs(calls, x)
<1> DEFINE g == Finding(in, item)
           nodes == NodesOf(in.graph, item)
           cone == ReverseReachable(in.graph, nodes)
           A == cone.all
           met(y) == {<<y, Reason(cone, n)>> : n \in NodesOf(in.graph, y) \cap A}
<1>1. item \in in.found.members /\ g \in Findings(in)
  BY DEF Findings, Changed
<1>2. /\ g.hiddenUnresolved = ((in.graph.engine = "al-sem" /\ A \cap in.graph.hidden # {}) /\ History(in, item) = {})
      /\ g.reached = UNION {met(y) : y \in in.tests}
  BY DEF Finding
<1>3. ~g.hiddenUnresolved
  BY <1>1 DEF Fallback
<1> HIDE DEF g
<1>4. Sound(t, item)
  BY <1>1, FoundSound DEF Asked
<1>5. engine = "al-sem" \/ item.of \notin Trigger
  BY <1>4 DEF Changed, Asked, Shows, Sound
<1>6. item.of \in nodes
  BY <1>4, <1>5, NodeOfSelf DEF Asked, Sound
<1>7. nodes \in SUBSET Routine
  BY DEF NodesOf, AlSemNodes, AltoolNodes, Locals
<1> HIDE DEF nodes
<1>8. /\ nodes \subseteq A
      /\ \A e \in in.graph.edges : e.callee \in A => e.caller \in A
      /\ engine = "al-sem" /\ A # {} => Universal \in A
  BY <1>7, ConeOK DEF Asked
<1> HIDE DEF A, cone
<1>9. item.of \in A /\ (engine = "al-sem" => Universal \in A)
  BY <1>6, <1>8
<1>10. \A y \in in.tests : y.of = x => NodesOf(in.graph, y) \cap A = {}
  <2> SUFFICES ASSUME NEW y \in in.tests, y.of = x, NEW n \in NodesOf(in.graph, y) \cap A PROVE FALSE
    OBVIOUS
  <2>1. <<y, Reason(cone, n)>> \in met(y)
    OBVIOUS
  <2> HIDE DEF met
  <2>2. <<y, Reason(cone, n)>> \in g.reached
    BY <1>2, <2>1
  <2> QED BY <2>2 DEF Unreached, g
<1> HIDE DEF met
<1>11. calls \subseteq Call
  BY CallsAre
<1>12. engine = "al-sem" => \A f \in program.recovered : GitLines[t][f] = {}
  BY DEF Fallback, Asked, Shows
<1>13. ASSUME NEW c \in calls, c.to \in A PROVE c.from \in A
  <2>1. c \in CallsIn(t) /\ Known(engine, t, c)
    OBVIOUS
  <2>2. ~(engine = "al-sem" /\ c.how = "hidden")
    <3> SUFFICES ASSUME engine = "al-sem", c.how = "hidden" PROVE FALSE
      OBVIOUS
    <3>1. c.to \in in.graph.hidden /\ in.graph.engine = "al-sem"
      BY <2>1 DEF Asked, Shows
    <3>2. History(in, item) = {}
      OBVIOUS
    <3> QED BY <1>2, <1>3, <1>13, <3>1, <3>2
  <2>3. Legible(engine, c)
    BY <1>12, <2>1, <2>2 DEF Known, Legible
  <2>4. ShownIn(in.graph.edges, engine, c)
    BY <2>1, <2>3 DEF Asked, Shows
  <2>5. PICK e \in in.graph.edges :
          /\ e.caller = c.from
          /\ \/ e.callee = c.to
             \/ engine = "al-sem" /\ e.callee = Universal
             \/ engine = "al-sem" /\ \E d \in in.graph.edges : d.caller = e.callee /\ d.callee = c.to
    BY <2>4 DEF ShownIn
  <2>6. e.callee \in A
    BY <1>8, <1>9, <1>13, <2>5
  <2> QED BY <1>8, <2>5, <2>6
<1>14. x \in Routine /\ x \notin Trigger
  BY SelectionAssumption
<1>15. CASE Lines[t][x] # 0
  <2>1. PICK y \in in.tests : y.of = x
    BY <1>15, TestsListed DEF Asked
  <2>2. Entry(t, y)
    BY <2>1, TestsListed DEF Asked
  <2>3. x \in NodesOf(in.graph, y)
    BY <1>14, <2>1, <2>2, NodeOfSelf DEF Entry, Asked
  <2>4. x \notin A
    BY <1>10, <2>1, <2>3
  <2> DEFINE B == Routine \ A
  <2>5. x \in B /\ \A c \in calls : c.from \in B => c.to \in B
    BY <1>11, <1>13, <1>14, <2>4 DEF Call
  <2>6. item.of \notin B
    BY <1>9
  <2> HIDE DEF B
  <2>7. Runs(calls, x) \subseteq B
    BY <1>11, <1>14, <2>5, RunsOK
  <2> QED BY <2>6, <2>7
<1>16. CASE Lines[t][x] = 0
  <2>1. ~ Exists(t, x)
    BY <1>14, <1>16, ImpactAssumption
  <2>2. \A c \in calls : c.from # x
    BY <2>1, CallsAre
  <2>3. Runs(calls, x) \subseteq {x}
    BY <1>11, <1>14, <2>2, RunsOK
  <2>4. item.of # x
    BY <1>4, <1>16 DEF Sound
  <2> QED BY <2>3, <2>4
<1> QED BY <1>15, <1>16


-----------------------------------------------------------------------------
(* The answers of bcdev_test_select *)

\* UncoverableProved and LocatedTestsKept of an answer a, and of the coverage map it was given
ProvedUncoverable(a) ==
  \A u \in a.uncoverable :
    /\ u.risk \in {None, program.effects[u.of]}
    /\ a.engine = "al-sem" /\ ~a.all => \A x \in Test : u.of \notin Runs(Hinted("al-sem", CallsIn(tree)), x)
Located == {m.of : m \in {x \in Found(tree).members : ChangedIn([lines |-> GitLines[tree]], x)}}
NamesTest(a, r) == r \notin Trigger /\ \E x \in a.known : FileOf[x] = FileOf[r] /\ NameOf[x] = NameOf[r]
Kept(a, known) ==
  ~a.all =>
    /\ Located \cap Test \subseteq a.tests
    /\ \A x \in Test \ a.tests : \A r \in Located \cap Runs(Hinted(a.engine, CallsIn(tree)), x) :
         \/ r \in (IF a.history THEN UNION {e.procedures : e \in known.tests} ELSE {}) \ Runs(Shown(a.engine, CallsIn(tree)), x)
         \/ NamesTest(a, r)

\* The two are the properties, of an answer whose reads saw one tree.
LEMMA ClaimsAre ==
  (UncoverableProved <=> (Coherent => ProvedUncoverable(pick))) /\ (LocatedTestsKept <=> (Coherent => Kept(pick, map)))
BY DEF UncoverableProved, ProvedUncoverable, LocatedTestsKept, Kept, Located, NamesTest, StandsForTest, Mapped

\* Calls that are shown or hinted at are known to the engine.
LEMMA HintedKnown ==
  ASSUME NEW engine \in {"al-sem", "altool"}
  PROVE  /\ Shown(engine, CallsIn(tree)) \subseteq Hinted(engine, CallsIn(tree)) /\ Hinted(engine, CallsIn(tree)) \subseteq CallsIn(tree)
         /\ \A c \in Hinted(engine, CallsIn(tree)) : Known(engine, tree, c)
         /\ \A c \in Shown(engine, CallsIn(tree)) : c.how # "hidden"
BY DEF Shown, Hinted, Known, Legible

\* what is asked of the selection
Question(seen, engine, known, size) == [InputOf(seen, engine) EXCEPT !.map = known, !.size = size]

\* When the reads saw one tree, it is what the engine and the diff of that tree give, where
\* discovery found something to ask about.
LEMMA AskedOf ==
  ASSUME program \in Program, tree \in Tree, NEW seen, \A i \in 1..4 : seen[i] = tree,
         NEW engine \in {"al-sem", "altool"}, NEW known, NEW size
  PROVE  LET in == Question(seen, engine, known, size) IN
         /\ in.found = Found(tree) /\ in.map = known
         /\ Found(tree).members # {} => Asked(engine, in, tree)
<1> DEFINE in == Question(seen, engine, known, size)
<1>0. seen[1] = tree /\ seen[2] = tree /\ seen[3] = tree /\ seen[4] = tree
  OBVIOUS
<1>1. /\ in.lines = GitLines[tree] /\ in.tests = TestsOf(tree) /\ in.found = Found(tree) /\ in.map = known
      /\ in.graph = Graph(IF Found(tree).members = {} THEN "none" ELSE engine, tree)
  BY <1>0 DEF Question, InputOf, Found
<1> HIDE DEF in
<1>2. Shows("al-sem", Graph("al-sem", tree), tree) /\ Shows("altool", Graph("altool", tree), tree)
  BY AlSemShows, AltoolShows
<1>3. Found(tree).members # {} => Asked(engine, in, tree)
  BY <1>1, <1>2 DEF Asked
<1> QED BY <1>1, <1>3 DEF in

\* the fields of an answer
AnswerIs(a, in, history) ==
  /\ a.engine = in.graph.engine /\ a.all = Fallback(in, Findings(in)) /\ a.history = history
  /\ a.tests = {n[1].of : n \in OwnNotes(in) \cup Notes(Findings(in))}
  /\ a.uncoverable = AnnotateRisk(Digest(tree), Uncoverable(Findings(in)))
  /\ a.known = {x.of : x \in in.tests}

\* Every answer is an error or has the fields of its selection.
LEMMA AnswerOf ==
  ASSUME NEW in, NEW history
  PROVE  LET a == Selected(in, history) IN
           a.phase = "failed" \/ (a.phase = "answered" /\ a.seen = pick.seen /\ AnswerIs(a, in, history))
<1> DEFINE s == Selection(in)
<1>1. /\ s.engine = in.graph.engine /\ s.all = Fallback(in, Findings(in)) /\ s.uncoverable = Uncoverable(Findings(in))
      /\ s.tests = {n[1].of : n \in OwnNotes(in) \cup Notes(Findings(in))}
  BY DEF Selection, SelectionOf, Planned
<1> HIDE DEF s
<1>2. Selected(in, history) = Answered(in, s, history)
  BY DEF Selected, s
<1> QED BY <1>1, <1>2 DEF Answered, AnswerIs

\* What the selection calls uncoverable is.
LEMMA UncoverableSound ==
  ASSUME program \in Program, tree \in Tree, NEW engine \in {"al-sem", "altool"}, NEW in,
         in.found = Found(tree), Found(tree).members # {} => Asked(engine, in, tree),
         NEW a, NEW history, AnswerIs(a, in, history)
  PROVE  ProvedUncoverable(a)
<1> SUFFICES ASSUME NEW u \in a.uncoverable
             PROVE  /\ u.risk \in {None, program.effects[u.of]}
                    /\ a.engine = "al-sem" /\ ~a.all => \A x \in Test : u.of \notin Runs(Hinted("al-sem", CallsIn(tree)), x)
  BY DEF ProvedUncoverable
<1>1. PICK item \in Uncoverable(Findings(in)) : u = [of |-> item.of, risk |-> FindRisk(Digest(tree), item)]
  BY DEF AnswerIs, AnnotateRisk
<1>2. PICK g \in Findings(in) : g.item = item /\ g.reached = {} /\ g.history = {}
  BY DEF Uncoverable
<1>3. item \in Changed(in) /\ OwnTest(in, item) = {} /\ g = Finding(in, item)
  BY <1>2 DEF Findings, Finding
<1>4. item \in Found(tree).members
  BY <1>3 DEF Changed
<1>5. u.risk \in {None, program.effects[u.of]}
  <2>1. Sound(tree, item)
    BY <1>4, FoundSound
  <2> QED BY <1>1, <2>1, RiskIsItsOwn
<1>6. ASSUME a.engine = "al-sem", ~a.all, NEW x \in Test PROVE u.of \notin Runs(Hinted("al-sem", CallsIn(tree)), x)
  <2>1. Asked(engine, in, tree) /\ engine = "al-sem"
    BY <1>4, <1>6 DEF AnswerIs, Asked, Shows
  <2>2. ~Fallback(in, Findings(in))
    BY <1>6 DEF AnswerIs
  <2>3. Unreached(in, item, x) /\ History(in, item) = {}
    BY <1>2, <1>3 DEF Unreached, Finding
  <2> DEFINE calls == Hinted("al-sem", CallsIn(tree))
  <2>4. calls \subseteq CallsIn(tree) /\ \A c \in calls : Known(engine, tree, c)
    BY <2>1, HintedKnown
  <2> HIDE DEF calls
  <2>5. item.of \notin Runs(calls, x)
    BY <1>3, <2>1, <2>2, <2>3, <2>4, OutOfReach
  <2> QED BY <1>1, <2>5 DEF calls
<1> QED BY <1>5, <1>6

\* What the selection drops does not run what discovery found changed.
LEMMA SelectionKeeps ==
  ASSUME program \in Program, tree \in Tree, NEW engine \in {"al-sem", "altool"}, NEW in, NEW history \in BOOLEAN, NEW known,
         in.found = Found(tree), Found(tree).members # {} => Asked(engine, in, tree), in.map = IF history THEN known ELSE NoMap,
         NEW a, AnswerIs(a, in, history)
  PROVE  Kept(a, known)
<1> SUFFICES ASSUME ~a.all
             PROVE  /\ Located \cap Test \subseteq a.tests
                    /\ \A x \in Test \ a.tests : \A r \in Located \cap Runs(Hinted(a.engine, CallsIn(tree)), x) :
                         \/ r \in (IF a.history THEN UNION {e.procedures : e \in known.tests} ELSE {}) \ Runs(Shown(a.engine, CallsIn(tree)), x)
                         \/ NamesTest(a, r)
  BY DEF Kept
<1>1. ~Fallback(in, Findings(in)) /\ a.history = history
  BY DEF AnswerIs
<1>2. \A n \in OwnNotes(in) \cup Notes(Findings(in)) : n[1].of \in a.tests
  BY DEF AnswerIs
<1>3. ASSUME NEW r \in Located
      PROVE  /\ Asked(engine, in, tree) /\ a.engine = engine
             /\ \E m \in Changed(in) : m.of = r /\ Sound(tree, m)
  <2>1. PICK m \in Found(tree).members : m.of = r /\ ChangedIn([lines |-> GitLines[tree]], m)
    BY <1>3 DEF Located
  <2>2. Asked(engine, in, tree) /\ in.graph.engine = engine
    BY <2>1 DEF Asked, Shows
  <2>3. Sound(tree, m)
    BY <2>1, FoundSound
  <2>4. ChangedIn(in, m)
    BY <2>1, <2>2 DEF ChangedIn, Asked
  <2>5. m.kind = "proc" \/ engine = "al-sem"
    BY <1>1, <2>1, <2>2, <2>3, <2>4 DEF Fallback, Sound, Starts
  <2>6. m \in Changed(in)
    BY <2>1, <2>2, <2>4, <2>5 DEF Changed
  <2> QED BY <2>1, <2>2, <2>3, <2>6 DEF AnswerIs
<1>4. ASSUME NEW r \in Located \cap Test PROVE r \in a.tests
  <2>1. PICK m \in Changed(in) : m.of = r /\ Sound(tree, m)
    BY <1>3
  <2>2. Asked(engine, in, tree)
    BY <1>3
  <2>3. m.kind = "proc" /\ m.file = FileOf[r] /\ Lines[tree][r] # 0
    BY <2>1, SelectionAssumption DEF Sound, Starts
  <2>4. PICK y \in in.tests : y.of = r
    BY <2>2, <2>3, TestsListed DEF Asked
  <2>5. y.file = FileOf[r]
    BY <2>2, <2>4, TestsListed DEF Asked, Entry
  <2>6. y \in OwnTest(in, m)
    BY <2>1, <2>3, <2>4, <2>5 DEF OwnTest
  <2> DEFINE reason(e) == IF e.identified /\ \E q \in in.map.tests : q.test = e.of THEN "direct" ELSE "new-test"
             notes(item) == {<<e, reason(e), item.of>> : e \in OwnTest(in, item)}
  <2>7. OwnNotes(in) = UNION {notes(item) : item \in Changed(in)}
    BY DEF OwnNotes
  <2>8. <<y, reason(y), m.of>> \in notes(m)
    BY <2>6
  <2> HIDE DEF reason, notes
  <2>9. <<y, reason(y), m.of>> \in OwnNotes(in)
    BY <2>1, <2>7, <2>8
  <2> QED BY <1>2, <2>4, <2>9
<1>5. ASSUME NEW x \in Test \ a.tests, NEW r \in Located \cap Runs(Hinted(a.engine, CallsIn(tree)), x), ~NamesTest(a, r)
      PROVE  r \in (IF a.history THEN UNION {e.procedures : e \in known.tests} ELSE {}) \ Runs(Shown(a.engine, CallsIn(tree)), x)
  <2>1. PICK m \in Changed(in) : m.of = r /\ Sound(tree, m)
    BY <1>3
  <2>2. Asked(engine, in, tree) /\ a.engine = engine
    BY <1>3
  <2>3. OwnTest(in, m) = {}
    <3>0. a.known = {y.of : y \in in.tests}
      BY DEF AnswerIs
    <3> SUFFICES ASSUME NEW y \in OwnTest(in, m) PROVE FALSE
      OBVIOUS
    <3>1. y \in in.tests /\ y.file = m.file /\ NameOf[y.of] = NameOf[m.of] /\ m.kind = "proc"
      BY DEF OwnTest
    <3>2. y.of \in a.known /\ y.file = FileOf[y.of]
      BY <2>2, <3>0, <3>1, TestsListed DEF Asked, Entry
    <3>3. r \notin Trigger
      BY <2>1, <3>1 DEF Sound
    <3> QED BY <1>5, <2>1, <3>1, <3>2, <3>3 DEF NamesTest, Sound
  <2> DEFINE g == Finding(in, m)
  <2>4. g \in Findings(in)
    BY <2>1, <2>3 DEF Findings
  <2>5. Unreached(in, m, x)
    <3> SUFFICES ASSUME NEW w \in g.reached, w[1].of = x PROVE FALSE
      BY DEF Unreached
    <3> HIDE DEF g
    <3>1. <<w[1], w[2], g.item.of>> \in Notes(Findings(in))
      BY <2>4 DEF Notes
    <3> QED BY <1>2, <3>1
  <2> HIDE DEF g
  <2> DEFINE shown == Shown(engine, CallsIn(tree))
             hinted == Hinted(engine, CallsIn(tree))
  <2>6. /\ shown \subseteq CallsIn(tree) /\ hinted \subseteq CallsIn(tree)
        /\ \A c \in shown : Known(engine, tree, c) /\ c.how # "hidden"
        /\ \A c \in hinted : Known(engine, tree, c)
    BY HintedKnown
  <2> HIDE DEF shown, hinted
  <2>7. r \in Runs(hinted, x) /\ x \in Test
    BY <2>2 DEF hinted
  <2>8. r \notin Runs(shown, x)
    BY <1>1, <2>1, <2>2, <2>3, <2>5, <2>6, <2>7, OutOfReach
  <2>9. History(in, m) # {}
    <3> SUFFICES ASSUME History(in, m) = {} PROVE FALSE
      OBVIOUS
    <3>1. r \notin Runs(hinted, x)
      BY <1>1, <2>1, <2>2, <2>3, <2>5, <2>6, <2>7, OutOfReach
    <3> QED BY <2>7, <3>1
  <2>10. PICK e \in in.map.tests : m.of \in e.procedures
    BY <2>9 DEF History
  <2>11. history /\ e \in known.tests
    BY <2>10 DEF NoMap
  <2> QED BY <1>1, <2>1, <2>2, <2>8, <2>10, <2>11 DEF shown
<1> QED BY <1>4, <1>5


-----------------------------------------------------------------------------
(* The answers of bcdev_test_run *)

\* the coverage that the tests of `paid` leave on the code of tree c
Left(c, paid) == Covered(CallsIn(c), paid)

\* What a test reaches is what it runs, but for triggers and for itself.
LEMMA ReachedBy ==
  ASSUME program \in Program, NEW c \in Tree, NEW paid \in SUBSET Test, NEW r \in Routine \ Trigger
  PROVE  /\ CoveredBy(Left(c, paid), r) = {x \in paid : r \in Runs(CallsIn(c), x)}
         /\ r \notin Test =>
              {e.test : e \in {e \in Left(c, paid) : r \in e.procedures}} = {x \in paid : r \in Runs(CallsIn(c), x)}
<1> DEFINE calls == CallsIn(c)
           left == Left(c, paid)
           entry(x) == [test |-> x, procedures |-> Runs(calls, x) \ (Trigger \cup {x})]
<1>1. left = {entry(x) : x \in paid}
  BY DEF Left, Covered
<1>2. \A x \in paid : x \in Routine /\ x \in Test
  BY SelectionAssumption
<1>3. calls \subseteq Call
  BY CallsAre
<1> HIDE DEF calls, left
<1>4. \A x \in paid : x \in Runs(calls, x)
  BY <1>2, <1>3, RunsOK
<1>5. \A x : entry(x).test = x /\ (r \in entry(x).procedures <=> r \in Runs(calls, x) /\ r # x)
  OBVIOUS
<1> HIDE DEF entry
<1>6. CoveredBy(left, r) = {x \in paid : r \in Runs(calls, x)}
  BY <1>1, <1>4, <1>5 DEF CoveredBy
<1>7. r \notin Test => {e.test : e \in {e \in left : r \in e.procedures}} = {x \in paid : r \in Runs(calls, x)}
  BY <1>1, <1>2, <1>5
<1> QED BY <1>6, <1>7 DEF calls, left

\* a run that has finished, as FinishRun sees it
Evidence(coverage, r, done, paid, aborted) ==
  /\ paid \subseteq done /\ done \subseteq run.tests /\ (aborted \/ done = run.tests)
  /\ coverage = Left(run.code, paid)
  /\ r = [coverage |-> coverage, aborted |-> aborted, complete |-> paid = done, deployed |-> run.deployed]

\* A run under way: deployed is what the caller asserts, and it is so of the tree first read.
RunOK ==
  \/ run = NoRun
  \/ /\ run \in [phase : {"preparing", "running", "done"}, tests : SUBSET Test, deployed : BOOLEAN, seen : Seq(Tree), code : Tree]
     /\ (run.phase = "preparing" => Len(run.seen) \in 1..2) /\ (run.phase # "preparing" => Len(run.seen) = 3)
     /\ (run.deployed => run.code = run.seen[1])

\* The statuses a run gives are true.
LEMMA StatusSound ==
  ASSUME program \in Program, RunOK, run # NoRun, NEW coverage, NEW r, NEW done, NEW paid, NEW aborted \in BOOLEAN,
         Evidence(coverage, r, done, paid, aborted), NEW t \in Tree, NEW item, item.kind = "proc", Sound(t, item)
  PROVE  /\ Status(item, r) \in {"covered", "uncovered", "unknown"}
         /\ Status(item, r) = "covered" => item.of \in Executed
         /\ Status(item, r) = "uncovered" => item.of \notin Executed /\ run.code = run.seen[1]
<1>1. item.of \in Routine \ Trigger
  BY DEF Sound
<1>2. paid \in SUBSET Test /\ paid \subseteq run.tests /\ run.code \in Tree
  BY DEF Evidence, RunOK
<1> DEFINE reached == {x \in paid : item.of \in Runs(CallsIn(run.code), x)}
<1>3. CoveredBy(coverage, item.of) = reached
  BY <1>1, <1>2, ReachedBy DEF Evidence
<1>4. /\ r.deployed = run.deployed /\ r.aborted = aborted /\ r.coverage = coverage /\ r.complete = (paid = done)
  BY DEF Evidence
<1>5. Executed = UNION {Runs(CallsIn(run.code), x) : x \in run.tests}
  BY DEF Executed
<1>6. reached # {} => item.of \in Executed
  BY <1>2, <1>5
<1>7. paid = run.tests /\ reached = {} => item.of \notin Executed
  BY <1>5
<1> HIDE DEF reached
<1>8. Status(item, r) \in {"covered", "uncovered", "unknown"}
  BY DEF Status
<1>9. Status(item, r) = "covered" => reached # {}
  BY <1>3, <1>4 DEF Status
<1>10. Status(item, r) = "uncovered" => run.deployed /\ reached = {} /\ ~aborted /\ paid = done
  <2>1. r.deployed \in BOOLEAN /\ r.aborted \in BOOLEAN /\ r.complete \in BOOLEAN
    BY <1>4 DEF RunOK
  <2> QED BY <1>3, <1>4, <2>1 DEF Status
<1>11. ~aborted => done = run.tests
  BY DEF Evidence
<1> QED BY <1>6, <1>7, <1>8, <1>9, <1>10, <1>11 DEF RunOK

\* A report counts the tests that reached a routine.
LEMMA RowsExact ==
  ASSUME program \in Program, RunOK, run # NoRun, NEW coverage, NEW r, NEW done, NEW paid, NEW aborted \in BOOLEAN,
         Evidence(coverage, r, done, paid, aborted), ~aborted, r.complete,
         NEW t \in Tree, NEW files, files \subseteq File, NEW row \in Cobertura(coverage, Discover(t, files).members, TestFiles)
  PROVE  row.hits = Cardinality({x \in run.tests : row.of \in Runs(CallsIn(run.code), x)})
<1>1. PICK item \in Discover(t, files).members :
        /\ item.kind = "proc" /\ item.file \notin TestFiles
        /\ row = [of |-> item.of, hits |-> Cardinality({e.test : e \in {x \in coverage : item.of \in x.procedures}})]
  BY DEF Cobertura
<1>2. run.code \in Tree
  BY DEF RunOK
<1>3. Sound(t, item)
  BY DiscoverySound
<1>4. item.of \in Routine \ Trigger /\ item.of \notin Test
  BY <1>1, <1>3 DEF Sound, Starts, TestFiles
<1>5. paid = run.tests /\ paid \in SUBSET Test
  BY DEF Evidence, RunOK
<1>6. {e.test : e \in {x \in coverage : item.of \in x.procedures}} = {x \in run.tests : item.of \in Runs(CallsIn(run.code), x)}
  BY <1>2, <1>4, <1>5, ReachedBy DEF Evidence
<1> QED BY <1>1, <1>6

\* what a coverage map knows
MapOK(m) == \A e \in m.tests : e.test \in Test /\ e.procedures \subseteq Routine \ Trigger

\* The map of a run names tests, and the procedures they ran.
LEMMA MapSound ==
  ASSUME program \in Program, NEW c \in Tree, NEW paid \in SUBSET Test, NEW named, NEW complete
  PROVE  MapOK(BuildMap(Left(c, paid), named, complete))
<1> DEFINE calls == CallsIn(c)
           left == Left(c, paid)
<1>1. calls \subseteq Call
  BY CallsAre
<1>2. ASSUME NEW x \in paid PROVE Runs(calls, x) \subseteq Routine
  <2>1. x \in Routine
    BY SelectionAssumption
  <2>2. \A k \in calls : k.from \in Routine => k.to \in Routine
    BY <1>1 DEF Call
  <2> HIDE DEF calls
  <2> QED BY <1>1, <2>1, <2>2, RunsOK
<1> HIDE DEF calls
<1>3. left = {[test |-> x, procedures |-> Runs(calls, x) \ (Trigger \cup {x})] : x \in paid}
  BY DEF Left, Covered, calls
<1>4. \A e \in left : e.test \in Test /\ e.procedures \subseteq Routine \ Trigger
  BY <1>2, <1>3
<1> HIDE DEF left
<1>5. BuildMap(left, named, complete).tests =
        {[test |-> x, named |-> x \in named, procedures |-> UNION {e.procedures : e \in {y \in left : y.test = x}}] : x \in {e.test : e \in left}}
  BY DEF BuildMap
<1> QED BY <1>4, <1>5 DEF MapOK, left


-----------------------------------------------------------------------------
(* The invariant *)

GapsOK ==
  gaps = NoAnswer \/
    /\ gaps.phase = "gaps" /\ run.phase = "done" /\ StatusTruthful
    /\ \A p \in gaps.procedures : p.of \notin Trigger /\ p.status \in {"covered", "uncovered", "unknown"}
ReportOK == report = NoAnswer \/ (report.phase = "report" /\ run.phase = "done" /\ ReportExact)
PickOK ==
  pick = NoAnswer \/
    /\ run.phase \in {"idle", "done"}
    /\ \/ pick.phase = "failed"
       \/ pick \in [phase : {"reading"}, seen : Seq(Tree)] /\ Len(pick.seen) \in 1..4
       \/ pick.phase = "answered" /\ (Coherent => ProvedUncoverable(pick) /\ Kept(pick, map))

ImpactInv ==
  /\ program \in Program /\ tree \in Tree /\ server \in Tree
  /\ RunOK /\ MapOK(map) /\ GapsOK /\ ReportOK /\ PickOK

\* It holds before anything was edited, run or asked.
LEMMA ImpactInit == Init => ImpactInv
<1> SUFFICES ASSUME Init PROVE ImpactInv
  OBVIOUS
<1>1. program \in Program /\ tree \in Tree /\ server \in Tree
  BY ImpactAssumption DEF Init
<1>2. MapOK(NoMap)
  BY DEF MapOK, NoMap
<1> QED BY <1>1, <1>2 DEF Init, ImpactInv, RunOK, GapsOK, ReportOK, PickOK

\* What is not touched stays true.
LEMMA GapsStay ==
  ASSUME GapsOK, gaps' = gaps, program' = program, gaps = NoAnswer \/ run' = run
  PROVE  GapsOK'
<1>1. CASE gaps = NoAnswer
  BY <1>1 DEF GapsOK
<1>2. CASE gaps # NoAnswer
  <2>1. run' = run
    BY <1>2
  <2>2. CallsIn(run.code)' = CallsIn(run.code)
    BY <2>1 DEF CallsIn
  <2>3. Executed' = Executed
    BY <2>1, <2>2 DEF Executed
  <2> QED BY <1>2, <2>1, <2>3 DEF GapsOK, StatusTruthful
<1> QED BY <1>1, <1>2

\* The same of a report.
LEMMA ReportStays ==
  ASSUME ReportOK, report' = report, program' = program, report = NoAnswer \/ run' = run
  PROVE  ReportOK'
<1>1. CASE report = NoAnswer
  BY <1>1 DEF ReportOK
<1>2. CASE report # NoAnswer
  <2>1. run' = run
    BY <1>2
  <2>2. CallsIn(run.code)' = CallsIn(run.code)
    BY <2>1 DEF CallsIn
  <2> QED BY <1>2, <2>1, <2>2 DEF ReportOK, ReportExact
<1> QED BY <1>1, <1>2

\* What an answer claims is about the program and the tree alone.
LEMMA ClaimsStay ==
  ASSUME program' = program, tree' = tree, NEW a, NEW known, pick' = a, map' = known
  PROVE  (ProvedUncoverable(pick)' <=> ProvedUncoverable(a)) /\ (Kept(pick, map)' <=> Kept(a, known))
<1>1. CallsIn(tree)' = CallsIn(tree)
  BY DEF CallsIn
<1>2. Located' = Located
  BY DEF Located, Found, FoundOf, Discover, Joined
<1>3. \A engine, calls : Shown(engine, calls)' = Shown(engine, calls) /\ Hinted(engine, calls)' = Hinted(engine, calls)
  BY DEF Shown, Hinted
<1> QED BY <1>1, <1>2, <1>3 DEF ProvedUncoverable, Kept, NamesTest

\* The same of an answer of bcdev_test_select.
LEMMA PickStays ==
  ASSUME PickOK, pick' = pick, program' = program,
         pick = NoAnswer \/ (run' = run /\ tree' = tree /\ map' = map)
  PROVE  PickOK'
<1>1. CASE pick = NoAnswer
  BY <1>1 DEF PickOK
<1>2. CASE pick # NoAnswer
  <2>1. (ProvedUncoverable(pick)' <=> ProvedUncoverable(pick)) /\ (Kept(pick, map)' <=> Kept(pick, map))
    BY <1>2, ClaimsStay
  <2>2. Coherent' <=> Coherent
    BY <1>2 DEF Coherent
  <2> QED BY <1>2, <2>1, <2>2 DEF PickOK
<1> QED BY <1>1, <1>2

\* The trees that reads saw, after the first and after another one.
LEMMA TreesSeen ==
  ASSUME NEW t \in Tree
  PROVE  /\ <<t>> \in Seq(Tree) /\ Len(<<t>>) = 1 /\ <<t>>[1] = t
         /\ \A s \in Seq(Tree) : Append(s, t) \in Seq(Tree) /\ Len(Append(s, t)) = Len(s) + 1 /\ (Len(s) >= 1 => Append(s, t)[1] = s[1])
<1>1. <<t>> \in Seq(Tree) /\ Len(<<t>>) = 1 /\ <<t>>[1] = t
  OBVIOUS
<1>2. ASSUME NEW s \in Seq(Tree)
      PROVE  Append(s, t) \in Seq(Tree) /\ Len(Append(s, t)) = Len(s) + 1 /\ (Len(s) >= 1 => Append(s, t)[1] = s[1])
  OBVIOUS
<1> QED BY <1>1, <1>2

\* A run that starts finds no answer of an earlier one.
LEMMA RunStarts ==
  ASSUME ImpactInv, StartRun
  PROVE  ImpactInv'
<1>1. PICK tests \in RunArgs :
        run' = [phase |-> "preparing", tests |-> tests, deployed |-> server = tree, seen |-> <<tree>>, code |-> server]
  BY DEF StartRun
<1>2. run = NoRun /\ pick = NoAnswer /\ UNCHANGED <<program, tree, server, map, gaps, report, pick>>
  BY DEF StartRun
<1>3. RunOK'
  <2>1. tree \in Tree /\ server \in Tree /\ tests \in SUBSET Test
    BY ImpactAssumption DEF ImpactInv
  <2> DEFINE seen == <<tree>>
  <2>2. run' = [phase |-> "preparing", tests |-> tests, deployed |-> server = tree, seen |-> seen, code |-> server]
    BY <1>1
  <2>3. seen \in Seq(Tree) /\ Len(seen) = 1 /\ seen[1] = tree
    BY <2>1, TreesSeen
  <2> HIDE DEF seen
  <2>4. run'.phase = "preparing" /\ run'.seen = seen /\ run'.code = server /\ run'.deployed = (server = tree)
    BY <2>2
  <2>5. run' \in [phase : {"preparing", "running", "done"}, tests : SUBSET Test, deployed : BOOLEAN, seen : Seq(Tree), code : Tree]
    BY <2>1, <2>2, <2>3
  <2> QED BY <2>3, <2>4, <2>5 DEF RunOK
<1>4. gaps = NoAnswer /\ report = NoAnswer
  BY <1>2 DEF ImpactInv, GapsOK, ReportOK, NoRun
<1>5. GapsOK' /\ ReportOK' /\ PickOK'
  BY <1>2, <1>4, GapsStay, ReportStays, PickStays DEF ImpactInv
<1> QED BY <1>2, <1>3, <1>5 DEF ImpactInv, MapOK

\* A run that prepares has answered nothing either.
LEMMA RunPrepares ==
  ASSUME ImpactInv, Prepare
  PROVE  ImpactInv'
<1>1. /\ run.phase = "preparing" /\ UNCHANGED <<program, tree, server, map, gaps, report, pick>>
      /\ run' = [run EXCEPT !.seen = Append(@, tree), !.phase = IF Len(run.seen) = 2 THEN "running" ELSE @]
  BY DEF Prepare
<1>2. RunOK /\ run # NoRun /\ tree \in Tree
  BY <1>1 DEF ImpactInv, NoRun
<1>3. run.seen \in Seq(Tree) /\ Len(run.seen) \in 1..2
  BY <1>1, <1>2 DEF RunOK
<1> DEFINE seen == Append(run.seen, tree)
<1>4. seen \in Seq(Tree) /\ Len(seen) = Len(run.seen) + 1 /\ seen[1] = run.seen[1]
  <2>1. \A s \in Seq(Tree) : Append(s, tree) \in Seq(Tree) /\ Len(Append(s, tree)) = Len(s) + 1 /\ (Len(s) >= 1 => Append(s, tree)[1] = s[1])
    BY <1>2, TreesSeen
  <2>2. Len(run.seen) >= 1
    BY <1>3
  <2> QED BY <1>3, <2>1, <2>2
<1>5. RunOK'
  <2>0. run \in [phase : {"preparing", "running", "done"}, tests : SUBSET Test, deployed : BOOLEAN, seen : Seq(Tree), code : Tree]
        /\ (run.deployed => run.code = run.seen[1])
    BY <1>2 DEF RunOK
  <2>1. run' = [run EXCEPT !.seen = seen, !.phase = IF Len(run.seen) = 2 THEN "running" ELSE "preparing"]
    BY <1>1, <2>0
  <2>4. seen \in Seq(Tree) /\ Len(seen) = Len(run.seen) + 1 /\ seen[1] = run.seen[1] /\ Len(run.seen) \in 1..2
    BY <1>3, <1>4
  <2> HIDE DEF seen
  <2> DEFINE next == IF Len(run.seen) = 2 THEN "running" ELSE "preparing"
  <2>2. next \in {"preparing", "running"} /\ (next = "running" <=> Len(run.seen) = 2)
    OBVIOUS
  <2>3. run' = [run EXCEPT !.seen = seen, !.phase = next]
    BY <2>1
  <2> HIDE DEF next
  <2>5. run' \in [phase : {"preparing", "running", "done"}, tests : SUBSET Test, deployed : BOOLEAN, seen : Seq(Tree), code : Tree]
    BY <2>0, <2>2, <2>3, <2>4
  <2>6. run'.phase = next /\ run'.seen = seen /\ run'.code = run.code /\ run'.deployed = run.deployed
    BY <2>0, <2>3
  <2>7. \/ Len(run.seen) = 1 /\ Len(seen) = 2
        \/ Len(run.seen) = 2 /\ Len(seen) = 3
    <3>1. \A a, b : a \in 1..2 /\ b = a + 1 => (a = 1 /\ b = 2) \/ (a = 2 /\ b = 3)
      OBVIOUS
    <3> QED BY <2>4, <3>1, Zenon
  <2>8. (next = "preparing" => Len(seen) \in 1..2) /\ (next # "preparing" => Len(seen) = 3)
    BY <2>2, <2>7
  <2> QED BY <2>0, <2>4, <2>5, <2>6, <2>7, <2>8 DEF RunOK
<1>6. gaps = NoAnswer /\ report = NoAnswer /\ pick = NoAnswer
  BY <1>1 DEF ImpactInv, GapsOK, ReportOK, PickOK
<1>7. GapsOK' /\ ReportOK' /\ PickOK'
  BY <1>1, <1>6, GapsStay, ReportStays, PickStays DEF ImpactInv
<1> QED BY <1>1, <1>5, <1>7 DEF ImpactInv, MapOK

\* An edit or a publication meets no answer of a selection, and a run remembers its own trees.
LEMMA TreeEdited ==
  ASSUME ImpactInv, Edit \/ Publish
  PROVE  ImpactInv'
<1>1. UNCHANGED <<program, run, map, gaps, report, pick>> /\ (pick = NoAnswer \/ pick.phase = "reading") /\ tree' \in Tree /\ server' \in Tree
  BY ImpactAssumption DEF Edit, Publish, ImpactInv
<1>2. PickOK'
  <2>1. CASE pick = NoAnswer
    BY <1>1, <2>1 DEF PickOK
  <2>2. CASE pick # NoAnswer
    BY <1>1, <2>2 DEF ImpactInv, PickOK
  <2> QED BY <2>1, <2>2
<1>3. GapsOK' /\ ReportOK'
  BY <1>1, GapsStay, ReportStays DEF ImpactInv
<1> QED BY <1>1, <1>2, <1>3 DEF ImpactInv, RunOK, MapOK

\* A selection that reads has answered nothing.
LEMMA SelectionReads ==
  ASSUME ImpactInv, Select \/ ReadOn
  PROVE  ImpactInv'
<1>1. /\ UNCHANGED <<program, tree, server, run, map>> /\ tree \in Tree
      /\ UNCHANGED <<gaps, report>> \/ (gaps' = NoAnswer /\ report' = NoAnswer)
  BY DEF Select, ReadOn, ImpactInv
<1>2. ASSUME Select PROVE PickOK'
  <2>1. pick' = [phase |-> "reading", seen |-> <<tree>>] /\ run.phase \in {"idle", "done"}
    BY <1>2 DEF Select
  <2>2. PICK seen \in Seq(Tree) : seen = <<tree>> /\ Len(seen) = 1
    BY <1>1, TreesSeen
  <2> QED BY <1>1, <2>1, <2>2 DEF PickOK
<1>3. ASSUME ReadOn PROVE PickOK'
  <2>1. pick.phase = "reading" /\ Len(pick.seen) < 4 /\ pick' = [pick EXCEPT !.seen = Append(@, tree)]
    BY <1>3 DEF ReadOn
  <2>2. run.phase \in {"idle", "done"} /\ pick \in [phase : {"reading"}, seen : Seq(Tree)] /\ Len(pick.seen) \in 1..4
    BY <2>1 DEF ImpactInv, PickOK, NoAnswer
  <2> DEFINE seen == Append(pick.seen, tree)
  <2>3. seen \in Seq(Tree) /\ Len(seen) = Len(pick.seen) + 1
    <3>1. \A s \in Seq(Tree) : Append(s, tree) \in Seq(Tree) /\ Len(Append(s, tree)) = Len(s) + 1
      BY <1>1, TreesSeen
    <3>2. pick.seen \in Seq(Tree)
      BY <2>2
    <3> QED BY <3>1, <3>2
  <2>4. pick' = [pick EXCEPT !.seen = seen]
    BY <2>1
  <2> HIDE DEF seen
  <2>5. pick' \in [phase : {"reading"}, seen : Seq(Tree)] /\ pick'.seen = seen
    BY <2>2, <2>3, <2>4
  <2>6. Len(pick'.seen) \in 1..4
    BY <2>1, <2>2, <2>3, <2>5
  <2>7. run'.phase \in {"idle", "done"}
    BY <1>1, <2>2
  <2> QED BY <2>5, <2>6, <2>7 DEF PickOK
<1>4. PickOK'
  BY <1>2, <1>3
<1>5. GapsOK' /\ ReportOK'
  <2>1. CASE UNCHANGED <<gaps, report>>
    BY <1>1, <2>1, GapsStay, ReportStays DEF ImpactInv
  <2>2. CASE gaps' = NoAnswer /\ report' = NoAnswer
    BY <2>2 DEF GapsOK, ReportOK
  <2> QED BY <1>1, <2>1, <2>2
<1> QED BY <1>1, <1>4, <1>5 DEF ImpactInv, RunOK, MapOK

\* A selection whose reads saw one tree answers truly.
LEMMA TestsSelected ==
  ASSUME ImpactInv, Answer
  PROVE  ImpactInv'
<1>1. PICK engine \in {"al-sem", "altool"}, size \in Sizes, history \in BOOLEAN :
        pick' = Selected(Question(pick.seen, engine, IF history THEN map ELSE NoMap, size), history)
  BY DEF Answer, Question
<1>2. /\ UNCHANGED <<program, tree, server, run, map, gaps, report>> /\ pick.phase = "reading"
      /\ run.phase \in {"idle", "done"}
  BY DEF Answer, ImpactInv, PickOK, NoAnswer
<1> DEFINE known == IF history THEN map ELSE NoMap
           in == Question(pick.seen, engine, known, size)
           a == Selected(in, history)
<1>3. program \in Program /\ tree \in Tree
  BY DEF ImpactInv
<1>4. pick' = a
  BY <1>1
<1> HIDE DEF known
<1>5. (\A i \in 1..4 : pick.seen[i] = tree) =>
        in.found = Found(tree) /\ in.map = known /\ (Found(tree).members # {} => Asked(engine, in, tree))
  BY <1>3, AskedOf
<1> HIDE DEF in
<1>6. a.phase = "failed" \/ (a.phase = "answered" /\ a.seen = pick.seen /\ AnswerIs(a, in, history))
  BY AnswerOf
<1> HIDE DEF a
<1>7. a.phase = "answered" /\ (\A i \in 1..4 : a.seen[i] = tree) => ProvedUncoverable(a) /\ Kept(a, map)
  BY <1>3, <1>5, <1>6, UncoverableSound, SelectionKeeps DEF known
<1>8. (ProvedUncoverable(pick)' <=> ProvedUncoverable(a)) /\ (Kept(pick, map)' <=> Kept(a, map))
  BY <1>2, <1>4, ClaimsStay
<1>9. PickOK'
  <2>1. Coherent' => a.phase = "answered" /\ \A i \in 1..4 : a.seen[i] = tree
    BY <1>2, <1>4 DEF Coherent
  <2> QED BY <1>2, <1>4, <1>6, <1>7, <1>8, <2>1 DEF PickOK
<1>10. GapsOK' /\ ReportOK'
  BY <1>2, GapsStay, ReportStays DEF ImpactInv
<1> QED BY <1>2, <1>9, <1>10 DEF ImpactInv, RunOK, MapOK

\* A run that finishes answers truly, on the trees it started with.
LEMMA RunFinishes ==
  ASSUME ImpactInv, FinishRun
  PROVE  ImpactInv'
<1>1. PICK done, paid \in SUBSET run.tests, aborted \in BOOLEAN :
        /\ paid \subseteq done /\ (aborted \/ done = run.tests)
        /\ \E coverage \in {Covered(CallsIn(run.code), paid)} :
             Answers(coverage, [coverage |-> coverage, aborted |-> aborted, complete |-> paid = done, deployed |-> run.deployed],
                     [lines |-> GitLines[run.seen[1]], found |-> FoundOf(run.seen[1], run.seen[2])],
                     Discover(run.seen[3], File \ Edits[run.seen[3]].deleted),
                     {m.of : m \in {x \in Discover(tree, TestFiles).members : x.identified}})
  BY DEF FinishRun
<1> DEFINE coverage == Left(run.code, paid)
           r == [coverage |-> coverage, aborted |-> aborted, complete |-> paid = done, deployed |-> run.deployed]
           in == [lines |-> GitLines[run.seen[1]], found |-> FoundOf(run.seen[1], run.seen[2])]
           files == File \ Edits[run.seen[3]].deleted
           all == Discover(run.seen[3], files)
           named == {m.of : m \in {x \in Discover(tree, TestFiles).members : x.identified}}
<1>2. Answers(coverage, r, in, all, named)
  BY <1>1 DEF Left
<1>3. run.phase = "running" /\ run' = [run EXCEPT !.phase = "done"] /\ UNCHANGED <<program, tree, server, pick>>
  BY DEF FinishRun
<1>4. run # NoRun /\ RunOK /\ run.tests \in SUBSET Test /\ run.code \in Tree /\ run.seen \in Seq(Tree) /\ Len(run.seen) = 3
  BY <1>3 DEF ImpactInv, RunOK, NoRun
<1>18. run.seen[2] \in Tree /\ run.seen[3] \in Tree
  BY <1>4
<1>5. run'.phase = "done" /\ run'.tests = run.tests /\ run'.seen = run.seen /\ run'.code = run.code /\ run'.deployed = run.deployed
  BY <1>3, <1>4 DEF RunOK
<1>6. Evidence(coverage, r, done, paid, aborted)
  BY <1>1 DEF Evidence
<1>7. program \in Program
  BY DEF ImpactInv
<1>8. in.found = FoundOf(run.seen[1], run.seen[2]) /\ files \subseteq File
  OBVIOUS
<1> HIDE DEF coverage, r, in, files, named
<1>9. /\ gaps' = [Gaps(in, r) EXCEPT !.uncovered = AnnotateRisk(Digest(tree), @)]
      /\ report' = [phase |-> "report", complete |-> r.complete /\ ~r.aborted /\ all.complete, rows |-> Cobertura(coverage, all.members, TestFiles)]
      /\ map' \in {BuildMap(coverage, named, r.complete /\ ~r.aborted), Torn}
  BY <1>2 DEF Answers
<1>10. CallsIn(run.code)' = CallsIn(run.code)
  BY <1>3, <1>5 DEF CallsIn
<1>11. Executed' = Executed
  BY <1>5, <1>10 DEF Executed
<1>12. GapsOK'
  <2>1. /\ gaps'.phase = "gaps"
        /\ gaps'.procedures = {[of |-> item.of, status |-> Status(item, r)] :
                                 item \in {x \in {y \in in.found.members : ChangedIn(in, y)} : x.kind = "proc"}}
    BY <1>9 DEF Gaps
  <2>2. ASSUME NEW p \in gaps'.procedures
        PROVE  /\ p.of \notin Trigger /\ p.status \in {"covered", "uncovered", "unknown"}
               /\ p.status = "covered" => p.of \in Executed
               /\ p.status = "uncovered" => p.of \notin Executed /\ run.code = run.seen[1]
    <3>1. PICK item \in FoundOf(run.seen[1], run.seen[2]).members : item.kind = "proc" /\ p = [of |-> item.of, status |-> Status(item, r)]
      BY <1>8, <2>1
    <3>2. Sound(run.seen[2], item)
      BY <1>18, <3>1, FoundSound
    <3>3. item.of \notin Trigger
      BY <3>1, <3>2 DEF Sound
    <3>4. /\ Status(item, r) \in {"covered", "uncovered", "unknown"}
          /\ Status(item, r) = "covered" => item.of \in Executed
          /\ Status(item, r) = "uncovered" => item.of \notin Executed /\ run.code = run.seen[1]
      BY <1>4, <1>6, <1>7, <1>18, <3>1, <3>2, StatusSound
    <3> QED BY <3>1, <3>3, <3>4
  <2> QED BY <1>5, <1>11, <2>1, <2>2 DEF GapsOK, StatusTruthful
<1>13. ReportOK'
  <2>1. report'.phase = "report" /\ report'.rows = Cobertura(coverage, all.members, TestFiles)
        /\ (report'.complete => r.complete /\ ~r.aborted)
    BY <1>9
  <2>2. r.aborted = aborted
    BY DEF r
  <2>3. ASSUME report'.complete, NEW row \in report'.rows
        PROVE  row.hits = Cardinality({x \in run.tests : row.of \in Runs(CallsIn(run.code), x)})
    BY <1>4, <1>6, <1>7, <1>8, <1>18, <2>1, <2>2, <2>3, RowsExact
  <2> QED BY <1>5, <1>10, <2>1, <2>3 DEF ReportOK, ReportExact
<1>14. MapOK(map')
  <2>1. MapOK(Torn)
    BY DEF MapOK, Torn
  <2>2. paid \in SUBSET Test
    BY <1>4
  <2>3. MapOK(BuildMap(coverage, named, r.complete /\ ~r.aborted))
    BY <1>4, <1>7, <2>2, MapSound DEF coverage
  <2> QED BY <1>9, <2>1, <2>3
<1>15. PickOK'
  <2>1. pick = NoAnswer
    BY <1>3 DEF ImpactInv, PickOK
  <2> QED BY <1>3, <2>1, PickStays DEF ImpactInv
<1>16. RunOK'
  <2>1. run \in [phase : {"preparing", "running", "done"}, tests : SUBSET Test, deployed : BOOLEAN, seen : Seq(Tree), code : Tree]
        /\ (run.deployed => run.code = run.seen[1])
    BY <1>4 DEF RunOK
  <2>2. run' \in [phase : {"preparing", "running", "done"}, tests : SUBSET Test, deployed : BOOLEAN, seen : Seq(Tree), code : Tree]
    BY <1>3, <2>1
  <2> QED BY <1>4, <1>5, <2>1, <2>2 DEF RunOK
<1>17. MapOK(map)'
  BY <1>14 DEF MapOK
<1> QED BY <1>3, <1>12, <1>13, <1>15, <1>16, <1>17 DEF ImpactInv

\* Every step keeps the invariant.
LEMMA ImpactStep == ImpactInv /\ [Next]_vars => ImpactInv'
<1> SUFFICES ASSUME ImpactInv, [Next]_vars PROVE ImpactInv'
  OBVIOUS
<1>1. CASE StartRun
  BY <1>1, RunStarts
<1>2. CASE FinishRun
  BY <1>2, RunFinishes
<1>3. CASE Edit \/ Publish
  BY <1>3, TreeEdited
<1>4. CASE Select \/ ReadOn
  BY <1>4, SelectionReads
<1>6. CASE Answer
  BY <1>6, TestsSelected
<1>7. CASE Prepare
  BY <1>7, RunPrepares
<1>5. CASE UNCHANGED vars
  <2>1. UNCHANGED <<program, tree, server, run, map, gaps, report, pick>>
    BY <1>5 DEF vars
  <2>2. GapsOK' /\ ReportOK' /\ PickOK'
    BY <2>1, GapsStay, ReportStays, PickStays DEF ImpactInv
  <2> QED BY <2>1, <2>2 DEF ImpactInv, RunOK, MapOK
<1> QED BY <1>1, <1>2, <1>3, <1>4, <1>5, <1>6, <1>7 DEF Next

\* So it always holds.
LEMMA ImpactAlways == Spec => []ImpactInv
BY ImpactInit, ImpactStep, PTL DEF Spec

\* The invariant gives the properties.
LEMMA InvGives ==
  ImpactInv => TypeOK /\ UncoverableProved /\ LocatedTestsKept /\ StatusTruthful /\ ReportExact
<1> SUFFICES ASSUME ImpactInv PROVE TypeOK /\ UncoverableProved /\ LocatedTestsKept /\ StatusTruthful /\ ReportExact
  OBVIOUS
<1>1. run.phase \in {"idle", "preparing", "running", "done"}
  BY DEF ImpactInv, RunOK, NoRun
<1>2. gaps.phase \in {"none", "gaps"} /\ StatusTruthful
  BY DEF ImpactInv, GapsOK, NoAnswer, StatusTruthful
<1>3. gaps.phase = "gaps" => \A p \in gaps.procedures : p.of \notin Trigger /\ p.status \in {"covered", "uncovered", "unknown"}
  BY DEF ImpactInv, GapsOK, NoAnswer
<1>4. report.phase \in {"none", "report"} /\ ReportExact
  BY DEF ImpactInv, ReportOK, NoAnswer, ReportExact
<1>5. pick.phase \in {"none", "reading", "failed", "answered"}
  BY DEF ImpactInv, PickOK, NoAnswer
<1>6. Coherent => ProvedUncoverable(pick) /\ Kept(pick, map)
  BY DEF ImpactInv, PickOK, NoAnswer, Coherent
<1>7. UncoverableProved /\ LocatedTestsKept
  BY <1>6, ClaimsAre DEF UncoverableProved, LocatedTestsKept
<1>8. TypeOK
  BY <1>1, <1>2, <1>3, <1>4, <1>5 DEF TypeOK, ImpactInv, MapOK
<1> QED BY <1>2, <1>4, <1>7, <1>8

-----------------------------------------------------------------------------
(* What the tools answer *)

\* Every variable keeps its type: statuses and maps are of procedures alone.
THEOREM ImpactTypes == Spec => []TypeOK
BY ImpactAlways, InvGives, PTL

\* With al-sem, unless the whole suite is asked for, no test can run what is called
\* uncoverable, be it through calls the graph only knows to be hidden; and the risk it is
\* ranked by is that of the routine itself (test-selection.ts:17, risk.ts:158).  This is of
\* answers whose reads saw one tree, and of the calls of files that al-sem could parse or
\* that the diff changes.
THEOREM UncoverableTrusted == Spec => []UncoverableProved
BY ImpactAlways, InvGives, PTL

\* With either engine, a changed test is selected, and so is every test that can run a routine
\* with a changed line along calls the engine shows, or only knows to be hidden where the map
\* knows no test of the routine; or the whole suite is asked for (test-selection.ts:272).  A
\* changed procedure with the name of a test stands for that test and for no other that
\* runs it (test-selection.ts:280).  This is of answers whose reads saw one tree.
THEOREM ChangedTestsKept == Spec => []LocatedTestsKept
BY ImpactAlways, InvGives, PTL

\* What a run calls covered its tests executed, what it calls uncovered they did not, on the code
\* that was changed, whichever trees its reads saw; and a complete report counts the tests that reached each routine
\* (coverage-gaps.ts:109, cobertura.ts:25).
THEOREM CoverageTrusted == Spec => [](StatusTruthful /\ ReportExact)
BY ImpactAlways, InvGives, PTL
=============================================================================
