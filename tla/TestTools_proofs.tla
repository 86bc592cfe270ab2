--------------------------- MODULE TestTools_proofs ---------------------------
(***************************************************************************)
(* Proofs about TestTools: the call graphs and the binary they share        *)
(* (GraphSafe, NothingStale), mode 'order' (BlameSound, NoVictimMissed),    *)
(* the comparison of mode 'repeat' (RepeatHonest) and the halting of runs   *)
(* in both modes (RunsStop).                                                *)
(* The inductive invariant of the graphs, GInv, says of a resolution that   *)
(* it ends before its memo expires, of a build what its record may claim at *)
(* each stage, of a call that its build shows no older project, and of the  *)
(* caches that they hold every running build unless one was evicted.        *)
(* That of mode 'order', OInv, says of the runs that they kept declaration  *)
(* order and that their rows tell how steady methods fare (Ground), of a    *)
(* bisection that its suspects hold what fails the victim (Bisects), that   *)
(* every victim waits or was dealt with (Waiting, Closed), and, while no    *)
(* run was halted or lost a row, that no row is missing (Full).             *)
(* It rests on lemmas about filtered, joined, reversed and permuted lists;  *)
(* those are shown by induction over its length, which is stated for a set  *)
(* of numbers (Induction).                                                  *)
(***************************************************************************)
EXTENDS TestTools, SequenceTheorems, FiniteSetTheorems, WellFoundedInduction, TLAPS

-----------------------------------------------------------------------------
(* The call graphs: types and invariant *)

Finds == {"unasked", "idle", "probe", "cache", "fetch", "write", "rename"}
Files == {None, "bad", "good"}
Binaries == {None, "explicit", "alsem", "cached"}
Answer == [ok : BOOLEAN, engine : {None, "al-sem", "altool"}, warned : BOOLEAN, version : 0..MaxEdits]
ACall == [stage : {"idle", "reading", "waiting", "done"}, since : 0..MaxEdits, build : {None} \cup Call, answer : Answer]
Build == [stage : {"idle", "binary", "al-sem", "extract", "stitch", "built", "failed"}, key : 0..MaxEdits, at : 0..MaxNow,
          binary : Binaries, ran : {None, "explicit", "old", "pinned", "bad", "good"}, reason : {None, "notFound", "failed"},
          version : 0..MaxEdits]

BinaryTyping ==
  /\ setting \in [env : BOOLEAN, download : BOOLEAN] /\ path \in {None, "old", "pinned"} /\ cached \in Files
  /\ now \in 0..MaxNow /\ memo \in [Process -> 0..MaxNow] /\ find \in [Process -> Finds]
  /\ last \in [Process -> [source : {None, "env", "path", "cache", "download", "unavailable"}, binary : Binaries]]

GraphTyping ==
  /\ BinaryTyping
  /\ choice \in {"auto", "al-sem", "altool"} /\ project \in 0..MaxEdits /\ killed \in BOOLEAN
  /\ call \in [Call -> ACall] /\ build \in [Call -> Build] /\ entries \in [Process -> Seq(Call)]

Resolving(f) == f \notin {"idle", "unasked"}

ProcessSound ==
  \A p \in Process :
    /\ memo[p] <= now
    /\ Resolving(find[p]) => now < memo[p] + MemoSpan
    /\ last[p].binary = "cached" => cached = "good"

\* build r of a server whose engine is `engine', where `file' is in the cache directory
SoundBuild(r, engine, edits, file) ==
  /\ r.binary = "cached" => file = "good"
  /\ r.ran # "bad"
  /\ r.reason = "failed" => r.ran # None
  /\ r.reason = "notFound" => r.ran = None
  /\ r.reason # None => engine # "altool" /\ (r.stage # "failed" => engine = "auto")
  /\ r.stage \in {"binary", "al-sem"} => r.reason = None /\ engine # "altool"
  /\ r.stage \in {"extract", "stitch"} => engine # "al-sem"
  /\ r.key <= edits
  /\ r.stage \in {"stitch", "built"} => r.version >= r.key

Timely(r, f, l, m) ==
  r.stage = "binary" =>
    /\ f # "unasked"
    /\ (f = "idle" /\ l.source # "unavailable") \/ m + MemoSpan > r.at

BuildsSound ==
  \A b \in Call :
    LET p == ProcessOf[b] IN
    /\ SoundBuild(build[b], choice, project, cached)
    /\ build[b].at <= now /\ Timely(build[b], find[p], last[p], memo[p])

CallsSound ==
  \A c \in Call :
    /\ call[c].since <= project
    /\ call[c].stage \in {"idle", "reading"} => build[c].stage = "idle"
    /\ call[c].stage \in {"waiting", "done"} =>
         LET b == call[c].build IN
         b \in Call /\ build[b].stage # "idle" /\ build[b].key >= call[c].since
    /\ call[c].stage = "done" => Over(call[c].build) /\ call[c].answer = ResultOf(build[call[c].build])

EntriesSound ==
  \A p \in Process :
    /\ Len(entries[p]) <= MaxEntries
    /\ \A i \in DOMAIN entries[p] : ProcessOf[entries[p][i]] = p /\ build[entries[p][i]].stage \notin {"idle", "failed"}
    /\ \A i, j \in DOMAIN entries[p] : build[entries[p][i]].key = build[entries[p][j]].key => i = j

NoneEvicted ==
  \A p \in Process :
    /\ IsFiniteSet(Begun(p))
    /\ Cardinality(Begun(p)) <= MaxEntries =>
         \A b \in Call : ProcessOf[b] = p /\ Running(b) => \E i \in DOMAIN entries[p] : entries[p][i] = b

GInv == ProcessSound /\ BuildsSound /\ CallsSound /\ EntriesSound /\ NoneEvicted

-----------------------------------------------------------------------------
(* Lists *)

\* What is left when one element is removed keeps its order.
LEMMA Removed ==
  ASSUME NEW S, NEW s \in Seq(S), NEW k \in DOMAIN s
  PROVE  /\ RemoveAt(s, k) \in Seq(S)
         /\ Len(RemoveAt(s, k)) = Len(s) - 1
         /\ \A i \in DOMAIN RemoveAt(s, k) : RemoveAt(s, k)[i] = IF i < k THEN s[i] ELSE s[i + 1]
<1> DEFINE L == SubSeq(s, 1, k - 1)
<1> DEFINE R == SubSeq(s, k + 1, Len(s))
<1>1. k \in 1..Len(s) /\ Len(s) \in Nat /\ \A i \in 1..Len(s) : s[i] \in S
  BY LenProperties
<1>2. L \in Seq(S) /\ Len(L) = k - 1 /\ \A i \in 1..(k - 1) : L[i] = s[i]
  <2>1. \A i \in 1..(k - 1) : s[i] \in S
    BY <1>1
  <2>2. k - 1 \in Int /\ 1 \in Int
    BY <1>1
  <2>3. /\ SubSeq(s, 1, k - 1) \in Seq(S)
        /\ Len(SubSeq(s, 1, k - 1)) = IF 1 <= k - 1 THEN (k - 1) - 1 + 1 ELSE 0
        /\ \A i \in 1..((k - 1) - 1 + 1) : SubSeq(s, 1, k - 1)[i] = s[1 + i - 1]
    BY <2>1, <2>2, SubSeqProperties
  <2> QED BY <1>1, <2>3
<1>3. R \in Seq(S) /\ Len(R) = Len(s) - k /\ \A i \in 1..(Len(s) - k) : R[i] = s[k + i]
  <2>1. \A i \in (k + 1)..Len(s) : s[i] \in S
    BY <1>1
  <2>2. k + 1 \in Int /\ Len(s) \in Int
    BY <1>1
  <2>3. /\ SubSeq(s, k + 1, Len(s)) \in Seq(S)
        /\ Len(SubSeq(s, k + 1, Len(s))) = IF k + 1 <= Len(s) THEN Len(s) - (k + 1) + 1 ELSE 0
        /\ \A i \in 1..(Len(s) - (k + 1) + 1) : SubSeq(s, k + 1, Len(s))[i] = s[(k + 1) + i - 1]
    BY <2>1, <2>2, SubSeqProperties
  <2>4. \A i \in 1..(Len(s) - k) : (k + 1) + i - 1 = k + i
    BY <1>1
  <2> QED BY <1>1, <2>3, <2>4
<1> HIDE DEF L, R
<1>4. /\ L \o R \in Seq(S) /\ Len(L \o R) = Len(L) + Len(R)
      /\ \A i \in 1..(Len(L) + Len(R)) : (L \o R)[i] = IF i <= Len(L) THEN L[i] ELSE R[i - Len(L)]
  BY <1>2, <1>3, ConcatProperties
<1>5. RemoveAt(s, k) = L \o R
  BY DEF RemoveAt, L, R
<1>10. Len(L) = k - 1 /\ Len(R) = Len(s) - k /\ Len(L) + Len(R) = Len(s) - 1
  BY <1>1, <1>2, <1>3
<1>8. RemoveAt(s, k) \in Seq(S) /\ Len(RemoveAt(s, k)) = Len(s) - 1
  BY <1>4, <1>5, <1>10
<1>6. DOMAIN RemoveAt(s, k) = 1..(Len(s) - 1)
  BY <1>8, LenProperties
<1>7. ASSUME NEW i \in 1..(Len(s) - 1)
      PROVE  (L \o R)[i] = IF i < k THEN s[i] ELSE s[i + 1]
  <2>0. i \in Nat /\ k \in Nat /\ (L \o R)[i] = IF i <= k - 1 THEN L[i] ELSE R[i - (k - 1)]
    <3>1. i \in 1..(Len(L) + Len(R))
      BY <1>7, <1>10
    <3>2. (L \o R)[i] = IF i <= Len(L) THEN L[i] ELSE R[i - Len(L)]
      BY <1>4, <3>1
    <3>3. i \in Nat /\ k \in Nat
      BY <1>1, <1>7
    <3> QED BY <1>10, <3>2, <3>3
  <2>1. CASE i < k
    <3>1. i <= k - 1 /\ i \in 1..(k - 1)
      BY <1>1, <1>7, <2>0, <2>1
    <3> QED BY <1>2, <2>0, <2>1, <3>1
  <2>2. CASE ~(i < k)
    <3>1. i - (k - 1) \in 1..(Len(s) - k) /\ k + (i - (k - 1)) = i + 1 /\ ~(i <= k - 1)
      BY <1>1, <1>7, <2>0, <2>2
    <3>2. R[i - (k - 1)] = s[k + (i - (k - 1))]
      BY <1>3, <3>1
    <3>3. R[i - (k - 1)] = s[i + 1]
      BY <3>1, <3>2
    <3> QED BY <2>0, <2>2, <3>1, <3>3
  <2> QED BY <2>1, <2>2
<1>9. \A i \in DOMAIN RemoveAt(s, k) : RemoveAt(s, k)[i] = IF i < k THEN s[i] ELSE s[i + 1]
  BY <1>5, <1>6, <1>7, Zenon
<1> QED BY <1>8, <1>9

\* The places of what is left are those of the others, one for one.
LEMMA RemovedPlaces ==
  ASSUME NEW S, NEW s \in Seq(S), NEW k \in DOMAIN s
  PROVE  /\ \A i, j \in DOMAIN RemoveAt(s, k) :
              \E n, m \in DOMAIN s \ {k} : RemoveAt(s, k)[i] = s[n] /\ RemoveAt(s, k)[j] = s[m] /\ (n = m => i = j)
         /\ \A n \in DOMAIN s \ {k} : \E i \in DOMAIN RemoveAt(s, k) : RemoveAt(s, k)[i] = s[n]
<1> DEFINE r == RemoveAt(s, k)
<1>1. /\ Len(r) = Len(s) - 1 /\ r \in Seq(S) /\ \A i \in DOMAIN r : r[i] = IF i < k THEN s[i] ELSE s[i + 1]
  BY Removed
<1>2. DOMAIN s = 1..Len(s) /\ Len(s) \in Nat /\ DOMAIN r = 1..(Len(s) - 1) /\ k \in 1..Len(s)
  BY <1>1, LenProperties
<1> HIDE DEF r
<1>3. ASSUME NEW i \in 1..(Len(s) - 1)
      PROVE  \E n \in 1..Len(s) : n # k /\ r[i] = s[n] /\ ((n = i /\ i < k) \/ (n = i + 1 /\ i >= k))
  <2>1. CASE i < k
    BY <1>1, <1>2, <1>3, <2>1
  <2>2. CASE ~(i < k)
    <3>1. i + 1 \in 1..Len(s) /\ i + 1 # k /\ i >= k
      BY <1>2, <1>3, <2>2
    <3>2. r[i] = s[i + 1]
      BY <1>1, <1>2, <1>3, <2>2
    <3>3. \E n \in 1..Len(s) : n = i + 1
      BY <3>1
    <3> QED BY <3>1, <3>2, <3>3
  <2> QED BY <2>1, <2>2
<1>4. ASSUME NEW i \in 1..(Len(s) - 1), NEW j \in 1..(Len(s) - 1)
      PROVE  \E n, m \in 1..Len(s) : n # k /\ m # k /\ r[i] = s[n] /\ r[j] = s[m] /\ (n = m => i = j)
  <2>1. PICK n \in 1..Len(s) : n # k /\ r[i] = s[n] /\ ((n = i /\ i < k) \/ (n = i + 1 /\ i >= k))
    BY <1>3
  <2>2. PICK m \in 1..Len(s) : m # k /\ r[j] = s[m] /\ ((m = j /\ j < k) \/ (m = j + 1 /\ j >= k))
    BY <1>3
  <2>3. n = m => i = j
    BY <1>2, <2>1, <2>2
  <2> QED BY <2>1, <2>2, <2>3
<1>5. ASSUME NEW n \in 1..Len(s), n # k
      PROVE  \E i \in 1..(Len(s) - 1) : r[i] = s[n]
  <2>1. CASE n < k
    <3>1. n \in 1..(Len(s) - 1)
      BY <1>2, <2>1
    <3>2. r[n] = s[n]
      BY <1>1, <1>2, <2>1, <3>1
    <3> QED BY <3>1, <3>2
  <2>2. CASE n > k
    <3>1. n - 1 \in 1..(Len(s) - 1) /\ ~(n - 1 < k) /\ (n - 1) + 1 = n
      BY <1>2, <2>2
    <3>2. r[n - 1] = s[(n - 1) + 1]
      BY <1>1, <1>2, <3>1
    <3> QED BY <3>1, <3>2
  <2> QED BY <1>2, <1>5, <2>1, <2>2
<1>6. \A i, j \in DOMAIN r : \E n, m \in DOMAIN s \ {k} : r[i] = s[n] /\ r[j] = s[m] /\ (n = m => i = j)
  <2>1. \A n \in 1..Len(s) : n # k => n \in DOMAIN s \ {k}
    BY <1>2
  <2>2. ASSUME NEW i \in DOMAIN r, NEW j \in DOMAIN r
        PROVE  \E n, m \in DOMAIN s \ {k} : r[i] = s[n] /\ r[j] = s[m] /\ (n = m => i = j)
    <3>2. i \in 1..(Len(s) - 1) /\ j \in 1..(Len(s) - 1)
      BY <1>2
    <3>1. PICK n \in 1..Len(s), m \in 1..Len(s) : n # k /\ m # k /\ r[i] = s[n] /\ r[j] = s[m] /\ (n = m => i = j)
      BY <1>4, <3>2
    <3> QED BY <2>1, <3>1
  <2> QED BY <2>2
<1>7. \A n \in DOMAIN s \ {k} : \E i \in DOMAIN r : r[i] = s[n]
  BY <1>2, <1>5
<1> QED BY <1>6, <1>7 DEF r

-----------------------------------------------------------------------------
(* Types *)

LEMMA NothingTyped == NoBuild \in Build /\ NoCall \in ACall /\ 0 \in 0..MaxEdits /\ 0 \in 0..MaxNow
  BY BinaryAssumption, GraphAssumption DEF NoBuild, NoCall, NoAnswer, Build, ACall, Answer, Binaries, None

LEMMA ResultTyped ==
  ASSUME NEW r \in Build
  PROVE  ResultOf(r) \in Answer
  BY DEF ResultOf, Answer, Build

LEMMA ResultOk ==
  ASSUME NEW r, r.stage = "built"
  PROVE  ResultOf(r).ok
  BY Zenon DEF ResultOf

LEMMA DroppedTyped ==
  ASSUME NEW list \in Seq(Call), NEW key
  PROVE  /\ Dropped(list, key) \in Seq(Call)
         /\ \/ Places(list, key) = {} /\ Dropped(list, key) = list
            \/ \E k \in Places(list, key) : Dropped(list, key) = RemoveAt(list, k)
<1> DEFINE k == CHOOSE i \in Places(list, key) : TRUE
<1>1. CASE Places(list, key) = {}
  BY <1>1 DEF Dropped
<1>2. CASE Places(list, key) # {}
  <2>1. k \in Places(list, key)
    BY <1>2
  <2>2. k \in DOMAIN list
    BY <2>1 DEF Places
  <2>3. Dropped(list, key) = RemoveAt(list, k)
    BY <1>2 DEF Dropped
  <2> HIDE DEF k
  <2> QED BY <2>1, <2>2, <2>3, Removed
<1> QED BY <1>1, <1>2

LEMMA KeptTyped ==
  ASSUME NEW list \in Seq(Call), NEW c \in Call, Len(list) <= MaxEntries
  PROVE  /\ Kept(Append(list, c)) \in Seq(Call) /\ Len(Kept(Append(list, c))) <= MaxEntries
         /\ Len(list) + 1 <= MaxEntries => Kept(Append(list, c)) = Append(list, c)
         /\ Len(list) + 1 > MaxEntries =>
              /\ Len(Kept(Append(list, c))) = Len(list)
              /\ \A i \in 1..Len(list) : Kept(Append(list, c))[i] = Append(list, c)[i + 1]
<1> DEFINE l == Append(list, c)
<1>1. l \in Seq(Call) /\ l # <<>> /\ Len(l) = Len(list) + 1 /\ Len(list) \in Nat /\ MaxEntries \in Nat
  BY AppendProperties, LenProperties, GraphAssumption
<1> HIDE DEF l
<1>2. CASE Len(l) > MaxEntries
  <2>1. /\ Tail(l) \in Seq(Call) /\ Len(Tail(l)) = Len(l) - 1 /\ \A i \in 1..Len(Tail(l)) : Tail(l)[i] = l[i + 1]
    BY <1>1, HeadTailProperties
  <2>2. Kept(l) = Tail(l)
    BY <1>2 DEF Kept
  <2>3. /\ Kept(l) \in Seq(Call) /\ Len(Kept(l)) = Len(list) /\ \A i \in 1..Len(list) : Kept(l)[i] = l[i + 1]
    BY <1>1, <2>1, <2>2
  <2> QED BY <1>1, <1>2, <2>3 DEF l
<1>3. CASE ~(Len(l) > MaxEntries)
  <2>1. Kept(l) = l
    BY <1>3 DEF Kept
  <2> QED BY <1>1, <1>3, <2>1 DEF l
<1> QED BY <1>2, <1>3

-----------------------------------------------------------------------------
(* Initially *)

LEMMA GraphStarts == GraphInit => GraphTyping /\ GInv
<1> SUFFICES ASSUME GraphInit PROVE GraphTyping /\ GInv
  OBVIOUS
<1>1. PICK m \in Machines : GraphInitOn(m)
  BY DEF GraphInit
<1>2. GraphTyping
  <2>1. BinaryTyping
    BY <1>1, NothingTyped, BinaryAssumption DEF GraphInitOn, BinaryInit, BinaryTyping, Files, Finds, Binaries, NotResolved, None
  <2>2. \A p \in Process : <<>> \in Seq(Call)
    BY EmptySeq
  <2> QED BY <1>1, <2>1, <2>2, NothingTyped, GraphAssumption DEF GraphInitOn, GraphTyping
<1>3. ProcessSound
  <2>1. ASSUME NEW p \in Process
        PROVE  memo[p] = 0 /\ now = 0 /\ find[p] = "unasked" /\ last[p].binary = "none"
    BY <1>1 DEF GraphInitOn, BinaryInit, NotResolved, None
  <2>2. ASSUME NEW p \in Process
        PROVE  memo[p] <= now
    BY <2>1
  <2>3. ASSUME NEW p \in Process
        PROVE  ~Resolving(find[p])
    BY <2>1 DEF Resolving
  <2>4. ASSUME NEW p \in Process
        PROVE  last[p].binary # "cached"
    BY <2>1
  <2> QED BY <2>2, <2>3, <2>4 DEF ProcessSound
<1>4. \A b \in Call : ProcessOf[b] \in Process
  BY GraphAssumption
<1>5. BuildsSound
  BY <1>1, <1>4 DEF GraphInitOn, BinaryInit, BuildsSound, SoundBuild, Timely, NoBuild, None
<1>6. CallsSound
  BY <1>1 DEF GraphInitOn, CallsSound, NoCall, NoBuild
<1>7. EntriesSound
  <2>1. ASSUME NEW p \in Process
        PROVE  entries[p] = <<>>
    BY <1>1 DEF GraphInitOn
  <2>2. ASSUME NEW p \in Process
        PROVE  Len(entries[p]) <= MaxEntries
    BY <2>1, GraphAssumption
  <2>3. ASSUME NEW p \in Process
        PROVE  DOMAIN entries[p] = {}
    BY <2>1
  <2> QED BY <2>2, <2>3 DEF EntriesSound
<1>8. NoneEvicted
  <2>1. \A p \in Process : Begun(p) = {}
    BY <1>1 DEF GraphInitOn, Begun, NoBuild
  <2>2. \A b \in Call : ~Running(b)
    BY <1>1 DEF GraphInitOn, Running, NoBuild
  <2> QED BY <2>1, <2>2, FS_EmptySet DEF NoneEvicted
<1> QED BY <1>2, <1>3, <1>5, <1>6, <1>7, <1>8 DEF GInv

-----------------------------------------------------------------------------
(* Resolutions *)

Resolution == [source : {None, "env", "path", "cache", "download", "unavailable"}, binary : Binaries]

\* Whoever asks for the binary joins a resolution that is not stale, or begins one.
LEMMA ResolveSound ==
  ASSUME GraphTyping, GInv, NEW p \in Process, Resolve(p), UNCHANGED <<setting, path, cached, now, last>>
  PROVE  /\ BinaryTyping' /\ ProcessSound'
         /\ \A b \in Call : Timely(build[b], find'[ProcessOf[b]], last'[ProcessOf[b]], memo'[ProcessOf[b]])
         /\ \A r \in Build : r.at = now => Timely(r, find'[p], last'[p], memo'[p])
<1>0. /\ now \in 0..MaxNow /\ memo \in [Process -> 0..MaxNow] /\ find \in [Process -> Finds] /\ MemoSpan \in Nat \ {0} /\ MaxNow \in Nat
      /\ \A b \in Call : ProcessOf[b] \in Process
  BY BinaryAssumption, GraphAssumption DEF GraphTyping, BinaryTyping
<1>1. CASE find[p] = "unasked" \/ Stale(p)
  <2>1. memo' = [memo EXCEPT ![p] = now] /\ find' = [find EXCEPT ![p] = "probe"]
    BY <1>1 DEF Resolve, At
  <2>2. BinaryTyping'
    BY <1>0, <2>1 DEF GraphTyping, BinaryTyping, Finds
  <2>3. ProcessSound'
    <3>1. ASSUME NEW q \in Process
          PROVE  /\ memo'[q] <= now' /\ (Resolving(find'[q]) => now' < memo'[q] + MemoSpan)
                 /\ (last'[q].binary = "cached" => cached' = "good")
      <4>1. CASE q = p
        BY <1>0, <2>1, <4>1 DEF GInv, ProcessSound
      <4>2. CASE q # p
        BY <1>0, <2>1, <4>2 DEF GInv, ProcessSound
      <4> QED BY <4>1, <4>2
    <3> QED BY <3>1 DEF ProcessSound
  <2>4. ASSUME NEW r \in Build, r.at <= now
        PROVE  Timely(r, find'[p], last'[p], memo'[p])
    BY <1>0, <2>1, <2>4 DEF Timely, Build
  <2>5. ASSUME NEW b \in Call
        PROVE  Timely(build[b], find'[ProcessOf[b]], last'[ProcessOf[b]], memo'[ProcessOf[b]])
    <3>1. build[b] \in Build /\ build[b].at <= now /\ Timely(build[b], find[ProcessOf[b]], last[ProcessOf[b]], memo[ProcessOf[b]])
      BY DEF GInv, BuildsSound, GraphTyping
    <3>2. CASE ProcessOf[b] = p
      BY <2>4, <3>1, <3>2
    <3>3. CASE ProcessOf[b] # p
      BY <1>0, <2>1, <3>1, <3>3
    <3> QED BY <3>2, <3>3
  <2> QED BY <1>0, <2>2, <2>3, <2>4, <2>5 DEF Build
<1>2. CASE ~(find[p] = "unasked" \/ Stale(p))
  <2>1. UNCHANGED <<memo, find>>
    BY <1>2 DEF Resolve
  <2>2. BinaryTyping' /\ ProcessSound'
    BY <2>1 DEF GInv, GraphTyping, BinaryTyping, ProcessSound
  <2>3. \A b \in Call : Timely(build[b], find'[ProcessOf[b]], last'[ProcessOf[b]], memo'[ProcessOf[b]])
    BY <2>1 DEF GInv, BuildsSound
  <2>4. find[p] # "unasked" /\ ((find[p] = "idle" /\ last[p].source # "unavailable") \/ memo[p] + MemoSpan > now)
    <3>1. CASE find[p] = "idle"
      <4>1. last[p].source # "unavailable" \/ ~(now - memo[p] >= MemoSpan)
        BY <1>2 DEF Stale
      <4> QED BY <1>0, <3>1, <4>1
    <3>2. CASE find[p] # "idle"
      BY <1>0, <1>2, <3>2 DEF GInv, ProcessSound, Resolving
    <3> QED BY <3>1, <3>2
  <2>5. ASSUME NEW r \in Build, r.at = now
        PROVE  Timely(r, find'[p], last'[p], memo'[p])
    BY <2>1, <2>4, <2>5 DEF Timely
  <2> QED BY <2>2, <2>3, <2>5
<1> QED BY <1>1, <1>2

\* A step of a resolution: the file in the cache directory only ever becomes the verified one.
LEMMA ResolverEffect ==
  ASSUME GraphTyping, GInv, NEW p \in Process, ResolverStep(p)
  PROVE  /\ UNCHANGED <<setting, path, now, memo>> /\ Resolving(find[p])
         /\ \E f \in Finds \ {"unasked"} : find' = [find EXCEPT ![p] = f]
         /\ cached' \in {cached, "good"}
         /\ \E r \in Resolution : last' = [last EXCEPT ![p] = r] /\ (r.binary = "cached" => cached' = "good")
<1> DEFINE Moves == \E f \in Finds \ {"unasked"} : find' = [find EXCEPT ![p] = f]
<1> DEFINE Resolves == \E r \in Resolution : last' = [last EXCEPT ![p] = r] /\ (r.binary = "cached" => cached' = "good")
<1> DEFINE Effect ==
       /\ UNCHANGED <<setting, path, now, memo>> /\ Resolving(find[p])
       /\ Moves /\ cached' \in {cached, "good"} /\ Resolves
<1>1. last \in [Process -> Resolution] /\ (last[p].binary = "cached" => cached = "good")
  BY DEF GraphTyping, BinaryTyping, Resolution, GInv, ProcessSound
<1>2. last[p] \in Resolution /\ last = [last EXCEPT ![p] = last[p]]
  BY <1>1
<1>3. ASSUME NEW f \in {"cache", "fetch", "write", "rename"}, find' = [find EXCEPT ![p] = f], UNCHANGED <<last, cached>>
      PROVE  Moves /\ Resolves
  <2>1. Moves
    BY <1>3 DEF Finds
  <2>2. Resolves
    BY <1>1, <1>2, <1>3
  <2> QED BY <2>1, <2>2
<1>4. ASSUME NEW source \in {"env", "path", "cache", "download", "unavailable"}, NEW binary \in {"explicit", "alsem", "cached"},
             find' = [find EXCEPT ![p] = "idle"], last' = [last EXCEPT ![p] = [source |-> source, binary |-> binary]],
             binary = "cached" => cached' = "good"
      PROVE  Moves /\ Resolves
  <2> DEFINE r == [source |-> source, binary |-> binary]
  <2>1. r \in Resolution /\ r.binary = binary
    BY DEF Resolution, Binaries
  <2>2. last' = [last EXCEPT ![p] = r] /\ find' = [find EXCEPT ![p] = "idle"]
    BY <1>4
  <2>3. "idle" \in Finds \ {"unasked"}
    BY DEF Finds
  <2> HIDE DEF r
  <2> QED BY <1>4, <2>1, <2>2, <2>3
<1> HIDE DEF Moves, Resolves
<1>5. Probe(p) => Effect
  <2> SUFFICES ASSUME Probe(p) PROVE Effect
    OBVIOUS
  <2>1. UNCHANGED <<setting, path, cached, now, memo>> /\ Resolving(find[p])
    BY DEF Probe, Resolving
  <2>2. \/ Settles(p, "env", "explicit") \/ Settles(p, "path", "alsem") \/ (At(p, "cache") /\ UNCHANGED last)
    BY DEF Probe
  <2> QED BY <1>3, <1>4, <2>1, <2>2 DEF At, Settles
<1>6. ReadCache(p) => Effect
  <2> SUFFICES ASSUME ReadCache(p) PROVE Effect
    OBVIOUS
  <2>1. UNCHANGED <<setting, path, cached, now, memo>> /\ Resolving(find[p])
    BY DEF ReadCache, Resolving
  <2>2. \/ (cached = "good" /\ Settles(p, "cache", "cached")) \/ Settles(p, "unavailable", "alsem") \/ (At(p, "fetch") /\ UNCHANGED last)
    BY DEF ReadCache, Unavailable
  <2> QED BY <1>3, <1>4, <2>1, <2>2 DEF At, Settles
<1>7. Fetch(p) => Effect
  <2> SUFFICES ASSUME Fetch(p) PROVE Effect
    OBVIOUS
  <2>1. UNCHANGED <<setting, path, cached, now, memo>> /\ Resolving(find[p])
    BY DEF Fetch, Resolving
  <2>2. \/ Settles(p, "unavailable", "alsem") \/ (At(p, "write") /\ UNCHANGED last)
    BY DEF Fetch, Unavailable
  <2> QED BY <1>3, <1>4, <2>1, <2>2 DEF At, Settles
<1>8. Write(p) => Effect
  <2> SUFFICES ASSUME Write(p) PROVE Effect
    OBVIOUS
  <2>1. UNCHANGED <<setting, path, cached, now, memo>> /\ Resolving(find[p])
    BY DEF Write, Resolving
  <2>2. \/ Settles(p, "unavailable", "alsem") \/ (At(p, "rename") /\ UNCHANGED last)
    BY DEF Write, Unavailable
  <2> QED BY <1>3, <1>4, <2>1, <2>2 DEF At, Settles
<1>9. Rename(p) => Effect
  <2> SUFFICES ASSUME Rename(p) PROVE Effect
    OBVIOUS
  <2>1. UNCHANGED <<setting, path, now, memo>> /\ Resolving(find[p])
    BY DEF Rename, Resolving
  <2>2. \/ (cached' = "good" /\ Settles(p, "download", "cached")) \/ (cached' = cached /\ Settles(p, "unavailable", "alsem"))
    BY DEF Rename, Unavailable
  <2> QED BY <1>4, <2>1, <2>2 DEF At, Settles
<1> QED BY <1>5, <1>6, <1>7, <1>8, <1>9 DEF ResolverStep, Moves, Resolves

LEMMA ResolverSound ==
  ASSUME GraphTyping, GInv, NEW p \in Process, ResolverStep(p)
  PROVE  /\ BinaryTyping' /\ ProcessSound'
         /\ \A b \in Call : Timely(build[b], find'[ProcessOf[b]], last'[ProcessOf[b]], memo'[ProcessOf[b]])
         /\ cached' \in {cached, "good"}
<1>1. UNCHANGED <<setting, path, now, memo>> /\ Resolving(find[p]) /\ cached' \in {cached, "good"}
  BY ResolverEffect
<1>2. PICK f \in Finds \ {"unasked"} : find' = [find EXCEPT ![p] = f]
  BY ResolverEffect
<1>3. PICK r \in Resolution : last' = [last EXCEPT ![p] = r] /\ (r.binary = "cached" => cached' = "good")
  BY ResolverEffect
<1>4. /\ now \in 0..MaxNow /\ memo \in [Process -> 0..MaxNow] /\ find \in [Process -> Finds] /\ MemoSpan \in Nat \ {0} /\ MaxNow \in Nat
      /\ last \in [Process -> Resolution]
  BY BinaryAssumption DEF GraphTyping, BinaryTyping, Resolution
<1>5. BinaryTyping'
  <2>1. last' \in [Process -> Resolution] /\ find' \in [Process -> Finds] /\ cached' \in Files
    BY <1>1, <1>2, <1>3, <1>4 DEF GraphTyping, BinaryTyping, Files
  <2> QED BY <1>1, <2>1 DEF GraphTyping, BinaryTyping, Resolution
<1>6. ASSUME NEW q \in Process
      PROVE  /\ memo'[q] <= now' /\ (Resolving(find'[q]) => now' < memo'[q] + MemoSpan)
             /\ (last'[q].binary = "cached" => cached' = "good")
  <2>1. CASE q = p
    BY <1>1, <1>2, <1>3, <1>4, <2>1 DEF GInv, ProcessSound
  <2>2. CASE q # p
    <3>1. find'[q] = find[q] /\ last'[q] = last[q] /\ memo'[q] = memo[q] /\ now' = now
      BY <1>1, <1>2, <1>3, <1>4, <2>2
    <3>2. cached = "good" => cached' = "good"
      BY <1>1
    <3> QED BY <3>1, <3>2 DEF GInv, ProcessSound
  <2> QED BY <2>1, <2>2
<1>7. ASSUME NEW b \in Call
      PROVE  Timely(build[b], find'[ProcessOf[b]], last'[ProcessOf[b]], memo'[ProcessOf[b]])
  <2>1. ProcessOf[b] \in Process /\ Timely(build[b], find[ProcessOf[b]], last[ProcessOf[b]], memo[ProcessOf[b]])
    BY GraphAssumption DEF GInv, BuildsSound
  <2>2. CASE ProcessOf[b] = p
    BY <1>1, <1>2, <1>4, <2>1, <2>2 DEF Timely, Resolving
  <2>3. CASE ProcessOf[b] # p
    BY <1>1, <1>2, <1>3, <1>4, <2>1, <2>3
  <2> QED BY <2>2, <2>3
<1> QED BY <1>1, <1>5, <1>6, <1>7 DEF ProcessSound

-----------------------------------------------------------------------------
(* A build goes on *)

\* Nothing of a build matters to the calls and to the cache but its key and whether it is over.
LEMMA GoesSound ==
  ASSUME GraphTyping, GInv, NEW b \in Call, NEW r \in Build, Goes(b, r), UNCHANGED <<choice, project>>,
         Running(b), r.stage \in {"binary", "al-sem", "extract", "stitch"}, r.key = build[b].key
  PROVE  /\ build' \in [Call -> Build] /\ build'[b] = r /\ \A d \in Call \ {b} : build'[d] = build[d]
         /\ CallsSound' /\ EntriesSound' /\ NoneEvicted'
<1>1. build \in [Call -> Build] /\ UNCHANGED <<call, entries>> /\ build' = [build EXCEPT ![b] = r]
  BY DEF GraphTyping, Goes
<1>2. build' \in [Call -> Build] /\ build'[b] = r /\ \A d \in Call \ {b} : build'[d] = build[d]
  BY <1>1
<1>3. \A d \in Call : build'[d].key = build[d].key /\ (build'[d].stage = "idle" <=> build[d].stage = "idle")
                       /\ (build'[d].stage \in {"built", "failed"} => build'[d] = build[d])
                       /\ (build[d].stage \in {"built", "failed"} => build'[d] = build[d])
                       /\ (build'[d].stage = "failed" <=> build[d].stage = "failed")
  BY <1>2 DEF Running
<1>4. CallsSound'
  <2>1. ASSUME NEW c \in Call
        PROVE  /\ call[c].since <= project
               /\ (call[c].stage \in {"idle", "reading"} => build[c].stage = "idle")
               /\ (call[c].stage \in {"waiting", "done"} =>
                     call[c].build \in Call /\ build[call[c].build].stage # "idle" /\ build[call[c].build].key >= call[c].since)
               /\ (call[c].stage = "done" => Over(call[c].build) /\ call[c].answer = ResultOf(build[call[c].build]))
    BY DEF GInv, CallsSound
  <2>2. ASSUME NEW c \in Call, call[c].stage = "done"
        PROVE  build[call[c].build].stage \in {"built", "failed"} /\ call[c].build \in Call
    BY <2>1, <2>2 DEF Over
  <2>3. ASSUME NEW c \in Call, call[c].stage = "done"
        PROVE  build'[call[c].build] = build[call[c].build]
    BY <1>3, <2>2, <2>3
  <2>4. ASSUME NEW c \in Call, call[c].stage = "done"
        PROVE  Over(call[c].build)' /\ call'[c].answer = ResultOf(build[call[c].build])'
    <3>1. call' = call /\ call[c].answer = ResultOf(build[call[c].build])
      BY <1>1, <2>1, <2>4
    <3>2. ResultOf(build[call[c].build])' = ResultOf(build[call[c].build])
      BY <2>3, <2>4, <3>1 DEF ResultOf
    <3>3. Over(call[c].build)'
      BY <2>2, <2>3, <2>4, <3>1 DEF Over
    <3> QED BY <3>1, <3>2, <3>3, Zenon
  <2> QED BY <1>1, <1>3, <2>1, <2>4 DEF CallsSound
<1>5. \A p \in Process : entries[p] \in Seq(Call)
  BY DEF GraphTyping
<1>6. \A p \in Process : \A i \in DOMAIN entries[p] : entries[p][i] \in Call
  BY <1>5, LenProperties
<1>7. EntriesSound'
  BY <1>1, <1>3, <1>6 DEF GInv, EntriesSound
<1>8. NoneEvicted'
  <2>1. \A p \in Process : Begun(p)' = Begun(p)
    BY <1>3 DEF Begun
  <2>2. \A d \in Call : Running(d)' => Running(d)
    BY <1>2 DEF Running
  <2> QED BY <1>1, <2>1, <2>2 DEF GInv, NoneEvicted
<1> QED BY <1>2, <1>4, <1>7, <1>8

-----------------------------------------------------------------------------
(* A build ends *)

LEMMA DroppedSound ==
  ASSUME NEW list \in Seq(Call), NEW key,
         \A i, j \in DOMAIN list : build[list[i]].key = build[list[j]].key => i = j
  PROVE  /\ Dropped(list, key) \in Seq(Call) /\ Len(Dropped(list, key)) <= Len(list)
         /\ \A i \in DOMAIN Dropped(list, key) :
              \E n \in DOMAIN list : Dropped(list, key)[i] = list[n] /\ build[list[n]].key # key
         /\ \A i, j \in DOMAIN Dropped(list, key) :
              build[Dropped(list, key)[i]].key = build[Dropped(list, key)[j]].key => i = j
         /\ \A n \in DOMAIN list :
              build[list[n]].key # key => \E i \in DOMAIN Dropped(list, key) : Dropped(list, key)[i] = list[n]
<1> DEFINE l == Dropped(list, key)
<1>0. Len(list) \in Nat
  BY LenProperties
<1>1. CASE Places(list, key) = {}
  <2>1. l = list
    BY <1>1, DroppedTyped
  <2>2. \A n \in DOMAIN list : build[list[n]].key # key
    BY <1>1 DEF Places
  <2> QED BY <1>0, <2>1, <2>2
<1>2. CASE Places(list, key) # {}
  <2>1. PICK k \in Places(list, key) : l = RemoveAt(list, k)
    BY <1>2, DroppedTyped
  <2> DEFINE left == RemoveAt(list, k)
  <2>2. k \in DOMAIN list /\ build[list[k]].key = key
    BY <2>1 DEF Places
  <2>3. \A n \in DOMAIN list \ {k} : build[list[n]].key # key
    BY <2>2
  <2>4. left \in Seq(Call) /\ Len(left) = Len(list) - 1
    BY <2>2, Removed
  <2>5. /\ \A i, j \in DOMAIN left : \E n, m \in DOMAIN list \ {k} : left[i] = list[n] /\ left[j] = list[m] /\ (n = m => i = j)
        /\ \A n \in DOMAIN list \ {k} : \E i \in DOMAIN left : left[i] = list[n]
    <3>1. \A i, j \in DOMAIN left : \E n, m \in DOMAIN list \ {k} : left[i] = list[n] /\ left[j] = list[m] /\ (n = m => i = j)
      BY <2>2, RemovedPlaces
    <3>2. \A n \in DOMAIN list \ {k} : \E i \in DOMAIN left : left[i] = list[n]
      BY <2>2, RemovedPlaces
    <3> QED BY <3>1, <3>2
  <2>9. l = left
    BY <2>1
  <2> HIDE DEF left
  <2>6. \A i \in DOMAIN left : \E n \in DOMAIN list : left[i] = list[n] /\ build[list[n]].key # key
    BY <2>3, <2>5
  <2>7. ASSUME NEW i \in DOMAIN left, NEW j \in DOMAIN left, build[left[i]].key = build[left[j]].key
        PROVE  i = j
    <3>1. PICK n \in DOMAIN list \ {k}, m \in DOMAIN list \ {k} : left[i] = list[n] /\ left[j] = list[m] /\ (n = m => i = j)
      BY <2>5
    <3>2. build[list[n]].key = build[list[m]].key
      BY <2>7, <3>1
    <3> QED BY <3>1, <3>2
  <2>8. \A n \in DOMAIN list : build[list[n]].key # key => \E i \in DOMAIN left : left[i] = list[n]
    BY <2>2, <2>5
  <2> QED BY <1>0, <2>4, <2>6, <2>7, <2>8, <2>9
<1> QED BY <1>1, <1>2

\* What holds of a call whose build is the record r.
SoundCall(k, own, r, edits) ==
  /\ k.since <= edits
  /\ k.stage \in {"idle", "reading"} => own.stage = "idle"
  /\ k.stage \in {"waiting", "done"} => k.build \in Call /\ r.stage # "idle" /\ r.key >= k.since
  /\ k.stage = "done" => r.stage \in {"built", "failed"} /\ k.answer = ResultOf(r)

LEMMA CallsSoundEach == CallsSound <=> \A c \in Call : SoundCall(call[c], build[c], build[call[c].build], project)
  BY DEF CallsSound, SoundCall, Over

\* Whoever awaits the build is answered by it; if it failed, nobody finds it in the cache any more.
LEMMA EndSound ==
  ASSUME GraphTyping, GInv, NEW b \in Call, NEW r \in Build, End(b, r), UNCHANGED <<choice, project>>,
         Running(b), r.stage \in {"built", "failed"}, r.key = build[b].key
  PROVE  /\ build' \in [Call -> Build] /\ build'[b] = r /\ \A d \in Call \ {b} : build'[d] = build[d]
         /\ call' \in [Call -> ACall] /\ entries' \in [Process -> Seq(Call)]
         /\ CallsSound' /\ EntriesSound' /\ NoneEvicted'
<1> DEFINE P == ProcessOf[b]
<1>1. /\ build \in [Call -> Build] /\ build' = [build EXCEPT ![b] = r] /\ call \in [Call -> ACall]
      /\ entries \in [Process -> Seq(Call)] /\ P \in Process /\ BuildAnswered(b, r)
  BY GraphAssumption DEF GraphTyping, End
<1>2. build' \in [Call -> Build] /\ build'[b] = r /\ \A d \in Call \ {b} : build'[d] = build[d]
  BY <1>1
<1>3. /\ \A d \in Call : build'[d].key = build[d].key /\ (build'[d].stage = "idle" <=> build[d].stage = "idle")
      /\ \A d \in Call : build[d].stage \in {"built", "failed"} => build'[d] = build[d]
      /\ \A d \in Call : Running(d)' => Running(d) /\ d # b
  BY <1>2 DEF Running
<1>4. ASSUME NEW c \in Call
      PROVE  \/ (call'[c] = call[c] /\ ~(call[c].stage = "waiting" /\ call[c].build = b))
             \/ (/\ call[c].stage = "waiting" /\ call[c].build = b
                 /\ call'[c] = [call[c] EXCEPT !.stage = "done", !.answer = ResultOf(r)])
  BY <1>1 DEF BuildAnswered
<1>5. call' \in [Call -> ACall]
  <2>1. ResultOf(r) \in Answer
    BY ResultTyped
  <2>2. ASSUME NEW c \in Call
        PROVE  call'[c] \in ACall
    <3>1. call[c] \in ACall
      BY <1>1
    <3>2. [call[c] EXCEPT !.stage = "done", !.answer = ResultOf(r)] \in ACall
      BY <2>1, <3>1 DEF ACall
    <3> QED BY <1>4, <3>1, <3>2
  <2>3. call' = [c \in Call |-> call'[c]]
    BY <1>1 DEF BuildAnswered
  <2> QED BY <2>2, <2>3
<1>6. CallsSound'
  <2>1. ASSUME NEW c \in Call
        PROVE  SoundCall(call'[c], build'[c], build'[call'[c].build], project')
    <3>1. SoundCall(call[c], build[c], build[call[c].build], project) /\ call[c] \in ACall
      BY <1>1, CallsSoundEach DEF GInv
    <3>2. CASE call'[c] = call[c]
      <4>1. call[c].build \in Call /\ call[c].stage = "done" => build'[call[c].build] = build[call[c].build]
        BY <1>3, <3>1 DEF SoundCall
      <4> QED BY <1>3, <3>1, <3>2, <4>1 DEF SoundCall
    <3>3. CASE /\ call[c].stage = "waiting" /\ call[c].build = b
               /\ call'[c] = [call[c] EXCEPT !.stage = "done", !.answer = ResultOf(r)]
      <4>1. /\ call'[c].stage = "done" /\ call'[c].build = b /\ call'[c].since = call[c].since
            /\ call'[c].answer = ResultOf(r)
        BY <3>1, <3>3 DEF ACall
      <4>2. r.stage # "idle" /\ r.key >= call[c].since /\ call[c].since <= project
        BY <3>1, <3>3 DEF SoundCall
      <4> QED BY <1>2, <4>1, <4>2 DEF SoundCall
    <3> QED BY <1>4, <3>2, <3>3
  <2>2. CallsSound' <=> \A c \in Call : SoundCall(call'[c], build'[c], build'[call'[c].build], project')
    BY DEF CallsSound, SoundCall, Over, ResultOf
  <2> QED BY <2>1, <2>2
<1>7. ASSUME NEW p \in Process
      PROVE  /\ Len(entries[p]) <= MaxEntries /\ entries[p] \in Seq(Call)
             /\ \A i \in DOMAIN entries[p] : /\ entries[p][i] \in Call /\ ProcessOf[entries[p][i]] = p
                                            /\ build[entries[p][i]].stage \notin {"idle", "failed"}
             /\ \A i, j \in DOMAIN entries[p] : build[entries[p][i]].key = build[entries[p][j]].key => i = j
  <2>1. entries[p] \in Seq(Call) /\ \A i \in DOMAIN entries[p] : entries[p][i] \in Call
    BY <1>1, LenProperties
  <2> QED BY <2>1 DEF GInv, EntriesSound
<1>8. ASSUME NEW p \in Process
      PROVE  \/ (entries'[p] = entries[p] /\ (p = P => r.stage = "built"))
             \/ (p = P /\ entries'[p] = Dropped(entries[p], r.key))
  BY <1>1 DEF End
<1>9. entries' \in [Process -> Seq(Call)]
  <2>1. CASE r.stage = "failed"
    <3>1. Dropped(entries[P], build[b].key) \in Seq(Call)
      BY <1>1, DroppedTyped
    <3> QED BY <1>1, <2>1, <3>1 DEF End
  <2>2. CASE r.stage # "failed"
    BY <1>1, <2>2 DEF End
  <2> QED BY <2>1, <2>2
<1>10. ASSUME NEW p \in Process
       PROVE  /\ Len(entries'[p]) <= MaxEntries
              /\ \A i \in DOMAIN entries'[p] : /\ ProcessOf[entries'[p][i]] = p /\ build'[entries'[p][i]].stage \notin {"idle", "failed"}
              /\ \A i, j \in DOMAIN entries'[p] : build'[entries'[p][i]].key = build'[entries'[p][j]].key => i = j
              /\ \A d \in Call : Running(d)' /\ (\E i \in DOMAIN entries[p] : entries[p][i] = d)
                                 /\ (d # b /\ ProcessOf[d] = P /\ p = P => build[d].key # r.key)
                                => \E i \in DOMAIN entries'[p] : entries'[p][i] = d
  <2>1. CASE entries'[p] = entries[p] /\ (p = P => r.stage = "built")
    <3>1. \A d \in Call : build[d].stage \notin {"idle", "failed"} /\ (ProcessOf[d] = p) => build'[d].stage \notin {"idle", "failed"}
      BY <1>2, <1>3, <2>1
    <3> QED BY <1>3, <1>7, <2>1, <3>1
  <2>2. CASE p = P /\ entries'[p] = Dropped(entries[p], r.key)
    <3> DEFINE old == entries[p]
    <3> DEFINE l == Dropped(old, r.key)
    <3>1. /\ Len(l) <= Len(old) /\ Len(l) \in Nat /\ Len(old) \in Nat
          /\ \A i \in DOMAIN l : \E n \in DOMAIN old : l[i] = old[n] /\ build[old[n]].key # r.key
          /\ \A i, j \in DOMAIN l : build[l[i]].key = build[l[j]].key => i = j
          /\ \A n \in DOMAIN old : build[old[n]].key # r.key => \E i \in DOMAIN l : l[i] = old[n]
      BY <1>7, DroppedSound, LenProperties
    <3>2. entries'[p] = l
      BY <2>2
    <3> HIDE DEF l
    <3>3. \A n \in DOMAIN old : old[n] \in Call /\ ProcessOf[old[n]] = p /\ build[old[n]].stage \notin {"idle", "failed"}
      BY <1>7
    <3>4. Len(l) <= MaxEntries
      BY <1>7, <3>1, GraphAssumption
    <3> HIDE DEF old
    <3>5. ASSUME NEW i \in DOMAIN l
          PROVE  l[i] \in Call /\ ProcessOf[l[i]] = p /\ build'[l[i]].stage \notin {"idle", "failed"}
      <4>1. PICK n \in DOMAIN old : l[i] = old[n] /\ build[old[n]].key # r.key
        BY <3>1
      <4>2. old[n] # b /\ old[n] \in Call
        BY <3>3, <4>1
      <4> QED BY <1>2, <3>3, <4>1, <4>2
    <3>6. \A i, j \in DOMAIN l : build'[l[i]].key = build'[l[j]].key => i = j
      BY <1>3, <3>1, <3>5
    <3>7. ASSUME NEW d \in Call, Running(d)', NEW n \in DOMAIN old, old[n] = d, d # b => build[d].key # r.key
          PROVE  \E i \in DOMAIN l : l[i] = d
      BY <1>3, <3>1, <3>7
    <3>8. \A i \in DOMAIN old : ProcessOf[old[i]] = P
      BY <2>2, <3>3
    <3> QED BY <2>2, <3>2, <3>4, <3>5, <3>6, <3>7, <3>8 DEF old
  <2> QED BY <1>8, <2>1, <2>2
<1>11. EntriesSound'
  BY <1>10 DEF EntriesSound
<1>12. NoneEvicted'
  <2>1. ASSUME NEW p \in Process
        PROVE  /\ IsFiniteSet(Begun(p)')
               /\ Cardinality(Begun(p)') <= MaxEntries =>
                    \A d \in Call : ProcessOf[d] = p /\ Running(d)' => \E i \in DOMAIN entries'[p] : entries'[p][i] = d
    <3>1. Begun(p)' = Begun(p)
      BY <1>3 DEF Begun
    <3>2. IsFiniteSet(Begun(p))
      BY DEF GInv, NoneEvicted
    <3>3. ASSUME Cardinality(Begun(p)) <= MaxEntries, NEW d \in Call, ProcessOf[d] = p, Running(d)'
          PROVE  \E i \in DOMAIN entries'[p] : entries'[p][i] = d
      <4>1. Running(d) /\ d # b
        BY <1>3, <3>3
      <4>2. \E i \in DOMAIN entries[p] : entries[p][i] = d
        BY <3>3, <4>1 DEF GInv, NoneEvicted
      <4>3. p = P => build[d].key # r.key
        <5>1. SUFFICES ASSUME p = P PROVE build[d].key # build[b].key
          OBVIOUS
        <5>2. \E j \in DOMAIN entries[p] : entries[p][j] = b
          BY <3>3, <5>1 DEF GInv, NoneEvicted
        <5> QED BY <1>7, <4>1, <4>2, <5>2
      <4> QED BY <1>10, <3>3, <4>2, <4>3
    <3> QED BY <3>1, <3>2, <3>3
  <2> QED BY <2>1 DEF NoneEvicted
<1> QED BY <1>2, <1>5, <1>6, <1>9, <1>11, <1>12

-----------------------------------------------------------------------------
(* The cache is asked *)

Moved(s, k) == Append(RemoveAt(s, k), s[k])

\* Re-inserting an element changes the order only.
LEMMA MovedPlaces ==
  ASSUME NEW S, NEW s \in Seq(S), NEW k \in DOMAIN s
  PROVE  /\ Moved(s, k) \in Seq(S) /\ Len(Moved(s, k)) = Len(s)
         /\ \A i, j \in DOMAIN Moved(s, k) :
              \E n, m \in DOMAIN s : Moved(s, k)[i] = s[n] /\ Moved(s, k)[j] = s[m] /\ (n = m => i = j)
         /\ \A n \in DOMAIN s : \E i \in DOMAIN Moved(s, k) : Moved(s, k)[i] = s[n]
<1> DEFINE r == RemoveAt(s, k)
<1> DEFINE moved == Append(r, s[k])
<1>1. r \in Seq(S) /\ Len(r) = Len(s) - 1 /\ s[k] \in S /\ DOMAIN s = 1..Len(s) /\ Len(s) \in Nat
  BY Removed, LenProperties
<1>2. /\ \A i, j \in DOMAIN r : \E n, m \in DOMAIN s \ {k} : r[i] = s[n] /\ r[j] = s[m] /\ (n = m => i = j)
      /\ \A n \in DOMAIN s \ {k} : \E i \in DOMAIN r : r[i] = s[n]
  <2>1. \A i, j \in DOMAIN r : \E n, m \in DOMAIN s \ {k} : r[i] = s[n] /\ r[j] = s[m] /\ (n = m => i = j)
    BY RemovedPlaces
  <2>2. \A n \in DOMAIN s \ {k} : \E i \in DOMAIN r : r[i] = s[n]
    BY RemovedPlaces
  <2> QED BY <2>1, <2>2
<1> HIDE DEF r
<1>3. /\ moved \in Seq(S) /\ Len(moved) = Len(r) + 1 /\ \A i \in 1..Len(r) : moved[i] = r[i]
      /\ moved[Len(r) + 1] = s[k]
  BY <1>1, AppendProperties
<1> HIDE DEF moved
<1>4. DOMAIN moved = 1..Len(s) /\ DOMAIN r = 1..(Len(s) - 1) /\ Len(r) = Len(s) - 1
  BY <1>1, <1>3, LenProperties
<1>5. moved[Len(s)] = s[k] /\ \A i \in DOMAIN r : moved[i] = r[i]
  BY <1>1, <1>3, <1>4
<1>6. \A i \in DOMAIN moved : i # Len(s) => i \in DOMAIN r
  BY <1>1, <1>4
<1>7. ASSUME NEW i \in DOMAIN moved, NEW j \in DOMAIN moved
      PROVE  \E n, m \in DOMAIN s : moved[i] = s[n] /\ moved[j] = s[m] /\ (n = m => i = j)
  <2>1. CASE i # Len(s) /\ j # Len(s)
    <3>1. i \in DOMAIN r /\ j \in DOMAIN r /\ moved[i] = r[i] /\ moved[j] = r[j]
      BY <1>5, <1>6, <2>1
    <3>2. PICK n \in DOMAIN s \ {k}, m \in DOMAIN s \ {k} : r[i] = s[n] /\ r[j] = s[m] /\ (n = m => i = j)
      BY <1>2, <3>1
    <3> QED BY <3>1, <3>2
  <2>2. CASE i = Len(s) /\ j = Len(s)
    BY <1>5, <2>2
  <2>3. CASE i = Len(s) /\ j # Len(s)
    <3>1. j \in DOMAIN r /\ moved[j] = r[j]
      BY <1>5, <1>6, <2>3
    <3>2. PICK m \in DOMAIN s \ {k} : r[j] = s[m]
      BY <1>2, <3>1
    <3> QED BY <1>5, <2>3, <3>1, <3>2
  <2>4. CASE i # Len(s) /\ j = Len(s)
    <3>1. i \in DOMAIN r /\ moved[i] = r[i]
      BY <1>5, <1>6, <2>4
    <3>2. PICK n \in DOMAIN s \ {k} : r[i] = s[n]
      BY <1>2, <3>1
    <3> QED BY <1>5, <2>4, <3>1, <3>2
  <2> QED BY <2>1, <2>2, <2>3, <2>4
<1>8. ASSUME NEW n \in DOMAIN s
      PROVE  \E i \in DOMAIN moved : moved[i] = s[n]
  <2>1. CASE n = k
    BY <1>1, <1>4, <1>5, <2>1
  <2>2. CASE n # k
    <3>1. PICK i \in DOMAIN r : r[i] = s[n]
      BY <1>2, <2>2
    <3>2. i \in DOMAIN moved
      BY <1>1, <1>4
    <3> QED BY <1>5, <3>1, <3>2
  <2> QED BY <2>1, <2>2
<1>9. moved \in Seq(S) /\ Len(moved) = Len(s)
  BY <1>1, <1>3, <1>4
<1>10. Moved(s, k) = moved
  BY DEF Moved, moved, r
<1> QED BY <1>7, <1>8, <1>9, <1>10

\* A call that finds a build is given its answer, which is a graph, or waits for it.
LEMMA JoinSound ==
  ASSUME GraphTyping, GInv, NEW c \in Call, call[c].stage = "reading", NEW k \in Hits(c), Join(c, k), UNCHANGED <<choice, project>>
  PROVE  /\ call' \in [Call -> ACall] /\ entries' \in [Process -> Seq(Call)]
         /\ CallsSound' /\ EntriesSound' /\ NoneEvicted'
         /\ call'[c].stage = "done" => call'[c].answer.ok
<1> DEFINE P == ProcessOf[c]
<1> DEFINE old == entries[P]
<1> DEFINE b == old[k]
<1> DEFINE new == Moved(old, k)
<1>1. P \in Process /\ old \in Seq(Call) /\ call \in [Call -> ACall] /\ build \in [Call -> Build] /\ entries \in [Process -> Seq(Call)]
  BY GraphAssumption DEF GraphTyping
<1>2. k \in DOMAIN old /\ build[b].key = project
  BY DEF Hits, Places
<1>3. b \in Call /\ build[b].stage \notin {"idle", "failed"}
  BY <1>1, <1>2, LenProperties DEF GInv, EntriesSound
<1>4. /\ entries' = [entries EXCEPT ![P] = new] /\ UNCHANGED build
      /\ call' = [call EXCEPT ![c].build = b, ![c].stage = IF Over(b) THEN "done" ELSE "waiting",
                              ![c].answer = IF Over(b) THEN ResultOf(build[b]) ELSE @]
  BY DEF Join, Moved
<1>5. /\ new \in Seq(Call) /\ Len(new) = Len(old)
      /\ \A i, j \in DOMAIN new : \E n, m \in DOMAIN old : new[i] = old[n] /\ new[j] = old[m] /\ (n = m => i = j)
      /\ \A n \in DOMAIN old : \E i \in DOMAIN new : new[i] = old[n]
  <2>4. old \in Seq(Call) /\ k \in DOMAIN old
    BY <1>1, <1>2
  <2> HIDE DEF old, P
  <2>1. new \in Seq(Call) /\ Len(new) = Len(old)
    BY <2>4, MovedPlaces
  <2>2. \A i, j \in DOMAIN new : \E n, m \in DOMAIN old : new[i] = old[n] /\ new[j] = old[m] /\ (n = m => i = j)
    BY <2>4, MovedPlaces
  <2>3. \A n \in DOMAIN old : \E i \in DOMAIN new : new[i] = old[n]
    BY <2>4, MovedPlaces
  <2> QED BY <2>1, <2>2, <2>3
<1> HIDE DEF new, b
<1>6. /\ call'[c] = [call[c] EXCEPT !.build = b, !.stage = IF Over(b) THEN "done" ELSE "waiting",
                                   !.answer = IF Over(b) THEN ResultOf(build[b]) ELSE @]
      /\ \A d \in Call \ {c} : call'[d] = call[d]
  BY <1>1, <1>4
<1>7. call'[c] \in ACall /\ call' \in [Call -> ACall]
  <2>1. call[c] \in ACall /\ ResultOf(build[b]) \in Answer
    BY <1>1, <1>3, ResultTyped
  <2>2. call'[c] \in ACall
    BY <1>3, <1>6, <2>1 DEF ACall
  <2> QED BY <1>1, <1>4, <1>6, <2>2
<1>8. /\ call'[c].since = call[c].since /\ call'[c].build = b /\ call'[c].stage = IF Over(b) THEN "done" ELSE "waiting"
      /\ Over(b) => call'[c].answer = ResultOf(build[b])
  BY <1>1, <1>6 DEF ACall
<1>9. CallsSound'
  <2>1. \A d \in Call : SoundCall(call[d], build[d], build[call[d].build], project)
    BY CallsSoundEach DEF GInv
  <2>2. SoundCall(call'[c], build'[c], build'[call'[c].build], project')
    <3>1. call[c].since <= project /\ project \in 0..MaxEdits /\ call[c].since \in 0..MaxEdits
      BY <1>1, <2>1 DEF SoundCall, GraphTyping, ACall
    <3>2. build[b].key >= call[c].since /\ build[b].stage # "idle" /\ b \in Call
      BY <1>2, <1>3, <3>1
    <3>3. call'[c].stage \in {"waiting", "done"} /\ (call'[c].stage = "done" <=> build[b].stage \in {"built", "failed"})
      BY <1>8 DEF Over
    <3>4. call'[c].stage = "done" => call'[c].answer = ResultOf(build[b])
      BY <1>8
    <3>5. build' = build /\ project' = project /\ call'[c].since = call[c].since /\ call'[c].build = b
      BY <1>4, <1>8
    <3>6. SoundCall(call'[c], build[c], build[b], project)
      BY <3>1, <3>2, <3>3, <3>4, <3>5 DEF SoundCall
    <3> QED BY <3>5, <3>6
  <2>3. \A d \in Call \ {c} : SoundCall(call'[d], build'[d], build'[call'[d].build], project')
    BY <1>4, <1>6, <2>1
  <2>4. CallsSound' <=> \A d \in Call : SoundCall(call'[d], build'[d], build'[call'[d].build], project')
    BY DEF CallsSound, SoundCall, Over, ResultOf
  <2> QED BY <2>2, <2>3, <2>4
<1>10. entries' \in [Process -> Seq(Call)] /\ entries'[P] = new /\ \A p \in Process \ {P} : entries'[p] = entries[p]
  BY <1>1, <1>4, <1>5
<1>11. EntriesSound'
  <2>1. ASSUME NEW p \in Process
        PROVE  /\ Len(entries'[p]) <= MaxEntries
               /\ \A i \in DOMAIN entries'[p] : ProcessOf[entries'[p][i]] = p /\ build[entries'[p][i]].stage \notin {"idle", "failed"}
               /\ \A i, j \in DOMAIN entries'[p] : build[entries'[p][i]].key = build[entries'[p][j]].key => i = j
    <3>1. /\ Len(entries[p]) <= MaxEntries
          /\ \A i \in DOMAIN entries[p] : ProcessOf[entries[p][i]] = p /\ build[entries[p][i]].stage \notin {"idle", "failed"}
          /\ \A i, j \in DOMAIN entries[p] : build[entries[p][i]].key = build[entries[p][j]].key => i = j
      BY DEF GInv, EntriesSound
    <3>2. CASE p = P
      <4>1. ASSUME NEW i \in DOMAIN new
            PROVE  ProcessOf[new[i]] = p /\ build[new[i]].stage \notin {"idle", "failed"}
        <5>1. PICK n \in DOMAIN old, m \in DOMAIN old : new[i] = old[n] /\ new[i] = old[m] /\ (n = m => i = i)
          BY <1>5
        <5> QED BY <3>1, <3>2, <5>1
      <4>2. ASSUME NEW i \in DOMAIN new, NEW j \in DOMAIN new, build[new[i]].key = build[new[j]].key
            PROVE  i = j
        <5>1. PICK n \in DOMAIN old, m \in DOMAIN old : new[i] = old[n] /\ new[j] = old[m] /\ (n = m => i = j)
          BY <1>5
        <5> QED BY <3>1, <3>2, <4>2, <5>1
      <4> QED BY <1>5, <1>10, <3>1, <3>2, <4>1, <4>2
    <3>3. CASE p # P
      BY <1>10, <3>1, <3>3
    <3> QED BY <3>2, <3>3
  <2> QED BY <1>4, <2>1 DEF EntriesSound
<1>12. NoneEvicted'
  <2>1. \A p \in Process : Begun(p)' = Begun(p)
    BY <1>4 DEF Begun
  <2>2. \A d \in Call : Running(d)' <=> Running(d)
    BY <1>4 DEF Running
  <2>3. ASSUME NEW p \in Process, NEW d \in Call, \E i \in DOMAIN entries[p] : entries[p][i] = d
        PROVE  \E i \in DOMAIN entries'[p] : entries'[p][i] = d
    <3>1. CASE p = P
      BY <1>5, <1>10, <2>3, <3>1
    <3>2. CASE p # P
      BY <1>10, <2>3, <3>2
    <3> QED BY <3>1, <3>2
  <2>4. ASSUME NEW p \in Process
        PROVE  /\ IsFiniteSet(Begun(p)')
               /\ Cardinality(Begun(p)') <= MaxEntries =>
                    \A d \in Call : ProcessOf[d] = p /\ Running(d)' => \E i \in DOMAIN entries'[p] : entries'[p][i] = d
    <3>1. /\ IsFiniteSet(Begun(p))
          /\ Cardinality(Begun(p)) <= MaxEntries =>
               \A d \in Call : ProcessOf[d] = p /\ Running(d) => \E i \in DOMAIN entries[p] : entries[p][i] = d
      BY DEF GInv, NoneEvicted
    <3> QED BY <2>1, <2>2, <2>3, <3>1
  <2> QED BY <2>4 DEF NoneEvicted
<1>13. call'[c].stage = "done" => call'[c].answer.ok
  <2>1. SUFFICES ASSUME call'[c].stage = "done" PROVE call'[c].answer.ok
    OBVIOUS
  <2>2. Over(b) /\ build[b].stage = "built"
    BY <1>3, <1>8, <2>1 DEF Over
  <2>3. call'[c].answer = ResultOf(build[b])
    BY <1>8, <2>2
  <2> QED BY <2>2, <2>3, ResultOk
<1> QED BY <1>7, <1>9, <1>10, <1>11, <1>12, <1>13

\* The cache of a process holds builds it has begun, each once.
LEMMA EntriesBegun ==
  ASSUME GraphTyping, GInv, NEW p \in Process
  PROVE  Len(entries[p]) <= Cardinality(Begun(p)) /\ Len(entries[p]) \in Nat /\ Cardinality(Begun(p)) \in Nat
<1> DEFINE list == entries[p]
<1>1. list \in Seq(Call) /\ DOMAIN list = 1..Len(list) /\ Len(list) \in Nat /\ list \in [1..Len(list) -> Call]
  BY LenProperties DEF GraphTyping
<1>2. /\ \A i \in DOMAIN list : list[i] \in Call /\ ProcessOf[list[i]] = p /\ build[list[i]].stage # "idle"
      /\ \A i, j \in DOMAIN list : build[list[i]].key = build[list[j]].key => i = j
  BY <1>1 DEF GInv, EntriesSound
<1>3. \A i \in 1..Len(list) : list[i] \in Begun(p)
  BY <1>1, <1>2 DEF Begun
<1> HIDE DEF list
<1>4. list \in [1..Len(list) -> Begun(p)]
  BY <1>1, <1>3
<1>5. list \in Injection(1..Len(list), Begun(p))
  BY <1>1, <1>2, <1>4 DEF Injection, IsInjective
<1>6. IsFiniteSet(Begun(p))
  BY DEF GInv, NoneEvicted
<1>7. Cardinality(1..Len(list)) <= Cardinality(Begun(p))
  BY <1>5, <1>6, FS_Injection
<1>8. Cardinality(1..Len(list)) = Len(list)
  BY <1>1, FS_Interval
<1> QED BY <1>1, <1>6, <1>7, <1>8, FS_CardinalityType DEF list

\* Where the builds are once the newest was added and the oldest may have been evicted.
LEMMA KeptPlaces ==
  ASSUME NEW list \in Seq(Call), NEW c \in Call, Len(list) <= MaxEntries
  PROVE  \E o \in {0, 1} :
           /\ Len(Kept(Append(list, c))) = Len(list) + 1 - o /\ Len(list) + 1 - o <= MaxEntries
           /\ Len(list) + 1 <= MaxEntries => o = 0
           /\ \A i \in DOMAIN Kept(Append(list, c)) :
                \/ i + o \in DOMAIN list /\ Kept(Append(list, c))[i] = list[i + o]
                \/ i + o = Len(list) + 1 /\ Kept(Append(list, c))[i] = c
<1> DEFINE l == Kept(Append(list, c))
<1>1. Len(list) \in Nat /\ DOMAIN list = 1..Len(list) /\ MaxEntries \in Nat
  BY LenProperties, GraphAssumption
<1>2. /\ \A i \in 1..Len(list) : Append(list, c)[i] = list[i]
      /\ Append(list, c)[Len(list) + 1] = c /\ Len(Append(list, c)) = Len(list) + 1
  BY AppendProperties
<1>3. /\ l \in Seq(Call) /\ Len(l) <= MaxEntries
      /\ Len(list) + 1 <= MaxEntries => l = Append(list, c)
      /\ Len(list) + 1 > MaxEntries => Len(l) = Len(list) /\ \A i \in 1..Len(list) : l[i] = Append(list, c)[i + 1]
  BY KeptTyped
<1>4. DOMAIN l = 1..Len(l)
  BY <1>3, LenProperties
<1> DEFINE Shifted(o) == \A i \in DOMAIN l : (i + o \in DOMAIN list /\ l[i] = list[i + o]) \/ (i + o = Len(list) + 1 /\ l[i] = c)
<1> HIDE DEF l
<1>5. CASE Len(list) + 1 <= MaxEntries
  <2>0. l = Append(list, c) /\ Len(l) = Len(list) + 1
    BY <1>2, <1>3, <1>5
  <2>1. ASSUME NEW i \in DOMAIN l
        PROVE  (i + 0 \in DOMAIN list /\ l[i] = list[i + 0]) \/ (i + 0 = Len(list) + 1 /\ l[i] = c)
    <3>1. i \in 1..(Len(list) + 1) /\ i + 0 = i
      BY <1>1, <1>4, <2>0
    <3>2. CASE i = Len(list) + 1
      BY <1>2, <2>0, <3>1, <3>2
    <3>3. CASE i # Len(list) + 1
      <4>1. i \in 1..Len(list)
        BY <1>1, <3>1, <3>3
      <4> QED BY <1>1, <1>2, <2>0, <3>1, <4>1
    <3> QED BY <3>2, <3>3
  <2>2. Shifted(0)
    BY <2>1
  <2>3. Len(l) = Len(list) + 1 - 0 /\ Len(list) + 1 - 0 <= MaxEntries
    BY <1>1, <1>5, <2>0
  <2> QED BY <2>2, <2>3 DEF l
<1>6. CASE Len(list) + 1 > MaxEntries
  <2>1. ASSUME NEW i \in 1..Len(list)
        PROVE  (i + 1 \in 1..Len(list) /\ l[i] = list[i + 1]) \/ (i + 1 = Len(list) + 1 /\ l[i] = c)
    <3>1. l[i] = Append(list, c)[i + 1]
      BY <1>3, <1>6, <2>1
    <3>2. CASE i = Len(list)
      <4>1. i + 1 = Len(list) + 1 /\ Append(list, c)[i + 1] = c
        BY <1>2, <3>2
      <4> QED BY <3>1, <4>1
    <3>3. CASE i # Len(list)
      <4>0. i \in Nat /\ i >= 1 /\ i <= Len(list) /\ Len(list) \in Nat
        BY <1>1
      <4>1. i + 1 \in 1..Len(list)
        BY <3>3, <4>0
      <4>2. Append(list, c)[i + 1] = list[i + 1]
        BY <1>2, <4>1
      <4> QED BY <3>1, <4>1, <4>2
    <3> QED BY <3>2, <3>3
  <2>2. Shifted(1)
    BY <1>1, <1>3, <1>4, <1>6, <2>1
  <2>3. Len(l) = Len(list) + 1 - 1 /\ Len(list) + 1 - 1 <= MaxEntries /\ ~(Len(list) + 1 <= MaxEntries)
    BY <1>1, <1>3, <1>6
  <2> QED BY <2>2, <2>3 DEF l
<1> QED BY <1>1, <1>5, <1>6

\* A call that finds none begins one of its own.
LEMMA StartSound ==
  ASSUME GraphTyping, GInv, NEW c \in Call, call[c].stage = "reading", Hits(c) = {}, StartBuild(c),
         UNCHANGED <<setting, path, cached, now, last, choice, project>>
  PROVE  /\ call' \in [Call -> ACall] /\ build' \in [Call -> Build] /\ entries' \in [Process -> Seq(Call)] /\ BinaryTyping'
         /\ ProcessSound' /\ BuildsSound' /\ CallsSound' /\ EntriesSound' /\ NoneEvicted'
         /\ call'[c].stage = "waiting" /\ build'[c].stage # "al-sem"
<1> DEFINE P == ProcessOf[c]
<1> DEFINE r == [NoBuild EXCEPT !.stage = First, !.key = project, !.at = now]
<1> DEFINE old == entries[P]
<1> DEFINE new == Kept(Append(old, c))
<1>1. /\ P \in Process /\ old \in Seq(Call) /\ call \in [Call -> ACall] /\ build \in [Call -> Build] /\ entries \in [Process -> Seq(Call)]
      /\ project \in 0..MaxEdits /\ now \in 0..MaxNow /\ choice \in {"auto", "al-sem", "altool"}
  BY GraphAssumption DEF GraphTyping, BinaryTyping
<1>2. /\ entries' = [entries EXCEPT ![P] = new] /\ build' = [build EXCEPT ![c] = r]
      /\ call' = [call EXCEPT ![c].build = c, ![c].stage = "waiting"]
      /\ IF First = "binary" THEN Resolve(P) ELSE UNCHANGED <<memo, find>>
  BY DEF StartBuild
<1>3. First \in {"extract", "binary"} /\ (First = "extract" <=> choice = "altool")
  BY DEF First
<1>4. r \in Build /\ r.stage = First /\ r.key = project /\ r.at = now /\ r.binary = "none" /\ r.ran = "none" /\ r.reason = "none"
  BY <1>1, <1>3, NothingTyped DEF NoBuild, Build, None
<1> HIDE DEF r, new
<1>5. build' \in [Call -> Build] /\ build'[c] = r /\ \A d \in Call \ {c} : build'[d] = build[d]
  BY <1>1, <1>2, <1>4
<1>6. /\ call' \in [Call -> ACall] /\ \A d \in Call \ {c} : call'[d] = call[d]
      /\ call'[c].stage = "waiting" /\ call'[c].build = c /\ call'[c].since = call[c].since
  <2>1. call'[c] = [call[c] EXCEPT !.build = c, !.stage = "waiting"] /\ \A d \in Call \ {c} : call'[d] = call[d]
    BY <1>1, <1>2
  <2>2. call[c] \in ACall
    BY <1>1
  <2>3. call'[c] \in ACall /\ call'[c].stage = "waiting" /\ call'[c].build = c /\ call'[c].since = call[c].since
    BY <2>1, <2>2 DEF ACall
  <2> QED BY <1>1, <1>2, <2>1, <2>3
<1>7. \A d \in Call : SoundCall(call[d], build[d], build[call[d].build], project)
  BY CallsSoundEach DEF GInv
<1>8. build[c].stage = "idle" /\ call[c].since <= project
  BY <1>7 DEF SoundCall
<1>9. BinaryTyping' /\ ProcessSound' /\ BuildsSound'
  <2>1. SoundBuild(r, choice, project, cached)
    BY <1>1, <1>3, <1>4 DEF SoundBuild, None
  <2>2. \A b \in Call : SoundBuild(build[b], choice, project, cached) /\ build[b].at <= now
    BY DEF GInv, BuildsSound
  <2>3. now <= now
    BY <1>1
  <2>4. CASE First = "binary"
    <3>1. Resolve(P)
      BY <1>2, <2>4
    <3> HIDE DEF P
    <3>2. /\ BinaryTyping' /\ ProcessSound'
          /\ \A b \in Call : Timely(build[b], find'[ProcessOf[b]], last'[ProcessOf[b]], memo'[ProcessOf[b]])
          /\ \A x \in Build : x.at = now => Timely(x, find'[P], last'[P], memo'[P])
      BY <1>1, <3>1, ResolveSound
    <3>3. Timely(r, find'[ProcessOf[c]], last'[ProcessOf[c]], memo'[ProcessOf[c]])
      BY <1>4, <3>2 DEF P
    <3> QED BY <1>4, <1>5, <2>1, <2>2, <2>3, <3>2, <3>3 DEF BuildsSound
  <2>5. CASE First = "extract"
    <3>1. UNCHANGED binaryVars
      BY <1>2, <2>5 DEF binaryVars
    <3>2. BinaryTyping' /\ ProcessSound'
      BY <3>1 DEF GInv, GraphTyping, BinaryTyping, ProcessSound, binaryVars
    <3>3. Timely(r, find'[ProcessOf[c]], last'[ProcessOf[c]], memo'[ProcessOf[c]])
      BY <1>4, <2>5 DEF Timely
    <3>4. \A b \in Call : Timely(build[b], find'[ProcessOf[b]], last'[ProcessOf[b]], memo'[ProcessOf[b]])
      BY <3>1 DEF GInv, BuildsSound, binaryVars
    <3> QED BY <1>4, <1>5, <2>1, <2>2, <2>3, <3>2, <3>3, <3>4 DEF BuildsSound
  <2> QED BY <1>3, <2>4, <2>5
<1>10. CallsSound'
  <2>1. project <= project /\ call[c].since <= project /\ r.key >= call[c].since /\ r.stage # "idle"
    <3>1. call[c].since \in 0..MaxEdits
      BY <1>1 DEF ACall
    <3> QED BY <1>1, <1>3, <1>4, <1>8, <3>1
  <2>2. SoundCall(call'[c], r, r, project)
    BY <1>6, <2>1 DEF SoundCall
  <2>3. ASSUME NEW d \in Call \ {c}
        PROVE  SoundCall(call'[d], build'[d], build'[call'[d].build], project)
    <3>1. SoundCall(call[d], build[d], build[call[d].build], project)
      BY <1>7
    <3>2. call[d].stage \in {"waiting", "done"} => call[d].build \in Call /\ call[d].build # c
      BY <1>8, <3>1 DEF SoundCall
    <3> QED BY <1>5, <1>6, <3>1, <3>2 DEF SoundCall
  <2>4. \A d \in Call : SoundCall(call'[d], build'[d], build'[call'[d].build], project')
    BY <1>5, <1>6, <2>2, <2>3
  <2>5. CallsSound' <=> \A d \in Call : SoundCall(call'[d], build'[d], build'[call'[d].build], project')
    BY DEF CallsSound, SoundCall, Over, ResultOf
  <2> QED BY <2>4, <2>5
<1>11. /\ Len(old) <= MaxEntries /\ \A i \in DOMAIN old : /\ old[i] \in Call /\ ProcessOf[old[i]] = P /\ old[i] # c
                                                      /\ build[old[i]].stage \notin {"idle", "failed"} /\ build[old[i]].key # project
       /\ \A i, j \in DOMAIN old : build[old[i]].key = build[old[j]].key => i = j
  <2>1. \A i \in DOMAIN old : old[i] \in Call
    BY <1>1, LenProperties
  <2>2. \A i \in DOMAIN old : build[old[i]].key # project
    BY DEF Hits, Places
  <2> QED BY <1>1, <1>8, <2>1, <2>2 DEF GInv, EntriesSound
<1>12. PICK o \in {0, 1} :
           /\ Len(new) = Len(old) + 1 - o /\ Len(old) + 1 - o <= MaxEntries
           /\ Len(old) + 1 <= MaxEntries => o = 0
           /\ \A i \in DOMAIN new : (i + o \in DOMAIN old /\ new[i] = old[i + o]) \/ (i + o = Len(old) + 1 /\ new[i] = c)
  BY <1>1, <1>11, KeptPlaces DEF new
<1>13. new \in Seq(Call) /\ DOMAIN new = 1..Len(new) /\ DOMAIN old = 1..Len(old) /\ Len(old) \in Nat /\ Len(new) \in Nat
  BY <1>1, <1>11, KeptTyped, LenProperties DEF new
<1>14. entries' \in [Process -> Seq(Call)] /\ entries'[P] = new /\ \A p \in Process \ {P} : entries'[p] = entries[p]
  BY <1>1, <1>2, <1>13
<1> HIDE DEF old
<1>15. EntriesSound'
  <2>1. ASSUME NEW i \in DOMAIN new
        PROVE  ProcessOf[new[i]] = P /\ build'[new[i]].stage \notin {"idle", "failed"}
    BY <1>3, <1>4, <1>5, <1>11, <1>12
  <2>2. ASSUME NEW i \in DOMAIN new, NEW j \in DOMAIN new, build'[new[i]].key = build'[new[j]].key
        PROVE  i = j
    <3>1. i \in Nat /\ j \in Nat
      BY <1>13
    <3>2. CASE (i + o \in DOMAIN old /\ new[i] = old[i + o]) /\ (j + o \in DOMAIN old /\ new[j] = old[j + o])
      <4>1. build[old[i + o]].key = build[old[j + o]].key
        BY <1>5, <1>11, <2>2, <3>2
      <4>2. i + o = j + o
        BY <1>11, <3>2, <4>1
      <4> QED BY <3>1, <4>2
    <3>3. CASE (i + o = Len(old) + 1 /\ new[i] = c) /\ (j + o = Len(old) + 1 /\ new[j] = c)
      BY <1>13, <3>1, <3>3
    <3>4. CASE (i + o \in DOMAIN old /\ new[i] = old[i + o]) /\ (j + o = Len(old) + 1 /\ new[j] = c)
      BY <1>4, <1>5, <1>11, <2>2, <3>4
    <3>5. CASE (i + o = Len(old) + 1 /\ new[i] = c) /\ (j + o \in DOMAIN old /\ new[j] = old[j + o])
      BY <1>4, <1>5, <1>11, <2>2, <3>5
    <3> QED BY <1>12, <3>2, <3>3, <3>4, <3>5
  <2>3. ASSUME NEW p \in Process
        PROVE  /\ Len(entries'[p]) <= MaxEntries
               /\ \A i \in DOMAIN entries'[p] : ProcessOf[entries'[p][i]] = p /\ build'[entries'[p][i]].stage \notin {"idle", "failed"}
               /\ \A i, j \in DOMAIN entries'[p] : build'[entries'[p][i]].key = build'[entries'[p][j]].key => i = j
    <3>1. CASE p = P
      BY <1>12, <1>14, <2>1, <2>2, <3>1
    <3>2. CASE p # P
      <4>1. /\ Len(entries[p]) <= MaxEntries /\ entries[p] \in Seq(Call)
            /\ \A i \in DOMAIN entries[p] : ProcessOf[entries[p][i]] = p /\ build[entries[p][i]].stage \notin {"idle", "failed"}
            /\ \A i, j \in DOMAIN entries[p] : build[entries[p][i]].key = build[entries[p][j]].key => i = j
        BY <1>1 DEF GInv, EntriesSound
      <4>2. \A i \in DOMAIN entries[p] : entries[p][i] \in Call \ {c}
        BY <1>8, <4>1, LenProperties
      <4>3. \A i \in DOMAIN entries[p] : build'[entries[p][i]] = build[entries[p][i]]
        BY <1>5, <4>2
      <4> QED BY <1>14, <3>2, <4>1, <4>3
    <3> QED BY <3>1, <3>2
  <2> QED BY <2>3 DEF EntriesSound
<1>16. NoneEvicted'
  <2>1. ASSUME NEW p \in Process
        PROVE  /\ IsFiniteSet(Begun(p)')
               /\ Cardinality(Begun(p)') <= MaxEntries =>
                    \A d \in Call : ProcessOf[d] = p /\ Running(d)' => \E i \in DOMAIN entries'[p] : entries'[p][i] = d
    <3>1. /\ IsFiniteSet(Begun(p))
          /\ Cardinality(Begun(p)) <= MaxEntries =>
               \A d \in Call : ProcessOf[d] = p /\ Running(d) => \E i \in DOMAIN entries[p] : entries[p][i] = d
      BY DEF GInv, NoneEvicted
    <3>2. \A d \in Call \ {c} : Running(d)' <=> Running(d)
      BY <1>5 DEF Running
    <3>3. CASE p # P
      <4>1. Begun(p)' = Begun(p)
        BY <1>5, <1>8, <3>3 DEF Begun
      <4> QED BY <1>14, <3>1, <3>2, <3>3, <4>1
    <3>4. CASE p = P
      <4>1. Begun(p)' = Begun(p) \cup {c} /\ c \notin Begun(p)
        BY <1>3, <1>4, <1>5, <1>8, <3>4 DEF Begun
      <4>2. IsFiniteSet(Begun(p)') /\ Cardinality(Begun(p)') = Cardinality(Begun(p)) + 1
        BY <3>1, <4>1, FS_AddElement
      <4>3. Len(entries[p]) <= Cardinality(Begun(p)) /\ Len(entries[p]) \in Nat /\ Cardinality(Begun(p)) \in Nat
        BY EntriesBegun
      <4>4. ASSUME Cardinality(Begun(p)') <= MaxEntries, NEW d \in Call, ProcessOf[d] = p, Running(d)'
            PROVE  \E i \in DOMAIN new : new[i] = d
        <5>1. Len(old) + 1 <= MaxEntries /\ o = 0 /\ Cardinality(Begun(p)) <= MaxEntries
          BY <1>12, <3>4, <4>2, <4>3, <4>4, GraphAssumption DEF old
        <5>2. DOMAIN new = 1..(Len(old) + 1)
          BY <1>12, <1>13, <5>1
        <5>3. CASE d = c
          <6>1. Len(old) + 1 \in DOMAIN new /\ ~((Len(old) + 1) + o \in DOMAIN old)
            BY <1>13, <5>1, <5>2
          <6>2. new[Len(old) + 1] = c
            BY <1>12, <6>1
          <6> QED BY <5>3, <6>1, <6>2
        <5>4. CASE d # c
          <6>1. PICK i \in DOMAIN old : old[i] = d
            BY <3>1, <3>2, <3>4, <4>4, <5>1, <5>4 DEF old
          <6>2. i \in DOMAIN new /\ i + o = i /\ i # Len(old) + 1
            BY <1>13, <5>1, <5>2
          <6>3. new[i] = old[i]
            BY <1>12, <6>2
          <6> QED BY <6>1, <6>2, <6>3
        <5> QED BY <5>3, <5>4
      <4> QED BY <1>14, <3>4, <4>2, <4>4
    <3> QED BY <3>3, <3>4
  <2> QED BY <2>1 DEF NoneEvicted
<1> QED BY <1>3, <1>4, <1>5, <1>6, <1>9, <1>10, <1>14, <1>15, <1>16

-----------------------------------------------------------------------------
(* The steps *)

\* What is said of processes, builds, calls and caches depends on no other variable.
LEMMA Frame ==
  /\ GInv <=> ProcessSound /\ BuildsSound /\ CallsSound /\ EntriesSound /\ NoneEvicted
  /\ GraphTyping =>
       /\ UNCHANGED binaryVars => (BinaryTyping' /\ (ProcessSound => ProcessSound'))
       /\ UNCHANGED <<build, choice, project, binaryVars>> => (BuildsSound => BuildsSound')
       /\ UNCHANGED <<build, call, choice, project>> => (CallsSound => CallsSound')
       /\ UNCHANGED <<build, entries>> => (EntriesSound => EntriesSound')
       /\ UNCHANGED <<build, entries>> => (NoneEvicted => NoneEvicted')
<1>1. GInv <=> ProcessSound /\ BuildsSound /\ CallsSound /\ EntriesSound /\ NoneEvicted
  BY DEF GInv
<1>2. GraphTyping /\ UNCHANGED binaryVars => BinaryTyping'
  BY DEF GraphTyping, BinaryTyping, binaryVars
<1>3. UNCHANGED binaryVars => (ProcessSound => ProcessSound')
  BY DEF ProcessSound, binaryVars
<1>4. UNCHANGED <<build, choice, project, binaryVars>> => (BuildsSound => BuildsSound')
  BY DEF BuildsSound, binaryVars
<1>5. UNCHANGED <<build, call, choice, project>> => (CallsSound => CallsSound')
  BY DEF CallsSound, Over, ResultOf
<1>6. UNCHANGED <<build, entries>> => (EntriesSound => EntriesSound')
  BY DEF EntriesSound
<1>7. UNCHANGED <<build, entries>> => (NoneEvicted => NoneEvicted')
  BY DEF NoneEvicted, Begun, Running
<1> QED BY <1>1, <1>2, <1>3, <1>4, <1>5, <1>6, <1>7

\* A build goes on, or ends, as the record r.
LEMMA BuildKeeps ==
  ASSUME GraphTyping, GInv, NEW b \in Call, NEW r \in Build, Running(b),
         \/ Goes(b, r) /\ r.stage \in {"al-sem", "extract", "stitch"}
         \/ End(b, r) /\ r.stage \in {"built", "failed"},
         r.key = build[b].key, r.at = build[b].at, SoundBuild(r, choice, project, cached),
         UNCHANGED <<binaryVars, choice, project, killed>>
  PROVE  GraphTyping' /\ GInv'
<1>1. /\ build' \in [Call -> Build] /\ build'[b] = r /\ \A d \in Call \ {b} : build'[d] = build[d]
      /\ call' \in [Call -> ACall] /\ entries' \in [Process -> Seq(Call)]
      /\ CallsSound' /\ EntriesSound' /\ NoneEvicted'
  <2>1. UNCHANGED <<choice, project>>
    OBVIOUS
  <2>2. CASE Goes(b, r) /\ r.stage \in {"al-sem", "extract", "stitch"}
    <3>1. UNCHANGED <<call, entries>>
      BY <2>2 DEF Goes
    <3>2. call' \in [Call -> ACall] /\ entries' \in [Process -> Seq(Call)]
      BY <3>1 DEF GraphTyping
    <3> QED BY <2>1, <2>2, <3>2, GoesSound
  <2>3. CASE End(b, r) /\ r.stage \in {"built", "failed"}
    BY <2>1, <2>3, EndSound
  <2> QED BY <2>2, <2>3
<1>2. UNCHANGED binaryVars /\ BinaryTyping' /\ ProcessSound'
  <2>1. UNCHANGED binaryVars /\ ProcessSound
    BY DEF GInv
  <2> QED BY <2>1, Frame
<1>3. BuildsSound'
  <2>1. ASSUME NEW d \in Call
        PROVE  /\ SoundBuild(build'[d], choice', project', cached') /\ build'[d].at <= now'
               /\ Timely(build'[d], find'[ProcessOf[d]], last'[ProcessOf[d]], memo'[ProcessOf[d]])
    <3>1. /\ SoundBuild(build[d], choice, project, cached) /\ build[d].at <= now
          /\ Timely(build[d], find[ProcessOf[d]], last[ProcessOf[d]], memo[ProcessOf[d]])
      BY DEF GInv, BuildsSound
    <3>2. choice' = choice /\ project' = project /\ cached' = cached /\ now' = now /\ find' = find /\ last' = last /\ memo' = memo
      BY <1>2 DEF binaryVars
    <3>3. CASE d = b
      <4>1. r.stage # "binary"
        OBVIOUS
      <4>2. Timely(r, find[ProcessOf[d]], last[ProcessOf[d]], memo[ProcessOf[d]])
        BY <4>1 DEF Timely
      <4> QED BY <1>1, <3>1, <3>2, <3>3, <4>2
    <3>4. CASE d # b
      BY <1>1, <3>1, <3>2, <3>4
    <3> QED BY <3>3, <3>4
  <2> QED BY <2>1 DEF BuildsSound
<1>4. GraphTyping'
  BY <1>1, <1>2 DEF GraphTyping
<1> QED BY <1>1, <1>2, <1>3, <1>4 DEF GInv

LEMMA TakeBinaryKeeps ==
  ASSUME GraphTyping, GInv, NEW b \in Call, TakeBinary(b)
  PROVE  GraphTyping' /\ GInv'
<1> DEFINE p == ProcessOf[b]
<1> DEFINE r == [build[b] EXCEPT !.stage = "al-sem", !.binary = last[p].binary]
<1>1. p \in Process /\ build[b] \in Build /\ last[p].binary \in Binaries /\ (last[p].binary = "cached" => cached = "good")
  BY GraphAssumption DEF GraphTyping, BinaryTyping, GInv, ProcessSound
<1>2. SoundBuild(build[b], choice, project, cached) /\ build[b].stage = "binary" /\ Running(b)
  BY DEF GInv, BuildsSound, TakeBinary, Running
<1>3. /\ r \in Build /\ r.stage = "al-sem" /\ r.binary = last[p].binary /\ r.key = build[b].key /\ r.at = build[b].at
      /\ r.ran = build[b].ran /\ r.reason = build[b].reason /\ r.version = build[b].version
  BY <1>1 DEF Build
<1>4. Goes(b, r) /\ UNCHANGED <<binaryVars, choice, project, killed>>
  BY DEF TakeBinary
<1> HIDE DEF r, p
<1>5. SoundBuild(r, choice, project, cached)
  BY <1>1, <1>2, <1>3 DEF SoundBuild
<1> QED BY <1>2, <1>3, <1>4, <1>5, BuildKeeps

LEMMA RunAlSemKeeps ==
  ASSUME GraphTyping, GInv, NEW b \in Call, RunAlSem(b)
  PROVE  GraphTyping' /\ GInv'
<1>1. /\ build[b] \in Build /\ project \in 0..MaxEdits /\ path \in {None, "old", "pinned"} /\ cached \in Files
      /\ choice \in {"auto", "al-sem", "altool"}
  BY DEF GraphTyping, BinaryTyping
<1>2. SoundBuild(build[b], choice, project, cached) /\ build[b].stage = "al-sem" /\ Running(b)
  BY DEF GInv, BuildsSound, RunAlSem, Running
<1>3. UNCHANGED <<binaryVars, choice, project, killed>>
  BY DEF RunAlSem
<1>4. PICK program \in Found(b) :
        IF program = None THEN AlSemFails(b, None, "notFound")
        ELSE \/ End(b, [build[b] EXCEPT !.stage = "built", !.ran = program, !.version = project])
             \/ AlSemFails(b, program, "failed")
  BY DEF RunAlSem
<1>5. program \in {"none", "explicit", "old", "pinned", "good"}
  BY <1>1, <1>2 DEF Found, SoundBuild, Files, None
<1>6. build[b].key <= project /\ build[b].reason = None /\ choice # "altool"
  BY <1>2 DEF SoundBuild
<1>7. ASSUME NEW ran \in {"none", "explicit", "old", "pinned", "good"}, NEW reason \in {"notFound", "failed"},
             AlSemFails(b, ran, reason), reason = "notFound" <=> ran = "none"
      PROVE  GraphTyping' /\ GInv'
  <2>1. CASE choice = "auto"
    <3> DEFINE r == [build[b] EXCEPT !.stage = "extract", !.ran = ran, !.reason = reason]
    <3>1. Goes(b, r)
      BY <1>7, <2>1 DEF AlSemFails
    <3>2. /\ r \in Build /\ r.stage = "extract" /\ r.ran = ran /\ r.reason = reason /\ r.key = build[b].key /\ r.at = build[b].at
          /\ r.binary = build[b].binary
      BY <1>1 DEF Build, None
    <3> HIDE DEF r
    <3>3. SoundBuild(r, choice, project, cached)
      BY <1>2, <1>7, <2>1, <3>2 DEF SoundBuild, None
    <3> QED BY <1>2, <1>3, <3>1, <3>2, <3>3, BuildKeeps
  <2>2. CASE choice # "auto"
    <3> DEFINE r == [build[b] EXCEPT !.stage = "failed", !.ran = ran, !.reason = reason]
    <3>1. End(b, r)
      BY <1>7, <2>2 DEF AlSemFails
    <3>2. /\ r \in Build /\ r.stage = "failed" /\ r.ran = ran /\ r.reason = reason /\ r.key = build[b].key /\ r.at = build[b].at
          /\ r.binary = build[b].binary
      BY <1>1 DEF Build, None
    <3> HIDE DEF r
    <3>3. SoundBuild(r, choice, project, cached)
      BY <1>2, <1>6, <1>7, <3>2 DEF SoundBuild, None
    <3> QED BY <1>2, <1>3, <3>1, <3>2, <3>3, BuildKeeps
  <2> QED BY <2>1, <2>2
<1>8. CASE program = None
  <2>1. AlSemFails(b, "none", "notFound")
    BY <1>4, <1>8 DEF None
  <2> QED BY <1>7, <2>1
<1>9. CASE program # None /\ AlSemFails(b, program, "failed")
  <2>1. program # "none"
    BY <1>9 DEF None
  <2> QED BY <1>5, <1>7, <1>9, <2>1
<1>10. CASE program # None /\ End(b, [build[b] EXCEPT !.stage = "built", !.ran = program, !.version = project])
  <2> DEFINE r == [build[b] EXCEPT !.stage = "built", !.ran = program, !.version = project]
  <2>1. /\ r \in Build /\ r.stage = "built" /\ r.ran = program /\ r.reason = build[b].reason /\ r.key = build[b].key
        /\ r.at = build[b].at /\ r.binary = build[b].binary /\ r.version = project
    BY <1>1, <1>5 DEF Build, None
  <2>2. End(b, r)
    BY <1>10
  <2> HIDE DEF r
  <2>3. SoundBuild(r, choice, project, cached)
    BY <1>1, <1>2, <1>5, <1>6, <2>1 DEF SoundBuild, None
  <2> QED BY <1>2, <1>3, <2>1, <2>2, <2>3, BuildKeeps
<1> QED BY <1>4, <1>8, <1>9, <1>10

LEMMA ExtractKeeps ==
  ASSUME GraphTyping, GInv, NEW b \in Call, Extract(b)
  PROVE  GraphTyping' /\ GInv'
<1>1. build[b] \in Build /\ project \in 0..MaxEdits
  BY DEF GraphTyping
<1>2. SoundBuild(build[b], choice, project, cached) /\ build[b].stage = "extract" /\ Running(b)
  BY DEF GInv, BuildsSound, Extract, Running
<1>3. UNCHANGED <<binaryVars, choice, project, killed>>
  BY DEF Extract
<1>4. CASE Goes(b, [build[b] EXCEPT !.stage = "stitch", !.version = project])
  <2> DEFINE r == [build[b] EXCEPT !.stage = "stitch", !.version = project]
  <2>1. /\ r \in Build /\ r.stage = "stitch" /\ r.ran = build[b].ran /\ r.reason = build[b].reason /\ r.key = build[b].key
        /\ r.at = build[b].at /\ r.binary = build[b].binary /\ r.version = project
    BY <1>1 DEF Build
  <2>2. Goes(b, r)
    BY <1>4
  <2> HIDE DEF r
  <2>3. SoundBuild(r, choice, project, cached)
    BY <1>1, <1>2, <2>1 DEF SoundBuild, Build
  <2> QED BY <1>2, <1>3, <2>1, <2>2, <2>3, BuildKeeps
<1>5. CASE End(b, [build[b] EXCEPT !.stage = "failed"])
  <2> DEFINE r == [build[b] EXCEPT !.stage = "failed"]
  <2>1. /\ r \in Build /\ r.stage = "failed" /\ r.ran = build[b].ran /\ r.reason = build[b].reason /\ r.key = build[b].key
        /\ r.at = build[b].at /\ r.binary = build[b].binary
    BY <1>1 DEF Build
  <2>2. End(b, r)
    BY <1>5
  <2> HIDE DEF r
  <2>3. SoundBuild(r, choice, project, cached)
    BY <1>2, <2>1 DEF SoundBuild
  <2> QED BY <1>2, <1>3, <2>1, <2>2, <2>3, BuildKeeps
<1> QED BY <1>4, <1>5 DEF Extract

LEMMA StitchKeeps ==
  ASSUME GraphTyping, GInv, NEW b \in Call, Stitch(b)
  PROVE  GraphTyping' /\ GInv'
<1>1. build[b] \in Build
  BY DEF GraphTyping
<1>2. SoundBuild(build[b], choice, project, cached) /\ build[b].stage = "stitch" /\ Running(b)
  BY DEF GInv, BuildsSound, Stitch, Running
<1>3. UNCHANGED <<binaryVars, choice, project, killed>>
  BY DEF Stitch
<1>4. PICK stage \in {"built", "failed"} : End(b, [build[b] EXCEPT !.stage = stage])
  BY DEF Stitch
<1> DEFINE r == [build[b] EXCEPT !.stage = stage]
<1>5. /\ r \in Build /\ r.stage = stage /\ r.ran = build[b].ran /\ r.reason = build[b].reason /\ r.key = build[b].key
      /\ r.at = build[b].at /\ r.binary = build[b].binary /\ r.version = build[b].version
  BY <1>1 DEF Build
<1> HIDE DEF r
<1>6. SoundBuild(r, choice, project, cached)
  BY <1>2, <1>5 DEF SoundBuild
<1>7. End(b, r)
  BY <1>4 DEF r
<1> QED BY <1>2, <1>3, <1>5, <1>6, <1>7, BuildKeeps

LEMMA BeginCallKeeps ==
  ASSUME GraphTyping, GInv, NEW c \in Call, BeginCall(c)
  PROVE  GraphTyping' /\ GInv'
<1>1. /\ call \in [Call -> ACall] /\ project \in 0..MaxEdits /\ call[c].stage = "idle"
      /\ call' = [call EXCEPT ![c].stage = "reading", ![c].since = project]
      /\ UNCHANGED <<binaryVars, choice, project, build, entries, killed>>
  BY DEF GraphTyping, BeginCall
<1>2. /\ call' \in [Call -> ACall] /\ \A d \in Call \ {c} : call'[d] = call[d]
      /\ call'[c].stage = "reading" /\ call'[c].since = project
  <2>1. call[c] \in ACall /\ call'[c] = [call[c] EXCEPT !.stage = "reading", !.since = project]
    BY <1>1
  <2>2. call'[c] \in ACall /\ call'[c].stage = "reading" /\ call'[c].since = project
    BY <1>1, <2>1 DEF ACall
  <2> QED BY <1>1, <2>2
<1>3. \A d \in Call : SoundCall(call[d], build[d], build[call[d].build], project)
  BY CallsSoundEach DEF GInv
<1>4. CallsSound'
  <2>1. build[c].stage = "idle" /\ project <= project
    BY <1>1, <1>3 DEF SoundCall
  <2>2. \A d \in Call : SoundCall(call'[d], build'[d], build'[call'[d].build], project')
    BY <1>1, <1>2, <1>3, <2>1 DEF SoundCall
  <2>3. CallsSound' <=> \A d \in Call : SoundCall(call'[d], build'[d], build'[call'[d].build], project')
    BY <1>1 DEF CallsSound, SoundCall, Over, ResultOf
  <2> QED BY <2>2, <2>3
<1>5. BinaryTyping' /\ ProcessSound' /\ BuildsSound' /\ EntriesSound' /\ NoneEvicted'
  BY <1>1, Frame
<1>6. GraphTyping'
  BY <1>1, <1>2, <1>5 DEF GraphTyping
<1> QED BY <1>4, <1>5, <1>6 DEF GInv

LEMMA LookupKeeps ==
  ASSUME GraphTyping, GInv, NEW c \in Call, Lookup(c)
  PROVE  GraphTyping' /\ GInv' /\ (call'[c].stage = "done" => call'[c].answer.ok)
<1>1. /\ call[c].stage = "reading" /\ UNCHANGED <<setting, path, cached, now, last, choice, project, killed>>
      /\ IF Hits(c) = {} THEN StartBuild(c) ELSE \E i \in Hits(c) : Join(c, i)
  BY DEF Lookup
<1>2. CASE Hits(c) = {}
  <2>1. StartBuild(c)
    BY <1>1, <1>2
  <2>2. /\ call' \in [Call -> ACall] /\ build' \in [Call -> Build] /\ entries' \in [Process -> Seq(Call)] /\ BinaryTyping'
        /\ ProcessSound' /\ BuildsSound' /\ CallsSound' /\ EntriesSound' /\ NoneEvicted'
        /\ call'[c].stage = "waiting"
    BY <1>1, <1>2, <2>1, StartSound
  <2>3. GraphTyping'
    BY <1>1, <2>2 DEF GraphTyping
  <2> QED BY <2>2, <2>3 DEF GInv
<1>3. CASE Hits(c) # {}
  <2>1. PICK i \in Hits(c) : Join(c, i)
    BY <1>1, <1>3
  <2>2. /\ call' \in [Call -> ACall] /\ entries' \in [Process -> Seq(Call)]
        /\ CallsSound' /\ EntriesSound' /\ NoneEvicted'
        /\ call'[c].stage = "done" => call'[c].answer.ok
    BY <1>1, <2>1, JoinSound
  <2>3. UNCHANGED binaryVars /\ build' = build
    BY <1>1, <2>1 DEF Join, binaryVars
  <2>4. BinaryTyping' /\ ProcessSound' /\ BuildsSound'
    BY <1>1, <2>3, Frame
  <2>5. GraphTyping'
    BY <1>1, <2>2, <2>3, <2>4 DEF GraphTyping
  <2> QED BY <2>2, <2>4, <2>5 DEF GInv
<1> QED BY <1>2, <1>3

LEMMA EditKeeps ==
  ASSUME GraphTyping, GInv, Edit
  PROVE  GraphTyping' /\ GInv'
<1>1. /\ project \in 0..MaxEdits /\ project < MaxEdits /\ project' = project + 1 /\ MaxEdits \in Nat
      /\ UNCHANGED <<binaryVars, choice, call, build, entries, killed>>
  BY GraphAssumption DEF GraphTyping, Edit
<1>2. BinaryTyping' /\ ProcessSound' /\ EntriesSound' /\ NoneEvicted'
  BY <1>1, Frame
<1>3. GraphTyping'
  BY <1>1, <1>2 DEF GraphTyping
<1>4. BuildsSound'
  <2>1. ASSUME NEW b \in Call
        PROVE  /\ SoundBuild(build[b], choice, project', cached) /\ build[b].at <= now
               /\ Timely(build[b], find[ProcessOf[b]], last[ProcessOf[b]], memo[ProcessOf[b]])
    <3>1. /\ SoundBuild(build[b], choice, project, cached) /\ build[b].at <= now
          /\ Timely(build[b], find[ProcessOf[b]], last[ProcessOf[b]], memo[ProcessOf[b]])
      BY DEF GInv, BuildsSound
    <3>2. build[b].key \in 0..MaxEdits
      BY DEF GraphTyping, Build
    <3> QED BY <1>1, <3>1, <3>2 DEF SoundBuild
  <2> QED BY <1>1, <2>1 DEF BuildsSound, binaryVars
<1>5. CallsSound'
  <2>1. ASSUME NEW c \in Call
        PROVE  SoundCall(call'[c], build'[c], build'[call'[c].build], project')
    <3>1. SoundCall(call[c], build[c], build[call[c].build], project)
      BY CallsSoundEach DEF GInv
    <3>2. call[c].since \in 0..MaxEdits
      BY DEF GraphTyping, ACall
    <3> QED BY <1>1, <3>1, <3>2 DEF SoundCall
  <2>2. CallsSound' <=> \A c \in Call : SoundCall(call'[c], build'[c], build'[call'[c].build], project')
    BY <1>1 DEF CallsSound, SoundCall, Over, ResultOf
  <2> QED BY <2>1, <2>2
<1> QED BY <1>2, <1>3, <1>4, <1>5 DEF GInv

LEMMA KillKeeps ==
  ASSUME GraphTyping, GInv, NEW p \in Process, Kill(p)
  PROVE  GraphTyping' /\ GInv'
<1>1. /\ p \notin {ProcessOf[c] : c \in Call} /\ killed' = TRUE /\ UNCHANGED <<choice, project, call, build, entries>>
      /\ memo' = [memo EXCEPT ![p] = 0] /\ last' = [last EXCEPT ![p] = NotResolved] /\ find' = [find EXCEPT ![p] = "unasked"]
      /\ UNCHANGED <<setting, path, cached, now>>
  BY DEF Kill, Forget, At
<1>2. /\ now \in 0..MaxNow /\ memo \in [Process -> 0..MaxNow] /\ find \in [Process -> Finds] /\ MaxNow \in Nat
      /\ last \in [Process -> Resolution] /\ NotResolved \in Resolution /\ NotResolved.binary # "cached"
  BY BinaryAssumption DEF GraphTyping, BinaryTyping, Resolution, NotResolved, Binaries, None
<1>3. /\ memo' \in [Process -> 0..MaxNow] /\ find' \in [Process -> Finds] /\ last' \in [Process -> Resolution]
      /\ memo'[p] = 0 /\ find'[p] = "unasked" /\ last'[p] = NotResolved
      /\ \A q \in Process \ {p} : memo'[q] = memo[q] /\ find'[q] = find[q] /\ last'[q] = last[q]
  BY <1>1, <1>2 DEF Finds
<1>4. BinaryTyping'
  BY <1>1, <1>3 DEF GraphTyping, BinaryTyping, Resolution
<1>5. ProcessSound'
  <2>1. ASSUME NEW q \in Process
        PROVE  /\ memo'[q] <= now' /\ (Resolving(find'[q]) => now' < memo'[q] + MemoSpan)
               /\ (last'[q].binary = "cached" => cached' = "good")
    <3>1. CASE q = p
      BY <1>1, <1>2, <1>3, <3>1 DEF Resolving
    <3>2. CASE q # p
      BY <1>1, <1>3, <3>2 DEF GInv, ProcessSound
    <3> QED BY <3>1, <3>2
  <2> QED BY <2>1 DEF ProcessSound
<1>6. BuildsSound'
  <2>1. \A b \in Call : ProcessOf[b] \in Process \ {p}
    BY <1>1, GraphAssumption
  <2>2. \A b \in Call : /\ find'[ProcessOf[b]] = find[ProcessOf[b]] /\ last'[ProcessOf[b]] = last[ProcessOf[b]]
                        /\ memo'[ProcessOf[b]] = memo[ProcessOf[b]]
    BY <1>3, <2>1
  <2> QED BY <1>1, <2>2 DEF GInv, BuildsSound
<1>7. CallsSound' /\ EntriesSound' /\ NoneEvicted'
  BY <1>1, Frame
<1>8. GraphTyping'
  BY <1>1, <1>4 DEF GraphTyping
<1> QED BY <1>5, <1>6, <1>7, <1>8 DEF GInv

\* A resolution is asked for or goes on, or time passes: the calls, the builds and the caches stay.
LEMMA AroundKeeps ==
  ASSUME GraphTyping, GInv, UNCHANGED graphVars, BinaryTyping', ProcessSound', cached' \in {cached, "good"}, now' >= now,
         \A b \in Call : Timely(build[b], find'[ProcessOf[b]], last'[ProcessOf[b]], memo'[ProcessOf[b]])
  PROVE  GraphTyping' /\ GInv'
<1>1. UNCHANGED <<choice, project, call, build, entries, killed>>
  BY DEF graphVars
<1>2. CallsSound' /\ EntriesSound' /\ NoneEvicted'
  BY <1>1, Frame
<1>3. GraphTyping'
  BY <1>1 DEF GraphTyping
<1>4. BuildsSound'
  <2>1. ASSUME NEW b \in Call
        PROVE  SoundBuild(build[b], choice, project, cached') /\ build[b].at <= now'
    <3>1. SoundBuild(build[b], choice, project, cached) /\ build[b].at <= now
      BY DEF GInv, BuildsSound
    <3>2. build[b].at \in 0..MaxNow /\ now \in 0..MaxNow /\ now' \in 0..MaxNow
      BY DEF GraphTyping, BinaryTyping, Build
    <3>3. cached = "good" => cached' = "good"
      OBVIOUS
    <3> QED BY <3>1, <3>2, <3>3 DEF SoundBuild
  <2> QED BY <1>1, <2>1 DEF BuildsSound
<1> QED BY <1>2, <1>3, <1>4 DEF GInv

LEMMA PassesKeeps ==
  ASSUME GraphTyping, GInv, Passes
  PROVE  GraphTyping' /\ GInv'
<1>1. /\ now < MaxNow /\ \A p \in Process : find[p] \notin {"idle", "unasked"} => now + 1 - memo[p] < MemoSpan
      /\ now' = now + 1 /\ UNCHANGED <<setting, path, cached, memo, find, last>> /\ UNCHANGED graphVars
  BY DEF Passes, Tick
<1>2. now \in 0..MaxNow /\ MaxNow \in Nat /\ MemoSpan \in Nat /\ memo \in [Process -> 0..MaxNow]
  BY BinaryAssumption DEF GraphTyping, BinaryTyping
<1>3. BinaryTyping'
  BY <1>1, <1>2 DEF GraphTyping, BinaryTyping
<1>4. ASSUME NEW p \in Process
      PROVE  /\ memo'[p] <= now' /\ (Resolving(find'[p]) => now' < memo'[p] + MemoSpan)
             /\ (last'[p].binary = "cached" => cached' = "good")
  <2>1. memo[p] \in Nat /\ memo[p] <= now /\ (last[p].binary = "cached" => cached = "good")
    BY <1>2 DEF GInv, ProcessSound
  <2> QED BY <1>1, <1>2, <2>1 DEF Resolving
<1>5. ProcessSound'
  BY <1>4 DEF ProcessSound
<1>6. \A b \in Call : Timely(build[b], find'[ProcessOf[b]], last'[ProcessOf[b]], memo'[ProcessOf[b]])
  BY <1>1 DEF GInv, BuildsSound
<1> QED BY <1>1, <1>2, <1>3, <1>5, <1>6, AroundKeeps

LEMMA GraphKeeps ==
  ASSUME GraphTyping, GInv, [GraphNext]_callGraphVars
  PROVE  GraphTyping' /\ GInv'
<1>1. CASE UNCHANGED callGraphVars
  <2>1. UNCHANGED binaryVars /\ UNCHANGED graphVars
    BY <1>1 DEF callGraphVars
  <2>2. BinaryTyping' /\ ProcessSound' /\ BuildsSound' /\ CallsSound' /\ EntriesSound' /\ NoneEvicted'
    BY <2>1, Frame DEF graphVars
  <2>3. GraphTyping'
    BY <2>1, <2>2 DEF graphVars, GraphTyping
  <2> QED BY <2>2, <2>3 DEF GInv
<1>2. ASSUME NEW c \in Call, BeginCall(c) \/ Lookup(c) \/ BuildStep(c)
      PROVE  GraphTyping' /\ GInv'
  BY <1>2, BeginCallKeeps, LookupKeeps, TakeBinaryKeeps, RunAlSemKeeps, ExtractKeeps, StitchKeeps DEF BuildStep
<1>3. ASSUME NEW p \in Process, Ask(p)
      PROVE  GraphTyping' /\ GInv'
  <2>1. Resolve(p) /\ UNCHANGED <<setting, path, cached, now, last>> /\ UNCHANGED graphVars
    BY <1>3 DEF Ask
  <2>2. BinaryTyping' /\ ProcessSound'
    BY <2>1, ResolveSound
  <2>3. \A b \in Call : Timely(build[b], find'[ProcessOf[b]], last'[ProcessOf[b]], memo'[ProcessOf[b]])
    BY <2>1, ResolveSound
  <2>4. now' >= now
    BY <2>1 DEF GraphTyping, BinaryTyping
  <2> QED BY <2>1, <2>2, <2>3, <2>4, AroundKeeps
<1>4. ASSUME NEW p \in Process, Resolver(p)
      PROVE  GraphTyping' /\ GInv'
  <2>1. ResolverStep(p) /\ UNCHANGED graphVars
    BY <1>4 DEF Resolver
  <2>2. BinaryTyping' /\ ProcessSound' /\ cached' \in {cached, "good"}
    BY <2>1, ResolverSound
  <2>3. \A b \in Call : Timely(build[b], find'[ProcessOf[b]], last'[ProcessOf[b]], memo'[ProcessOf[b]])
    BY <2>1, ResolverSound
  <2>4. now' >= now
    BY <2>1, ResolverEffect DEF GraphTyping, BinaryTyping
  <2> QED BY <2>1, <2>2, <2>3, <2>4, AroundKeeps
<1>5. ASSUME NEW p \in Process, Kill(p)
      PROVE  GraphTyping' /\ GInv'
  BY <1>5, KillKeeps
<1>6. CASE Edit
  BY <1>6, EditKeeps
<1>7. CASE Passes
  BY <1>7, PassesKeeps
<1> QED BY <1>1, <1>2, <1>3, <1>4, <1>5, <1>6, <1>7 DEF GraphNext

-----------------------------------------------------------------------------
(* What it is for *)

\* The answer of a build that succeeded.
LEMMA AnswerHonest ==
  ASSUME NEW r \in Build, SoundBuild(r, choice, project, cached), r.stage \in {"built", "failed"}, ResultOf(r).ok,
         choice \in {"auto", "al-sem", "altool"}
  PROVE  /\ ResultOf(r).version >= r.key
         /\ ResultOf(r).engine = "altool" => choice # "al-sem"
         /\ ResultOf(r).warned <=> (choice = "auto" /\ ResultOf(r).engine = "altool" /\ r.ran # None)
<1>1. /\ ResultOf(r).version = r.version /\ ResultOf(r).ok = (r.stage = "built") /\ ResultOf(r).warned = (r.reason = "failed")
      /\ ResultOf(r).engine = IF r.reason = None /\ choice # "altool" THEN "al-sem" ELSE "altool"
  BY Zenon DEF ResultOf
<1>2. r.stage = "built"
  BY <1>1, Zenon
<1>3. r.version >= r.key /\ (r.reason # None => choice = "auto") /\ r.reason \in {None, "notFound", "failed"}
  BY <1>2 DEF SoundBuild, Build
<1>4. ResultOf(r).engine = "altool" => choice # "al-sem"
  BY <1>1, <1>3
<1>5. r.reason = "failed" <=> (choice = "auto" /\ ResultOf(r).engine = "altool" /\ r.ran # None)
  BY <1>1, <1>3 DEF SoundBuild, None
<1>6. ResultOf(r).warned <=> r.reason = "failed"
  BY <1>1, Zenon
<1> QED BY <1>1, <1>3, <1>4, <1>5, <1>6

LEMMA GraphMeans == GraphTyping /\ GInv => GraphSafe
<1> SUFFICES ASSUME GraphTyping, GInv PROVE GraphSafe
  OBVIOUS
<1>1. GraphTypeOK
  <2>1. BinaryTypeOK
    BY DEF GraphTyping, BinaryTyping, BinaryTypeOK, Files, Finds, Binaries
  <2>2. ASSUME NEW c \in Call
        PROVE  /\ call[c].stage \in {"idle", "reading", "waiting", "done"} /\ call[c].build \in {None} \cup Call
               /\ build[c].stage \in {"idle", "binary", "al-sem", "extract", "stitch", "built", "failed"}
    BY DEF GraphTyping, ACall, Build
  <2>3. ASSUME NEW p \in Process
        PROVE  Len(entries[p]) <= MaxEntries /\ ToSet(entries[p]) \subseteq Call
    <3>1. entries[p] \in Seq(Call) /\ Len(entries[p]) <= MaxEntries
      BY DEF GraphTyping, GInv, EntriesSound
    <3>2. \A i \in DOMAIN entries[p] : entries[p][i] \in Call
      BY <3>1, LenProperties
    <3> QED BY <3>1, <3>2 DEF ToSet
  <2> QED BY <2>1, <2>2, <2>3 DEF GraphTyping, GraphTypeOK
<1>2. BinaryWhole
  BY DEF GInv, ProcessSound, BuildsSound, SoundBuild, BinaryWhole
<1>3. GraphHonest
  <2>1. ASSUME NEW c \in Call, call[c].stage = "done", call[c].answer.ok
        PROVE  /\ call[c].answer.version >= call[c].since
               /\ call[c].answer.engine = "altool" => choice # "al-sem"
               /\ call[c].answer.warned <=> (choice = "auto" /\ call[c].answer.engine = "altool" /\ build[call[c].build].ran # None)
    <3> DEFINE r == build[call[c].build]
    <3>1. /\ call[c].build \in Call /\ r.key >= call[c].since /\ r.stage \in {"built", "failed"}
          /\ call[c].answer = ResultOf(r) /\ call[c] \in ACall
      BY <2>1 DEF GInv, CallsSound, Over, GraphTyping
    <3>2. r \in Build /\ SoundBuild(r, choice, project, cached) /\ choice \in {"auto", "al-sem", "altool"}
      BY <3>1 DEF GraphTyping, GInv, BuildsSound
    <3>3. ResultOf(r).ok
      BY <2>1, <3>1, Zenon
    <3>4. r.key \in 0..MaxEdits /\ call[c].since \in 0..MaxEdits /\ ResultOf(r) \in Answer
      BY <3>1, <3>2, ResultTyped DEF Build, ACall
    <3> HIDE DEF r
    <3>5. /\ ResultOf(r).version >= r.key
          /\ ResultOf(r).engine = "altool" => choice # "al-sem"
          /\ ResultOf(r).warned <=> (choice = "auto" /\ ResultOf(r).engine = "altool" /\ r.ran # None)
      BY <3>1, <3>2, <3>3, AnswerHonest
    <3>6. ResultOf(r).version \in 0..MaxEdits
      BY <3>4 DEF Answer
    <3>7. call[c].answer.version >= call[c].since
      BY <3>1, <3>4, <3>5, <3>6
    <3>8. /\ call[c].answer.engine = "altool" => choice # "al-sem"
          /\ call[c].answer.warned <=> (choice = "auto" /\ call[c].answer.engine = "altool" /\ r.ran # None)
      BY <3>1, <3>5, Zenon
    <3> QED BY <3>7, <3>8 DEF r
  <2> QED BY <2>1, Zenon DEF GraphHonest
<1>4. BuildShared
  <2>1. ASSUME NEW b \in Call, NEW d \in Call, b # d, Running(b), Running(d), ProcessOf[b] = ProcessOf[d],
               Cardinality(Begun(ProcessOf[b])) <= MaxEntries
        PROVE  build[b].key # build[d].key
    <3> DEFINE p == ProcessOf[b]
    <3>1. p \in Process
      BY GraphAssumption
    <3>2. PICK i \in DOMAIN entries[p] : entries[p][i] = b
      BY <2>1, <3>1 DEF GInv, NoneEvicted
    <3>3. PICK j \in DOMAIN entries[p] : entries[p][j] = d
      BY <2>1, <3>1 DEF GInv, NoneEvicted
    <3>4. i # j
      BY <2>1, <3>2, <3>3
    <3>5. build[entries[p][i]].key # build[entries[p][j]].key
      BY <3>1, <3>2, <3>3, <3>4 DEF GInv, EntriesSound
    <3> QED BY <3>2, <3>3, <3>5
  <2>2. ASSUME NEW p \in Process, NEW i \in DOMAIN entries[p], NEW j \in DOMAIN entries[p],
               build[entries[p][i]].key = build[entries[p][j]].key
        PROVE  i = j
    BY <2>2 DEF GInv, EntriesSound
  <2> QED BY <2>1, <2>2 DEF BuildShared
<1> QED BY <1>1, <1>2, <1>3, <1>4 DEF GraphSafe

LEMMA GraphInvariant == GraphInit /\ [][GraphNext]_callGraphVars => [](GraphTyping /\ GInv)
<1>1. GraphTyping /\ GInv /\ [GraphNext]_callGraphVars => (GraphTyping /\ GInv)'
  BY GraphKeeps
<1> QED BY <1>1, GraphStarts, PTL

(* For any processes, calls, cache size and machines: what runs is the whole
   verified binary, a graph shows the project as it was after the call began,
   the engine that stands in is told of, and a key is built once at a time. *)
THEOREM GraphsSafe == GraphSpec => []GraphSafe
<1> QED BY GraphInvariant, GraphMeans, PTL DEF GraphSpec

\* Only a call that finds its build in the cache goes from reading to done.
LEMMA FoundIsGood ==
  ASSUME GraphTyping, GInv, GraphNext, NEW c \in Call, call[c].stage = "reading", call'[c].stage = "done"
  PROVE  call'[c].answer.ok
<1>1. call \in [Call -> ACall] /\ build \in [Call -> Build]
  BY DEF GraphTyping
<1>2. ASSUME call' = call
      PROVE  FALSE
  BY <1>2
<1>3. ASSUME NEW d \in Call, BeginCall(d)
      PROVE  FALSE
  BY <1>1, <1>3 DEF BeginCall
<1>4. ASSUME NEW d \in Call, Lookup(d)
      PROVE  call'[c].answer.ok
  <2>1. CASE d = c
    BY <1>4, <2>1, LookupKeeps
  <2>2. CASE d # c
    BY <1>1, <1>4, <2>2 DEF Lookup, StartBuild, Join
  <2> QED BY <2>1, <2>2
<1>5. ASSUME NEW b, NEW r, BuildAnswered(b, r)
      PROVE  FALSE
  BY <1>5 DEF BuildAnswered
<1>6. ASSUME NEW d \in Call, BuildStep(d)
      PROVE  FALSE
  <2>1. \/ call' = call
        \/ \E r : BuildAnswered(d, r)
    BY <1>6 DEF BuildStep, TakeBinary, RunAlSem, AlSemFails, Extract, Stitch, Goes, End
  <2> QED BY <1>2, <1>5, <2>1
<1>7. ASSUME \E p \in Process : Ask(p) \/ Resolver(p) \/ Kill(p)
      PROVE  FALSE
  BY <1>2, <1>7 DEF Ask, Resolver, Kill, graphVars
<1>8. ASSUME Edit \/ Passes
      PROVE  FALSE
  BY <1>2, <1>8 DEF Edit, Passes, graphVars
<1> QED BY <1>3, <1>4, <1>6, <1>7, <1>8 DEF GraphNext

\* Only TakeBinary sends a build to al-sem, once the resolution it awaits is there.
LEMMA GoesOnInTime ==
  ASSUME GraphTyping, GInv, GraphNext, NEW c \in Call, build[c].stage = "binary", build'[c].stage = "al-sem",
         last[ProcessOf[c]].source = "unavailable"
  PROVE  memo[ProcessOf[c]] + MemoSpan > build[c].at
<1>1. build \in [Call -> Build]
  BY DEF GraphTyping
<1>2. TakeBinary(c)
  <2>1. ASSUME build' = build
        PROVE  FALSE
    BY <2>1
  <2>2. ASSUME NEW d \in Call, BeginCall(d) \/ Lookup(d)
        PROVE  FALSE
    <3>1. CASE BeginCall(d)
      BY <2>1, <3>1 DEF BeginCall
    <3>2. CASE Lookup(d)
      <4>1. CASE Hits(d) = {}
        <5>1. StartBuild(d) /\ UNCHANGED <<setting, path, cached, now, last, choice, project>> /\ call[d].stage = "reading"
          BY <3>2, <4>1 DEF Lookup
        <5>2. build'[d].stage # "al-sem"
          BY <4>1, <5>1, StartSound
        <5>3. c # d => build'[c] = build[c]
          BY <1>1, <5>1 DEF StartBuild
        <5> QED BY <5>2, <5>3
      <4>2. CASE Hits(d) # {}
        BY <2>1, <3>2, <4>2 DEF Lookup, Join
      <4> QED BY <4>1, <4>2
    <3> QED BY <2>2, <3>1, <3>2
  <2>3. ASSUME NEW d \in Call, BuildStep(d)
        PROVE  d = c
    <3>1. \E r : build' = [build EXCEPT ![d] = r]
      BY <2>3 DEF BuildStep, TakeBinary, RunAlSem, AlSemFails, Extract, Stitch, Goes, End
    <3> QED BY <1>1, <3>1
  <2>4. ~(RunAlSem(c) \/ Extract(c) \/ Stitch(c))
    BY DEF RunAlSem, Extract, Stitch
  <2>5. ~\E p \in Process : Ask(p) \/ Resolver(p) \/ Kill(p)
    BY <2>1 DEF Ask, Resolver, Kill, graphVars
  <2>6. ~(Edit \/ Passes)
    BY <2>1 DEF Edit, Passes, graphVars
  <2> QED BY <2>2, <2>3, <2>4, <2>5, <2>6 DEF GraphNext, BuildStep
<1>3. find[ProcessOf[c]] = "idle" /\ Timely(build[c], find[ProcessOf[c]], last[ProcessOf[c]], memo[ProcessOf[c]])
  BY <1>2 DEF TakeBinary, GInv, BuildsSound
<1> QED BY <1>3 DEF Timely

(* For any processes, calls and machines: no call is given the failure of a
   build it finds over, and no build takes a failure to get the binary for an
   answer once that failure is older than the memo. *)
THEOREM NoStaleFailure == GraphInit /\ [][GraphNext]_callGraphVars => NothingStale
<1> DEFINE Fresh(c) ==
       /\ call[c].stage = "reading" /\ call'[c].stage = "done" => call'[c].answer.ok
       /\ build[c].stage = "binary" /\ build'[c].stage = "al-sem" /\ last[ProcessOf[c]].source = "unavailable" =>
            memo[ProcessOf[c]] + MemoSpan > build[c].at
<1>1. GraphTyping /\ GInv /\ [GraphNext]_callGraphVars => [\A c \in Call : Fresh(c)]_callGraphVars
  <2> SUFFICES ASSUME GraphTyping, GInv, GraphNext, NEW c \in Call PROVE Fresh(c)
    OBVIOUS
  <2>1. call[c].stage = "reading" /\ call'[c].stage = "done" => call'[c].answer.ok
    BY FoundIsGood
  <2>2. build[c].stage = "binary" /\ build'[c].stage = "al-sem" /\ last[ProcessOf[c]].source = "unavailable" =>
          memo[ProcessOf[c]] + MemoSpan > build[c].at
    BY GoesOnInTime
  <2> QED BY <2>1, <2>2
<1>2. GraphInit /\ [][GraphNext]_callGraphVars => [][\A c \in Call : Fresh(c)]_callGraphVars
  BY <1>1, GraphInvariant, PTL
<1> QED BY <1>2 DEF NothingStale

-----------------------------------------------------------------------------
(* Order: lists and their parts *)

\* Induction over the naturals, for a set.
LEMMA Induction ==
  ASSUME NEW G, 0 \in G, \A n \in Nat : n \in G => n + 1 \in G
  PROVE  \A n \in Nat : n \in G
<1> DEFINE T == Nat \ G
           R == OpToRel(<, Nat)
<1> SUFFICES ASSUME T # {} PROVE FALSE
  OBVIOUS
<1>1. IsWellFoundedOn(R, Nat)
  BY NatLessThanWellFounded, Zenon
<1>2. \A x, y \in Nat : x < y => <<x, y>> \in R
  BY DEF OpToRel
<1>3. T \subseteq Nat
  OBVIOUS
<1> HIDE DEF R
<1>4. PICK x \in T : \A y \in T : ~ (<<y, x>> \in R)
  BY <1>1, <1>3, WFMin
<1>5. x # 0 /\ x - 1 \in Nat /\ x - 1 < x
  OBVIOUS
<1>6. x - 1 \in T
  OBVIOUS
<1> QED BY <1>2, <1>4, <1>5, <1>6

\* A set of naturals that has an element has a least one.
LEMMA Least ==
  ASSUME NEW T, T \subseteq Nat, T # {}
  PROVE  \E x \in T : \A y \in T : x <= y
<1> DEFINE R == OpToRel(<, Nat)
<1>1. IsWellFoundedOn(R, Nat)
  BY NatLessThanWellFounded, Zenon
<1>2. \A x, y \in Nat : x < y => <<x, y>> \in R
  BY DEF OpToRel
<1> HIDE DEF R
<1>3. PICK x \in T : \A y \in T : ~ (<<y, x>> \in R)
  BY <1>1, WFMin
<1>4. \A y \in T : ~(y < x)
  BY <1>2, <1>3
<1>5. \A y \in T : x <= y
  BY <1>4
<1> QED BY <1>5

\* The recursive function of AtPlaces, one place after the other.
LEMMA KeptOneByOne ==
  ASSUME NEW s, Len(s) \in Nat, NEW places
  PROVE  \E kept : /\ kept[0] = <<>> /\ AtPlaces(s, places) = kept[Len(s)]
                   /\ \A n \in 1..Len(s) : kept[n] = IF n \in places THEN Append(kept[n - 1], s[n]) ELSE kept[n - 1]
<1> DEFINE Rule(f, N) == f = [n \in 0..N |-> IF n = 0 THEN <<>> ELSE IF n \in places THEN Append(f[n - 1], s[n]) ELSE f[n - 1]]
           G == {N \in Nat : \E f : Rule(f, N)}
<1>1. 0 \in G
  <2>1. Rule([n \in 0..0 |-> <<>>], 0)
    OBVIOUS
  <2> QED BY <2>1
<1>2. ASSUME NEW N \in Nat, N \in G PROVE N + 1 \in G
  <2>1. PICK f : Rule(f, N)
    BY <1>2
  <2> DEFINE g == [n \in 0..(N + 1) |-> IF n \in 0..N THEN f[n] ELSE IF N + 1 \in places THEN Append(f[N], s[N + 1]) ELSE f[N]]
  <2>2. \A n \in 0..N : g[n] = f[n]
    OBVIOUS
  <2>3. g[N + 1] = IF N + 1 \in places THEN Append(g[N], s[N + 1]) ELSE g[N]
    BY <2>2
  <2>4. \A n \in 0..N : f[n] = IF n = 0 THEN <<>> ELSE IF n \in places THEN Append(f[n - 1], s[n]) ELSE f[n - 1]
    BY <2>1
  <2>5. \A n \in 0..(N + 1) : g[n] = IF n = 0 THEN <<>> ELSE IF n \in places THEN Append(g[n - 1], s[n]) ELSE g[n - 1]
    <3> TAKE n \in 0..(N + 1)
    <3>1. CASE n = N + 1
      <4>1. n # 0 /\ n - 1 = N
        BY <3>1
      <4> HIDE DEF g
      <4> QED BY <2>3, <3>1, <4>1
    <3>2. CASE n \in 0..N
      <4>1. n # 0 => n - 1 \in 0..N
        BY <3>2
      <4> HIDE DEF g
      <4> QED BY <2>2, <2>4, <3>2, <4>1
    <3> QED BY <3>1, <3>2
  <2>6. g = [n \in 0..(N + 1) |-> g[n]]
    OBVIOUS
  <2> HIDE DEF g
  <2>7. Rule(g, N + 1)
    BY <2>5, <2>6
  <2> HIDE DEF Rule
  <2> QED BY <2>7
<1> HIDE DEF G
<1>3. Len(s) \in G
  BY <1>1, <1>2, Induction
<1> DEFINE f == CHOOSE f : Rule(f, Len(s))
<1>4. Rule(f, Len(s))
  BY <1>3 DEF G
<1>5. AtPlaces(s, places) = f[Len(s)]
  BY DEF AtPlaces
<1> HIDE DEF f
<1>6. \A n \in 0..Len(s) : f[n] = IF n = 0 THEN <<>> ELSE IF n \in places THEN Append(f[n - 1], s[n]) ELSE f[n - 1]
  BY <1>4
<1>7. f[0] = <<>>
  BY <1>6
<1>8. \A n \in 1..Len(s) : f[n] = IF n \in places THEN Append(f[n - 1], s[n]) ELSE f[n - 1]
  BY <1>6
<1> QED BY <1>5, <1>7, <1>8

\* t has the elements of s at the places up to n, in order; g says which is where
Keeps(t, g, s, places, n) ==
  /\ g \in [DOMAIN t -> places \cap 1..n]
  /\ \A i, j \in DOMAIN t : i < j => g[i] < g[j]
  /\ \A k \in places \cap 1..n : \E i \in DOMAIN t : g[i] = k
  /\ \A i \in DOMAIN t : t[i] = s[g[i]]

\* What is kept of a list is a list of the same kind.
LEMMA AtPlacesKeeps ==
  ASSUME NEW S, NEW s \in Seq(S), NEW places
  PROVE  AtPlaces(s, places) \in Seq(S) /\ \E g : Keeps(AtPlaces(s, places), g, s, places, Len(s))
<1>1. Len(s) \in Nat /\ DOMAIN s = 1..Len(s) /\ \A i \in DOMAIN s : s[i] \in S
  BY LenProperties, ElementOfSeq
<1>2. PICK kept : /\ kept[0] = <<>> /\ AtPlaces(s, places) = kept[Len(s)]
                  /\ \A n \in 1..Len(s) : kept[n] = IF n \in places THEN Append(kept[n - 1], s[n]) ELSE kept[n - 1]
  BY <1>1, KeptOneByOne
<1> DEFINE G == {n \in Nat : n <= Len(s) => kept[n] \in Seq(S) /\ \E g : Keeps(kept[n], g, s, places, n)}
<1>3. 0 \in G
  <2>1. Keeps(<<>>, <<>>, s, places, 0)
    BY DEF Keeps
  <2>2. kept[0] = <<>> /\ <<>> \in Seq(S)
    BY <1>2
  <2>3. \E g : Keeps(kept[0], g, s, places, 0)
    BY <2>1, <2>2
  <2> QED BY <2>2, <2>3
<1>4. ASSUME NEW N \in Nat, N \in G PROVE N + 1 \in G
  <2> SUFFICES ASSUME N + 1 <= Len(s) PROVE kept[N + 1] \in Seq(S) /\ \E g : Keeps(kept[N + 1], g, s, places, N + 1)
    OBVIOUS
  <2>1. N + 1 \in 1..Len(s) /\ s[N + 1] \in S /\ N + 1 - 1 = N
    BY <1>1
  <2>2. kept[N] \in Seq(S)
    BY <1>1, <1>4
  <2>3. PICK g : Keeps(kept[N], g, s, places, N)
    BY <1>1, <1>4
  <2>4. CASE N + 1 \notin places
    <3>1. kept[N + 1] = kept[N]
      BY <1>2, <2>1, <2>4
    <3>2. places \cap 1..(N + 1) = places \cap 1..N
      BY <2>4
    <3>3. Keeps(kept[N], g, s, places, N + 1)
      BY <2>3, <3>2 DEF Keeps
    <3> QED BY <2>2, <3>1, <3>3
  <2>5. CASE N + 1 \in places
    <3> DEFINE t == Append(kept[N], s[N + 1])
               L == Len(kept[N])
               h == [i \in 1..(L + 1) |-> IF i = L + 1 THEN N + 1 ELSE g[i]]
    <3>1. kept[N + 1] = t
      <4>1. \A n \in 1..Len(s) : n \in places => kept[n] = Append(kept[n - 1], s[n])
        BY <1>2
      <4> QED BY <2>1, <2>5, <4>1
    <3>2. t \in Seq(S) /\ L \in Nat /\ DOMAIN kept[N] = 1..L /\ DOMAIN t = 1..(L + 1) /\ t[L + 1] = s[N + 1] /\ \A i \in 1..L : t[i] = kept[N][i]
      BY <2>1, <2>2, AppendProperties, LenProperties
    <3>3. \A i \in 1..L : g[i] \in places \cap 1..N
      BY <2>3, <3>2 DEF Keeps
    <3>4. h \in [DOMAIN t -> places \cap 1..(N + 1)]
      <4>1. \A i \in 1..(L + 1) : h[i] \in places \cap 1..(N + 1)
        <5> TAKE i \in 1..(L + 1)
        <5>1. CASE i = L + 1
          BY <2>5, <5>1
        <5>2. CASE i # L + 1
          <6>1. i \in 1..L /\ h[i] = g[i]
            BY <3>2, <5>2
          <6> QED BY <3>3, <6>1
        <5> QED BY <5>1, <5>2
      <4>2. h = [i \in 1..(L + 1) |-> h[i]]
        OBVIOUS
      <4> HIDE DEF h
      <4> QED BY <3>2, <4>1, <4>2
    <3>5. \A i, j \in DOMAIN t : i < j => h[i] < h[j]
      <4> SUFFICES ASSUME NEW i \in 1..(L + 1), NEW j \in 1..(L + 1), i < j PROVE h[i] < h[j]
        BY <3>2
      <4>1. i \in 1..L /\ h[i] = g[i] /\ g[i] \in 1..N
        BY <3>2, <3>3
      <4>2. CASE j = L + 1
        BY <4>1, <4>2
      <4>3. CASE j # L + 1
        <5>1. j \in 1..L /\ h[j] = g[j]
          BY <3>2, <4>3
        <5> QED BY <2>3, <3>2, <4>1, <5>1 DEF Keeps
      <4> QED BY <4>2, <4>3
    <3>6. \A k \in places \cap 1..(N + 1) : \E i \in DOMAIN t : h[i] = k
      <4> TAKE k \in places \cap 1..(N + 1)
      <4>1. CASE k = N + 1
        <5>1. L + 1 \in 1..(L + 1) /\ h[L + 1] = N + 1
          BY <3>2
        <5> QED BY <3>2, <4>1, <5>1
      <4>2. CASE k # N + 1
        <5>1. k \in places \cap 1..N
          BY <4>2
        <5>2. PICK i \in 1..L : g[i] = k
          BY <2>3, <3>2, <5>1 DEF Keeps
        <5>3. i \in 1..(L + 1) /\ h[i] = k
          BY <3>2, <5>2
        <5> QED BY <3>2, <5>3
      <4> QED BY <4>1, <4>2
    <3>7. \A i \in DOMAIN t : t[i] = s[h[i]]
      <4> SUFFICES ASSUME NEW i \in 1..(L + 1) PROVE t[i] = s[h[i]]
        BY <3>2
      <4>1. CASE i = L + 1
        BY <3>2, <4>1
      <4>2. CASE i # L + 1
        <5>1. i \in 1..L /\ h[i] = g[i]
          BY <3>2, <4>2
        <5> QED BY <2>3, <3>2, <5>1 DEF Keeps
      <4> QED BY <4>1, <4>2
    <3> HIDE DEF h, t
    <3>8. Keeps(t, h, s, places, N + 1)
      BY <3>4, <3>5, <3>6, <3>7 DEF Keeps
    <3> QED BY <3>1, <3>2, <3>8
  <2> QED BY <2>4, <2>5
<1> HIDE DEF G
<1>5. Len(s) \in G
  BY <1>1, <1>3, <1>4, Induction
<1>6. Len(s) <= Len(s)
  BY <1>1
<1> QED BY <1>2, <1>5, <1>6 DEF G

\* The places of the parts of a list, and what a list contains.
LEMMA InList ==
  ASSUME NEW s \in Seq(Method)
  PROVE  /\ Len(s) \in Nat /\ DOMAIN s = 1..Len(s)
         /\ \A i \in DOMAIN s : s[i] \in Method /\ s[i] \in ToSet(s)
         /\ \A p : p \in ToSet(s) <=> \E i \in DOMAIN s : s[i] = p
         /\ ToSet(s) \subseteq Method
<1>1. Len(s) \in Nat /\ DOMAIN s = 1..Len(s) /\ \A i \in DOMAIN s : s[i] \in Method
  BY LenProperties, ElementOfSeq
<1>2. \A p : p \in ToSet(s) <=> \E i \in DOMAIN s : s[i] = p
  BY DEF ToSet
<1> QED BY <1>1, <1>2

\* A list that has every codeunit's methods in declaration order.
Orderly(s) ==
  /\ s \in Seq(Method)
  /\ \A i, j \in DOMAIN s : i < j /\ SameGroup(s[i], s[j]) => IsBefore(Declared, s[i], s[j])

\* what could precede v in such a list
Ahead(s, v) == Orderly(s) /\ \A p \in ToSet(s) : SameGroup(p, v) => IsBefore(Declared, p, v)

\* t is what is left of s when some of its elements are taken out
Part(t, s) ==
  /\ t \in Seq(Method)
  /\ \E g \in [DOMAIN t -> DOMAIN s] : /\ \A i, j \in DOMAIN t : i < j => g[i] < g[j]
                                       /\ \A i \in DOMAIN t : t[i] = s[g[i]]

\* Of two methods, at most one is declared before the other.
LEMMA DeclaredOnce ==
  ASSUME NEW p, NEW v, IsBefore(Declared, p, v)
  PROVE  p # v /\ ~IsBefore(Declared, v, p)
<1>1. Len(Declared) \in Nat /\ DOMAIN Declared = 1..Len(Declared)
  BY WorldAssumption, InList
<1>2. PICK i, j \in DOMAIN Declared : i < j /\ Declared[i] = p /\ Declared[j] = v
  BY DEF IsBefore
<1>3. \A x, y \in DOMAIN Declared : Declared[x] = Declared[y] => x = y
  BY WorldAssumption
<1>4. p # v
  BY <1>1, <1>2, <1>3
<1>5. ASSUME IsBefore(Declared, v, p)
      PROVE  FALSE
  <2>1. PICK x, y \in DOMAIN Declared : x < y /\ Declared[x] = v /\ Declared[y] = p
    BY <1>5 DEF IsBefore
  <2>2. x = j /\ y = i
    BY <1>2, <1>3, <2>1
  <2> QED BY <1>1, <1>2, <2>1, <2>2
<1> QED BY <1>4, <1>5

\* A list filtered by a set is a part of it, and has exactly its elements in that set.
LEMMA OnlyIsPart ==
  ASSUME NEW s \in Seq(Method), NEW S
  PROVE  Part(Only(s, S), s) /\ ToSet(Only(s, S)) = ToSet(s) \cap S
<1> DEFINE places == {i \in DOMAIN s : s[i] \in S}
           t == AtPlaces(s, places)
<1>1. Only(s, S) = t
  BY DEF Only
<1>2. t \in Seq(Method)
  BY AtPlacesKeeps
<1>3. PICK g : Keeps(t, g, s, places, Len(s))
  BY AtPlacesKeeps
<1>4. DOMAIN s = 1..Len(s)
  BY InList
<1> HIDE DEF t
<1>5. g \in [DOMAIN t -> DOMAIN s] /\ \A i \in DOMAIN t : s[g[i]] \in S
  BY <1>3, <1>4 DEF Keeps
<1>6. Part(t, s)
  BY <1>2, <1>3, <1>5 DEF Keeps, Part
<1>7. ToSet(t) \subseteq ToSet(s) \cap S
  <2> SUFFICES ASSUME NEW p \in ToSet(t) PROVE p \in ToSet(s) \cap S
    OBVIOUS
  <2>1. PICK i \in DOMAIN t : t[i] = p
    BY <1>2, InList
  <2>2. t[i] = s[g[i]] /\ g[i] \in DOMAIN s
    BY <1>3, <1>5 DEF Keeps
  <2> QED BY <1>5, <2>1, <2>2, InList
<1>8. ToSet(s) \cap S \subseteq ToSet(t)
  <2> SUFFICES ASSUME NEW p \in ToSet(s) \cap S PROVE p \in ToSet(t)
    OBVIOUS
  <2>1. PICK k \in DOMAIN s : s[k] = p
    BY InList
  <2>2. k \in places \cap 1..Len(s)
    BY <1>4, <2>1
  <2>3. PICK i \in DOMAIN t : g[i] = k
    BY <1>3, <2>2 DEF Keeps
  <2>4. t[i] = p
    BY <1>3, <2>1, <2>3 DEF Keeps
  <2> QED BY <1>2, <2>4, InList
<1> QED BY <1>1, <1>6, <1>7, <1>8

\* A part of a list in order is in order, and ahead of whatever the list is ahead of.
LEMMA PartOrderly ==
  ASSUME NEW s, Orderly(s), NEW t, Part(t, s)
  PROVE  /\ Orderly(t) /\ ToSet(t) \subseteq ToSet(s)
         /\ \A v : Ahead(s, v) => Ahead(t, v)
<1>1. s \in Seq(Method) /\ t \in Seq(Method)
  BY DEF Orderly, Part
<1>2. PICK g : /\ g \in [DOMAIN t -> DOMAIN s]
               /\ \A x, y \in DOMAIN t : x < y => g[x] < g[y]
               /\ \A x \in DOMAIN t : t[x] = s[g[x]]
  BY DEF Part
<1>3. ASSUME NEW i \in DOMAIN t, NEW j \in DOMAIN t, i < j, SameGroup(t[i], t[j])
      PROVE  IsBefore(Declared, t[i], t[j])
  <2>1. g[i] \in DOMAIN s /\ g[j] \in DOMAIN s /\ g[i] < g[j] /\ t[i] = s[g[i]] /\ t[j] = s[g[j]]
    BY <1>2, <1>3
  <2> QED BY <1>3, <2>1 DEF Orderly
<1>4. Orderly(t)
  BY <1>1, <1>3 DEF Orderly
<1>5. ASSUME NEW p \in ToSet(t)
      PROVE  p \in ToSet(s)
  <2>1. PICK i \in DOMAIN t : t[i] = p
    BY <1>1, InList
  <2>2. g[i] \in DOMAIN s
    BY <1>2, <2>1
  <2>3. s[g[i]] = p
    BY <1>2, <2>1
  <2> QED BY <1>1, <2>2, <2>3, InList
<1> QED BY <1>4, <1>5 DEF Ahead

\* The shortest lists.
LEMMA EmptyOrderly ==
  /\ Orderly(<<>>) /\ ToSet(<<>>) = {}
  /\ \A m \in Method : Orderly(<<m>>) /\ ToSet(<<m>>) = {m} /\ Part(<<m>>, <<m>>)
<1>1. Orderly(<<>>) /\ ToSet(<<>>) = {}
  BY DEF Orderly, ToSet
<1>2. ASSUME NEW m \in Method
      PROVE  Orderly(<<m>>) /\ ToSet(<<m>>) = {m} /\ Part(<<m>>, <<m>>)
  <2>1. <<m>> \in Seq(Method) /\ DOMAIN <<m>> = {1} /\ <<m>>[1] = m
    OBVIOUS
  <2>2. \A i, j \in {1} : ~(i < j)
    OBVIOUS
  <2>3. Orderly(<<m>>)
    BY <2>1, <2>2 DEF Orderly
  <2>4. ToSet(<<m>>) = {m}
    <3>1. ToSet(<<m>>) = {<<m>>[i] : i \in {1}}
      BY <2>1, Zenon DEF ToSet
    <3> QED BY <2>1, <3>1
  <2>5. [i \in {1} |-> 1] \in [{1} -> {1}]
    OBVIOUS
  <2>6. Part(<<m>>, <<m>>)
    BY <2>1, <2>2, <2>5 DEF Part
  <2> QED BY <2>3, <2>4, <2>6
<1> QED BY <1>1, <1>2

\* Orderly lists of different codeunits make an orderly list.
LEMMA ConcatOrderly ==
  ASSUME NEW s, Orderly(s), NEW t, Orderly(t),
         \A p \in ToSet(s), q \in ToSet(t) : SameGroup(p, q) => IsBefore(Declared, p, q)
  PROVE  /\ Orderly(s \o t) /\ ToSet(s \o t) = ToSet(s) \cup ToSet(t)
         /\ \A p \in ToSet(s), q \in ToSet(t) : IsBefore(s \o t, p, q)
         /\ \A p, q : IsBefore(s, p, q) => IsBefore(s \o t, p, q)
<1> DEFINE u == s \o t
           m == Len(s)
           n == Len(t)
<1>1. s \in Seq(Method) /\ t \in Seq(Method)
  BY DEF Orderly
<1>2. m \in Nat /\ n \in Nat /\ DOMAIN s = 1..m /\ DOMAIN t = 1..n
  BY <1>1, InList
<1>3. u \in Seq(Method) /\ DOMAIN u = 1..(m + n)
  BY <1>1, ConcatProperties, InList
<1>4. \A i \in 1..m : i \in 1..(m + n) /\ u[i] = s[i]
  BY <1>1, <1>2, ConcatProperties
<1>5. \A i \in 1..n : m + i \in 1..(m + n) /\ u[m + i] = t[i]
  <2> TAKE i \in 1..n
  <2>1. m + i \in 1..(m + n) /\ ~(m + i <= m) /\ m + i - m = i
    BY <1>2
  <2> QED BY <1>1, <2>1, ConcatProperties
<1>6. \A i \in 1..(m + n) : i \in 1..m \/ \E k \in 1..n : i = m + k
  <2> TAKE i \in 1..(m + n)
  <2>1. i \notin 1..m => i - m \in 1..n /\ i = m + (i - m)
    BY <1>2
  <2> QED BY <2>1
<1> HIDE DEF u, m, n
<1>7. ASSUME NEW i \in 1..(m + n), NEW j \in 1..(m + n), i < j, SameGroup(u[i], u[j])
      PROVE  IsBefore(Declared, u[i], u[j])
  <2>1. CASE i \in 1..m /\ j \in 1..m
    <3>1. u[i] = s[i] /\ u[j] = s[j]
      BY <1>4, <2>1
    <3> QED BY <1>2, <1>7, <2>1, <3>1 DEF Orderly
  <2>2. ASSUME i \in 1..m, NEW k \in 1..n, j = m + k
        PROVE  IsBefore(Declared, u[i], u[j])
    <3>1. u[i] = s[i] /\ u[j] = t[k] /\ s[i] \in ToSet(s) /\ t[k] \in ToSet(t)
      BY <1>1, <1>2, <1>4, <1>5, <2>2, InList
    <3> QED BY <1>7, <3>1
  <2>3. ASSUME NEW k \in 1..n, i = m + k, NEW l \in 1..n, j = m + l
        PROVE  IsBefore(Declared, u[i], u[j])
    <3>1. u[i] = t[k] /\ u[j] = t[l]
      BY <1>5, <2>3
    <3>2. k < l
      BY <1>2, <1>7, <2>3
    <3> QED BY <1>2, <1>7, <3>1, <3>2 DEF Orderly
  <2>4. ASSUME NEW k \in 1..n, i = m + k, j \in 1..m
        PROVE  FALSE
    BY <1>2, <1>7, <2>4
  <2> QED BY <1>6, <2>1, <2>2, <2>3, <2>4
<1>8. Orderly(u)
  BY <1>3, <1>7 DEF Orderly
<1>9. ToSet(u) = ToSet(s) \cup ToSet(t)
  <2>1. ASSUME NEW p \in ToSet(u)
        PROVE  p \in ToSet(s) \cup ToSet(t)
    <3>1. PICK i \in 1..(m + n) : u[i] = p
      BY <1>3, InList
    <3>2. (i \in 1..m /\ s[i] = p) \/ \E k \in 1..n : t[k] = p
      BY <1>4, <1>5, <1>6, <3>1
    <3> QED BY <1>1, <1>2, <3>2, InList
  <2>2. ASSUME NEW p \in ToSet(s)
        PROVE  p \in ToSet(u)
    <3>1. PICK i \in 1..m : s[i] = p
      BY <1>1, <1>2, InList
    <3> QED BY <1>3, <1>4, <3>1, InList
  <2>3. ASSUME NEW p \in ToSet(t)
        PROVE  p \in ToSet(u)
    <3>1. PICK i \in 1..n : t[i] = p
      BY <1>1, <1>2, InList
    <3> QED BY <1>3, <1>5, <3>1, InList
  <2> QED BY <2>1, <2>2, <2>3
<1>10. ASSUME NEW p \in ToSet(s), NEW q \in ToSet(t)
       PROVE  IsBefore(u, p, q)
  <2>1. PICK i \in 1..m : s[i] = p
    BY <1>1, <1>2, InList
  <2>2. PICK k \in 1..n : t[k] = q
    BY <1>1, <1>2, InList
  <2>3. i \in DOMAIN u /\ m + k \in DOMAIN u /\ u[i] = p /\ u[m + k] = q
    BY <1>3, <1>4, <1>5, <2>1, <2>2
  <2>4. i < m + k
    BY <1>2
  <2> QED BY <2>3, <2>4 DEF IsBefore
<1>11. ASSUME NEW p, NEW q, IsBefore(s, p, q)
       PROVE  IsBefore(u, p, q)
  <2>1. PICK i, j \in DOMAIN s : i < j /\ s[i] = p /\ s[j] = q
    BY <1>11 DEF IsBefore
  <2>2. i \in DOMAIN u /\ j \in DOMAIN u /\ u[i] = p /\ u[j] = q
    BY <1>2, <1>3, <1>4, <2>1
  <2> QED BY <2>1, <2>2 DEF IsBefore
<1> QED BY <1>8, <1>9, <1>10, <1>11 DEF u

\* In an orderly list, what is declared before v is before v, and the server runs it as listed.
LEMMA OrderlyBefore ==
  ASSUME NEW s, Orderly(s), NEW p \in ToSet(s), NEW v \in ToSet(s)
  PROVE  SameGroup(p, v) => (IsBefore(Declared, p, v) <=> IsBefore(s, p, v))
<1>1. s \in Seq(Method)
  BY DEF Orderly
<1>2. Len(s) \in Nat /\ DOMAIN s = 1..Len(s)
  BY <1>1, InList
<1> SUFFICES ASSUME SameGroup(p, v) PROVE IsBefore(Declared, p, v) <=> IsBefore(s, p, v)
  OBVIOUS
<1>3. ASSUME NEW x, NEW y, SameGroup(x, y), IsBefore(s, x, y)
      PROVE  IsBefore(Declared, x, y)
  <2>1. PICK i, j \in DOMAIN s : i < j /\ s[i] = x /\ s[j] = y
    BY <1>3 DEF IsBefore
  <2> QED BY <1>3, <2>1 DEF Orderly
<1>4. ASSUME IsBefore(Declared, p, v)
      PROVE  IsBefore(s, p, v)
  <2>1. p # v /\ ~IsBefore(Declared, v, p)
    BY <1>4, DeclaredOnce
  <2>2. PICK i \in DOMAIN s : s[i] = p
    BY <1>1, InList
  <2>3. PICK j \in DOMAIN s : s[j] = v
    BY <1>1, InList
  <2>4. ~(j < i)
    <3>1. j < i => IsBefore(s, v, p)
      BY <2>2, <2>3 DEF IsBefore
    <3>2. SameGroup(v, p)
      BY DEF SameGroup
    <3> QED BY <1>3, <2>1, <3>1, <3>2
  <2>5. i < j
    BY <1>2, <2>1, <2>2, <2>3, <2>4
  <2> QED BY <2>2, <2>3, <2>5 DEF IsBefore
<1> QED BY <1>3, <1>4

\* What runs before a method of a list in order is what is listed before it.
LEMMA RunsAsListed ==
  ASSUME NEW s, Orderly(s), NEW v \in ToSet(s)
  PROVE  Before(s, v) = {p \in ToSet(s) : IsBefore(s, p, v)}
BY OrderlyBefore DEF Before

\* What precedes m in an orderly list is what the server runs before m.
LEMMA PrefixOK ==
  ASSUME NEW s, Orderly(s), NEW m \in ToSet(s)
  PROVE  /\ Prefix(s, m) \in Seq(Method) /\ ToSet(Prefix(s, m)) = Before(s, m)
         /\ Ahead(Prefix(s, m), m)
<1>1. s \in Seq(Method)
  BY DEF Orderly
<1>2. Len(s) \in Nat /\ DOMAIN s = 1..Len(s)
  BY <1>1, InList
<1>3. PICK k \in 1..Len(s) : s[k] = m
  BY <1>1, <1>2, InList
<1>4. \A j \in DOMAIN s : s[j] = m => j = k
  <2>1. ~IsBefore(Declared, m, m) /\ SameGroup(m, m)
    BY DeclaredOnce DEF SameGroup
  <2>2. \A j \in DOMAIN s : s[j] = m => ~(j < k) /\ ~(k < j)
    BY <1>2, <1>3, <2>1 DEF Orderly
  <2> QED BY <1>2, <2>2
<1>5. SelectInSeq(s, LAMBDA x : x = m) = k
  BY <1>2, <1>3, <1>4 DEF SelectInSeq, Min
<1> DEFINE t == Prefix(s, m)
<1>6. t = SubSeq(s, 1, k - 1)
  BY <1>5 DEF Prefix
<1>7. t \in Seq(Method) /\ DOMAIN t = 1..(k - 1) /\ \A i \in 1..(k - 1) : t[i] = s[i]
  <2>1. 1 \in Int /\ k - 1 \in Int /\ \A i \in 1..(k - 1) : i \in 1..Len(s)
    BY <1>2
  <2>2. \A i \in 1..(k - 1) : s[i] \in Method
    BY <1>1, <1>2, <2>1, InList
  <2>3. t \in Seq(Method) /\ Len(t) = (IF 1 <= k - 1 THEN k - 1 - 1 + 1 ELSE 0) /\ \A i \in 1..(k - 1 - 1 + 1) : t[i] = s[1 + i - 1]
    BY <1>6, <2>1, <2>2, SubSeqProperties
  <2>4. Len(t) = k - 1 /\ k - 1 - 1 + 1 = k - 1
    BY <1>2, <2>3
  <2>5. \A i \in 1..(k - 1) : 1 + i - 1 = i
    OBVIOUS
  <2> HIDE DEF t
  <2> QED BY <2>3, <2>4, <2>5, InList
<1> HIDE DEF t
<1>8. ToSet(t) = {p \in ToSet(s) : IsBefore(s, p, m)}
  <2>1. ASSUME NEW p \in ToSet(t)
        PROVE  p \in ToSet(s) /\ IsBefore(s, p, m)
    <3>1. PICK i \in 1..(k - 1) : t[i] = p
      BY <1>7, <2>1, InList
    <3>2. i \in DOMAIN s /\ s[i] = p /\ i < k /\ k \in DOMAIN s
      BY <1>2, <1>7, <3>1
    <3> QED BY <1>1, <1>3, <3>2, InList DEF IsBefore
  <2>2. ASSUME NEW p, IsBefore(s, p, m)
        PROVE  p \in ToSet(t)
    <3>1. PICK i, j \in DOMAIN s : i < j /\ s[i] = p /\ s[j] = m
      BY <2>2 DEF IsBefore
    <3>2. i \in 1..(k - 1)
      BY <1>2, <1>4, <3>1
    <3> QED BY <1>7, <3>1, <3>2, InList
  <2> QED BY <2>1, <2>2
<1>9. Part(t, s)
  <2>1. [i \in 1..(k - 1) |-> i] \in [DOMAIN t -> DOMAIN s]
    BY <1>2, <1>7
  <2> QED BY <1>7, <2>1 DEF Part
<1>10. Orderly(t)
  BY <1>9, PartOrderly
<1>11. \A p \in ToSet(t) : SameGroup(p, m) => IsBefore(Declared, p, m)
  BY <1>8, OrderlyBefore
<1> QED BY <1>7, <1>8, <1>10, <1>11, RunsAsListed DEF Ahead, t

\* The recursive function of FlattenSeq, one list after the other.
LEMMA FlatOneByOne ==
  ASSUME NEW seqs, Len(seqs) \in Nat \ {0}
  PROVE  \E flat : /\ flat[1] = seqs[1] /\ FlattenSeq(seqs) = flat[Len(seqs)]
                   /\ \A n \in Nat \ {0} : n + 1 <= Len(seqs) => flat[n + 1] = flat[n] \o seqs[n + 1]
<1> DEFINE Rule(f, N) == f = [n \in 1..N |-> IF n = 1 THEN seqs[n] ELSE f[n - 1] \o seqs[n]]
           G == {N \in Nat : \E f : Rule(f, N)}
<1>1. 0 \in G
  <2>1. Rule([n \in 1..0 |-> seqs[n]], 0)
    OBVIOUS
  <2> QED BY <2>1
<1>2. ASSUME NEW N \in Nat, N \in G PROVE N + 1 \in G
  <2>1. PICK f : Rule(f, N)
    BY <1>2
  <2> DEFINE g == [n \in 1..(N + 1) |-> IF n \in 1..N THEN f[n] ELSE IF N = 0 THEN seqs[1] ELSE f[N] \o seqs[N + 1]]
  <2>2. \A n \in 1..N : g[n] = f[n]
    OBVIOUS
  <2>3. g[N + 1] = IF N = 0 THEN seqs[1] ELSE g[N] \o seqs[N + 1]
    BY <2>2
  <2>4. \A n \in 1..N : f[n] = IF n = 1 THEN seqs[n] ELSE f[n - 1] \o seqs[n]
    BY <2>1
  <2>5. \A n \in 1..(N + 1) : g[n] = IF n = 1 THEN seqs[n] ELSE g[n - 1] \o seqs[n]
    <3> TAKE n \in 1..(N + 1)
    <3>1. CASE n = N + 1
      <4>1. n - 1 = N /\ (n = 1 <=> N = 0)
        BY <3>1
      <4> HIDE DEF g
      <4> QED BY <2>3, <3>1, <4>1
    <3>2. CASE n \in 1..N
      <4>1. n # 1 => n - 1 \in 1..N
        BY <3>2
      <4> HIDE DEF g
      <4> QED BY <2>2, <2>4, <3>2, <4>1
    <3> QED BY <3>1, <3>2
  <2>6. g = [n \in 1..(N + 1) |-> g[n]]
    OBVIOUS
  <2> HIDE DEF g
  <2>7. Rule(g, N + 1)
    BY <2>5, <2>6
  <2> HIDE DEF Rule
  <2> QED BY <2>7
<1> HIDE DEF G
<1>3. Len(seqs) \in G
  BY <1>1, <1>2, Induction
<1> DEFINE f == CHOOSE f : Rule(f, Len(seqs))
<1>4. Rule(f, Len(seqs))
  BY <1>3 DEF G
<1>5. FlattenSeq(seqs) = f[Len(seqs)]
  BY DEF FlattenSeq
<1> HIDE DEF f
<1>6. \A n \in 1..Len(seqs) : f[n] = IF n = 1 THEN seqs[n] ELSE f[n - 1] \o seqs[n]
  BY <1>4
<1>7. f[1] = seqs[1]
  BY <1>6
<1>8. ASSUME NEW n \in Nat \ {0}, n + 1 <= Len(seqs)
      PROVE  f[n + 1] = f[n] \o seqs[n + 1]
  <2> DEFINE m == n + 1
  <2>1. m \in 1..Len(seqs) /\ m # 1 /\ m - 1 = n
    BY <1>8
  <2> HIDE DEF m
  <2>2. f[m] = IF m = 1 THEN seqs[m] ELSE f[m - 1] \o seqs[m]
    BY <1>6, <2>1
  <2>3. f[m] = f[n] \o seqs[m]
    BY <2>1, <2>2
  <2> QED BY <2>3 DEF m
<1> QED BY <1>5, <1>7, <1>8

\* Lists of different codeunits, one after the other.
LEMMA FlattenOrderly ==
  ASSUME NEW seqs, Len(seqs) \in Nat, DOMAIN seqs = 1..Len(seqs), Len(seqs) = 0 => seqs = <<>>,
         \A i \in DOMAIN seqs : Orderly(seqs[i]),
         \A i, j \in DOMAIN seqs : i < j => \A p \in ToSet(seqs[i]), q \in ToSet(seqs[j]) : ~SameGroup(p, q)
  PROVE  /\ Orderly(FlattenSeq(seqs)) /\ ToSet(FlattenSeq(seqs)) = UNION {ToSet(seqs[i]) : i \in DOMAIN seqs}
         /\ \A i, j \in DOMAIN seqs : i < j => \A p \in ToSet(seqs[i]), q \in ToSet(seqs[j]) : IsBefore(FlattenSeq(seqs), p, q)
<1>1. CASE Len(seqs) = 0
  <2>1. FlattenSeq(seqs) = <<>> /\ DOMAIN seqs = {}
    BY <1>1 DEF FlattenSeq
  <2> QED BY <2>1, EmptyOrderly
<1>2. CASE Len(seqs) # 0
  <2>1. PICK flat : /\ flat[1] = seqs[1] /\ FlattenSeq(seqs) = flat[Len(seqs)]
                    /\ \A n \in Nat \ {0} : n + 1 <= Len(seqs) => flat[n + 1] = flat[n] \o seqs[n + 1]
    BY <1>2, FlatOneByOne
  <2> DEFINE Good(s, n) ==
        /\ Orderly(s) /\ ToSet(s) = UNION {ToSet(seqs[i]) : i \in 1..n}
        /\ \A i, j \in 1..n : i < j => \A p \in ToSet(seqs[i]), q \in ToSet(seqs[j]) : IsBefore(s, p, q)
  <2> DEFINE G == {n \in Nat : n + 1 <= Len(seqs) => Good(flat[n + 1], n + 1)}
  <2>2. 0 \in G
    <3>1. 1 \in DOMAIN seqs /\ 0 + 1 = 1 /\ \A i, j \in 1..1 : ~(i < j)
      BY <1>2
    <3>2. UNION {ToSet(seqs[i]) : i \in 1..1} = ToSet(seqs[1])
      <4>1. 1..1 = {1}
        OBVIOUS
      <4> QED BY <4>1
    <3>3. Good(flat[1], 1)
      BY <2>1, <3>1, <3>2
    <3> HIDE DEF Good
    <3> QED BY <3>1, <3>3
  <2>3. ASSUME NEW N \in Nat, N \in G PROVE N + 1 \in G
    <3> SUFFICES ASSUME N + 1 + 1 <= Len(seqs) PROVE Good(flat[N + 1 + 1], N + 1 + 1)
      OBVIOUS
    <3> DEFINE n == N + 1
               s == flat[n]
               t == seqs[n + 1]
    <3>1. n \in Nat /\ n + 1 - 1 = n /\ n + 1 \in 1..Len(seqs) /\ n + 1 # 1 /\ n <= Len(seqs) /\ 1..n \subseteq 1..Len(seqs)
      OBVIOUS
    <3>2. Good(s, n)
      <4> HIDE DEF Good
      <4> QED BY <2>3, <3>1
    <3>3. flat[n + 1] = s \o t
      <4>1. n \in Nat \ {0} /\ n + 1 <= Len(seqs)
        OBVIOUS
      <4> QED BY <2>1, <4>1
    <3>4. Orderly(t)
      BY <3>1
    <3> HIDE DEF s, t, n
    <3>5. ASSUME NEW i \in 1..n, NEW p \in ToSet(seqs[i]), NEW q \in ToSet(t)
          PROVE  ~SameGroup(p, q)
      <4>1. i \in DOMAIN seqs /\ n + 1 \in DOMAIN seqs /\ i < n + 1
        BY <3>1
      <4> QED BY <3>5, <4>1 DEF t
    <3>6. \A p \in ToSet(s), q \in ToSet(t) : ~SameGroup(p, q)
      BY <3>2, <3>5
    <3>7. /\ Orderly(s \o t) /\ ToSet(s \o t) = ToSet(s) \cup ToSet(t)
          /\ \A p \in ToSet(s), q \in ToSet(t) : IsBefore(s \o t, p, q)
          /\ \A p, q : IsBefore(s, p, q) => IsBefore(s \o t, p, q)
      BY <3>2, <3>4, <3>6, ConcatOrderly
    <3>8. \A i \in 1..(n + 1) : i \in 1..n \/ i = n + 1
      BY <3>1
    <3>9. ToSet(s \o t) = UNION {ToSet(seqs[i]) : i \in 1..(n + 1)}
      <4>1. ASSUME NEW x, NEW i \in 1..(n + 1), x \in ToSet(seqs[i])
            PROVE  x \in ToSet(s \o t)
        <5>1. CASE i \in 1..n
          BY <3>2, <3>7, <4>1, <5>1
        <5>2. CASE i = n + 1
          BY <3>7, <4>1, <5>2 DEF t
        <5> QED BY <3>8, <5>1, <5>2
      <4>2. ASSUME NEW x \in ToSet(s \o t)
            PROVE  \E i \in 1..(n + 1) : x \in ToSet(seqs[i])
        <5>1. CASE x \in ToSet(s)
          <6>1. PICK i \in 1..n : x \in ToSet(seqs[i])
            BY <3>2, <5>1
          <6>2. i \in 1..(n + 1)
            BY <3>1
          <6> QED BY <6>1, <6>2
        <5>2. CASE x \in ToSet(t)
          <6>1. n + 1 \in 1..(n + 1)
            BY <3>1
          <6> QED BY <5>2, <6>1 DEF t
        <5> QED BY <3>7, <5>1, <5>2
      <4> QED BY <4>1, <4>2
    <3>10. ASSUME NEW i \in 1..(n + 1), NEW j \in 1..(n + 1), i < j, NEW p \in ToSet(seqs[i]), NEW q \in ToSet(seqs[j])
           PROVE  IsBefore(s \o t, p, q)
      <4>1. i \in 1..n
        BY <3>1, <3>10
      <4>2. CASE j \in 1..n
        BY <3>2, <3>7, <3>10, <4>1, <4>2
      <4>3. CASE j = n + 1
        <5>1. p \in ToSet(s) /\ q \in ToSet(t)
          BY <3>2, <3>10, <4>1, <4>3 DEF t
        <5> QED BY <3>7, <5>1
      <4> QED BY <3>8, <4>2, <4>3
    <3>11. Good(s \o t, n + 1)
      BY <3>7, <3>9, <3>10
    <3> HIDE DEF Good
    <3> QED BY <3>3, <3>11 DEF n
  <2> HIDE DEF G
  <2>4. Len(seqs) - 1 \in G
    BY <1>2, <2>2, <2>3, Induction
  <2>5. Len(seqs) - 1 + 1 = Len(seqs)
    BY <1>2
  <2> QED BY <1>2, <2>1, <2>4, <2>5 DEF G
<1> QED BY <1>1, <1>2

\* A list with one element for every one of another.
LEMMA ListOf ==
  ASSUME NEW f, NEW n \in Nat, DOMAIN f = 1..n, f = [i \in 1..n |-> f[i]]
  PROVE  Len(f) = n
<1>1. f \in Seq({f[i] : i \in 1..n})
  OBVIOUS
<1>2. Len(f) \in Nat /\ DOMAIN f = 1..Len(f)
  BY <1>1, LenProperties
<1> QED BY <1>2

\* Every codeunit of a list, once, by its first method.
LEMMA CodeunitsOK ==
  ASSUME NEW s \in Seq(Method)
  PROVE  LET ids == Codeunits(s) IN
         /\ Len(ids) \in Nat /\ DOMAIN ids = 1..Len(ids)
         /\ \A k, l \in DOMAIN ids : ids[k] = ids[l] => k = l
         /\ \A p \in ToSet(s) : \E k \in DOMAIN ids : ids[k] = CodeunitOf[p]
         /\ \A k, l \in DOMAIN ids, p, q \in ToSet(s) :
              /\ ids[k] = CodeunitOf[p] /\ ids[l] = CodeunitOf[q]
              /\ \E i \in DOMAIN s : SameGroup(s[i], p) /\ \A j \in DOMAIN s : SameGroup(s[j], q) => i < j
              => k < l
<1> DEFINE places == {j \in DOMAIN s : \A i \in 1..(j - 1) : ~SameGroup(s[i], s[j])}
           t == AtPlaces(s, places)
           ids == Codeunits(s)
           n == Len(s)
<1>1. n \in Nat /\ DOMAIN s = 1..n /\ \A i \in 1..n : s[i] \in ToSet(s)
  BY InList
<1>2. t \in Seq(Method) /\ Firsts(s) = t
  BY AtPlacesKeeps DEF Firsts
<1>3. PICK g : Keeps(t, g, s, places, n)
  BY AtPlacesKeeps
<1>4. Len(t) \in Nat /\ DOMAIN t = 1..Len(t)
  BY <1>2, InList
<1>5. ids = [k \in 1..Len(t) |-> CodeunitOf[t[k]]]
  BY <1>2, <1>4 DEF Codeunits
<1>6. DOMAIN ids = 1..Len(t) /\ \A k \in 1..Len(t) : ids[k] = CodeunitOf[t[k]]
  BY <1>5
<1>7. ids = [k \in 1..Len(t) |-> ids[k]]
  BY <1>5
<1> HIDE DEF ids, t
<1>8. Len(ids) = Len(t)
  BY <1>4, <1>6, <1>7, ListOf
<1>9. ASSUME NEW k \in DOMAIN ids
      PROVE  /\ g[k] \in 1..n /\ ids[k] = CodeunitOf[s[g[k]]]
             /\ \A i \in 1..n : SameGroup(s[i], s[g[k]]) => g[k] <= i
  <2>1. g[k] \in places /\ t[k] = s[g[k]]
    BY <1>3, <1>4, <1>6 DEF Keeps
  <2>2. g[k] \in 1..n /\ \A i \in 1..(g[k] - 1) : ~SameGroup(s[i], s[g[k]])
    BY <1>1, <2>1
  <2>3. ASSUME NEW i \in 1..n, SameGroup(s[i], s[g[k]]), ~(g[k] <= i)
        PROVE  FALSE
    <3>1. i \in 1..(g[k] - 1)
      BY <1>1, <2>2, <2>3
    <3> QED BY <2>2, <2>3, <3>1
  <2> QED BY <1>6, <2>1, <2>2, <2>3
<1>10. \A k, l \in DOMAIN ids : k < l => g[k] < g[l]
  BY <1>3, <1>4, <1>6 DEF Keeps
<1> HIDE DEF places
<1>11. ASSUME NEW k \in DOMAIN ids, NEW l \in DOMAIN ids, ids[k] = ids[l]
       PROVE  k = l
  <2>1. SameGroup(s[g[k]], s[g[l]]) /\ SameGroup(s[g[l]], s[g[k]])
    BY <1>9, <1>11 DEF SameGroup
  <2>2. g[k] <= g[l] /\ g[l] <= g[k] /\ g[k] \in 1..n /\ g[l] \in 1..n
    BY <1>9, <2>1
  <2>3. ~(g[k] < g[l]) /\ ~(g[l] < g[k])
    BY <1>1, <2>2
  <2>4. ~(k < l) /\ ~(l < k)
    BY <1>10, <2>3
  <2> QED BY <1>4, <1>6, <2>4
<1>12. ASSUME NEW p \in ToSet(s)
       PROVE  \E k \in DOMAIN ids : ids[k] = CodeunitOf[p]
  <2> DEFINE T == {i \in 1..n : SameGroup(s[i], p)}
  <2>1. T # {} /\ T \subseteq Nat
    <3>1. PICK i \in 1..n : s[i] = p
      BY <1>1, InList
    <3> QED BY <3>1 DEF SameGroup
  <2>2. PICK j \in T : \A i \in T : j <= i
    BY <2>1, Least
  <2>3. \A i \in 1..(j - 1) : ~SameGroup(s[i], s[j])
    <3> SUFFICES ASSUME NEW i \in 1..(j - 1), SameGroup(s[i], s[j]) PROVE FALSE
      OBVIOUS
    <3>1. i \in 1..n /\ ~(j <= i)
      BY <1>1, <2>2
    <3>2. SameGroup(s[i], p)
      BY <2>2 DEF SameGroup
    <3> QED BY <2>2, <3>1, <3>2
  <2>4. j \in places \cap 1..n
    BY <1>1, <2>2, <2>3 DEF places
  <2>5. PICK k \in DOMAIN t : g[k] = j
    BY <1>3, <2>4 DEF Keeps
  <2>6. ids[k] = CodeunitOf[s[j]] /\ CodeunitOf[s[j]] = CodeunitOf[p]
    BY <1>4, <1>6, <1>9, <2>2, <2>5 DEF SameGroup
  <2> QED BY <1>4, <1>6, <2>5, <2>6
<1>13. ASSUME NEW k \in DOMAIN ids, NEW l \in DOMAIN ids, NEW p \in ToSet(s), NEW q \in ToSet(s),
              ids[k] = CodeunitOf[p], ids[l] = CodeunitOf[q],
              NEW i \in DOMAIN s, SameGroup(s[i], p), \A j \in DOMAIN s : SameGroup(s[j], q) => i < j
       PROVE  k < l
  <2>1. SameGroup(s[i], s[g[k]]) /\ SameGroup(s[g[l]], q)
    BY <1>9, <1>13 DEF SameGroup
  <2>2. g[k] \in 1..n /\ g[l] \in 1..n /\ g[k] <= i /\ i < g[l]
    BY <1>1, <1>9, <1>13, <2>1
  <2>3. g[k] < g[l] /\ ~(g[l] < g[k]) /\ g[k] # g[l]
    BY <1>1, <2>2
  <2>4. ~(l < k) /\ k # l
    BY <1>10, <2>3
  <2> QED BY <1>4, <1>6, <2>4
<1>14. Len(ids) \in Nat /\ DOMAIN ids = 1..Len(ids)
  BY <1>4, <1>6, <1>8
<1> QED BY <1>11, <1>12, <1>13, <1>14 DEF ids

\* ids names every codeunit of s, once
Names(ids, s) ==
  /\ Len(ids) \in Nat /\ DOMAIN ids = 1..Len(ids)
  /\ \A k, l \in DOMAIN ids : ids[k] = ids[l] => k = l
  /\ \A p \in ToSet(s) : \E k \in DOMAIN ids : ids[k] = CodeunitOf[p]

\* The codeunits of an orderly list in any order make an orderly list.
LEMMA InOrderOK ==
  ASSUME NEW s, Orderly(s), NEW ids, Names(ids, s)
  PROVE  /\ Orderly(InOrder(s, ids)) /\ ToSet(InOrder(s, ids)) = ToSet(s)
         /\ \A p, q \in ToSet(s), k, l \in DOMAIN ids :
              k < l /\ ids[k] = CodeunitOf[p] /\ ids[l] = CodeunitOf[q] => IsBefore(InOrder(s, ids), p, q)
<1> DEFINE seqs == [i \in DOMAIN ids |-> Group(s, ids[i])]
           n == Len(ids)
<1>1. n \in Nat /\ DOMAIN ids = 1..n
  BY DEF Names
<1>2. DOMAIN seqs = 1..n /\ seqs = [i \in 1..n |-> seqs[i]]
  BY <1>1
<1>3. Len(seqs) = n
  <2> HIDE DEF seqs
  <2> QED BY <1>1, <1>2, ListOf
<1>4. n = 0 => seqs = <<>>
  BY <1>1
<1>5. s \in Seq(Method)
  BY DEF Orderly
<1>6. ASSUME NEW i \in 1..n
      PROVE  Orderly(seqs[i]) /\ ToSet(seqs[i]) = {p \in ToSet(s) : CodeunitOf[p] = ids[i]}
  <2>1. seqs[i] = Only(s, {m \in Method : CodeunitOf[m] = ids[i]})
    BY <1>1 DEF Group
  <2>2. Orderly(seqs[i]) /\ ToSet(seqs[i]) = ToSet(s) \cap {m \in Method : CodeunitOf[m] = ids[i]}
    BY <1>5, <2>1, OnlyIsPart, PartOrderly
  <2>3. ToSet(s) \subseteq Method
    BY <1>5, InList
  <2> HIDE DEF seqs
  <2> QED BY <2>2, <2>3
<1>7. FlattenSeq(seqs) = InOrder(s, ids)
  BY DEF InOrder
<1> HIDE DEF seqs
<1>8. \A i, j \in 1..n : i < j => \A p \in ToSet(seqs[i]), q \in ToSet(seqs[j]) : ~SameGroup(p, q)
  <2> SUFFICES ASSUME NEW i \in 1..n, NEW j \in 1..n, i < j, NEW p \in ToSet(seqs[i]), NEW q \in ToSet(seqs[j]), SameGroup(p, q)
               PROVE  FALSE
    OBVIOUS
  <2>1. ids[i] = ids[j]
    BY <1>6 DEF SameGroup
  <2> QED BY <1>1, <2>1 DEF Names
<1>9. /\ Orderly(FlattenSeq(seqs)) /\ ToSet(FlattenSeq(seqs)) = UNION {ToSet(seqs[i]) : i \in DOMAIN seqs}
      /\ \A i, j \in DOMAIN seqs : i < j => \A p \in ToSet(seqs[i]), q \in ToSet(seqs[j]) : IsBefore(FlattenSeq(seqs), p, q)
  <2>1. Len(seqs) \in Nat /\ DOMAIN seqs = 1..Len(seqs) /\ (Len(seqs) = 0 => seqs = <<>>)
    BY <1>1, <1>2, <1>3, <1>4
  <2>2. \A i \in DOMAIN seqs : Orderly(seqs[i])
    BY <1>2, <1>6
  <2>3. \A i, j \in DOMAIN seqs : i < j => \A p \in ToSet(seqs[i]), q \in ToSet(seqs[j]) : ~SameGroup(p, q)
    BY <1>2, <1>8
  <2> QED BY <2>1, <2>2, <2>3, FlattenOrderly
<1>10. UNION {ToSet(seqs[i]) : i \in DOMAIN seqs} = ToSet(s)
  <2>1. ASSUME NEW p \in ToSet(s)
        PROVE  \E i \in DOMAIN seqs : p \in ToSet(seqs[i])
    <3>1. PICK k \in 1..n : ids[k] = CodeunitOf[p]
      BY <1>1 DEF Names
    <3> QED BY <1>2, <1>6, <3>1
  <2>2. \A i \in DOMAIN seqs : ToSet(seqs[i]) \subseteq ToSet(s)
    BY <1>2, <1>6
  <2> QED BY <2>1, <2>2
<1>11. ASSUME NEW p \in ToSet(s), NEW q \in ToSet(s), NEW k \in DOMAIN ids, NEW l \in DOMAIN ids,
              k < l, ids[k] = CodeunitOf[p], ids[l] = CodeunitOf[q]
       PROVE  IsBefore(FlattenSeq(seqs), p, q)
  <2>1. k \in DOMAIN seqs /\ l \in DOMAIN seqs /\ p \in ToSet(seqs[k]) /\ q \in ToSet(seqs[l])
    BY <1>1, <1>2, <1>6, <1>11
  <2> QED BY <1>9, <1>11, <2>1
<1> QED BY <1>7, <1>9, <1>10, <1>11

\* A list in order has no method twice.
LEMMA OrderlyOnce ==
  ASSUME NEW s, Orderly(s), NEW i \in DOMAIN s, NEW j \in DOMAIN s, s[i] = s[j]
  PROVE  i = j
<1>1. s \in Seq(Method) /\ DOMAIN s = 1..Len(s) /\ Len(s) \in Nat
  BY InList DEF Orderly
<1>2. ~IsBefore(Declared, s[i], s[j]) /\ ~IsBefore(Declared, s[j], s[i])
  BY DeclaredOnce
<1>3. SameGroup(s[i], s[j]) /\ SameGroup(s[j], s[i])
  BY DEF SameGroup
<1>4. ~(i < j) /\ ~(j < i)
  BY <1>2, <1>3 DEF Orderly
<1> QED BY <1>1, <1>4

\* Recorded, reversed or shuffled, a list is run as listed.
LEMMA PlansOrderly ==
  ASSUME NEW s, Orderly(s)
  PROVE  /\ Orderly(Recorded(s)) /\ ToSet(Recorded(s)) = ToSet(s)
         /\ Orderly(Reversed(s)) /\ ToSet(Reversed(s)) = ToSet(s)
         /\ \A plan \in Shuffled(s) : Orderly(plan) /\ ToSet(plan) = ToSet(s)
<1> DEFINE ids == Codeunits(s)
           n == Len(ids)
<1>1. s \in Seq(Method)
  BY DEF Orderly
<1>2. Names(ids, s) /\ n \in Nat /\ DOMAIN ids = 1..n
  BY <1>1, CodeunitsOK DEF Names
<1>3. Orderly(Recorded(s)) /\ ToSet(Recorded(s)) = ToSet(s)
  BY <1>2, InOrderOK DEF Recorded
<1> HIDE DEF ids
<1>4. Names(Reverse(ids), s)
  <2> DEFINE r == Reverse(ids)
  <2>1. r = [i \in 1..n |-> ids[n - i + 1]] /\ DOMAIN r = 1..n
    BY DEF Reverse
  <2>2. \A i \in 1..n : r[i] = ids[n - i + 1] /\ n - i + 1 \in 1..n
    BY <1>2, <2>1
  <2>3. r = [i \in 1..n |-> r[i]]
    BY <2>1
  <2> HIDE DEF r
  <2>4. Len(r) = n
    BY <1>2, <2>1, <2>3, ListOf
  <2>5. ASSUME NEW k \in 1..n, NEW l \in 1..n, r[k] = r[l]
        PROVE  k = l
    <3>1. n - k + 1 = n - l + 1
      BY <1>2, <2>2, <2>5 DEF Names
    <3> QED BY <1>2, <3>1
  <2>6. ASSUME NEW p \in ToSet(s)
        PROVE  \E k \in 1..n : r[k] = CodeunitOf[p]
    <3>1. PICK k \in 1..n : ids[k] = CodeunitOf[p]
      BY <1>2 DEF Names
    <3>2. n - k + 1 \in 1..n /\ n - (n - k + 1) + 1 = k
      BY <1>2
    <3> QED BY <2>2, <3>1, <3>2
  <2>7. Names(r, s)
    BY <1>2, <2>1, <2>4, <2>5, <2>6 DEF Names
  <2> QED BY <2>7 DEF r
<1>5. Orderly(Reversed(s)) /\ ToSet(Reversed(s)) = ToSet(s)
  BY <1>4, InOrderOK DEF Reversed, ids
<1>6. ASSUME NEW f \in SetToSeqs(ToSet(ids))
      PROVE  Names(f, s)
  <2> DEFINE D == 1..n
             S == ToSet(ids)
  <2>1. S = {ids[i] : i \in D}
    BY <1>2 DEF ToSet
  <2>2. [i \in D |-> ids[i]] \in Surjection(D, S) /\ IsFiniteSet(D) /\ Cardinality(D) = n
    <3>1. 1 \in Int /\ n \in Int
      BY <1>2
    <3>2. IsFiniteSet(1..n) /\ Cardinality(1..n) = IF n >= 1 THEN n - 1 + 1 ELSE 0
      BY <3>1, FS_Interval
    <3>3. [i \in D |-> ids[i]] \in Surjection(D, S)
      BY <2>1 DEF Surjection
    <3> QED BY <1>2, <3>2, <3>3
  <2>3. [i \in D |-> ids[i]] \in Injection(D, S)
    BY <1>2, <2>1 DEF Injection, IsInjective, Names
  <2>4. IsFiniteSet(S) /\ Cardinality(S) = n
    BY <2>2, <2>3, FS_Surjection
  <2>5. f \in [D -> S] /\ \A i, j \in D : i # j => f[i] # f[j]
    <3>1. SetToSeqs(S) = {h \in [1..Cardinality(S) -> S] : \A i, j \in 1..Cardinality(S) : i # j => h[i] # h[j]}
      BY DEF SetToSeqs
    <3> QED BY <1>6, <2>4, <3>1
  <2> HIDE DEF S
  <2>6. f \in Injection(D, S)
    BY <2>5 DEF Injection, IsInjective
  <2>7. f \in Surjection(D, S)
    BY <2>2, <2>4, <2>6, FS_Injection
  <2>8. \A x \in S : \E i \in D : f[i] = x
    BY <2>7 DEF Surjection
  <2>9. DOMAIN f = 1..n /\ Len(f) = n
    <3>1. DOMAIN f = 1..n /\ f = [i \in 1..n |-> f[i]]
      BY <2>5
    <3> QED BY <1>2, <3>1, ListOf
  <2>10. \A p \in ToSet(s) : CodeunitOf[p] \in S
    BY <1>2, <2>1 DEF Names
  <2> QED BY <1>2, <2>5, <2>8, <2>9, <2>10 DEF Names
<1>7. ASSUME NEW plan \in Shuffled(s)
      PROVE  Orderly(plan) /\ ToSet(plan) = ToSet(s)
  <2>1. PICK f \in SetToSeqs(ToSet(ids)) : plan = InOrder(s, f)
    BY DEF Shuffled, ids
  <2> QED BY <1>6, <2>1, InOrderOK
<1> QED BY <1>3, <1>5, <1>7

\* What is selected is orderly.
LEMMA ExpandOrderly ==
  ASSUME NEW request \in Requests, Acceptable(request)
  PROVE  Orderly(Expand(request))
<1> DEFINE seqs == [i \in DOMAIN request |-> Chosen(request[i])]
           n == Len(request)
<1>1. n \in Nat /\ DOMAIN request = 1..n
  BY OrderAssumption
<1>2. Orderly(Declared) /\ Declared \in Seq(Method)
  <2>1. Declared \in Seq(Method)
    BY WorldAssumption
  <2>2. \A i, j \in DOMAIN Declared : i < j => IsBefore(Declared, Declared[i], Declared[j])
    BY DEF IsBefore
  <2> QED BY <2>1, <2>2 DEF Orderly
<1>3. ASSUME NEW i \in 1..n
      PROVE  Orderly(seqs[i]) /\ \A p \in ToSet(seqs[i]) : CodeunitOf[p] = request[i].id
  <2>1. seqs[i] = Only(Declared, {m \in Method : CodeunitOf[m] = request[i].id /\ (request[i].all \/ m \in request[i].methods)})
    BY <1>1 DEF Chosen
  <2> HIDE DEF seqs
  <2> QED BY <1>2, <2>1, OnlyIsPart, PartOrderly
<1>4. \A i, j \in 1..n : request[i].id = request[j].id => i = j
  BY <1>1 DEF Acceptable
<1>5. DOMAIN seqs = 1..n /\ seqs = [i \in 1..n |-> seqs[i]]
  BY <1>1
<1>6. (n = 0 => seqs = <<>>) /\ FlattenSeq(seqs) = Expand(request)
  BY <1>1 DEF Expand
<1> HIDE DEF seqs
<1>7. Len(seqs) = n
  BY <1>1, <1>5, ListOf
<1>8. \A i, j \in DOMAIN seqs : i < j => \A p \in ToSet(seqs[i]), q \in ToSet(seqs[j]) : ~SameGroup(p, q)
  <2> SUFFICES ASSUME NEW i \in 1..n, NEW j \in 1..n, i < j, NEW p \in ToSet(seqs[i]), NEW q \in ToSet(seqs[j]), SameGroup(p, q)
               PROVE  FALSE
    BY <1>5
  <2>1. request[i].id = request[j].id
    BY <1>3 DEF SameGroup
  <2> QED BY <1>1, <1>4, <2>1
<1>9. Orderly(FlattenSeq(seqs))
  <2>1. Len(seqs) \in Nat /\ DOMAIN seqs = 1..Len(seqs) /\ (Len(seqs) = 0 => seqs = <<>>)
    BY <1>1, <1>5, <1>6, <1>7
  <2>2. \A i \in DOMAIN seqs : Orderly(seqs[i])
    BY <1>3, <1>5
  <2> QED BY <1>8, <2>1, <2>2, FlattenOrderly
<1> QED BY <1>6, <1>9

\* The plan of a probe: the suspects, whatever their order, and then v.
ProbeOf(s, v) ==
  Recorded(Only(s, {p \in Method : ~SameGroup(p, v)}) \o Only(s, {p \in Method : SameGroup(p, v)}) \o <<v>>)

\* A probe runs its suspects, all of them before the victim and nothing else before it.
LEMMA ProbeRunsAll ==
  ASSUME NEW v \in Method, NEW s, Ahead(s, v)
  PROVE  /\ Orderly(ProbeOf(s, v)) /\ ToSet(ProbeOf(s, v)) = ToSet(s) \cup {v}
         /\ Before(ProbeOf(s, v), v) = ToSet(s)
<1> DEFINE A == Only(s, {p \in Method : ~SameGroup(p, v)})
           B == Only(s, {p \in Method : SameGroup(p, v)})
           AB == A \o B
           L == AB \o <<v>>
           plan == ProbeOf(s, v)
<1>1. Orderly(s) /\ s \in Seq(Method) /\ ToSet(s) \subseteq Method
  BY InList DEF Ahead, Orderly
<1>2. Orderly(A) /\ ToSet(A) = {p \in ToSet(s) : ~SameGroup(p, v)}
  <2>1. Orderly(A) /\ ToSet(A) = ToSet(s) \cap {p \in Method : ~SameGroup(p, v)}
    BY <1>1, OnlyIsPart, PartOrderly
  <2> HIDE DEF A
  <2> QED BY <1>1, <2>1
<1>3. Orderly(B) /\ ToSet(B) = {p \in ToSet(s) : SameGroup(p, v)}
  <2>1. Orderly(B) /\ ToSet(B) = ToSet(s) \cap {p \in Method : SameGroup(p, v)}
    BY <1>1, OnlyIsPart, PartOrderly
  <2> HIDE DEF B
  <2> QED BY <1>1, <2>1
<1> HIDE DEF A, B
<1>4. \A p \in ToSet(A), q \in ToSet(B) : ~SameGroup(p, q)
  BY <1>2, <1>3 DEF SameGroup
<1>5. /\ Orderly(AB) /\ ToSet(AB) = ToSet(A) \cup ToSet(B)
      /\ \A p \in ToSet(A), q \in ToSet(B) : IsBefore(AB, p, q)
  BY <1>2, <1>3, <1>4, ConcatOrderly
<1>6. ToSet(AB) = ToSet(s)
  BY <1>2, <1>3, <1>5
<1> HIDE DEF AB
<1>7. Orderly(<<v>>) /\ ToSet(<<v>>) = {v}
  BY EmptyOrderly
<1>8. \A p \in ToSet(AB), q \in {v} : SameGroup(p, q) => IsBefore(Declared, p, q)
  BY <1>6 DEF Ahead
<1>9. /\ Orderly(L) /\ ToSet(L) = ToSet(s) \cup {v}
      /\ \A p \in ToSet(s) : IsBefore(L, p, v)
      /\ \A p, q : IsBefore(AB, p, q) => IsBefore(L, p, q)
  BY <1>5, <1>6, <1>7, <1>8, ConcatOrderly
<1>10. plan = Recorded(L)
  BY DEF ProbeOf, AB, A, B
<1> HIDE DEF L, plan
<1>11. Orderly(plan) /\ ToSet(plan) = ToSet(s) \cup {v}
  BY <1>9, <1>10, PlansOrderly
<1>12. ASSUME NEW p \in ToSet(s), ~SameGroup(p, v)
       PROVE  IsBefore(plan, p, v)
  <2> DEFINE ids == Codeunits(L)
  <2>1. L \in Seq(Method) /\ p \in ToSet(L) /\ v \in ToSet(L) /\ p \in ToSet(A)
    BY <1>2, <1>9, <1>12 DEF Orderly
  <2>2. Names(ids, L)
    BY <2>1, CodeunitsOK DEF Names
  <2>3. PICK k \in DOMAIN ids : ids[k] = CodeunitOf[p]
    BY <2>1, <2>2 DEF Names
  <2>4. PICK l \in DOMAIN ids : ids[l] = CodeunitOf[v]
    BY <2>1, <2>2 DEF Names
  <2>5. PICK i \in DOMAIN L : L[i] = p
    BY <2>1, InList
  <2>6. ASSUME NEW j \in DOMAIN L, SameGroup(L[j], v)
        PROVE  i < j
    <3>1. L[j] \in ToSet(B) \cup {v}
      <4>1. L[j] \in ToSet(s) \cup {v}
        BY <1>9, <2>1, InList
      <4> QED BY <1>3, <2>6, <4>1
    <3>2. IsBefore(L, p, L[j])
      BY <1>5, <1>9, <1>12, <2>1, <3>1
    <3>3. PICK x, y \in DOMAIN L : x < y /\ L[x] = p /\ L[y] = L[j]
      BY <3>2 DEF IsBefore
    <3>4. x = i /\ y = j
      BY <1>9, <2>5, <3>3, OrderlyOnce
    <3> QED BY <3>3, <3>4
  <2>7. SameGroup(L[i], p)
    BY <2>5 DEF SameGroup
  <2>8. k < l
    BY <2>1, <2>3, <2>4, <2>6, <2>7, CodeunitsOK
  <2> HIDE DEF ids
  <2>9. IsBefore(InOrder(L, ids), p, v)
    BY <1>9, <2>1, <2>2, <2>3, <2>4, <2>8, InOrderOK
  <2> QED BY <1>10, <2>9 DEF Recorded, ids
<1>13. ~IsBefore(Declared, v, v) /\ SameGroup(v, v)
  BY DeclaredOnce DEF SameGroup
<1>14. Before(plan, v) = ToSet(s)
  BY <1>11, <1>12, <1>13 DEF Before, Ahead
<1> QED BY <1>11, <1>14 DEF plan

-----------------------------------------------------------------------------
(* Order: what the rows of a run tell *)

\* What is true of the rows of a run: a row is of a method that ran, and says
\* of one that is not flaky how it fares after what ran before it.
Tells(plan, rows) ==
  /\ rows \in [Method -> Statuses]
  /\ \A m \in Method : rows[m] # "none" => m \in ToSet(plan) /\ (Steady(m) => (rows[m] = "failed" <=> Fails(Before(plan, m), m)))

\* no row is missing
Whole(plan, rows) == \A m \in ToSet(plan) : rows[m] # "none"

\* A complete run tells of each of its methods.
LEMMA ReportsTell ==
  ASSUME NEW plan \in Plan, NEW rows \in Reports(plan)
  PROVE  Tells(plan, rows) /\ Whole(plan, rows)
<1> DEFINE run == ToSet(plan)
           failing == {m \in run \ world.flaky : Fails(Before(plan, m), m)}
<1>1. PICK unlucky \in SUBSET (world.flaky \cap run) :
        rows = [m \in Method |-> IF m \notin run THEN "none" ELSE IF m \in failing \cup unlucky THEN "failed" ELSE "passed"]
  BY DEF Reports
<1>2. run \subseteq Method
  BY InList DEF Plan
<1>3. ASSUME NEW m \in Method
      PROVE  /\ rows[m] \in Statuses /\ (m \in run => rows[m] # "none")
             /\ rows[m] # "none" => m \in run
             /\ rows[m] # "none" /\ Steady(m) => (rows[m] = "failed" <=> Fails(Before(plan, m), m))
  <2>1. rows[m] = IF m \notin run THEN "none" ELSE IF m \in failing \cup unlucky THEN "failed" ELSE "passed"
    BY <1>1
  <2>2. Steady(m) /\ m \in run => (m \in failing \cup unlucky <=> Fails(Before(plan, m), m))
    BY DEF Steady
  <2> HIDE DEF failing, run
  <2> QED BY <2>1, <2>2 DEF Statuses
<1>4. rows \in [Method -> Statuses]
  <2>1. rows = [m \in Method |-> rows[m]]
    BY <1>1
  <2> QED BY <1>3, <2>1
<1> QED BY <1>2, <1>3, <1>4 DEF Tells, Whole

\* What never arrives makes no row untrue.
LEMMA LessTells ==
  ASSUME NEW plan, NEW rows, Tells(plan, rows), NEW less
  PROVE  Tells(plan, Without(rows, less))
<1> DEFINE w == Without(rows, less)
<1>1. \A m \in Method : w[m] = IF m \in less THEN "none" ELSE rows[m]
  BY DEF Without
<1>2. w \in [Method -> Statuses]
  <2>1. w = [m \in Method |-> w[m]]
    BY DEF Without
  <2>2. \A m \in Method : w[m] \in Statuses
    BY <1>1 DEF Tells, Statuses
  <2> HIDE DEF w
  <2> QED BY <2>1, <2>2
<1> HIDE DEF w
<1> QED BY <1>1, <1>2 DEF Tells, w

\* No rows tell nothing untrue.
LEMMA NoRowsTell ==
  ASSUME NEW plan
  PROVE  Tells(plan, NoRows)
BY DEF Tells, NoRows, Statuses

\* One polluter is enough for v, and there is one only.
Sole(v) == Cardinality(Polluters(Method, v)) = 1 /\ world.needs[v] = 1

\* There are finitely many methods, since they are all declared.
LEMMA FiniteMethods == IsFiniteSet(Method)
<1> DEFINE n == Len(Declared)
<1>1. n \in Nat /\ DOMAIN Declared = 1..n /\ Declared \in [1..n -> Method]
  BY WorldAssumption, LenProperties
<1>2. \A m \in Method : \E i \in 1..n : Declared[i] = m
  <2>1. Declared \in Seq(Method) /\ ToSet(Declared) = Method
    BY WorldAssumption
  <2> QED BY <1>1, <2>1, InList
<1>3. Declared \in Surjection(1..n, Method)
  BY <1>1, <1>2 DEF Surjection
<1>4. IsFiniteSet(1..n)
  BY <1>1, FS_Interval
<1> QED BY <1>3, <1>4, FS_Surjection

\* One polluter.
LEMMA OnePolluter ==
  ASSUME NEW v, Sole(v)
  PROVE  \E p : Polluters(Method, v) = {p}
<1>1. Polluters(Method, v) \subseteq Method
  BY DEF Polluters
<1>2. IsFiniteSet(Polluters(Method, v))
  BY <1>1, FiniteMethods, FS_Subset
<1> QED BY <1>2, FS_Singleton DEF Sole

\* A victim with one polluter fails exactly after that one.
LEMMA SoleFails ==
  ASSUME world \in World, NEW v \in Method, ~Fails({}, v), Sole(v), NEW before, before \subseteq Method
  PROVE  Fails(before, v) <=> Polluters(Method, v) \subseteq before
<1> DEFINE P(b) == Polluters(b, v)
<1>1. P({}) = {} /\ P(before) = before \cap P(Method) /\ P(Method) \subseteq Method
  BY DEF Polluters
<1>2. Cardinality({}) = 0 /\ \A x : Cardinality({x}) = 1
  BY FS_EmptySet, FS_Singleton
<1>4. PICK p : P(Method) = {p}
  BY OnePolluter
<1>5. \A b : Fails(b, v) <=> IF v \in world.brittle THEN ~(Cardinality(P(b)) >= 1) ELSE Cardinality(P(b)) >= 1
  BY DEF Fails, Sole
<1> HIDE DEF P
<1>6. v \notin world.brittle
  <2>1. Cardinality(P({})) = 0
    BY <1>1, <1>2
  <2>2. \A n : n = 0 => ~(n >= 1)
    OBVIOUS
  <2>3. ~(Cardinality(P({})) >= 1)
    BY <2>1, <2>2
  <2> QED BY <1>5, <2>3
<1>7. CASE p \in before
  <2>1. P(before) = {p}
    BY <1>1, <1>4, <1>7
  <2>2. Cardinality(P(before)) >= 1
    <3>1. Cardinality(P(before)) = 1
      BY <1>2, <2>1
    <3>2. \A n : n = 1 => n >= 1
      OBVIOUS
    <3> QED BY <3>1, <3>2
  <2>3. P(Method) \subseteq before
    BY <1>4, <1>7
  <2> QED BY <1>5, <1>6, <2>2, <2>3 DEF P
<1>8. CASE p \notin before
  <2>1. P(before) = {}
    BY <1>1, <1>4, <1>8
  <2>2. ~(Cardinality(P(before)) >= 1)
    <3>1. Cardinality(P(before)) = 0
      BY <1>2, <2>1
    <3>2. \A n : n = 0 => ~(n >= 1)
      OBVIOUS
    <3> QED BY <3>1, <3>2
  <2>3. ~(P(Method) \subseteq before)
    BY <1>4, <1>8
  <2> QED BY <1>5, <1>6, <2>2, <2>3 DEF P
<1> QED BY <1>7, <1>8

-----------------------------------------------------------------------------
(* Order: the invariant *)

\* what is known of the runs so far
RunsHonest(o) == \A i \in DOMAIN o.runs : Orderly(o.runs[i].plan) /\ ToSet(o.runs[i].plan) = ToSet(o.selection) /\ Tells(o.runs[i].plan, o.runs[i].rows)
AloneHonest(o) == \A m \in Method : Steady(m) /\ o.isolation[m] # "none" => (o.isolation[m] = "failed" <=> Fails({}, m))
TodoOrderly(o) ==
  \A i \in DOMAIN o.todo :
    /\ Orderly(o.todo[i].plan)
    /\ IF o.todo[i].alone THEN \E m \in Method : o.todo[i].plan = <<m>> ELSE ToSet(o.todo[i].plan) = ToSet(o.selection)
Foretold(o) == \A pair \in o.predicted : SameGroup(pair[1], pair[2]) /\ {pair[1], pair[2]} \subseteq ToSet(o.selection) /\ IsBefore(Declared, pair[1], pair[2])

\* what a verdict claims of v
Blame(w, v) ==
  Steady(v) =>
    /\ w.outcome = "found" => Fails({w.remaining[1]}, v) /\ ~Fails({}, v)
    /\ w.outcome = "compound" => Fails(ToSet(w.remaining), v)
    /\ w.outcome \in {"notReproduced", "compound"} => ~Sole(v)

Ground(o) ==
  /\ o \in OrderState /\ world \in World
  /\ Orderly(o.selection) /\ RunsHonest(o) /\ AloneHonest(o) /\ TodoOrderly(o) /\ Foretold(o)
  /\ \A v \in Method : Blame(o.verdict[v], v)

\* what is known of the suspects s of a victim v
Suspected(v, s) ==
  /\ Ahead(s, v)
  /\ Steady(v) => ~Fails({}, v) /\ (Sole(v) => Polluters(Method, v) \subseteq ToSet(s))

\* the bisection of the victim
Bisects(o) ==
  LET v == Victim(o) IN
  /\ o.victims # <<>>
  /\ Suspected(v, o.remaining)
  /\ o.phase = "hint" => o.hints # <<>> /\ \A p \in ToSet(o.hints) : SameGroup(p, v) => IsBefore(Declared, p, v)
  /\ o.phase \in {"first", "second"} => Len(o.remaining) > 1 /\ (Steady(v) => Fails(ToSet(o.remaining), v))
  /\ o.phase = "second" /\ Steady(v) => ~Fails(ToSet(FirstHalf(o)), v)

\* the victims that wait, and those that have been dealt with
Waiting(o) ==
  /\ o.todo = <<>>
  /\ \A v \in ToSet(o.victims) : Classify(o, v) = "odVictim"
  /\ \A m \in ToSet(o.selection) : Classify(o, m) = "odVictim" => o.verdict[m].outcome # "none" \/ m \in ToSet(o.victims)

Bisected(o) ==
  /\ Ground(o) /\ Waiting(o) /\ o.step \in {"bisect", "done"}
  /\ o.step = "bisect" => Bisects(o)
  /\ o.step = "done" => o.victims = <<>>

\* q differs from o in nothing but the bisection
Alike(o, q) ==
  /\ q.selection = o.selection /\ q.table = o.table /\ q.predicted = o.predicted /\ q.todo = o.todo
  /\ q.isolation = o.isolation /\ q.runs = o.runs /\ q.complete = o.complete
  /\ q.evidence = o.evidence

\* The first of a list and the rest of it.
LEMMA HeadIn ==
  ASSUME NEW s \in Seq(Method), s # <<>>
  PROVE  Head(s) \in Method /\ Tail(s) \in Seq(Method) /\ ToSet(s) = {Head(s)} \cup ToSet(Tail(s))
<1> DEFINE n == Len(s)
           t == Tail(s)
<1>1. n \in Nat \ {0} /\ DOMAIN s = 1..n
  BY InList, EmptySeq
<1>2. Head(s) = s[1] /\ Head(s) \in Method
  BY <1>1, HeadTailProperties
<1>3. t \in Seq(Method) /\ Len(t) = n - 1 /\ DOMAIN t = 1..(n - 1) /\ \A i \in 1..(n - 1) : t[i] = s[i + 1]
  BY HeadTailProperties, InList
<1> HIDE DEF n, t
<1>4. ASSUME NEW p \in ToSet(s)
      PROVE  p = Head(s) \/ p \in ToSet(t)
  <2>1. PICK i \in 1..n : s[i] = p
    BY <1>1, InList
  <2>2. CASE i = 1
    BY <1>2, <2>1, <2>2
  <2>3. CASE i # 1
    <3>1. i - 1 \in 1..(n - 1) /\ i - 1 + 1 = i
      BY <1>1, <2>3
    <3>2. t[i - 1] = p
      BY <1>3, <2>1, <3>1
    <3> QED BY <1>3, <3>1, <3>2, InList
  <2> QED BY <2>2, <2>3
<1>5. ASSUME NEW p \in ToSet(t)
      PROVE  p \in ToSet(s)
  <2>1. PICK i \in 1..(n - 1) : t[i] = p
    BY <1>3, InList
  <2>2. i + 1 \in 1..n /\ s[i + 1] = p
    BY <1>1, <1>3, <2>1
  <2> QED BY <1>1, <2>2, InList
<1>6. Head(s) \in ToSet(s)
  <2>1. 1 \in 1..n
    BY <1>1
  <2> QED BY <1>1, <1>2, <2>1, InList
<1> QED BY <1>2, <1>3, <1>4, <1>5, <1>6 DEF t

\* A half of a list.
LEMMA SubSeqPart ==
  ASSUME NEW s \in Seq(Method), NEW a \in Nat \ {0}, NEW b \in 0..Len(s)
  PROVE  /\ Part(SubSeq(s, a, b), s)
         /\ \A p : p \in ToSet(SubSeq(s, a, b)) <=> \E i \in a..b : s[i] = p
<1> DEFINE t == SubSeq(s, a, b)
           n == Len(s)
           m == Len(t)
<1>1. n \in Nat /\ DOMAIN s = 1..n /\ b \in Nat
  BY InList
<1>2. \A i \in a..b : i \in 1..n /\ s[i] \in Method
  BY <1>1, InList
<1>3. t \in Seq(Method) /\ m = (IF a <= b THEN b - a + 1 ELSE 0) /\ \A i \in 1..(b - a + 1) : t[i] = s[a + i - 1]
  <2>1. a \in Int /\ b \in Int
    BY <1>1
  <2> QED BY <1>2, <2>1, SubSeqProperties
<1>4. DOMAIN t = 1..m /\ m \in Nat
  BY <1>3, InList
<1> HIDE DEF t, m, n
<1>5. \A i \in 1..m : a + i - 1 \in a..b /\ t[i] = s[a + i - 1]
  <2> TAKE i \in 1..m
  <2>1. a <= b /\ m = b - a + 1
    BY <1>1, <1>3, <1>4
  <2>2. a + i - 1 \in a..b /\ i \in 1..(b - a + 1)
    BY <1>1, <2>1
  <2> QED BY <1>3, <2>2
<1>6. Part(t, s)
  <2> DEFINE g == [i \in 1..m |-> a + i - 1]
  <2>1. g \in [DOMAIN t -> DOMAIN s]
    BY <1>1, <1>2, <1>4, <1>5
  <2>2. \A i, j \in 1..m : i < j => g[i] < g[j]
    BY <1>4
  <2>3. \A i \in 1..m : t[i] = s[g[i]]
    BY <1>5
  <2> HIDE DEF g
  <2> QED BY <1>3, <1>4, <2>1, <2>2, <2>3 DEF Part
<1>7. ASSUME NEW i \in a..b
      PROVE  s[i] \in ToSet(t)
  <2>1. m = b - a + 1
    BY <1>1, <1>3
  <2> DEFINE k == i - a + 1
  <2>2. k \in 1..m /\ a + k - 1 = i
    BY <1>1, <2>1
  <2> HIDE DEF k
  <2>3. t[k] = s[i]
    BY <1>5, <2>2
  <2> QED BY <1>3, <1>4, <2>2, <2>3, InList
<1>8. ASSUME NEW p \in ToSet(t)
      PROVE  \E i \in a..b : s[i] = p
  <2>1. PICK i \in 1..m : t[i] = p
    BY <1>3, <1>4, InList
  <2> QED BY <1>5, <2>1
<1> QED BY <1>6, <1>7, <1>8 DEF t

\* The two halves of the suspects.
LEMMA HalvesAre ==
  ASSUME NEW o \in OrderState, Len(o.remaining) > 1
  PROVE  /\ Part(FirstHalf(o), o.remaining) /\ Part(SecondHalf(o), o.remaining)
         /\ ToSet(o.remaining) = ToSet(FirstHalf(o)) \cup ToSet(SecondHalf(o))
<1> DEFINE s == o.remaining
           n == Len(s)
           h == Half(o)
<1>1. s \in Seq(Method)
  BY DEF OrderState, Plan
<1>2. n \in Nat /\ DOMAIN s = 1..n
  BY <1>1, InList
<1>3. h \in 0..n /\ h + 1 \in Nat \ {0} /\ n \in 0..n
  <2>1. h = (n + 1) \div 2
    BY DEF Half
  <2> HIDE DEF h, n
  <2>2. n \in Nat /\ n > 1
    BY <1>2 DEF n, s
  <2>3. (n + 1) \div 2 \in 0..n
    BY <2>2
  <2>4. h \in 0..n
    BY <2>1, <2>3
  <2>5. \A i : i \in 0..n => i + 1 \in Nat \ {0}
    BY <2>2
  <2>6. h + 1 \in Nat \ {0}
    BY <2>4, <2>5
  <2>7. n \in 0..n
    BY <2>2
  <2> QED BY <2>4, <2>6, <2>7
<1>4. FirstHalf(o) = SubSeq(s, 1, h) /\ SecondHalf(o) = SubSeq(s, h + 1, n)
  BY DEF FirstHalf, SecondHalf
<1> HIDE DEF s, n, h
<1>5. /\ Part(SubSeq(s, 1, h), s) /\ Part(SubSeq(s, h + 1, n), s)
      /\ \A p : p \in ToSet(SubSeq(s, 1, h)) <=> \E i \in 1..h : s[i] = p
      /\ \A p : p \in ToSet(SubSeq(s, h + 1, n)) <=> \E i \in (h + 1)..n : s[i] = p
  BY <1>1, <1>3, SubSeqPart DEF n
<1>6. \A i : i \in 1..n <=> i \in 1..h \/ i \in (h + 1)..n
  BY <1>2, <1>3
<1>7. \A p : p \in ToSet(s) <=> \E i \in 1..n : s[i] = p
  BY <1>1, <1>2, InList
<1>8. ToSet(s) = ToSet(SubSeq(s, 1, h)) \cup ToSet(SubSeq(s, h + 1, n))
  BY <1>5, <1>6, <1>7
<1> QED BY <1>4, <1>5, <1>8 DEF s

\* A classification depends on the runs only.
LEMMA ClassifySame ==
  ASSUME NEW o, NEW q, o.runs = q.runs, o.isolation = q.isolation, NEW m
  PROVE  Classify(o, m) = Classify(q, m)
<1>1. Observed(o, m) = Observed(q, m)
  BY DEF Observed
<1>2. \A prefix : SeenAfter(o, m, prefix) = SeenAfter(q, m, prefix)
  BY <1>1 DEF SeenAfter
<1> DEFINE seen(x) == {x.runs[i].rows[m] : i \in Observed(x, m)}
           after(x) == {<<>>} \cup {Prefix(x.runs[i].plan, m) : i \in Observed(x, m)}
           flaky(x) == \E prefix \in after(x) : {"passed", "failed"} \subseteq SeenAfter(x, m, prefix)
<1>3. seen(o) = seen(q) /\ after(o) = after(q) /\ o.isolation[m] = q.isolation[m]
  BY <1>1
<1>4. flaky(o) <=> flaky(q)
  <2> HIDE DEF after
  <2> QED BY <1>2, <1>3
<1> DEFINE kind(f, s, a) ==
             CASE f -> "flakyInSameOrder"
               [] OTHER ->
             CASE s \cup ({a} \ {"none"}) = {}              -> "incomplete"
               [] a = "passed" /\ "failed" \in s            -> "odVictim"
               [] a = "failed" /\ "passed" \in s            -> "odBrittle"
               [] a = "none" /\ {"passed", "failed"} \subseteq s -> "orderDependent"
               [] OTHER -> IF "failed" \in s \cup {a} THEN "consistentFail" ELSE "consistentPass"
<1>5. Classify(o, m) = kind(flaky(o), seen(o), o.isolation[m])
  BY DEF Classify
<1>6. Classify(q, m) = kind(flaky(q), seen(q), q.isolation[m])
  BY DEF Classify
<1> HIDE DEF flaky, seen
<1>7. kind(flaky(o), seen(o), o.isolation[m]) = kind(flaky(q), seen(o), o.isolation[m])
  BY <1>4, Zenon
<1> HIDE DEF kind
<1> QED BY <1>3, <1>5, <1>6, <1>7

\* A victim passes alone and fails in some run.
LEMMA VictimIs ==
  ASSUME NEW o, NEW v, Classify(o, v) = "odVictim"
  PROVE  o.isolation[v] = "passed" /\ FailingRuns(o, v) # {}
<1> DEFINE seen == {o.runs[i].rows[v] : i \in Observed(o, v)}
           alone == o.isolation[v]
<1>1. alone = "passed" /\ "failed" \in seen
  BY DEF Classify
<1>2. PICK i \in DOMAIN o.runs : o.runs[i].rows[v] = "failed"
  BY <1>1 DEF Observed
<1> QED BY <1>1, <1>2 DEF FailingRuns

\* The candidates of a victim.
LEMMA CandidatesOK ==
  ASSUME NEW o, Ground(o), NEW v \in Method, Classify(o, v) = "odVictim"
  PROVE  Suspected(v, Candidates(o, v))
<1> DEFINE failing == FailingRuns(o, v)
           prefix(i) == Prefix(o.runs[i].plan, v)
           S == {p \in Method : \A i \in failing : p \in ToSet(prefix(i))}
           first == CHOOSE i \in failing : \A j \in failing : i <= j
<1>1. o.isolation[v] = "passed" /\ failing # {}
  BY VictimIs
<1>2. failing \subseteq DOMAIN o.runs /\ failing \subseteq Nat /\ \A i \in failing : o.runs[i].rows[v] = "failed"
  <2>1. DOMAIN o.runs \subseteq Nat
    <3>1. o.runs \in Seq([plan : Plan, rows : [Method -> Statuses]])
      BY DEF Ground, OrderState
    <3>2. DOMAIN o.runs = 1..Len(o.runs) /\ Len(o.runs) \in Nat
      BY <3>1, LenProperties
    <3> QED BY <3>2
  <2> QED BY <2>1 DEF FailingRuns
<1>3. first \in failing
  BY <1>1, <1>2, Least
<1>4. ASSUME NEW i \in failing
      PROVE  /\ prefix(i) \in Seq(Method) /\ Ahead(prefix(i), v) /\ ToSet(prefix(i)) \subseteq Method
             /\ Steady(v) => Fails(ToSet(prefix(i)), v)
  <2>1. Orderly(o.runs[i].plan) /\ Tells(o.runs[i].plan, o.runs[i].rows) /\ o.runs[i].rows[v] = "failed"
    BY <1>2 DEF Ground, RunsHonest
  <2>2. v \in ToSet(o.runs[i].plan) /\ (Steady(v) => Fails(Before(o.runs[i].plan, v), v))
    BY <2>1 DEF Tells
  <2>3. prefix(i) \in Seq(Method) /\ ToSet(prefix(i)) = Before(o.runs[i].plan, v) /\ Ahead(prefix(i), v)
    BY <2>1, <2>2, PrefixOK
  <2> QED BY <2>2, <2>3, InList
<1>5. Candidates(o, v) = Only(prefix(first), S)
  BY DEF Candidates
<1> HIDE DEF first, failing
<1>6. prefix(first) \in Seq(Method) /\ Ahead(prefix(first), v)
  BY <1>3, <1>4
<1>7. Part(Only(prefix(first), S), prefix(first)) /\ ToSet(Only(prefix(first), S)) = ToSet(prefix(first)) \cap S
  BY <1>6, OnlyIsPart
<1>8. Ahead(Only(prefix(first), S), v)
  BY <1>6, <1>7, PartOrderly DEF Ahead
<1>9. ASSUME Steady(v)
      PROVE  ~Fails({}, v) /\ (Sole(v) => Polluters(Method, v) \subseteq ToSet(Only(prefix(first), S)))
  <2>1. ~Fails({}, v)
    BY <1>1, <1>9 DEF Ground, AloneHonest
  <2>2. Sole(v) => \A i \in failing : Polluters(Method, v) \subseteq ToSet(prefix(i))
    BY <1>4, <1>9, <2>1, SoleFails DEF Ground
  <2>3. Polluters(Method, v) \subseteq Method
    BY DEF Polluters
  <2>4. Sole(v) => Polluters(Method, v) \subseteq S
    BY <2>2, <2>3
  <2> QED BY <1>3, <1>7, <2>1, <2>2, <2>4
<1> QED BY <1>5, <1>8, <1>9 DEF Suspected

\* What is known of the runs is known of any state that has them, if its verdicts hold.
LEMMA GroundAlike ==
  ASSUME NEW o, Ground(o), NEW q \in OrderState, Alike(o, q), \A v \in Method : Blame(q.verdict[v], v)
  PROVE  Ground(q)
<1>1. RunsHonest(q) /\ AloneHonest(q) /\ TodoOrderly(q) /\ Foretold(q) /\ Orderly(q.selection)
  BY DEF Ground, Alike, RunsHonest, AloneHonest, TodoOrderly, Foretold
<1> QED BY <1>1 DEF Ground

\* The next victim.
LEMMA StartVictimOK ==
  ASSUME NEW o, Ground(o), Waiting(o)
  PROVE  Bisected(StartVictim(o)) /\ Alike(o, StartVictim(o))
<1> DEFINE q == StartVictim(o)
<1>0. o \in OrderState /\ o.victims \in Seq(Method) /\ o.selection \in Seq(Method)
  BY DEF Ground, OrderState, Plan
<1>1. CASE o.victims = <<>>
  <2>1. q = [o EXCEPT !.step = "done"]
    BY <1>1 DEF StartVictim, Finished
  <2> HIDE DEF q
  <2>2. q \in OrderState /\ Alike(o, q) /\ q.verdict = o.verdict /\ q.victims = <<>> /\ q.step = "done"
    BY <1>0, <1>1, <2>1, ZenonT(40) DEF OrderState, Alike
  <2>3. Ground(q)
    BY <2>2, GroundAlike DEF Ground
  <2>4. \A m : Classify(q, m) = Classify(o, m)
    BY <2>2, ClassifySame DEF Alike
  <2>5. Waiting(q)
    BY <1>1, <2>2, <2>4 DEF Waiting, Alike
  <2> QED BY <2>2, <2>3, <2>5 DEF Bisected, q
<1>2. CASE o.victims # <<>>
  <2> DEFINE v == Head(o.victims)
             candidates == Candidates(o, v)
             H == {p \in ToSet(candidates) : <<p, v>> \in o.predicted}
             hints == Only(o.selection, H)
  <2>1. q = [o EXCEPT !.step = "bisect", !.remaining = candidates, !.hints = hints,
                      !.phase = IF hints = <<>> THEN "confirm" ELSE "hint"]
    BY <1>2 DEF StartVictim
  <2>2. v \in Method /\ v \in ToSet(o.victims)
    BY <1>0, <1>2, HeadIn
  <2>3. Classify(o, v) = "odVictim"
    BY <2>2 DEF Waiting
  <2>4. Suspected(v, candidates)
    BY <2>2, <2>3, CandidatesOK
  <2>5. candidates \in Seq(Method)
    BY <2>4 DEF Suspected, Ahead, Orderly
  <2>6. hints \in Seq(Method) /\ ToSet(hints) \subseteq H
    BY <1>0, OnlyIsPart DEF Part
  <2>7. \A p \in ToSet(hints) : IsBefore(Declared, p, v)
    <3>1. \A p \in H : IsBefore(Declared, p, v)
      BY DEF Ground, Foretold
    <3> QED BY <2>6, <3>1
  <2> HIDE DEF q, hints, candidates, H
  <2> DEFINE phase == IF hints = <<>> THEN "confirm" ELSE "hint"
  <2>8. phase \in {"confirm", "hint"} /\ (phase = "hint" => hints # <<>>)
    OBVIOUS
  <2> HIDE DEF phase, v
  <2>9. /\ q \in OrderState /\ Alike(o, q) /\ q.verdict = o.verdict /\ q.victims = o.victims /\ q.step = "bisect"
        /\ q.remaining = candidates /\ q.hints = hints /\ q.phase = phase
    <3>1. q = [o EXCEPT !.step = "bisect", !.remaining = candidates, !.hints = hints, !.phase = phase]
      BY <2>1 DEF phase
    <3> QED BY <1>0, <2>5, <2>6, <2>8, <3>1, ZenonT(40) DEF OrderState, Alike, Plan
  <2>10. Ground(q)
    BY <2>9, GroundAlike DEF Ground
  <2>11. \A m : Classify(q, m) = Classify(o, m)
    BY <2>9, ClassifySame DEF Alike
  <2>12. Waiting(q)
    BY <2>9, <2>11 DEF Waiting, Alike
  <2>13. Victim(q) = v
    BY <2>9 DEF Victim, v
  <2>14. Bisects(q)
    BY <1>2, <2>4, <2>7, <2>8, <2>9, <2>13 DEF Bisects
  <2> QED BY <2>9, <2>10, <2>12, <2>14 DEF Bisected, q
<1> QED BY <1>1, <1>2

\* The bisection of a victim is over.
LEMMA SettleOK ==
  ASSUME NEW o, Ground(o), Waiting(o), o.victims # <<>>, NEW outcome \in Outcomes \ {"none"}, NEW remaining \in Plan,
         Blame([outcome |-> outcome, remaining |-> remaining], Victim(o))
  PROVE  Bisected(Settle(o, outcome, remaining)) /\ Alike(o, Settle(o, outcome, remaining))
<1> DEFINE v == Victim(o)
           w == [outcome |-> outcome, remaining |-> remaining]
           p == [o EXCEPT !.verdict[v] = w, !.victims = Tail(@)]
<1>1. o \in OrderState /\ o.victims \in Seq(Method) /\ o.verdict \in [Method -> Verdict]
  BY DEF Ground, OrderState, Plan
<1>2. v \in Method /\ Tail(o.victims) \in Seq(Method) /\ ToSet(o.victims) = {v} \cup ToSet(Tail(o.victims))
  BY <1>1, HeadIn DEF Victim
<1>3. w \in Verdict /\ w.outcome # "none" /\ Blame(w, v)
  BY DEF Verdict
<1>4. Settle(o, outcome, remaining) = StartVictim(p)
  BY DEF Settle
<1> HIDE DEF v, w
<1>5. p = [o EXCEPT !.verdict = [o.verdict EXCEPT ![v] = w], !.victims = Tail(o.victims)]
  BY <1>1 DEF OrderState
<1> HIDE DEF p
<1> DEFINE verdict == [o.verdict EXCEPT ![v] = w]
<1>6. verdict \in [Method -> Verdict] /\ \A m \in Method : verdict[m] = IF m = v THEN w ELSE o.verdict[m]
  BY <1>1, <1>3
<1> HIDE DEF verdict
<1>7. p \in OrderState /\ Alike(o, p) /\ p.verdict = verdict /\ p.victims = Tail(o.victims)
  <2>1. p = [o EXCEPT !.verdict = verdict, !.victims = Tail(o.victims)]
    BY <1>5 DEF verdict
  <2> QED BY <1>1, <1>2, <1>6, <2>1, ZenonT(40) DEF OrderState, Alike, Plan
<1>8. \A m \in Method : Blame(p.verdict[m], m)
  BY <1>3, <1>6, <1>7 DEF Ground
<1>9. Ground(p)
  BY <1>7, <1>8, GroundAlike
<1>10. \A m : Classify(p, m) = Classify(o, m)
  BY <1>7, ClassifySame DEF Alike
<1>11. Waiting(p)
  <2>1. p.todo = <<>> /\ \A m \in ToSet(p.victims) : Classify(p, m) = "odVictim"
    BY <1>2, <1>7, <1>10 DEF Waiting, Alike
  <2>2. ASSUME NEW m \in ToSet(p.selection), Classify(p, m) = "odVictim"
        PROVE  p.verdict[m].outcome # "none" \/ m \in ToSet(p.victims)
    <3>1. m \in ToSet(o.selection) /\ Classify(o, m) = "odVictim"
      BY <1>7, <1>10, <2>2 DEF Alike
    <3>2. o.verdict[m].outcome # "none" \/ m \in ToSet(o.victims)
      BY <3>1 DEF Waiting
    <3>3. m \in Method
      <4>1. o.selection \in Seq(Method)
        BY <1>1 DEF OrderState, Plan
      <4> QED BY <3>1, <4>1, InList
    <3> QED BY <1>2, <1>3, <1>6, <1>7, <3>2, <3>3
  <2> QED BY <2>1, <2>2 DEF Waiting
<1>12. Bisected(StartVictim(p)) /\ Alike(p, StartVictim(p))
  BY <1>9, <1>11, StartVictimOK
<1> QED BY <1>4, <1>7, <1>12 DEF Alike

\* One list of suspects less than two long.
LEMMA ShortList ==
  ASSUME NEW s \in Seq(Method), ~(Len(s) > 1), s # <<>>
  PROVE  ToSet(s) = {s[1]}
<1>1. Len(s) \in Nat /\ DOMAIN s = 1..Len(s) /\ Len(s) # 0
  BY InList, EmptySeq
<1>2. Len(s) = 1
  BY <1>1
<1>3. DOMAIN s = {1}
  BY <1>1, <1>2
<1> QED BY <1>3, InList

\* What is known in the middle of a bisection, of the suspects s of the victim.
Amid(o) == Ground(o) /\ Waiting(o) /\ o.step = "bisect" /\ o.victims # <<>>

\* What there is in the middle of a bisection.
LEMMA VictimIn ==
  ASSUME NEW o, Amid(o)
  PROVE  /\ o \in OrderState /\ o.step = "bisect" /\ o.victims # <<>> /\ Victim(o) \in Method /\ o.remaining \in Plan /\ o.hints \in Plan
         /\ o.remaining \in Seq(Method) /\ o.hints \in Seq(Method) /\ world \in World
BY HeadIn DEF Amid, Ground, OrderState, Plan, Victim

\* The fields of the bisection's own change nothing else.
LEMMA AmidAlike ==
  ASSUME NEW o, Amid(o), NEW q \in OrderState, Alike(o, q), q.step = "bisect", q.victims = o.victims, q.verdict = o.verdict
  PROVE  Amid(q) /\ Victim(q) = Victim(o)
<1>1. Ground(q)
  BY GroundAlike DEF Amid, Ground
<1>2. \A m : Classify(q, m) = Classify(o, m)
  BY ClassifySame DEF Alike
<1>3. Waiting(q)
  BY <1>2 DEF Waiting, Amid, Alike
<1> QED BY <1>1, <1>3 DEF Amid, Victim

\* The suspects that fail the victim are narrowed further, or one is left, and it is named rightly.
LEMMA NarrowOK ==
  ASSUME NEW o, Amid(o), NEW s, Suspected(Victim(o), s), Steady(Victim(o)) => Fails(ToSet(s), Victim(o))
  PROVE  Bisected(Narrow(o, s)) /\ Alike(o, Narrow(o, s))
<1>0. o \in OrderState /\ o.step = "bisect"
  BY VictimIn
<1>1. s \in Seq(Method) /\ s \in Plan
  BY DEF Suspected, Ahead, Orderly, Plan
<1>2. CASE Len(s) > 1
  <2> DEFINE q == [o EXCEPT !.remaining = s, !.phase = "first"]
  <2>1. Narrow(o, s) = q
    BY <1>2 DEF Narrow
  <2>0. q = [o EXCEPT !.remaining = s, !.phase = "first"]
    OBVIOUS
  <2> HIDE DEF q
  <2>2. /\ q \in OrderState /\ Alike(o, q) /\ q.step = "bisect" /\ q.victims = o.victims /\ q.verdict = o.verdict
        /\ q.remaining = s /\ q.phase = "first"
    BY <1>0, <1>1, <2>0, ZenonT(40) DEF OrderState, Alike
  <2>3. Amid(q) /\ Victim(q) = Victim(o)
    BY <2>2, AmidAlike
  <2>4. Bisects(q)
    BY <1>2, <2>2, <2>3 DEF Bisects, Amid
  <2> QED BY <2>1, <2>2, <2>3, <2>4 DEF Bisected, Amid
<1>3. CASE ~(Len(s) > 1)
  <2> DEFINE outcome == IF s = <<>> THEN "inconclusive" ELSE "found"
  <2>1. Narrow(o, s) = Settle(o, outcome, s)
    BY <1>3 DEF Narrow
  <2>2. outcome \in Outcomes \ {"none"}
    BY DEF Outcomes
  <2>3. s # <<>> => ToSet(s) = {s[1]}
    BY <1>1, <1>3, ShortList
  <2>4. outcome \notin {"compound", "notReproduced"} /\ (outcome = "found" => s # <<>>)
    OBVIOUS
  <2> HIDE DEF outcome
  <2>5. Blame([outcome |-> outcome, remaining |-> s], Victim(o))
    BY <2>3, <2>4 DEF Blame, Suspected
  <2> QED BY <1>1, <2>1, <2>2, <2>5, SettleOK DEF Amid
<1> QED BY <1>2, <1>3

\* What a probe's status says of the victim.
Says(status, v, s) == status \in Statuses /\ (status # "none" /\ Steady(v) => (status = "failed" <=> Fails(ToSet(s), v)))

\* A victim that is given up is blamed on nothing.
LEMMA InconclusiveOK ==
  ASSUME NEW o, Amid(o), NEW outcome \in {"inconclusive", "capped"}
  PROVE  Bisected(Settle(o, outcome, o.remaining)) /\ Alike(o, Settle(o, outcome, o.remaining))
<1>1. outcome \in Outcomes \ {"none"} /\ Blame([outcome |-> outcome, remaining |-> o.remaining], Victim(o))
  BY DEF Outcomes, Blame
<1> QED BY <1>1, SettleOK, VictimIn DEF Amid

\* If the suspects together do not fail the victim, it has not one polluter only.
LEMMA ConfirmedOK ==
  ASSUME NEW o, Amid(o), Suspected(Victim(o), o.remaining), NEW status, Says(status, Victim(o), o.remaining)
  PROVE  Bisected(Confirmed(o, status)) /\ Alike(o, Confirmed(o, status))
<1>1. CASE status = "failed"
  <2>1. Confirmed(o, status) = Narrow(o, o.remaining)
    BY <1>1 DEF Confirmed
  <2> QED BY <1>1, <2>1, NarrowOK DEF Says
<1>2. CASE status = "passed"
  <2>1. Confirmed(o, status) = Settle(o, "notReproduced", o.remaining)
    BY <1>2 DEF Confirmed
  <2>2. ToSet(o.remaining) \subseteq Method
    BY VictimIn, InList
  <2>3. Steady(Victim(o)) => ~Sole(Victim(o))
    BY <1>2, <2>2, VictimIn, SoleFails DEF Says, Suspected
  <2>4. Blame([outcome |-> "notReproduced", remaining |-> o.remaining], Victim(o))
    BY <2>3 DEF Blame
  <2>5. "notReproduced" \in Outcomes \ {"none"}
    BY DEF Outcomes
  <2> QED BY <2>1, <2>4, <2>5, SettleOK, VictimIn DEF Amid
<1>3. CASE status = "none"
  <2>1. Confirmed(o, status) = Settle(o, "inconclusive", o.remaining)
    BY <1>3 DEF Confirmed
  <2> QED BY <2>1, InconclusiveOK
<1> QED BY <1>1, <1>2, <1>3 DEF Says, Statuses

\* A predicted polluter that fails the victim alone is named; one that does not is left.
LEMMA HintedOK ==
  ASSUME NEW o, Amid(o), Bisects(o), o.phase = "hint", NEW status, Says(status, Victim(o), <<Head(o.hints)>>)
  PROVE  Bisected(Hinted(o, status)) /\ Alike(o, Hinted(o, status))
<1> DEFINE p == Head(o.hints)
           v == Victim(o)
           told == [o EXCEPT !.hinted = @ \cup {<<p, v, status>>}]
           rest == Tail(o.hints)
<1>0. o \in OrderState /\ o.step = "bisect"
  BY VictimIn
<1>1. o.hints # <<>> /\ \A x \in ToSet(o.hints) : SameGroup(x, v) => IsBefore(Declared, x, v)
  BY DEF Bisects
<1>2. p \in Method /\ rest \in Seq(Method) /\ ToSet(o.hints) = {p} \cup ToSet(rest) /\ (Len(o.hints) # 1 => rest # <<>>)
  <2>1. p \in Method /\ rest \in Seq(Method) /\ ToSet(o.hints) = {p} \cup ToSet(rest)
    BY <1>1, VictimIn, HeadIn
  <2>2. Len(rest) = Len(o.hints) - 1
    BY <1>1, VictimIn, HeadTailProperties
  <2>3. Len(o.hints) \in Nat /\ Len(<<>>) = 0
    BY VictimIn, LenProperties, EmptySeq
  <2>4. Len(o.hints) # 1 => Len(rest) # 0
    BY <2>2, <2>3
  <2>5. Len(o.hints) # 1 => rest # <<>>
    BY <2>3, <2>4
  <2> QED BY <2>1, <2>5
<1>3. status \in {"failed", "passed", "none"} /\ v \in Method
  BY VictimIn DEF Says, Statuses
<1>4. ToSet(<<p>>) = {p} /\ <<p>> \in Plan
  BY <1>2, EmptyOrderly DEF Plan
<1>5. /\ told \in OrderState /\ Alike(o, told) /\ told.step = "bisect" /\ told.victims = o.victims /\ told.verdict = o.verdict
      /\ told.hints = o.hints /\ told.remaining = o.remaining /\ told.phase = "hint"
  <2>1. told = [o EXCEPT !.hinted = o.hinted \cup {<<p, v, status>>}] /\ o.hinted \cup {<<p, v, status>>} \in SUBSET (Method \X Method \X {"failed", "passed", "none"})
    BY <1>0, <1>2, <1>3 DEF OrderState
  <2> HIDE DEF told, p, v
  <2> DEFINE hinted == o.hinted \cup {<<p, v, status>>}
  <2> HIDE DEF hinted
  <2>2. told = [o EXCEPT !.hinted = hinted] /\ hinted \in SUBSET (Method \X Method \X {"failed", "passed", "none"})
    BY <2>1 DEF hinted
  <2> QED BY <1>0, <2>2, ZenonT(40) DEF OrderState, Alike
<1>6. Hinted(o, status) = IF status = "failed" THEN Settle(told, "found", <<p>>)
                          ELSE [told EXCEPT !.hints = Tail(@), !.phase = IF Len(o.hints) = 1 THEN "confirm" ELSE "hint"]
  BY DEF Hinted
<1> HIDE DEF told
<1>7. Amid(told) /\ Victim(told) = v
  BY <1>5, AmidAlike
<1>8. CASE status = "failed"
  <2>1. Hinted(o, status) = Settle(told, "found", <<p>>)
    BY <1>6, <1>8
  <2>2. Steady(v) => Fails({p}, v) /\ ~Fails({}, v)
    BY <1>4, <1>8 DEF Says, Bisects, Suspected
  <2> HIDE DEF p, v
  <2> DEFINE w == [outcome |-> "found", remaining |-> <<p>>]
  <2>3. w.remaining[1] = p /\ w.outcome = "found"
    OBVIOUS
  <2> HIDE DEF w
  <2>4. Blame(w, v)
    BY <2>2, <2>3 DEF Blame
  <2>5. "found" \in Outcomes \ {"none"}
    BY DEF Outcomes
  <2>6. Bisected(Settle(told, "found", <<p>>)) /\ Alike(told, Settle(told, "found", <<p>>))
    BY <1>4, <1>7, <2>4, <2>5, SettleOK DEF Amid, w
  <2> QED BY <1>5, <2>1, <2>6 DEF Alike
<1>9. CASE status # "failed"
  <2> DEFINE phase == IF Len(o.hints) = 1 THEN "confirm" ELSE "hint"
             q == [told EXCEPT !.hints = rest, !.phase = phase]
  <2>1. Hinted(o, status) = q
    BY <1>5, <1>6, <1>9 DEF OrderState
  <2>2. phase \in {"confirm", "hint"} /\ (phase = "hint" => rest # <<>>)
    BY <1>2
  <2> HIDE DEF phase
  <2>3. /\ q \in OrderState /\ Alike(told, q) /\ q.step = "bisect" /\ q.victims = told.victims /\ q.verdict = told.verdict
        /\ q.remaining = o.remaining /\ q.hints = rest /\ q.phase = phase
    BY <1>2, <1>5, <2>2, ZenonT(40) DEF OrderState, Alike, Plan
  <2> HIDE DEF q
  <2>4. Amid(q) /\ Victim(q) = v
    BY <1>7, <2>3, AmidAlike
  <2>5. Bisects(q)
    <3>1. Suspected(v, q.remaining)
      BY <2>3 DEF Bisects
    <3> HIDE DEF v, rest, p
    <3> QED BY <1>1, <1>2, <2>2, <2>3, <2>4, <3>1 DEF Bisects, Amid
  <2> QED BY <1>5, <2>1, <2>3, <2>4, <2>5 DEF Bisected, Amid, Alike
<1> QED BY <1>8, <1>9

\* The half that fails the victim is kept; if neither does, it has not one polluter only.
LEMMA HalvedOK ==
  ASSUME NEW o, Amid(o), Bisects(o), o.phase \in {"first", "second"}, NEW status, Says(status, Victim(o), Probed(o))
  PROVE  Bisected(Halved(o, status)) /\ Alike(o, Halved(o, status))
<1> DEFINE v == Victim(o)
<1>1. /\ o \in OrderState /\ o.step = "bisect" /\ o.victims # <<>> /\ v \in Method /\ o.remaining \in Seq(Method) /\ o.remaining \in Plan
      /\ world \in World
  BY VictimIn
<1>2. /\ Suspected(v, o.remaining) /\ Len(o.remaining) > 1 /\ (Steady(v) => Fails(ToSet(o.remaining), v))
      /\ o.phase = "second" /\ Steady(v) => ~Fails(ToSet(FirstHalf(o)), v)
  BY DEF Bisects
<1>3. /\ Part(FirstHalf(o), o.remaining) /\ Part(SecondHalf(o), o.remaining)
      /\ ToSet(o.remaining) = ToSet(FirstHalf(o)) \cup ToSet(SecondHalf(o))
  BY <1>1, <1>2, HalvesAre
<1>4. Probed(o) = IF o.phase = "first" THEN FirstHalf(o) ELSE SecondHalf(o)
  BY DEF Probed
<1>5. Orderly(o.remaining) /\ ToSet(o.remaining) \subseteq Method
  BY <1>1, <1>2, InList DEF Suspected, Ahead
<1> HIDE DEF v
<1>6. CASE status = "failed"
  <2>1. Halved(o, status) = Narrow(o, Probed(o))
    BY <1>6 DEF Halved
  <2>2. Part(Probed(o), o.remaining)
    BY <1>3, <1>4
  <2>3. Ahead(Probed(o), v) /\ ToSet(Probed(o)) \subseteq Method
    BY <1>2, <1>5, <2>2, PartOrderly DEF Suspected
  <2>4. Steady(v) => Fails(ToSet(Probed(o)), v)
    BY <1>6 DEF Says, v
  <2>5. Steady(v) /\ Sole(v) => Polluters(Method, v) \subseteq ToSet(Probed(o))
    BY <1>1, <1>2, <2>3, <2>4, SoleFails DEF Suspected
  <2>6. Suspected(v, Probed(o))
    BY <1>2, <2>3, <2>5 DEF Suspected
  <2> QED BY <2>1, <2>4, <2>6, NarrowOK DEF v
<1>7. CASE status = "passed" /\ o.phase = "first"
  <2> DEFINE q == [o EXCEPT !.phase = "second"]
  <2>0. q = [o EXCEPT !.phase = "second"]
    OBVIOUS
  <2> HIDE DEF q
  <2>1. Halved(o, status) = q
    BY <1>7, <2>0 DEF Halved
  <2>2. /\ q \in OrderState /\ Alike(o, q) /\ q.step = "bisect" /\ q.victims = o.victims /\ q.verdict = o.verdict
        /\ q.remaining = o.remaining /\ q.phase = "second"
    BY <1>1, <2>0, ZenonT(40) DEF OrderState, Alike
  <2>3. Amid(q) /\ Victim(q) = v
    BY <2>2, AmidAlike DEF v
  <2>4. FirstHalf(q) = FirstHalf(o)
    BY <2>2 DEF FirstHalf, Half
  <2>5. Steady(v) => ~Fails(ToSet(FirstHalf(o)), v)
    BY <1>4, <1>7 DEF Says, v
  <2>6. Bisects(q)
    BY <1>1, <1>2, <2>2, <2>3, <2>4, <2>5 DEF Bisects
  <2> QED BY <2>1, <2>2, <2>3, <2>6 DEF Bisected, Amid
<1>8. CASE status = "passed" /\ o.phase = "second"
  <2>1. Halved(o, status) = Settle(o, "compound", o.remaining)
    BY <1>8 DEF Halved
  <2>2. ToSet(FirstHalf(o)) \subseteq Method /\ ToSet(SecondHalf(o)) \subseteq Method
    BY <1>3, <1>5
  <2>3. Steady(v) => ~Fails(ToSet(FirstHalf(o)), v) /\ ~Fails(ToSet(SecondHalf(o)), v) /\ ~Fails({}, v)
    BY <1>2, <1>4, <1>8 DEF Says, v, Suspected
  <2>4. ASSUME Steady(v), Sole(v) PROVE FALSE
    <3>1. Polluters(Method, v) \subseteq ToSet(o.remaining)
      BY <1>2, <2>4 DEF Suspected
    <3>2. PICK p : Polluters(Method, v) = {p}
      BY <2>4, OnePolluter
    <3>3. Polluters(Method, v) \subseteq ToSet(FirstHalf(o)) \/ Polluters(Method, v) \subseteq ToSet(SecondHalf(o))
      BY <1>3, <3>1, <3>2
    <3> QED BY <1>1, <2>2, <2>3, <2>4, <3>3, SoleFails
  <2> DEFINE w == [outcome |-> "compound", remaining |-> o.remaining]
  <2>5. w.outcome = "compound" /\ w.remaining = o.remaining
    OBVIOUS
  <2> HIDE DEF w
  <2>6. Blame(w, v)
    BY <1>2, <2>4, <2>5 DEF Blame
  <2>7. "compound" \in Outcomes \ {"none"}
    BY DEF Outcomes
  <2> QED BY <1>1, <2>1, <2>6, <2>7, SettleOK DEF Amid, v, w
<1>9. CASE status = "none"
  <2>1. Halved(o, status) = Settle(o, "inconclusive", o.remaining)
    BY <1>9 DEF Halved
  <2> QED BY <2>1, InconclusiveOK
<1> QED BY <1>6, <1>7, <1>8, <1>9 DEF Says, Statuses

\* Whatever is probed runs ahead of the victim.
LEMMA ProbedAhead ==
  ASSUME NEW o, Amid(o), Bisects(o)
  PROVE  Ahead(Probed(o), Victim(o))
<1> DEFINE v == Victim(o)
<1>0. o \in OrderState /\ o.remaining \in Seq(Method) /\ o.hints \in Seq(Method)
  BY VictimIn
<1>1. o.phase \in {"hint", "confirm", "first", "second"}
  BY <1>0 DEF OrderState
<1>2. Ahead(o.remaining, v) /\ Orderly(o.remaining)
  BY DEF Bisects, Suspected, Ahead
<1>3. CASE o.phase = "hint"
  <2>1. o.hints # <<>> /\ \A p \in ToSet(o.hints) : SameGroup(p, v) => IsBefore(Declared, p, v)
    BY <1>3 DEF Bisects
  <2>2. Head(o.hints) \in Method /\ Head(o.hints) \in ToSet(o.hints)
    BY <1>0, <2>1, HeadIn
  <2>3. Orderly(<<Head(o.hints)>>) /\ ToSet(<<Head(o.hints)>>) = {Head(o.hints)}
    BY <2>2, EmptyOrderly
  <2>4. Probed(o) = <<Head(o.hints)>>
    BY <1>3 DEF Probed
  <2> QED BY <2>1, <2>2, <2>3, <2>4 DEF Ahead
<1>4. CASE o.phase = "confirm"
  BY <1>2, <1>4 DEF Probed
<1>5. CASE o.phase \in {"first", "second"}
  <2>1. Len(o.remaining) > 1
    BY <1>5 DEF Bisects
  <2>2. Part(FirstHalf(o), o.remaining) /\ Part(SecondHalf(o), o.remaining)
    BY <1>0, <2>1, HalvesAre
  <2>3. Probed(o) = FirstHalf(o) \/ Probed(o) = SecondHalf(o)
    BY <1>5 DEF Probed
  <2> QED BY <1>2, <2>2, <2>3, PartOrderly
<1> QED BY <1>1, <1>3, <1>4, <1>5

\* A probe runs what it is to probe, and the victim after it.
LEMMA ProbePlanOK ==
  ASSUME NEW o, Amid(o), Bisects(o)
  PROVE  /\ Orderly(ProbePlan(o)) /\ Before(ProbePlan(o), Victim(o)) = ToSet(Probed(o))
         /\ ProbePlan(o) \in Plan
<1>1. ProbePlan(o) = ProbeOf(Probed(o), Victim(o))
  BY DEF ProbePlan, ProbeOf
<1> QED BY <1>1, ProbedAhead, ProbeRunsAll, VictimIn DEF Orderly, Plan

\* Whatever the rows of a probe tell, the bisection goes on soundly.
LEMMA TakeProbeOK ==
  ASSUME NEW o, Amid(o), Bisects(o), o.probes < MaxProbes, NEW rows, Tells(ProbePlan(o), rows)
  PROVE  Bisected(TakeProbe(o, rows)) /\ Alike(o, TakeProbe(o, rows))
<1> DEFINE q == [o EXCEPT !.probes = @ + 1]
           v == Victim(o)
           status == rows[v]
<1>1. o \in OrderState /\ o.step = "bisect" /\ v \in Method
  BY VictimIn
<1>2. o.probes + 1 \in 0..MaxProbes
  <2>1. o.probes \in 0..MaxProbes
    BY <1>1 DEF OrderState
  <2>2. MaxProbes \in Nat
    BY OrderAssumption
  <2> QED BY <2>1, <2>2
<1>3. q = [o EXCEPT !.probes = o.probes + 1]
  BY <1>1 DEF OrderState
<1> HIDE DEF q
<1>4. /\ q \in OrderState /\ Alike(o, q) /\ q.step = "bisect" /\ q.victims = o.victims /\ q.verdict = o.verdict
      /\ q.remaining = o.remaining /\ q.hints = o.hints /\ q.phase = o.phase
  BY <1>1, <1>2, <1>3, ZenonT(40) DEF OrderState, Alike
<1>5. Amid(q) /\ Victim(q) = v
  BY <1>4, AmidAlike
<1>6. FirstHalf(q) = FirstHalf(o) /\ Probed(q) = Probed(o)
  BY <1>4 DEF FirstHalf, SecondHalf, Half, Probed
<1>7. Bisects(q)
  BY <1>4, <1>5, <1>6 DEF Bisects
<1>8. Says(status, v, Probed(o))
  BY <1>1, ProbePlanOK DEF Says, Tells
<1>9. TakeProbe(o, rows) = CASE o.phase = "hint" -> Hinted(q, status)
                             [] o.phase = "confirm" -> Confirmed(q, status)
                             [] OTHER -> Halved(q, status)
  BY DEF TakeProbe, q
<1> HIDE DEF status, v
<1>10. CASE o.phase = "hint"
  <2>1. Probed(q) = <<Head(q.hints)>>
    BY <1>4, <1>10 DEF Probed
  <2>2. Bisected(Hinted(q, status)) /\ Alike(q, Hinted(q, status))
    BY <1>4, <1>5, <1>6, <1>7, <1>8, <1>10, <2>1, HintedOK
  <2>3. TakeProbe(o, rows) = Hinted(q, status)
    BY <1>9, <1>10
  <2> QED BY <1>4, <2>2, <2>3 DEF Alike
<1>11. CASE o.phase = "confirm"
  <2>1. Probed(q) = q.remaining /\ Suspected(v, q.remaining)
    BY <1>4, <1>5, <1>7, <1>11 DEF Probed, Bisects
  <2>2. Bisected(Confirmed(q, status)) /\ Alike(q, Confirmed(q, status))
    BY <1>4, <1>5, <1>6, <1>8, <2>1, ConfirmedOK
  <2>3. TakeProbe(o, rows) = Confirmed(q, status)
    BY <1>9, <1>11
  <2> QED BY <1>4, <2>2, <2>3 DEF Alike
<1>12. CASE o.phase \in {"first", "second"}
  <2>1. Bisected(Halved(q, status)) /\ Alike(q, Halved(q, status))
    BY <1>4, <1>5, <1>6, <1>7, <1>8, <1>12, HalvedOK
  <2>2. TakeProbe(o, rows) = Halved(q, status)
    BY <1>9, <1>12
  <2> QED BY <1>4, <2>1, <2>2 DEF Alike
<1>13. o.phase \in {"hint", "confirm", "first", "second"}
  BY <1>1 DEF OrderState
<1> QED BY <1>10, <1>11, <1>12, <1>13

-----------------------------------------------------------------------------
(* Order: the runs                                                           *)

\* o is between two of the runs
InRuns(o) == Ground(o) /\ o.step = "runs" /\ o.todo # <<>>

\* No row is missing, and what has not been run yet still waits.
Full(o) ==
  /\ \A i \in DOMAIN o.runs : Whole(o.runs[i].plan, o.runs[i].rows)
  /\ \A m \in ToSet(o.selection) : o.isolation[m] # "none" \/ \E i \in DOMAIN o.todo : o.todo[i].alone /\ o.todo[i].plan = <<m>>
  /\ o.selection # <<>> => o.runs # <<>> \/ \E i \in DOMAIN o.todo : ~o.todo[i].alone

\* The bisection takes no rows away.
LEMMA FullAlike ==
  ASSUME NEW o, Full(o), NEW q, Alike(o, q)
  PROVE  Full(q)
BY DEF Full, Alike

\* Nothing runs before a method that runs alone.
LEMMA AloneBefore ==
  ASSUME NEW m \in Method
  PROVE  Orderly(<<m>>) /\ ToSet(<<m>>) = {m} /\ Before(<<m>>, m) = {}
<1>1. Orderly(<<m>>) /\ ToSet(<<m>>) = {m}
  BY EmptyOrderly
<1>2. Before(<<m>>, m) = {p \in ToSet(<<m>>) : IsBefore(<<m>>, p, m)}
  BY <1>1, RunsAsListed
<1>3. \A p : ~IsBefore(<<m>>, p, m)
  BY DEF IsBefore
<1> QED BY <1>1, <1>2, <1>3

\* what waits to be run, and what was
ToRun == [alone : BOOLEAN, plan : Plan]
ARun == [plan : Plan, rows : [Method -> Statuses]]

\* The next to run, and what then still waits.
LEMMA NextToRun ==
  ASSUME NEW todo \in Seq(ToRun), todo # <<>>
  PROVE  /\ Head(todo) = todo[1] /\ 1 \in DOMAIN todo /\ Head(todo) \in ToRun /\ Tail(todo) \in Seq(ToRun)
         /\ \A i \in DOMAIN Tail(todo) : i + 1 \in DOMAIN todo /\ Tail(todo)[i] = todo[i + 1]
         /\ \A j \in DOMAIN todo : j = 1 \/ \E i \in DOMAIN Tail(todo) : Tail(todo)[i] = todo[j]
<1> DEFINE n == Len(todo)
           t == Tail(todo)
<1>1. n \in Nat /\ DOMAIN todo = 1..n /\ n # 0
  BY LenProperties, EmptySeq
<1>2. Head(todo) = todo[1] /\ Head(todo) \in ToRun
  BY HeadTailProperties
<1>3. t \in Seq(ToRun) /\ Len(t) = n - 1 /\ \A i \in 1..(n - 1) : t[i] = todo[i + 1]
  BY HeadTailProperties
<1>4. DOMAIN t = 1..(n - 1)
  BY <1>3, LenProperties
<1> HIDE DEF n, t
<1>5. 1 \in 1..n /\ \A i \in 1..(n - 1) : i + 1 \in 1..n
  BY <1>1
<1>6. ASSUME NEW j \in 1..n, j # 1
      PROVE  \E i \in 1..(n - 1) : t[i] = todo[j]
  <2>1. j - 1 \in 1..(n - 1) /\ j - 1 + 1 = j
    BY <1>1, <1>6
  <2> QED BY <1>3, <2>1
<1> QED BY <1>1, <1>2, <1>3, <1>4, <1>5, <1>6 DEF t

\* What o becomes with the rows of its next run.
Taken(o, rows) ==
  LET next == Head(o.todo) IN
  [o EXCEPT !.todo = Tail(@),
            !.isolation = IF next.alone THEN [@ EXCEPT ![next.plan[1]] = rows[next.plan[1]]] ELSE @,
            !.runs = IF next.alone THEN @ ELSE Append(@, [plan |-> next.plan, rows |-> rows])]

\* What of o the rows of a run change.
LEMMA TakenFields ==
  ASSUME NEW o, InRuns(o), NEW rows, rows \in [Method -> Statuses]
  PROVE  LET q == Taken(o, rows)
             next == Head(o.todo)
         IN /\ q \in OrderState
            /\ q = [o EXCEPT !.todo = q.todo, !.isolation = q.isolation, !.runs = q.runs]
            /\ q.todo = Tail(o.todo)
            /\ q.isolation = IF next.alone THEN [o.isolation EXCEPT ![next.plan[1]] = rows[next.plan[1]]] ELSE o.isolation
            /\ q.runs = IF next.alone THEN o.runs ELSE Append(o.runs, [plan |-> next.plan, rows |-> rows])
<1> DEFINE next == Head(o.todo)
           q == Taken(o, rows)
           isolation == IF next.alone THEN [o.isolation EXCEPT ![next.plan[1]] = rows[next.plan[1]]] ELSE o.isolation
           runs == IF next.alone THEN o.runs ELSE Append(o.runs, [plan |-> next.plan, rows |-> rows])
<1>1. /\ o \in OrderState /\ o.todo \in Seq(ToRun) /\ o.todo # <<>> /\ TodoOrderly(o)
      /\ o.runs \in Seq(ARun) /\ o.isolation \in [Method -> Statuses]
  BY DEF InRuns, Ground, OrderState, ToRun, ARun
<1>2. next \in ToRun /\ Tail(o.todo) \in Seq(ToRun) /\ next = o.todo[1] /\ 1 \in DOMAIN o.todo
  BY <1>1, NextToRun
<1>3. next.alone => next.plan[1] \in Method
  <2>1. next.alone => \E m \in Method : next.plan = <<m>>
    BY <1>1, <1>2 DEF TodoOrderly
  <2> QED BY <2>1
<1>4. q = [o EXCEPT !.todo = Tail(o.todo), !.isolation = isolation, !.runs = runs]
  BY <1>1 DEF Taken, OrderState
<1>5. isolation \in [Method -> Statuses]
  BY <1>1, <1>3
<1>6. runs \in Seq(ARun)
  <2>1. [plan |-> next.plan, rows |-> rows] \in ARun
    BY <1>2 DEF ToRun, ARun
  <2> QED BY <1>1, <2>1, AppendProperties
<1> HIDE DEF q, isolation, runs
<1>7. q.todo = Tail(o.todo) /\ q.isolation = isolation /\ q.runs = runs
  BY <1>1, <1>4 DEF OrderState
<1>8. q \in OrderState
  <2>1. Tail(o.todo) \in Seq([alone : BOOLEAN, plan : Plan]) /\ runs \in Seq([plan : Plan, rows : [Method -> Statuses]])
    BY <1>2, <1>6 DEF ToRun, ARun
  <2> QED BY <1>1, <1>4, <1>5, <2>1, ZenonT(40) DEF OrderState
<1> QED BY <1>4, <1>7, <1>8 DEF q, isolation, runs

\* A run is taken for what it tells, and what still waits stays as it was.
LEMMA TakenOK ==
  ASSUME NEW o, InRuns(o), NEW rows, Tells(Head(o.todo).plan, rows)
  PROVE  LET q == Taken(o, rows) IN
         /\ Ground(q) /\ q.step = "runs" /\ q.selection = o.selection
         /\ Full(o) /\ Whole(Head(o.todo).plan, rows) => Full(q)
<1> DEFINE q == Taken(o, rows)
           next == Head(o.todo)
           run == [plan |-> next.plan, rows |-> rows]
<1>1. /\ o \in OrderState /\ o.todo \in Seq(ToRun) /\ o.todo # <<>> /\ TodoOrderly(o) /\ o.step = "runs"
      /\ o.runs \in Seq(ARun) /\ o.isolation \in [Method -> Statuses] /\ rows \in [Method -> Statuses]
      /\ RunsHonest(o) /\ AloneHonest(o) /\ Foretold(o) /\ Orderly(o.selection) /\ world \in World
      /\ \A v \in Method : Blame(o.verdict[v], v)
  BY DEF InRuns, Ground, OrderState, ToRun, ARun, Tells
<1>2. /\ q \in OrderState
      /\ q = [o EXCEPT !.todo = q.todo, !.isolation = q.isolation, !.runs = q.runs]
      /\ q.todo = Tail(o.todo)
      /\ q.isolation = IF next.alone THEN [o.isolation EXCEPT ![next.plan[1]] = rows[next.plan[1]]] ELSE o.isolation
      /\ q.runs = IF next.alone THEN o.runs ELSE Append(o.runs, run)
  BY <1>1, TakenFields
<1>3. /\ next = o.todo[1] /\ 1 \in DOMAIN o.todo /\ next \in ToRun
      /\ \A i \in DOMAIN q.todo : i + 1 \in DOMAIN o.todo /\ q.todo[i] = o.todo[i + 1]
      /\ \A j \in DOMAIN o.todo : j = 1 \/ \E i \in DOMAIN q.todo : q.todo[i] = o.todo[j]
  <2>1. q.todo = Tail(o.todo)
    BY <1>2
  <2> HIDE DEF q
  <2>2. \A todo \in Seq(ToRun) : todo # <<>> =>
          /\ Head(todo) = todo[1] /\ 1 \in DOMAIN todo /\ Head(todo) \in ToRun
          /\ \A i \in DOMAIN Tail(todo) : i + 1 \in DOMAIN todo /\ Tail(todo)[i] = todo[i + 1]
          /\ \A j \in DOMAIN todo : j = 1 \/ \E i \in DOMAIN Tail(todo) : Tail(todo)[i] = todo[j]
    BY NextToRun, Zenon
  <2>3. o.todo \in Seq(ToRun) /\ o.todo # <<>>
    BY <1>1
  <2>4. /\ Head(o.todo) = o.todo[1] /\ 1 \in DOMAIN o.todo /\ Head(o.todo) \in ToRun
        /\ \A i \in DOMAIN Tail(o.todo) : i + 1 \in DOMAIN o.todo /\ Tail(o.todo)[i] = o.todo[i + 1]
        /\ \A j \in DOMAIN o.todo : j = 1 \/ \E i \in DOMAIN Tail(o.todo) : Tail(o.todo)[i] = o.todo[j]
    BY <2>2, <2>3, Zenon
  <2> QED BY <2>1, <2>4
<1>4. /\ Orderly(next.plan)
      /\ next.alone => \E m \in Method : next.plan = <<m>>
      /\ ~next.alone => ToSet(next.plan) = ToSet(o.selection)
  BY <1>1, <1>3 DEF TodoOrderly
<1> HIDE DEF q, next
<1>5. /\ q.step = "runs" /\ q.selection = o.selection /\ q.predicted = o.predicted
      /\ q.verdict = o.verdict
  BY <1>1, <1>2 DEF OrderState
<1>6. TodoOrderly(q)
  BY <1>1, <1>3, <1>5 DEF TodoOrderly
<1>7. Foretold(q)
  BY <1>1, <1>5 DEF Foretold
<1>8. CASE next.alone
  <2>1. PICK m \in Method : next.plan = <<m>>
    BY <1>4, <1>8
  <2>2. next.plan[1] = m
    BY <2>1
  <2>3. q.isolation = [o.isolation EXCEPT ![m] = rows[m]] /\ q.runs = o.runs
    BY <1>2, <1>8, <2>2
  <2>4. \A x \in Method : q.isolation[x] = IF x = m THEN rows[m] ELSE o.isolation[x]
    BY <1>1, <2>3
  <2>5. rows[m] # "none" /\ Steady(m) => (rows[m] = "failed" <=> Fails({}, m))
    BY <2>1, AloneBefore DEF Tells, next
  <2>6. AloneHonest(q)
    BY <1>1, <2>4, <2>5 DEF AloneHonest
  <2>7. RunsHonest(q)
    BY <1>1, <1>5, <2>3 DEF RunsHonest
  <2>8. Ground(q)
    BY <1>1, <1>2, <1>5, <1>6, <1>7, <2>6, <2>7 DEF Ground
  <2>9. ASSUME Full(o), Whole(next.plan, rows)
        PROVE  Full(q)
    <3>1. \A i \in DOMAIN q.runs : Whole(q.runs[i].plan, q.runs[i].rows)
      BY <2>3, <2>9 DEF Full
    <3>2. rows[m] # "none"
      BY <2>1, <2>9, AloneBefore DEF Whole
    <3>3. ASSUME NEW x \in ToSet(q.selection)
          PROVE  q.isolation[x] # "none" \/ \E i \in DOMAIN q.todo : q.todo[i].alone /\ q.todo[i].plan = <<x>>
      <4>1. x \in Method
        <5>1. o.selection \in Seq(Method)
          BY <1>1 DEF Orderly
        <5> QED BY <1>5, <3>3, <5>1, InList
      <4>2. CASE x = m
        BY <2>4, <3>2, <4>2
      <4>3. CASE x # m /\ o.isolation[x] # "none"
        BY <2>4, <4>1, <4>3
      <4>4. CASE x # m /\ o.isolation[x] = "none"
        <5>1. PICK j \in DOMAIN o.todo : o.todo[j].alone /\ o.todo[j].plan = <<x>>
          BY <1>5, <2>9, <3>3, <4>4 DEF Full
        <5>2. j # 1
          <6>1. <<x>> # <<m>>
            BY <4>4
          <6> QED BY <1>3, <2>1, <5>1, <6>1
        <5> QED BY <1>3, <5>1, <5>2
      <4> QED BY <4>2, <4>3, <4>4
    <3>4. q.selection # <<>> => q.runs # <<>> \/ \E i \in DOMAIN q.todo : ~q.todo[i].alone
      <4>1. CASE o.runs # <<>>
        BY <2>3, <4>1
      <4>2. CASE \E j \in DOMAIN o.todo : ~o.todo[j].alone
        BY <1>3, <1>8, <4>2
      <4> QED BY <1>5, <2>9, <4>1, <4>2 DEF Full
    <3> QED BY <3>1, <3>3, <3>4 DEF Full
  <2> QED BY <1>5, <2>8, <2>9 DEF q, next
<1>9. CASE ~next.alone
  <2>1. q.isolation = o.isolation /\ q.runs = Append(o.runs, run)
    BY <1>2, <1>9
  <2>2. run \in ARun /\ run.plan = next.plan /\ run.rows = rows
    BY <1>1, <1>3 DEF ToRun, ARun
  <2> HIDE DEF run
  <2>3. \A i \in DOMAIN q.runs : (i \in DOMAIN o.runs /\ q.runs[i] = o.runs[i]) \/ q.runs[i] = run
    <3>1. /\ Len(q.runs) = Len(o.runs) + 1 /\ q.runs \in Seq(ARun)
          /\ \A i \in 1..Len(o.runs) : q.runs[i] = o.runs[i]
          /\ q.runs[Len(o.runs) + 1] = run
      BY <1>1, <2>1, <2>2, AppendProperties
    <3>2. Len(o.runs) \in Nat /\ DOMAIN o.runs = 1..Len(o.runs) /\ DOMAIN q.runs = 1..Len(q.runs)
      BY <1>1, <3>1, LenProperties
    <3>3. \A i \in 1..(Len(o.runs) + 1) : i \in 1..Len(o.runs) \/ i = Len(o.runs) + 1
      BY <3>2
    <3> QED BY <3>1, <3>2, <3>3
  <2>4. q.runs # <<>>
    <3>1. Len(q.runs) = Len(o.runs) + 1 /\ Len(o.runs) \in Nat
      BY <1>1, <2>1, <2>2, AppendProperties, LenProperties
    <3>2. Len(q.runs) # 0 /\ Len(<<>>) = 0
      BY <3>1
    <3> QED BY <3>2
  <2>5. Tells(next.plan, rows)
    BY DEF next
  <2>6. RunsHonest(q)
    BY <1>1, <1>4, <1>5, <1>9, <2>2, <2>3, <2>5 DEF RunsHonest
  <2>7. AloneHonest(q)
    BY <1>1, <2>1 DEF AloneHonest
  <2>8. Ground(q)
    BY <1>1, <1>2, <1>5, <1>6, <1>7, <2>6, <2>7 DEF Ground
  <2>9. ASSUME Full(o), Whole(next.plan, rows)
        PROVE  Full(q)
    <3>1. \A i \in DOMAIN q.runs : Whole(q.runs[i].plan, q.runs[i].rows)
      BY <2>2, <2>3, <2>9 DEF Full
    <3>2. ASSUME NEW x \in ToSet(q.selection)
          PROVE  q.isolation[x] # "none" \/ \E i \in DOMAIN q.todo : q.todo[i].alone /\ q.todo[i].plan = <<x>>
      <4>1. CASE o.isolation[x] # "none"
        BY <2>1, <4>1
      <4>2. CASE o.isolation[x] = "none"
        <5>1. PICK j \in DOMAIN o.todo : o.todo[j].alone /\ o.todo[j].plan = <<x>>
          BY <1>5, <2>9, <3>2, <4>2 DEF Full
        <5> QED BY <1>3, <1>9, <5>1
      <4> QED BY <4>1, <4>2
    <3> QED BY <2>4, <3>1, <3>2 DEF Full
  <2> QED BY <1>5, <2>8, <2>9 DEF q, next
<1> QED BY <1>8, <1>9

\* After the last run every victim waits to be bisected.
LEMMA TakeRunOK ==
  ASSUME NEW o, InRuns(o), NEW rows, Tells(Head(o.todo).plan, rows)
  PROVE  LET q == TakeRun(o, rows) IN
         /\ InRuns(q) \/ Bisected(q)
         /\ Full(o) /\ Whole(Head(o.todo).plan, rows) => Full(q)
<1> DEFINE taken == Taken(o, rows)
           S == {m \in Method : Classify(taken, m) = "odVictim"}
           victims == Only(o.selection, S)
           p == [taken EXCEPT !.victims = victims]
<1>1. TakeRun(o, rows) = IF taken.todo # <<>> THEN taken ELSE StartVictim(p)
  BY Zenon DEF TakeRun, Taken
<1> HIDE DEF taken
<1>2. /\ Ground(taken) /\ taken.step = "runs" /\ taken.selection = o.selection
      /\ Full(o) /\ Whole(Head(o.todo).plan, rows) => Full(taken)
  BY TakenOK DEF taken
<1>3. CASE taken.todo # <<>>
  BY <1>1, <1>2, <1>3 DEF InRuns
<1>4. CASE taken.todo = <<>>
  <2>1. TakeRun(o, rows) = StartVictim(p)
    BY <1>1, <1>4
  <2>2. taken \in OrderState /\ o.selection \in Seq(Method)
    BY <1>2 DEF Ground, Orderly
  <2>3. victims \in Seq(Method) /\ ToSet(victims) = ToSet(o.selection) \cap S
    BY <2>2, OnlyIsPart DEF Part
  <2>4. p = [taken EXCEPT !.victims = victims]
    OBVIOUS
  <2> HIDE DEF p, victims, S
  <2>5. p \in OrderState /\ Alike(taken, p) /\ p.verdict = taken.verdict /\ p.victims = victims
    BY <2>2, <2>3, <2>4, ZenonT(40) DEF OrderState, Alike, Plan
  <2>6. Ground(p)
    BY <1>2, <2>5, GroundAlike DEF Ground
  <2>7. \A m : Classify(p, m) = Classify(taken, m)
    BY <2>5, ClassifySame DEF Alike
  <2>8. ToSet(o.selection) \subseteq Method
    BY <2>2, InList
  <2>9. Waiting(p)
    <3>1. p.todo = <<>> /\ p.selection = o.selection
      BY <1>2, <1>4, <2>5 DEF Alike
    <3> QED BY <2>3, <2>5, <2>7, <2>8, <3>1 DEF Waiting, S
  <2>10. Bisected(StartVictim(p)) /\ Alike(p, StartVictim(p))
    BY <2>6, <2>9, StartVictimOK
  <2>11. Alike(taken, StartVictim(p))
    BY <2>5, <2>10 DEF Alike
  <2>12. Full(taken) => Full(StartVictim(p))
    BY <2>11, FullAlike
  <2> QED BY <1>2, <2>1, <2>10, <2>11, <2>12
<1> QED BY <1>3, <1>4

\* What is to be run of the selection s.
Runnable(s) ==
  {r \in ToRun : Orderly(r.plan) /\ IF r.alone THEN \E m \in Method : r.plan = <<m>> ELSE ToSet(r.plan) = ToSet(s)}

\* At first every method is to be run alone, and the selection in some orders.
LEMMA TodoOK ==
  ASSUME NEW s, Orderly(s), NEW shuffles \in [1..Shuffles -> Shuffled(s)]
  PROVE  LET todo == Todo(s, shuffles) IN
         /\ todo \in Seq(Runnable(s)) /\ todo # <<>>
         /\ \A m \in ToSet(s) : \E i \in DOMAIN todo : todo[i].alone /\ todo[i].plan = <<m>>
         /\ \E i \in DOMAIN todo : ~todo[i].alone
<1> DEFINE R == Runnable(s)
           n == Len(s)
           A == [i \in DOMAIN s |-> [alone |-> TRUE, plan |-> <<s[i]>>]]
           r1 == [alone |-> FALSE, plan |-> Recorded(s)]
           r2 == [alone |-> FALSE, plan |-> Reversed(s)]
           B == <<r1, r2>>
           C == [i \in 1..Shuffles |-> [alone |-> FALSE, plan |-> shuffles[i]]]
           todo == Todo(s, shuffles)
<1>1. s \in Seq(Method) /\ n \in Nat /\ DOMAIN s = 1..n
  BY InList DEF Orderly
<1>2. \A i \in 1..n : s[i] \in Method /\ Orderly(<<s[i]>>)
  BY <1>1, InList, EmptyOrderly
<1>3. \A m \in Method : Orderly(<<m>>) => [alone |-> TRUE, plan |-> <<m>>] \in R
  BY DEF Runnable, ToRun, Plan
<1>4. \A plan : Orderly(plan) /\ ToSet(plan) = ToSet(s) => [alone |-> FALSE, plan |-> plan] \in R
  BY DEF Runnable, ToRun, Plan, Orderly
<1> HIDE DEF R, n
<1>5. A \in Seq(R) /\ DOMAIN A = 1..n /\ A = [i \in 1..n |-> A[i]]
  <2>1. A \in [1..n -> R]
    BY <1>1, <1>2, <1>3
  <2> HIDE DEF A
  <2> QED BY <1>1, <2>1, SeqDef
<1>6. r1 \in R /\ r2 \in R
  BY <1>4, PlansOrderly
<1>7. C \in Seq(R)
  <2>1. Shuffles \in Nat
    BY OrderAssumption
  <2>2. \A i \in 1..Shuffles : [alone |-> FALSE, plan |-> shuffles[i]] \in R
    BY <1>4, PlansOrderly
  <2>3. C \in [1..Shuffles -> R]
    BY <2>2
  <2> QED BY <2>1, <2>3, SeqDef
<1>8. B \in Seq(R) /\ Len(B) = 2 /\ B[1] = r1
  BY <1>6
<1>9. \A i \in 1..n : A[i].alone /\ A[i].plan = <<s[i]>>
  BY <1>1
<1>10. ~r1.alone
  OBVIOUS
<1>11. todo = A \o B \o C
  BY DEF Todo
<1> HIDE DEF A, B, C, r1, r2, todo
<1>12. Len(A) = n
  BY <1>1, <1>5, ListOf
<1>13. /\ A \o B \in Seq(R) /\ Len(A \o B) = n + 2
       /\ \A i \in 1..n : (A \o B)[i] = A[i]
       /\ (A \o B)[n + 1] = B[1]
  <2> DEFINE D == A \o B
  <2>1. /\ D \in Seq(R) /\ Len(D) = n + 2
        /\ \A i \in 1..(n + 2) : D[i] = IF i <= n THEN A[i] ELSE B[i - n]
    <3>1. /\ D \in Seq(R) /\ Len(D) = Len(A) + Len(B)
          /\ \A i \in 1..(Len(A) + Len(B)) : D[i] = IF i <= Len(A) THEN A[i] ELSE B[i - Len(A)]
      BY <1>5, <1>8, ConcatProperties
    <3> HIDE DEF D
    <3> QED BY <1>8, <1>12, <3>1
  <2> HIDE DEF D
  <2> DEFINE k == n + 1
  <2>2. k \in 1..(n + 2) /\ ~(k <= n) /\ k - n = 1
          /\ \A i \in 1..n : i \in 1..(n + 2) /\ i <= n
    BY <1>1
  <2> HIDE DEF k
  <2>3. D[k] = B[k - n]
    BY <2>1, <2>2
  <2>4. D[k] = B[1]
    BY <2>2, <2>3
  <2>5. \A i \in 1..n : D[i] = A[i]
    BY <2>1, <2>2
  <2> QED BY <2>1, <2>4, <2>5 DEF D, k
<1>14. /\ todo \in Seq(R) /\ Len(todo) >= n + 2 /\ Len(todo) \in Nat
       /\ \A i \in 1..(n + 2) : todo[i] = (A \o B)[i]
  <2> DEFINE D == A \o B
  <2>1. D \in Seq(R) /\ Len(D) = n + 2 /\ todo = D \o C
    BY <1>11, <1>13
  <2> HIDE DEF D
  <2>2. Len(C) \in Nat
    BY <1>7, LenProperties
  <2>3. /\ todo \in Seq(R) /\ Len(todo) = n + 2 + Len(C)
        /\ \A i \in 1..(n + 2 + Len(C)) : todo[i] = IF i <= n + 2 THEN D[i] ELSE C[i - (n + 2)]
    <3>1. /\ D \o C \in Seq(R) /\ Len(D \o C) = Len(D) + Len(C)
          /\ \A i \in 1..(Len(D) + Len(C)) : (D \o C)[i] = IF i <= Len(D) THEN D[i] ELSE C[i - Len(D)]
      BY <1>7, <2>1, ConcatProperties
    <3> QED BY <2>1, <3>1
  <2>4. \A i \in 1..(n + 2) : i \in 1..(n + 2 + Len(C)) /\ i <= n + 2
    BY <1>1, <2>2
  <2>5. Len(todo) >= n + 2 /\ Len(todo) \in Nat
    BY <1>1, <2>2, <2>3
  <2> QED BY <2>3, <2>4, <2>5 DEF D
<1>15. DOMAIN todo = 1..Len(todo)
  BY <1>14, LenProperties
<1>16. \A i \in 1..(n + 2) : i \in DOMAIN todo
  BY <1>1, <1>14, <1>15
<1>17. \A m \in ToSet(s) : \E i \in DOMAIN todo : todo[i].alone /\ todo[i].plan = <<m>>
  <2> TAKE m \in ToSet(s)
  <2>1. PICK i \in 1..n : s[i] = m
    BY <1>1, InList
  <2>2. i \in 1..(n + 2)
    BY <1>1
  <2>3. todo[i] = A[i] /\ i \in DOMAIN todo
    BY <1>13, <1>14, <1>16, <2>2
  <2> QED BY <1>9, <2>1, <2>3
<1>18. \E i \in DOMAIN todo : ~todo[i].alone
  <2>1. n + 1 \in 1..(n + 2)
    BY <1>1
  <2>2. todo[n + 1] = r1 /\ n + 1 \in DOMAIN todo
    BY <1>8, <1>13, <1>14, <1>16, <2>1
  <2> QED BY <1>10, <2>2
<1>19. todo # <<>>
  BY <1>18
<1> QED BY <1>14, <1>17, <1>18, <1>19 DEF todo, R

-----------------------------------------------------------------------------
(* Order: the invariant of the steps                                         *)

\* Every victim has been dealt with, and a complete answer left none unresolved.
Closed(o) ==
  /\ o.todo = <<>>
  /\ \A m \in ToSet(o.selection) : Classify(o, m) = "odVictim" => o.verdict[m].outcome # "none"
  /\ o.complete => Unresolved(o) = {}

\* What is known of the handler at each of its steps.
Staged(o) ==
  /\ Ground(o)
  /\ o.step = "idle" => o.selection = <<>> /\ o.todo = <<>> /\ o.runs = <<>> /\ o.complete = FALSE
  /\ o.step = "runs" => o.todo # <<>>
  /\ o.step \in {"bisect", "done"} => Bisected(o)
  /\ o.step \in {"capture", "over"} => Closed(o)

\* The inductive invariant of mode 'order'.
OInv ==
  /\ Staged(order)
  /\ ~order.halted /\ ~lost => Full(order)
  /\ cancelled \in BOOLEAN /\ lost \in BOOLEAN /\ active \in BOOLEAN
  /\ slot \in {"free", "busy", "mine"} /\ (slot = "mine" <=> order.step = "capture")

\* How the methods depend on each other does not change, so neither does what is said of a state.
LEMMA WorldStays ==
  ASSUME UNCHANGED world, NEW q
  PROVE  Staged(q)' <=> Staged(q)
<1>1. \A b, v : Polluters(b, v)' = Polluters(b, v)
  BY DEF Polluters
<1>2. \A b, v : Fails(b, v)' <=> Fails(b, v)
  BY <1>1 DEF Fails
<1>3. \A v : Steady(v)' <=> Steady(v)
  BY DEF Steady
<1>4. \A v : Sole(v)' <=> Sole(v)
  BY <1>1 DEF Sole
<1>5. \A w, v : Blame(w, v)' <=> Blame(w, v)
  BY <1>2, <1>3, <1>4 DEF Blame
<1>6. \A plan, rows : Tells(plan, rows)' <=> Tells(plan, rows)
  BY <1>2, <1>3 DEF Tells
<1>7. RunsHonest(q)' <=> RunsHonest(q)
  BY <1>6 DEF RunsHonest
<1>8. AloneHonest(q)' <=> AloneHonest(q)
  BY <1>2, <1>3 DEF AloneHonest
<1>9. Ground(q)' <=> Ground(q)
  BY <1>5, <1>7, <1>8 DEF Ground
<1>10. \A v, s : Suspected(v, s)' <=> Suspected(v, s)
  BY <1>1, <1>2, <1>3, <1>4 DEF Suspected
<1>11. Bisects(q)' <=> Bisects(q)
  BY <1>2, <1>3, <1>10 DEF Bisects
<1>12. Bisected(q)' <=> Bisected(q)
  BY <1>9, <1>11 DEF Bisected
<1> QED BY <1>9, <1>12 DEF Staged

-----------------------------------------------------------------------------
(* Order: what a run is taken for changes neither the halt nor the count     *)

\* o has the variables of the handler that matter here, and q is a later state of them
Holds(o) == {"step", "halted", "initializes"} \subseteq DOMAIN o
Same(o, q) ==
  DOMAIN q = DOMAIN o /\ q.halted = o.halted /\ q.initializes = o.initializes /\ q.step \in {o.step, "bisect", "done"}

LEMMA StartVictimSame ==
  ASSUME NEW o, Holds(o)
  PROVE  Same(o, StartVictim(o))
BY DEF Holds, Same, StartVictim, Finished

LEMMA SettleSame ==
  ASSUME NEW o, Holds(o), NEW outcome, NEW remaining
  PROVE  Same(o, Settle(o, outcome, remaining))
BY StartVictimSame DEF Holds, Same, Settle

LEMMA NarrowSame ==
  ASSUME NEW o, Holds(o), NEW remaining
  PROVE  Same(o, Narrow(o, remaining))
BY SettleSame DEF Holds, Same, Narrow

LEMMA TakeProbeSame ==
  ASSUME NEW o, Holds(o), NEW rows
  PROVE  Same(o, TakeProbe(o, rows))
<1> DEFINE p == [o EXCEPT !.probes = @ + 1]
<1> DEFINE status == rows[Victim(o)]
<1>1. Holds(p) /\ Same(o, p)
  BY DEF Holds, Same
<1>5. TakeProbe(o, rows) \in {Hinted(p, status), Confirmed(p, status), Halved(p, status)}
  BY DEF TakeProbe
<1> HIDE DEF p, status
<1>2. Same(p, Hinted(p, status))
  BY <1>1, SettleSame DEF Hinted, Holds, Same
<1>3. Same(p, Confirmed(p, status))
  BY <1>1, SettleSame, NarrowSame DEF Confirmed, Holds, Same
<1>4. Same(p, Halved(p, status))
  BY <1>1, SettleSame, NarrowSame DEF Halved, Holds, Same
<1> QED BY <1>1, <1>2, <1>3, <1>4, <1>5 DEF Same

LEMMA TakeRunSame ==
  ASSUME NEW o, Holds(o), NEW rows
  PROVE  Same(o, TakeRun(o, rows))
<1> DEFINE next == Head(o.todo)
<1> DEFINE taken == [o EXCEPT !.todo = Tail(@),
                         !.isolation = IF next.alone THEN [@ EXCEPT ![next.plan[1]] = rows[next.plan[1]]] ELSE @,
                         !.runs = IF next.alone THEN @ ELSE Append(@, [plan |-> next.plan, rows |-> rows])]
<1> DEFINE queued == [taken EXCEPT !.victims = Only(o.selection, {m \in Method : Classify(taken, m) = "odVictim"})]
<1>1. Holds(taken) /\ Same(o, taken)
  BY DEF Holds, Same
<1>2. TakeRun(o, rows) = IF taken.todo # <<>> THEN taken ELSE StartVictim(queued)
  BY Zenon DEF TakeRun
<1>3. Holds(queued) /\ Same(taken, queued)
  <2> DEFINE chosen == Only(o.selection, {m \in Method : Classify(taken, m) = "odVictim"})
  <2>1. queued = [taken EXCEPT !.victims = chosen]
    OBVIOUS
  <2> HIDE DEF chosen, taken, queued
  <2> QED BY <1>1, <2>1 DEF Holds, Same
<1> HIDE DEF queued, taken
<1>4. Same(queued, StartVictim(queued))
  BY <1>3, StartVictimSame
<1> QED BY <1>1, <1>2, <1>3, <1>4 DEF Same

LEMMA TakeSame ==
  ASSUME NEW o, Holds(o), NEW rows
  PROVE  Same(o, Take(o, rows))
BY TakeProbeSame, TakeRunSame DEF Take

\* The invariant where runs or a bisection go on.
LEMMA StagedWhere ==
  ASSUME NEW q, InRuns(q) \/ Bisected(q)
  PROVE  Staged(q) /\ q.step \in {"runs", "bisect", "done"}
BY DEF InRuns, Bisected, Staged

\* What is asked of the server next is in order.
LEMMA NextPlanOK ==
  ASSUME NEW o, Staged(o), Starting(o)
  PROVE  Orderly(NextPlan(o)) /\ NextPlan(o) \in Plan
<1>1. CASE o.step = "runs"
  <2>1. o.todo \in Seq(ToRun) /\ o.todo # <<>> /\ TodoOrderly(o)
    BY <1>1 DEF Staged, Ground, OrderState, ToRun
  <2>2. Head(o.todo) = o.todo[1] /\ 1 \in DOMAIN o.todo
    BY <2>1, NextToRun
  <2>3. Orderly(Head(o.todo).plan)
    BY <2>1, <2>2 DEF TodoOrderly
  <2> QED BY <1>1, <2>3 DEF NextPlan, Orderly, Plan
<1>2. CASE o.step = "bisect"
  <2>1. Amid(o) /\ Bisects(o)
    BY <1>2 DEF Staged, Bisected, Amid, Bisects
  <2> QED BY <1>2, <2>1, ProbePlanOK DEF NextPlan
<1> QED BY <1>1, <1>2 DEF Starting

\* Whatever a run tells, the order goes on soundly.
LEMMA TakeOK ==
  ASSUME NEW o, Staged(o), Starting(o), NEW rows, Tells(NextPlan(o), rows)
  PROVE  LET q == Take(o, rows) IN
         /\ Staged(q) /\ q.step \in {"runs", "bisect", "done"}
         /\ Full(o) /\ Whole(NextPlan(o), rows) => Full(q)
<1>1. CASE o.step = "runs"
  <2>1. InRuns(o) /\ NextPlan(o) = Head(o.todo).plan /\ Take(o, rows) = TakeRun(o, rows)
    BY <1>1 DEF Staged, InRuns, NextPlan, Take
  <2> QED BY <2>1, TakeRunOK, StagedWhere
<1>2. CASE o.step = "bisect"
  <2>1. Amid(o) /\ Bisects(o) /\ NextPlan(o) = ProbePlan(o) /\ Take(o, rows) = TakeProbe(o, rows)
    BY <1>2 DEF Staged, Bisected, Amid, Bisects, NextPlan, Take
  <2>2. o.probes < MaxProbes
    <3>1. o.probes \in 0..MaxProbes
      <4>1. o \in OrderState
        BY DEF Staged, Ground
      <4> QED BY <4>1 DEF OrderState
    <3>2. ~(o.probes >= MaxProbes) /\ MaxProbes \in Nat
      BY <1>2, OrderAssumption DEF Starting, Capped
    <3> QED BY <3>1, <3>2
  <2>3. Bisected(TakeProbe(o, rows)) /\ Alike(o, TakeProbe(o, rows))
    BY <2>1, <2>2, TakeProbeOK
  <2> QED BY <2>1, <2>3, StagedWhere, FullAlike
<1> QED BY <1>1, <1>2 DEF Starting

\* Counting a run and halting change nothing that has been seen.
LEMMA HaltOK ==
  ASSUME NEW o, Staged(o), o.step \in {"runs", "bisect"}, NEW q \in OrderState, Alike(o, q), q.step = o.step,
         q.victims = o.victims, q.verdict = o.verdict, q.phase = o.phase, q.hints = o.hints, q.remaining = o.remaining
  PROVE  /\ Staged(q) /\ NextPlan(q) = NextPlan(o)
         /\ Full(o) => Full(q)
<1>4. q.todo = o.todo
  BY DEF Alike
<1>5. FirstHalf(q) = FirstHalf(o) /\ Probed(q) = Probed(o) /\ Victim(q) = Victim(o)
  BY DEF FirstHalf, SecondHalf, Half, Probed, Victim
<1>6. NextPlan(q) = NextPlan(o)
  BY <1>4, <1>5 DEF NextPlan, ProbePlan
<1>7. CASE o.step = "runs"
  <2>1. Ground(o) /\ o.todo # <<>>
    BY <1>7 DEF Staged
  <2>2. Ground(q)
    BY <2>1, GroundAlike DEF Ground
  <2>3. InRuns(q)
    BY <1>4, <1>7, <2>1, <2>2 DEF InRuns
  <2> QED BY <1>6, <1>7, <2>3, StagedWhere, FullAlike
<1>8. CASE o.step = "bisect"
  <2>1. Amid(o) /\ Bisects(o)
    BY <1>8 DEF Staged, Bisected, Amid, Bisects
  <2>2. Amid(q)
    BY <1>8, <2>1, AmidAlike
  <2>3. Bisects(q)
    BY <1>5, <2>1 DEF Bisects
  <2>4. Bisected(q)
    BY <2>2, <2>3 DEF Bisected, Amid
  <2> QED BY <1>6, <1>8, <2>4, StagedWhere, FullAlike
<1> QED BY <1>7, <1>8

\* What a step has to establish, of the state q that it makes of the order.
LEMMA StepTo ==
  ASSUME UNCHANGED world, NEW q, q = order', Staged(q), ~q.halted /\ ~lost' => Full(q),
         cancelled' \in BOOLEAN, lost' \in BOOLEAN, active' \in BOOLEAN,
         slot' \in {"free", "busy", "mine"}, slot' = "mine" <=> q.step = "capture"
  PROVE  OInv'
<1>1. Staged(q)'
  BY WorldStays
<1>2. Staged(order)'
  BY <1>1
<1>3. ~order'.halted /\ ~lost' => Full(order')
  OBVIOUS
<1> QED BY <1>2, <1>3 DEF OInv

\* The steps, one by one.
LEMMA BeginOK ==
  ASSUME OInv, Begin
  PROVE  OInv'
<1>1. /\ Staged(order) /\ order.step = "idle" /\ order \in OrderState /\ Ground(order)
      /\ order.selection = <<>> /\ order.todo = <<>> /\ order.runs = <<>> /\ order.complete = FALSE
  BY DEF OInv, Begin, Staged, Ground
<1>2. UNCHANGED <<slot, cancelled, lost, active, world>> /\ slot # "mine"
  BY <1>1 DEF OInv, Begin
<1>3. PICK request \in Requests, table \in BOOLEAN, supported \in BOOLEAN :
        LET selection == Expand(request) IN
        IF ~Acceptable(request) \/ (table /\ slot # "free") \/ ~supported THEN order' = [order EXCEPT !.step = "over"]
        ELSE \E tables \in Answered(selection), shuffles \in [1..Shuffles -> Shuffled(selection)] :
               order' = [order EXCEPT !.step = "runs", !.selection = selection, !.table = table,
                           !.predicted = Predicted(selection, tables), !.todo = Todo(selection, shuffles)]
  BY Zenon DEF Begin
<1>4. CASE order' = [order EXCEPT !.step = "over"]
  <2>1. PICK q : q = order'
    OBVIOUS
  <2>2. /\ q \in OrderState /\ Alike(order, q) /\ q.step = "over" /\ q.verdict = order.verdict /\ q.halted = order.halted
    BY <1>1, <1>4, <2>1, ZenonT(40) DEF OrderState, Alike
  <2>3. Ground(q)
    BY <1>1, <2>2, GroundAlike DEF Ground
  <2>4. q.selection = <<>> /\ q.todo = <<>> /\ q.complete = FALSE
    BY <1>1, <2>2 DEF Alike
  <2>5. Closed(q)
    BY <2>4, EmptyOrderly DEF Closed
  <2>6. Staged(q)
    BY <2>2, <2>3, <2>5 DEF Staged
  <2>7. ~q.halted /\ ~lost' => Full(q)
    BY <1>2, <2>2, FullAlike DEF OInv
  <2> QED BY <1>2, <2>1, <2>2, <2>6, <2>7, StepTo DEF OInv
<1>5. ASSUME Acceptable(request), NEW tables \in Answered(Expand(request)),
             NEW shuffles \in [1..Shuffles -> Shuffled(Expand(request))],
             order' = [order EXCEPT !.step = "runs", !.selection = Expand(request), !.table = table,
                         !.predicted = Predicted(Expand(request), tables), !.todo = Todo(Expand(request), shuffles)]
      PROVE  OInv'
  <2> DEFINE s == Expand(request)
             predicted == Predicted(s, tables)
             todo == Todo(s, shuffles)
  <2>1. Orderly(s) /\ s \in Seq(Method) /\ ToSet(s) \subseteq Method
    BY <1>5, ExpandOrderly, InList DEF Orderly
  <2>2. /\ todo \in Seq(Runnable(s)) /\ todo # <<>>
        /\ \A m \in ToSet(s) : \E i \in DOMAIN todo : todo[i].alone /\ todo[i].plan = <<m>>
        /\ \E i \in DOMAIN todo : ~todo[i].alone
    BY <2>1, TodoOK
  <2>3. \A i \in DOMAIN todo : todo[i] \in Runnable(s)
    BY <2>2, ElementOfSeq, LenProperties
  <2>4. todo \in Seq(ToRun)
    <3>1. Runnable(s) \subseteq ToRun
      BY DEF Runnable
    <3> HIDE DEF todo, s
    <3> QED BY <2>2, <3>1
  <2>5. /\ predicted \in SUBSET (Method \X Method)
        /\ \A pair \in predicted : SameGroup(pair[1], pair[2]) /\ {pair[1], pair[2]} \subseteq ToSet(s) /\ IsBefore(s, pair[1], pair[2])
    BY <2>1 DEF Predicted
  <2>6. \A pair \in predicted : IsBefore(Declared, pair[1], pair[2])
    <3> TAKE pair \in predicted
    <3> HIDE DEF predicted, s
    <3>1. SameGroup(pair[1], pair[2]) /\ IsBefore(s, pair[1], pair[2])
      BY <2>5
    <3>2. PICK i, j \in DOMAIN s : i < j /\ s[i] = pair[1] /\ s[j] = pair[2]
      BY <3>1 DEF IsBefore
    <3>3. SameGroup(s[i], s[j])
      BY <3>1, <3>2
    <3> QED BY <2>1, <3>2, <3>3 DEF Orderly
  <2>7. PICK q : q = order'
    OBVIOUS
  <2>8. q = [order EXCEPT !.step = "runs", !.selection = s, !.table = table, !.predicted = predicted, !.todo = todo]
    BY <1>5, <2>7
  <2> HIDE DEF s, predicted, todo
  <2>9. /\ q \in OrderState /\ q.step = "runs" /\ q.selection = s /\ q.predicted = predicted /\ q.todo = todo
        /\ q.runs = <<>> /\ q.isolation = order.isolation /\ q.verdict = order.verdict
    BY <1>1, <2>1, <2>4, <2>5, <2>8, ZenonT(40) DEF OrderState, Plan, ToRun
  <2>10. RunsHonest(q) /\ AloneHonest(q)
    BY <1>1, <2>9 DEF RunsHonest, AloneHonest, Ground
  <2>11. TodoOrderly(q)
    BY <2>3, <2>9 DEF TodoOrderly, Runnable
  <2>12. Foretold(q)
    BY <2>5, <2>6, <2>9 DEF Foretold
  <2>13. Ground(q)
    BY <1>1, <2>1, <2>9, <2>10, <2>11, <2>12 DEF Ground
  <2>14. Staged(q)
    BY <2>2, <2>9, <2>13 DEF Staged
  <2>15. Full(q)
    <3>1. DOMAIN q.runs = {}
      BY <2>9
    <3>2. \A i \in DOMAIN q.runs : Whole(q.runs[i].plan, q.runs[i].rows)
      BY <3>1
    <3> QED BY <2>2, <2>9, <3>2 DEF Full
  <2> QED BY <1>2, <2>7, <2>9, <2>14, <2>15, StepTo DEF OInv
<1> QED BY <1>3, <1>4, <1>5

\* The limit of the probes.
LEMMA ProbeCapOK ==
  ASSUME OInv, ProbeCap
  PROVE  OInv'
<1>1. Staged(order) /\ order.step = "bisect" /\ UNCHANGED <<slot, cancelled, lost, active, world>> /\ slot # "mine"
  BY DEF OInv, ProbeCap, Capped
<1>2. PICK q : q = order'
  OBVIOUS
<1>3. q = Settle(order, "capped", order.remaining)
  BY <1>2 DEF ProbeCap
<1>4. Amid(order)
  BY <1>1 DEF Staged, Bisected, Amid, Bisects
<1>5. Bisected(q) /\ Alike(order, q)
  BY <1>3, <1>4, InconclusiveOK
<1>6. Staged(q) /\ q.step # "capture"
  BY <1>5, StagedWhere
<1>7. Holds(order)
  BY <1>1 DEF Staged, Ground, OrderState, Holds
<1>8. q.halted = order.halted
  BY <1>3, <1>7, SettleSame DEF Same
<1>9. ~q.halted /\ ~lost' => Full(q)
  BY <1>1, <1>5, <1>8, FullAlike DEF OInv
<1> QED BY <1>1, <1>2, <1>6, <1>9, StepTo DEF OInv

\* A run that is not started tells nothing.
LEMMA RunNothingOK ==
  ASSUME OInv, RunNothing
  PROVE  OInv'
<1> DEFINE o == [order EXCEPT !.halted = TRUE]
<1>1. /\ Staged(order) /\ Starting(order) /\ order.step \in {"runs", "bisect"} /\ order \in OrderState
      /\ UNCHANGED <<slot, cancelled, lost, active, world>> /\ slot # "mine"
  BY DEF OInv, RunNothing, Starting, Staged, Ground
<1>2. /\ o \in OrderState /\ Alike(order, o) /\ o.step = order.step /\ o.halted = TRUE /\ o.probes = order.probes
      /\ o.victims = order.victims /\ o.verdict = order.verdict /\ o.phase = order.phase /\ o.hints = order.hints
      /\ o.remaining = order.remaining
  BY <1>1, ZenonT(40) DEF OrderState, Alike
<1>3. order' = Take(o, NoRows)
  BY DEF RunNothing
<1> HIDE DEF o
<1>4. Staged(o)
  BY <1>1, <1>2, HaltOK
<1>5. Starting(o)
  BY <1>1, <1>2 DEF Starting, Capped
<1>6. PICK q : q = order'
  OBVIOUS
<1>7. q = Take(o, NoRows)
  BY <1>3, <1>6
<1>8. Staged(q) /\ q.step # "capture"
  BY <1>4, <1>5, <1>7, NoRowsTell, TakeOK
<1>9. Holds(o)
  BY <1>4 DEF Staged, Ground, OrderState, Holds
<1>10. q.halted = TRUE
  BY <1>2, <1>7, <1>9, TakeSame DEF Same
<1> QED BY <1>1, <1>6, <1>8, <1>10, StepTo DEF OInv

\* A run that is started, whatever becomes of it.
LEMMA InitializeOK ==
  ASSUME OInv, Initialize
  PROVE  OInv'
<1>1. /\ Staged(order) /\ Starting(order) /\ order.step \in {"runs", "bisect"} /\ order \in OrderState
      /\ UNCHANGED <<slot, cancelled, world>> /\ slot # "mine" /\ ~order.halted
  BY DEF OInv, Initialize, Starting, Staged, Ground
<1> DEFINE told(rows, fault, m) == CASE fault = "none" -> rows
                                     [] fault \in {"lost row", "abort"} -> Without(rows, {m})
                                     [] fault = "throw" -> NoRows
<1>2. PICK rows \in Reports(NextPlan(order)), fault \in Faults \cup {"none"}, m \in ToSet(NextPlan(order)) :
        /\ fault = "lost row" => ~lost
        /\ order' = Take([order EXCEPT !.initializes = @ + 1, !.halted = Halts(fault)], told(rows, fault, m))
        /\ lost' = (lost \/ fault = "lost row")
        /\ active' = (fault \in {"abort", "throw"})
  BY Zenon DEF Initialize
<1>3. fault \in {"lost row", "abort", "throw", "none"}
  BY OrderAssumption
<1> DEFINE o == [order EXCEPT !.initializes = @ + 1, !.halted = Halts(fault)]
           n == order.initializes + 1
           t == told(rows, fault, m)
<1>4. order.initializes \in Nat
  BY <1>1 DEF OrderState
<1>5. n \in Nat /\ Halts(fault) \in BOOLEAN
  BY <1>4 DEF Halts
<1> DEFINE halt == Halts(fault)
<1>6. o = [order EXCEPT !.initializes = n, !.halted = halt]
  BY <1>1 DEF OrderState
<1>7. order' = Take(o, t)
  BY <1>2
<1>8. NextPlan(order) \in Plan
  BY <1>1, NextPlanOK
<1>9. Tells(NextPlan(order), t) /\ (fault = "none" => Whole(NextPlan(order), t))
  <2>1. Tells(NextPlan(order), rows) /\ Whole(NextPlan(order), rows)
    BY <1>8, ReportsTell
  <2>2. CASE fault = "none"
    BY <2>1, <2>2
  <2>3. CASE fault \in {"lost row", "abort"}
    <3>1. t = Without(rows, {m}) /\ fault # "none"
      BY <2>3
    <3> HIDE DEF t
    <3> QED BY <2>1, <3>1, LessTells
  <2>4. CASE fault = "throw"
    <3>1. t = NoRows /\ fault # "none"
      BY <2>4
    <3> HIDE DEF t
    <3> QED BY <3>1, NoRowsTell
  <2> QED BY <1>3, <2>2, <2>3, <2>4
<1> HIDE DEF o, n, t, told
<1>20. /\ o \in OrderState /\ Alike(order, o) /\ o.step = order.step /\ o.halted = halt /\ o.probes = order.probes
       /\ o.victims = order.victims /\ o.verdict = order.verdict /\ o.phase = order.phase /\ o.hints = order.hints
       /\ o.remaining = order.remaining
  <2>1. halt \in BOOLEAN
    BY <1>5
  <2> HIDE DEF halt
  <2> QED BY <1>1, <1>5, <1>6, <2>1, ZenonT(40) DEF OrderState, Alike
<1>10. /\ Staged(o) /\ NextPlan(o) = NextPlan(order)
       /\ Full(order) => Full(o)
  BY <1>1, <1>20, HaltOK
<1>11. Starting(o)
  BY <1>1, <1>20 DEF Starting, Capped
<1>12. PICK q : q = order'
  OBVIOUS
<1>13. q = Take(o, t)
  BY <1>7, <1>12
<1>14. /\ Staged(q) /\ q.step # "capture"
       /\ Full(o) /\ Whole(NextPlan(o), t) => Full(q)
  BY <1>9, <1>10, <1>11, <1>13, TakeOK
<1>15. Holds(o)
  BY <1>10 DEF Staged, Ground, OrderState, Holds
<1>16. q.halted = Halts(fault)
  BY <1>13, <1>15, <1>20, TakeSame DEF Same
<1>17. ~q.halted /\ ~lost' => Full(q)
  <2> SUFFICES ASSUME ~q.halted, ~lost' PROVE Full(q)
    OBVIOUS
  <2>1. fault = "none" /\ ~lost
    BY <1>2, <1>3, <1>16 DEF Halts
  <2>2. Full(order)
    BY <1>1, <2>1 DEF OInv
  <2> QED BY <1>9, <1>10, <1>14, <2>1, <2>2
<1>18. lost' \in BOOLEAN /\ active' \in BOOLEAN
  <2>1. active' \in BOOLEAN
    <3>1. active' = (fault \in {"abort", "throw"})
      BY <1>2
    <3> QED BY <3>1
  <2>2. CASE fault = "lost row"
    BY <1>2, <2>1, <2>2
  <2>3. CASE fault # "lost row"
    BY <1>2, <2>1, <2>3 DEF OInv
  <2> QED BY <2>2, <2>3
<1> QED BY <1>1, <1>12, <1>14, <1>17, <1>18, StepTo DEF OInv

\* The suspects are methods.
LEMMA SuspectsIn ==
  ASSUME NEW o \in OrderState
  PROVE  Suspects(o) \subseteq Method
<1>1. ASSUME NEW m \in Method
      PROVE  ToSet(o.verdict[m].remaining) \subseteq Method
  <2>1. o.verdict[m] \in Verdict
    BY DEF OrderState
  <2>2. o.verdict[m].remaining \in Seq(Method)
    BY <2>1 DEF Verdict, Plan
  <2> QED BY <2>2, InList
<1> QED BY <1>1 DEF Suspects

\* The end of an order: what it has seen and found stays.
LEMMA EndOK ==
  ASSUME NEW o, Ground(o), o.todo = <<>>, \A m \in ToSet(o.selection) : Classify(o, m) = "odVictim" => o.verdict[m].outcome # "none",
         NEW q \in OrderState, q.step \in {"capture", "over"},
         q.selection = o.selection, q.predicted = o.predicted, q.todo = o.todo, q.isolation = o.isolation,
         q.runs = o.runs, q.verdict = o.verdict, q.complete => Unresolved(o) = {}
  PROVE  Staged(q) /\ (Full(o) => Full(q))
<1>2. RunsHonest(q) /\ AloneHonest(q) /\ TodoOrderly(q) /\ Foretold(q)
  BY DEF Ground, RunsHonest, AloneHonest, TodoOrderly, Foretold
<1>3. Ground(q)
  BY <1>2 DEF Ground
<1>4. \A m : Classify(q, m) = Classify(o, m)
  BY ClassifySame
<1>5. Unresolved(q) = Unresolved(o)
  BY DEF Unresolved
<1>6. Closed(q)
  BY <1>4, <1>5 DEF Closed
<1>7. Staged(q)
  BY <1>3, <1>6 DEF Staged
<1>8. Full(o) => Full(q)
  BY DEF Full
<1> QED BY <1>7, <1>8

\* The end of the bisection.
LEMMA DoneOK ==
  ASSUME OInv, Done
  PROVE  OInv'
<1>1. /\ Ground(order) /\ order.todo = <<>> /\ order.step = "done" /\ order \in OrderState
      /\ \A m \in ToSet(order.selection) : Classify(order, m) = "odVictim" => order.verdict[m].outcome # "none"
  <2>1. Bisected(order) /\ order.step = "done"
    BY DEF OInv, Done, Staged
  <2> QED BY <2>1, EmptyOrderly DEF Bisected, Waiting, Ground
<1>2. UNCHANGED <<cancelled, lost, active, world>> /\ slot # "mine"
  BY <1>1 DEF OInv, Done
<1> DEFINE c == Complete(order)
<1>3. c \in BOOLEAN /\ (c => Unresolved(order) = {})
  BY DEF Complete
<1> HIDE DEF c
<1>4. PICK q : q = order'
  OBVIOUS
<1>5. \/ q = [[order EXCEPT !.complete = c, !.step = "over"] EXCEPT !.complete = FALSE] /\ UNCHANGED slot
      \/ q = [order EXCEPT !.complete = c, !.step = "over"] /\ UNCHANGED slot
      \/ /\ q = [[order EXCEPT !.complete = c, !.step = "over"] EXCEPT !.step = "capture", !.initializes = @ + 1]
         /\ slot' = "mine"
  BY <1>4 DEF Done, c
<1>6. /\ q \in OrderState /\ q.selection = order.selection /\ q.predicted = order.predicted /\ q.todo = order.todo
      /\ q.isolation = order.isolation /\ q.runs = order.runs /\ q.verdict = order.verdict /\ q.halted = order.halted
      /\ q.complete = FALSE \/ q.complete = c
      /\ (q.step = "over" /\ UNCHANGED slot) \/ (q.step = "capture" /\ slot' = "mine")
  <2>1. CASE q = [[order EXCEPT !.complete = c, !.step = "over"] EXCEPT !.complete = FALSE] /\ UNCHANGED slot
    <3>1. q = [order EXCEPT !.complete = FALSE, !.step = "over"]
      BY <1>1, <2>1 DEF OrderState
    <3> QED BY <1>1, <2>1, <3>1, ZenonT(40) DEF OrderState
  <2>2. CASE q = [order EXCEPT !.complete = c, !.step = "over"] /\ UNCHANGED slot
    BY <1>1, <1>3, <2>2, ZenonT(40) DEF OrderState
  <2>3. CASE /\ q = [[order EXCEPT !.complete = c, !.step = "over"] EXCEPT !.step = "capture", !.initializes = @ + 1]
             /\ slot' = "mine"
    <3>1. order.initializes \in Nat /\ order.initializes + 1 \in Nat
      BY <1>1 DEF OrderState
    <3>2. q = [order EXCEPT !.complete = c, !.step = "capture", !.initializes = order.initializes + 1]
      BY <1>1, <2>3 DEF OrderState
    <3> QED BY <1>1, <1>3, <2>3, <3>1, <3>2, ZenonT(40) DEF OrderState
  <2> QED BY <1>5, <2>1, <2>2, <2>3
<1>7. Staged(q) /\ (Full(order) => Full(q))
  <2>1. q.step \in {"capture", "over"} /\ (q.complete => Unresolved(order) = {})
    BY <1>3, <1>6
  <2> QED BY <1>1, <1>6, <2>1, EndOK
<1>8. ~q.halted /\ ~lost' => Full(q)
  BY <1>2, <1>6, <1>7 DEF OInv
<1>9. slot' \in {"free", "busy", "mine"} /\ (slot' = "mine" <=> q.step = "capture")
  BY <1>2, <1>6 DEF OInv
<1> QED BY <1>2, <1>4, <1>7, <1>8, <1>9, StepTo DEF OInv

\* The end of the capture.
LEMMA CaptureEndsOK ==
  ASSUME OInv, CaptureEnds
  PROVE  OInv'
<1>1. /\ Ground(order) /\ order.todo = <<>> /\ order.step = "capture" /\ order \in OrderState
      /\ \A m \in ToSet(order.selection) : Classify(order, m) = "odVictim" => order.verdict[m].outcome # "none"
      /\ order.complete => Unresolved(order) = {}
  BY DEF OInv, CaptureEnds, Staged, Closed, Ground
<1>2. UNCHANGED <<cancelled, lost, active, world>> /\ slot' = "free"
  BY DEF CaptureEnds
<1>3. PICK q : q = order'
  OBVIOUS
<1>4. \/ q = [order EXCEPT !.step = "over", !.complete = FALSE]
      \/ \E seen : \E complete \in BOOLEAN :
           q = [order EXCEPT !.step = "over", !.complete = @ /\ complete, !.evidence = Evidence(order, seen, complete)]
  BY <1>3 DEF CaptureEnds
<1> DEFINE IsOver ==
       /\ q \in OrderState /\ q.step = "over" /\ q.selection = order.selection /\ q.predicted = order.predicted /\ q.todo = order.todo
       /\ q.isolation = order.isolation /\ q.runs = order.runs /\ q.verdict = order.verdict /\ q.halted = order.halted
       /\ q.complete => order.complete
<1>5. IsOver
  <2>1. CASE q = [order EXCEPT !.step = "over", !.complete = FALSE]
    BY <1>1, <2>1, ZenonT(40) DEF OrderState
  <2>2. ASSUME NEW seen, NEW complete \in BOOLEAN,
               q = [order EXCEPT !.step = "over", !.complete = @ /\ complete, !.evidence = Evidence(order, seen, complete)]
        PROVE  IsOver
    <3> DEFINE e == Evidence(order, seen, complete)
               c == order.complete /\ complete
    <3>1. e \in SUBSET (Method \X {"writeObserved", "noWriteObserved", "unknown"})
      BY <1>1, SuspectsIn DEF Evidence
    <3>2. order.complete \in BOOLEAN
      BY <1>1 DEF OrderState
    <3>3. c \in BOOLEAN /\ (c => order.complete)
      OBVIOUS
    <3>4. q = [order EXCEPT !.step = "over", !.complete = c, !.evidence = e]
      BY <1>1, <2>2 DEF OrderState
    <3> HIDE DEF c, e
    <3> QED BY <1>1, <3>1, <3>3, <3>4, ZenonT(40) DEF OrderState
  <2> QED BY <1>4, <2>1, <2>2
<1>6. Staged(q) /\ (Full(order) => Full(q))
  BY <1>1, <1>5, EndOK
<1>7. ~q.halted /\ ~lost' => Full(q)
  BY <1>2, <1>5, <1>6 DEF OInv
<1> QED BY <1>2, <1>3, <1>5, <1>6, <1>7, StepTo DEF OInv

\* Steps that leave the order alone.
LEMMA AsideOK ==
  ASSUME OInv, UNCHANGED <<order, lost, world>>, cancelled' \in BOOLEAN, active' \in BOOLEAN,
         slot' \in {"free", "busy", "mine"}, slot' = "mine" <=> order.step = "capture"
  PROVE  OInv'
<1>1. PICK q : q = order'
  OBVIOUS
<1>2. q = order
  BY <1>1
<1>3. Staged(q) /\ (~q.halted /\ ~lost' => Full(q)) /\ lost' \in BOOLEAN /\ (slot' = "mine" <=> q.step = "capture")
  BY <1>2 DEF OInv
<1> QED BY <1>1, <1>3, StepTo

LEMMA OrderKeeps ==
  ASSUME OInv, OrderNext
  PROVE  OInv'
<1>1. CASE Cancel
  BY <1>1, AsideOK DEF OInv, Cancel
<1>2. CASE SlotTaken
  <2>1. slot' \in {"free", "busy"} /\ order.step # "capture" /\ UNCHANGED <<order, cancelled, lost, active, world>>
    BY <1>2 DEF SlotTaken
  <2> QED BY <2>1, AsideOK DEF OInv
<1> QED BY <1>1, <1>2, BeginOK, ProbeCapOK, RunNothingOK, InitializeOK, DoneOK, CaptureEndsOK DEF OrderNext, OrderStep

LEMMA OrderStarts == OrderInit => OInv
<1> SUFFICES ASSUME OrderInit PROVE OInv
  OBVIOUS
<1>1. world \in World
  BY WorldsAssumption DEF OrderInit
<1>2. /\ order.step = "idle" /\ order.selection = <<>> /\ order.todo = <<>> /\ order.runs = <<>> /\ order.predicted = {}
      /\ order.isolation = NoRows /\ order.complete = FALSE /\ order.verdict = [m \in Method |-> NoVerdict]
  BY DEF OrderInit
<1>3. order \in OrderState
  <2>1. NoVerdict \in Verdict
    BY DEF NoVerdict, Verdict, Outcomes, Plan
  <2>2. NoRows \in [Method -> Statuses]
    BY DEF NoRows, Statuses
  <2>3. 0 \in 0..MaxProbes
    <3>1. MaxProbes \in Nat
      BY OrderAssumption
    <3> QED BY <3>1
  <2> QED BY <2>1, <2>2, <2>3 DEF OrderInit, OrderState, Plan
<1>4. DOMAIN order.runs = {} /\ DOMAIN order.todo = {}
  BY <1>2
<1>5. RunsHonest(order) /\ TodoOrderly(order) /\ Foretold(order)
  BY <1>2, <1>4 DEF RunsHonest, TodoOrderly, Foretold
<1>6. AloneHonest(order)
  BY <1>2 DEF AloneHonest, NoRows
<1>7. \A v \in Method : Blame(order.verdict[v], v)
  BY <1>2 DEF NoVerdict, Blame
<1>8. Ground(order)
  BY <1>1, <1>2, <1>3, <1>5, <1>6, <1>7, EmptyOrderly DEF Ground
<1>9. Staged(order)
  BY <1>2, <1>8 DEF Staged
<1>10. Full(order)
  BY <1>2, <1>4, EmptyOrderly DEF Full
<1> QED BY <1>2, <1>9, <1>10 DEF OInv, OrderInit

LEMMA OrderInvariant == Spec => []OInv
<1>1. Init => OInv
  BY OrderStarts DEF Init
<1>2. OInv /\ [Next]_vars => OInv'
  <2> SUFFICES ASSUME OInv, [Next]_vars PROVE OInv'
    OBVIOUS
  <2>1. CASE mode = "order" /\ OrderNext /\ UNCHANGED <<mode, repeat>>
    BY <2>1, OrderKeeps
  <2>2. CASE BeginRepeat \/ Notice \/ UNCHANGED vars
    <3>1. UNCHANGED orderVars
      BY <2>2 DEF BeginRepeat, Notice, vars
    <3> QED BY <3>1, AsideOK DEF orderVars, OInv
  <2>3. CASE Attempt
    <3>1. active' \in BOOLEAN /\ UNCHANGED <<order, slot, cancelled, lost, world>>
      BY <2>3 DEF Attempt
    <3> QED BY <3>1, AsideOK DEF OInv
  <2>4. CASE CancelRepeat
    BY <2>4, AsideOK DEF OInv, CancelRepeat
  <2> QED BY <2>1, <2>2, <2>3, <2>4 DEF Next
<1> QED BY <1>1, <1>2, PTL DEF Spec

-----------------------------------------------------------------------------
(* Order: what the invariant means                                           *)

\* What is seen of a steady method after some predecessors is how it fares after them.
LEMMA SteadySeen ==
  ASSUME NEW o, Ground(o), NEW v \in Method, Steady(v), NEW prefix, NEW status \in SeenAfter(o, v, prefix), status # "none"
  PROVE  status = "failed" <=> Fails(ToSet(prefix), v)
<1>1. CASE \E i \in Observed(o, v) : Prefix(o.runs[i].plan, v) = prefix /\ status = o.runs[i].rows[v]
  <2>1. PICK i \in Observed(o, v) : Prefix(o.runs[i].plan, v) = prefix /\ status = o.runs[i].rows[v]
    BY <1>1
  <2>2. Orderly(o.runs[i].plan) /\ Tells(o.runs[i].plan, o.runs[i].rows)
    BY <2>1 DEF Observed, Ground, RunsHonest
  <2>3. v \in ToSet(o.runs[i].plan) /\ (status = "failed" <=> Fails(Before(o.runs[i].plan, v), v))
    BY <2>1, <2>2 DEF Tells
  <2>4. ToSet(prefix) = Before(o.runs[i].plan, v)
    BY <2>1, <2>2, <2>3, PrefixOK
  <2> QED BY <2>3, <2>4
<1>2. CASE prefix = <<>> /\ status = o.isolation[v]
  <2>1. ToSet(prefix) = {}
    BY <1>2, EmptyOrderly
  <2> QED BY <1>2, <2>1 DEF Ground, AloneHonest
<1> QED BY <1>1, <1>2 DEF SeenAfter

\* A steady method that passes alone and fails in a run is a victim.
LEMMA SteadyVictim ==
  ASSUME NEW o, Ground(o), NEW v \in Method, Steady(v), o.isolation[v] = "passed",
         NEW i \in DOMAIN o.runs, o.runs[i].rows[v] = "failed"
  PROVE  Classify(o, v) = "odVictim"
<1> DEFINE seen == {o.runs[j].rows[v] : j \in Observed(o, v)}
           alone == o.isolation[v]
           after == {<<>>} \cup {Prefix(o.runs[j].plan, v) : j \in Observed(o, v)}
           flaky == \E prefix \in after : {"passed", "failed"} \subseteq SeenAfter(o, v, prefix)
<1>1. ~flaky
  <2> SUFFICES ASSUME NEW prefix, {"passed", "failed"} \subseteq SeenAfter(o, v, prefix) PROVE FALSE
    OBVIOUS
  <2>1. "passed" \in SeenAfter(o, v, prefix) /\ "failed" \in SeenAfter(o, v, prefix)
    OBVIOUS
  <2>2. Fails(ToSet(prefix), v)
    BY <2>1, SteadySeen
  <2>3. ~Fails(ToSet(prefix), v)
    BY <2>1, SteadySeen
  <2> QED BY <2>2, <2>3
<1>2. "failed" \in seen /\ alone = "passed"
  BY DEF Observed
<1>3. Classify(o, v) = CASE flaky -> "flakyInSameOrder"
                         [] OTHER ->
                       CASE seen \cup ({alone} \ {"none"}) = {}             -> "incomplete"
                         [] alone = "passed" /\ "failed" \in seen           -> "odVictim"
                         [] alone = "failed" /\ "passed" \in seen           -> "odBrittle"
                         [] alone = "none" /\ {"passed", "failed"} \subseteq seen -> "orderDependent"
                         [] OTHER -> IF "failed" \in seen \cup {alone} THEN "consistentFail" ELSE "consistentPass"
  BY DEF Classify
<1> HIDE DEF flaky, seen, alone
<1>4. seen \cup ({alone} \ {"none"}) # {}
  BY <1>2
<1> QED BY <1>1, <1>2, <1>3, <1>4

\* What passes consistently failed nowhere.
LEMMA NowhereFailed ==
  ASSUME NEW o, NEW v, Classify(o, v) = "consistentPass", NEW i \in DOMAIN o.runs
  PROVE  o.runs[i].rows[v] # "failed"
<1> DEFINE seen == {o.runs[j].rows[v] : j \in Observed(o, v)}
<1>1. "failed" \notin seen
  BY DEF Classify
<1>2. o.runs[i].rows[v] = "failed" => i \in Observed(o, v)
  BY DEF Observed
<1> QED BY <1>1, <1>2

\* What the invariant says of the verdicts.
LEMMA BlameIsSound == OInv => BlameSound
<1> SUFFICES ASSUME OInv PROVE BlameSound
  OBVIOUS
<1>1. Ground(order) /\ order \in OrderState
  BY DEF OInv, Staged, Ground
<1>2. OrderTypeOK
  BY <1>1 DEF OInv, OrderTypeOK
<1>3. PlansRunAsPlanned
  <2> SUFFICES ASSUME Starting(order), NEW m \in ToSet(NextPlan(order))
               PROVE  Before(NextPlan(order), m) = {p \in ToSet(NextPlan(order)) : IsBefore(NextPlan(order), p, m)}
    BY DEF PlansRunAsPlanned
  <2>1. Orderly(NextPlan(order))
    BY NextPlanOK DEF OInv
  <2> QED BY <2>1, RunsAsListed
<1>4. PolluterNamed
  BY <1>1 DEF PolluterNamed, Ground, Blame, Sole
<1> QED BY <1>2, <1>3, <1>4 DEF BlameSound

\* What the invariant says of what was seen.
LEMMA NoneMissed == OInv => NoVictimMissed
<1> SUFFICES ASSUME OInv, order.step = "over", ~lost, ~order.halted
             PROVE  /\ order.complete =>
                         \A i \in DOMAIN order.runs, v \in {m \in ToSet(order.selection) : Steady(m)} :
                           Fails(Before(order.runs[i].plan, v), v) /\ ~Fails({}, v) => order.verdict[v].outcome = "found"
                    /\ \A pair \in order.predicted :
                         Explained(order, pair[1], pair[2]) = "refuted" /\ Steady(pair[2]) =>
                           \/ <<pair[1], pair[2], "passed">> \in order.hinted
                           \/ \E i \in DOMAIN order.runs :
                                pair[1] \in ToSet(Prefix(order.runs[i].plan, pair[2])) /\ order.runs[i].rows[pair[2]] = "passed"
  BY DEF NoVictimMissed
<1>1. Ground(order) /\ order \in OrderState /\ Closed(order) /\ Full(order)
  BY DEF OInv, Staged, Ground
<1>2. ToSet(order.selection) \subseteq Method
  BY <1>1, InList DEF Ground, Orderly
<1>3. ASSUME NEW i \in DOMAIN order.runs, NEW v \in ToSet(order.selection)
      PROVE  /\ v \in ToSet(order.runs[i].plan) /\ order.runs[i].rows[v] \in {"passed", "failed"} /\ Orderly(order.runs[i].plan)
             /\ Steady(v) => (order.runs[i].rows[v] = "failed" <=> Fails(Before(order.runs[i].plan, v), v))
  <2>1. /\ Orderly(order.runs[i].plan) /\ ToSet(order.runs[i].plan) = ToSet(order.selection)
        /\ Tells(order.runs[i].plan, order.runs[i].rows)
    BY <1>1 DEF Ground, RunsHonest
  <2>2. order.runs[i].rows[v] # "none"
    BY <1>1, <2>1 DEF Full, Whole
  <2> QED BY <1>2, <2>1, <2>2 DEF Tells, Statuses
<1>4. ASSUME order.complete, NEW i \in DOMAIN order.runs, NEW v \in ToSet(order.selection), Steady(v),
             Fails(Before(order.runs[i].plan, v), v), ~Fails({}, v)
      PROVE  order.verdict[v].outcome = "found"
  <2>1. order.runs[i].rows[v] = "failed"
    BY <1>3, <1>4
  <2>2. order.isolation[v] # "none"
    <3>1. DOMAIN order.todo = {}
      BY <1>1 DEF Closed
    <3> QED BY <1>1, <3>1 DEF Full
  <2>3. order.isolation[v] = "passed"
    <3>1. order.isolation[v] \in Statuses
      BY <1>1, <1>2 DEF OrderState
    <3>2. order.isolation[v] # "failed"
      BY <1>1, <1>2, <1>4, <2>2 DEF Ground, AloneHonest
    <3> QED BY <2>2, <3>1, <3>2 DEF Statuses
  <2>4. Classify(order, v) = "odVictim"
    BY <1>1, <1>2, <1>4, <2>1, <2>3, SteadyVictim
  <2>5. order.verdict[v].outcome # "none" /\ Unresolved(order) = {}
    BY <1>1, <1>4, <2>4 DEF Closed
  <2>6. order.verdict[v].outcome \in {"none", "found"}
    BY <1>2, <2>5 DEF Unresolved
  <2> QED BY <2>5, <2>6
<1>5. ASSUME NEW pair \in order.predicted, Explained(order, pair[1], pair[2]) = "refuted", Steady(pair[2]),
             <<pair[1], pair[2], "passed">> \notin order.hinted
      PROVE  \E i \in DOMAIN order.runs :
               pair[1] \in ToSet(Prefix(order.runs[i].plan, pair[2])) /\ order.runs[i].rows[pair[2]] = "passed"
  <2> DEFINE p == pair[1]
             v == pair[2]
  <2>1. Classify(order, v) = "consistentPass"
    BY <1>5 DEF Explained
  <2>2. SameGroup(p, v) /\ p \in ToSet(order.selection) /\ v \in ToSet(order.selection) /\ IsBefore(Declared, p, v)
    BY <1>1 DEF Ground, Foretold
  <2> HIDE DEF p, v
  <2>3. order.selection # <<>>
    BY <2>2, EmptyOrderly
  <2>4. order.runs # <<>>
    <3>1. DOMAIN order.todo = {}
      BY <1>1 DEF Closed
    <3> QED BY <1>1, <2>3, <3>1 DEF Full
  <2>5. PICK i : i \in DOMAIN order.runs
    <3>1. order.runs \in Seq(ARun)
      BY <1>1 DEF OrderState, ARun
    <3>2. Len(order.runs) \in Nat \ {0} /\ DOMAIN order.runs = 1..Len(order.runs)
      BY <2>4, <3>1, EmptySeq, LenProperties
    <3>3. 1 \in DOMAIN order.runs
      BY <3>2
    <3> QED BY <3>3
  <2>6. order.runs[i].rows[v] = "passed"
    BY <1>3, <2>1, <2>2, <2>5, NowhereFailed
  <2>7. p \in Before(order.runs[i].plan, v)
    <3>1. ToSet(order.runs[i].plan) = ToSet(order.selection)
      BY <1>1, <2>5 DEF Ground, RunsHonest
    <3> QED BY <2>2, <3>1 DEF Before
  <2>8. p \in ToSet(Prefix(order.runs[i].plan, v))
    BY <1>3, <2>2, <2>5, <2>7, PrefixOK
  <2> QED BY <2>5, <2>6, <2>8 DEF p, v
<1> QED BY <1>4, <1>5

(* For any methods, dependencies, requests, orders and faults: every plan runs
   as it was listed, a polluter named by the bisection fails its victim alone,
   and a victim with one polluter is never called compound or not reproduced. *)
THEOREM BlameTrusted == Spec => []BlameSound
BY OrderInvariant, BlameIsSound, PTL

(* For any methods, dependencies, requests, orders and faults: a complete order
   has traced every steady method that fails after others and passes alone, and
   has seen what it calls a prediction refuted for. *)
THEOREM NoVictimMissedEver == Spec => []NoVictimMissed
BY OrderInvariant, NoneMissed, PTL

-----------------------------------------------------------------------------
(* Repeat: types                                                             *)

RepeatTyping ==
  /\ mode \in {"order", "repeat"}
  /\ repeat \in [step : {"idle", "run", "over"}, request : Requests \cup {<<>>}, requested : 0..MaxRuns,
                 runs : Seq(RepeatRun), noticed : BOOLEAN]

\* Nothing is run once a run may still be active, nor once the cancellation was seen.
Quiet ==
  /\ Holds(order)
  /\ mode = "order" => /\ repeat.step = "idle"
                       /\ order.step = "idle" => ~active
                       /\ order.step \in {"runs", "bisect"} /\ active => order.halted
  /\ mode = "repeat" /\ repeat.step \in {"idle", "run"} => ~active /\ ~repeat.noticed

\* What a run may report has a list of rows for every method.
LEMMA AttemptsTyped ==
  ASSUME NEW request, NEW rows \in Attempts(request)
  PROVE  rows \in [Method -> Seq(Concrete)]
<1> DEFINE passed == [m \in Method |-> IF m \in Covered(request) THEN <<"passed">> ELSE <<>>]
<1>1. <<"passed">> \in Seq(Concrete) /\ <<>> \in Seq(Concrete)
  BY DEF Concrete
<1>2. passed \in [Method -> Seq(Concrete)]
  BY <1>1
<1>3. OddRows \subseteq Seq(Concrete)
  BY RepeatAssumption DEF Concrete
<1>4. rows = passed \/ \E odd \in Covered(request), own \in OddRows : rows = [passed EXCEPT ![odd] = own]
  BY DEF Attempts
<1> HIDE DEF passed
<1> QED BY <1>2, <1>3, <1>4

LEMMA AfterAttemptTyped ==
  ASSUME RepeatTyping, repeat.step = "run", ~repeat.noticed, NEW run \in RepeatRun
  PROVE  LET r == AfterAttempt([repeat EXCEPT !.runs = Append(@, run)]) IN
         /\ r \in [step : {"idle", "run", "over"}, request : Requests \cup {<<>>}, requested : 0..MaxRuns,
                   runs : Seq(RepeatRun), noticed : BOOLEAN]
         /\ r.step \in {"run", "over"} /\ (r.step = "run" => ~run.aborted /\ ~r.noticed)
<1> DEFINE s == [repeat EXCEPT !.runs = Append(@, run)]
<1> DEFINE T == [step : {"idle", "run", "over"}, request : Requests \cup {<<>>}, requested : 0..MaxRuns,
                 runs : Seq(RepeatRun), noticed : BOOLEAN]
<1>1. repeat \in T /\ repeat.runs \in Seq(RepeatRun)
  BY DEF RepeatTyping
<1>2. Append(repeat.runs, run) \in Seq(RepeatRun) /\ Append(repeat.runs, run)[Len(Append(repeat.runs, run))] = run
  BY <1>1, AppendProperties
<1>3. s \in T /\ s.step = "run" /\ ~s.noticed /\ s.runs[Len(s.runs)] = run
  BY <1>1, <1>2
<1> HIDE DEF s
<1>4. /\ [s EXCEPT !.step = "over"] \in T /\ [s EXCEPT !.step = "over"].step = "over"
      /\ [s EXCEPT !.step = "over", !.noticed = TRUE] \in T /\ [s EXCEPT !.step = "over", !.noticed = TRUE].step = "over"
  BY <1>3
<1>5. CASE s.runs[Len(s.runs)].aborted \/ Len(s.runs) = s.requested
  <2>1. AfterAttempt(s) = [s EXCEPT !.step = "over"]
    BY <1>5 DEF AfterAttempt
  <2> QED BY <1>4, <2>1 DEF s
<1>6. CASE ~(s.runs[Len(s.runs)].aborted \/ Len(s.runs) = s.requested)
  <2>1. AfterAttempt(s) = IF cancelled THEN [s EXCEPT !.step = "over", !.noticed = TRUE] ELSE s
    BY <1>6 DEF AfterAttempt
  <2> QED BY <1>3, <1>4, <1>6, <2>1 DEF s
<1> QED BY <1>5, <1>6

LEMMA RepeatStarts == Init => RepeatTyping /\ Quiet
<1> SUFFICES ASSUME Init PROVE RepeatTyping /\ Quiet
  OBVIOUS
<1>1. <<>> \in Seq(RepeatRun) /\ 0 \in 0..MaxRuns
  BY RepeatAssumption
<1>2. RepeatTyping
  BY <1>1 DEF Init, RepeatTyping
<1>3. Holds(order) /\ ~active
  BY DEF Init, OrderInit, Holds
<1> QED BY <1>2, <1>3 DEF Init, Quiet

\* A step of mode 'order' starts a run only if none may be active.
LEMMA OrderQuiet ==
  ASSUME Quiet, mode = "order", OrderNext
  PROVE  /\ Holds(order)' /\ (order'.step = "idle" => ~active')
         /\ order'.step \in {"runs", "bisect"} /\ active' => order'.halted
         /\ order.step \in {"runs", "bisect"} /\ (active \/ order.halted) => order'.initializes = order.initializes
<1> DEFINE Good ==
       /\ Holds(order)' /\ (order'.step = "idle" => ~active')
       /\ order'.step \in {"runs", "bisect"} /\ active' => order'.halted
       /\ order.step \in {"runs", "bisect"} /\ (active \/ order.halted) => order'.initializes = order.initializes
<1>1. Holds(order) /\ (order.step = "idle" => ~active) /\ (order.step \in {"runs", "bisect"} /\ active => order.halted)
  BY DEF Quiet
<1>2. CASE Begin
  <2>1. order.step = "idle" /\ UNCHANGED active /\ DOMAIN order' = DOMAIN order
    BY <1>1, <1>2 DEF Begin, Holds
  <2> QED BY <1>1, <2>1 DEF Holds
<1>3. CASE ProbeCap
  <2>1. Capped(order) /\ Same(order, order') /\ UNCHANGED active
    BY <1>1, <1>3, SettleSame DEF ProbeCap
  <2> QED BY <1>1, <2>1 DEF Holds, Same, Capped
<1>4. CASE RunNothing
  <2> DEFINE o == [order EXCEPT !.halted = TRUE]
  <2>1. Holds(o) /\ o.halted /\ o.initializes = order.initializes /\ o.step = order.step /\ DOMAIN o = DOMAIN order
    BY <1>1 DEF Holds
  <2>2. order' = Take(o, NoRows) /\ Starting(order) /\ UNCHANGED active
    BY <1>4 DEF RunNothing
  <2> HIDE DEF o
  <2>3. Same(o, order')
    BY <2>1, <2>2, TakeSame
  <2> QED BY <1>1, <2>1, <2>2, <2>3 DEF Holds, Same, Starting
<1>5. CASE Initialize
  <2>1. PICK fault, told :
          /\ order' = Take([order EXCEPT !.initializes = @ + 1, !.halted = Halts(fault)], told)
          /\ active' = (fault \in {"abort", "throw"})
    BY <1>5 DEF Initialize
  <2> DEFINE o == [order EXCEPT !.initializes = @ + 1, !.halted = Halts(fault)]
  <2>2. Holds(o) /\ o.halted = Halts(fault) /\ o.step = order.step /\ DOMAIN o = DOMAIN order
    BY <1>1 DEF Holds
  <2>3. order' = Take(o, told)
    BY <2>1
  <2> HIDE DEF o
  <2>4. Same(o, order')
    BY <2>2, <2>3, TakeSame
  <2>5. Starting(order) /\ ~order.halted
    BY <1>5 DEF Initialize
  <2>6. order.step \in {"runs", "bisect"} /\ ~active
    BY <1>1, <2>5 DEF Starting
  <2>7. order'.halted = Halts(fault)
    BY <2>2, <2>4 DEF Same
  <2>8. active' => order'.halted
    BY <2>1, <2>7, Zenon DEF Halts
  <2> QED BY <1>1, <2>2, <2>4, <2>5, <2>6, <2>8 DEF Holds, Same
<1>6. CASE Done
  <2>1. /\ order.step = "done" /\ UNCHANGED active /\ DOMAIN order' = DOMAIN order
        /\ order'.step \in {"over", "capture"}
    BY <1>1, <1>6 DEF Done, Holds
  <2> QED BY <1>1, <2>1 DEF Holds
<1>7. CASE CaptureEnds
  <2>1. /\ order.step = "capture" /\ UNCHANGED active /\ DOMAIN order' = DOMAIN order
        /\ order'.step = "over"
    BY <1>1, <1>7 DEF CaptureEnds, Holds
  <2> QED BY <1>1, <2>1 DEF Holds
<1>8. CASE Cancel \/ SlotTaken
  <2>1. UNCHANGED <<order, active>>
    BY <1>8 DEF Cancel, SlotTaken
  <2> QED BY <1>1, <2>1 DEF Holds
<1> QED BY <1>2, <1>3, <1>4, <1>5, <1>6, <1>7, <1>8 DEF OrderNext, OrderStep

LEMMA RepeatKeeps ==
  ASSUME RepeatTyping, Quiet, [Next]_vars
  PROVE  /\ RepeatTyping' /\ Quiet'
         /\ order.step \in {"runs", "bisect"} /\ (active \/ order.halted) => order'.initializes = order.initializes
         /\ repeat.step # "idle" /\ (active \/ repeat.noticed) => repeat'.runs = repeat.runs
<1> DEFINE Still ==
       /\ order.step \in {"runs", "bisect"} /\ (active \/ order.halted) => order'.initializes = order.initializes
       /\ repeat.step # "idle" /\ (active \/ repeat.noticed) => repeat'.runs = repeat.runs
<1> DEFINE T == [step : {"idle", "run", "over"}, request : Requests \cup {<<>>}, requested : 0..MaxRuns,
                 runs : Seq(RepeatRun), noticed : BOOLEAN]
<1>0. repeat \in T /\ mode \in {"order", "repeat"} /\ Holds(order)
  BY DEF RepeatTyping, Quiet
<1>1. CASE UNCHANGED vars
  BY <1>1 DEF vars, orderVars, RepeatTyping, Quiet, Holds
<1>2. CASE mode = "order" /\ OrderNext /\ UNCHANGED <<mode, repeat>>
  <2>1. /\ Holds(order)' /\ (order'.step = "idle" => ~active')
        /\ order'.step \in {"runs", "bisect"} /\ active' => order'.halted
        /\ order.step \in {"runs", "bisect"} /\ (active \/ order.halted) => order'.initializes = order.initializes
    BY <1>2, OrderQuiet
  <2>2. repeat.step = "idle"
    BY <1>2 DEF Quiet
  <2> QED BY <1>2, <2>1, <2>2 DEF RepeatTyping, Quiet
<1>3. CASE BeginRepeat
  <2>1. PICK request \in Requests, requested \in 2..MaxRuns, supported \in BOOLEAN :
          repeat' = [repeat EXCEPT !.step = IF supported THEN "run" ELSE "over", !.request = request, !.requested = requested]
    BY <1>3 DEF BeginRepeat
  <2>2. mode = "repeat" /\ repeat.step = "idle" /\ UNCHANGED <<order, active, mode>>
    BY <1>3 DEF BeginRepeat, orderVars
  <2>4. requested \in 0..MaxRuns
    BY RepeatAssumption
  <2>5. (IF supported THEN "run" ELSE "over") \in {"idle", "run", "over"}
    OBVIOUS
  <2>3. repeat' \in T /\ repeat'.noticed = repeat.noticed
    BY <1>0, <2>1, <2>4, <2>5
  <2> QED BY <1>0, <2>2, <2>3 DEF RepeatTyping, Quiet, Holds
<1>4. CASE Attempt
  <2>1. PICK rows, run :
          /\ rows \in Attempts(repeat.request)
          /\ run \in {[rows |-> [m \in Method |-> <<>>], aborted |-> TRUE], [rows |-> rows, aborted |-> TRUE], [rows |-> rows, aborted |-> FALSE]}
          /\ repeat' = AfterAttempt([repeat EXCEPT !.runs = Append(@, run)])
          /\ active' = run.aborted
    <3>1. PICK rows, fault :
            rows \in Attempts(repeat.request) /\
            LET run == IF fault = "throw" THEN [rows |-> [m \in Method |-> <<>>], aborted |-> TRUE]
                       ELSE [rows |-> rows, aborted |-> fault = "abort"]
            IN /\ repeat' = AfterAttempt([repeat EXCEPT !.runs = Append(@, run)])
               /\ active' = run.aborted
      BY <1>4 DEF Attempt
    <3>2. CASE fault = "throw"
      BY <3>1, <3>2
    <3>3. CASE fault # "throw" /\ fault = "abort"
      <4>1. (fault = "abort") = TRUE
        BY <3>3
      <4> QED BY <3>1, <3>3, <4>1
    <3>4. CASE fault # "throw" /\ fault # "abort"
      <4>1. (fault = "abort") = FALSE
        BY <3>4
      <4> QED BY <3>1, <3>4, <4>1
    <3> QED BY <3>2, <3>3, <3>4
  <2>2. run \in RepeatRun
    <3>1. rows \in [Method -> Seq(Concrete)]
      BY <2>1, AttemptsTyped
    <3>2. [m \in Method |-> <<>>] \in [Method -> Seq(Concrete)]
      BY DEF Concrete
    <3>3. /\ [rows |-> [m \in Method |-> <<>>], aborted |-> TRUE] \in RepeatRun
          /\ [rows |-> rows, aborted |-> TRUE] \in RepeatRun /\ [rows |-> rows, aborted |-> FALSE] \in RepeatRun
      BY <3>1, <3>2 DEF RepeatRun
    <3> QED BY <2>1, <3>3
  <2>3. repeat.step = "run" /\ UNCHANGED <<order, mode>>
    BY <1>4 DEF Attempt
  <2>4. mode = "repeat" /\ ~active /\ ~repeat.noticed
    BY <1>0, <2>3 DEF Quiet
  <2>5. repeat' \in T /\ repeat'.step \in {"run", "over"} /\ (repeat'.step = "run" => ~run.aborted /\ ~repeat'.noticed)
    BY <2>1, <2>2, <2>3, <2>4, AfterAttemptTyped
  <2>6. RepeatTyping'
    BY <1>0, <2>3, <2>5 DEF RepeatTyping
  <2>7. repeat'.step = "run" => ~active'
    BY <2>1, <2>5, Zenon
  <2>8. Quiet'
    BY <1>0, <2>3, <2>4, <2>5, <2>7 DEF Quiet, Holds
  <2> QED BY <2>3, <2>4, <2>6, <2>8
<1>5. CASE Notice
  <2>1. repeat.step = "run" /\ repeat' = [repeat EXCEPT !.step = "over", !.noticed = TRUE] /\ UNCHANGED <<order, active, mode>>
    BY <1>5 DEF Notice, orderVars
  <2>2. repeat' \in T /\ repeat'.step = "over" /\ repeat'.runs = repeat.runs
    BY <1>0, <2>1
  <2> QED BY <1>0, <2>1, <2>2 DEF RepeatTyping, Quiet, Holds
<1>6. CASE CancelRepeat
  BY <1>6 DEF CancelRepeat, RepeatTyping, Quiet, Holds
<1> QED BY <1>1, <1>2, <1>3, <1>4, <1>5, <1>6 DEF Next

LEMMA RepeatInvariant == Spec => [](RepeatTyping /\ Quiet)
<1>1. RepeatTyping /\ Quiet /\ [Next]_vars => (RepeatTyping /\ Quiet)'
  BY RepeatKeeps
<1> QED BY <1>1, RepeatStarts, PTL DEF Spec

-----------------------------------------------------------------------------
(* Repeat: the comparison                                                    *)

\* What is said of a method in an attempt that was made is its one row, if it has one.
LEMMA ObservationIs ==
  ASSUME RepeatTyping, NEW m \in Method, NEW i \in DOMAIN repeat.runs
  PROVE  /\ repeat.runs[i].rows[m] \in Seq(Concrete)
         /\ Observation(repeat, m, i) \in Concrete =>
              Len(repeat.runs[i].rows[m]) = 1 /\ repeat.runs[i].rows[m] = <<Observation(repeat, m, i)>>
         /\ Len(repeat.runs[i].rows[m]) = 1 =>
              Observation(repeat, m, i) \in Concrete /\ repeat.runs[i].rows[m] = <<Observation(repeat, m, i)>>
<1> DEFINE rows == repeat.runs[i].rows[m]
<1>1. repeat.runs \in Seq(RepeatRun) /\ i \in 1..Len(repeat.runs) /\ Len(repeat.runs) \in Nat
  BY LenProperties DEF RepeatTyping
<1>2. repeat.runs[i] \in RepeatRun
  BY <1>1, LenProperties
<1>3. rows \in Seq(Concrete) /\ Len(rows) \in Nat /\ (Len(rows) = 0 <=> rows = <<>>)
  BY <1>2, LenProperties, EmptySeq DEF RepeatRun
<1>4. Observation(repeat, m, i) = IF rows = <<>> THEN "missing" ELSE IF Len(rows) > 1 THEN "ambiguous" ELSE rows[1]
  BY <1>1 DEF Observation
<1> HIDE DEF rows
<1>5. Len(rows) = 1 => rows[1] \in Concrete /\ rows = <<rows[1]>>
  BY <1>3, LenProperties
<1>6. Observation(repeat, m, i) \in Concrete => Len(rows) = 1
  <2>1. "missing" \notin Concrete /\ "ambiguous" \notin Concrete
    BY DEF Concrete
  <2>2. CASE rows = <<>>
    BY <1>4, <2>1, <2>2
  <2>3. CASE rows # <<>> /\ Len(rows) > 1
    BY <1>4, <2>1, <2>3
  <2>4. CASE rows # <<>> /\ ~(Len(rows) > 1)
    <3>1. Len(rows) \in Nat /\ Len(rows) # 0
      BY <1>3, <2>4
    <3>2. ~(Len(rows) > 1)
      BY <2>4
    <3>3. \A n \in Nat : n # 0 /\ ~(n > 1) => n = 1
      OBVIOUS
    <3> QED BY <3>1, <3>2, <3>3
  <2> QED BY <2>2, <2>3, <2>4
<1>7. Len(rows) = 1 => Observation(repeat, m, i) = rows[1]
  BY <1>3, <1>4
<1> QED BY <1>3, <1>5, <1>6, <1>7 DEF rows

\* The methods the comparison is about.
LEMMA IdentitiesAre ==
  ASSUME RepeatTyping
  PROVE  /\ Identities(repeat) \subseteq Method
         /\ \A m \in Method, i \in DOMAIN repeat.runs : repeat.runs[i].rows[m] # <<>> => m \in Identities(repeat)
         /\ Named(repeat.request) \subseteq Identities(repeat)
<1>1. repeat.request \in Requests \cup {<<>>}
  BY DEF RepeatTyping
<1>2. Named(repeat.request) \subseteq Method
  <2>1. ASSUME NEW m \in Named(repeat.request)
        PROVE  m \in Method
    <3>1. PICK i \in DOMAIN repeat.request : m \in repeat.request[i].methods
      BY DEF Named
    <3>2. repeat.request # <<>>
      BY <3>1
    <3> QED BY <1>1, <3>1, <3>2, OrderAssumption
  <2> QED BY <2>1
<1> QED BY <1>2 DEF Identities

\* A stability is called by one status only if that is all there was.
LEMMA StabilityIs ==
  ASSUME NEW r, NEW m, Seen(r, m) \subseteq Concrete, "failed" \in Seen(r, m)
  PROVE  Stability(r, m) \in {"flaky", "inconsistent", "failed"}
<1>1. Concrete = {"passed", "failed", "skipped"}
  BY DEF Concrete
<1>2. IsFiniteSet(Concrete)
  <2>1. IsFiniteSet({"passed"})
    BY FS_Singleton
  <2>2. IsFiniteSet({"passed"} \cup {"failed"})
    BY <2>1, FS_AddElement
  <2>3. IsFiniteSet(({"passed"} \cup {"failed"}) \cup {"skipped"})
    BY <2>2, FS_AddElement
  <2>4. ({"passed"} \cup {"failed"}) \cup {"skipped"} = Concrete
    BY <1>1
  <2> QED BY <2>3, <2>4
<1>3. IsFiniteSet(Seen(r, m))
  BY <1>2, FS_Subset
<1>4. CASE {"passed", "failed"} \subseteq Seen(r, m)
  BY <1>4 DEF Stability
<1>5. CASE ~({"passed", "failed"} \subseteq Seen(r, m))
  <2>1. Seen(r, m) \cap {"missing", "ambiguous"} = {}
    BY <1>1
  <2>2. Stability(r, m) = IF Cardinality(Seen(r, m)) = 1 THEN CHOOSE s \in Concrete : s \in Seen(r, m) ELSE "inconsistent"
    BY <1>5, <2>1 DEF Stability
  <2>3. CASE Cardinality(Seen(r, m)) = 1
    <3>1. \E x : Seen(r, m) = {x}
      BY <1>3, <2>3, FS_Singleton
    <3>2. Seen(r, m) = {"failed"}
      BY <3>1
    <3>3. (CHOOSE s \in Concrete : s \in Seen(r, m)) = "failed"
      BY <1>1, <3>2
    <3> QED BY <2>2, <2>3, <3>3
  <2>4. CASE Cardinality(Seen(r, m)) # 1
    BY <2>2, <2>4
  <2> QED BY <2>3, <2>4
<1> QED BY <1>4, <1>5

LEMMA OutcomeRestsOnRuns == RepeatTyping => OutcomeRests
<1> SUFFICES ASSUME RepeatTyping, Outcome(repeat) # "incomplete", NEW i \in DOMAIN repeat.runs
             PROVE  /\ RepeatComplete(repeat)
                    /\ ~repeat.runs[i].aborted
                    /\ \A m \in Method : Len(repeat.runs[i].rows[m]) <= 1
                    /\ \A m \in Named(repeat.request) : Len(repeat.runs[i].rows[m]) = 1
                    /\ Outcome(repeat) = "passed" => \A m \in Method : ~OnlyRow(repeat, m, i, "failed")
  <2>1. ASSUME RepeatTyping, Outcome(repeat) # "incomplete"
        PROVE  RepeatComplete(repeat)
    BY <2>1 DEF Outcome
  <2> QED BY <2>1 DEF OutcomeRests, RepeatComplete
<1>1. RepeatComplete(repeat)
  BY DEF Outcome
<1>2. Len(repeat.runs) = repeat.requested /\ ~repeat.runs[i].aborted
  BY <1>1 DEF RepeatComplete
<1>3. i \in 1..repeat.requested
  BY <1>2, LenProperties DEF RepeatTyping
<1>4. \A m \in Identities(repeat) : Observation(repeat, m, i) \in Concrete /\ m \in Method
  BY <1>1, <1>3, IdentitiesAre DEF RepeatComplete, Seen
<1>5. \A m \in Identities(repeat) : Len(repeat.runs[i].rows[m]) = 1
  BY <1>4, ObservationIs
<1>6. \A m \in Method \ Identities(repeat) : repeat.runs[i].rows[m] = <<>>
  BY IdentitiesAre
<1>7. \A m \in Method : Len(repeat.runs[i].rows[m]) <= 1
  <2>1. Len(<<>>) = 0
    OBVIOUS
  <2>2. ASSUME NEW m \in Method
        PROVE  Len(repeat.runs[i].rows[m]) <= 1
    <3>1. CASE m \in Identities(repeat)
      <4>1. Len(repeat.runs[i].rows[m]) = 1
        BY <1>5, <3>1
      <4>2. 1 <= 1
        OBVIOUS
      <4> QED BY <4>1, <4>2
    <3>2. CASE m \notin Identities(repeat)
      <4>1. repeat.runs[i].rows[m] = <<>>
        BY <1>6, <3>2
      <4> QED BY <2>1, <4>1
    <3> QED BY <3>1, <3>2
  <2> QED BY <2>2
<1>8. ASSUME NEW m \in Method, OnlyRow(repeat, m, i, "failed")
      PROVE  Outcome(repeat) # "passed"
  <2>1. repeat.runs[i].rows[m] = <<"failed">>
    BY <1>8 DEF OnlyRow
  <2>2. repeat.runs[i].rows[m] # <<>> /\ m \in Identities(repeat)
    BY <2>1, IdentitiesAre
  <2>3. Observation(repeat, m, i) = "failed"
    BY <1>5, <2>1, <2>2, ObservationIs
  <2>4. "failed" \in Seen(repeat, m) /\ Seen(repeat, m) \subseteq Concrete
    BY <1>1, <1>3, <2>2, <2>3 DEF Seen, RepeatComplete
  <2>5. Stability(repeat, m) \in {"flaky", "inconsistent", "failed"}
    BY <2>4, StabilityIs
  <2> QED BY <1>1, <2>2, <2>5 DEF Outcome
<1> QED BY <1>1, <1>2, <1>5, <1>7, <1>8, IdentitiesAre

LEMMA DiffsAddUpInRuns == RepeatTyping => DiffsAddUp
<1> SUFFICES ASSUME RepeatTyping, NEW status \in {"passed", "failed"}, NEW i \in DOMAIN Diffs(repeat, status)
             PROVE  /\ ({m \in Method : OnlyRow(repeat, m, i, status)} \ Diffs(repeat, status)[i].removed) \cup Diffs(repeat, status)[i].added
                         = {m \in Method : OnlyRow(repeat, m, i + 1, status)}
                    /\ \A m \in Identities(repeat) \ Changed(repeat, i) :
                         m \in {x \in Method : OnlyRow(repeat, x, i, status)} <=> m \in {x \in Method : OnlyRow(repeat, x, i + 1, status)}
  BY DEF DiffsAddUp
<1>1. Len(repeat.runs) \in Nat /\ DOMAIN repeat.runs = 1..Len(repeat.runs)
  BY LenProperties DEF RepeatTyping
<1>2. i \in 1..(Len(repeat.runs) - 1)
  BY DEF Diffs
<1>3. i \in DOMAIN repeat.runs /\ i + 1 \in DOMAIN repeat.runs
  BY <1>1, <1>2
<1>4. /\ Diffs(repeat, status)[i].added = With(repeat, i + 1, status) \ With(repeat, i, status)
      /\ Diffs(repeat, status)[i].removed = With(repeat, i, status) \ With(repeat, i + 1, status)
  BY <1>2 DEF Diffs, Diff
<1>5. ASSUME NEW j \in DOMAIN repeat.runs, NEW m \in Method
      PROVE  OnlyRow(repeat, m, j, status) <=> m \in Identities(repeat) /\ Observation(repeat, m, j) = status
  <2>1. CASE OnlyRow(repeat, m, j, status)
    <3>1. repeat.runs[j].rows[m] = <<status>>
      BY <2>1 DEF OnlyRow
    <3>2. repeat.runs[j].rows[m] # <<>> /\ Len(repeat.runs[j].rows[m]) = 1
      BY <3>1
    <3>3. repeat.runs[j].rows[m] = <<Observation(repeat, m, j)>> /\ m \in Identities(repeat)
      BY <3>2, ObservationIs, IdentitiesAre
    <3> QED BY <2>1, <3>1, <3>3
  <2>2. CASE Observation(repeat, m, j) = status
    <3>1. status \in Concrete
      BY DEF Concrete
    <3>2. repeat.runs[j].rows[m] = <<Observation(repeat, m, j)>>
      BY <2>2, <3>1, ObservationIs
    <3>3. OnlyRow(repeat, m, j, status)
      BY <2>2, <3>2 DEF OnlyRow
    <3> QED BY <2>1, <3>3
  <2> QED BY <2>1, <2>2
<1>6. \A j \in DOMAIN repeat.runs : {m \in Method : OnlyRow(repeat, m, j, status)} = With(repeat, j, status)
  BY <1>5, IdentitiesAre DEF With
<1>7. \A m \in Identities(repeat) \ Changed(repeat, i) : m \in With(repeat, i, status) <=> m \in With(repeat, i + 1, status)
  BY DEF Changed, With
<1> QED BY <1>3, <1>4, <1>6, <1>7

(* Whatever the runs report and however they end: an outcome rests on every
   attempt asked for, and the differences reported are those of the rows. *)
THEOREM RepeatsHonest == Spec => []RepeatHonest
<1>1. RepeatTyping => TypeOK
  BY DEF RepeatTyping, TypeOK
<1>2. RepeatTyping => RepeatHonest
  BY <1>1, OutcomeRestsOnRuns, DiffsAddUpInRuns DEF RepeatHonest
<1> QED BY <1>2, RepeatInvariant, PTL

(* For any tests, faults and numbers of runs: nothing is run after an aborted
   or failed run, nor after the cancellation was seen. *)
THEOREM RunsAreStopped == Spec => RunsStop
<1> DEFINE Still ==
       /\ order.step \in {"runs", "bisect"} /\ (active \/ order.halted) => order'.initializes = order.initializes
       /\ repeat.step # "idle" /\ (active \/ repeat.noticed) => repeat'.runs = repeat.runs
<1>1. RepeatTyping /\ Quiet /\ [Next]_vars => [Still]_vars
  BY RepeatKeeps
<1>2. Spec => [][Still]_vars
  BY <1>1, RepeatInvariant, PTL DEF Spec
<1> QED BY <1>2 DEF RunsStop

-----------------------------------------------------------------------------
(* Both                                                                      *)

\* Each part goes its own way, beside the other.
LEMMA PartsMove ==
  /\ ToolsInit => Init /\ GraphInit
  /\ [ToolsNext]_toolsVars => [Next]_vars /\ [GraphNext]_callGraphVars
<1>1. ToolsInit => Init /\ GraphInit
  <2>1. (CHOOSE m \in Machines : TRUE) \in Machines
    BY BinaryAssumption
  <2> QED BY <2>1 DEF ToolsInit, GraphInit
<1>2. [ToolsNext]_toolsVars => [Next]_vars /\ [GraphNext]_callGraphVars
  BY DEF ToolsNext, toolsVars, OfOrchestration, OfGraphs
<1> QED BY <1>1, <1>2

(* For any tests, runs, processes and calls: no run starts beside one that may
   still be active, and no remembered failure outlives its time. *)
THEOREM StepsStaySound == ToolsSpec => StepsSound
<1>1. ToolsSpec => Spec /\ GraphInit /\ [][GraphNext]_callGraphVars
  <2>1. ToolsSpec => ToolsInit /\ [][ToolsNext]_toolsVars
    BY PTL DEF ToolsSpec
  <2>2. [][ToolsNext]_toolsVars => [][Next]_vars /\ [][GraphNext]_callGraphVars
    <3>1. [ToolsNext]_toolsVars => [Next]_vars
      BY PartsMove
    <3>2. [ToolsNext]_toolsVars => [GraphNext]_callGraphVars
      BY PartsMove
    <3> QED BY <3>1, <3>2, PTL
  <2> QED BY <2>1, <2>2, PartsMove, PTL DEF Spec
<1>2. Spec => RunsStop
  BY RunsAreStopped
<1>3. GraphInit /\ [][GraphNext]_callGraphVars => NothingStale
  BY NoStaleFailure
<1> QED BY <1>1, <1>2, <1>3 DEF StepsSound
=============================================================================
