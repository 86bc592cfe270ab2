----------------------------- MODULE ToolBinary -----------------------------
(***************************************************************************)
(* How the processes of a machine find a pinned tool, al-sem                *)
(* (src/src/core/tool-binary.ts): its environment variable, the command on  *)
(* PATH, the verified copy in the cache directory they share, or a download *)
(* into it.  A process resolves once; a failure is remembered for a while.  *)
(***************************************************************************)
EXTENDS Naturals

CONSTANTS
  Process,
  MemoSpan,   \* FAILURE_MEMO_MS, in ticks
  MaxNow,     \* a bound on the clock
  Machines    \* what a machine may be like: settings, PATH, cache directory

None == "none"

ASSUME BinaryAssumption ==
  /\ MemoSpan \in Nat \ {0} /\ MaxNow \in Nat
  /\ Machines # {}
  /\ \A m \in Machines : /\ m.env \in BOOLEAN /\ m.download \in BOOLEAN
                          /\ m.path \in {None, "old", "pinned"} /\ m.cached \in {None, "bad", "good"}

VARIABLES
  setting,  \* [env, download : BOOLEAN]
  path,     \* the al-sem on PATH: None, "old" or "pinned"
  cached,   \* the file in the cache directory: None, "bad" or "good"
  now,
  memo,     \* Process -> when its resolution began
  find,     \* Process -> the await its resolution is at, "idle", or "unasked"
  last      \* Process -> the last resolution

binaryVars == <<setting, path, cached, now, memo, find, last>>

NotResolved == [source |-> None, binary |-> None]

At(p, stage) == find' = [find EXCEPT ![p] = stage]

\* a resolution: where the tool was found and what to run
Settles(p, source, binary) ==
  /\ At(p, "idle")
  /\ last' = [last EXCEPT ![p] = [source |-> source, binary |-> binary]]

\* al-sem's bare command stays the answer when nothing else works
Unavailable(p) == Settles(p, "unavailable", "alsem")

\* Stale gone wrong: a failure is remembered for good
NeverStale(p) == FALSE

Stale(p) == last[p].source = "unavailable" /\ now - memo[p] >= MemoSpan

\* resolve(): join the resolution there is, or begin one
Resolve(p) ==
  IF find[p] = "unasked" \/ Stale(p) THEN memo' = [memo EXCEPT ![p] = now] /\ At(p, "probe") ELSE UNCHANGED <<memo, find>>

Probe(p) ==
  /\ find[p] = "probe"
  /\ IF setting.env THEN Settles(p, "env", "explicit")
     ELSE IF path = "pinned" THEN Settles(p, "path", "alsem")
     ELSE At(p, "cache") /\ UNCHANGED last
  /\ UNCHANGED <<setting, path, cached, now, memo>>

ReadCache(p) ==
  /\ find[p] = "cache"
  /\ IF cached = "good" THEN Settles(p, "cache", "cached")
     ELSE IF ~setting.download THEN Unavailable(p)
     ELSE At(p, "fetch") /\ UNCHANGED last
  /\ UNCHANGED <<setting, path, cached, now, memo>>

\* the asset comes whole, or not: no answer, another size, another digest
Fetch(p) ==
  /\ find[p] = "fetch"
  /\ (At(p, "write") /\ UNCHANGED last) \/ Unavailable(p)
  /\ UNCHANGED <<setting, path, cached, now, memo>>

\* Write gone wrong: the bytes go straight to the file
WriteInPlace(p) ==
  /\ find[p] = "write"
  /\ At(p, "rename") /\ cached' = "bad"
  /\ UNCHANGED <<setting, path, now, memo, last>>

\* the bytes go to a file of its own name
Write(p) ==
  /\ find[p] = "write"
  /\ (At(p, "rename") /\ UNCHANGED last) \/ Unavailable(p)
  /\ UNCHANGED <<setting, path, cached, now, memo>>

\* it takes the file's place, unless the system refuses (the file is running)
Rename(p) ==
  /\ find[p] = "rename"
  /\ \/ cached' = "good" /\ Settles(p, "download", "cached")
     \/ cached' = cached /\ Unavailable(p)
  /\ UNCHANGED <<setting, path, now, memo>>

ResolverStep(p) == Probe(p) \/ ReadCache(p) \/ Fetch(p) \/ Write(p) \/ Rename(p)

\* the probe is cut after 15 s and the download after 180: a resolution ends
\* before its memo would expire
Tick ==
  /\ now < MaxNow
  /\ \A p \in Process : find[p] \notin {"idle", "unasked"} => now + 1 - memo[p] < MemoSpan
  /\ now' = now + 1
  /\ UNCHANGED <<setting, path, cached, memo, find, last>>

\* a process ends; what it had in memory is gone
Forget(p) ==
  /\ memo' = [memo EXCEPT ![p] = 0] /\ last' = [last EXCEPT ![p] = NotResolved] /\ At(p, "unasked")
  /\ UNCHANGED <<setting, path, cached, now>>

BinaryInit(m) ==
  /\ setting = [env |-> m.env, download |-> m.download] /\ path = m.path /\ cached = m.cached
  /\ now = 0
  /\ memo = [p \in Process |-> 0] /\ find = [p \in Process |-> "unasked"] /\ last = [p \in Process |-> NotResolved]

BinaryTypeOK ==
  /\ setting \in [env : BOOLEAN, download : BOOLEAN] /\ path \in {None, "old", "pinned"} /\ cached \in {None, "bad", "good"}
  /\ now \in 0..MaxNow /\ memo \in [Process -> 0..MaxNow]
  /\ find \in [Process -> {"unasked", "idle", "probe", "cache", "fetch", "write", "rename"}]
  /\ \A p \in Process : last[p].binary \in {None, "explicit", "alsem", "cached"}
=============================================================================
