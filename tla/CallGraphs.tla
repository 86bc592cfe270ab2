----------------------------- MODULE CallGraphs -----------------------------
(***************************************************************************)
(* The call graph of a project (src/src/core/call-graph.ts): which engine   *)
(* builds it, and the builds a server process keeps while the project's     *)
(* inputs are unchanged.  A build has the name of the call that started it. *)
(***************************************************************************)
EXTENDS ToolBinary, Sequences, SequencesExt, FiniteSets

CONSTANTS
  Call,
  ProcessOf,   \* Call -> the server process that makes it
  MaxEntries,  \* maxEntries
  MaxEdits     \* a bound on the edits of the project

ASSUME GraphAssumption ==
  /\ ProcessOf \in [Call -> Process]
  /\ MaxEntries \in Nat \ {0} /\ MaxEdits \in Nat
  /\ \A m \in Machines : m.choice \in {"auto", "al-sem", "altool"}

VARIABLES
  choice,   \* BC_DEV_CALLGRAPH_ENGINE
  project,  \* how often the project's inputs have changed
  call,     \* Call -> [stage, since, key, build, answer]
  build,    \* Call -> [stage, key, at, binary, ran, reason, version]
  entries,  \* Process -> its cache: builds, the least recently used first
  killed    \* a process has been killed (one may be)

graphVars == <<choice, project, call, build, entries, killed>>
callGraphVars == <<binaryVars, graphVars>>

NoAnswer == [ok |-> FALSE, engine |-> None, warned |-> FALSE, version |-> 0]
NoCall == [stage |-> "idle", since |-> 0, build |-> None, answer |-> NoAnswer]
NoBuild == [stage |-> "idle", key |-> 0, at |-> 0, binary |-> None, ran |-> None, reason |-> None, version |-> 0]

Running(b) == build[b].stage \in {"binary", "al-sem", "extract", "stitch"}
Over(b) == build[b].stage \in {"built", "failed"}

-----------------------------------------------------------------------------
(* The cache.                                                               *)

BeginCall(c) ==
  /\ call[c].stage = "idle"
  /\ call' = [call EXCEPT ![c].stage = "reading", ![c].since = project]
  /\ UNCHANGED <<binaryVars, choice, project, build, entries, killed>>

Kept(list) == IF Len(list) > MaxEntries THEN Tail(list) ELSE list
\* where a list has a build of a key; nowhere, or at one place
Places(list, key) == {i \in DOMAIN list : build[list[i]].key = key}
Hits(c) == Places(entries[ProcessOf[c]], project)

First == IF choice = "altool" THEN "extract" ELSE "binary"
ResultOf(b) ==
  [ok |-> b.stage = "built", engine |-> IF b.reason = None /\ choice # "altool" THEN "al-sem" ELSE "altool",
   warned |-> b.reason = "failed", version |-> b.version]

\* the build there is, at i, answers at once if it is over
Join(c, i) ==
  LET b == entries[ProcessOf[c]][i] IN
  /\ entries' = [entries EXCEPT ![ProcessOf[c]] = Append(RemoveAt(@, i), b)]
  /\ call' = [call EXCEPT ![c].build = b, ![c].stage = IF Over(b) THEN "done" ELSE "waiting",
                          ![c].answer = IF Over(b) THEN ResultOf(build[b]) ELSE @]
  /\ UNCHANGED <<build, memo, find>>

StartBuild(c) ==
  /\ entries' = [entries EXCEPT ![ProcessOf[c]] = Kept(Append(@, c))]
  /\ build' = [build EXCEPT ![c] = [NoBuild EXCEPT !.stage = First, !.key = project, !.at = now]]
  /\ call' = [call EXCEPT ![c].build = c, ![c].stage = "waiting"]
  /\ IF First = "binary" THEN Resolve(ProcessOf[c]) ELSE UNCHANGED <<memo, find>>

\* the inputs are read; the rest follows without an await
Lookup(c) ==
  /\ call[c].stage = "reading"
  /\ IF Hits(c) = {} THEN StartBuild(c) ELSE \E i \in Hits(c) : Join(c, i)
  /\ UNCHANGED <<setting, path, cached, now, last, choice, project, killed>>

\* BuildAnswered gone wrong: only the call that started the build is answered
StarterAnswered(b, ended) == call' = [call EXCEPT ![b].stage = "done", ![b].answer = ResultOf(ended)]

\* whoever awaits a build is answered; a failure leaves the cache, by its key
BuildAnswered(b, ended) ==
  call' = [c \in Call |-> IF call[c].stage = "waiting" /\ call[c].build = b
                         THEN [call[c] EXCEPT !.stage = "done", !.answer = ResultOf(ended)] ELSE call[c]]

Dropped(list, key) == IF Places(list, key) = {} THEN list ELSE RemoveAt(list, CHOOSE i \in Places(list, key) : TRUE)

End(b, ended) ==
  /\ build' = [build EXCEPT ![b] = ended] /\ BuildAnswered(b, ended)
  /\ entries' = IF ended.stage = "failed" THEN [entries EXCEPT ![ProcessOf[b]] = Dropped(@, build[b].key)] ELSE entries

Goes(b, changed) == build' = [build EXCEPT ![b] = changed] /\ UNCHANGED <<call, entries>>

-----------------------------------------------------------------------------
(* The engines.                                                             *)

TakeBinary(b) ==
  /\ build[b].stage = "binary" /\ find[ProcessOf[b]] = "idle"
  /\ Goes(b, [build[b] EXCEPT !.stage = "al-sem", !.binary = last[ProcessOf[b]].binary])
  /\ UNCHANGED <<binaryVars, choice, project, killed>>

\* what runs, if it is there: the environment may name a file that is missing
Found(b) ==
  CASE build[b].binary = "cached" -> {cached}
    [] build[b].binary = "explicit" -> {None, "explicit"}
    [] OTHER -> {path}

\* al-sem's failure ends the build, unless altool may be used instead
AlSemFails(b, ran, reason) ==
  IF choice = "auto" THEN Goes(b, [build[b] EXCEPT !.stage = "extract", !.ran = ran, !.reason = reason])
  ELSE End(b, [build[b] EXCEPT !.stage = "failed", !.ran = ran, !.reason = reason])

RunAlSem(b) ==
  /\ build[b].stage = "al-sem"
  /\ \E program \in Found(b) :
       IF program = None THEN AlSemFails(b, None, "notFound")
       ELSE \/ End(b, [build[b] EXCEPT !.stage = "built", !.ran = program, !.version = project])
            \/ AlSemFails(b, program, "failed")
  /\ UNCHANGED <<binaryVars, choice, project, killed>>

\* altool reads the project, then joins what it read
Extract(b) ==
  /\ build[b].stage = "extract"
  /\ \/ Goes(b, [build[b] EXCEPT !.stage = "stitch", !.version = project])
     \/ End(b, [build[b] EXCEPT !.stage = "failed"])
  /\ UNCHANGED <<binaryVars, choice, project, killed>>

Stitch(b) ==
  /\ build[b].stage = "stitch"
  /\ \E stage \in {"built", "failed"} : End(b, [build[b] EXCEPT !.stage = stage])
  /\ UNCHANGED <<binaryVars, choice, project, killed>>

-----------------------------------------------------------------------------
(* The surroundings.                                                        *)

Edit ==
  /\ project < MaxEdits
  /\ project' = project + 1
  /\ UNCHANGED <<binaryVars, choice, call, build, entries, killed>>

\* another server process is killed; its half-written download stays, under a
\* name nobody reads
Kill(p) ==
  /\ ~killed /\ killed' = TRUE
  /\ p \notin {ProcessOf[c] : c \in Call} /\ find[p] \notin {"unasked", "idle"}
  /\ Forget(p)
  /\ UNCHANGED <<choice, project, call, build, entries>>

\* another al-sem caller of the process (the risk digest, the order predictor)
Ask(p) == Resolve(p) /\ UNCHANGED <<setting, path, cached, now, last, graphVars>>

\* whoever awaited a resolution goes on before a timer fires
Passes == Tick /\ (\A b \in Call : build[b].stage = "binary" => find[ProcessOf[b]] # "idle") /\ UNCHANGED graphVars

GraphInitOn(m) ==
  /\ BinaryInit(m) /\ choice = m.choice
  /\ project = 0 /\ killed = FALSE
  /\ call = [c \in Call |-> NoCall] /\ build = [b \in Call |-> NoBuild] /\ entries = [p \in Process |-> <<>>]

GraphInit == \E m \in Machines : GraphInitOn(m)

BuildStep(b) == TakeBinary(b) \/ RunAlSem(b) \/ Extract(b) \/ Stitch(b)
Resolver(p) == ResolverStep(p) /\ UNCHANGED graphVars

GraphNext ==
  \/ \E c \in Call : BeginCall(c) \/ Lookup(c) \/ BuildStep(c)
  \/ \E p \in Process : Ask(p) \/ Resolver(p) \/ Kill(p)
  \/ Edit
  \/ Passes

(* A process takes its next step; the probe, the download and the engines are
   cut after 15, 180 and 300 seconds. *)
GraphSpec ==
  /\ GraphInit /\ [][GraphNext]_callGraphVars
  /\ \A c \in Call : WF_callGraphVars(Lookup(c)) /\ WF_callGraphVars(BuildStep(c))
  /\ \A p \in Process : WF_callGraphVars(Resolver(p))

-----------------------------------------------------------------------------
(* Properties.                                                              *)

GraphTypeOK ==
  /\ BinaryTypeOK /\ choice \in {"auto", "al-sem", "altool"} /\ project \in 0..MaxEdits /\ killed \in BOOLEAN
  /\ \A c \in Call :
       /\ call[c].stage \in {"idle", "reading", "waiting", "done"} /\ call[c].build \in {None} \cup Call
       /\ build[c].stage \in {"idle", "binary", "al-sem", "extract", "stitch", "built", "failed"}
  /\ \A p \in Process : Len(entries[p]) <= MaxEntries /\ ToSet(entries[p]) \subseteq Call

(* A process that resolved to the cached binary finds the whole verified file
   there whenever it runs it, whatever other processes download meanwhile or
   leave behind (tool-binary.ts:123); what ran is never an unverified copy. *)
BinaryWhole ==
  /\ \A p \in Process : last[p].binary = "cached" => cached = "good"
  /\ \A b \in Call : build[b].ran # "bad"

(* A graph shows the project as it was at some moment after the call that asks
   for it began, be it from the cache (call-graph.ts:458); altool stands in
   silently only when al-sem is not there, and never when al-sem was asked for. *)
GraphHonest ==
  \A c \in Call : call[c].stage = "done" /\ call[c].answer.ok =>
    LET a == call[c].answer IN
    /\ a.version >= call[c].since
    /\ a.engine = "altool" => choice # "al-sem"
    /\ a.warned <=> (choice = "auto" /\ a.engine = "altool" /\ build[call[c].build].ran # None)

\* the builds a process has begun
Begun(p) == {b \in Call : ProcessOf[b] = p /\ build[b].stage # "idle"}

(* A key of a process is built once at a time (call-graph.ts:460), unless so
   many builds were begun that one of them may have been evicted under way;
   and what the cache has of a key it has once. *)
BuildShared ==
  /\ \A b, d \in Call :
       /\ b # d /\ Running(b) /\ Running(d) /\ ProcessOf[b] = ProcessOf[d]
       /\ Cardinality(Begun(ProcessOf[b])) <= MaxEntries
       => build[b].key # build[d].key
  /\ \A p \in Process : \A i, j \in DOMAIN entries[p] :
       build[entries[p][i]].key = build[entries[p][j]].key => i = j

(* The three of them. *)
GraphSafe == GraphTypeOK /\ BinaryWhole /\ GraphHonest /\ BuildShared

(* A call that finds a build over is never given its failure; a build goes on
   without the pinned binary only if the attempt to get it is recent. *)
NothingStale ==
  [][ \A c \in Call :
        /\ call[c].stage = "reading" /\ call'[c].stage = "done" => call'[c].answer.ok
        /\ build[c].stage = "binary" /\ build'[c].stage = "al-sem" /\ last[ProcessOf[c]].source = "unavailable" =>
             memo[ProcessOf[c]] + MemoSpan > build[c].at ]_callGraphVars

(* Every call is answered, with a graph or an error. *)
CallsEnd == []<>(\A c \in Call : call[c].stage \in {"idle", "done"})
=============================================================================
