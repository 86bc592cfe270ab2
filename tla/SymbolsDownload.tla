-------------------------- MODULE SymbolsDownload --------------------------
(***************************************************************************)
(* downloadSymbols (src/src/core/symbols-download.ts): the worklist that    *)
(* fills .alpackages with what app.json needs, one downloadPackage after    *)
(* the other, beside bcdev_package_download calls on the same project.      *)
(***************************************************************************)
EXTENDS PackageDownload

CONSTANTS
  home,        \* the server that runs the worklist
  Requests,    \* what bcdev_package_download is asked for
  symbols,     \* the download the worklist runs its requests as
  Concept,     \* the key of Microsoft/Application, named without an app ID
  ConceptApp,  \* the app it resolves to
  Roots,       \* what app.json may declare: sequences of [key, version]
  Dependencies,\* Package -> the sequence of [key, version] of its manifest
  Cached,      \* what .alpackages may hold at first
  MaxPackages

ASSUME SymbolsAssumption ==
  /\ symbols \in Downloads /\ home \in Servers /\ ConceptApp \in App /\ Concept \notin App
  /\ Requests \subseteq Selector /\ MaxPackages \in Nat \ {0}

Key == App \cup {Concept}
Reference == [key : Key, version : Versions]
NoKey == "no key"

ASSUME GraphAssumption ==
  /\ NoKey \notin Key /\ IsFiniteSet(Package) /\ NoFile \notin Package
  /\ Roots # {} /\ \A roots \in Roots : roots \in Seq(Reference)
  /\ \A p \in Package : Dependencies[p] \in Seq([key : App, version : Versions])

VARIABLE sym   \* the locals of downloadSymbols

vars == <<diskVars, sym>>

Row == [status : {"none", "skipped", "missing", "failed"} \cup Installed, package : Package \cup {NoFile}, noted : BOOLEAN]

SymbolsFailures == {"", "too many packages", "request", "readback", "restart"}

\* a reference is known by its own key; queued maps the keys to references
Call ==
  [step : {"idle", "take", "fetching", "readback", "over"}, roots : Roots, force : BOOLEAN, dryRun : BOOLEAN,
   at : Key, queue : Seq(Key), min : [Key -> Versions], transitive : SUBSET Key, queued : [Key -> Key \cup {NoKey}],
   cache : SUBSET Package, row : [Key -> Row], failure : SymbolsFailures]

TypeOK ==
  /\ DiskTypeOK
  /\ sym \in Call
  /\ \A k \in Key : sym.queued[k] = NoKey => sym.row[k].status = "none"
  /\ sym.step = "fetching" <=> download[symbols].step \notin {"idle", "dead"}

NoRow == [status |-> "none", package |-> NoFile, noted |-> FALSE]

NoCall ==
  [step |-> "idle", roots |-> CHOOSE r \in Roots : TRUE, force |-> FALSE, dryRun |-> FALSE, at |-> Concept, queue |-> <<>>,
   min |-> [k \in Key |-> CHOOSE v \in Versions : TRUE], transitive |-> {}, queued |-> [k \in Key |-> NoKey],
   cache |-> {}, row |-> [k \in Key |-> NoRow], failure |-> ""]

Init == (\E cached \in Cached : DiskInit(cached)) /\ sym = NoCall

Resolved(s, k) == s.row[k].package # NoFile
AppOf(k) == IF k = Concept THEN ConceptApp ELSE k

\* as if a pending reference kept its first minimum
FirstMinimum(s, e, r) ==
  IF Resolved(s, e) /\ r.version > s.row[e].package.version
    THEN [s EXCEPT !.row[e].noted = TRUE] ELSE s

\* a higher minimum raises a pending reference and is noted at a processed one
HigherMinimum(s, e, r) ==
  IF e \in ToSet(s.queue) THEN [s EXCEPT !.min[e] = r.version]
  ELSE IF Resolved(s, e) /\ r.version > s.row[e].package.version
    THEN [s EXCEPT !.row[e].noted = TRUE] ELSE s

\* enqueue; once it has thrown, the rest is not reached
Enqueue(s, r) ==
  LET e == s.queued[r.key] IN
  IF s.failure # "" THEN s
  ELSE IF e = NoKey THEN
    IF Cardinality({k \in Key : s.queued[k] # NoKey}) >= MaxPackages THEN [s EXCEPT !.failure = "too many packages"]
    ELSE [s EXCEPT !.queued[r.key] = r.key, !.queue = Append(@, r.key), !.min[r.key] = r.version]
  ELSE IF r.version > s.min[e] THEN HigherMinimum(s, e, r) ELSE s

EnqueueAll(s, references) ==
  LET after[n \in 0..Len(references)] == IF n = 0 THEN s ELSE Enqueue(after[n - 1], references[n])
  IN after[Len(references)]

\* alias: the app ID a reference resolved to is the same reference from now on
Alias(s, k, package) == IF s.queued[package.app] = NoKey THEN [s EXCEPT !.queued[package.app] = k] ELSE s

Settled(s) == IF s.failure = "" THEN s ELSE [s EXCEPT !.step = "over"]

\* enqueueDependencies; dryRun explores none
EnqueueDependencies(s, package) ==
  IF s.dryRun THEN s
  ELSE LET t == EnqueueAll(s, Dependencies[package])
       IN [t EXCEPT !.transitive = @ \cup {k \in Key : s.queued[k] = NoKey /\ t.queued[k] # NoKey}]

DiskUnchanged == UNCHANGED diskVars

\* indexCache reads what is there, and appJsonRoots what app.json declares
Begin ==
  /\ sym.step = "idle" /\ download[symbols].step = "idle"
  /\ \E roots \in Roots, force, dryRun \in BOOLEAN :
       LET s == [NoCall EXCEPT !.step = "take", !.roots = roots, !.force = force, !.dryRun = dryRun,
                               !.cache = {p \in Package : file[p] # NoFile}]
       IN sym' = Settled(EnqueueAll(s, roots))
  /\ DiskUnchanged

\* bestCached
Hits(s, k) == IF s.force THEN {} ELSE {p \in s.cache : Satisfies(p, [app |-> AppOf(k), version |-> s.min[k]])}
Newest(packages) == CHOOSE p \in packages : \A q \in packages : q.version <= p.version

Rowed(s, k, status, package) == [s EXCEPT !.row[k] = [NoRow EXCEPT !.status = status, !.package = package]]

Finish ==
  /\ sym.step = "take" /\ sym.queue = <<>>
  /\ sym' = [sym EXCEPT !.step = "over"]
  /\ DiskUnchanged

Skip ==
  /\ sym.step = "take" /\ sym.queue # <<>>
  /\ LET k == Head(sym.queue)
         s == [sym EXCEPT !.queue = Tail(@)]
         hit == Newest(Hits(sym, k))
     IN /\ Hits(sym, k) # {}
        /\ sym' = Settled(EnqueueDependencies(Alias(Rowed(s, k, "skipped", hit), k, hit), hit))
  /\ DiskUnchanged

Miss ==
  /\ sym.step = "take" /\ sym.queue # <<>> /\ sym.dryRun
  /\ Hits(sym, Head(sym.queue)) = {}
  /\ sym' = Rowed([sym EXCEPT !.queue = Tail(@)], Head(sym.queue), "missing", NoFile)
  /\ DiskUnchanged

Fetch ==
  /\ sym.step = "take" /\ sym.queue # <<>> /\ ~sym.dryRun
  /\ LET k == Head(sym.queue) IN
       /\ Hits(sym, k) = {}
       /\ Request(symbols, home, [app |-> AppOf(k), version |-> sym.min[k]])
       /\ sym' = [sym EXCEPT !.step = "fetching", !.at = k, !.queue = Tail(@)]

PerPackage(s) ==
  {"NOT_FOUND", "TIMEOUT", "SERVER_REJECTED", "PROTOCOL_ERROR"}
    \cup IF s.at \in s.transitive THEN {"INVALID_ARGUMENT"} ELSE {}

\* the package's row, or the end of the call; a failure of one package leaves the run going
Fetched ==
  LET d == download[symbols] IN
  /\ sym.step = "fetching" /\ d.step = "over"
  /\ sym' = IF d.result \in Installed
              THEN Alias(Rowed([sym EXCEPT !.step = "readback"], sym.at, d.result, d.content.package), sym.at, d.content.package)
              ELSE IF d.result \in PerPackage(sym) THEN Rowed([sym EXCEPT !.step = "take"], sym.at, "failed", NoFile)
              ELSE [sym EXCEPT !.step = "over", !.failure = "request"]
  /\ download' = [download EXCEPT ![symbols].step = "idle"]
  /\ UNCHANGED <<file, meddled, left, tails, crashes>>

\* the file is read back without the turn on it: a swap may have it aside
ReadBack ==
  LET p == sym.row[sym.at].package IN
  /\ sym.step = "readback"
  /\ sym' = IF file[p] = NoFile THEN [sym EXCEPT !.step = "over", !.failure = "readback"]
            ELSE Settled(EnqueueDependencies([sym EXCEPT !.step = "take", !.cache = @ \cup {p}], p))
  /\ DiskUnchanged

ServerDies(s) ==
  /\ Crash(s)
  /\ sym' = IF s = home /\ sym.step \notin {"idle", "over"} THEN [sym EXCEPT !.step = "over", !.failure = "restart"] ELSE sym

Downloading(d) == Step(d) /\ UNCHANGED sym

Worklist == Finish \/ Skip \/ Miss \/ Fetch \/ Fetched \/ ReadBack

Next ==
  \/ Begin \/ Worklist
  \/ \E d \in Downloads \ {symbols}, s \in Servers, wanted \in Requests : Request(d, s, wanted) /\ UNCHANGED sym
  \/ \E d \in Downloads : Downloading(d)
  \/ \E s \in Servers : ServerDies(s)

\* requests have a timeout and file operations end; the header that each request awaits first
\* (package-download.ts:503) has none: the Azure CLI, which may have to be run for it
\* (authorization.ts:46), is taken to exit
SymbolsFairness ==
  /\ WF_vars(Worklist)
  /\ \A d \in Downloads : WF_vars(Downloading(d))

Spec == Init /\ [][Next]_vars /\ SymbolsFairness

-----------------------------------------------------------------------------
(* Properties *)

\* the reference a key stands for has a row that answers this minimum, or says that it does not
Answers(key, version) ==
  LET e == sym.queued[key] IN
  /\ e # NoKey
  /\ \/ sym.row[e].status \in {"failed", "missing"} \/ sym.row[e].noted
     \/ Resolved(sym, e) /\ sym.row[e].package.app = AppOf(key) /\ sym.row[e].package.version >= version

(* A call that answers covers the whole closure: every root, and every
   dependency of every package it resolved, has a row with a package of a
   sufficient version, a row that failed, or one that says a higher version is
   required. *)
ClosureAnswered ==
  sym.step = "over" /\ sym.failure = "" =>
    /\ \A i \in DOMAIN sym.roots : Answers(sym.roots[i].key, sym.roots[i].version)
    /\ ~sym.dryRun => \A k \in Key : Resolved(sym, k) =>
         LET deps == Dependencies[sym.row[k].package] IN \A i \in DOMAIN deps : Answers(deps[i].key, deps[i].version)

(* The worklist keeps its books, and its answer covers the closure. *)
SymbolsHonest == TypeOK /\ ClosureAnswered

(* Whoever downloads, .alpackages keeps every package and reports what it did. *)
FilesKept == NothingLost /\ AnswersWhatItDid

(* symbols-download.ts:259 requires the concept form and the app ID form of the
   Application to become one package, and the tool's schema promises one entry
   per package. *)
OneRowPerPackage ==
  \A j, k \in Key : j # k /\ Resolved(sym, j) /\ Resolved(sym, k) => sym.row[j].package # sym.row[k].package

\* the worklist has run dry, or its server died, and so has every download beside it
SymbolsSettled ==
  sym.step \in {"idle", "over"} /\ \A d \in Downloads \ {symbols} : download[d].step \in {"idle", "over", "dead"}

=============================================================================
