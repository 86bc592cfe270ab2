------------------------------- MODULE MCApps -------------------------------
(***************************************************************************)
(* The app tools and the download of symbols, which share no state, side by *)
(* side in one state space: `part' says which of the two a behaviour is of. *)
(* Apps: two versions of a base app and a dependent of it.  Symbols: an app *)
(* named as the Application concept, and a library in two versions, which   *)
(* depend on each other; beside the worklist, one download of the library,  *)
(* in the same server or another.                                           *)
(***************************************************************************)
EXTENDS AppLifecycle, SymbolsDownload, TLC

CONSTANTS c1, c2, base, dep, base1, base2, dep1
MCExtensionOf == (base1 :> base) @@ (base2 :> base) @@ (dep1 :> dep)
MCDependsOn == {<<dep, base>>}
MCTenant == [published |-> {base1, dep1}, installed |-> {base1, dep1}]
MCAppRequests ==
  {[op |-> "uninstall", subject |-> base, version |-> AnyVersion], [op |-> "uninstall", subject |-> dep, version |-> AnyVersion],
   [op |-> "unpublish", subject |-> dep, version |-> AnyVersion], [op |-> "unpublish", subject |-> base, version |-> base1],
   [op |-> "publish", subject |-> base2, version |-> AnyVersion], [op |-> "publish", subject |-> dep1, version |-> AnyVersion],
   [op |-> "list", subject |-> base, version |-> AnyVersion]}

CONSTANTS app, library, here, there, other
V(a, v) == [app |-> a, version |-> v]
R(k, v) == [key |-> k, version |-> v]
MCPackage == {V(app, 1), V(library, 1), V(library, 2)}
MCRequests == {V(library, 1)}
MCRoots == {<<R(Concept, 1), R(library, 1)>>, <<R(Concept, 1), R(app, 1)>>, <<R(library, 1)>>}
MCDependencies == (V(app, 1) :> <<R(library, 2)>>) @@ (V(library, 1) :> <<>>) @@ (V(library, 2) :> <<R(app, 1)>>)
MCCached == {{}, {V(library, 1)}, {V(app, 1), V(library, 2)}}

VARIABLE part

\* the part that does not move starts empty
MCInit ==
  \/ part = "apps" /\ AppInit /\ DiskInit({}) /\ sym = NoCall
  \/ part = "symbols" /\ AppInit /\ Init

OfApps(A) == part = "apps" /\ A /\ UNCHANGED <<part, vars>>
OfSymbols(A) == part = "symbols" /\ A /\ UNCHANGED <<part, appVars>>

MCNext == OfApps(AppNext) \/ OfSymbols(Next)

MCVars == <<part, appVars, vars>>

MCSpec ==
  /\ MCInit /\ [][MCNext]_MCVars
  /\ \A c \in Calls : WF_MCVars(OfApps(Waits(c)))
  /\ WF_MCVars(OfSymbols(Worklist))
  /\ \A d \in Downloads : WF_MCVars(OfSymbols(Downloading(d)))

(* Every call of either part ends, whatever Business Central does with it,
   however packages fail and whoever waits for their destinations. *)
AppCallsEnd == []<>(AppSettled /\ SymbolsSettled)
=============================================================================
