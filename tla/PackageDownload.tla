-------------------------- MODULE PackageDownload --------------------------
(***************************************************************************)
(* downloadPackage (src/src/core/package-download.ts): one GET of one       *)
(* package, its validation, and its installation in .alpackages by a        *)
(* temporary file and a rename, with a backup swap where the rename is      *)
(* refused.  Downloads of one server process take turns on a destination    *)
(* (installTails); those of another server on the same project do not, and  *)
(* a process may die between any two steps.                                 *)
(***************************************************************************)
EXTENDS Integers, Sequences, SequencesExt, FiniteSets

CONSTANTS
  Downloads,  \* downloadPackage calls
  Servers,    \* the processes that may work on the project
  App, Versions,
  Package,    \* records [app, version]: what a SymbolReference.json declares
  Builds,     \* the contents a package of one version may have
  NoFile,
  RequestFailures, \* how a request may fail
  MaxCrashes

ASSUME PackageAssumption ==
  /\ Package \subseteq [app : App, version : Versions]
  /\ Package # {} /\ Builds # {} /\ NoFile \notin [package : Package, build : Builds]
  /\ Versions \subseteq Nat /\ MaxCrashes \in Nat
  /\ RequestFailures \subseteq {"TIMEOUT", "NOT_FOUND", "SERVER_REJECTED", "PROTOCOL_ERROR", "INVALID_ARGUMENT",
                                "AUTHENTICATION_FAILED", "ENDPOINT_UNREACHABLE"}

VARIABLES
  file,      \* .alpackages: the file of each package
  meddled,   \* downloads whose destination another server wrote while they installed
  left,      \* packages with a .backup nobody will remove any more
  download,  \* per download: the locals of downloadPackage and installPackage
  tails,     \* installTails of each server: who holds and who awaits a destination
  crashes

diskVars == <<file, meddled, left, download, tails, crashes>>

Selector == [app : App, version : Versions]       \* version is a minimum
Content == [package : Package, build : Builds]    \* validated bytes

Steps == {"idle", "request", "waiting", "writing", "renaming", "backup", "swapping", "restoring", "dropping", "over", "dead"}
Installing == Steps \ {"idle", "request", "over", "dead"}

Installed == {"downloaded", "replaced", "unchanged"}
Results == Installed \cup RequestFailures \cup {"", "PROTOCOL_ERROR", "CONFIGURATION_ERROR"}

Download ==
  [step : Steps, server : Servers, wanted : Selector, content : Content, existing : Content \cup {NoFile},
   backup : Content \cup {NoFile}, result : Results, warning : BOOLEAN]

DiskTypeOK ==
  /\ file \in [Package -> Content \cup {NoFile}]
  /\ \A p \in Package : file[p] # NoFile => file[p].package = p
  /\ left \subseteq Package /\ meddled \subseteq Downloads
  /\ download \in [Downloads -> Download]
  /\ \A d \in Downloads :
       /\ download[d].step \in {"swapping", "restoring", "dropping"} <=> download[d].backup # NoFile
       /\ \A s \in Servers, p \in Package :
            d \in ToSet(tails[<<s, p>>]) <=> s = download[d].server /\ download[d].step \in Installing /\ p = download[d].content.package
  /\ crashes \in 0..MaxCrashes

SomeContent == CHOOSE c \in Content : TRUE
NoDownload ==
  [step |-> "idle", server |-> CHOOSE s \in Servers : TRUE, wanted |-> SomeContent.package, content |-> SomeContent,
   existing |-> NoFile, backup |-> NoFile, result |-> "", warning |-> FALSE]

DiskInit(cached) ==
  /\ file = [p \in Package |-> IF p \in cached THEN [SomeContent EXCEPT !.package = p] ELSE NoFile]
  /\ left = {} /\ meddled = {}
  /\ download = [d \in Downloads |-> NoDownload]
  /\ tails = [x \in Servers \X Package |-> <<>>]
  /\ crashes = 0

Dest(d) == download[d].content.package
Queue(d) == <<download[d].server, Dest(d)>>
Goes(d, step) == download' = [download EXCEPT ![d].step = step]

Request(d, s, wanted) ==
  /\ download[d].step = "idle"
  /\ download' = [download EXCEPT ![d] = [NoDownload EXCEPT !.step = "request", !.server = s, !.wanted = wanted]]
  /\ meddled' = meddled \ {d}
  /\ UNCHANGED <<file, left, tails, crashes>>

\* packageIdentity: an archive that is another package, or too old, is refused.  An app is told from
\* others by publisher, name and ID; Microsoft/Application, whose ID is neither sent nor compared, by
\* publisher and name alone, so there is one app of that name
Satisfies(package, wanted) == package.app = wanted.app /\ package.version >= wanted.version

\* the answer is validated, and the download joins the queue of its destination
Answered(d) ==
  /\ download[d].step = "request"
  /\ \E c \in Content :
       IF Satisfies(c.package, download[d].wanted)
         THEN /\ download' = [download EXCEPT ![d].step = "waiting", ![d].content = c]
              /\ tails' = [tails EXCEPT ![<<download[d].server, c.package>>] = Append(@, d)]
         ELSE /\ download' = [download EXCEPT ![d].step = "over", ![d].result = "PROTOCOL_ERROR"]
              /\ UNCHANGED tails
  /\ UNCHANGED <<file, meddled, left, crashes>>

\* refused, not found, too large, not an archive, unreachable or timed out
RequestFails(d) ==
  /\ download[d].step = "request"
  /\ \E failure \in RequestFailures : download' = [download EXCEPT ![d].step = "over", ![d].result = failure]
  /\ UNCHANGED <<file, meddled, left, tails, crashes>>

\* as if previous were not awaited
AnyTurn(d) == TRUE

\* withInstallLock
MyTurn(d) == Head(tails[Queue(d)]) = d

\* the download gives its turn up; the temporary file goes with the call, and its name is unique, so
\* nobody else sees it
Ends(d, result, warning) ==
  /\ download' = [download EXCEPT ![d].step = "over", ![d].result = result, ![d].warning = warning, ![d].backup = NoFile]
  /\ tails' = [tails EXCEPT ![Queue(d)] = Tail(@)]
  /\ UNCHANGED crashes

InstallFails(d) == Ends(d, "CONFIGURATION_ERROR", FALSE) /\ UNCHANGED <<file, meddled, left>>

ReadExisting(d) ==
  /\ download[d].step = "waiting" /\ MyTurn(d)
  /\ IF file[Dest(d)] = download[d].content
       THEN Ends(d, "unchanged", FALSE)
       ELSE /\ download' = [download EXCEPT ![d].step = "writing", ![d].existing = file[Dest(d)]]
            /\ UNCHANGED <<tails, crashes>>
  /\ UNCHANGED <<file, meddled, left>>

WriteTemp(d) ==
  /\ download[d].step = "writing"
  /\ Goes(d, "renaming")
  /\ UNCHANGED <<file, meddled, left, tails, crashes>>

Put(d, content) ==
  /\ file' = [file EXCEPT ![Dest(d)] = content]
  /\ meddled' = meddled \cup {e \in Downloads : download[e].server # download[d].server /\ download[e].step \in Installing /\ Dest(e) = Dest(d)}

Rename(d) ==
  /\ download[d].step = "renaming"
  /\ Put(d, download[d].content)
  /\ Ends(d, IF download[d].existing = NoFile THEN "downloaded" ELSE "replaced", FALSE)
  /\ UNCHANGED left

\* EEXIST or EPERM, and there was a file to replace
RenameRefused(d) ==
  /\ download[d].step = "renaming"
  /\ download[d].existing # NoFile
  /\ Goes(d, "backup")
  /\ UNCHANGED <<file, meddled, left, tails, crashes>>

MoveAside(d) ==
  /\ download[d].step = "backup" /\ file[Dest(d)] # NoFile
  /\ download' = [download EXCEPT ![d].step = "swapping", ![d].backup = file[Dest(d)]]
  /\ Put(d, NoFile)
  /\ UNCHANGED <<left, tails, crashes>>

Swap(d) ==
  /\ download[d].step = "swapping"
  /\ \/ Put(d, download[d].content) /\ Goes(d, "dropping")
     \/ UNCHANGED <<file, meddled>> /\ Goes(d, "restoring")
  /\ UNCHANGED <<left, tails, crashes>>

\* the backup goes back, or stays beside the missing destination
Restore(d) ==
  /\ download[d].step = "restoring"
  /\ Ends(d, "CONFIGURATION_ERROR", FALSE)
  /\ \/ Put(d, download[d].backup) /\ UNCHANGED left
     \/ left' = left \cup {Dest(d)} /\ UNCHANGED <<file, meddled>>

DropBackup(d) ==
  /\ download[d].step = "dropping"
  /\ \E removed \in BOOLEAN :
       /\ left' = IF removed THEN left ELSE left \cup {Dest(d)}
       /\ Ends(d, "replaced", ~removed)
  /\ UNCHANGED <<file, meddled>>

\* any step of the installation before the destination is moved aside may fail
StepFails(d) ==
  /\ \/ download[d].step = "waiting" /\ MyTurn(d)
     \/ download[d].step \in {"writing", "renaming", "backup"}
  /\ InstallFails(d)

\* the process of a server dies: its queues go with it, its temporary and backup files stay
Crash(s) ==
  LET mine == {d \in Downloads : download[d].server = s /\ download[d].step \notin {"idle", "dead"}} IN
  /\ crashes < MaxCrashes /\ crashes' = crashes + 1
  /\ mine # {}
  /\ left' = left \cup {Dest(d) : d \in {e \in mine : download[e].backup # NoFile}}
  /\ download' = [d \in Downloads |-> IF d \in mine THEN [NoDownload EXCEPT !.step = "dead"] ELSE download[d]]
  /\ tails' = [x \in Servers \X Package |-> IF x[1] = s THEN <<>> ELSE tails[x]]
  /\ UNCHANGED <<file, meddled>>

Step(d) ==
  \/ Answered(d) \/ RequestFails(d) \/ ReadExisting(d) \/ WriteTemp(d) \/ Rename(d) \/ RenameRefused(d)
  \/ MoveAside(d) \/ Swap(d) \/ Restore(d) \/ DropBackup(d) \/ StepFails(d)

-----------------------------------------------------------------------------
(* Properties *)

Kept(p) == file[p] # NoFile \/ p \in left \/ \E d \in Downloads : download[d].backup # NoFile /\ Dest(d) = p

(* A package that was in .alpackages stays there, or in a backup beside its
   place: no failure of a rename or a remove, no crash and no second server
   loses it. *)
NothingLost == [][\A p \in Package : Kept(p) => Kept(p)']_diskVars

(* Where no other server wrote the same package meanwhile, a download answers
   what it did: the destination then holds its bytes, "downloaded" only where
   there was no file, "replaced" only where there was another, "unchanged" only
   where nothing was written. *)
AnswersWhatItDid ==
  [][\A d \in Downloads \ meddled' :
       download[d].step \in Installing /\ download'[d].step = "over" /\ download'[d].result \in Installed
         => /\ file'[Dest(d)] = download[d].content
            /\ download'[d].result = "unchanged" => file' = file
            /\ download'[d].result = "downloaded" => file[Dest(d)] = NoFile
            /\ download'[d].result = "replaced" => download[d].existing \notin {NoFile, download[d].content}]_diskVars
=============================================================================
