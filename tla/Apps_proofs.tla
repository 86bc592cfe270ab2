---------------------------- MODULE Apps_proofs ----------------------------
(***************************************************************************)
(* Proofs about the app tools, for any tenant and any number of concurrent  *)
(* calls, about the files of .alpackages, for any number of downloads and   *)
(* servers, and about the worklist of downloadSymbols, for any app.json and *)
(* any graph of packages.                                                   *)
(***************************************************************************)
EXTENDS AppLifecycle, SymbolsDownload, SequenceTheorems, FiniteSetTheorems, WellFoundedInduction, TLAPS

-----------------------------------------------------------------------------
(* The app tools *)

\* What holds of a call k for its POST u, what that undid, what others touched, and the tenant.

Undoes(k) == k.step \in {"action", "after"} /\ k.request.op = "uninstall"

\* How far a call is with its request, and what it may have failed with.
Staged(k, post, gone) ==
  /\ k.step \in {"idle", "company", "before"} => post = "none"
  /\ k.step = "after" => k.request.op = "uninstall" /\ post = "done"
  /\ k.step \in {"company", "before"} => k.request.op # "publish"
  /\ k.step \in {"action", "after"} => k.request.op # "list" /\ k.target \in Release
  /\ k.step # "over" => k.failure = Success /\ k.status = "" /\ k.known = FALSE
  /\ post # "none" => k.request.op # "list" /\ k.target \in Release
  /\ post # "done" => gone = {}
  /\ Undoes(k) => k.target \notin gone

\* What a listing has read is so, but for what other calls changed; what it has not is still to come.
Reads(k, changed, t) ==
  k.step \in {"before", "after"} =>
    \A p \in Release \ changed :
      /\ \A r \in k.rows : r.package = p => p \in t.published /\ (r.isInstalled <=> p \in t.installed)
      /\ p \in t.published /\ p \notin k.todo => \E r \in k.rows : r.package = p

\* The listing before an uninstall is the tenant as it is, up to the effect of the POST.
Compares(k, gone, changed, t) ==
  Undoes(k) =>
    \A p \in Release \ changed : p # k.target =>
      /\ p \in gone => p \notin t.installed
      /\ \A r \in k.before : r.package = p => (r.isInstalled <=> p \in t.installed \cup gone)
      /\ p \in t.installed \cup gone => \E r \in k.before : r.package = p

Reported(k, post, gone, changed) ==
  k.status = "uninstalled" =>
    /\ post = "done"
    /\ k.known => gone \ changed \subseteq k.also \cup k.vanished /\ k.also \cup k.vanished \subseteq gone \cup changed

Blameless(k, post) ==
  k.step = "over" /\ k.failure.retryable /\ post \in {"pending", "done"} => k.failure \in {Unreachable, ServerFault}

Sound(k, post, gone, changed, t) ==
  /\ k \in AppCall /\ (k.failure # Success => k.status = "")
  /\ Staged(k, post, gone) /\ Reads(k, changed, t) /\ Compares(k, gone, changed, t)
  /\ Reported(k, post, gone, changed) /\ Blameless(k, post)

SoundCall(c) == Sound(call[c], upstream[c], undone[c], touched[c], tenant)

AppInv ==
  /\ AppTypeOK /\ DOMAIN call = Calls
  /\ \A c \in Calls : SoundCall(c)

LEMMA AppInvImplies == AppInv => AppsHonest
<1> SUFFICES ASSUME AppInv PROVE AppTypeOK /\ CascadeReported /\ NoBlindRetry
  BY DEF AppsHonest
<1>1. ASSUME NEW c \in Calls
      PROVE  Reported(call[c], upstream[c], undone[c], touched[c]) /\ Blameless(call[c], upstream[c])
  BY DEF AppInv, SoundCall, Sound
<1> QED
  BY <1>1 DEF AppInv, CascadeReported, NoBlindRetry, Reported, Blameless

LEMMA NoAppCallTyped == NoAppCall \in AppCall /\ AppRequest # {}
<1>1. SomeRequest \in AppRequests
  BY AppAssumption DEF SomeRequest
<1>2. SomeRequest \in AppRequest
  BY <1>1, AppAssumption
<1>3. 0 \in 0..MaxListPages - 1
  BY AppAssumption
<1> QED
  BY <1>1, <1>2, <1>3 DEF NoAppCall, AppCall, AppSteps

LEMMA AppInitOK == AppInit => AppInv
<1> SUFFICES ASSUME AppInit PROVE AppInv
  OBVIOUS
<1>1. ASSUME NEW c \in Calls PROVE SoundCall(c)
  <2>1. call[c] = NoAppCall /\ upstream[c] = "none" /\ undone[c] = {} /\ touched[c] = {}
    BY DEF AppInit
  <2>2. NoAppCall.step = "idle" /\ NoAppCall.failure = Success /\ NoAppCall.status = "" /\ NoAppCall.known = FALSE
    BY DEF NoAppCall
  <2> QED
    BY <2>1, <2>2, NoAppCallTyped
       DEF SoundCall, Sound, Staged, Undoes, Reads, Compares, Reported, Blameless
<1>2. AppTypeOK
  BY <1>1, AppAssumption DEF AppInit, AppTypeOK, SoundCall, Sound
<1> QED
  BY <1>1, <1>2 DEF AppInv, AppInit

\* Only the locals of one call change.
LEMMA LocalKept ==
  ASSUME AppInv, NEW c \in Calls, NEW k, call' = [call EXCEPT ![c] = k], LocalOnly,
         Sound(k, upstream[c], undone[c], touched[c], tenant)
  PROVE  AppInv'
<1>1. ASSUME NEW d \in Calls PROVE SoundCall(d)'
  <2>1. CASE d = c
    BY <2>1 DEF AppInv, LocalOnly, SoundCall
  <2>2. CASE d # c
    <3>1. call'[d] = call[d]
      BY <2>2 DEF AppInv
    <3> QED
      BY <3>1 DEF AppInv, LocalOnly, SoundCall
  <2> QED
    BY <2>1, <2>2
<1>2. AppTypeOK'
  BY <1>1 DEF AppInv, AppTypeOK, LocalOnly, SoundCall, Sound
<1> QED
  BY <1>1, <1>2 DEF AppInv

Statuses == {"", "listed", "published", "uninstalled", "alreadyUninstalled", "unpublished"}

LEMMA OverTyped ==
  ASSUME NEW k \in AppCall, NEW status \in Statuses
  PROVE  LET x == Over(k, status) IN
         /\ x \in AppCall /\ x.step = "over" /\ x.status = status
         /\ x.request = k.request /\ x.target = k.target /\ x.failure = k.failure /\ x.known = k.known
BY DEF Over, AppCall, AppSteps, Statuses

LEMMA FailsTyped ==
  ASSUME NEW k \in AppCall, NEW failure \in Failures
  PROVE  LET x == Fails(k, failure) IN
         /\ x \in AppCall /\ x.step = "over" /\ x.status = "" /\ x.failure = failure
         /\ x.request = k.request /\ x.target = k.target /\ x.known = k.known
BY DEF Fails, Over, AppCall, AppSteps

\* A call that ends without a report.
LEMMA OverSound ==
  ASSUME NEW k \in AppCall, NEW x \in AppCall, NEW post, NEW gone, NEW changed, NEW t,
         Staged(k, post, gone), k.step # "over",
         x.step = "over", x.request = k.request, x.target = k.target, x.known = FALSE,
         x.failure = Success \/ x.status = "", x.status = "uninstalled" => post = "done",
         x.failure.retryable /\ post \in {"pending", "done"} => x.failure \in {Unreachable, ServerFault}
  PROVE  Sound(x, post, gone, changed, t)
BY DEF Sound, Staged, Reads, Compares, Undoes, Reported, Blameless

LEMMA EndsSound ==
  ASSUME NEW k \in AppCall, NEW status \in Statuses, NEW post, NEW gone, NEW changed, NEW t,
         Staged(k, post, gone), k.step # "over", status = "uninstalled" => post = "done"
  PROVE  Sound(Over(k, status), post, gone, changed, t)
<1>1. k.failure = Success /\ k.known = FALSE
  BY DEF Staged, AppCall
<1>2. Success.retryable = FALSE
  BY DEF Success, Failure
<1> DEFINE x == Over(k, status)
<1>3. /\ x \in AppCall /\ x.step = "over" /\ x.status = status /\ x.request = k.request /\ x.target = k.target
      /\ x.failure = Success /\ x.known = FALSE
  BY <1>1, OverTyped
<1> HIDE DEF x
<1>4. Sound(x, post, gone, changed, t)
  BY <1>2, <1>3, OverSound
<1> QED
  BY <1>4 DEF x

LEMMA FailsSound ==
  ASSUME NEW k \in AppCall, NEW failure \in Failures, NEW post, NEW gone, NEW changed, NEW t,
         Staged(k, post, gone), k.step # "over",
         failure.retryable /\ post \in {"pending", "done"} => failure \in {Unreachable, ServerFault}
  PROVE  Sound(Fails(k, failure), post, gone, changed, t)
<1>1. k.known = FALSE
  BY DEF Staged, AppCall
<1> DEFINE x == Fails(k, failure)
<1>2. /\ x \in AppCall /\ x.step = "over" /\ x.status = "" /\ x.request = k.request /\ x.target = k.target
      /\ x.failure = failure /\ x.known = FALSE
  BY <1>1, FailsTyped
<1> HIDE DEF x
<1>3. Sound(x, post, gone, changed, t)
  BY <1>2, OverSound
<1> QED
  BY <1>3 DEF x

LEMMA ListingTyped ==
  ASSUME NEW k \in AppCall, NEW step \in AppSteps
  PROVE  LET x == Listing(k, step) IN
         /\ x \in AppCall /\ x.step = step /\ x.rows = {} /\ x.todo = Release
         /\ x.request = k.request /\ x.target = k.target /\ x.before = k.before
         /\ x.failure = k.failure /\ x.status = k.status /\ x.known = k.known
<1>1. 0 \in 0..MaxListPages - 1
  BY AppAssumption
<1> QED
  BY <1>1 DEF AppCall, Listing

\* A call that has not sent anything has little to keep.
LEMMA UnsentSound ==
  ASSUME NEW k \in AppCall, NEW post, NEW gone, NEW changed, NEW t, post = "none", gone = {},
         k.failure = Success, k.status = "", k.known = FALSE,
         \/ k.step = "action" /\ k.request.op = "publish" /\ k.target \in Release
         \/ k.step = "company" /\ k.request.op # "publish"
         \/ k.step = "before" /\ k.request.op # "publish" /\ k.rows = {} /\ k.todo = Release
  PROVE  Sound(k, post, gone, changed, t)
BY DEF Sound, Staged, Reads, Compares, Undoes, Reported, Blameless

LEMMA BeginAppCallOK ==
  ASSUME AppInv, NEW c \in Calls, BeginAppCall(c)
  PROVE  AppInv'
<1>1. PICK r \in AppRequests, knowsCompany \in BOOLEAN :
        call' = [call EXCEPT ![c] = IF r.op = "publish" THEN [[NoAppCall EXCEPT !.request = r] EXCEPT !.step = "action", !.target = r.subject]
                                   ELSE IF knowsCompany THEN Listing([NoAppCall EXCEPT !.request = r], "before")
                                   ELSE [[NoAppCall EXCEPT !.request = r] EXCEPT !.step = "company"]]
  BY DEF BeginAppCall
<1> DEFINE n == [NoAppCall EXCEPT !.request = r]
<1>2. r \in AppRequest
  BY AppAssumption
<1>3. /\ n \in AppCall /\ n.request = r /\ n.failure = Success /\ n.status = "" /\ n.known = FALSE
  BY <1>2, NoAppCallTyped DEF AppCall, NoAppCall
<1>4. LocalOnly /\ upstream[c] = "none" /\ undone[c] = {}
  BY DEF BeginAppCall, AppInv, SoundCall, Sound, Staged
<1>5. CASE r.op = "publish"
  <2>1. r.subject \in Release
    BY <1>2, <1>5 DEF AppRequest
  <2> DEFINE k == [n EXCEPT !.step = "action", !.target = r.subject]
  <2>2. /\ k \in AppCall /\ k.step = "action" /\ k.request = r /\ k.failure = Success /\ k.status = "" /\ k.known = FALSE
        /\ k.target \in Release
    BY <1>3, <2>1 DEF AppCall, AppSteps
  <2>3. call' = [call EXCEPT ![c] = k]
    BY <1>1, <1>5
  <2> HIDE DEF n, k
 
  <2>9. Sound(k, upstream[c], undone[c], touched[c], tenant)
    BY <1>4, <1>5, <2>2, <2>3, UnsentSound
  <2> QED
    BY <1>4, <2>2, <2>3, <2>9, LocalKept
<1>6. CASE r.op # "publish" /\ knowsCompany
  <2> DEFINE k == Listing(n, "before")
  <2>1. /\ k \in AppCall /\ k.step = "before" /\ k.request = r /\ k.failure = Success /\ k.status = "" /\ k.known = FALSE
        /\ k.rows = {} /\ k.todo = Release
    BY <1>3, ListingTyped DEF n, AppSteps
  <2>2. call' = [call EXCEPT ![c] = k]
    BY <1>1, <1>6
  <2> HIDE DEF n, k
 
  <2>9. Sound(k, upstream[c], undone[c], touched[c], tenant)
    BY <1>4, <1>6, <2>1, <2>2, UnsentSound
  <2> QED
    BY <1>4, <2>1, <2>2, <2>9, LocalKept
<1>7. CASE r.op # "publish" /\ ~knowsCompany
  <2> DEFINE k == [n EXCEPT !.step = "company"]
  <2>1. /\ k \in AppCall /\ k.step = "company" /\ k.request = r /\ k.failure = Success /\ k.status = "" /\ k.known = FALSE
    BY <1>3 DEF AppCall, AppSteps
  <2>2. call' = [call EXCEPT ![c] = k]
    BY <1>1, <1>7
  <2> HIDE DEF n, k
 
  <2>9. Sound(k, upstream[c], undone[c], touched[c], tenant)
    BY <1>4, <1>7, <2>1, <2>2, UnsentSound
  <2> QED
    BY <1>4, <2>1, <2>2, <2>9, LocalKept
<1> QED
  BY <1>5, <1>6, <1>7

\* What is known of a call when it moves.
LEMMA CallFacts ==
  ASSUME AppInv, NEW c \in Calls
  PROVE  /\ call[c] \in AppCall /\ Staged(call[c], upstream[c], undone[c]) /\ (call[c].failure # Success => call[c].status = "")
         /\ Reads(call[c], touched[c], tenant) /\ Compares(call[c], undone[c], touched[c], tenant)
         /\ Reported(call[c], upstream[c], undone[c], touched[c]) /\ Blameless(call[c], upstream[c])
BY DEF AppInv, SoundCall, Sound

LEMMA FailuresTyped ==
  /\ Failure("INVALID_ARGUMENT", FALSE) \in Failures /\ Failure("NOT_FOUND", FALSE) \in Failures
  /\ TimedOut("POST") \in Failures /\ {Unreachable, ServerFault} \subseteq Failures
  /\ Rejections \subseteq Failures /\ ReadFailures \subseteq Failures
  /\ Failure("INVALID_ARGUMENT", FALSE).retryable = FALSE /\ Failure("NOT_FOUND", FALSE).retryable = FALSE
  /\ TimedOut("POST").retryable = FALSE
  /\ \A failure \in Rejections : failure.retryable = FALSE
<1>1. TimedOut("POST") = Failure("TIMEOUT", FALSE) /\ TimedOut("POST") \in Failures
  BY DEF TimedOut, Failure, Failures
<1>2. \A code : Failure(code, FALSE).retryable = FALSE
  BY DEF Failure
<1>3. /\ Failure("INVALID_ARGUMENT", FALSE) \in Refusals /\ Failure("NOT_FOUND", FALSE) \in Refusals
      /\ Refusals \subseteq Failures /\ Rejections \subseteq ReadFailures /\ ReadFailures \subseteq Failures
      /\ {Unreachable, ServerFault} \subseteq ReadFailures
  BY DEF Failures, ReadFailures, Refusals
<1>4. \A failure \in Rejections : failure.retryable = FALSE
  BY <1>2 DEF Rejections
<1> QED
  BY <1>1, <1>2, <1>3, <1>4

LEMMA BadAppFileOK ==
  ASSUME AppInv, NEW c \in Calls, BadAppFile(c)
  PROVE  AppInv'
<1> DEFINE x == Fails(call[c], Failure("INVALID_ARGUMENT", FALSE))
<1>1. call' = [call EXCEPT ![c] = x] /\ LocalOnly /\ call[c].step = "action"
  BY DEF BadAppFile, AppInv
<1>2. Sound(x, upstream[c], undone[c], touched[c], tenant)
  BY <1>1, CallFacts, FailuresTyped, FailsSound
<1> QED
  BY <1>1, <1>2, LocalKept

LEMMA ResolveCompanyOK ==
  ASSUME AppInv, NEW c \in Calls, ResolveCompany(c)
  PROVE  AppInv'
<1> DEFINE x == Listing(call[c], "before")
<1>1. call' = [call EXCEPT ![c] = x] /\ LocalOnly /\ call[c].step = "company"
  BY DEF ResolveCompany, AppInv
<1>2. /\ x \in AppCall /\ x.step = "before" /\ x.rows = {} /\ x.todo = Release
      /\ x.request = call[c].request /\ x.failure = call[c].failure /\ x.status = call[c].status /\ x.known = call[c].known
  BY CallFacts, ListingTyped DEF AppSteps
<1>3. /\ call[c].request.op # "publish" /\ call[c].failure = Success /\ call[c].status = "" /\ call[c].known = FALSE
      /\ upstream[c] = "none" /\ undone[c] = {}
  BY <1>1, CallFacts DEF Staged, AppCall
<1> HIDE DEF x
<1>4. Sound(x, upstream[c], undone[c], touched[c], tenant)
  BY <1>2, <1>3, UnsentSound
<1> QED
  BY <1>1, <1>4, LocalKept

LEMMA ReadFailsOK ==
  ASSUME AppInv, NEW c \in Calls, ReadFails(c)
  PROVE  AppInv'
<1>1. LocalOnly /\ call[c].step \in {"company", "before", "after"}
  BY DEF ReadFails
<1>2. CASE call[c].step = "after"
  <2>1. call' = [call EXCEPT ![c] = Over(call[c], "uninstalled")]
    BY <1>1, <1>2 DEF ReadFails, AfterListFailed
  <2>2. upstream[c] = "done"
    BY <1>2, CallFacts DEF Staged
  <2>3. Sound(Over(call[c], "uninstalled"), upstream[c], undone[c], touched[c], tenant)
    BY <1>2, <2>2, CallFacts, EndsSound DEF Statuses
  <2> QED
    BY <1>1, <2>1, <2>3, LocalKept
<1>3. CASE call[c].step # "after"
  <2>1. PICK failure \in ReadFailures : call' = [call EXCEPT ![c] = Fails(call[c], failure)]
    BY <1>1, <1>3 DEF ReadFails
  <2>2. upstream[c] = "none"
    BY <1>1, <1>3, CallFacts DEF Staged
  <2>3. Sound(Fails(call[c], failure), upstream[c], undone[c], touched[c], tenant)
    BY <1>1, <2>2, CallFacts, FailuresTyped, FailsSound
  <2> QED
    BY <1>1, <2>1, <2>3, LocalKept
<1> QED
  BY <1>2, <1>3

LEMMA PostTimesOutOK ==
  ASSUME AppInv, NEW c \in Calls, PostTimesOut(c)
  PROVE  AppInv'
<1>1. call' = [call EXCEPT ![c] = Fails(call[c], TimedOut("POST"))] /\ LocalOnly /\ call[c].step = "action"
  BY DEF PostTimesOut, AppInv
<1>2. Sound(Fails(call[c], TimedOut("POST")), upstream[c], undone[c], touched[c], tenant)
  BY <1>1, CallFacts, FailuresTyped, FailsSound
<1> QED
  BY <1>1, <1>2, LocalKept

LEMMA PostBreaksOK ==
  ASSUME AppInv, NEW c \in Calls, PostBreaks(c)
  PROVE  AppInv'
<1>1. LocalOnly /\ call[c].step = "action"
  BY DEF PostBreaks
<1>2. PICK failure \in {Unreachable, ServerFault} : call' = [call EXCEPT ![c] = Fails(call[c], failure)]
  BY DEF PostBreaks, AppInv
<1>3. Sound(Fails(call[c], failure), upstream[c], undone[c], touched[c], tenant)
  BY <1>1, CallFacts, FailuresTyped, FailsSound
<1> QED
  BY <1>1, <1>2, <1>3, LocalKept

\* Only the POST of one call changes.
LEMMA PostKept ==
  ASSUME AppInv, NEW c \in Calls, NEW post \in {"none", "pending", "done", "refused"},
         upstream' = [upstream EXCEPT ![c] = post], UNCHANGED <<tenant, call, undone, touched>>,
         Sound(call[c], post, undone[c], touched[c], tenant)
  PROVE  AppInv'
<1>1. upstream \in [Calls -> {"none", "pending", "done", "refused"}]
  BY DEF AppInv, AppTypeOK
<1>2. ASSUME NEW d \in Calls PROVE SoundCall(d)'
  <2>1. CASE d = c
    BY <1>1, <2>1 DEF SoundCall
  <2>2. CASE d # c
    BY <1>1, <2>2 DEF AppInv, SoundCall
  <2> QED
    BY <2>1, <2>2
<1> QED
  BY <1>1, <1>2 DEF AppInv, AppTypeOK

LEMMA PostOK ==
  ASSUME AppInv, NEW c \in Calls, Post(c)
  PROVE  AppInv'
<1>1. /\ call[c].step = "action" /\ upstream[c] = "none"
      /\ upstream' = [upstream EXCEPT ![c] = "pending"] /\ UNCHANGED <<tenant, call, undone, touched>>
  BY DEF Post
<1>2. Sound(call[c], "pending", undone[c], touched[c], tenant)
  BY <1>1, CallFacts DEF Sound, Staged, Reported, Blameless
<1> QED
  BY <1>1, <1>2, PostKept

LEMMA RefuseOK ==
  ASSUME AppInv, NEW c \in Calls, Refuse(c)
  PROVE  AppInv'
<1>1. /\ upstream[c] = "pending"
      /\ upstream' = [upstream EXCEPT ![c] = "refused"] /\ UNCHANGED <<tenant, call, undone, touched>>
  BY DEF Refuse
<1>2. Sound(call[c], "refused", undone[c], touched[c], tenant)
  BY <1>1, CallFacts DEF Sound, Staged, Reported, Blameless
<1> QED
  BY <1>1, <1>2, PostKept

Tenant == [published : SUBSET Release, installed : SUBSET Release]

\* A POST leaves a tenant whose installed packages are published, and an uninstall installs nothing.
LEMMA EffectTyped ==
  ASSUME AppInv, NEW k \in AppCall, k.request.op # "list", k.target \in Release, Allowed(k)
  PROVE  /\ Effect(k) \in Tenant /\ Effect(k).installed \subseteq Effect(k).published
         /\ k.request.op = "uninstall" => Effect(k).installed \subseteq tenant.installed
<1>1. /\ tenant \in Tenant /\ tenant.installed \subseteq tenant.published
  BY DEF AppInv, AppTypeOK, Tenant
<1>2. CASE k.request.op = "publish"
  <2>1. Effect(k) = [published |-> tenant.published \cup {k.target}, installed |-> (tenant.installed \ SameApp(k.target)) \cup {k.target}]
    BY <1>2 DEF Effect
  <2> QED
    BY <1>1, <1>2, <2>1 DEF Tenant
<1>3. CASE k.request.op = "uninstall"
  <2>1. Effect(k) = [tenant EXCEPT !.installed = @ \ ({k.target} \cup Dependents(k.target))]
    BY <1>3 DEF Effect
  <2> QED
    BY <1>1, <2>1 DEF Tenant
<1>4. CASE k.request.op = "unpublish"
  <2>1. Effect(k) = [tenant EXCEPT !.published = @ \ {k.target}] /\ k.target \notin tenant.installed
    BY <1>4 DEF Effect, Allowed
  <2> QED
    BY <1>1, <1>4, <2>1 DEF Tenant
<1>5. k.request.op \in {"list", "uninstall", "unpublish", "publish"}
  BY DEF AppCall, AppRequest
<1> QED
  BY <1>2, <1>3, <1>4, <1>5

LEMMA PerformOK ==
  ASSUME AppInv, NEW c \in Calls, Perform(c)
  PROVE  AppInv'
<1> DEFINE k == call[c]
           new == Effect(k)
<1>1. /\ upstream[c] = "pending" /\ Allowed(k) /\ tenant' = new /\ UNCHANGED call
      /\ upstream' = [upstream EXCEPT ![c] = "done"]
      /\ undone' = [undone EXCEPT ![c] = (tenant.installed \ new.installed) \ {k.target}]
      /\ touched' = [d \in Calls |-> IF d # c /\ Running(d) THEN touched[d] \cup Changed(new) ELSE touched[d]]
  BY DEF Perform
<1>2. k \in AppCall /\ k.request.op # "list" /\ k.target \in Release /\ undone[c] = {}
  BY <1>1, CallFacts DEF Staged
<1>3. /\ new \in Tenant /\ new.installed \subseteq new.published
      /\ k.request.op = "uninstall" => new.installed \subseteq tenant.installed
  BY <1>1, <1>2, EffectTyped
<1>4. /\ upstream \in [Calls -> {"none", "pending", "done", "refused"}]
      /\ undone \in [Calls -> SUBSET Release] /\ touched \in [Calls -> SUBSET Release]
      /\ tenant \in Tenant /\ tenant.installed \subseteq tenant.published
  BY DEF AppInv, AppTypeOK, Tenant
<1>5. /\ upstream' \in [Calls -> {"none", "pending", "done", "refused"}]
      /\ undone' \in [Calls -> SUBSET Release] /\ touched' \in [Calls -> SUBSET Release]
  BY <1>1, <1>4 DEF Changed, Tenant
<1>6. ASSUME NEW p \in Release \ Changed(new)
      PROVE  (p \in tenant.installed <=> p \in new.installed) /\ (p \in tenant.published <=> p \in new.published)
  BY DEF Changed
<1> HIDE DEF new
<1>7. SoundCall(c)'
  <2>1. /\ upstream'[c] = "done" /\ undone'[c] = (tenant.installed \ new.installed) \ {k.target}
        /\ touched'[c] = touched[c]
    BY <1>1, <1>4
  <2>2. k.step \in {"action", "over"}
    BY <1>1, <1>2, CallFacts DEF Staged, AppCall, AppSteps
  <2>3. Staged(k, "done", undone'[c])
    BY <1>2, <2>1, <2>2, CallFacts DEF Staged, Undoes
  <2>4. Compares(k, undone'[c], touched[c], new)
    <3> SUFFICES ASSUME Undoes(k), NEW p \in Release \ touched[c], p # k.target
                 PROVE  /\ p \in undone'[c] => p \notin new.installed
                        /\ \A r \in k.before : r.package = p => (r.isInstalled <=> p \in new.installed \cup undone'[c])
                        /\ p \in new.installed \cup undone'[c] => \E r \in k.before : r.package = p
      BY DEF Compares
    <3>1. p \in new.installed \cup undone'[c] <=> p \in tenant.installed
      BY <1>3, <2>1 DEF Undoes
    <3>2. /\ \A r \in k.before : r.package = p => (r.isInstalled <=> p \in tenant.installed \cup undone[c])
          /\ p \in tenant.installed \cup undone[c] => \E r \in k.before : r.package = p
      BY CallFacts DEF Compares
    <3> QED
      BY <1>2, <2>1, <3>1, <3>2
  <2>5. Reads(k, touched[c], new) /\ Reported(k, "done", undone'[c], touched[c]) /\ Blameless(k, "done")
    BY <1>1, <2>2, CallFacts DEF Reads, Reported, Blameless
  <2> QED
    BY <1>1, <1>2, <2>1, <2>3, <2>4, <2>5, CallFacts DEF SoundCall, Sound
<1>8. ASSUME NEW d \in Calls, d # c PROVE SoundCall(d)'
  <2> DEFINE n == call[d]
  <2>1. upstream'[d] = upstream[d] /\ undone'[d] = undone[d]
    BY <1>1, <1>4, <1>8
  <2>2. n \in AppCall /\ (n.failure # Success => n.status = "") /\ Staged(n, upstream[d], undone[d]) /\ Blameless(n, upstream[d])
    BY CallFacts
  <2>3. CASE Running(d)
    <3>1. touched'[d] = touched[d] \cup Changed(new)
      BY <1>1, <1>8, <2>3 DEF new
    <3> DEFINE then == touched'[d]
               now == touched[d]
    <3>2. Reads(n, now, tenant) /\ Compares(n, undone[d], now, tenant)
      BY CallFacts
    <3>3. \A p \in Release \ then : p \in Release \ now /\ (p \in tenant.installed <=> p \in new.installed)
                                    /\ (p \in tenant.published <=> p \in new.published)
      BY <1>6, <3>1
    <3> HIDE DEF n, then, now
    <3>4. Reads(n, then, new)
      BY <3>2, <3>3 DEF Reads
    <3>5. Compares(n, undone[d], then, new)
      BY <3>2, <3>3 DEF Compares
    <3> USE DEF n, then, now
    <3>6. Reported(n, upstream[d], undone[d], touched'[d])
      BY <2>2, <2>3 DEF Reported, Staged, Running
    <3> QED
      BY <1>1, <2>1, <2>2, <3>4, <3>5, <3>6 DEF SoundCall, Sound
  <2>4. CASE ~Running(d)
    <3>1. touched'[d] = touched[d]
      BY <1>1, <2>4
    <3>2. Reads(n, touched[d], new) /\ Compares(n, undone[d], touched[d], new)
      BY <2>4 DEF Reads, Compares, Undoes, Running
    <3> QED
      BY <1>1, <2>1, <2>2, <3>1, <3>2, CallFacts DEF SoundCall, Sound
  <2> QED
    BY <2>3, <2>4
<1>9. AppTypeOK'
  <2>1. \A d \in Calls : call'[d] \in AppCall /\ (call'[d].failure # Success => call'[d].status = "")
    BY <1>1, CallFacts
  <2> QED
    BY <1>1, <1>3, <1>5, <2>1 DEF AppTypeOK, Tenant
<1> QED
  BY <1>1, <1>7, <1>8, <1>9 DEF AppInv

LEMMA PostAnsweredOK ==
  ASSUME AppInv, NEW c \in Calls, PostAnswered(c)
  PROVE  AppInv'
<1> DEFINE k == call[c]
<1>1. k.step = "action" /\ LocalOnly
  BY DEF PostAnswered
<1>2. /\ k \in AppCall /\ k.request.op \in {"publish", "unpublish", "uninstall"} /\ k.target \in Release
      /\ Staged(k, upstream[c], undone[c])
  BY <1>1, CallFacts DEF Staged, AppCall, AppRequest
<1>3. CASE upstream[c] = "done"
  <2>1. call' = [call EXCEPT ![c] = CASE k.request.op = "publish" -> Over(k, "published")
                                       [] k.request.op = "unpublish" -> Over(k, "unpublished")
                                       [] k.request.op = "uninstall" -> Listing(k, "after")]
    BY <1>3 DEF PostAnswered, AppInv
  <2>2. CASE k.request.op = "publish"
    <3>1. call' = [call EXCEPT ![c] = Over(k, "published")]
      BY <2>1, <2>2
    <3>2. Sound(Over(k, "published"), upstream[c], undone[c], touched[c], tenant)
      BY <1>1, <1>2, EndsSound DEF Statuses
    <3> QED
      BY <1>1, <3>1, <3>2, LocalKept
  <2>3. CASE k.request.op = "unpublish"
    <3>1. call' = [call EXCEPT ![c] = Over(k, "unpublished")]
      BY <2>1, <2>3
    <3>2. Sound(Over(k, "unpublished"), upstream[c], undone[c], touched[c], tenant)
      BY <1>1, <1>2, EndsSound DEF Statuses
    <3> QED
      BY <1>1, <3>1, <3>2, LocalKept
  <2>4. CASE k.request.op = "uninstall"
    <3> DEFINE x == Listing(k, "after")
    <3>1. call' = [call EXCEPT ![c] = x]
      BY <2>1, <2>4
    <3>2. /\ x \in AppCall /\ x.step = "after" /\ x.rows = {} /\ x.todo = Release /\ x.request = k.request
          /\ x.target = k.target /\ x.before = k.before
          /\ x.failure = k.failure /\ x.status = k.status /\ x.known = k.known
      BY <1>2, ListingTyped DEF AppSteps
    <3> HIDE DEF x
    <3>3. Staged(x, upstream[c], undone[c]) /\ x.failure = Success /\ x.status = ""
      BY <1>1, <1>2, <1>3, <2>4, <3>2 DEF Staged, Undoes
    <3>4. Compares(x, undone[c], touched[c], tenant)
      <4>1. Compares(k, undone[c], touched[c], tenant) /\ Undoes(k) /\ Undoes(x)
        BY <1>1, <2>4, <3>2, CallFacts DEF Undoes
      <4> HIDE DEF k
      <4> QED
        BY <3>2, <4>1 DEF Compares
    <3>5. Sound(x, upstream[c], undone[c], touched[c], tenant)
      BY <3>2, <3>3, <3>4 DEF Sound, Reads, Reported, Blameless
    <3> QED
      BY <1>1, <3>1, <3>5, LocalKept
  <2> QED
    BY <1>2, <2>2, <2>3, <2>4
<1>4. CASE upstream[c] # "done"
  <2>1. PICK failure \in Rejections : call' = [call EXCEPT ![c] = Fails(k, failure)]
    BY <1>4 DEF PostAnswered, AppInv
  <2>2. Sound(Fails(k, failure), upstream[c], undone[c], touched[c], tenant)
    BY <1>1, <1>2, FailuresTyped, FailsSound
  <2> QED
    BY <1>1, <2>1, <2>2, LocalKept
<1> QED
  BY <1>3, <1>4

\* The second listing is complete: what the POST undid is off in it or missing, and nothing else is.
LEMMA ReportSound ==
  ASSUME NEW k \in AppCall, NEW post, NEW gone, NEW changed, NEW t \in Tenant, NEW x \in Report(k),
         t.installed \subseteq t.published, gone \subseteq Release, k.step = "after", k.todo = {},
         Staged(k, post, gone), Reads(k, changed, t), Compares(k, gone, changed, t)
  PROVE  Sound(x, post, gone, changed, t)
<1> DEFINE off == {p \in WasOn(k) : [package |-> p, isInstalled |-> FALSE] \in k.rows}
           away == {p \in WasOn(k) : p \notin {r.package : r \in k.rows}}
<1>1. WasOn(k) \subseteq Release
  BY DEF WasOn, AppCall, AppRow
<1>2. /\ x \in AppCall /\ x.step = "over" /\ x.request = k.request /\ x.target = k.target /\ x.failure = k.failure
      /\ x.known = TRUE /\ x.also = off /\ x.vanished = away
  <2>1. x = [Over(k, "uninstalled") EXCEPT !.known = TRUE, !.also = off, !.vanished = away]
    BY DEF Report
  <2>2. off \in SUBSET Release /\ away \in SUBSET Release
    BY <1>1
  <2>3. Over(k, "uninstalled") \in AppCall /\ Over(k, "uninstalled").step = "over"
        /\ Over(k, "uninstalled").request = k.request /\ Over(k, "uninstalled").target = k.target
        /\ Over(k, "uninstalled").failure = k.failure
    BY OverTyped DEF Statuses
  <2> HIDE DEF off, away
  <2> QED
    BY <2>1, <2>2, <2>3 DEF AppCall
<1>3. k.request.op = "uninstall" /\ post = "done" /\ k.target \in Release /\ k.failure = Success /\ k.target \notin gone
  BY DEF Staged, Undoes
<1>4. ASSUME NEW p \in Release \ changed, p # k.target
      PROVE  p \in WasOn(k) <=> p \in t.installed \cup gone
  BY <1>3, <1>4 DEF Compares, Undoes, WasOn
<1>5. ASSUME NEW p \in Release \ changed, p \in t.installed
      PROVE  p \notin off \cup away
  <2>1. /\ \A r \in k.rows : r.package = p => r.isInstalled = TRUE
        /\ \E r \in k.rows : r.package = p
    BY <1>5 DEF Reads, AppCall, AppRow, Tenant
  <2>2. [package |-> p, isInstalled |-> FALSE].package = p /\ [package |-> p, isInstalled |-> FALSE].isInstalled = FALSE
    OBVIOUS
  <2> QED
    BY <2>1, <2>2
<1>6. ASSUME NEW p \in WasOn(k), p \notin t.installed, p \in Release \ changed
      PROVE  p \in off \cup away
  <2>1. CASE \E r \in k.rows : r.package = p
    <3>1. PICK r \in k.rows : r.package = p
      BY <2>1
    <3>2. r \in AppRow
      BY DEF AppCall
    <3>3. r = [package |-> p, isInstalled |-> FALSE]
      BY <1>6, <3>1, <3>2 DEF Reads, AppRow
    <3> QED
      BY <3>1, <3>3
  <2>2. CASE ~\E r \in k.rows : r.package = p
    BY <2>2
  <2> QED
    BY <2>1, <2>2
<1>7. gone \ changed \subseteq off \cup away
  <2> SUFFICES ASSUME NEW p \in gone, p \notin changed PROVE p \in off \cup away
    OBVIOUS
  <2>1. p \notin t.installed /\ p # k.target
    BY <1>3 DEF Compares, Undoes
  <2> QED
    BY <1>4, <1>6, <2>1
<1>8. off \cup away \subseteq gone \cup changed
  <2> SUFFICES ASSUME NEW p \in off \cup away, p \notin changed PROVE p \in gone
    OBVIOUS
  <2>1. p \in WasOn(k) /\ p \in Release /\ p # k.target
    BY <1>1 DEF WasOn
  <2> QED
    BY <1>4, <1>5, <2>1
<1> HIDE DEF off, away
<1>9. Reported(x, post, gone, changed)
  BY <1>2, <1>3, <1>7, <1>8 DEF Reported
<1>10. Success.retryable = FALSE
  BY DEF Success, Failure
<1> QED
  BY <1>2, <1>3, <1>9, <1>10 DEF Sound, Staged, Undoes, Reads, Compares, Blameless

\* A complete first listing: the call ends, or knows its target and, for an uninstall, what was on.
LEMMA DecisionSound ==
  ASSUME NEW k \in AppCall, NEW post, NEW gone, NEW changed, NEW t \in Tenant, NEW x \in Listed(k),
         t.installed \subseteq t.published, k.step = "before", k.todo = {},
         Staged(k, post, gone), Reads(k, changed, t)
  PROVE  Sound(x, post, gone, changed, t)
<1>1. /\ k.request.op \in {"list", "uninstall", "unpublish"} /\ post = "none" /\ gone = {}
      /\ k.failure = Success /\ k.status = "" /\ k.known = FALSE
  BY DEF Staged, AppCall, AppRequest
<1>2. CASE k.request.op = "list"
  <2>1. x = Over(k, "listed")
    BY <1>2 DEF Listed
  <2> QED
    BY <2>1, EndsSound DEF Statuses
<1>3. CASE k.request.op = "uninstall"
  <2>1. x \in DecideUninstall(k)
    BY <1>3 DEF Listed
  <2>2. CASE x = Fails(k, Failure("NOT_FOUND", FALSE))
    BY <2>2, FailuresTyped, FailsSound
  <2>3. CASE x = Over(k, "alreadyUninstalled")
    BY <2>3, EndsSound DEF Statuses
  <2>4. CASE \E r \in k.rows : x = [k EXCEPT !.step = "action", !.target = r.package, !.before = k.rows, !.rows = {}]
    <3>1. PICK r \in k.rows : x = [k EXCEPT !.step = "action", !.target = r.package, !.before = k.rows, !.rows = {}]
      BY <2>4
    <3>2. r.package \in Release
      BY DEF AppCall, AppRow
    <3>3. /\ x \in AppCall /\ x.step = "action" /\ x.request = k.request /\ x.target \in Release
          /\ x.before = k.rows /\ x.failure = Success /\ x.status = "" /\ x.known = FALSE
      BY <1>1, <3>1, <3>2 DEF AppCall, AppSteps
    <3>4. ASSUME NEW p \in Release \ changed
          PROVE  /\ \A q \in k.rows : q.package = p => p \in t.published /\ (q.isInstalled <=> p \in t.installed)
                 /\ p \in t.installed => \E q \in k.rows : q.package = p
      BY DEF Reads
    <3>5. Compares(x, gone, changed, t)
      <4>1. t.installed \cup gone = t.installed /\ x.before = k.rows
        BY <1>1, <3>3
      <4> QED
        BY <1>1, <3>4, <4>1 DEF Compares
    <3> QED
      BY <1>1, <1>3, <3>3, <3>5 DEF Sound, Staged, Undoes, Reads, Reported, Blameless
  <2> QED
    BY <2>1, <2>2, <2>3, <2>4 DEF DecideUninstall, RowsOf
<1>4. CASE k.request.op = "unpublish"
  <2>1. x \in DecideUnpublish(k)
    BY <1>4 DEF Listed
  <2>2. CASE \E failure \in Refusals : x = Fails(k, failure)
    BY <1>1, <2>2, FailsSound DEF Failures
  <2>3. CASE \E r \in k.rows : x = [k EXCEPT !.step = "action", !.target = r.package, !.rows = {}]
    <3>1. PICK r \in k.rows : x = [k EXCEPT !.step = "action", !.target = r.package, !.rows = {}]
      BY <2>3
    <3>2. r.package \in Release
      BY DEF AppCall, AppRow
    <3>3. /\ x \in AppCall /\ x.step = "action" /\ x.request = k.request /\ x.target \in Release
          /\ x.failure = Success /\ x.status = "" /\ x.known = FALSE
      BY <1>1, <3>1, <3>2 DEF AppCall, AppSteps
    <3> QED
      BY <1>1, <1>4, <3>3 DEF Sound, Staged, Undoes, Reads, Compares, Reported, Blameless
  <2> QED
    BY <2>1, <2>2, <2>3 DEF DecideUnpublish, RowsOf, Refusals
<1> QED
  BY <1>1, <1>2, <1>3, <1>4

LEMMA ReadPageOK ==
  ASSUME AppInv, NEW c \in Calls, ReadPage(c)
  PROVE  AppInv'
<1> DEFINE k == call[c]
           ReadRow(p) == [package |-> p, isInstalled |-> p \in tenant.installed]
           Read(chunk) == [k EXCEPT !.page = @ + 1, !.todo = @ \ chunk, !.rows = @ \cup {ReadRow(p) : p \in chunk \cap tenant.published}]
<1>1. k.step \in {"before", "after"} /\ LocalOnly
  BY DEF ReadPage
<1>2. PICK chunk \in SUBSET k.todo :
        \/ chunk = k.todo /\ \E next \in Listed([Read(chunk) EXCEPT !.page = 0]) : call' = [call EXCEPT ![c] = next]
        \/ chunk # k.todo /\ MorePages(Read(chunk).page) /\ call' = [call EXCEPT ![c] = Read(chunk)]
  BY DEF ReadPage
<1>3. /\ k \in AppCall /\ Staged(k, upstream[c], undone[c]) /\ Reads(k, touched[c], tenant)
      /\ Compares(k, undone[c], touched[c], tenant) /\ (k.failure # Success => k.status = "")
  BY CallFacts
<1>4. tenant \in Tenant /\ tenant.installed \subseteq tenant.published /\ undone[c] \subseteq Release
  BY DEF AppInv, AppTypeOK, Tenant
<1> DEFINE new == {ReadRow(p) : p \in chunk \cap tenant.published}
<1>5. /\ new \subseteq AppRow
      /\ \A r \in new : r.package \in chunk \cap tenant.published /\ r.isInstalled = (r.package \in tenant.installed)
      /\ \A p \in chunk \cap tenant.published : \E r \in new : r.package = p
  <2>1. chunk \cap tenant.published \subseteq Release
    BY <1>4 DEF Tenant
  <2>2. \A p : /\ ReadRow(p).package = p /\ ReadRow(p).isInstalled = (p \in tenant.installed)
              /\ p \in Release => ReadRow(p) \in AppRow
    BY DEF AppRow
  <2>3. \A r \in new : \E p \in chunk \cap tenant.published : r = ReadRow(p)
    OBVIOUS
  <2>4. \A p \in chunk \cap tenant.published : ReadRow(p) \in new
    OBVIOUS
  <2>5. ASSUME NEW r \in new
        PROVE  /\ r \in AppRow /\ r.package \in chunk \cap tenant.published
               /\ r.isInstalled = (r.package \in tenant.installed)
    <3>1. PICK p \in chunk \cap tenant.published : r = ReadRow(p)
      BY <2>3
    <3>2. p \in Release /\ r = [package |-> p, isInstalled |-> p \in tenant.installed]
      BY <2>1, <3>1
    <3> QED
      BY <3>1, <3>2 DEF AppRow
  <2>6. ASSUME NEW p \in chunk \cap tenant.published PROVE \E r \in new : r.package = p
    BY <2>2, <2>4
  <2> HIDE DEF new
  <2> QED
    BY <2>5, <2>6
<1> HIDE DEF new
<1>6. ASSUME NEW x, x.rows = k.rows \cup new, x.todo = k.todo \ chunk, x.step = k.step
      PROVE  Reads(x, touched[c], tenant)
  <2> SUFFICES ASSUME NEW p \in Release \ touched[c]
               PROVE  /\ \A r \in x.rows : r.package = p => p \in tenant.published /\ (r.isInstalled <=> p \in tenant.installed)
                      /\ p \in tenant.published /\ p \notin x.todo => \E r \in x.rows : r.package = p
    BY DEF Reads
  <2>1. /\ \A r \in k.rows : r.package = p => p \in tenant.published /\ (r.isInstalled <=> p \in tenant.installed)
        /\ p \in tenant.published /\ p \notin k.todo => \E r \in k.rows : r.package = p
    BY <1>1, <1>3 DEF Reads
  <2>2. ASSUME NEW r \in new, r.package = p PROVE p \in tenant.published /\ (r.isInstalled <=> p \in tenant.installed)
    BY <1>5, <2>2
  <2> QED
    BY <1>5, <1>6, <2>1, <2>2
<1>7. CASE chunk = k.todo
  <2> DEFINE x == [Read(chunk) EXCEPT !.page = 0]
  <2>1. PICK next \in Listed(x) : call' = [call EXCEPT ![c] = next]
    BY <1>2, <1>7
  <2>2. x = [k EXCEPT !.page = 0, !.todo = k.todo \ chunk, !.rows = k.rows \cup new]
    BY <1>3 DEF AppCall, new
  <2>3. 0 \in 0..MaxListPages - 1
    BY AppAssumption
  <2> HIDE DEF x
  <2>4. /\ x \in AppCall /\ x.step = k.step /\ x.request = k.request /\ x.target = k.target /\ x.before = k.before
        /\ x.failure = k.failure /\ x.status = k.status /\ x.known = k.known
        /\ x.todo = {} /\ x.todo = k.todo \ chunk /\ x.rows = k.rows \cup new
    BY <1>3, <1>5, <1>7, <2>2, <2>3 DEF AppCall
  <2>5. Reads(x, touched[c], tenant)
    BY <1>6, <2>4
  <2>6. Staged(x, upstream[c], undone[c]) /\ Compares(x, undone[c], touched[c], tenant)
    BY <1>3, <2>4 DEF Staged, Compares, Undoes
  <2>7. Sound(next, upstream[c], undone[c], touched[c], tenant)
    <3>1. CASE k.step = "after"
      <4>1. next \in Report(x)
        BY <2>1, <2>4, <3>1 DEF Listed
      <4> QED
        BY <1>4, <2>4, <2>5, <2>6, <3>1, <4>1, ReportSound
    <3>2. CASE k.step = "before"
      BY <1>4, <2>1, <2>4, <2>5, <2>6, <3>2, DecisionSound
    <3> QED
      BY <1>1, <3>1, <3>2
  <2> QED
    BY <1>1, <2>1, <2>7, LocalKept
<1>8. CASE chunk # k.todo
  <2> DEFINE x == Read(chunk)
  <2>1. call' = [call EXCEPT ![c] = x] /\ MorePages(x.page)
    BY <1>2, <1>8
  <2>2. x = [k EXCEPT !.page = k.page + 1, !.todo = k.todo \ chunk, !.rows = k.rows \cup new]
    BY <1>3 DEF AppCall, new
  <2> HIDE DEF x
  <2>3. x.page = k.page + 1 /\ x.page < MaxListPages
    BY <1>3, <2>1, <2>2 DEF AppCall, MorePages
  <2>4. k.page + 1 \in 0..MaxListPages - 1
    <3>1. k.page \in 0..MaxListPages - 1 /\ MaxListPages \in Nat
      BY <1>3, AppAssumption DEF AppCall
    <3> QED
      BY <2>3, <3>1
  <2>5. /\ x \in AppCall /\ x.step = k.step /\ x.request = k.request /\ x.target = k.target /\ x.before = k.before
        /\ x.failure = k.failure /\ x.status = k.status /\ x.known = k.known
        /\ x.todo = k.todo \ chunk /\ x.rows = k.rows \cup new
    BY <1>3, <1>5, <2>2, <2>4 DEF AppCall
  <2>6. Reads(x, touched[c], tenant)
    BY <1>6, <2>5
  <2>7. Staged(x, upstream[c], undone[c]) /\ Compares(x, undone[c], touched[c], tenant) /\ x.status = ""
    BY <1>1, <1>3, <2>5 DEF Staged, Compares, Undoes
  <2>8. Sound(x, upstream[c], undone[c], touched[c], tenant)
    BY <1>1, <2>5, <2>6, <2>7 DEF Sound, Reported, Blameless
  <2> QED
    BY <1>1, <2>1, <2>8, LocalKept
<1> QED
  BY <1>7, <1>8

LEMMA AppInvKept == AppInv /\ [AppNext]_appVars => AppInv'
<1> SUFFICES ASSUME AppInv, [AppNext]_appVars PROVE AppInv'
  OBVIOUS
<1>1. ASSUME NEW c \in Calls,
             \/ BeginAppCall(c) \/ BadAppFile(c) \/ ResolveCompany(c) \/ ReadPage(c) \/ ReadFails(c)
             \/ Post(c) \/ Perform(c) \/ Refuse(c) \/ PostAnswered(c) \/ PostTimesOut(c) \/ PostBreaks(c)
      PROVE  AppInv'
  BY <1>1, BeginAppCallOK, BadAppFileOK, ResolveCompanyOK, ReadPageOK, ReadFailsOK, PostOK, PerformOK, RefuseOK,
     PostAnsweredOK, PostTimesOutOK, PostBreaksOK
<1>2. CASE UNCHANGED appVars
  <2> USE <1>2 DEF appVars
  <2>1. AppTypeOK' /\ (DOMAIN call = Calls)'
    BY DEF AppInv, AppTypeOK
  <2>2. \A c \in Calls : SoundCall(c)'
    BY DEF AppInv, SoundCall
  <2> QED
    BY <2>1, <2>2 DEF AppInv
<1> QED
  BY <1>1, <1>2 DEF AppNext

THEOREM AppsTrusted == AppSpec => []AppsHonest
<1> QED
  BY AppInitOK, AppInvKept, AppInvImplies, PTL DEF AppSpec

-----------------------------------------------------------------------------
(* The files of .alpackages *)

Puts == {"swapping", "restoring"}
Turn == Installing \ {"waiting"}

\* One download; what was wanted of it is not needed here.
DownloadTyped(x) ==
  /\ x \in [step : Steps, server : Servers, wanted : {x.wanted}, content : Content, existing : Content \cup {NoFile},
            backup : Content \cup {NoFile}, result : Results, warning : BOOLEAN]
  /\ x.step \in {"swapping", "restoring", "dropping"} <=> x.backup # NoFile
  /\ x.backup # NoFile => x.backup.package = x.content.package
  /\ x.step \in Turn => x.existing # x.content
  /\ x.step \in {"backup", "swapping", "restoring", "dropping"} => x.existing # NoFile

Typed(dl) == DOMAIN dl = Downloads /\ \A d \in Downloads : DownloadTyped(dl[d])

DiskTyped ==
  /\ file \in [Package -> Content \cup {NoFile}]
  /\ \A p \in Package : file[p] # NoFile => file[p].package = p
  /\ left \subseteq Package /\ meddled \subseteq Downloads
  /\ Typed(download)

\* The downloads of a server take turns on a destination: dl are the downloads, t the queues.
At(x) == <<x.server, x.content.package>>

Lined(dl, q, z) ==
  /\ q \in Seq(Downloads)
  /\ \A i \in 1..Len(q) : dl[q[i]].step \in Installing /\ At(dl[q[i]]) = z
  /\ \A i, j \in 1..Len(q) : q[i] = q[j] => i = j

\* Download d, x for short, waits in its queue q until it is first.
Queued(q, x, d) ==
  /\ x.step \in Installing => \E i \in 1..Len(q) : q[i] = d
  /\ x.step \in Turn => q[1] = d

TurnsOK(dl, t) ==
  /\ DOMAIN t = Servers \X Package
  /\ \A z \in Servers \X Package : Lined(dl, t[z], z)
  /\ \A d \in Downloads : Queued(t[At(dl[d])], dl[d], d)

TurnsInv == TurnsOK(download, tails)

\* Package p is at its place, or somebody has it in hand, or it stays beside its place.
Placed(p, f, l, dl) ==
  f[p] # NoFile \/ p \in l \/ \E d \in Downloads : dl[d].step \in Puts /\ dl[d].content.package = p

PlaceInv == \A d \in Downloads : download[d].step = "dropping" => Placed(Dest(d), file, left, download)

\* The destination is as download x found it, or as it left it.
FoundBy(x, f) ==
  /\ x.step \in {"writing", "renaming", "backup"} => f[x.content.package] = x.existing
  /\ x.step = "dropping" => f[x.content.package] = x.content

\* This is so unless another server wrote it.
FoundInv == \A d \in Downloads \ meddled : FoundBy(download[d], file)

DiskInv == DiskTyped /\ TurnsInv /\ PlaceInv /\ FoundInv

LEMMA SomeTyped ==
  /\ SomeContent \in Content /\ NoFile \notin Content
  /\ \A c \in Content : c.package \in Package
  /\ DownloadTyped(NoDownload) /\ NoDownload.step = "idle"
<1>1. Content # {}
  <2>1. PICK p \in Package, b \in Builds : TRUE
    BY PackageAssumption
  <2>2. [package |-> p, build |-> b] \in Content
    BY DEF Content
  <2> QED
    BY <2>2
<1>2. SomeContent \in Content
  BY <1>1 DEF SomeContent
<1>3. (CHOOSE s \in Servers : TRUE) \in Servers
  BY SymbolsAssumption
<1>4. NoFile \notin Content /\ \A c \in Content : c.package \in Package
  BY PackageAssumption DEF Content
<1>5. NoDownload.step = "idle" /\ NoDownload.backup = NoFile
  BY DEF NoDownload
<1>6. DownloadTyped(NoDownload)
  BY <1>2, <1>3 DEF NoDownload, DownloadTyped, Steps, Results, Turn, Installing
<1> QED
  BY <1>2, <1>4, <1>5, <1>6

LEMMA DiskInitOK == Init => DiskInv
<1> SUFFICES ASSUME NEW cached, DiskInit(cached) PROVE DiskInv
  BY DEF Init
<1>1. DiskTyped
  <2>1. ASSUME NEW p \in Package
        PROVE  [SomeContent EXCEPT !.package = p] \in Content /\ [SomeContent EXCEPT !.package = p].package = p
    BY SomeTyped DEF Content
  <2> QED
    BY <2>1, SomeTyped DEF DiskInit, DiskTyped, Typed
<1>2. \A d \in Downloads : download[d].step = "idle"
  BY SomeTyped DEF DiskInit
<1>3. TurnsInv
  <2>1. \A x \in Servers \X Package : tails[x] = <<>>
    BY DEF DiskInit
  <2>2. DOMAIN tails = Servers \X Package
    BY DEF DiskInit
  <2>3. ASSUME NEW z \in Servers \X Package PROVE Lined(download, tails[z], z)
    <3>1. tails[z] = <<>> /\ <<>> \in Seq(Downloads) /\ Len(<<>>) = 0
      BY DEF DiskInit
    <3> QED
      BY <3>1 DEF Lined
  <2>4. ASSUME NEW d \in Downloads PROVE Queued(tails[At(download[d])], download[d], d)
    BY <1>2 DEF Queued, Installing, Turn
  <2> QED
    BY <2>2, <2>3, <2>4 DEF TurnsInv, TurnsOK
<1>4. PlaceInv /\ FoundInv
  BY <1>2 DEF PlaceInv, FoundInv, FoundBy
<1> QED
  BY <1>1, <1>3, <1>4 DEF DiskInv

----------------------------------------------------------------------------
(* Taking turns *)

LEMMA AtPlace == ASSUME NEW x, DownloadTyped(x) PROVE At(x) \in Servers \X Package
BY SomeTyped DEF DownloadTyped, At

\* Whoever has a queue in hand finds its downloads and places there.
LEMMA LinedFacts ==
  ASSUME NEW dl, NEW q, NEW z, Lined(dl, q, z)
  PROVE  Len(q) \in Nat /\ \A i \in 1..Len(q) : q[i] \in Downloads /\ dl[q[i]].step \in Installing /\ At(dl[q[i]]) = z
BY ElementOfSeq DEF Lined

LEMMA LinedStays ==
  ASSUME NEW dl, NEW dl2, NEW q, NEW z, Lined(dl, q, z),
         \A e \in Downloads : dl[e].step \in Installing /\ At(dl[e]) = z
                                => dl2[e].step \in Installing /\ At(dl2[e]) = z
  PROVE  Lined(dl2, q, z)
<1>1. ASSUME NEW i \in 1..Len(q) PROVE dl2[q[i]].step \in Installing /\ At(dl2[q[i]]) = z
  BY LinedFacts
<1> QED
  BY <1>1 DEF Lined

\* A download moves without joining or leaving its queue.
LEMMA TurnsStay ==
  ASSUME NEW dl, NEW t, NEW dl2, Typed(dl), TurnsOK(dl, t), NEW d \in Downloads, NEW x, dl2 = [dl EXCEPT ![d] = x],
         \/ x.step \notin Installing /\ dl[d].step \notin Installing
         \/ /\ x.step \in Installing /\ dl[d].step \in Installing
            /\ x.server = dl[d].server /\ x.content = dl[d].content
            /\ x.step \in Turn => t[At(dl[d])][1] = d
  PROVE  TurnsOK(dl2, t)
<1>1. dl2[d] = x /\ \A e \in Downloads : e # d => dl2[e] = dl[e]
  BY DEF Typed
<1>2. ASSUME NEW e \in Downloads, dl[e].step \in Installing
      PROVE  At(dl2[e]) = At(dl[e]) /\ dl2[e].step \in Installing
  BY <1>1, <1>2 DEF At
<1>3. ASSUME NEW e \in Downloads, dl2[e].step \in Installing
      PROVE  At(dl2[e]) = At(dl[e]) /\ dl[e].step \in Installing
  BY <1>1, <1>3 DEF At
<1>4. ASSUME NEW z \in Servers \X Package
      PROVE  Lined(dl2, t[z], z)
  BY <1>2, LinedStays DEF TurnsOK
<1>5. ASSUME NEW e \in Downloads
      PROVE  Queued(t[At(dl2[e])], dl2[e], e)
  <2>1. CASE dl2[e].step \in Installing
    <3>1. Queued(t[At(dl[e])], dl[e], e) /\ At(dl2[e]) = At(dl[e]) /\ dl[e].step \in Installing
      BY <1>3, <2>1 DEF TurnsOK
    <3>2. CASE e = d
      BY <1>1, <3>1, <3>2 DEF Queued
    <3>3. CASE e # d
      BY <1>1, <3>1, <3>3
    <3> QED
      BY <3>2, <3>3
  <2>2. CASE dl2[e].step \notin Installing
    BY <2>2 DEF Queued, Turn
  <2> QED
    BY <2>1, <2>2
<1> QED
  BY <1>4, <1>5 DEF TurnsOK

\* A validated download joins the queue of its destination.
LEMMA TurnsJoin ==
  ASSUME NEW dl, NEW t, NEW dl2, NEW t2, Typed(dl), TurnsOK(dl, t), NEW d \in Downloads, NEW x, dl2 = [dl EXCEPT ![d] = x],
         dl[d].step \notin Installing, x.step = "waiting", x.server \in Servers, x.content.package \in Package,
         t2 = [t EXCEPT ![At(x)] = Append(@, d)]
  PROVE  TurnsOK(dl2, t2)
<1> DEFINE q == At(x)
<1>1. dl2[d] = x /\ \A e \in Downloads : e # d => dl2[e] = dl[e]
  BY DEF Typed
<1>2. q \in Servers \X Package
  BY DEF At
<1>3. t2[q] = Append(t[q], d) /\ \A z \in Servers \X Package : z # q => t2[z] = t[z]
  BY <1>2 DEF TurnsOK
<1>4. Lined(dl, t[q], q) /\ t[q] \in Seq(Downloads) /\ Len(t[q]) \in Nat
  BY <1>2, LinedFacts DEF TurnsOK, Lined
<1> DEFINE n == Len(t[q])
<1>5. /\ Len(t2[q]) = n + 1 /\ t2[q] \in Seq(Downloads) /\ t2[q][n + 1] = d
      /\ \A i \in 1..n : t2[q][i] = t[q][i]
  BY <1>3, <1>4, AppendProperties
<1>6. DOMAIN t2 = Servers \X Package
  BY DEF TurnsOK
<1> HIDE DEF q, n
<1>7. \A i \in 1..n : t[q][i] \in Downloads /\ t[q][i] # d /\ dl[t[q][i]].step \in Installing /\ At(dl[t[q][i]]) = q
  BY <1>4, LinedFacts DEF n
<1>8. \A i \in 1..(n + 1) : i \in 1..n \/ i = n + 1
  BY <1>4 DEF n
<1>9. Lined(dl2, t2[q], q)
  <2>1. ASSUME NEW i \in 1..(n + 1) PROVE dl2[t2[q][i]].step \in Installing /\ At(dl2[t2[q][i]]) = q
    <3>1. CASE i \in 1..n
      BY <1>1, <1>5, <1>7, <3>1
    <3>2. CASE i = n + 1
      BY <1>1, <1>5, <3>2 DEF Installing, Steps, q
    <3> QED
      BY <1>8, <3>1, <3>2
  <2>2. ASSUME NEW i \in 1..(n + 1), NEW j \in 1..(n + 1), t2[q][i] = t2[q][j] PROVE i = j
    <3>1. CASE i \in 1..n /\ j \in 1..n
      BY <1>4, <1>5, <2>2, <3>1 DEF Lined, n
    <3>2. CASE i = n + 1 /\ j = n + 1
      BY <3>2
    <3>3. CASE (i = n + 1 /\ j \in 1..n) \/ (i \in 1..n /\ j = n + 1)
      BY <1>5, <1>7, <2>2, <3>3
    <3> QED
      BY <1>8, <3>1, <3>2, <3>3
  <2> QED
    BY <1>5, <2>1, <2>2 DEF Lined
<1>10. ASSUME NEW z \in Servers \X Package PROVE Lined(dl2, t2[z], z)
  <2>1. CASE z # q
    <3>1. \A e \in Downloads : dl[e].step \in Installing /\ At(dl[e]) = z => dl2[e].step \in Installing /\ At(dl2[e]) = z
      BY <1>1
    <3>2. Lined(dl, t[z], z) /\ t2[z] = t[z]
      BY <1>3, <2>1 DEF TurnsOK
    <3> DEFINE p == t[z]
    <3>3. Lined(dl, p, z)
      BY <3>2
    <3> HIDE DEF p
    <3>4. Len(p) \in Nat /\ \A i \in 1..Len(p) : p[i] \in Downloads /\ dl[p[i]].step \in Installing /\ At(dl[p[i]]) = z
      BY <3>3, LinedFacts
    <3>5. \A i \in 1..Len(p) : dl2[p[i]].step \in Installing /\ At(dl2[p[i]]) = z
      BY <3>1, <3>4
    <3>6. Lined(dl2, p, z)
      BY <3>3, <3>5 DEF Lined
    <3> QED
      BY <3>2, <3>6 DEF p
  <2> QED
    BY <1>9, <2>1
<1>11. ASSUME NEW e \in Downloads PROVE Queued(t2[At(dl2[e])], dl2[e], e)
  <2>1. CASE e = d
    <3>1. n + 1 \in 1..(n + 1) /\ At(dl2[e]) = q
      BY <1>1, <1>4, <2>1 DEF n, q
    <3> QED
      BY <1>1, <1>5, <2>1, <3>1 DEF Queued, Turn
  <2>2. CASE e # d
    <3>1. dl2[e] = dl[e] /\ At(dl[e]) \in Servers \X Package /\ Queued(t[At(dl[e])], dl[e], e)
      BY <1>1, <2>2, AtPlace DEF Typed, TurnsOK
    <3>2. CASE At(dl[e]) = q
      <4>1. \A i \in 1..n : i \in 1..(n + 1)
        BY <1>4 DEF n
      <4>2. ASSUME NEW i \in 1..n PROVE n >= 1 /\ 1 \in 1..n
        BY <1>4 DEF n
      <4>3. dl[e].step \in Installing => \E i \in 1..(n + 1) : t2[q][i] = e
        BY <1>5, <3>1, <3>2, <4>1 DEF Queued, n
      <4>4. dl[e].step \in Turn => t2[q][1] = e
        BY <1>5, <3>1, <3>2, <4>2 DEF Queued, n, Turn
      <4> QED
        BY <1>5, <3>1, <3>2, <4>3, <4>4 DEF Queued
    <3>3. CASE At(dl[e]) # q
      BY <1>3, <3>1, <3>3
    <3> QED
      BY <3>2, <3>3
  <2> QED
    BY <2>1, <2>2
<1> QED
  BY <1>6, <1>10, <1>11 DEF TurnsOK

\* A download that has the turn gives it up.
LEMMA TurnsLeave ==
  ASSUME NEW dl, NEW t, NEW dl2, NEW t2, Typed(dl), TurnsOK(dl, t), NEW d \in Downloads, NEW x, dl2 = [dl EXCEPT ![d] = x],
         dl[d].step \in Installing, t[At(dl[d])][1] = d, x.step \notin Installing,
         t2 = [t EXCEPT ![At(dl[d])] = Tail(@)]
  PROVE  TurnsOK(dl2, t2)
<1> DEFINE q == At(dl[d])
<1>1. dl2[d] = x /\ \A e \in Downloads : e # d => dl2[e] = dl[e]
  BY DEF Typed
<1>2. q \in Servers \X Package
  BY AtPlace DEF Typed
<1>3. t2[q] = Tail(t[q]) /\ \A z \in Servers \X Package : z # q => t2[z] = t[z]
  BY <1>2 DEF TurnsOK
<1>4. Lined(dl, t[q], q) /\ t[q] \in Seq(Downloads) /\ Len(t[q]) \in Nat /\ Queued(t[q], dl[d], d)
  BY <1>2, LinedFacts DEF TurnsOK, Lined
<1> DEFINE n == Len(t[q])
<1>5. n \in Nat /\ n >= 1
  <2>1. PICK i \in 1..n : t[q][i] = d
    BY <1>4 DEF Queued
  <2> QED
    BY <1>4, <2>1
<1>6. t[q] # <<>>
  BY <1>5
<1>7. /\ Len(t2[q]) = n - 1 /\ t2[q] \in Seq(Downloads)
      /\ \A i \in 1..(n - 1) : t2[q][i] = t[q][i + 1]
  <2>1. Len(Tail(t[q])) = Len(t[q]) - 1 /\ Tail(t[q]) \in Seq(Downloads)
    BY <1>4, <1>6, HeadTailProperties
  <2>2. \A i \in 1..Len(Tail(t[q])) : Tail(t[q])[i] = t[q][i + 1]
    BY <1>4, <1>6, HeadTailProperties
  <2> QED
    BY <1>3, <2>1, <2>2
<1>8. DOMAIN t2 = Servers \X Package
  BY DEF TurnsOK
<1> HIDE DEF q, n
<1>9. \A i \in 1..n : t[q][i] \in Downloads /\ dl[t[q][i]].step \in Installing /\ At(dl[t[q][i]]) = q
  BY <1>4, LinedFacts DEF n
<1>10. \A i \in 1..n : t[q][i] = d => i = 1
  BY <1>4, <1>5 DEF Lined, n, q
<1>11. \A i \in 1..(n - 1) : i + 1 \in 1..n /\ i + 1 # 1
  BY <1>5
<1>12. Lined(dl2, t2[q], q)
  <2>1. ASSUME NEW i \in 1..(n - 1) PROVE dl2[t2[q][i]].step \in Installing /\ At(dl2[t2[q][i]]) = q
    BY <1>1, <1>7, <1>9, <1>10, <1>11
  <2>2. ASSUME NEW i \in 1..(n - 1), NEW j \in 1..(n - 1), t2[q][i] = t2[q][j] PROVE i = j
    <3>1. t[q][i + 1] = t[q][j + 1] /\ i + 1 \in 1..n /\ j + 1 \in 1..n
      BY <1>7, <1>11, <2>2
    <3>2. i + 1 = j + 1
      BY <1>4, <3>1 DEF Lined, n
    <3> QED
      BY <1>5, <3>2
  <2> QED
    BY <1>7, <2>1, <2>2 DEF Lined
<1>13. ASSUME NEW z \in Servers \X Package PROVE Lined(dl2, t2[z], z)
  <2>1. CASE z # q
    <3>1. \A e \in Downloads : dl[e].step \in Installing /\ At(dl[e]) = z => dl2[e].step \in Installing /\ At(dl2[e]) = z
      BY <1>1, <2>1 DEF q
    <3>2. Lined(dl, t[z], z) /\ t2[z] = t[z]
      BY <1>3, <2>1 DEF TurnsOK
    <3> DEFINE p == t[z]
    <3>3. Lined(dl, p, z)
      BY <3>2
    <3> HIDE DEF p
    <3>4. Len(p) \in Nat /\ \A i \in 1..Len(p) : p[i] \in Downloads /\ dl[p[i]].step \in Installing /\ At(dl[p[i]]) = z
      BY <3>3, LinedFacts
    <3>5. \A i \in 1..Len(p) : dl2[p[i]].step \in Installing /\ At(dl2[p[i]]) = z
      BY <3>1, <3>4
    <3>6. Lined(dl2, p, z)
      BY <3>3, <3>5 DEF Lined
    <3> QED
      BY <3>2, <3>6 DEF p
  <2> QED
    BY <1>12, <2>1
<1>14. ASSUME NEW e \in Downloads PROVE Queued(t2[At(dl2[e])], dl2[e], e)
  <2>1. CASE e = d
    BY <1>1, <2>1 DEF Queued, Turn
  <2>2. CASE e # d
    <3>1. dl2[e] = dl[e] /\ At(dl[e]) \in Servers \X Package /\ Queued(t[At(dl[e])], dl[e], e)
      BY <1>1, <2>2, AtPlace DEF Typed, TurnsOK
    <3>2. CASE At(dl[e]) = q
      <4>1. dl[e].step \notin Turn
        BY <2>2, <3>1, <3>2 DEF Queued, q
      <4>2. ASSUME dl[e].step \in Installing PROVE \E i \in 1..(n - 1) : t2[q][i] = e
        <5>1. PICK i \in 1..n : t[q][i] = e
          BY <3>1, <3>2, <4>2 DEF Queued, n
        <5>2. i # 1
          BY <2>2, <5>1 DEF q
        <5>3. i - 1 \in 1..(n - 1) /\ (i - 1) + 1 = i
          BY <1>5, <5>1, <5>2
        <5> QED
          BY <1>7, <5>1, <5>3
      <4> QED
        BY <1>7, <3>1, <3>2, <4>1, <4>2 DEF Queued
    <3>3. CASE At(dl[e]) # q
      BY <1>3, <3>1, <3>3
    <3> QED
      BY <3>2, <3>3
  <2> QED
    BY <2>1, <2>2
<1> QED
  BY <1>8, <1>13, <1>14 DEF TurnsOK

\* The queues of a server go with it.
LEMMA TurnsCrash ==
  ASSUME NEW dl, NEW t, NEW dl2, NEW t2, Typed(dl), TurnsOK(dl, t), NEW s \in Servers,
         \A d \in Downloads : dl2[d].step = "dead" \/ (dl2[d] = dl[d] /\ (dl[d].server = s => dl[d].step \in {"idle", "dead"})),
         DOMAIN t2 = Servers \X Package, \A z \in Servers \X Package : IF z[1] = s THEN t2[z] = <<>> ELSE t2[z] = t[z],
         \A d \in Downloads : dl[d].server # s => dl2[d] = dl[d]
  PROVE  TurnsOK(dl2, t2)
<1>1. ASSUME NEW z \in Servers \X Package PROVE Lined(dl2, t2[z], z)
  <2>1. CASE z[1] = s
    <3>1. t2[z] = <<>>
      BY <2>1
    <3>2. ASSUME NEW q, q = <<>> PROVE Lined(dl2, q, z)
      BY <3>2 DEF Lined
    <3> QED
      BY <3>1, <3>2
  <2>2. CASE z[1] # s
    <3> DEFINE p == t[z]
    <3>1. t2[z] = p /\ Lined(dl, p, z)
      BY <2>2 DEF TurnsOK
    <3>2. \A e \in Downloads : dl[e].step \in Installing /\ At(dl[e]) = z => dl2[e].step \in Installing /\ At(dl2[e]) = z
      BY <2>2 DEF At
    <3> HIDE DEF p
    <3>3. Lined(dl2, p, z)
      BY <3>1, <3>2, LinedStays
    <3> QED
      BY <3>1, <3>3
  <2> QED
    BY <2>1, <2>2
<1>2. ASSUME NEW e \in Downloads PROVE Queued(t2[At(dl2[e])], dl2[e], e)
  <2>1. CASE dl2[e].step \in Installing
    <3>1. dl2[e] = dl[e] /\ dl[e].server # s
      BY <2>1 DEF Installing
    <3> DEFINE z == At(dl[e])
    <3>2. z \in Servers \X Package /\ z[1] # s
      BY <3>1, AtPlace DEF Typed, At
    <3> HIDE DEF z
    <3>3. t2[z] = t[z]
      BY <3>2
    <3> QED
      BY <3>1, <3>3 DEF TurnsOK, z
  <2>2. CASE dl2[e].step \notin Installing
    BY <2>2 DEF Queued, Turn
  <2> QED
    BY <2>1, <2>2
<1> QED
  BY <1>1, <1>2 DEF TurnsOK

----------------------------------------------------------------------------
(* The files *)

\* A step keeps the packages, and a download that ends in it answers what it did.
DidAsAnswered(d) ==
  download[d].step \in Installing /\ download'[d].step = "over" /\ download'[d].result \in Installed
    => /\ file'[Dest(d)] = download[d].content
       /\ download'[d].result = "unchanged" => file' = file
       /\ download'[d].result = "downloaded" => file[Dest(d)] = NoFile
       /\ download'[d].result = "replaced" => download[d].existing \notin {NoFile, download[d].content}

DiskKept == (\A p \in Package : Kept(p) => Kept(p)') /\ (\A d \in Downloads \ meddled' : DidAsAnswered(d))

\* Where the files are typed, a backup in hand is a file kept.
LEMMA KeptIsPlaced ==
  ASSUME NEW dl, Typed(dl), NEW f, NEW l, NEW p
  PROVE  /\ Placed(p, f, l, dl) => f[p] # NoFile \/ p \in l \/ \E d \in Downloads : dl[d].backup # NoFile /\ dl[d].content.package = p
         /\ (\A d \in Downloads : dl[d].step = "dropping" => Placed(dl[d].content.package, f, l, dl))
              /\ (f[p] # NoFile \/ p \in l \/ \E d \in Downloads : dl[d].backup # NoFile /\ dl[d].content.package = p)
              => Placed(p, f, l, dl)
BY DEF Placed, Typed, DownloadTyped, Puts

\* Download d becomes x, and the files stay or it puts content in its place.
Files(d, content) ==
  \/ UNCHANGED file /\ meddled' \subseteq Downloads /\ \A e \in Downloads \ {d} : e \in meddled => e \in meddled'
  \/ /\ download[d].step \in Turn /\ Put(d, content) /\ content \in Content \cup {NoFile}
     /\ content # NoFile => content.package = Dest(d)

LEMMA MoveOK ==
  ASSUME DiskInv, NEW d \in Downloads, NEW x, DownloadTyped(x), download' = [download EXCEPT ![d] = x],
         TurnsInv', left \subseteq left', left' \subseteq Package, NEW content, Files(d, content),
         d \notin meddled' => FoundBy(x, file'),
         download[d].step \in Puts \/ file'[Dest(d)] # file[Dest(d)] => Placed(Dest(d), file', left', download'),
         x.step = "dropping" => Placed(x.content.package, file', left', download'),
         d \notin meddled' => DidAsAnswered(d)
  PROVE  DiskInv' /\ DiskKept
<1>1. download'[d] = x /\ \A e \in Downloads : e # d => download'[e] = download[e]
  BY DEF DiskInv, DiskTyped, Typed
<1>2. Dest(d) \in Package /\ file \in [Package -> Content \cup {NoFile}]
  BY SomeTyped DEF DiskInv, DiskTyped, Typed, DownloadTyped, Dest
<1>3. \A p \in Package : p # Dest(d) => file'[p] = file[p]
  BY <1>2 DEF Files, Put
<1>4. DiskTyped'
  <2>1. file' \in [Package -> Content \cup {NoFile}] /\ \A p \in Package : file'[p] # NoFile => file'[p].package = p
    BY <1>2 DEF DiskInv, DiskTyped, Files, Put
  <2>2. meddled' \subseteq Downloads
    BY DEF DiskInv, DiskTyped, Files, Put
  <2>3. Typed(download')
    BY <1>1 DEF DiskInv, DiskTyped, Typed
  <2> QED
    BY <2>1, <2>2, <2>3 DEF DiskTyped
<1>5. ASSUME NEW p \in Package, Placed(p, file, left, download) PROVE Placed(p, file', left', download')
  <2>1. CASE file[p] # NoFile
    BY <1>3, <2>1 DEF Placed
  <2>2. CASE p \in left
    BY <2>2 DEF Placed
  <2>3. CASE \E e \in Downloads : download[e].step \in Puts /\ download[e].content.package = p
    <3>1. PICK e \in Downloads : download[e].step \in Puts /\ download[e].content.package = p
      BY <2>3
    <3>2. CASE e = d
      BY <3>1, <3>2 DEF Dest
    <3>3. CASE e # d
      BY <1>1, <3>1, <3>3 DEF Placed
    <3> QED
      BY <3>2, <3>3
  <2> QED
    BY <1>5, <2>1, <2>2, <2>3 DEF Placed
<1>6. PlaceInv'
  <2>1. ASSUME NEW e \in Downloads, download'[e].step = "dropping"
        PROVE  Placed(download'[e].content.package, file', left', download')
    <3>1. CASE e = d
      BY <1>1, <2>1, <3>1
    <3>2. CASE e # d
      <4>1. download'[e] = download[e] /\ download[e].content.package \in Package
        BY <1>1, <3>2, SomeTyped DEF DiskInv, DiskTyped, Typed, DownloadTyped
      <4> QED
        BY <1>5, <2>1, <4>1 DEF DiskInv, PlaceInv, Dest
    <3> QED
      BY <3>1, <3>2
  <2> QED
    BY <2>1 DEF PlaceInv, Dest
<1>7. FoundInv'
  <2>1. ASSUME NEW e \in Downloads, e \notin meddled', e # d PROVE FoundBy(download[e], file')
    <3>1. e \notin meddled /\ FoundBy(download[e], file)
      BY <2>1 DEF DiskInv, FoundInv, Files, Put
    <3>2. CASE file' = file
      BY <3>1, <3>2
    <3>3. CASE download[e].step \notin Turn
      BY <3>3 DEF FoundBy, Turn, Installing, Steps
    <3>4. CASE download[e].step \in Turn /\ Dest(e) # Dest(d)
      <4>1. Dest(e) \in Package
        BY SomeTyped DEF DiskInv, DiskTyped, Typed, DownloadTyped, Dest
      <4>2. file'[Dest(e)] = file[Dest(e)]
        BY <1>3, <3>4, <4>1
      <4> QED
        BY <3>1, <4>2 DEF FoundBy, Dest
    <3>5. CASE download[e].step \in Turn /\ Dest(e) = Dest(d) /\ file' # file
      <4>1. download[d].step \in Turn /\ Put(d, content)
        BY <3>5 DEF Files
      <4>2. download[e].server = download[d].server
        BY <2>1, <3>5, <4>1 DEF Put, Turn
      <4>3. At(download[e]) = At(download[d])
        BY <3>5, <4>2 DEF At, Dest
      <4>4. e = tails[At(download[d])][1] /\ d = tails[At(download[d])][1]
        BY <3>5, <4>1, <4>3 DEF DiskInv, TurnsInv, TurnsOK, Queued
      <4> QED
        BY <2>1, <4>4
    <3> QED
      BY <3>2, <3>3, <3>4, <3>5
  <2>2. ASSUME NEW e \in Downloads, e \notin meddled' PROVE FoundBy(download'[e], file')
    BY <1>1, <2>1, <2>2
  <2> QED
    BY <2>2 DEF FoundInv
<1>8. ASSUME NEW p \in Package, Kept(p) PROVE Kept(p)'
  <2>1. Typed(download) /\ Typed(download')
    BY <1>4 DEF DiskInv, DiskTyped
  <2>2. Placed(p, file, left, download)
    BY <1>8, <2>1, KeptIsPlaced DEF DiskInv, PlaceInv, Kept, Dest
  <2>3. Placed(p, file', left', download')
    BY <1>5, <2>2
  <2>4. file'[p] # NoFile \/ p \in left' \/ \E e \in Downloads : download'[e].backup # NoFile /\ download'[e].content.package = p
    BY <2>1, <2>3 DEF Placed, Typed, DownloadTyped, Puts
  <2> QED
    BY <2>4 DEF Kept, Dest
<1>9. ASSUME NEW e \in Downloads \ meddled' PROVE DidAsAnswered(e)
  <2>1. CASE e = d
    BY <1>9, <2>1
  <2>2. CASE e # d
    BY <1>1, <2>2 DEF DidAsAnswered, Installing
  <2> QED
    BY <2>1, <2>2
<1> QED
  BY <1>4, <1>6, <1>7, <1>8, <1>9 DEF DiskInv, DiskKept

----------------------------------------------------------------------------
(* The steps of a download *)

LEMMA DiskFacts ==
  ASSUME DiskInv, NEW d \in Downloads
  PROVE  /\ DOMAIN download = Downloads /\ DownloadTyped(download[d]) /\ Dest(d) \in Package
         /\ file \in [Package -> Content \cup {NoFile}] /\ left \subseteq Package /\ meddled \subseteq Downloads
         /\ file[Dest(d)] # NoFile => file[Dest(d)].package = Dest(d)
         /\ Typed(download) /\ TurnsOK(download, tails) /\ Queue(d) = At(download[d])
BY SomeTyped DEF DiskInv, DiskTyped, Typed, DownloadTyped, TurnsInv, Dest, Queue, At

\* Before it waits a download leaves the queues and the files alone.
LEMMA QuietOK ==
  ASSUME DiskInv, NEW d \in Downloads, NEW x, DownloadTyped(x), download' = [download EXCEPT ![d] = x],
         download[d].step \notin Installing, x.step \notin Installing,
         UNCHANGED <<file, left, tails>>, meddled' \subseteq Downloads, \A e \in Downloads \ {d} : e \in meddled => e \in meddled'
  PROVE  DiskInv' /\ DiskKept
<1>1. TurnsOK(download', tails)
  BY DiskFacts, TurnsStay
<1>2. TurnsInv'
  BY <1>1 DEF TurnsInv
<1>3. Files(d, NoFile) /\ left \subseteq left' /\ left' \subseteq Package
  BY DiskFacts DEF Files
<1>4. FoundBy(x, file') /\ x.step # "dropping" /\ download[d].step \notin Puts /\ DidAsAnswered(d)
  BY DEF FoundBy, Puts, Installing, Steps, DidAsAnswered
<1> QED
  BY <1>2, <1>3, <1>4, MoveOK

LEMMA RequestOK ==
  ASSUME DiskInv, NEW d \in Downloads, NEW s \in Servers, NEW wanted, Request(d, s, wanted)
  PROVE  DiskInv' /\ DiskKept
<1> DEFINE x == [NoDownload EXCEPT !.step = "request", !.server = s, !.wanted = wanted]
<1>1. DownloadTyped(x) /\ x.step = "request"
  BY SomeTyped DEF NoDownload, DownloadTyped, Steps, Turn, Installing, Results
<1>2. download' = [download EXCEPT ![d] = x]
  BY DEF Request
<1> HIDE DEF x
<1>3. download[d].step \notin Installing /\ x.step \notin Installing
  BY <1>1 DEF Request, Installing
<1>4. UNCHANGED <<file, left, tails>> /\ meddled' = meddled \ {d}
  BY DEF Request
<1> QED
  BY <1>1, <1>2, <1>3, <1>4, DiskFacts, QuietOK

LEMMA RequestFailsOK ==
  ASSUME DiskInv, NEW d \in Downloads, RequestFails(d)
  PROVE  DiskInv' /\ DiskKept
<1>1. PICK failure \in RequestFailures : download' = [download EXCEPT ![d].step = "over", ![d].result = failure]
  BY DEF RequestFails
<1> DEFINE x == [download[d] EXCEPT !.step = "over", !.result = failure]
<1>2. DownloadTyped(x) /\ x.step = "over"
  <2>1. DownloadTyped(download[d]) /\ download[d].step = "request"
    BY DiskFacts DEF RequestFails
  <2>2. download[d].backup = NoFile
    BY <2>1 DEF DownloadTyped
  <2>3. failure \in Results /\ "over" \in Steps /\ "over" \notin Turn
    BY DEF Results, Steps, Turn, Installing
  <2> QED
    BY <2>1, <2>2, <2>3 DEF DownloadTyped
<1>3. download' = [download EXCEPT ![d] = x]
  BY <1>1
<1> HIDE DEF x
<1>4. download[d].step \notin Installing /\ x.step \notin Installing
  BY <1>2 DEF RequestFails, Installing
<1>5. UNCHANGED <<file, left, tails, meddled>>
  BY DEF RequestFails
<1> QED
  BY <1>2, <1>3, <1>4, <1>5, DiskFacts, QuietOK

LEMMA AnsweredOK ==
  ASSUME DiskInv, NEW d \in Downloads, Answered(d)
  PROVE  DiskInv' /\ DiskKept
<1>1. PICK c \in Content :
        IF Satisfies(c.package, download[d].wanted)
          THEN /\ download' = [download EXCEPT ![d].step = "waiting", ![d].content = c]
               /\ tails' = [tails EXCEPT ![<<download[d].server, c.package>>] = Append(@, d)]
          ELSE /\ download' = [download EXCEPT ![d].step = "over", ![d].result = "PROTOCOL_ERROR"]
               /\ UNCHANGED tails
  BY DEF Answered
<1>2. download[d].step = "request" /\ download[d].step \notin Installing /\ UNCHANGED <<file, left, meddled>>
  BY DEF Answered, Installing
<1>3. CASE Satisfies(c.package, download[d].wanted)
  <2> DEFINE x == [download[d] EXCEPT !.step = "waiting", !.content = c]
  <2>1. /\ DownloadTyped(x) /\ x.step = "waiting" /\ At(x) = <<download[d].server, c.package>>
        /\ x.server \in Servers /\ x.content.package \in Package
    BY <1>2, DiskFacts, SomeTyped DEF DownloadTyped, Steps, Turn, Installing, At
  <2>2. download' = [download EXCEPT ![d] = x] /\ tails' = [tails EXCEPT ![At(x)] = Append(@, d)]
    BY <1>1, <1>3, <2>1
  <2> HIDE DEF x
  <2>3. TurnsOK(download', tails')
    BY <1>2, <2>1, <2>2, DiskFacts, TurnsJoin
  <2>4. TurnsInv'
    BY <2>3 DEF TurnsInv
  <2>5. Files(d, NoFile) /\ left \subseteq left' /\ left' \subseteq Package
    BY <1>2, DiskFacts DEF Files
  <2>6. FoundBy(x, file') /\ x.step # "dropping" /\ download[d].step \notin Puts /\ DidAsAnswered(d)
    BY <1>2, <2>1 DEF FoundBy, Puts, DidAsAnswered
  <2> QED
    BY <1>2, <2>1, <2>2, <2>4, <2>5, <2>6, MoveOK
<1>4. CASE ~Satisfies(c.package, download[d].wanted)
  <2> DEFINE x == [download[d] EXCEPT !.step = "over", !.result = "PROTOCOL_ERROR"]
  <2>1. DownloadTyped(x) /\ x.step = "over"
    BY <1>2, DiskFacts DEF DownloadTyped, Steps, Turn, Installing, Results
  <2>2. download' = [download EXCEPT ![d] = x] /\ UNCHANGED tails
    BY <1>1, <1>4
  <2> HIDE DEF x
  <2>3. x.step \notin Installing
    BY <2>1 DEF Installing
  <2> QED
    BY <1>2, <2>1, <2>2, <2>3, DiskFacts, QuietOK
<1> QED
  BY <1>3, <1>4

\* Whoever installs has the turn.
LEMMA Mine ==
  ASSUME DiskInv, NEW d \in Downloads, download[d].step \in Turn \/ (download[d].step = "waiting" /\ MyTurn(d))
  PROVE  download[d].step \in Installing /\ tails[At(download[d])][1] = d
<1>1. download[d].step \in Installing /\ Queue(d) = At(download[d])
  BY DiskFacts DEF Turn, Installing, Steps
<1>2. CASE download[d].step \in Turn
  BY <1>1, <1>2, DiskFacts DEF TurnsOK, Queued
<1>3. CASE download[d].step = "waiting" /\ MyTurn(d)
  BY <1>1, <1>3 DEF MyTurn
<1> QED
  BY <1>2, <1>3

\* The end of an installation: what is left to show of it is what its files and its answer are.
LEMMA EndsOK ==
  ASSUME DiskInv, NEW d \in Downloads, download[d].step \in Turn \/ (download[d].step = "waiting" /\ MyTurn(d)),
         NEW result \in Results, NEW warning \in BOOLEAN, Ends(d, result, warning),
         left \subseteq left', left' \subseteq Package, NEW content, Files(d, content),
         download[d].step \in Puts \/ file'[Dest(d)] # file[Dest(d)] => Placed(Dest(d), file', left', download'),
         d \notin meddled' => DidAsAnswered(d)
  PROVE  DiskInv' /\ DiskKept
<1> DEFINE x == [download[d] EXCEPT !.step = "over", !.result = result, !.warning = warning, !.backup = NoFile]
<1>1. DownloadTyped(x) /\ x.step = "over"
  BY DiskFacts DEF DownloadTyped, Steps, Turn, Installing
<1>2. download' = [download EXCEPT ![d] = x] /\ tails' = [tails EXCEPT ![At(download[d])] = Tail(@)]
  BY DiskFacts DEF Ends
<1> HIDE DEF x
<1>3. x.step \notin Installing
  BY <1>1 DEF Installing
<1>4. TurnsOK(download', tails')
  BY <1>2, <1>3, Mine, DiskFacts, TurnsLeave
<1>5. TurnsInv'
  BY <1>4 DEF TurnsInv
<1>6. FoundBy(x, file') /\ x.step # "dropping"
  BY <1>1 DEF FoundBy
<1> QED
  BY <1>1, <1>2, <1>5, <1>6, MoveOK

\* An installation goes on, with the turn.
LEMMA GoesOnOK ==
  ASSUME DiskInv, NEW d \in Downloads, download[d].step \in Turn \/ (download[d].step = "waiting" /\ MyTurn(d)),
         NEW x, DownloadTyped(x), download' = [download EXCEPT ![d] = x], x.step \in Turn,
         x.server = download[d].server, x.content = download[d].content,
         UNCHANGED <<left, tails>>, NEW content, Files(d, content),
         d \notin meddled' => FoundBy(x, file'),
         download[d].step \in Puts \/ file'[Dest(d)] # file[Dest(d)] \/ x.step = "dropping"
           => Placed(Dest(d), file', left', download')
  PROVE  DiskInv' /\ DiskKept
<1>1. TurnsOK(download', tails)
  <2>1. x.step \in Installing
    BY DEF Turn
  <2> QED
    BY <2>1, Mine, DiskFacts, TurnsStay
<1>2. TurnsInv'
  BY <1>1 DEF TurnsInv
<1>3. DidAsAnswered(d)
  BY DiskFacts DEF DidAsAnswered, Turn, Installing
<1>4. x.step = "dropping" => Placed(x.content.package, file', left', download')
  BY DEF Dest
<1>5. left \subseteq left' /\ left' \subseteq Package
  BY DiskFacts
<1> QED
  BY <1>2, <1>3, <1>4, <1>5, MoveOK

LEMMA ReadExistingOK ==
  ASSUME DiskInv, NEW d \in Downloads, ReadExisting(d)
  PROVE  DiskInv' /\ DiskKept
<1>1. download[d].step = "waiting" /\ MyTurn(d) /\ UNCHANGED <<file, meddled, left>>
  BY DEF ReadExisting
<1>2. Files(d, NoFile) /\ left \subseteq left' /\ left' \subseteq Package /\ download[d].step \notin Puts
  BY <1>1, DiskFacts DEF Files, Puts
<1>3. CASE file[Dest(d)] = download[d].content
  <2>1. Ends(d, "unchanged", FALSE)
    BY <1>3 DEF ReadExisting
  <2>2. DidAsAnswered(d)
    BY <1>1, <1>3, <2>1, DiskFacts DEF DidAsAnswered, Ends
  <2>3. "unchanged" \in Results /\ FALSE \in BOOLEAN
    BY DEF Results, Installed
  <2> QED
    BY <1>1, <1>2, <2>1, <2>2, <2>3, EndsOK
<1>4. CASE file[Dest(d)] # download[d].content
  <2> DEFINE x == [download[d] EXCEPT !.step = "writing", !.existing = file[Dest(d)]]
  <2>1. /\ DownloadTyped(x) /\ x.step = "writing" /\ x.server = download[d].server /\ x.content = download[d].content
        /\ x.existing = file[Dest(d)]
    BY <1>1, <1>4, DiskFacts DEF DownloadTyped, Steps, Turn, Installing
  <2>2. download' = [download EXCEPT ![d] = x] /\ UNCHANGED tails
    BY <1>4 DEF ReadExisting
  <2> HIDE DEF x
  <2>3. x.step \in Turn /\ FoundBy(x, file')
    BY <1>1, <2>1 DEF Turn, Installing, Steps, FoundBy, Dest
  <2> QED
    BY <1>1, <1>2, <2>1, <2>2, <2>3, GoesOnOK
<1> QED
  BY <1>3, <1>4

\* A step from one stage to another that moves nothing.
LEMMA StageOK ==
  ASSUME DiskInv, NEW d \in Downloads, NEW step, Goes(d, step), UNCHANGED <<file, meddled, left, tails>>,
         \/ download[d].step = "writing" /\ step = "renaming"
         \/ download[d].step = "renaming" /\ step = "backup" /\ download[d].existing # NoFile
  PROVE  DiskInv' /\ DiskKept
<1> DEFINE x == [download[d] EXCEPT !.step = step]
<1>1. /\ DownloadTyped(x) /\ x.step = step /\ x.server = download[d].server /\ x.content = download[d].content
      /\ x.existing = download[d].existing
  BY DiskFacts DEF DownloadTyped, Steps, Turn, Installing
<1>2. download' = [download EXCEPT ![d] = x]
  BY DEF Goes
<1> HIDE DEF x
<1>3. download[d].step \in Turn /\ x.step \in Turn /\ download[d].step \notin Puts /\ x.step # "dropping"
  BY <1>1 DEF Turn, Installing, Steps, Puts
<1>4. d \notin meddled' => FoundBy(x, file')
  BY <1>1 DEF FoundBy, DiskInv, FoundInv
<1>5. Files(d, NoFile)
  BY DiskFacts DEF Files
<1> QED
  BY <1>1, <1>2, <1>3, <1>4, <1>5, GoesOnOK

LEMMA RenameOK ==
  ASSUME DiskInv, NEW d \in Downloads, Rename(d)
  PROVE  DiskInv' /\ DiskKept
<1> DEFINE result == IF download[d].existing = NoFile THEN "downloaded" ELSE "replaced"
<1>1. download[d].step = "renaming" /\ Put(d, download[d].content) /\ Ends(d, result, FALSE) /\ UNCHANGED left
  BY DEF Rename
<1>2. download[d].step \in Turn /\ download[d].step \notin Puts /\ download[d].content \in Content /\ download[d].content # NoFile
  BY <1>1, DiskFacts, SomeTyped DEF Turn, Installing, Steps, Puts, DownloadTyped
<1>3. Files(d, download[d].content)
  BY <1>1, <1>2 DEF Files, Dest
<1>4. file'[Dest(d)] = download[d].content
  BY <1>1, DiskFacts DEF Put
<1>5. Placed(Dest(d), file', left', download')
  BY <1>2, <1>4 DEF Placed
<1>6. download'[d].result = result
  BY <1>1, DiskFacts DEF Ends
<1>7. ASSUME d \notin meddled' PROVE DidAsAnswered(d)
  <2>1. file[Dest(d)] = download[d].existing
    BY <1>1, <1>7 DEF DiskInv, FoundInv, FoundBy, Put, Dest
  <2>2. download[d].existing # download[d].content
    BY <1>2, DiskFacts DEF DownloadTyped
  <2> QED
    BY <1>4, <1>6, <2>1, <2>2 DEF DidAsAnswered
<1>8. result \in Results /\ FALSE \in BOOLEAN /\ left \subseteq left' /\ left' \subseteq Package
  BY <1>1, DiskFacts DEF Results, Installed
<1> HIDE DEF result
<1> QED
  BY <1>1, <1>2, <1>3, <1>5, <1>7, <1>8, EndsOK

LEMMA MoveAsideOK ==
  ASSUME DiskInv, NEW d \in Downloads, MoveAside(d)
  PROVE  DiskInv' /\ DiskKept
<1> DEFINE x == [download[d] EXCEPT !.step = "swapping", !.backup = file[Dest(d)]]
<1>1. download[d].step = "backup" /\ file[Dest(d)] # NoFile /\ Put(d, NoFile) /\ UNCHANGED <<left, tails>>
  BY DEF MoveAside
<1>2. file[Dest(d)] \in Content /\ file[Dest(d)].package = download[d].content.package
  BY <1>1, DiskFacts DEF Dest
<1>3. /\ DownloadTyped(x) /\ x.step = "swapping" /\ x.server = download[d].server /\ x.content = download[d].content
  BY <1>1, <1>2, DiskFacts DEF DownloadTyped, Steps, Turn, Installing
<1>4. download' = [download EXCEPT ![d] = x]
  BY DEF MoveAside
<1> HIDE DEF x
<1>5. download[d].step \in Turn /\ x.step \in Turn /\ FoundBy(x, file')
  BY <1>1, <1>3 DEF Turn, Installing, Steps, FoundBy
<1>6. Files(d, NoFile)
  BY <1>1, <1>5 DEF Files
<1>7. Placed(Dest(d), file', left', download')
  <2>1. download'[d].step \in Puts /\ download'[d].content.package = Dest(d)
    BY <1>3, <1>4, DiskFacts DEF Puts, Dest
  <2> QED
    BY <2>1 DEF Placed
<1> QED
  BY <1>1, <1>3, <1>4, <1>5, <1>6, <1>7, GoesOnOK

LEMMA SwapOK ==
  ASSUME DiskInv, NEW d \in Downloads, Swap(d)
  PROVE  DiskInv' /\ DiskKept
<1>1. download[d].step = "swapping" /\ UNCHANGED <<left, tails>>
  BY DEF Swap
<1>2. PICK step \in {"dropping", "restoring"} :
        /\ Goes(d, step)
        /\ step = "dropping" => Put(d, download[d].content)
        /\ step = "restoring" => UNCHANGED <<file, meddled>>
  BY DEF Swap
<1> DEFINE x == [download[d] EXCEPT !.step = step]
<1>3. DownloadTyped(x) /\ x.step = step /\ x.server = download[d].server /\ x.content = download[d].content
  BY <1>1, DiskFacts DEF DownloadTyped, Steps, Turn, Installing
<1>4. download' = [download EXCEPT ![d] = x]
  BY <1>2 DEF Goes
<1> HIDE DEF x
<1>5. download[d].step \in Turn /\ x.step \in Turn /\ download[d].content \in Content /\ download[d].content # NoFile
  BY <1>1, <1>3, DiskFacts, SomeTyped DEF Turn, Installing, Steps, DownloadTyped
<1>6. CASE step = "dropping"
  <2>1. file'[Dest(d)] = download[d].content
    BY <1>2, <1>6, DiskFacts DEF Put
  <2>2. FoundBy(x, file') /\ Placed(Dest(d), file', left', download')
    BY <1>3, <1>5, <1>6, <2>1 DEF FoundBy, Placed, Dest
  <2>3. Files(d, download[d].content)
    BY <1>2, <1>5, <1>6 DEF Files, Dest
  <2> QED
    BY <1>1, <1>3, <1>4, <1>5, <2>2, <2>3, GoesOnOK
<1>7. CASE step = "restoring"
  <2>1. download'[d].step \in Puts /\ download'[d].content.package = Dest(d)
    BY <1>3, <1>4, <1>7, DiskFacts DEF Puts, Dest
  <2>2. FoundBy(x, file') /\ Placed(Dest(d), file', left', download')
    BY <1>3, <1>7, <2>1 DEF FoundBy, Placed
  <2>3. Files(d, NoFile)
    BY <1>2, <1>7, DiskFacts DEF Files
  <2> QED
    BY <1>1, <1>3, <1>4, <1>5, <2>2, <2>3, GoesOnOK
<1> QED
  BY <1>6, <1>7

LEMMA RestoreOK ==
  ASSUME DiskInv, NEW d \in Downloads, Restore(d)
  PROVE  DiskInv' /\ DiskKept
<1> DEFINE backup == download[d].backup
<1>1. download[d].step = "restoring" /\ Ends(d, "CONFIGURATION_ERROR", FALSE)
  BY DEF Restore
<1>2. download[d].step \in Turn /\ backup \in Content \cup {NoFile} /\ backup # NoFile /\ backup.package = Dest(d)
  BY <1>1, DiskFacts DEF Turn, Installing, Steps, DownloadTyped, Dest
<1>3. DidAsAnswered(d)
  BY <1>1, DiskFacts DEF DidAsAnswered, Ends, Installed
<1>4. "CONFIGURATION_ERROR" \in Results /\ FALSE \in BOOLEAN
  BY DEF Results
<1>5. CASE Put(d, backup) /\ UNCHANGED left
  <2>1. Files(d, backup) /\ Placed(Dest(d), file', left', download')
    BY <1>2, <1>5, DiskFacts DEF Files, Put, Placed
  <2> QED
    BY <1>1, <1>2, <1>3, <1>4, <1>5, <2>1, DiskFacts, EndsOK
<1>6. CASE left' = left \cup {Dest(d)} /\ UNCHANGED <<file, meddled>>
  <2>1. Files(d, NoFile) /\ Placed(Dest(d), file', left', download')
    BY <1>6, DiskFacts DEF Files, Placed
  <2>2. left \subseteq left' /\ left' \subseteq Package
    BY <1>6, DiskFacts
  <2> QED
    BY <1>1, <1>2, <1>3, <1>4, <2>1, <2>2, EndsOK
<1> QED
  BY <1>5, <1>6 DEF Restore

LEMMA DropBackupOK ==
  ASSUME DiskInv, NEW d \in Downloads, DropBackup(d)
  PROVE  DiskInv' /\ DiskKept
<1>1. PICK removed \in BOOLEAN : left' = (IF removed THEN left ELSE left \cup {Dest(d)}) /\ Ends(d, "replaced", ~removed)
  BY DEF DropBackup
<1>2. download[d].step = "dropping" /\ UNCHANGED <<file, meddled>>
  BY DEF DropBackup
<1>3. download[d].step \in Turn /\ download[d].step \notin Puts
  BY <1>2 DEF Turn, Installing, Steps, Puts
<1>4. Files(d, NoFile) /\ left \subseteq left' /\ left' \subseteq Package
  BY <1>1, <1>2, DiskFacts DEF Files
<1>5. "replaced" \in Results /\ (~removed) \in BOOLEAN
  BY DEF Results, Installed
<1>6. ASSUME d \notin meddled' PROVE DidAsAnswered(d)
  <2>1. file[Dest(d)] = download[d].content
    BY <1>2, <1>6 DEF DiskInv, FoundInv, FoundBy, Dest
  <2>2. download[d].existing \notin {NoFile, download[d].content}
    BY <1>2, <1>3, DiskFacts DEF DownloadTyped
  <2>3. download'[d].result = "replaced"
    BY <1>1, DiskFacts DEF Ends
  <2> QED
    BY <1>2, <2>1, <2>2, <2>3 DEF DidAsAnswered
<1> QED
  BY <1>1, <1>2, <1>3, <1>4, <1>5, <1>6, EndsOK

LEMMA StepFailsOK ==
  ASSUME DiskInv, NEW d \in Downloads, StepFails(d)
  PROVE  DiskInv' /\ DiskKept
<1>1. Ends(d, "CONFIGURATION_ERROR", FALSE) /\ UNCHANGED <<file, meddled, left>>
  BY DEF StepFails, InstallFails
<1>2. /\ download[d].step \in Turn \/ (download[d].step = "waiting" /\ MyTurn(d))
      /\ download[d].step \notin Puts
  BY DEF StepFails, Turn, Installing, Steps, Puts
<1>3. DidAsAnswered(d)
  BY <1>1, DiskFacts DEF DidAsAnswered, Ends, Installed
<1>4. "CONFIGURATION_ERROR" \in Results /\ FALSE \in BOOLEAN
  BY DEF Results
<1>5. Files(d, NoFile) /\ left \subseteq left' /\ left' \subseteq Package
  BY <1>1, DiskFacts DEF Files
<1> QED
  BY <1>1, <1>2, <1>3, <1>4, <1>5, EndsOK

LEMMA StepOK ==
  ASSUME DiskInv, NEW d \in Downloads, Step(d)
  PROVE  DiskInv' /\ DiskKept
<1>1. CASE Answered(d)
  BY <1>1, AnsweredOK
<1>2. CASE RequestFails(d)
  BY <1>2, RequestFailsOK
<1>3. CASE ReadExisting(d)
  BY <1>3, ReadExistingOK
<1>4. CASE WriteTemp(d)
  BY <1>4, StageOK DEF WriteTemp
<1>5. CASE Rename(d)
  BY <1>5, RenameOK
<1>6. CASE RenameRefused(d)
  BY <1>6, StageOK DEF RenameRefused
<1>7. CASE MoveAside(d)
  BY <1>7, MoveAsideOK
<1>8. CASE Swap(d)
  BY <1>8, SwapOK
<1>9. CASE Restore(d)
  BY <1>9, RestoreOK
<1>10. CASE DropBackup(d)
  BY <1>10, DropBackupOK
<1>11. CASE StepFails(d)
  BY <1>11, StepFailsOK
<1> QED
  BY <1>1, <1>2, <1>3, <1>4, <1>5, <1>6, <1>7, <1>8, <1>9, <1>10, <1>11 DEF Step

\* What a process had in hand when it died stays beside its place.
LEMMA CrashOK ==
  ASSUME DiskInv, NEW s \in Servers, Crash(s)
  PROVE  DiskInv' /\ DiskKept
<1> DEFINE mine == {d \in Downloads : download[d].server = s /\ download[d].step \notin {"idle", "dead"}}
           gone == [NoDownload EXCEPT !.step = "dead"]
<1>1. /\ left' = left \cup {Dest(d) : d \in {e \in mine : download[e].backup # NoFile}}
      /\ UNCHANGED <<file, meddled>>
      /\ download' = [d \in Downloads |-> IF d \in mine THEN gone ELSE download[d]]
      /\ tails' = [z \in Servers \X Package |-> IF z[1] = s THEN <<>> ELSE tails[z]]
  BY DEF Crash
<1>2. DownloadTyped(gone) /\ gone.step = "dead"
  BY SomeTyped DEF NoDownload, DownloadTyped, Steps, Turn, Installing
<1> HIDE DEF gone
<1>3. /\ \A d \in Downloads : download[d].server # s => download'[d] = download[d]
      /\ \A d \in Downloads :
           download'[d].step = "dead" \/ (download'[d] = download[d] /\ (download[d].server = s => download[d].step \in {"idle", "dead"}))
      /\ DOMAIN tails' = Servers \X Package
      /\ \A z \in Servers \X Package : IF z[1] = s THEN tails'[z] = <<>> ELSE tails'[z] = tails[z]
  BY <1>1, <1>2
<1>4. TurnsOK(download, tails) /\ Typed(download)
  BY DEF DiskInv, DiskTyped, TurnsInv
<1>5. TurnsOK(download', tails')
  BY <1>2, <1>3, <1>4, TurnsCrash
<1> HIDE DEF mine
<1>6. \A d \in Downloads : (download'[d] = gone /\ d \in mine) \/ (download'[d] = download[d] /\ d \notin mine)
  BY <1>1
<1>7. left \subseteq left' /\ \A d \in Downloads : d \in mine /\ download[d].backup # NoFile => Dest(d) \in left'
  BY <1>1
<1>8. left' \subseteq Package
  <2>1. \A d \in mine : Dest(d) \in Package
    BY DiskFacts DEF mine
  <2>2. left \subseteq Package
    BY DEF DiskInv, DiskTyped
  <2> QED
    BY <1>1, <2>1, <2>2
<1>9. Typed(download')
  BY <1>1, <1>2, <1>4, <1>6 DEF Typed
<1>10. DiskTyped'
  BY <1>1, <1>8, <1>9 DEF DiskInv, DiskTyped
<1>11. ASSUME NEW p \in Package, Placed(p, file, left, download) PROVE Placed(p, file', left', download')
  <2>1. CASE file[p] # NoFile \/ p \in left
    BY <1>1, <1>7, <2>1 DEF Placed
  <2>2. CASE \E e \in Downloads : download[e].step \in Puts /\ download[e].content.package = p
    <3>1. PICK e \in Downloads : download[e].step \in Puts /\ download[e].content.package = p
      BY <2>2
    <3>2. download[e].backup # NoFile
      BY <1>4, <3>1 DEF Typed, DownloadTyped, Puts
    <3>3. CASE e \in mine
      BY <1>7, <3>1, <3>2, <3>3 DEF Placed, Dest
    <3>4. CASE e \notin mine
      BY <1>6, <3>1, <3>4 DEF Placed
    <3> QED
      BY <3>3, <3>4
  <2> QED
    BY <1>11, <2>1, <2>2 DEF Placed
<1>12. PlaceInv'
  <2>1. ASSUME NEW e \in Downloads, download'[e].step = "dropping"
        PROVE  Placed(download'[e].content.package, file', left', download')
    <3>1. download'[e] = download[e]
      BY <1>2, <1>6, <2>1
    <3> QED
      BY <1>11, <2>1, <3>1, DiskFacts DEF DiskInv, PlaceInv, Dest
  <2> QED
    BY <2>1 DEF PlaceInv, Dest
<1>13. FoundInv'
  <2>1. ASSUME NEW e \in Downloads, e \notin meddled' PROVE FoundBy(download'[e], file')
    <3>1. CASE e \in mine
      BY <1>2, <1>6, <3>1 DEF FoundBy
    <3>2. CASE e \notin mine
      BY <1>1, <1>6, <2>1, <3>2 DEF DiskInv, FoundInv
    <3> QED
      BY <3>1, <3>2
  <2> QED
    BY <2>1 DEF FoundInv
<1>14. ASSUME NEW p \in Package, Kept(p) PROVE Kept(p)'
  <2>1. Placed(p, file, left, download)
    BY <1>4, <1>14, KeptIsPlaced DEF DiskInv, PlaceInv, Kept, Dest
  <2>2. Placed(p, file', left', download')
    BY <1>11, <2>1
  <2>3. file'[p] # NoFile \/ p \in left' \/ \E e \in Downloads : download'[e].backup # NoFile /\ download'[e].content.package = p
    BY <1>9, <2>2 DEF Placed, Typed, DownloadTyped, Puts
  <2> QED
    BY <2>3 DEF Kept, Dest
<1>15. ASSUME NEW e \in Downloads PROVE DidAsAnswered(e)
  BY <1>2, <1>6 DEF DidAsAnswered, Installing
<1>16. TurnsInv'
  BY <1>5 DEF TurnsInv
<1> QED
  BY <1>10, <1>12, <1>13, <1>14, <1>15, <1>16 DEF DiskInv, DiskKept

\* The worklist takes the answer of its download.
LEMMA FetchedOK ==
  ASSUME DiskInv, Fetched
  PROVE  DiskInv' /\ DiskKept
<1> DEFINE x == [download[symbols] EXCEPT !.step = "idle"]
<1>1. symbols \in Downloads
  BY SymbolsAssumption
<1>2. download[symbols].step = "over" /\ UNCHANGED <<file, meddled, left, tails>>
  BY DEF Fetched
<1>3. DownloadTyped(x) /\ x.step = "idle"
  BY <1>1, <1>2, DiskFacts DEF DownloadTyped, Steps, Turn, Installing
<1>4. download' = [download EXCEPT ![symbols] = x]
  BY DEF Fetched
<1> HIDE DEF x
<1>5. download[symbols].step \notin Installing /\ x.step \notin Installing
  BY <1>2, <1>3 DEF Installing
<1> QED
  BY <1>1, <1>2, <1>3, <1>4, <1>5, DiskFacts, QuietOK

LEMMA DiskStill ==
  ASSUME DiskInv, DiskUnchanged
  PROVE  DiskInv' /\ DiskKept
<1>1. UNCHANGED <<file, meddled, left, download, tails, crashes>>
  BY DEF DiskUnchanged, diskVars
<1>2. DiskInv'
  BY <1>1 DEF DiskInv, DiskTyped, TurnsInv, PlaceInv, FoundInv, Dest
<1>3. \A d : DidAsAnswered(d)
  BY <1>1 DEF DidAsAnswered, Installing
<1>4. \A p : Kept(p) => Kept(p)'
  BY <1>1 DEF Kept, Dest
<1> QED
  BY <1>2, <1>3, <1>4 DEF DiskKept

LEMMA DiskInvKept ==
  ASSUME DiskInv, Next
  PROVE  DiskInv' /\ DiskKept
<1>1. CASE Begin
  BY <1>1, DiskStill DEF Begin
<1>2. CASE Worklist
  <2>1. CASE Finish \/ Skip \/ Miss \/ ReadBack
    BY <2>1, DiskStill DEF Finish, Skip, Miss, ReadBack
  <2>2. CASE Fetch
    BY <2>2, RequestOK, SymbolsAssumption DEF Fetch
  <2>3. CASE Fetched
    BY <2>3, FetchedOK
  <2> QED
    BY <1>2, <2>1, <2>2, <2>3 DEF Worklist
<1>3. ASSUME NEW d \in Downloads \ {symbols}, NEW s \in Servers, NEW wanted \in Requests, Request(d, s, wanted)
      PROVE  DiskInv' /\ DiskKept
  BY <1>3, RequestOK
<1>4. ASSUME NEW d \in Downloads, Downloading(d)
      PROVE  DiskInv' /\ DiskKept
  BY <1>4, StepOK DEF Downloading
<1>5. ASSUME NEW s \in Servers, ServerDies(s)
      PROVE  DiskInv' /\ DiskKept
  BY <1>5, CrashOK DEF ServerDies
<1> QED
  BY <1>1, <1>2, <1>3, <1>4, <1>5 DEF Next

(* Whoever downloads, and whichever server dies: a package that was in
   .alpackages stays there or in a backup beside its place, and a download
   whose destination no other server wrote answers what it did. *)
THEOREM FilesTrusted == Spec => FilesKept
<1>1. Init => DiskInv
  BY DiskInitOK
<1>2. DiskInv /\ [Next]_vars => DiskInv'
  <2>1. CASE Next
    BY <2>1, DiskInvKept
  <2>2. CASE UNCHANGED vars
    BY <2>2, DiskStill DEF vars, DiskUnchanged
  <2> QED
    BY <2>1, <2>2
<1>3. DiskInv /\ [Next]_vars => [\A p \in Package : Kept(p) => Kept(p)']_diskVars
  <2>1. CASE Next
    BY <2>1, DiskInvKept DEF DiskKept
  <2>2. CASE UNCHANGED vars
    BY <2>2 DEF vars
  <2> QED
    BY <2>1, <2>2
<1>4. DiskInv /\ [Next]_vars =>
        [\A d \in Downloads \ meddled' :
           download[d].step \in Installing /\ download'[d].step = "over" /\ download'[d].result \in Installed
             => /\ file'[Dest(d)] = download[d].content
                /\ download'[d].result = "unchanged" => file' = file
                /\ download'[d].result = "downloaded" => file[Dest(d)] = NoFile
                /\ download'[d].result = "replaced" => download[d].existing \notin {NoFile, download[d].content}]_diskVars
  <2>1. CASE Next
    BY <2>1, DiskInvKept DEF DiskKept, DidAsAnswered
  <2>2. CASE UNCHANGED vars
    BY <2>2 DEF vars
  <2> QED
    BY <2>1, <2>2
<1> QED
  BY <1>1, <1>2, <1>3, <1>4, PTL DEF Spec, FilesKept, NothingLost, AnswersWhatItDid

-----------------------------------------------------------------------------
(* Counting *)

\* What holds of 0 and, if of n, then of n + 1, holds of every natural number.
LEMMA Induction ==
  ASSUME NEW G, 0 \in G, \A n \in Nat : n \in G => n + 1 \in G
  PROVE  \A n \in Nat : n \in G
<1> DEFINE T == Nat \ G
           R == OpToRel(<, Nat)
<1> SUFFICES ASSUME T # {} PROVE FALSE
  OBVIOUS
<1>1. IsWellFoundedOn(R, Nat)
  BY NatLessThanWellFounded, Zenon
<1>2. \A x, y \in Nat : x < y => <<x, y>> \in R
  BY DEF OpToRel
<1>3. T \subseteq Nat
  OBVIOUS
<1> HIDE DEF R
<1>4. PICK x \in T : \A y \in T : ~ (<<y, x>> \in R)
  BY <1>1, <1>3, WFMin
<1>5. x # 0 /\ x - 1 \in Nat /\ x - 1 < x
  OBVIOUS
<1>6. x - 1 \in T
  OBVIOUS
<1> QED
  BY <1>2, <1>4, <1>5, <1>6

\* Of finitely many packages one has the highest version.
LEMMA NewestExists ==
  ASSUME NEW packages, packages \subseteq Package, packages # {}
  PROVE  Newest(packages) \in packages /\ \A q \in packages : q.version <= Newest(packages).version
<1>0. \A p \in Package : p.version \in Nat
  BY PackageAssumption
<1> DEFINE Tops(S) == \E p \in S : \A q \in S : q.version <= p.version
           G == {n \in Nat : \A S \in SUBSET Package : IsFiniteSet(S) /\ Cardinality(S) = n + 1 => Tops(S)}
<1>1. 0 \in G
  <2>1. ASSUME NEW S \in SUBSET Package, IsFiniteSet(S), Cardinality(S) = 1 PROVE Tops(S)
    <3>1. PICK p : S = {p}
      BY <2>1, FS_Singleton
    <3> QED
      BY <1>0, <3>1
  <2> QED
    BY <2>1
<1>2. ASSUME NEW n \in Nat, n \in G PROVE n + 1 \in G
  <2>1. ASSUME NEW S \in SUBSET Package, IsFiniteSet(S), Cardinality(S) = n + 2 PROVE Tops(S)
    <3>1. PICK p \in S : TRUE
      BY <2>1, FS_EmptySet
    <3>2. IsFiniteSet(S \ {p}) /\ Cardinality(S \ {p}) = n + 1
      BY <2>1, <3>1, FS_RemoveElement
    <3>3. PICK t \in S \ {p} : \A q \in S \ {p} : q.version <= t.version
      BY <1>2, <3>2
    <3>4. p.version \in Nat /\ t.version \in Nat /\ \A q \in S : q.version \in Nat
      BY <1>0, <3>1, <3>3
    <3> QED
      BY <3>1, <3>3, <3>4
  <2>2. n + 1 \in Nat /\ (n + 1) + 1 = n + 2
    OBVIOUS
  <2> HIDE DEF Tops
  <2> QED
    BY <2>1, <2>2
<1>3. IsFiniteSet(packages) /\ Cardinality(packages) \in Nat /\ Cardinality(packages) # 0
  BY FS_Subset, FS_CardinalityType, FS_EmptySet, GraphAssumption
<1> HIDE DEF G
<1>4. Cardinality(packages) - 1 \in G
  BY <1>1, <1>2, <1>3, Induction
<1>5. (Cardinality(packages) - 1) + 1 = Cardinality(packages)
  BY <1>3
<1>6. Tops(packages)
  BY <1>3, <1>4, <1>5 DEF G
<1> QED
  BY <1>6 DEF Newest

\* Enqueueing all of a list is enqueueing one after the other.
LEMMA OneByOne ==
  ASSUME NEW s, NEW references, Len(references) \in Nat
  PROVE  \E after : /\ after[0] = s /\ EnqueueAll(s, references) = after[Len(references)]
                    /\ \A n \in 1..Len(references) : after[n] = Enqueue(after[n - 1], references[n])
<1> DEFINE Rule(f, N) == f = [n \in 0..N |-> IF n = 0 THEN s ELSE Enqueue(f[n - 1], references[n])]
           G == {N \in Nat : \E f : Rule(f, N)}
<1>1. 0 \in G
  <2>1. Rule([n \in 0..0 |-> s], 0)
    OBVIOUS
  <2> QED
    BY <2>1
<1>2. ASSUME NEW N \in Nat, N \in G PROVE N + 1 \in G
  <2>1. PICK f : Rule(f, N)
    BY <1>2
  <2> DEFINE g == [n \in 0..(N + 1) |-> IF n \in 0..N THEN f[n] ELSE Enqueue(f[N], references[N + 1])]
  <2>2. \A n \in 0..N : g[n] = f[n]
    OBVIOUS
  <2>3. g[N + 1] = Enqueue(g[N], references[N + 1])
    BY <2>2
  <2>4. \A n \in 0..N : f[n] = IF n = 0 THEN s ELSE Enqueue(f[n - 1], references[n])
    BY <2>1
  <2>5. \A n \in 0..(N + 1) : g[n] = IF n = 0 THEN s ELSE Enqueue(g[n - 1], references[n])
    <3> TAKE n \in 0..(N + 1)
    <3>1. CASE n = N + 1
      BY <2>3, <3>1
    <3>2. CASE n \in 0..N
      <4>1. n # 0 => n - 1 \in 0..N
        BY <3>2
      <4> HIDE DEF g
      <4> QED
        BY <2>2, <2>4, <3>2, <4>1
    <3> QED
      BY <3>1, <3>2
  <2>6. g = [n \in 0..(N + 1) |-> g[n]]
    OBVIOUS
  <2> HIDE DEF g
  <2>7. Rule(g, N + 1)
    BY <2>5, <2>6
  <2> QED
    BY <2>7
<1> HIDE DEF G
<1>3. Len(references) \in G
  BY <1>1, <1>2, Induction
<1> DEFINE f == CHOOSE f : Rule(f, Len(references))
<1>4. Rule(f, Len(references))
  BY <1>3 DEF G
<1>5. EnqueueAll(s, references) = f[Len(references)]
  BY DEF EnqueueAll
<1> HIDE DEF f
<1>6. f[0] = s /\ \A n \in 1..Len(references) : f[n] = Enqueue(f[n - 1], references[n])
  BY <1>4
<1> QED
  BY <1>5, <1>6

-----------------------------------------------------------------------------
(* The worklist *)

Fine(s) == s.failure = ""

InLine(s, k) == \E i \in 1..Len(s.queue) : s.queue[i] = k

Found == {"skipped"} \cup Installed

\* Row x of key k says what is so, with this minimum.
RowSound(x, k, version) ==
  IF x.status \in Found THEN x.package \in Package /\ x.package.app = AppOf(k) /\ x.package.version >= version
  ELSE x.package = NoFile

\* The books while nobody, or key h, is in hand: a key stands for itself, or the app ID of the Application for
\* its concept; who stands for himself has a row, waits for it in the queue, or is in hand.
Books(s, h) ==
  /\ \A i \in 1..Len(s.queue) : s.queued[s.queue[i]] = s.queue[i] /\ s.row[s.queue[i]].status = "none" /\ s.queue[i] # h
  /\ \A i, j \in 1..Len(s.queue) : s.queue[i] = s.queue[j] => i = j
  /\ h # NoKey => h \in Key /\ s.queued[h] = h /\ s.row[h].status = "none"
  /\ \A k \in Key : s.queued[k] \in {NoKey, k} \/ (k = ConceptApp /\ s.queued[k] = Concept /\ s.queued[Concept] = Concept)
  /\ \A k \in Key : s.queued[k] = k => InLine(s, k) \/ k = h \/ s.row[k].status # "none"
  /\ \A k \in Key : RowSound(s.row[k], k, s.min[k]) /\ (s.row[k].status # "none" => s.queued[k] = k)

Good(s, h) ==
  /\ s \in Call
  /\ \A k \in Key : s.queued[k] = NoKey => s.row[k].status = "none"
  /\ Fine(s) => Books(s, h)

\* A demand for this version of a key is kept in mind: by the minimum of what is still to be fetched, or by the row.
Held(s, key, version) ==
  LET e == s.queued[key] IN
  /\ e # NoKey
  /\ s.row[e].status = "none" => s.min[e] >= version
  /\ s.row[e].status \in Found => s.row[e].noted \/ s.row[e].package.version >= version

\* What does not change from s to t when more is demanded.
Grows(s, t) ==
  /\ t.step = s.step /\ t.roots = s.roots /\ t.force = s.force /\ t.dryRun = s.dryRun /\ t.at = s.at
  /\ t.transitive = s.transitive /\ t.cache = s.cache
  /\ \A k \in Key : /\ t.row[k].package = s.row[k].package /\ t.row[k].status = s.row[k].status
                    /\ s.queued[k] # NoKey => t.queued[k] = s.queued[k]
  /\ ~Fine(s) => t = s
  /\ Fine(t) => \A k \in Key, version \in Versions : Held(s, k, version) => Held(t, k, version)

LEMMA KeyFacts ==
  /\ NoKey \notin Key /\ Concept \in Key /\ Concept \notin App /\ ConceptApp \in App /\ App \subseteq Key
  /\ Versions \subseteq Nat /\ NoFile \notin Package
  /\ \A p \in Package : p.app \in App /\ p.version \in Versions
  /\ \A k \in Key : AppOf(k) \in App
BY PackageAssumption, SymbolsAssumption, GraphAssumption DEF Key, AppOf

\* What is known of a worklist's locals.
LEMMA CallTyped ==
  ASSUME NEW s \in Call
  PROVE  /\ s.queue \in Seq(Key) /\ Len(s.queue) \in Nat /\ \A i \in 1..Len(s.queue) : s.queue[i] \in Key
         /\ s.min \in [Key -> Versions] /\ s.queued \in [Key -> Key \cup {NoKey}] /\ s.row \in [Key -> Row]
         /\ s.cache \subseteq Package /\ s.at \in Key /\ s.roots \in Roots /\ s.transitive \subseteq Key
         /\ s.dryRun \in BOOLEAN /\ s.force \in BOOLEAN
         /\ \A k \in Key : s.min[k] \in Nat
<1>1. s.queue \in Seq(Key) /\ s.min \in [Key -> Versions] /\ s.queued \in [Key -> Key \cup {NoKey}] /\ s.row \in [Key -> Row]
      /\ s.cache \subseteq Package /\ s.at \in Key /\ s.roots \in Roots /\ s.transitive \subseteq Key
  BY DEF Call
<1>2. s.dryRun \in BOOLEAN /\ s.force \in BOOLEAN
  BY Zenon DEF Call
<1>3. Len(s.queue) \in Nat /\ \A i \in 1..Len(s.queue) : s.queue[i] \in Key
  BY <1>1, ElementOfSeq
<1> QED
  BY <1>1, <1>2, <1>3, KeyFacts

Joined(s, k, version) == [s EXCEPT !.queued[k] = k, !.queue = Append(@, k), !.min[k] = version]

\* A key nobody asked for yet joins the queue.
LEMMA JoinOK ==
  ASSUME NEW s, Good(s, NoKey), Fine(s), NEW k \in Key, s.queued[k] = NoKey, NEW version \in Versions,
         NEW t, t = Joined(s, k, version)
  PROVE  Good(t, NoKey) /\ Grows(s, t) /\ Held(t, k, version)
<1> DEFINE n == Len(s.queue)
<1> HIDE DEF n
<1>0. s \in Call /\ Books(s, NoKey)
  BY DEF Good
<1>15. n \in Nat
  BY <1>0, CallTyped DEF n
<1>16. \A i \in 1..n : s.queue[i] \in Key
  BY <1>0, CallTyped DEF n
<1>17. s.queue \in Seq(Key)
  BY <1>0, CallTyped
<1>1. /\ s.min \in [Key -> Versions] /\ s.queued \in [Key -> Key \cup {NoKey}] /\ s.row \in [Key -> Row]
  BY <1>0, CallTyped
<1>2. /\ t.queued = [s.queued EXCEPT ![k] = k] /\ t.queue = Append(s.queue, k) /\ t.min = [s.min EXCEPT ![k] = version]
      /\ t.row = s.row /\ t.failure = s.failure /\ (Fine(t) <=> Fine(s))
      /\ t.step = s.step /\ t.roots = s.roots /\ t.force = s.force /\ t.dryRun = s.dryRun /\ t.at = s.at
      /\ t.transitive = s.transitive /\ t.cache = s.cache
  <2>1. /\ t.queued = [s.queued EXCEPT ![k] = k] /\ t.queue = Append(s.queue, k) /\ t.min = [s.min EXCEPT ![k] = version]
        /\ t.row = s.row /\ t.failure = s.failure
        /\ t.step = s.step /\ t.roots = s.roots /\ t.force = s.force /\ t.dryRun = s.dryRun /\ t.at = s.at
        /\ t.transitive = s.transitive /\ t.cache = s.cache
    BY <1>0 DEF Call, Joined
  <2> QED
    BY <2>1, Zenon DEF Fine
<1>3. t \in Call
  <2>1. Append(s.queue, k) \in Seq(Key)
    BY <1>17, AppendProperties
  <2>2. [s.queued EXCEPT ![k] = k] \in [Key -> Key \cup {NoKey}] /\ [s.min EXCEPT ![k] = version] \in [Key -> Versions]
    BY <1>1
  <2>3. t = [s EXCEPT !.queued = [s.queued EXCEPT ![k] = k], !.queue = Append(s.queue, k), !.min = [s.min EXCEPT ![k] = version]]
    BY DEF Joined
  <2> QED
    BY <1>0, <2>1, <2>2, <2>3 DEF Call
<1>4. /\ Len(t.queue) = n + 1 /\ t.queue[n + 1] = k /\ \A i \in 1..n : t.queue[i] = s.queue[i]
  BY <1>17, <1>2, AppendProperties DEF n
<1>5. /\ \A i \in 1..(n + 1) : i \in 1..n \/ i = n + 1
      /\ \A i \in 1..n : i \in 1..(n + 1)
      /\ n + 1 \in 1..(n + 1)
  BY <1>15
<1>6. \A j \in Key : j # k => t.queued[j] = s.queued[j] /\ t.min[j] = s.min[j]
  BY <1>1, <1>2
<1>7. t.queued[k] = k /\ t.min[k] = version
  BY <1>1, <1>2
<1>8. s.row[k].status = "none" /\ k # NoKey
  BY KeyFacts DEF Good
<1>9. \A i \in 1..n : s.queue[i] # k
  BY <1>0, <1>8 DEF Books, n
<1>10. Books(t, NoKey)
  <2>1. ASSUME NEW i \in 1..(n + 1)
        PROVE  t.queued[t.queue[i]] = t.queue[i] /\ t.row[t.queue[i]].status = "none" /\ t.queue[i] # NoKey
    <3>1. CASE i = n + 1
      BY <1>2, <1>4, <1>7, <1>8, <3>1
    <3>2. CASE i \in 1..n
      <4>1. t.queue[i] = s.queue[i] /\ s.queue[i] \in Key /\ s.queue[i] # k
        BY <1>16, <1>4, <1>9, <3>2
      <4>2. s.queued[s.queue[i]] = s.queue[i] /\ s.row[s.queue[i]].status = "none" /\ s.queue[i] # NoKey
        BY <1>0, <3>2 DEF Books, n
      <4> QED
        BY <1>2, <1>6, <4>1, <4>2
    <3> QED
      BY <1>5, <3>1, <3>2
  <2>2. ASSUME NEW i \in 1..(n + 1), NEW j \in 1..(n + 1), t.queue[i] = t.queue[j] PROVE i = j
    <3>1. CASE i \in 1..n /\ j \in 1..n
      BY <1>0, <1>4, <2>2, <3>1 DEF Books, n
    <3>2. CASE ~(i \in 1..n /\ j \in 1..n)
      BY <1>4, <1>5, <1>9, <2>2, <3>2
    <3> QED
      BY <3>1, <3>2
  <2>3. ASSUME NEW j \in Key
        PROVE  t.queued[j] \in {NoKey, j} \/ (j = ConceptApp /\ t.queued[j] = Concept /\ t.queued[Concept] = Concept)
    <3>1. s.queued[j] \in {NoKey, j} \/ (j = ConceptApp /\ s.queued[j] = Concept /\ s.queued[Concept] = Concept)
      BY <1>0 DEF Books
    <3> QED
      BY <1>6, <1>7, <3>1, KeyFacts
  <2>4. ASSUME NEW j \in Key, t.queued[j] = j PROVE InLine(t, j) \/ j = NoKey \/ t.row[j].status # "none"
    <3>1. CASE j = k
      <4>1. n + 1 \in 1..Len(t.queue)
        BY <1>4, <1>5
      <4> QED
        BY <1>4, <3>1, <4>1 DEF InLine
    <3>2. CASE j # k
      <4>1. s.queued[j] = j
        BY <1>6, <2>4, <3>2
      <4>2. InLine(s, j) \/ j = NoKey \/ s.row[j].status # "none"
        BY <1>0, <4>1 DEF Books
      <4>3. ASSUME InLine(s, j) PROVE InLine(t, j)
        <5>1. PICK i \in 1..n : s.queue[i] = j
          BY <4>3 DEF InLine, n
        <5>2. i \in 1..Len(t.queue)
          BY <1>4, <1>5, <5>1
        <5> QED
          BY <1>4, <5>1, <5>2 DEF InLine
      <4> QED
        BY <1>2, <4>2, <4>3
    <3> QED
      BY <3>1, <3>2
  <2>5. ASSUME NEW j \in Key
        PROVE  RowSound(t.row[j], j, t.min[j]) /\ (t.row[j].status # "none" => t.queued[j] = j)
    <3>1. RowSound(s.row[j], j, s.min[j]) /\ (s.row[j].status # "none" => s.queued[j] = j)
      BY <1>0 DEF Books
    <3>2. CASE j = k
      BY <1>2, <1>7, <1>8, <3>1, <3>2 DEF RowSound, Found, Installed
    <3>3. CASE j # k
      BY <1>2, <1>6, <3>1, <3>3
    <3> QED
      BY <3>2, <3>3
  <2> QED
    BY <1>4, <2>1, <2>2, <2>3, <2>4, <2>5 DEF Books
<1>11. ASSUME NEW j \in Key, NEW v \in Versions, Held(s, j, v) PROVE Held(t, j, v)
  <2>1. s.queued[j] # NoKey /\ s.queued[j] \in Key /\ j # k
    BY <1>1, <1>11, KeyFacts DEF Held
  <2>2. s.queued[j] # k
    BY <1>0, <2>1, KeyFacts DEF Books
  <2>3. t.queued[j] = s.queued[j] /\ t.min[s.queued[j]] = s.min[s.queued[j]]
    BY <1>6, <2>1, <2>2
  <2> QED
    BY <1>2, <1>11, <2>3 DEF Held
<1>12. Held(t, k, version)
  <2>1. version \in Nat /\ t.row[k].status = "none" /\ t.queued[k] = k /\ t.min[k] = version
    BY <1>2, <1>7, <1>8, KeyFacts
  <2> QED
    BY <1>8, <2>1 DEF Held, Found, Installed
<1>13. Good(t, NoKey)
  <2>1. ASSUME NEW j \in Key, t.queued[j] = NoKey PROVE t.row[j].status = "none"
    BY <1>2, <1>6, <1>8, <2>1 DEF Good
  <2> QED
    BY <1>3, <1>10, <2>1 DEF Good
<1>14. Grows(s, t)
  BY <1>2, <1>6, <1>11 DEF Grows
<1> QED
  BY <1>12, <1>13, <1>14

\* Row y is row x, or x with a note.
Notes(x, y) == y.status = x.status /\ y.package = x.package /\ (x.noted => y.noted)

\* A minimum is raised before there is a row, or a row is noted.
LEMMA AmendOK ==
  ASSUME NEW s, NEW h, Good(s, h), Fine(s), NEW t \in Call, Fine(t), t.queue = s.queue, t.queued = s.queued,
         t.step = s.step, t.roots = s.roots, t.force = s.force, t.dryRun = s.dryRun, t.at = s.at,
         t.transitive = s.transitive, t.cache = s.cache,
         \A k \in Key : /\ Notes(s.row[k], t.row[k])
                        /\ t.min[k] = s.min[k] \/ (s.row[k].status = "none" /\ t.min[k] >= s.min[k])
  PROVE  Good(t, h) /\ Grows(s, t)
<1>0. \A k \in Key : /\ t.row[k].status = s.row[k].status /\ t.row[k].package = s.row[k].package
                     /\ t.min[k] = s.min[k] \/ (s.row[k].status = "none" /\ t.min[k] >= s.min[k])
  BY DEF Notes
<1>1. s \in Call /\ Books(s, h)
  BY DEF Good
<1>2. ASSUME NEW k \in Key PROVE RowSound(t.row[k], k, t.min[k])
  <2>1. RowSound(s.row[k], k, s.min[k])
    BY <1>0, <1>1 DEF Books
  <2> QED
    BY <1>0, <2>1 DEF RowSound, Found, Installed
<1>3. ASSUME NEW k \in Key, NEW version \in Versions, Held(s, k, version) PROVE Held(t, k, version)
  <2>1. s.queued[k] \in Key
    BY <1>1, <1>3, CallTyped DEF Held
  <2> DEFINE e == s.queued[k]
  <2>2. e \in Key /\ e # NoKey /\ t.queued[k] = e
    BY <1>3, <2>1 DEF Held
  <2>3. s.min[e] \in Nat /\ t.min[e] \in Nat /\ version \in Nat
    BY <1>1, <2>1, CallTyped, KeyFacts
  <2>4. /\ s.row[e].status = "none" => s.min[e] >= version
        /\ s.row[e].status \in Found => s.row[e].noted \/ s.row[e].package.version >= version
    BY <1>3 DEF Held
  <2> HIDE DEF e
  <2>5. t.row[e].status = "none" => t.min[e] >= version
    BY <1>0, <2>2, <2>3, <2>4
  <2>6. t.row[e].status \in Found => t.row[e].noted \/ t.row[e].package.version >= version
    BY <1>0, <2>2, <2>4 DEF Notes
  <2> QED
    BY <2>2, <2>5, <2>6 DEF Held
<1>4. Books(t, h)
  <2>1. \A k \in 1..Len(s.queue) : s.queue[k] \in Key
    BY <1>1, CallTyped
  <2>2. h # NoKey => h \in Key /\ t.queued[h] = h /\ t.row[h].status = "none"
    BY <1>0, <1>1 DEF Books
  <2>3. \A i \in 1..Len(t.queue) : t.queued[t.queue[i]] = t.queue[i] /\ t.row[t.queue[i]].status = "none" /\ t.queue[i] # h
    BY <1>0, <1>1, <2>1 DEF Books
  <2>4. \A i, j \in 1..Len(t.queue) : t.queue[i] = t.queue[j] => i = j
    BY <1>0, <1>1 DEF Books
  <2>5. \A k \in Key : t.queued[k] \in {NoKey, k} \/ (k = ConceptApp /\ t.queued[k] = Concept /\ t.queued[Concept] = Concept)
    BY <1>0, <1>1 DEF Books
  <2>6. \A k \in Key : t.queued[k] = k => InLine(t, k) \/ k = h \/ t.row[k].status # "none"
    BY <1>0, <1>1 DEF Books, InLine
  <2>7. \A k \in Key : t.row[k].status # "none" => t.queued[k] = k
    BY <1>0, <1>1 DEF Books
  <2> QED
    BY <1>2, <2>2, <2>3, <2>4, <2>5, <2>6, <2>7 DEF Books
<1>5. \A k \in Key : t.queued[k] = NoKey => t.row[k].status = "none"
  BY <1>0 DEF Good
<1>6. Good(t, h)
  BY <1>4, <1>5 DEF Good
<1>7. Grows(s, t)
  BY <1>0, <1>3 DEF Grows
<1> QED
  BY <1>6, <1>7

LEMMA GrowsOn ==
  ASSUME NEW s, NEW t, NEW u, Grows(s, t), Grows(t, u)
  PROVE  Grows(s, u)
<1>1. Fine(u) => Fine(t)
  BY DEF Grows
<1>2. ASSUME Fine(u), NEW k \in Key, NEW version \in Versions, Held(s, k, version) PROVE Held(u, k, version)
  BY <1>1, <1>2 DEF Grows
<1>3. ~Fine(s) => u = s
  BY DEF Grows
<1>4. \A k \in Key : /\ u.row[k].package = s.row[k].package /\ u.row[k].status = s.row[k].status
                     /\ s.queued[k] # NoKey => u.queued[k] = s.queued[k]
  BY DEF Grows
<1>5. /\ u.step = s.step /\ u.roots = s.roots /\ u.force = s.force /\ u.dryRun = s.dryRun /\ u.at = s.at
      /\ u.transitive = s.transitive /\ u.cache = s.cache
  BY DEF Grows
<1> QED
  BY <1>2, <1>3, <1>4, <1>5 DEF Grows

LEMMA GrowsNot == ASSUME NEW s PROVE Grows(s, s)
BY DEF Grows

LEMMA ReferenceFacts ==
  ASSUME NEW r \in Reference
  PROVE  r.key \in Key /\ r.version \in Versions /\ r.version \in Nat
BY KeyFacts DEF Reference

LEMMA EnqueueOK ==
  ASSUME NEW s, Good(s, NoKey), NEW r \in Reference, NEW t, t = Enqueue(s, r)
  PROVE  Good(t, NoKey) /\ Grows(s, t) /\ (Fine(t) => Held(t, r.key, r.version))
<1> DEFINE e == s.queued[r.key]
<1>0. s \in Call /\ r.key \in Key /\ r.version \in Versions /\ r.version \in Nat
  BY ReferenceFacts DEF Good
<1>1. CASE ~Fine(s)
  <2>1. t = s
    BY <1>1, Zenon DEF Enqueue, Fine
  <2> QED
    BY <1>1, <2>1, GrowsNot
<1>2. CASE Fine(s) /\ e = NoKey /\ t = [s EXCEPT !.failure = "too many packages"]
  <2>1. ~Fine(t)
    <3>1. t.failure = "too many packages"
      BY <1>0, <1>2 DEF Call
    <3> QED
      BY <3>1, Zenon DEF Fine
  <2>2. /\ t.row = s.row /\ t.queued = s.queued
        /\ t.step = s.step /\ t.roots = s.roots /\ t.force = s.force /\ t.dryRun = s.dryRun /\ t.at = s.at
        /\ t.transitive = s.transitive /\ t.cache = s.cache
    BY <1>0, <1>2 DEF Call
  <2>3. t \in Call
    <3>1. "too many packages" \in SymbolsFailures
      BY Zenon DEF SymbolsFailures
    <3> QED
      BY <1>0, <1>2, <3>1 DEF Call
  <2>4. Good(t, NoKey)
    BY <2>1, <2>2, <2>3 DEF Good
  <2>5. Grows(s, t)
    BY <1>2, <2>1, <2>2 DEF Grows
  <2> QED
    BY <2>1, <2>4, <2>5
<1>3. CASE Fine(s) /\ e = NoKey /\ t = Joined(s, r.key, r.version)
  BY <1>0, <1>3, JoinOK
<1>4. CASE Fine(s) /\ e # NoKey
  <2>1. e \in Key /\ s.min[e] \in Nat /\ s.min \in [Key -> Versions] /\ s.row \in [Key -> Row] /\ Books(s, NoKey)
    BY <1>0, <1>4, CallTyped DEF Good
  <2>2. s.queued[e] = e /\ RowSound(s.row[e], e, s.min[e])
    BY <1>0, <1>4, <2>1, KeyFacts DEF Books
  <2> HIDE DEF e
  <2>3. CASE r.version > s.min[e] /\ e \in ToSet(s.queue) /\ t = [s EXCEPT !.min[e] = r.version]
    <3>1. PICK i \in 1..Len(s.queue) : s.queue[i] = e
      BY <1>0, <2>3, CallTyped DEF ToSet
    <3>2. s.row[e].status = "none"
      BY <2>1, <3>1 DEF Books
    <3>3. /\ t.min = [s.min EXCEPT ![e] = r.version] /\ t.row = s.row /\ t.queued = s.queued /\ t.queue = s.queue
          /\ t.step = s.step /\ t.roots = s.roots /\ t.force = s.force /\ t.dryRun = s.dryRun /\ t.at = s.at
          /\ t.transitive = s.transitive /\ t.cache = s.cache /\ t.failure = s.failure
      BY <1>0, <2>3 DEF Call
    <3>4. Fine(t)
      BY <1>4, <3>3, Zenon DEF Fine
    <3>5. t \in Call
      <4>1. [s.min EXCEPT ![e] = r.version] \in [Key -> Versions]
        BY <1>0, <2>1
      <4>2. t = [s EXCEPT !.min = [s.min EXCEPT ![e] = r.version]]
        BY <2>3
      <4> QED
        BY <1>0, <4>1, <4>2 DEF Call
    <3>6. \A k \in Key : t.min[k] = s.min[k] \/ (s.row[k].status = "none" /\ t.min[k] >= s.min[k])
      BY <1>0, <2>1, <2>3, <3>2, <3>3
    <3>7. Good(t, NoKey) /\ Grows(s, t)
      BY <1>4, <3>3, <3>4, <3>5, <3>6, AmendOK DEF Notes
    <3>8. t.queued[r.key] = e /\ t.min[e] = r.version /\ t.row[e].status = "none"
      BY <2>1, <3>2, <3>3 DEF e
    <3>9. Held(t, r.key, r.version)
      BY <1>0, <1>4, <3>8 DEF Held, Found, Installed, e
    <3> QED
      BY <3>7, <3>9
  <2>4. CASE r.version > s.min[e] /\ e \notin ToSet(s.queue) /\ t = [s EXCEPT !.row[e].noted = TRUE]
    <3>1. /\ t.row = [s.row EXCEPT ![e].noted = TRUE] /\ t.min = s.min /\ t.queued = s.queued /\ t.queue = s.queue
          /\ t.step = s.step /\ t.roots = s.roots /\ t.force = s.force /\ t.dryRun = s.dryRun /\ t.at = s.at
          /\ t.transitive = s.transitive /\ t.cache = s.cache /\ t.failure = s.failure
      BY <1>0, <2>4 DEF Call
    <3>2. Fine(t)
      BY <1>4, <3>1, Zenon DEF Fine
    <3>3. [s.row[e] EXCEPT !.noted = TRUE] \in Row
      BY <2>1 DEF Row
    <3>4. [s.row EXCEPT ![e].noted = TRUE] \in [Key -> Row]
      BY <2>1, <3>3
    <3>5. t \in Call
      <4>1. t = [s EXCEPT !.row = [s.row EXCEPT ![e].noted = TRUE]]
        BY <2>4
      <4> QED
        BY <1>0, <3>4, <4>1 DEF Call
    <3>6. /\ t.row[e].status = s.row[e].status /\ t.row[e].package = s.row[e].package /\ t.row[e].noted
          /\ \A k \in Key : k # e => t.row[k] = s.row[k]
      BY <2>1, <3>1 DEF Row
    <3>7. \A k \in Key : Notes(s.row[k], t.row[k]) /\ t.min[k] = s.min[k]
      BY <3>1, <3>6 DEF Notes
    <3>11. Good(t, NoKey) /\ Grows(s, t)
      BY <1>4, <3>1, <3>2, <3>5, <3>7, AmendOK
    <3>8. s.row[e].status # "none"
      <4>1. ~InLine(s, e)
        BY <1>0, <2>4, CallTyped DEF InLine, ToSet
      <4> QED
        BY <2>1, <2>2, <4>1, KeyFacts DEF Books
    <3>9. t.queued[r.key] = e
      BY <3>1 DEF e
    <3>10. Held(t, r.key, r.version)
      BY <1>4, <3>6, <3>8, <3>9 DEF Held, e
    <3> QED
      BY <3>10, <3>11
  <2>5. CASE t = s /\ r.version <= s.min[e]
    <3>1. Held(s, r.key, r.version)
      <4>1. s.row[e].status \in Found => s.row[e].package.version \in Nat /\ s.row[e].package.version >= s.min[e]
        BY <2>2, KeyFacts DEF RowSound
      <4>2. s.row[e].status \in Found => s.row[e].package.version >= r.version
        BY <1>0, <2>1, <2>5, <4>1
      <4> QED
        BY <1>0, <1>4, <2>1, <2>5, <4>2 DEF Held, e
    <3> QED
      BY <2>5, <3>1, GrowsNot
  <2>6. CASE t = s /\ e \notin ToSet(s.queue) /\ ~(Resolved(s, e) /\ r.version > s.row[e].package.version)
    <3>1. s.row[e].status # "none"
      <4>1. ~InLine(s, e)
        BY <1>0, <2>6, CallTyped DEF InLine, ToSet
      <4> QED
        BY <2>1, <2>2, <4>1, KeyFacts DEF Books
    <3>2. s.row[e].status \in Found => s.row[e].package.version >= r.version
      <4>1. s.row[e].status \in Found => s.row[e].package \in Package
        BY <2>2 DEF RowSound
      <4>2. ASSUME s.row[e].status \in Found PROVE s.row[e].package.version >= r.version
        <5>1. s.row[e].package # NoFile /\ s.row[e].package.version \in Nat
          BY <4>1, <4>2, KeyFacts
        <5>2. ~(r.version > s.row[e].package.version)
          BY <2>6, <5>1 DEF Resolved
        <5> QED
          BY <1>0, <5>1, <5>2
      <4> QED
        BY <4>2
    <3>3. Held(s, r.key, r.version)
      BY <1>4, <3>1, <3>2 DEF Held, e
    <3> QED
      BY <2>6, <3>3, GrowsNot
  <2>7. t = IF r.version > s.min[e] THEN HigherMinimum(s, e, r) ELSE s
    BY <1>4, Zenon DEF Enqueue, Fine, e
  <2>8. r.version > s.min[e] \/ r.version <= s.min[e]
    BY <1>0, <2>1
  <2> QED
    BY <2>3, <2>4, <2>5, <2>6, <2>7, <2>8 DEF HigherMinimum
<1>5. ASSUME Fine(s), e = NoKey PROVE t = Joined(s, r.key, r.version) \/ t = [s EXCEPT !.failure = "too many packages"]
  BY <1>5, Zenon DEF Enqueue, Joined, Fine
<1> QED
  BY <1>1, <1>2, <1>3, <1>4, <1>5

\* Of a list of references, each is demanded.
LEMMA EnqueueAllOK ==
  ASSUME NEW s, Good(s, NoKey), NEW references \in Seq(Reference), NEW t, t = EnqueueAll(s, references)
  PROVE  /\ Good(t, NoKey) /\ Grows(s, t)
         /\ Fine(t) => \A i \in 1..Len(references) : Held(t, references[i].key, references[i].version)
<1>1. Len(references) \in Nat /\ \A i \in 1..Len(references) : references[i] \in Reference
  BY ElementOfSeq
<1>2. PICK after : /\ after[0] = s /\ t = after[Len(references)]
                   /\ \A n \in 1..Len(references) : after[n] = Enqueue(after[n - 1], references[n])
  BY <1>1, OneByOne
<1> DEFINE Demanded(n) == Fine(after[n]) => \A i \in 1..n : Held(after[n], references[i].key, references[i].version)
           G == {n \in Nat : n <= Len(references) => Good(after[n], NoKey) /\ Grows(s, after[n]) /\ Demanded(n)}
<1>3. 0 \in G
  <2>1. Good(after[0], NoKey) /\ Grows(s, after[0])
    BY <1>2, GrowsNot
  <2>2. Demanded(0)
    OBVIOUS
  <2> HIDE DEF Demanded
  <2> QED
    BY <2>1, <2>2
<1>4. ASSUME NEW n \in Nat, n \in G PROVE n + 1 \in G
  <2> SUFFICES ASSUME n + 1 <= Len(references)
               PROVE  Good(after[n + 1], NoKey) /\ Grows(s, after[n + 1]) /\ Demanded(n + 1)
    OBVIOUS
  <2>1. n <= Len(references) /\ n + 1 \in 1..Len(references) /\ (n + 1) - 1 = n
    BY <1>1
  <2>2. Good(after[n], NoKey) /\ Grows(s, after[n]) /\ Demanded(n)
    BY <1>4, <2>1
  <2> DEFINE r == references[n + 1]
             u == after[n + 1]
  <2>3. u = Enqueue(after[n], r) /\ r \in Reference
    BY <1>1, <1>2, <2>1
  <2> HIDE DEF r, u
  <2>4. Good(u, NoKey) /\ Grows(after[n], u) /\ (Fine(u) => Held(u, r.key, r.version))
    BY <2>2, <2>3, EnqueueOK
  <2>5. ASSUME Fine(u), NEW i \in 1..(n + 1) PROVE Held(u, references[i].key, references[i].version)
    <3>1. CASE i = n + 1
      BY <2>4, <2>5, <3>1 DEF r
    <3>2. CASE i # n + 1
      <4>1. i \in 1..n /\ i \in 1..Len(references)
        BY <1>1, <2>1, <3>2
      <4>2. Fine(after[n])
        BY <2>4, <2>5 DEF Grows
      <4>3. Held(after[n], references[i].key, references[i].version)
        BY <2>2, <4>1, <4>2
      <4>4. references[i].key \in Key /\ references[i].version \in Versions
        BY <1>1, <4>1, ReferenceFacts
      <4> QED
        BY <2>4, <2>5, <4>3, <4>4 DEF Grows
    <3> QED
      BY <3>1, <3>2
  <2>6. Demanded(n + 1)
    BY <2>5 DEF u
  <2>7. Grows(s, u)
    BY <2>2, <2>4, GrowsOn
  <2> HIDE DEF Demanded
  <2> QED
    BY <2>4, <2>6, <2>7 DEF u
<1> HIDE DEF G
<1>5. Len(references) \in G
  BY <1>1, <1>3, <1>4, Induction
<1>6. Good(after[Len(references)], NoKey) /\ Grows(s, after[Len(references)]) /\ Demanded(Len(references))
  BY <1>1, <1>5 DEF G
<1> QED
  BY <1>2, <1>6

\* What is demanded in s is demanded in t.
Keeps(s, t) == \A k \in Key, version \in Versions : Held(s, k, version) => Held(t, k, version)

\* The head of the queue is taken in hand.
LEMMA TakeOK ==
  ASSUME NEW s, Good(s, NoKey), Fine(s), s.queue # <<>>, NEW t, t = [s EXCEPT !.queue = Tail(@)]
  PROVE  /\ Head(s.queue) \in Key /\ Good(t, Head(s.queue)) /\ Keeps(s, t) /\ Fine(t)
         /\ t.row = s.row /\ t.min = s.min /\ t.queued = s.queued /\ t.step = s.step /\ t.roots = s.roots /\ t.dryRun = s.dryRun
         /\ t.transitive = s.transitive /\ t.cache = s.cache /\ t.at = s.at
<1> DEFINE n == Len(s.queue)
           h == Head(s.queue)
<1> HIDE DEF n, h
<1>1. s \in Call /\ Books(s, NoKey) /\ s.queue \in Seq(Key)
  BY CallTyped DEF Good
<1>2. n \in Nat /\ n >= 1 /\ h = s.queue[1] /\ h \in Key
  <2>1. Len(s.queue) \in Nat /\ Len(s.queue) # 0
    BY <1>1, EmptySeq
  <2>2. Head(s.queue) = s.queue[1] /\ Head(s.queue) \in Key
    BY <1>1, HeadTailProperties
  <2> QED
    BY <2>1, <2>2 DEF n, h
<1>3. /\ t.queue = Tail(s.queue) /\ t.row = s.row /\ t.min = s.min /\ t.queued = s.queued /\ t.step = s.step
      /\ t.roots = s.roots /\ t.dryRun = s.dryRun /\ t.failure = s.failure
      /\ t.transitive = s.transitive /\ t.cache = s.cache /\ t.at = s.at
  BY <1>1 DEF Call
<1>4. Tail(s.queue) \in Seq(Key) /\ Len(Tail(s.queue)) = n - 1 /\ \A i \in 1..(n - 1) : Tail(s.queue)[i] = s.queue[i + 1]
  <2>1. Tail(s.queue) \in Seq(Key) /\ Len(Tail(s.queue)) = Len(s.queue) - 1
    BY <1>1, HeadTailProperties
  <2>2. \A i \in 1..Len(Tail(s.queue)) : Tail(s.queue)[i] = s.queue[i + 1]
    BY <1>1, HeadTailProperties
  <2> QED
    BY <2>1, <2>2 DEF n
<1>5. t \in Call
  BY <1>1, <1>4 DEF Call
<1>6. Fine(t)
  BY <1>3, Zenon DEF Fine
<1>7. /\ \A i \in 1..(n - 1) : i + 1 \in 1..n /\ i + 1 # 1
      /\ 1 \in 1..n /\ \A i \in 1..n : i = 1 \/ (i - 1 \in 1..(n - 1) /\ (i - 1) + 1 = i)
  BY <1>2
<1>8. \A i \in 1..(n - 1) : t.queue[i] = s.queue[i + 1]
  BY <1>3, <1>4
<1>9. /\ \A i \in 1..n : s.queued[s.queue[i]] = s.queue[i] /\ s.row[s.queue[i]].status = "none"
      /\ \A i, j \in 1..n : s.queue[i] = s.queue[j] => i = j
  BY <1>1 DEF Books, n
<1>10. Books(t, h)
  <2>1. ASSUME NEW i \in 1..(n - 1)
        PROVE  t.queued[t.queue[i]] = t.queue[i] /\ t.row[t.queue[i]].status = "none" /\ t.queue[i] # h
    <3>1. i + 1 \in 1..n /\ i + 1 # 1 /\ 1 \in 1..n /\ t.queue[i] = s.queue[i + 1]
      BY <1>7, <1>8
    <3>2. s.queue[i + 1] # s.queue[1]
      BY <1>9, <3>1
    <3>3. s.queued[s.queue[i + 1]] = s.queue[i + 1] /\ s.row[s.queue[i + 1]].status = "none"
      BY <1>9, <3>1
    <3> QED
      BY <1>2, <1>3, <3>1, <3>2, <3>3
  <2>2. ASSUME NEW i \in 1..(n - 1), NEW j \in 1..(n - 1), t.queue[i] = t.queue[j] PROVE i = j
    <3>1. s.queue[i + 1] = s.queue[j + 1] /\ i + 1 \in 1..n /\ j + 1 \in 1..n
      BY <1>7, <1>8, <2>2
    <3>2. i + 1 = j + 1
      BY <1>9, <3>1
    <3> QED
      BY <1>2, <3>2
  <2>3. t.queued[h] = h /\ t.row[h].status = "none"
    BY <1>2, <1>3, <1>7, <1>9
  <2>4. ASSUME NEW k \in Key, t.queued[k] = k PROVE InLine(t, k) \/ k = h \/ t.row[k].status # "none"
    <3>1. InLine(s, k) \/ k = NoKey \/ s.row[k].status # "none"
      BY <1>1, <1>3, <2>4 DEF Books
    <3>2. ASSUME InLine(s, k), k # h PROVE InLine(t, k)
      <4>1. PICK i \in 1..n : s.queue[i] = k
        BY <3>2 DEF InLine, n
      <4>2. i - 1 \in 1..(n - 1) /\ (i - 1) + 1 = i
        BY <1>2, <1>7, <3>2, <4>1
      <4>3. t.queue[i - 1] = k
        BY <1>8, <4>1, <4>2
      <4> QED
        BY <1>3, <1>4, <4>2, <4>3 DEF InLine
    <3> QED
      BY <1>3, <3>1, <3>2, KeyFacts
  <2>5. \A k \in Key : t.queued[k] \in {NoKey, k} \/ (k = ConceptApp /\ t.queued[k] = Concept /\ t.queued[Concept] = Concept)
    BY <1>1, <1>3 DEF Books
  <2>6. \A k \in Key : RowSound(t.row[k], k, t.min[k]) /\ (t.row[k].status # "none" => t.queued[k] = k)
    BY <1>1, <1>3 DEF Books
  <2>7. Len(t.queue) = n - 1
    BY <1>3, <1>4
  <2> QED
    BY <1>2, <2>1, <2>2, <2>3, <2>4, <2>5, <2>6, <2>7 DEF Books
<1>11. Good(t, h)
  BY <1>3, <1>5, <1>10 DEF Good
<1>12. Keeps(s, t)
  BY <1>3 DEF Keeps, Held
<1> QED
  BY <1>2, <1>3, <1>6, <1>11, <1>12 DEF h

\* The key in hand gets its row.
LEMMA RowOK ==
  ASSUME NEW s, NEW h \in Key, Good(s, h), Fine(s), NEW x \in Row, x.status # "none", RowSound(x, h, s.min[h]),
         NEW t \in Call, Fine(t), t.row = [s.row EXCEPT ![h] = x], t.min = s.min, t.queued = s.queued, t.queue = s.queue
  PROVE  Good(t, NoKey) /\ Keeps(s, t)
<1>1. s \in Call /\ Books(s, h) /\ h # NoKey /\ s.row \in [Key -> Row]
  BY KeyFacts, CallTyped DEF Good
<1>2. t.row[h] = x /\ \A k \in Key : k # h => t.row[k] = s.row[k]
  BY <1>1
<1>3. s.queued[h] = h /\ s.row[h].status = "none"
  BY <1>1 DEF Books
<1>4. \A i \in 1..Len(s.queue) : s.queue[i] \in Key
  BY <1>1, CallTyped
<1>5. Books(t, NoKey)
  <2>1. ASSUME NEW i \in 1..Len(t.queue)
        PROVE  t.queued[t.queue[i]] = t.queue[i] /\ t.row[t.queue[i]].status = "none" /\ t.queue[i] # NoKey
    <3>1. s.queued[s.queue[i]] = s.queue[i] /\ s.row[s.queue[i]].status = "none" /\ s.queue[i] # h
      BY <1>1 DEF Books
    <3> QED
      BY <1>2, <1>4, <3>1, KeyFacts
  <2>2. \A i, j \in 1..Len(t.queue) : t.queue[i] = t.queue[j] => i = j
    BY <1>1 DEF Books
  <2>3. \A k \in Key : t.queued[k] \in {NoKey, k} \/ (k = ConceptApp /\ t.queued[k] = Concept /\ t.queued[Concept] = Concept)
    BY <1>1 DEF Books
  <2>4. ASSUME NEW k \in Key, t.queued[k] = k PROVE InLine(t, k) \/ k = NoKey \/ t.row[k].status # "none"
    <3>1. InLine(s, k) \/ k = h \/ s.row[k].status # "none"
      BY <1>1, <2>4 DEF Books
    <3>2. InLine(s, k) => InLine(t, k)
      BY DEF InLine
    <3> QED
      BY <1>2, <3>1, <3>2
  <2>5. ASSUME NEW k \in Key
        PROVE  RowSound(t.row[k], k, t.min[k]) /\ (t.row[k].status # "none" => t.queued[k] = k)
    <3>1. RowSound(s.row[k], k, s.min[k]) /\ (s.row[k].status # "none" => s.queued[k] = k)
      BY <1>1 DEF Books
    <3>2. CASE k = h
      BY <1>2, <1>3, <3>2
    <3>3. CASE k # h
      BY <1>2, <3>1, <3>3
    <3> QED
      BY <3>2, <3>3
  <2> QED
    BY <2>1, <2>2, <2>3, <2>4, <2>5 DEF Books
<1>6. Good(t, NoKey)
  <2>1. ASSUME NEW k \in Key, t.queued[k] = NoKey PROVE t.row[k].status = "none"
    BY <1>1, <1>2, <1>3, <2>1 DEF Good
  <2> QED
    BY <1>5, <2>1 DEF Good
<1>7. Keeps(s, t)
  <2>1. ASSUME NEW k \in Key, NEW version \in Versions, Held(s, k, version) PROVE Held(t, k, version)
    <3>1. s.queued[k] # NoKey /\ s.queued[k] \in Key
      BY <1>1, <2>1, CallTyped DEF Held
    <3>2. CASE s.queued[k] = h
      <4>1. s.min[h] >= version /\ s.min[h] \in Nat /\ version \in Nat
        BY <1>1, <1>3, <2>1, <3>2, CallTyped, KeyFacts DEF Held
      <4>2. x.status \in Found => x.package.version >= version
        <5>1. x.status \in Found => x.package.version \in Nat /\ x.package.version >= s.min[h]
          BY KeyFacts DEF RowSound
        <5> QED
          BY <4>1, <5>1
      <4>3. t.queued[k] = h /\ h # NoKey
        BY <1>1, <3>2
      <4> QED
        BY <1>2, <4>2, <4>3 DEF Held
    <3>3. CASE s.queued[k] # h
      BY <1>2, <2>1, <3>1, <3>3 DEF Held
    <3> QED
      BY <3>2, <3>3
  <2> QED
    BY <2>1 DEF Keeps
<1> QED
  BY <1>6, <1>7

\* The app ID a reference resolved to stands for that reference from now on, if it did not already.
LEMMA AliasOK ==
  ASSUME NEW s, Good(s, NoKey), Fine(s), NEW k \in Key, s.queued[k] = k, NEW p \in Package, p.app = AppOf(k),
         NEW t, t = Alias(s, k, p)
  PROVE  /\ Good(t, NoKey) /\ Keeps(s, t) /\ Fine(t)
         /\ t.row = s.row /\ t.min = s.min /\ t.step = s.step /\ t.roots = s.roots /\ t.dryRun = s.dryRun
         /\ t.transitive = s.transitive /\ t.cache = s.cache /\ t.at = s.at /\ t.queue = s.queue
<1>1. s \in Call /\ Books(s, NoKey) /\ s.queued \in [Key -> Key \cup {NoKey}]
  BY CallTyped DEF Good
<1>2. CASE s.queued[p.app] # NoKey
  <2>1. t = s
    BY <1>2 DEF Alias
  <2> QED
    BY <2>1 DEF Keeps
<1>3. CASE s.queued[p.app] = NoKey
  <2>1. k = Concept /\ p.app = ConceptApp /\ ConceptApp # Concept /\ ConceptApp \in Key
    BY <1>3, KeyFacts DEF AppOf
  <2>2. t = [s EXCEPT !.queued[p.app] = k]
    BY <1>3 DEF Alias
  <2>3. /\ t.queued = [s.queued EXCEPT ![ConceptApp] = Concept] /\ t.row = s.row /\ t.min = s.min /\ t.step = s.step
        /\ t.roots = s.roots /\ t.dryRun = s.dryRun /\ t.queue = s.queue /\ t.failure = s.failure
        /\ t.transitive = s.transitive /\ t.cache = s.cache /\ t.at = s.at
    BY <1>1, <2>1, <2>2 DEF Call
  <2>4. t \in Call
    <3>1. [s.queued EXCEPT ![ConceptApp] = Concept] \in [Key -> Key \cup {NoKey}]
      BY <1>1, KeyFacts
    <3>2. t = [s EXCEPT !.queued = [s.queued EXCEPT ![ConceptApp] = Concept]]
      BY <2>1, <2>2
    <3> QED
      BY <1>1, <3>1, <3>2 DEF Call
  <2>5. Fine(t)
    BY <2>3, Zenon DEF Fine
  <2>6. t.queued[ConceptApp] = Concept /\ \A j \in Key : j # ConceptApp => t.queued[j] = s.queued[j]
    BY <1>1, <2>1, <2>3
  <2>7. s.queued[ConceptApp] = NoKey /\ s.row[ConceptApp].status = "none"
    BY <1>3, <2>1 DEF Good
  <2>8. Books(t, NoKey)
    <3>1. ASSUME NEW i \in 1..Len(t.queue)
          PROVE  t.queued[t.queue[i]] = t.queue[i] /\ t.row[t.queue[i]].status = "none" /\ t.queue[i] # NoKey
      <4>1. /\ s.queued[s.queue[i]] = s.queue[i] /\ s.row[s.queue[i]].status = "none" /\ s.queue[i] # NoKey
            /\ s.queue[i] \in Key
        BY <1>1, <2>3, CallTyped DEF Books
      <4> QED
        BY <2>3, <2>6, <2>7, <4>1
    <3>2. \A i, j \in 1..Len(t.queue) : t.queue[i] = t.queue[j] => i = j
      BY <1>1, <2>3 DEF Books
    <3>3. ASSUME NEW j \in Key
          PROVE  t.queued[j] \in {NoKey, j} \/ (j = ConceptApp /\ t.queued[j] = Concept /\ t.queued[Concept] = Concept)
      <4>1. s.queued[j] \in {NoKey, j} \/ (j = ConceptApp /\ s.queued[j] = Concept /\ s.queued[Concept] = Concept)
        BY <1>1 DEF Books
      <4> QED
        BY <2>1, <2>6, <4>1
    <3>4. ASSUME NEW j \in Key, t.queued[j] = j PROVE InLine(t, j) \/ j = NoKey \/ t.row[j].status # "none"
      <4>1. s.queued[j] = j
        BY <2>1, <2>6, <3>4
      <4> QED
        BY <1>1, <2>3, <4>1 DEF Books, InLine
    <3>5. ASSUME NEW j \in Key
          PROVE  RowSound(t.row[j], j, t.min[j]) /\ (t.row[j].status # "none" => t.queued[j] = j)
      <4>1. RowSound(s.row[j], j, s.min[j]) /\ (s.row[j].status # "none" => s.queued[j] = j)
        BY <1>1 DEF Books
      <4> QED
        BY <2>3, <2>6, <2>7, <4>1
    <3> QED
      BY <3>1, <3>2, <3>3, <3>4, <3>5, KeyFacts DEF Books
  <2>9. Good(t, NoKey)
    <3>1. ASSUME NEW j \in Key, t.queued[j] = NoKey PROVE t.row[j].status = "none"
      BY <2>3, <2>6, <2>7, <3>1 DEF Good
    <3> QED
      BY <2>4, <2>8, <3>1 DEF Good
  <2>10. Keeps(s, t)
    <3>1. ASSUME NEW j \in Key, NEW version \in Versions, Held(s, j, version) PROVE Held(t, j, version)
      <4>1. s.queued[j] # NoKey /\ j # ConceptApp
        BY <2>7, <3>1 DEF Held
      <4> QED
        BY <2>3, <2>6, <3>1, <4>1 DEF Held
    <3> QED
      BY <3>1 DEF Keeps
  <2> QED
    BY <2>3, <2>5, <2>9, <2>10
<1> QED
  BY <1>2, <1>3

\* Only the books count.
LEMMA SameBooks ==
  ASSUME NEW s, NEW h, Good(s, h), NEW t \in Call, t.row = s.row, t.min = s.min, t.queued = s.queued, t.queue = s.queue,
         t.failure = s.failure
  PROVE  Good(t, h) /\ Keeps(s, t) /\ (Fine(t) <=> Fine(s))
<1>1. Fine(t) <=> Fine(s)
  BY Zenon DEF Fine
<1>2. Books(s, h) => Books(t, h)
  BY DEF Books, InLine
<1>3. Good(t, h)
  BY <1>1, <1>2 DEF Good
<1> QED
  BY <1>1, <1>3 DEF Keeps, Held

Demand(s, references) == \A i \in 1..Len(references) : Held(s, references[i].key, references[i].version)

\* A dry run explores no dependencies.
Explores(s) == ~s.dryRun

\* The roots are demanded, and what every package but that of key x depends on.
Closed(s, x) ==
  /\ Demand(s, s.roots)
  /\ Explores(s) => \A k \in Key \ {x} : Resolved(s, k) => Demand(s, Dependencies[s.row[k].package])

LEMMA GraphFacts ==
  /\ \A roots \in Roots : roots \in Seq(Reference)
  /\ \A p \in Package : Dependencies[p] \in Seq(Reference)
<1>1. [key : App, version : Versions] \subseteq Reference
  BY KeyFacts DEF Reference
<1>2. \A q \in Seq([key : App, version : Versions]) : q \in Seq(Reference)
  BY <1>1, SeqMonotonic
<1> QED
  BY <1>2, GraphAssumption

LEMMA DemandKept ==
  ASSUME NEW s, NEW t, Keeps(s, t), NEW references \in Seq(Reference), Demand(s, references)
  PROVE  Demand(t, references)
<1>1. ASSUME NEW i \in 1..Len(references) PROVE Held(t, references[i].key, references[i].version)
  <2>1. references[i] \in Reference
    BY ElementOfSeq
  <2>2. references[i].key \in Key /\ references[i].version \in Versions
    BY <2>1, ReferenceFacts
  <2> QED
    BY <2>2 DEF Demand, Keeps
<1> QED
  BY <1>1 DEF Demand

\* While demands are kept, only a key with a new package can want something new.
LEMMA ClosedKept ==
  ASSUME NEW s \in Call, NEW t \in Call, NEW x \in Key \cup {NoKey}, NEW y \in Key \cup {NoKey}, Closed(s, x), Keeps(s, t),
         t.roots = s.roots, t.dryRun = s.dryRun, x \in {NoKey, y},
         \A k \in Key \ {y} : Resolved(t, k) => t.row[k].package = s.row[k].package
  PROVE  Closed(t, y)
<1>1. Demand(t, t.roots)
  BY DemandKept, GraphFacts, CallTyped DEF Closed
<1>2. Explores(t) <=> Explores(s)
  BY Zenon DEF Explores
<1>3. ASSUME Explores(t), NEW k \in Key \ {y}, Resolved(t, k) PROVE Demand(t, Dependencies[t.row[k].package])
  <2>1. t.row[k].package = s.row[k].package /\ Resolved(s, k) /\ k # x
    BY <1>3, KeyFacts DEF Resolved
  <2>2. t.row[k].package \in Package
    <3>1. t.row[k] \in Row
      BY CallTyped
    <3> QED
      BY <1>3, <3>1 DEF Resolved, Row
  <2>3. Demand(s, Dependencies[t.row[k].package])
    BY <1>2, <1>3, <2>1 DEF Closed
  <2> QED
    BY <2>2, <2>3, DemandKept, GraphFacts
<1> QED
  BY <1>1, <1>3 DEF Closed

LEMMA EnqueueDependenciesOK ==
  ASSUME NEW s, Good(s, NoKey), Fine(s), NEW k \in Key, NEW p \in Package, s.row[k].package = p, Closed(s, k),
         NEW t, t = EnqueueDependencies(s, p)
  PROVE  Good(t, NoKey) /\ t.step = s.step /\ (Fine(t) => Closed(t, NoKey))
<1>1. s \in Call
  BY DEF Good
<1>2. CASE ~Explores(s)
  <2>1. t = s
    BY <1>2, Zenon DEF EnqueueDependencies, Explores
  <2> QED
    BY <1>2, <2>1 DEF Closed
<1>3. CASE Explores(s)
  <2> DEFINE u == EnqueueAll(s, Dependencies[p])
             more == {j \in Key : s.queued[j] = NoKey /\ u.queued[j] # NoKey}
  <2>1. t = [u EXCEPT !.transitive = @ \cup more]
    BY <1>3, Zenon DEF EnqueueDependencies, Explores
  <2>2. more \subseteq Key
    OBVIOUS
  <2>3. Good(u, NoKey) /\ Grows(s, u) /\ (Fine(u) => Demand(u, Dependencies[p]))
    BY EnqueueAllOK, GraphFacts DEF Demand
  <2> HIDE DEF u, more
  <2>4. u \in Call /\ u.transitive \subseteq Key
    BY <2>3, CallTyped DEF Good
  <2>5. /\ t.row = u.row /\ t.min = u.min /\ t.queued = u.queued /\ t.queue = u.queue /\ t.failure = u.failure
        /\ t.step = u.step /\ t.roots = u.roots /\ t.dryRun = u.dryRun
    BY <2>1, <2>4 DEF Call
  <2>6. t \in Call
    BY <2>1, <2>2, <2>4 DEF Call
  <2>7. Good(t, NoKey) /\ Keeps(u, t) /\ (Fine(t) <=> Fine(u))
    BY <2>3, <2>5, <2>6, SameBooks
  <2>8. t.step = s.step /\ t.roots = s.roots /\ t.dryRun = s.dryRun /\ \A j \in Key : t.row[j].package = s.row[j].package
    BY <2>3, <2>5 DEF Grows
  <2>9. ASSUME Fine(t) PROVE Closed(t, NoKey)
    <3>1. Keeps(s, t)
      BY <2>3, <2>7, <2>9 DEF Grows, Keeps
    <3>2. Closed(t, k)
      BY <1>1, <2>6, <2>8, <3>1, ClosedKept
    <3>3. Demand(t, Dependencies[t.row[k].package])
      BY <2>3, <2>7, <2>8, <2>9, DemandKept, GraphFacts
    <3> QED
      BY <3>2, <3>3 DEF Closed
  <2> QED
    BY <2>7, <2>8, <2>9
<1> QED
  BY <1>2, <1>3

-----------------------------------------------------------------------------
(* The worklist's invariant *)

Hand(s) == IF s.step = "fetching" THEN s.at ELSE NoKey
Unread(s) == IF s.step = "readback" THEN s.at ELSE NoKey

SoundList(s) ==
  /\ Good(s, Hand(s))
  /\ ~Fine(s) => s.step = "over"
  /\ Fine(s) /\ s.step # "idle" => Closed(s, Unread(s))
  /\ Fine(s) /\ s.step = "over" => s.queue = <<>>
  /\ s.step = "readback" => s.row[s.at].package \in Package

\* A call that fails is over.
LEMMA FailedOK ==
  ASSUME NEW s, NEW h, Good(s, h), NEW failure \in SymbolsFailures \ {""}, NEW t, t = [s EXCEPT !.step = "over", !.failure = failure]
  PROVE  SoundList(t) /\ t.step = "over"
<1>1. s \in Call
  BY DEF Good
<1>2. failure \in SymbolsFailures
  BY Zenon
<1>3. t \in Call /\ t.step = "over" /\ t.failure = failure /\ t.row = s.row /\ t.queued = s.queued
  BY <1>1, <1>2 DEF Call
<1>4. ~Fine(t)
  BY <1>3, Zenon DEF Fine
<1>5. Hand(t) = NoKey
  BY <1>3 DEF Hand
<1> QED
  BY <1>3, <1>4, <1>5 DEF SoundList, Good

LEMMA SettledOK ==
  ASSUME NEW s, Good(s, NoKey), s.step = "take", Fine(s) => Closed(s, NoKey), NEW t, t = Settled(s)
  PROVE  SoundList(t) /\ t.step \in {"take", "over"}
<1>1. s \in Call
  BY DEF Good
<1>2. (Fine(s) /\ t = s) \/ (~Fine(s) /\ t = [s EXCEPT !.step = "over"])
  BY Zenon DEF Settled, Fine
<1>3. CASE Fine(s) /\ t = s
  BY <1>3 DEF SoundList, Hand, Unread
<1>4. CASE ~Fine(s) /\ t = [s EXCEPT !.step = "over"]
  <2>1. t \in Call /\ t.step = "over" /\ t.failure = s.failure /\ t.row = s.row /\ t.queued = s.queued
    BY <1>1, <1>4 DEF Call
  <2>2. ~Fine(t)
    BY <1>4, <2>1, Zenon DEF Fine
  <2>3. Hand(t) = NoKey
    BY <2>1 DEF Hand
  <2> QED
    BY <2>1, <2>2, <2>3 DEF SoundList, Good
<1> QED
  BY <1>2, <1>3, <1>4

LEMMA NoCallTyped == NoCall \in Call
<1> DEFINE CallOf(failure) ==
             [step |-> "idle", roots |-> CHOOSE r \in Roots : TRUE, force |-> FALSE, dryRun |-> FALSE, at |-> Concept, queue |-> <<>>,
              min |-> [k \in Key |-> CHOOSE v \in Versions : TRUE], transitive |-> {}, queued |-> [k \in Key |-> NoKey],
              cache |-> {}, row |-> [k \in Key |-> NoRow], failure |-> failure]
<1>1. (CHOOSE r \in Roots : TRUE) \in Roots
  BY GraphAssumption
<1>2. (CHOOSE v \in Versions : TRUE) \in Versions
  BY PackageAssumption
<1>3. NoRow \in Row
  BY DEF NoRow, Row
<1>4. Concept \in Key /\ <<>> \in Seq(Key)
  BY EmptySeq, KeyFacts
<1>5. \A failure \in SymbolsFailures : CallOf(failure) \in Call
  BY <1>1, <1>2, <1>3, <1>4 DEF Call
<1>6. "" \in SymbolsFailures
  BY Zenon DEF SymbolsFailures
<1>7. NoCall = CallOf("")
  BY Zenon DEF NoCall
<1> HIDE DEF CallOf
<1> QED
  BY <1>5, <1>6, <1>7, Zenon

\* Before anything is demanded the books are empty.
LEMMA EmptyBooks ==
  ASSUME NEW s \in Call, s.queue = <<>>, s.queued = [k \in Key |-> NoKey], s.row = [k \in Key |-> NoRow]
  PROVE  Good(s, NoKey)
<1>1. Len(s.queue) = 0
  OBVIOUS
<1>2. \A k \in Key : s.row[k].status = "none" /\ s.row[k].package = NoFile /\ s.queued[k] = NoKey /\ k # NoKey
  BY KeyFacts DEF NoRow
<1>3. \A k \in Key : RowSound(s.row[k], k, s.min[k])
  BY <1>2 DEF RowSound, Found, Installed
<1> QED
  BY <1>1, <1>2, <1>3 DEF Good, Books

LEMMA BeginOK ==
  ASSUME Begin
  PROVE  SoundList(sym') /\ sym'.step \in {"take", "over"} /\ download[symbols].step = "idle"
<1>1. download[symbols].step = "idle"
  BY DEF Begin
<1> DEFINE Start(roots, force, dryRun) ==
             [NoCall EXCEPT !.step = "take", !.roots = roots, !.force = force, !.dryRun = dryRun,
                            !.cache = {p \in Package : file[p] # NoFile}]
<1>2. PICK roots \in Roots, force \in BOOLEAN, dryRun \in BOOLEAN : sym' = Settled(EnqueueAll(Start(roots, force, dryRun), roots))
  BY Zenon DEF Begin
<1> DEFINE s == Start(roots, force, dryRun)
           t == EnqueueAll(s, roots)
<1>3. s \in Call
  BY NoCallTyped DEF Call
<1>4. s.step = "take" /\ s.roots = roots /\ s.failure = NoCall.failure /\ s.queue = NoCall.queue /\ s.queued = NoCall.queued /\ s.row = NoCall.row
  BY NoCallTyped DEF Call
<1>5. NoCall.queue = <<>> /\ NoCall.queued = [k \in Key |-> NoKey] /\ NoCall.row = [k \in Key |-> NoRow]
  BY Zenon DEF NoCall
<1> HIDE DEF s, t
<1>6. Good(s, NoKey)
  BY <1>3, <1>4, <1>5, EmptyBooks
<1>7. Good(t, NoKey) /\ Grows(s, t) /\ (Fine(t) => Demand(t, roots))
  BY <1>6, EnqueueAllOK, GraphFacts DEF Demand, t
<1>8. t.step = "take" /\ t.roots = roots /\ \A k \in Key : ~Resolved(t, k)
  BY <1>4, <1>5, <1>7 DEF Grows, Resolved, NoRow
<1>9. Fine(t) => Closed(t, NoKey)
  BY <1>7, <1>8 DEF Closed
<1>10. sym' = Settled(t)
  BY <1>2 DEF t, s
<1> QED
  BY <1>1, <1>7, <1>8, <1>9, <1>10, SettledOK

\* Before it has read a package back a worklist that goes on is fine.
LEMMA TakeFacts ==
  ASSUME SoundList(sym), sym.step = "take"
  PROVE  sym \in Call /\ Good(sym, NoKey) /\ Fine(sym) /\ Closed(sym, NoKey)
BY DEF SoundList, Hand, Unread, Good

LEMMA FinishOK ==
  ASSUME SoundList(sym), Finish
  PROVE  SoundList(sym') /\ sym'.step = "over"
<1>1. Good(sym, NoKey) /\ Fine(sym) /\ Closed(sym, NoKey) /\ sym \in Call /\ sym.queue = <<>>
  BY TakeFacts DEF Finish
<1> DEFINE t == sym'
<1>2. /\ t \in Call /\ t.step = "over" /\ t.queue = sym.queue /\ t.failure = sym.failure /\ t.row = sym.row /\ t.min = sym.min
      /\ t.queued = sym.queued /\ t.roots = sym.roots /\ t.dryRun = sym.dryRun
  BY <1>1 DEF Finish, Call
<1> HIDE DEF t
<1>3. Good(t, NoKey) /\ Keeps(sym, t) /\ Fine(t)
  BY <1>1, <1>2, SameBooks
<1>4. Closed(t, NoKey)
  BY <1>1, <1>2, <1>3, ClosedKept
<1>5. SoundList(t) /\ t.step = "over"
  BY <1>1, <1>2, <1>3, <1>4 DEF SoundList, Hand, Unread
<1> QED
  BY <1>5 DEF t

\* A row for the head of the queue or for the package that was fetched: x and, for the worklist, s, the step it goes on with.
LEMMA RowedOK ==
  ASSUME NEW s, NEW h \in Key, Good(s, h), Fine(s), Closed(s, NoKey), NEW status \in {"missing", "failed"} \cup Found,
         NEW package, IF status \in Found THEN package \in Package /\ package.app = AppOf(h) /\ package.version >= s.min[h] ELSE package = NoFile,
         NEW t, t = Rowed(s, h, status, package)
  PROVE  /\ Good(t, NoKey) /\ Fine(t) /\ Closed(t, IF status \in Found THEN h ELSE NoKey)
         /\ t.row[h].package = package /\ t.queued[h] = h /\ t.step = s.step /\ t.queue = s.queue /\ t.at = s.at /\ t.min = s.min
         /\ t.cache = s.cache
<1> DEFINE x == [NoRow EXCEPT !.status = status, !.package = package]
<1>1. s \in Call /\ s.row \in [Key -> Row] /\ s.queued[h] = h /\ h # NoKey
  BY CallTyped, KeyFacts DEF Good, Books
<1>2. x \in Row /\ x.status = status /\ x.package = package /\ status # "none"
  BY DEF NoRow, Row, Found, Installed
<1>3. t = [s EXCEPT !.row[h] = x]
  BY DEF Rowed
<1>4. RowSound(x, h, s.min[h])
  BY <1>2 DEF RowSound
<1> HIDE DEF x
<1>5. t.row = [s.row EXCEPT ![h] = x] /\ t.min = s.min /\ t.queued = s.queued /\ t.queue = s.queue /\ t.failure = s.failure
      /\ t.step = s.step /\ t.roots = s.roots /\ t.dryRun = s.dryRun /\ t.at = s.at /\ t.cache = s.cache
  BY <1>1, <1>3 DEF Call
<1>6. t \in Call
  <2>1. [s.row EXCEPT ![h] = x] \in [Key -> Row] /\ t = [s EXCEPT !.row = [s.row EXCEPT ![h] = x]]
    BY <1>1, <1>2, <1>3
  <2> QED
    BY <1>1, <2>1 DEF Call
<1>7. Fine(t)
  BY <1>5, Zenon DEF Fine
<1>8. Good(t, NoKey) /\ Keeps(s, t)
  BY <1>2, <1>4, <1>5, <1>6, <1>7, RowOK
<1>9. t.row[h] = x /\ \A k \in Key : k # h => t.row[k] = s.row[k]
  BY <1>1, <1>5
<1>10. Closed(t, IF status \in Found THEN h ELSE NoKey)
  <2>1. status \notin Found => ~Resolved(t, h)
    BY <1>2, <1>9 DEF Resolved
  <2>2. \A k \in Key \ {IF status \in Found THEN h ELSE NoKey} : Resolved(t, k) => t.row[k].package = s.row[k].package
    BY <1>9, <2>1
  <2> QED
    BY <1>1, <1>5, <1>6, <1>8, <2>2, ClosedKept
<1> QED
  BY <1>1, <1>2, <1>5, <1>7, <1>8, <1>9, <1>10

\* The package that answers a reference stands in its row, and under its own app ID.
LEMMA AliasedOK ==
  ASSUME NEW s, Good(s, NoKey), Fine(s), NEW k \in Key, s.queued[k] = k, Closed(s, k), NEW p \in Package, p.app = AppOf(k),
         s.row[k].package = p, NEW t, t = Alias(s, k, p)
  PROVE  Good(t, NoKey) /\ Fine(t) /\ Closed(t, k) /\ t.row[k].package = p /\ t.step = s.step /\ t.at = s.at
<1>1. /\ Good(t, NoKey) /\ Keeps(s, t) /\ Fine(t)
      /\ t.row = s.row /\ t.min = s.min /\ t.step = s.step /\ t.roots = s.roots /\ t.dryRun = s.dryRun /\ t.at = s.at
  BY AliasOK
<1>2. s \in Call /\ t \in Call
  BY <1>1 DEF Good
<1>3. Closed(t, k)
  BY <1>1, <1>2, ClosedKept
<1> QED
  BY <1>1, <1>3

\* The head of the queue in hand, nothing else changes.
LEMMA InHand ==
  ASSUME SoundList(sym), sym.step = "take", sym.queue # <<>>, NEW t, t = [sym EXCEPT !.queue = Tail(@)]
  PROVE  /\ Head(sym.queue) \in Key /\ Good(t, Head(sym.queue)) /\ Fine(t) /\ Closed(t, NoKey)
         /\ t.step = "take" /\ t.row = sym.row /\ t.min = sym.min /\ t.dryRun = sym.dryRun /\ t.roots = sym.roots
<1>1. sym \in Call /\ Good(sym, NoKey) /\ Fine(sym) /\ Closed(sym, NoKey)
  BY TakeFacts
<1>2. /\ Head(sym.queue) \in Key /\ Good(t, Head(sym.queue)) /\ Keeps(sym, t) /\ Fine(t)
      /\ t.row = sym.row /\ t.min = sym.min /\ t.step = sym.step /\ t.roots = sym.roots /\ t.dryRun = sym.dryRun
  BY <1>1, TakeOK
<1>3. t \in Call
  BY <1>2 DEF Good
<1>4. Closed(t, NoKey)
  BY <1>1, <1>2, <1>3, ClosedKept
<1> QED
  BY <1>2, <1>4

LEMMA SkipOK ==
  ASSUME SoundList(sym), Skip
  PROVE  SoundList(sym') /\ sym'.step \in {"take", "over"}
<1> DEFINE k == Head(sym.queue)
           s == [sym EXCEPT !.queue = Tail(@)]
           hit == Newest(Hits(sym, k))
           u == Rowed(s, k, "skipped", hit)
           v == Alias(u, k, hit)
           w == EnqueueDependencies(v, hit)
<1>1. sym.step = "take" /\ sym.queue # <<>> /\ Hits(sym, k) # {} /\ sym' = Settled(w)
  BY DEF Skip
<1>2. k \in Key /\ Good(s, k) /\ Fine(s) /\ Closed(s, NoKey) /\ s.step = "take" /\ s.min = sym.min
  BY <1>1, InHand
<1>3. hit \in Package /\ hit.app = AppOf(k) /\ hit.version >= s.min[k]
  <2>1. sym.cache \subseteq Package
    BY <1>1, TakeFacts, CallTyped
  <2>2. \A p \in Hits(sym, k) : p \in Package /\ p.app = AppOf(k) /\ p.version >= sym.min[k]
    BY <2>1 DEF Hits, Satisfies
  <2>3. hit \in Hits(sym, k)
    BY <1>1, <2>2, NewestExists
  <2> HIDE DEF hit
  <2> QED
    BY <1>2, <2>2, <2>3
<1> HIDE DEF k, s, hit, u, v, w
<1>4. "skipped" \in Found
  BY DEF Found
<1>5. Good(u, NoKey) /\ Fine(u) /\ Closed(u, k) /\ u.row[k].package = hit /\ u.queued[k] = k /\ u.step = "take"
  BY <1>2, <1>3, <1>4, RowedOK DEF u
<1>6. Good(v, NoKey) /\ Fine(v) /\ Closed(v, k) /\ v.row[k].package = hit /\ v.step = "take"
  BY <1>2, <1>3, <1>5, AliasedOK DEF v
<1>7. Good(w, NoKey) /\ w.step = "take" /\ (Fine(w) => Closed(w, NoKey))
  BY <1>2, <1>3, <1>6, EnqueueDependenciesOK DEF w
<1> QED
  BY <1>1, <1>7, SettledOK

LEMMA MissOK ==
  ASSUME SoundList(sym), Miss
  PROVE  SoundList(sym') /\ sym'.step = "take"
<1> DEFINE k == Head(sym.queue)
           s == [sym EXCEPT !.queue = Tail(@)]
           t == Rowed(s, k, "missing", NoFile)
<1>1. sym.step = "take" /\ sym.queue # <<>> /\ sym' = t
  BY DEF Miss
<1>2. k \in Key /\ Good(s, k) /\ Fine(s) /\ Closed(s, NoKey) /\ s.step = "take"
  BY <1>1, InHand
<1> HIDE DEF k, s, t
<1>3. "missing" \notin Found
  BY DEF Found, Installed
<1>4. Good(t, NoKey) /\ Fine(t) /\ Closed(t, NoKey) /\ t.step = "take"
  BY <1>2, <1>3, RowedOK DEF t
<1>5. SoundList(t)
  BY <1>4 DEF SoundList, Hand, Unread
<1> QED
  BY <1>1, <1>4, <1>5

\* A failure of one package.
LEMMA PerPackageFacts ==
  /\ {"request", "readback", "restart"} \subseteq SymbolsFailures \ {""}
  /\ "failed" \notin Found /\ Installed \subseteq Found
<1>1. "request" \in SymbolsFailures \ {""} /\ "readback" \in SymbolsFailures \ {""} /\ "restart" \in SymbolsFailures \ {""}
  BY Zenon DEF SymbolsFailures
<1>2. \A f \in {"request", "readback", "restart"} : f \in SymbolsFailures \ {""}
  BY <1>1, Zenon
<1>3. "failed" \notin Found /\ Installed \subseteq Found
  BY DEF Found, Installed
<1> QED
  BY <1>2, <1>3, Zenon

LEMMA ListFetched ==
  ASSUME SoundList(sym), Fetched,
         download[symbols].result \in Installed =>
           /\ download[symbols].content.package \in Package
           /\ Satisfies(download[symbols].content.package, [app |-> AppOf(sym.at), version |-> sym.min[sym.at]])
  PROVE  SoundList(sym') /\ sym'.step # "fetching"
<1> DEFINE result == download[symbols].result
           p == download[symbols].content.package
           k == sym.at
<1>1. /\ sym.step = "fetching"
      /\ sym' = IF result \in Installed
                  THEN Alias(Rowed([sym EXCEPT !.step = "readback"], k, result, p), k, p)
                  ELSE IF result \in PerPackage(sym) THEN Rowed([sym EXCEPT !.step = "take"], k, "failed", NoFile)
                  ELSE [sym EXCEPT !.step = "over", !.failure = "request"]
  BY DEF Fetched
<1>2. result \in Installed => p \in Package /\ p.app = AppOf(k) /\ p.version >= sym.min[k]
  BY DEF Satisfies
<1> HIDE DEF result, p
<1>3. Good(sym, k) /\ Fine(sym) /\ Closed(sym, NoKey) /\ sym \in Call /\ k \in Key
  <2>1. Good(sym, k) /\ Fine(sym) /\ Closed(sym, NoKey) /\ sym \in Call
    BY <1>1 DEF SoundList, Hand, Unread, Good
  <2> QED
    BY <2>1, CallTyped
<1> HIDE DEF k
<1>4. ASSUME NEW step \in {"readback", "take"}, NEW s, s = [sym EXCEPT !.step = step]
      PROVE  Good(s, k) /\ Fine(s) /\ Closed(s, NoKey) /\ s.step = step /\ s.min = sym.min /\ s.at = sym.at
  <2>1. /\ s \in Call /\ s.row = sym.row /\ s.min = sym.min /\ s.queued = sym.queued /\ s.queue = sym.queue
        /\ s.failure = sym.failure /\ s.roots = sym.roots /\ s.dryRun = sym.dryRun /\ s.step = step /\ s.at = sym.at
    BY <1>3, <1>4 DEF Call
  <2>2. Good(s, k) /\ Keeps(sym, s) /\ Fine(s)
    BY <1>3, <2>1, SameBooks
  <2>3. Closed(s, NoKey)
    BY <1>3, <2>1, <2>2, ClosedKept
  <2> QED
    BY <2>1, <2>2, <2>3
<1>5. CASE result \in Installed
  <2> DEFINE s == [sym EXCEPT !.step = "readback"]
             u == Rowed(s, k, result, p)
             v == Alias(u, k, p)
  <2>1. Good(s, k) /\ Fine(s) /\ Closed(s, NoKey) /\ s.step = "readback" /\ s.min = sym.min /\ s.at = k
    BY <1>4 DEF k
  <2>2. sym' = v
    BY <1>1, <1>5, Zenon
  <2> HIDE DEF s, u, v
  <2>3. result \in Found
    BY <1>5, PerPackageFacts
  <2>4. Good(u, NoKey) /\ Fine(u) /\ Closed(u, k) /\ u.row[k].package = p /\ u.queued[k] = k /\ u.step = "readback" /\ u.at = k
    <3>1. p \in Package /\ p.app = AppOf(k) /\ p.version >= s.min[k]
      BY <1>2, <1>5, <2>1
    <3>2. result \in {"missing", "failed"} \cup Found
      BY <2>3
    <3>3. IF result \in Found THEN p \in Package /\ p.app = AppOf(k) /\ p.version >= s.min[k] ELSE p = NoFile
      BY <2>3, <3>1
    <3>4. /\ Good(u, NoKey) /\ Fine(u) /\ Closed(u, IF result \in Found THEN k ELSE NoKey) /\ u.row[k].package = p
          /\ u.queued[k] = k /\ u.step = s.step /\ u.at = s.at
      BY <1>3, <2>1, <3>2, <3>3, RowedOK DEF u
    <3> QED
      BY <2>1, <2>3, <3>4
  <2>5. Good(v, NoKey) /\ Fine(v) /\ Closed(v, k) /\ v.row[k].package = p /\ v.step = "readback" /\ v.at = k
    BY <1>2, <1>3, <1>5, <2>4, AliasedOK DEF v
  <2>6. SoundList(v)
    BY <1>2, <1>5, <2>5 DEF SoundList, Hand, Unread
  <2> QED
    BY <2>2, <2>5, <2>6
<1>6. CASE result \notin Installed /\ result \in PerPackage(sym)
  <2> DEFINE s == [sym EXCEPT !.step = "take"]
             u == Rowed(s, k, "failed", NoFile)
  <2>1. Good(s, k) /\ Fine(s) /\ Closed(s, NoKey) /\ s.step = "take"
    BY <1>4
  <2>2. sym' = u
    BY <1>1, <1>6
  <2> HIDE DEF s, u
  <2>3. Good(u, NoKey) /\ Fine(u) /\ Closed(u, NoKey) /\ u.step = "take"
    BY <1>3, <2>1, PerPackageFacts, RowedOK DEF u
  <2>4. SoundList(u)
    BY <2>3 DEF SoundList, Hand, Unread
  <2> QED
    BY <2>2, <2>3, <2>4
<1>7. CASE result \notin Installed /\ result \notin PerPackage(sym)
  <2>1. sym' = [sym EXCEPT !.step = "over", !.failure = "request"]
    BY <1>1, <1>7
  <2>2. SoundList(sym') /\ sym'.step = "over"
    BY <1>3, <2>1, PerPackageFacts, FailedOK
  <2> QED
    BY <2>2
<1> QED
  BY <1>5, <1>6, <1>7

LEMMA ReadBackOK ==
  ASSUME SoundList(sym), ReadBack
  PROVE  SoundList(sym') /\ sym'.step # "fetching" /\ sym.step = "readback"
<1> DEFINE k == sym.at
           p == sym.row[k].package
           s == [sym EXCEPT !.step = "take", !.cache = @ \cup {p}]
           w == EnqueueDependencies(s, p)
<1>1. /\ sym.step = "readback"
      /\ sym' = IF file[p] = NoFile THEN [sym EXCEPT !.step = "over", !.failure = "readback"] ELSE Settled(w)
  BY DEF ReadBack
<1>2. Good(sym, NoKey) /\ Fine(sym) /\ Closed(sym, k) /\ sym \in Call /\ k \in Key /\ p \in Package /\ sym.cache \subseteq Package
  <2>1. Good(sym, NoKey) /\ Fine(sym) /\ Closed(sym, k) /\ sym \in Call /\ p \in Package
    BY <1>1 DEF SoundList, Hand, Unread, Good
  <2> QED
    BY <2>1, CallTyped
<1> HIDE DEF k
<1>3. /\ s \in Call /\ s.row = sym.row /\ s.min = sym.min /\ s.queued = sym.queued /\ s.queue = sym.queue
      /\ s.failure = sym.failure /\ s.roots = sym.roots /\ s.dryRun = sym.dryRun /\ s.step = "take"
  BY <1>2 DEF Call
<1> HIDE DEF s, w
<1>4. Good(s, NoKey) /\ Keeps(sym, s) /\ Fine(s)
  BY <1>2, <1>3, SameBooks
<1>5. Closed(s, k)
  BY <1>2, <1>3, <1>4, ClosedKept
<1>6. Good(w, NoKey) /\ w.step = "take" /\ (Fine(w) => Closed(w, NoKey))
  BY <1>2, <1>3, <1>4, <1>5, EnqueueDependenciesOK DEF w
<1>7. CASE file[p] = NoFile
  <2>1. sym' = [sym EXCEPT !.step = "over", !.failure = "readback"]
    BY <1>1, <1>7
  <2> QED
    BY <1>1, <1>2, <2>1, PerPackageFacts, FailedOK
<1>8. CASE file[p] # NoFile
  <2>1. SoundList(sym') /\ sym'.step \in {"take", "over"}
    BY <1>1, <1>6, <1>8, SettledOK
  <2> QED
    BY <1>1, <2>1
<1> QED
  BY <1>7, <1>8

LEMMA FetchOK ==
  ASSUME SoundList(sym), Fetch
  PROVE  /\ SoundList(sym') /\ sym'.step = "fetching" /\ sym'.at \in Key
         /\ Request(symbols, home, [app |-> AppOf(sym'.at), version |-> sym'.min[sym'.at]])
<1> DEFINE k == Head(sym.queue)
           s == [sym EXCEPT !.queue = Tail(@)]
           t == [sym EXCEPT !.step = "fetching", !.at = k, !.queue = Tail(@)]
<1>1. sym.step = "take" /\ sym.queue # <<>> /\ Request(symbols, home, [app |-> AppOf(k), version |-> sym.min[k]]) /\ sym' = t
  BY DEF Fetch
<1>2. k \in Key /\ Good(s, k) /\ Fine(s) /\ Closed(s, NoKey) /\ s.min = sym.min
  BY <1>1, InHand
<1>3. s \in Call /\ sym \in Call
  BY <1>1, <1>2, TakeFacts DEF Good
<1>4. t = [s EXCEPT !.step = "fetching", !.at = k]
  BY <1>3 DEF Call
<1> HIDE DEF s, t, k
<1>5. /\ t \in Call /\ t.row = s.row /\ t.min = s.min /\ t.queued = s.queued /\ t.queue = s.queue
      /\ t.failure = s.failure /\ t.roots = s.roots /\ t.dryRun = s.dryRun /\ t.step = "fetching" /\ t.at = k
  BY <1>2, <1>3, <1>4 DEF Call
<1>6. Good(t, k) /\ Keeps(s, t) /\ Fine(t)
  BY <1>2, <1>5, SameBooks
<1>7. Closed(t, NoKey)
  BY <1>2, <1>3, <1>5, <1>6, ClosedKept
<1>8. SoundList(t)
  BY <1>5, <1>6, <1>7 DEF SoundList, Hand, Unread
<1> QED
  BY <1>1, <1>2, <1>5, <1>8

-----------------------------------------------------------------------------
(* What the worklist may trust its download with *)

WantedOK(x) ==
  /\ x.wanted \in Selector
  /\ x.step \in Installing \/ (x.step = "over" /\ x.result \in Installed) => Satisfies(x.content.package, x.wanted)

\* Download d goes on as x, for whom it works and what is wanted unchanged.
Follows(d, x) ==
  /\ download' = [download EXCEPT ![d] = x] /\ crashes' = crashes
  /\ WantedOK(x) /\ x.server = download[d].server /\ x.wanted = download[d].wanted
  /\ x.step \notin {"idle", "dead"}

LEMMA EndsFollows ==
  ASSUME DiskInv, NEW d \in Downloads, WantedOK(download[d]), download[d].step \in Installing,
         NEW result, NEW warning, Ends(d, result, warning)
  PROVE  \E x : Follows(d, x)
<1> DEFINE x == [download[d] EXCEPT !.step = "over", !.result = result, !.warning = warning, !.backup = NoFile]
<1>1. x.content = download[d].content /\ x.wanted = download[d].wanted /\ x.server = download[d].server /\ x.step = "over"
  BY DiskFacts DEF DownloadTyped
<1>2. download' = [download EXCEPT ![d] = x] /\ crashes' = crashes
  BY DEF Ends
<1> HIDE DEF x
<1>3. WantedOK(x)
  BY <1>1 DEF WantedOK
<1> QED
  BY <1>1, <1>2, <1>3 DEF Follows

LEMMA GoesFollows ==
  ASSUME DiskInv, NEW d \in Downloads, WantedOK(download[d]), download[d].step \in Installing, crashes' = crashes,
         NEW step \in Installing, Goes(d, step)
  PROVE  \E x : Follows(d, x)
<1> DEFINE x == [download[d] EXCEPT !.step = step]
<1>1. x.content = download[d].content /\ x.wanted = download[d].wanted /\ x.server = download[d].server /\ x.step = step
  BY DiskFacts DEF DownloadTyped
<1>2. download' = [download EXCEPT ![d] = x]
  BY DEF Goes
<1> HIDE DEF x
<1>3. WantedOK(x)
  BY <1>1 DEF WantedOK
<1>4. step \notin {"idle", "dead"}
  BY DEF Installing
<1> QED
  BY <1>1, <1>2, <1>3, <1>4 DEF Follows

\* Whatever step a download takes, it works for whom it worked, and installs what was wanted.
LEMMA StepFollows ==
  ASSUME DiskInv, NEW d \in Downloads, WantedOK(download[d]), Step(d)
  PROVE  download[d].step \notin {"idle", "dead"} /\ \E x : Follows(d, x)
<1>1. CASE Answered(d)
  <2>1. PICK c \in Content :
          IF Satisfies(c.package, download[d].wanted)
            THEN download' = [download EXCEPT ![d].step = "waiting", ![d].content = c]
            ELSE download' = [download EXCEPT ![d].step = "over", ![d].result = "PROTOCOL_ERROR"]
    BY <1>1 DEF Answered
  <2>2. download[d].step = "request" /\ crashes' = crashes
    BY <1>1 DEF Answered
  <2>3. CASE Satisfies(c.package, download[d].wanted)
    <3> DEFINE x == [download[d] EXCEPT !.step = "waiting", !.content = c]
    <3>1. x.content = c /\ x.wanted = download[d].wanted /\ x.server = download[d].server /\ x.step = "waiting"
      BY DiskFacts DEF DownloadTyped
    <3>2. download' = [download EXCEPT ![d] = x]
      BY <2>1, <2>3
    <3> HIDE DEF x
    <3>3. WantedOK(x)
      BY <2>3, <3>1 DEF WantedOK
    <3> QED
      BY <2>2, <3>1, <3>2, <3>3 DEF Follows
  <2>4. CASE ~Satisfies(c.package, download[d].wanted)
    <3> DEFINE x == [download[d] EXCEPT !.step = "over", !.result = "PROTOCOL_ERROR"]
    <3>1. x.result = "PROTOCOL_ERROR" /\ x.wanted = download[d].wanted /\ x.server = download[d].server /\ x.step = "over"
      BY DiskFacts DEF DownloadTyped
    <3>2. download' = [download EXCEPT ![d] = x]
      BY <2>1, <2>4
    <3> HIDE DEF x
    <3>3. WantedOK(x)
      BY <3>1 DEF WantedOK, Installing, Installed
    <3> QED
      BY <2>2, <3>1, <3>2, <3>3 DEF Follows
  <2> QED
    BY <2>2, <2>3, <2>4
<1>2. CASE RequestFails(d)
  <2>1. PICK failure \in RequestFailures : download' = [download EXCEPT ![d].step = "over", ![d].result = failure]
    BY <1>2 DEF RequestFails
  <2>2. download[d].step = "request" /\ crashes' = crashes
    BY <1>2 DEF RequestFails
  <2> DEFINE x == [download[d] EXCEPT !.step = "over", !.result = failure]
  <2>3. x.result = failure /\ x.wanted = download[d].wanted /\ x.server = download[d].server /\ x.step = "over"
    BY DiskFacts DEF DownloadTyped
  <2>4. download' = [download EXCEPT ![d] = x]
    BY <2>1
  <2>5. failure \notin Installed
    BY PackageAssumption DEF Installed
  <2> HIDE DEF x
  <2>6. WantedOK(x)
    BY <2>3, <2>5 DEF WantedOK, Installing
  <2> QED
    BY <2>2, <2>3, <2>4, <2>6 DEF Follows
<1>3. CASE ReadExisting(d)
  <2>1. download[d].step = "waiting" /\ download[d].step \in Installing
    BY <1>3 DEF ReadExisting, Installing, Steps
  <2>2. CASE file[Dest(d)] = download[d].content
    BY <1>3, <2>1, <2>2, EndsFollows DEF ReadExisting
  <2>3. CASE file[Dest(d)] # download[d].content
    <3> DEFINE x == [download[d] EXCEPT !.step = "writing", !.existing = file[Dest(d)]]
    <3>1. x.content = download[d].content /\ x.wanted = download[d].wanted /\ x.server = download[d].server /\ x.step = "writing"
      BY DiskFacts DEF DownloadTyped
    <3>2. download' = [download EXCEPT ![d] = x] /\ crashes' = crashes
      BY <1>3, <2>3 DEF ReadExisting
    <3> HIDE DEF x
    <3>3. WantedOK(x)
      BY <2>1, <3>1 DEF WantedOK
    <3> QED
      BY <2>1, <3>1, <3>2, <3>3 DEF Follows
  <2> QED
    BY <2>1, <2>2, <2>3
<1>4. CASE MoveAside(d)
  <2>1. download[d].step = "backup" /\ download[d].step \in Installing /\ crashes' = crashes
    BY <1>4 DEF MoveAside, Installing, Steps
  <2> DEFINE x == [download[d] EXCEPT !.step = "swapping", !.backup = file[Dest(d)]]
  <2>2. x.content = download[d].content /\ x.wanted = download[d].wanted /\ x.server = download[d].server /\ x.step = "swapping"
    BY DiskFacts DEF DownloadTyped
  <2>3. download' = [download EXCEPT ![d] = x]
    BY <1>4 DEF MoveAside
  <2> HIDE DEF x
  <2>4. WantedOK(x)
    BY <2>1, <2>2 DEF WantedOK
  <2> QED
    BY <2>1, <2>2, <2>3, <2>4 DEF Follows
<1>5. CASE WriteTemp(d) \/ RenameRefused(d) \/ Swap(d)
  <2>1. /\ download[d].step \in {"writing", "renaming", "swapping"} /\ crashes' = crashes
        /\ \E step \in {"renaming", "backup", "dropping", "restoring"} : Goes(d, step)
    BY <1>5 DEF WriteTemp, RenameRefused, Swap
  <2>2. download[d].step \in Installing /\ {"renaming", "backup", "dropping", "restoring"} \subseteq Installing
    BY <2>1 DEF Installing, Steps
  <2> QED
    BY <2>1, <2>2, GoesFollows
<1>6. CASE Rename(d) \/ Restore(d) \/ DropBackup(d) \/ StepFails(d)
  <2>1. /\ download[d].step \in {"waiting", "writing", "renaming", "backup", "restoring", "dropping"}
        /\ \E result, warning : Ends(d, result, warning)
    BY <1>6 DEF Rename, Restore, DropBackup, StepFails, InstallFails
  <2>2. download[d].step \in Installing
    BY <2>1 DEF Installing, Steps
  <2> QED
    BY <2>1, <2>2, EndsFollows
<1> QED
  BY <1>1, <1>2, <1>3, <1>4, <1>5, <1>6 DEF Step

WantedInv ==
  /\ download \in [Downloads -> Download]
  /\ \A d \in Downloads : WantedOK(download[d])
  /\ crashes \in 0..MaxCrashes

FetchInv ==
  /\ sym.step = "fetching" <=> download[symbols].step \notin {"idle", "dead"}
  /\ sym.step = "fetching" =>
       /\ download[symbols].server = home
       /\ download[symbols].wanted = [app |-> AppOf(sym.at), version |-> sym.min[sym.at]]

SymInv == SoundList(sym) /\ WantedInv /\ FetchInv

\* A download that is typed but for what is wanted of it, and wants what can be wanted, is typed.
LEMMA DownloadTypedFully ==
  ASSUME NEW x, DownloadTyped(x), WantedOK(x)
  PROVE  x \in Download
BY DEF DownloadTyped, WantedOK, Download

LEMMA SymInitOK == Init => SymInv
<1> SUFFICES ASSUME Init PROVE SymInv
  OBVIOUS
<1>1. download = [d \in Downloads |-> NoDownload] /\ crashes = 0 /\ sym = NoCall
  BY DEF Init, DiskInit
<1>2. DownloadTyped(NoDownload) /\ NoDownload.step = "idle"
  BY SomeTyped
<1>3. WantedOK(NoDownload)
  <2>1. NoDownload.wanted = SomeContent.package
    BY DEF NoDownload
  <2>2. SomeContent.package \in Selector
    BY SomeTyped, PackageAssumption DEF Selector
  <2> QED
    BY <1>2, <2>1, <2>2 DEF WantedOK, Installing
<1>4. WantedInv
  BY <1>1, <1>2, <1>3, DownloadTypedFully, PackageAssumption DEF WantedInv
<1>5. NoCall.step = "idle" /\ NoCall.queue = <<>> /\ NoCall.queued = [k \in Key |-> NoKey] /\ NoCall.row = [k \in Key |-> NoRow]
  BY Zenon DEF NoCall
<1>6. Fine(NoCall)
  BY Zenon DEF NoCall, Fine
<1>7. Good(NoCall, NoKey)
  BY <1>5, NoCallTyped, EmptyBooks
<1>8. SoundList(NoCall)
  BY <1>5, <1>6, <1>7 DEF SoundList, Hand
<1>9. FetchInv
  BY <1>1, <1>2, <1>5, SymbolsAssumption DEF FetchInv
<1> QED
  BY <1>1, <1>4, <1>8, <1>9 DEF SymInv

\* A download goes on, or begins.
LEMMA WantedGoesOn ==
  ASSUME WantedInv, NEW d \in Downloads, NEW x, DownloadTyped(x), WantedOK(x), download' = [download EXCEPT ![d] = x],
         crashes' = crashes
  PROVE  WantedInv' /\ download'[d] = x /\ \A e \in Downloads : e # d => download'[e] = download[e]
BY DownloadTypedFully DEF WantedInv

LEMMA RequestWanted ==
  ASSUME DiskInv, WantedInv, NEW d \in Downloads, NEW s \in Servers, NEW wanted \in Selector, Request(d, s, wanted)
  PROVE  /\ WantedInv' /\ download[d].step = "idle"
         /\ download'[d].step = "request" /\ download'[d].server = s /\ download'[d].wanted = wanted
         /\ \A e \in Downloads : e # d => download'[e] = download[e]
<1> DEFINE x == [NoDownload EXCEPT !.step = "request", !.server = s, !.wanted = wanted]
<1>1. DownloadTyped(x) /\ x.step = "request" /\ x.server = s /\ x.wanted = wanted
  BY SomeTyped DEF NoDownload, DownloadTyped, Steps, Turn, Installing, Results
<1>2. download' = [download EXCEPT ![d] = x] /\ crashes' = crashes /\ download[d].step = "idle"
  BY DEF Request
<1> HIDE DEF x
<1>3. WantedOK(x)
  BY <1>1 DEF WantedOK, Installing
<1> QED
  BY <1>1, <1>2, <1>3, WantedGoesOn

LEMMA SymDownloading ==
  ASSUME DiskInv, SymInv, NEW d \in Downloads, Downloading(d)
  PROVE  SymInv'
<1>1. WantedOK(download[d]) /\ Step(d) /\ sym' = sym
  BY DEF SymInv, WantedInv, Downloading
<1>2. download[d].step \notin {"idle", "dead"}
  BY <1>1, StepFollows
<1>3. PICK x : Follows(d, x)
  BY <1>1, StepFollows
<1>4. DownloadTyped(x)
  <2>1. DownloadTyped(download'[d])
    BY <1>1, StepOK DEF DiskInv, DiskTyped, Typed
  <2>2. download'[d] = x
    BY <1>3, DiskFacts DEF Follows
  <2> QED
    BY <2>1, <2>2
<1>5. WantedInv' /\ download'[d] = x /\ \A e \in Downloads : e # d => download'[e] = download[e]
  BY <1>3, <1>4, WantedGoesOn DEF Follows, SymInv
<1>6. FetchInv'
  <2>1. CASE d = symbols
    <3>1. /\ download[symbols].step \notin {"idle", "dead"} /\ download'[symbols].step \notin {"idle", "dead"}
          /\ download'[symbols].server = download[symbols].server /\ download'[symbols].wanted = download[symbols].wanted
      BY <1>2, <1>3, <1>5, <2>1 DEF Follows
    <3> QED
      BY <1>1, <3>1 DEF SymInv, FetchInv
  <2>2. CASE d # symbols
    <3>1. download'[symbols] = download[symbols]
      BY <1>5, <2>2, SymbolsAssumption
    <3> QED
      BY <1>1, <3>1 DEF SymInv, FetchInv
  <2> QED
    BY <2>1, <2>2
<1> QED
  BY <1>1, <1>5, <1>6 DEF SymInv

LEMMA SymFetch ==
  ASSUME DiskInv, SymInv, Fetch
  PROVE  SymInv'
<1> DEFINE wanted == [app |-> AppOf(sym'.at), version |-> sym'.min[sym'.at]]
<1>1. SoundList(sym') /\ sym'.step = "fetching" /\ sym'.at \in Key /\ Request(symbols, home, wanted)
  BY FetchOK DEF SymInv
<1>2. wanted \in Selector
  <2>1. sym' \in Call
    BY <1>1 DEF SoundList, Good
  <2>2. sym'.min \in [Key -> Versions]
    BY <2>1 DEF Call
  <2> QED
    BY <1>1, <2>2, KeyFacts DEF Selector
<1> HIDE DEF wanted
<1>3. WantedInv' /\ download'[symbols].step = "request" /\ download'[symbols].server = home /\ download'[symbols].wanted = wanted
  BY <1>1, <1>2, RequestWanted, SymbolsAssumption DEF SymInv
<1>4. FetchInv'
  BY <1>1, <1>3 DEF FetchInv, wanted
<1> QED
  BY <1>1, <1>3, <1>4 DEF SymInv

LEMMA SymFetched ==
  ASSUME DiskInv, SymInv, Fetched
  PROVE  SymInv'
<1> DEFINE x == [download[symbols] EXCEPT !.step = "idle"]
<1>1. symbols \in Downloads /\ download[symbols].step = "over" /\ sym.step = "fetching"
  BY SymbolsAssumption DEF Fetched
<1>2. DownloadTyped(download[symbols]) /\ WantedOK(download[symbols]) /\ download[symbols].content.package \in Package
  BY <1>1, DiskFacts DEF SymInv, WantedInv, Dest
<1>3. DownloadTyped(x) /\ x.step = "idle" /\ x.wanted = download[symbols].wanted
  BY <1>1, <1>2 DEF DownloadTyped, Steps, Turn, Installing
<1>4. download' = [download EXCEPT ![symbols] = x] /\ crashes' = crashes
  BY DEF Fetched
<1> HIDE DEF x
<1>5. WantedOK(x)
  BY <1>2, <1>3 DEF WantedOK, Installing
<1>6. WantedInv' /\ download'[symbols] = x
  BY <1>1, <1>3, <1>4, <1>5, WantedGoesOn DEF SymInv
<1>7. SoundList(sym') /\ sym'.step # "fetching"
  BY <1>1, <1>2, ListFetched DEF SymInv, FetchInv, WantedOK
<1>8. FetchInv'
  BY <1>3, <1>6, <1>7 DEF FetchInv
<1> QED
  BY <1>6, <1>7, <1>8 DEF SymInv

\* With the server go its downloads and, if it was the worklist's, the worklist.
LEMMA SymServerDies ==
  ASSUME DiskInv, SymInv, NEW s \in Servers, ServerDies(s)
  PROVE  SymInv'
<1> DEFINE mine == {d \in Downloads : download[d].server = s /\ download[d].step \notin {"idle", "dead"}}
           gone == [NoDownload EXCEPT !.step = "dead"]
<1>1. /\ download' = [d \in Downloads |-> IF d \in mine THEN gone ELSE download[d]]
      /\ crashes < MaxCrashes /\ crashes' = crashes + 1
  BY DEF ServerDies, Crash
<1>2. DownloadTyped(gone) /\ gone.step = "dead" /\ gone.wanted = SomeContent.package
  BY SomeTyped DEF NoDownload, DownloadTyped, Steps, Turn, Installing
<1> HIDE DEF gone
<1>3. WantedOK(gone)
  BY <1>2, SomeTyped, PackageAssumption DEF WantedOK, Installing, Selector
<1>4. WantedInv'
  <2>1. gone \in Download
    BY <1>2, <1>3, DownloadTypedFully
  <2>2. crashes' \in 0..MaxCrashes
    BY <1>1, PackageAssumption DEF SymInv, WantedInv
  <2> HIDE DEF mine
  <2> QED
    BY <1>1, <1>3, <2>1, <2>2 DEF SymInv, WantedInv
<1>5. symbols \in Downloads
  BY SymbolsAssumption
<1>6. CASE s = home /\ sym.step \notin {"idle", "over"}
  <2>1. sym' = [sym EXCEPT !.step = "over", !.failure = "restart"]
    BY <1>6 DEF ServerDies
  <2>2. SoundList(sym') /\ sym'.step = "over"
    BY <2>1, PerPackageFacts, FailedOK DEF SymInv, SoundList
  <2>3. download'[symbols].step \in {"idle", "dead"}
    BY <1>1, <1>2, <1>5, <1>6 DEF SymInv, FetchInv
  <2>4. FetchInv'
    BY <2>2, <2>3 DEF FetchInv
  <2> QED
    BY <1>4, <2>2, <2>4 DEF SymInv
<1>7. CASE ~(s = home /\ sym.step \notin {"idle", "over"})
  <2>1. sym' = sym
    BY <1>7 DEF ServerDies
  <2>2. symbols \notin mine
    BY <1>5, <1>7 DEF SymInv, FetchInv
  <2> HIDE DEF mine
  <2>3. download'[symbols] = download[symbols]
    BY <1>1, <1>5, <2>2
  <2> QED
    BY <1>4, <2>1, <2>3 DEF SymInv, FetchInv
<1> QED
  BY <1>6, <1>7

\* Where the files stay, only the list of the worklist counts.
LEMMA SymStill ==
  ASSUME SymInv, DiskUnchanged, SoundList(sym'), sym.step # "fetching", sym'.step # "fetching"
  PROVE  SymInv'
<1>1. UNCHANGED <<download, crashes>>
  BY DEF DiskUnchanged, diskVars
<1> QED
  BY <1>1 DEF SymInv, WantedInv, FetchInv

LEMMA SymInvKept ==
  ASSUME DiskInv, SymInv, [Next]_vars
  PROVE  SymInv'
<1>0. SoundList(sym)
  BY DEF SymInv
<1>1. CASE Begin
  BY <1>0, <1>1, BeginOK, SymStill DEF Begin
<1>2. CASE Worklist
  <2>1. CASE Finish
    BY <1>0, <2>1, FinishOK, SymStill DEF Finish
  <2>2. CASE Skip
    BY <1>0, <2>2, SkipOK, SymStill DEF Skip
  <2>3. CASE Miss
    BY <1>0, <2>3, MissOK, SymStill DEF Miss
  <2>4. CASE Fetch
    BY <2>4, SymFetch
  <2>5. CASE Fetched
    BY <2>5, SymFetched
  <2>6. CASE ReadBack
    BY <1>0, <2>6, ReadBackOK, SymStill DEF ReadBack
  <2> QED
    BY <1>2, <2>1, <2>2, <2>3, <2>4, <2>5, <2>6 DEF Worklist
<1>3. ASSUME NEW d \in Downloads \ {symbols}, NEW s \in Servers, NEW wanted \in Requests, Request(d, s, wanted), UNCHANGED sym
      PROVE  SymInv'
  <2>1. wanted \in Selector
    BY SymbolsAssumption
  <2>2. WantedInv' /\ download'[symbols] = download[symbols]
    BY <1>3, <2>1, RequestWanted, SymbolsAssumption DEF SymInv
  <2> QED
    BY <1>3, <2>2 DEF SymInv, FetchInv
<1>4. ASSUME NEW d \in Downloads, Downloading(d) PROVE SymInv'
  BY <1>4, SymDownloading
<1>5. ASSUME NEW s \in Servers, ServerDies(s) PROVE SymInv'
  BY <1>5, SymServerDies
<1>6. CASE UNCHANGED vars
  <2>1. UNCHANGED <<sym, download, crashes>>
    BY <1>6 DEF vars, diskVars
  <2> QED
    BY <2>1 DEF SymInv, WantedInv, FetchInv
<1> QED
  BY <1>1, <1>2, <1>3, <1>4, <1>5, <1>6 DEF Next

\* A key that is asked for stands for a reference of the same app, and the books know where that is.
LEMMA StandsFor ==
  ASSUME NEW s, Good(s, NoKey), Fine(s), s.queue = <<>>, NEW k \in Key, s.queued[k] # NoKey
  PROVE  /\ s.queued[k] \in Key /\ AppOf(s.queued[k]) = AppOf(k)
         /\ s.row[s.queued[k]].status # "none" /\ RowSound(s.row[s.queued[k]], s.queued[k], s.min[s.queued[k]])
<1> DEFINE e == s.queued[k]
<1>1. Books(s, NoKey) /\ s \in Call
  BY DEF Good
<1>2. e = k \/ (k = ConceptApp /\ e = Concept /\ s.queued[Concept] = Concept)
  BY <1>1 DEF Books
<1>3. e \in Key /\ s.queued[e] = e /\ AppOf(e) = AppOf(k)
  BY <1>2, KeyFacts DEF AppOf
<1> HIDE DEF e
<1>4. ~InLine(s, e) /\ e # NoKey
  BY <1>3, KeyFacts DEF InLine
<1>5. s.row[e].status # "none" /\ RowSound(s.row[e], e, s.min[e])
  BY <1>1, <1>3, <1>4 DEF Books
<1> QED
  BY <1>3, <1>5 DEF e

\* What is demanded of a worklist that has run dry is answered.
LEMMA HeldAnswers ==
  ASSUME Good(sym, NoKey), Fine(sym), sym.queue = <<>>, NEW k \in Key, NEW version \in Versions, Held(sym, k, version)
  PROVE  Answers(k, version)
<1> DEFINE e == sym.queued[k]
<1>1. e # NoKey /\ (sym.row[e].status \in Found => sym.row[e].noted \/ sym.row[e].package.version >= version)
  BY Zenon DEF Held
<1>2. e \in Key /\ AppOf(e) = AppOf(k) /\ sym.row[e].status # "none" /\ RowSound(sym.row[e], e, sym.min[e]) /\ sym \in Call
  BY <1>1, StandsFor DEF Good
<1> HIDE DEF e
<1>3. sym.row[e].status \in {"missing", "failed"} \cup Found
  <2>1. sym.row[e] \in Row
    BY <1>2, CallTyped
  <2> QED
    BY <1>2, <2>1 DEF Row, Found
<1>4. CASE sym.row[e].status \in {"missing", "failed"}
  BY <1>1, <1>4, Zenon DEF Answers, e
<1>5. CASE sym.row[e].status \in Found
  <2>1. sym.row[e].package \in Package /\ sym.row[e].package.app = AppOf(k)
    BY <1>2, <1>5 DEF RowSound
  <2>2. Resolved(sym, e)
    BY <2>1, KeyFacts DEF Resolved
  <2> QED
    BY <1>1, <1>5, <2>1, <2>2, Zenon DEF Answers, e
<1> QED
  BY <1>3, <1>4, <1>5

LEMMA AnswersDemand ==
  ASSUME Good(sym, NoKey), Fine(sym), sym.queue = <<>>, NEW references \in Seq(Reference), Demand(sym, references)
  PROVE  \A i \in DOMAIN references : Answers(references[i].key, references[i].version)
<1>1. ASSUME NEW i \in 1..Len(references) PROVE Answers(references[i].key, references[i].version)
  <2>1. references[i] \in Reference
    BY ElementOfSeq
  <2>2. references[i].key \in Key /\ references[i].version \in Versions
    BY <2>1, ReferenceFacts
  <2> QED
    BY <2>2, HeldAnswers DEF Demand
<1>2. DOMAIN references = 1..Len(references)
  OBVIOUS
<1> QED
  BY <1>1, <1>2

LEMMA ClosureFollows ==
  ASSUME SymInv
  PROVE  ClosureAnswered
<1> SUFFICES ASSUME sym.step = "over", Fine(sym)
             PROVE  /\ \A i \in DOMAIN sym.roots : Answers(sym.roots[i].key, sym.roots[i].version)
                    /\ ~sym.dryRun => \A k \in Key : Resolved(sym, k) =>
                         LET deps == Dependencies[sym.row[k].package] IN \A i \in DOMAIN deps : Answers(deps[i].key, deps[i].version)
  BY Zenon DEF ClosureAnswered, Fine
<1>1. Good(sym, NoKey) /\ Closed(sym, NoKey) /\ sym.queue = <<>> /\ sym \in Call
  BY DEF SymInv, SoundList, Hand, Unread, Good
<1>2. sym.roots \in Seq(Reference)
  BY <1>1, CallTyped, GraphFacts
<1>3. \A i \in DOMAIN sym.roots : Answers(sym.roots[i].key, sym.roots[i].version)
  BY <1>1, <1>2, AnswersDemand DEF Closed
<1>4. ASSUME Explores(sym), NEW k \in Key, Resolved(sym, k)
      PROVE  \A i \in DOMAIN Dependencies[sym.row[k].package] :
               Answers(Dependencies[sym.row[k].package][i].key, Dependencies[sym.row[k].package][i].version)
  <2>1. sym.row[k] \in Row
    BY <1>1, CallTyped
  <2>2. sym.row[k].package \in Package
    BY <1>4, <2>1 DEF Resolved, Row
  <2>3. Demand(sym, Dependencies[sym.row[k].package])
    BY <1>1, <1>4, KeyFacts DEF Closed
  <2> QED
    BY <1>1, <2>2, <2>3, AnswersDemand, GraphFacts
<1> QED
  BY <1>3, <1>4, Zenon DEF Explores

LEMMA TypesFollow ==
  ASSUME DiskInv, SymInv
  PROVE  TypeOK
<1>1. /\ file \in [Package -> Content \cup {NoFile}] /\ \A p \in Package : file[p] # NoFile => file[p].package = p
      /\ left \subseteq Package /\ meddled \subseteq Downloads /\ Typed(download)
  BY DEF DiskInv, DiskTyped
<1>2. download \in [Downloads -> Download] /\ crashes \in 0..MaxCrashes
  BY DEF SymInv, WantedInv
<1>3. ASSUME NEW d \in Downloads
      PROVE  /\ download[d].step \in {"swapping", "restoring", "dropping"} <=> download[d].backup # NoFile
             /\ \A s \in Servers, p \in Package :
                  d \in ToSet(tails[<<s, p>>]) <=> s = download[d].server /\ download[d].step \in Installing /\ p = download[d].content.package
  <2>1. download[d].step \in {"swapping", "restoring", "dropping"} <=> download[d].backup # NoFile
    BY <1>1 DEF Typed, DownloadTyped
  <2>2. ASSUME NEW s \in Servers, NEW p \in Package
        PROVE  d \in ToSet(tails[<<s, p>>]) <=> s = download[d].server /\ download[d].step \in Installing /\ p = download[d].content.package
    <3> DEFINE z == <<s, p>>
               q == tails[z]
    <3>1. z \in Servers \X Package /\ Lined(download, q, z) /\ Queued(tails[At(download[d])], download[d], d)
      BY DEF DiskInv, TurnsInv, TurnsOK
    <3>2. At(download[d]) = z <=> s = download[d].server /\ p = download[d].content.package
      BY DEF At
    <3> HIDE DEF q, z
    <3>3. DOMAIN q = 1..Len(q)
      BY <3>1 DEF Lined
    <3>4. d \in ToSet(q) <=> \E i \in 1..Len(q) : q[i] = d
      BY <3>3 DEF ToSet
    <3>5. ASSUME NEW i \in 1..Len(q), q[i] = d PROVE At(download[d]) = z /\ download[d].step \in Installing
      BY <3>1, <3>5 DEF Lined
    <3>6. ASSUME At(download[d]) = z, download[d].step \in Installing PROVE \E i \in 1..Len(q) : q[i] = d
      BY <3>1, <3>6 DEF Queued, q
    <3>7. d \in ToSet(q) <=> s = download[d].server /\ download[d].step \in Installing /\ p = download[d].content.package
      BY <3>2, <3>4, <3>5, <3>6
    <3> QED
      BY <3>7 DEF q, z
  <2> QED
    BY <2>1, <2>2
<1>4. DiskTypeOK
  BY <1>1, <1>2, <1>3 DEF DiskTypeOK
<1>5. sym \in Call /\ (\A k \in Key : sym.queued[k] = NoKey => sym.row[k].status = "none")
      /\ (sym.step = "fetching" <=> download[symbols].step \notin {"idle", "dead"})
  BY DEF SymInv, SoundList, Good, FetchInv
<1> QED
  BY <1>4, <1>5 DEF TypeOK

(* Whatever app.json declares, however packages depend on each other and
   whatever fails: a call that answers covers the whole closure, every root and
   every dependency of every package it resolved. *)
THEOREM SymbolsTrusted == Spec => []SymbolsHonest
<1>1. Init => DiskInv /\ SymInv
  BY DiskInitOK, SymInitOK
<1>2. DiskInv /\ SymInv /\ [Next]_vars => (DiskInv /\ SymInv)'
  <2>1. CASE Next
    BY <2>1, DiskInvKept, SymInvKept
  <2>2. CASE UNCHANGED vars
    BY <2>2, DiskStill, SymInvKept DEF vars, DiskUnchanged
  <2> QED
    BY <2>1, <2>2
<1>3. DiskInv /\ SymInv => SymbolsHonest
  BY TypesFollow, ClosureFollows DEF SymbolsHonest
<1> QED
  BY <1>1, <1>2, <1>3, PTL DEF Spec
=============================================================================
