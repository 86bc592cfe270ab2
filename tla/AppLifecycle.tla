---------------------------- MODULE AppLifecycle ----------------------------
(***************************************************************************)
(* The app lifecycle tools (src/src/core/app-lifecycle.ts,                  *)
(* src/src/mcp/tools/app-tools.ts): bcdev_app_list, _publish, _uninstall    *)
(* and _unpublish.  A call lists the tenant's extensions page by page,      *)
(* decides on what it read, posts one action and, for an uninstall, lists   *)
(* again to report what Business Central uninstalled with the target.       *)
(* Nothing serialises the calls, and a POST outlives the call that sent it. *)
(***************************************************************************)
EXTENDS FiniteSets, Naturals

CONSTANTS
  Calls,        \* tool calls, and whatever else changes the tenant
  Extension, Release, \* a release is a package: one version of one app
  ExtensionOf,        \* Release -> Extension
  DependsOn,    \* pairs of apps, transitively closed
  AppRequests,     \* the parameters the calls are made with
  InitialTenant,
  MaxListPages

AnyVersion == "any version"
Unknown == "unknown"

\* subject is the app, except for a publish: there it is the package of the .app file
AppRequest == [op : {"list", "uninstall", "unpublish"}, subject : Extension, version : Release \cup {AnyVersion}]
           \cup [op : {"publish"}, subject : Release, version : {AnyVersion}]

ASSUME AppAssumption ==
  /\ ExtensionOf \in [Release -> Extension]
  /\ DependsOn \subseteq Extension \X Extension
  /\ \A d, e \in DependsOn : d[2] = e[1] => <<d[1], e[2]>> \in DependsOn
  /\ AppRequests \subseteq AppRequest /\ AppRequests # {}
  /\ InitialTenant \in [published : SUBSET Release, installed : SUBSET Release]
  /\ InitialTenant.installed \subseteq InitialTenant.published
  /\ MaxListPages \in Nat \ {0}

VARIABLES
  tenant,   \* [published, installed], at Business Central
  call,     \* per call: the locals of its handler
  upstream, \* per call: its POST, at Business Central
  undone,   \* per call: the other packages its POST uninstalled
  touched   \* per call: the packages other POSTs changed while it ran

appVars == <<tenant, call, upstream, undone, touched>>

AppRow == [package : Release, isInstalled : BOOLEAN]

Failure(code, retryable) == [code |-> code, retryable |-> retryable]
Success == Failure("", FALSE)

\* bcRequest and rejection: what one request may fail with
TimedOut(method) == Failure("TIMEOUT", method = "GET")
Unreachable == Failure("ENDPOINT_UNREACHABLE", TRUE)
Rejections == {Failure("AUTHENTICATION_FAILED", FALSE), Failure("NOT_FOUND", FALSE), Failure("SERVER_REJECTED", FALSE)}
ServerFault == Failure("SERVER_REJECTED", TRUE)
Malformed == Failure("PROTOCOL_ERROR", FALSE)
ReadFailures == {TimedOut("GET"), Unreachable, ServerFault, Malformed} \cup Rejections
Refusals == {Failure("NOT_FOUND", FALSE), Failure("INVALID_ARGUMENT", FALSE)}
Failures == ReadFailures \cup Refusals \cup {TimedOut("POST")}

AppSteps == {"idle", "company", "before", "action", "after", "over"}

AppCall ==
  [step : AppSteps, request : AppRequest, page : 0..MaxListPages - 1,
   todo : SUBSET Release,                      \* the rows Business Central has still to send
   rows : SUBSET AppRow, before : SUBSET AppRow, target : Release \cup {Unknown},
   failure : Failures \cup {Success},
   status : {"", "listed", "published", "uninstalled", "alreadyUninstalled", "unpublished"},
   known : BOOLEAN, also : SUBSET Release, vanished : SUBSET Release]

AppTypeOK ==
  /\ tenant \in [published : SUBSET Release, installed : SUBSET Release]
  /\ tenant.installed \subseteq tenant.published
  /\ \A c \in Calls : call[c] \in AppCall /\ (call[c].failure # Success => call[c].status = "")
  /\ upstream \in [Calls -> {"none", "pending", "done", "refused"}]
  /\ undone \in [Calls -> SUBSET Release]
  /\ touched \in [Calls -> SUBSET Release]

SomeRequest == CHOOSE r \in AppRequests : TRUE
NoAppCall ==
  [step |-> "idle", request |-> SomeRequest, page |-> 0, todo |-> {}, rows |-> {}, before |-> {},
   target |-> Unknown, failure |-> Success, status |-> "", known |-> FALSE, also |-> {}, vanished |-> {}]

AppInit ==
  /\ tenant = InitialTenant
  /\ call = [c \in Calls |-> NoAppCall]
  /\ upstream = [c \in Calls |-> "none"]
  /\ undone = [c \in Calls |-> {}]
  /\ touched = [c \in Calls |-> {}]

Running(c) == call[c].step \notin {"idle", "over"}

Over(k, status) == [k EXCEPT !.step = "over", !.status = status, !.rows = {}, !.before = {}]
Fails(k, failure) == [Over(k, "") EXCEPT !.failure = failure]

\* the rest of the state while only the call's locals change
LocalOnly == UNCHANGED <<tenant, upstream, undone, touched>>

Listing(k, step) == [k EXCEPT !.step = step, !.page = 0, !.todo = Release, !.rows = {}]

\* a publish posts at once; every other call lists first
BeginAppCall(c) ==
  /\ call[c].step = "idle"
  /\ \E r \in AppRequests, knowsCompany \in BOOLEAN :
       LET k == [NoAppCall EXCEPT !.request = r] IN
       call' = [call EXCEPT ![c] = IF r.op = "publish" THEN [k EXCEPT !.step = "action", !.target = r.subject]
                                   ELSE IF knowsCompany THEN Listing(k, "before")
                                   ELSE [k EXCEPT !.step = "company"]]
  /\ LocalOnly

\* publishApp: no such file, or no AL package
BadAppFile(c) ==
  /\ call[c].step = "action" /\ call[c].request.op = "publish" /\ upstream[c] = "none"
  /\ call' = [call EXCEPT ![c] = Fails(@, Failure("INVALID_ARGUMENT", FALSE))]
  /\ LocalOnly

\* resolveCompanyId
ResolveCompany(c) ==
  /\ call[c].step = "company"
  /\ call' = [call EXCEPT ![c] = Listing(@, "before")]
  /\ LocalOnly

RowsOf(k, app) == {r \in k.rows : ExtensionOf[r.package] = app}

\* uninstallApp, from the first listing to its POST
DecideUninstall(k) ==
  LET rows == RowsOf(k, k.request.subject)
      on == {r \in rows : r.isInstalled}
  IN IF rows = {} THEN {Fails(k, Failure("NOT_FOUND", FALSE))}
     ELSE IF on = {} THEN {Over(k, "alreadyUninstalled")}
     ELSE {[k EXCEPT !.step = "action", !.target = r.package, !.before = k.rows, !.rows = {}] : r \in on}

\* unpublishApp
DecideUnpublish(k) ==
  LET rows == RowsOf(k, k.request.subject)
      matches == IF k.request.version = AnyVersion THEN rows ELSE {r \in rows : r.package = k.request.version}
  IN IF matches = {} THEN {Fails(k, Failure("NOT_FOUND", FALSE))}
     ELSE IF Cardinality(matches) > 1 THEN {Fails(k, Failure("INVALID_ARGUMENT", FALSE))}
     ELSE {[k EXCEPT !.step = "action", !.target = r.package, !.rows = {}] : r \in matches}

WasOn(k) == {r.package : r \in {s \in k.before : s.isInstalled /\ s.package # k.target}}

\* uninstallApp, from the second listing to its result: the difference is the only report
Report(k) ==
  {[Over(k, "uninstalled") EXCEPT
      !.known = TRUE, !.also = {p \in WasOn(k) : [package |-> p, isInstalled |-> FALSE] \in k.rows},
      !.vanished = {p \in WasOn(k) : p \notin {r.package : r \in k.rows}}]}

Listed(k) ==
  IF k.step = "after" THEN Report(k)
  ELSE CASE k.request.op = "list" -> {Over(k, "listed")}
         [] k.request.op = "uninstall" -> DecideUninstall(k)
         [] k.request.op = "unpublish" -> DecideUnpublish(k)

MorePages(page) == page < MaxListPages

\* one page of getAllRows: the rows as they are now, and a nextLink while there are more
ReadPage(c) ==
  LET k == call[c] IN
  /\ k.step \in {"before", "after"}
  /\ \E chunk \in SUBSET k.todo :
       LET read == [k EXCEPT !.page = @ + 1, !.todo = @ \ chunk,
                             !.rows = @ \cup {[package |-> p, isInstalled |-> p \in tenant.installed] : p \in chunk \cap tenant.published}]
       IN \/ chunk = k.todo /\ \E next \in Listed([read EXCEPT !.page = 0]) : call' = [call EXCEPT ![c] = next]
          \/ chunk # k.todo /\ MorePages(read.page) /\ call' = [call EXCEPT ![c] = read]
  /\ LocalOnly

\* as if the failure of the second listing were the failure of the call
AfterListThrows(k) == Fails(k, TimedOut("GET"))

\* after a successful POST a listing that fails costs the report, not the result
AfterListFailed(k) == Over(k, "uninstalled")

\* a GET fails, a page is malformed or leaves the origin, or there are too many of them
ReadFails(c) ==
  /\ call[c].step \in {"company", "before", "after"}
  /\ IF call[c].step = "after" THEN call' = [call EXCEPT ![c] = AfterListFailed(@)]
     ELSE \E failure \in ReadFailures : call' = [call EXCEPT ![c] = Fails(@, failure)]
  /\ LocalOnly

Post(c) ==
  /\ call[c].step = "action" /\ upstream[c] = "none"
  /\ upstream' = [upstream EXCEPT ![c] = "pending"]
  /\ UNCHANGED <<tenant, call, undone, touched>>

(***************************************************************************)
(* Business Central performs the action of a POST, or refuses it; whether   *)
(* the call still waits for the answer makes no difference to it.           *)
(***************************************************************************)
Dependents(p) == {q \in tenant.installed : <<ExtensionOf[q], ExtensionOf[p]>> \in DependsOn}
SameApp(p) == {q \in Release : ExtensionOf[q] = ExtensionOf[p]}

Effect(k) ==
  CASE k.request.op = "publish" ->
         [published |-> tenant.published \cup {k.target}, installed |-> (tenant.installed \ SameApp(k.target)) \cup {k.target}]
    [] k.request.op = "uninstall" -> [tenant EXCEPT !.installed = @ \ ({k.target} \cup Dependents(k.target))]
    [] k.request.op = "unpublish" -> [tenant EXCEPT !.published = @ \ {k.target}]

Allowed(k) ==
  CASE k.request.op = "publish" -> TRUE
    [] k.request.op = "uninstall" -> k.target \in tenant.installed
    [] k.request.op = "unpublish" -> k.target \in tenant.published \ tenant.installed
         /\ \A q \in tenant.published : <<ExtensionOf[q], ExtensionOf[k.target]>> \notin DependsOn

Changed(new) == {p \in Release : (p \in tenant.installed) # (p \in new.installed) \/ (p \in tenant.published) # (p \in new.published)}

Perform(c) ==
  LET new == Effect(call[c]) IN
  /\ upstream[c] = "pending" /\ Allowed(call[c])
  /\ tenant' = new
  /\ upstream' = [upstream EXCEPT ![c] = "done"]
  /\ undone' = [undone EXCEPT ![c] = (tenant.installed \ new.installed) \ {call[c].target}]
  /\ touched' = [d \in Calls |-> IF d # c /\ Running(d) THEN touched[d] \cup Changed(new) ELSE touched[d]]
  /\ UNCHANGED call

Refuse(c) ==
  /\ upstream[c] = "pending"
  /\ upstream' = [upstream EXCEPT ![c] = "refused"]
  /\ UNCHANGED <<tenant, call, undone, touched>>

\* the answer arrives; only an uninstall has more to do
PostAnswered(c) ==
  /\ call[c].step = "action"
  /\ \/ /\ upstream[c] = "done"
        /\ call' = [call EXCEPT ![c] = CASE @.request.op = "publish" -> Over(@, "published")
                                          [] @.request.op = "unpublish" -> Over(@, "unpublished")
                                          [] @.request.op = "uninstall" -> Listing(@, "after")]
     \/ /\ upstream[c] = "refused"
        /\ \E failure \in Rejections : call' = [call EXCEPT ![c] = Fails(@, failure)]
  /\ LocalOnly

\* as if the timer only covered GET requests
NoPostTimer(c) == FALSE

\* no answer within timeoutMs
PostTimesOut(c) ==
  /\ call[c].step = "action" /\ upstream[c] # "none"
  /\ call' = [call EXCEPT ![c] = Fails(@, TimedOut("POST"))]
  /\ LocalOnly

\* a connection that is refused, or breaks while the POST is under way; a gateway's 5xx likewise
PostBreaks(c) ==
  /\ call[c].step = "action" /\ upstream[c] # "none"
  /\ \E failure \in {Unreachable, ServerFault} : call' = [call EXCEPT ![c] = Fails(@, failure)]
  /\ LocalOnly

AppNext ==
  \E c \in Calls :
    \/ BeginAppCall(c) \/ BadAppFile(c) \/ ResolveCompany(c) \/ ReadPage(c) \/ ReadFails(c)
    \/ Post(c) \/ Perform(c) \/ Refuse(c) \/ PostAnswered(c) \/ PostTimesOut(c) \/ PostBreaks(c)

Waits(c) == ResolveCompany(c) \/ ReadPage(c) \/ ReadFails(c) \/ Post(c) \/ PostAnswered(c) \/ PostTimesOut(c)

\* every request has a timeout, so each await of a call ends
AppFairness == \A c \in Calls : WF_appVars(Waits(c))

AppSpec == AppInit /\ [][AppNext]_appVars /\ AppFairness

-----------------------------------------------------------------------------
(* Properties *)

(* An uninstall that reports what went with the target reports it exactly:
   every package its POST uninstalled is listed, or named as missing, and
   nothing else is, up to what other calls changed meanwhile. *)
CascadeReported ==
  \A c \in Calls :
    LET k == call[c] IN
    k.status = "uninstalled" =>
      /\ upstream[c] = "done"
      /\ k.known =>
           /\ undone[c] \ touched[c] \subseteq k.also \cup k.vanished
           /\ k.also \cup k.vanished \subseteq undone[c] \cup touched[c]

(* Whatever goes wrong after Business Central took a POST, the call ends with
   its result or with an error that is not retryable, so that no blind retry
   answers alreadyUninstalled and loses the report; a connection that breaks
   is the exception RetryableMeansUndone states. *)
NoBlindRetry ==
  \A c \in Calls :
    call[c].step = "over" /\ call[c].failure.retryable /\ upstream[c] \in {"pending", "done"}
      => call[c].failure \in {Unreachable, ServerFault}

(* What the four tools answer can be acted on. *)
AppsHonest == AppTypeOK /\ CascadeReported /\ NoBlindRetry

(* app-lifecycle.ts:157 says why a timed-out POST is not retryable: it may have
   been applied, and a blind retry would lose the cascade report.  The same is
   then expected of every error after a POST. *)
RetryableMeansUndone ==
  \A c \in Calls : call[c].failure.retryable => upstream[c] # "done"

\* every call that was made has ended
AppSettled == \A c \in Calls : call[c].step \in {"idle", "over"}

=============================================================================
