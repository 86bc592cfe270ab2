--------------------------- MODULE Authorization ---------------------------
(***************************************************************************)
(* The authorization providers (src/src/core/authorization.ts) as their     *)
(* callers meet them: Basic and pre-acquired bearer headers are at hand,    *)
(* the Azure CLI provider of a tenant keeps one token with its expiry and   *)
(* shares one running `az` between the callers that find it missing or      *)
(* close to its end.  A caller that gives up does not stop the acquisition, *)
(* and its abandoned getAuthorizationHeader still stores the token.         *)
(* Time is counted in units of which RefreshWindow make REFRESH_WINDOW_MS.  *)
(***************************************************************************)
EXTENDS Naturals

CONSTANTS
  Callers,       \* who calls getAuthorizationHeader, one call at a time
  Tenants,       \* entraByTenant
  ProviderOf,    \* Callers -> a tenant, "basic" or "bearer"
  RefreshWindow, \* REFRESH_WINDOW_MS
  Lifetimes,     \* lifetimes a token may still have when az prints it; 0: already expired
  BearerExpiry,  \* exp of BC_ACCESS_TOKEN
  MaxNow         \* bound: the model's last instant

ASSUME AuthorizationAssumption ==
  /\ ProviderOf \in [Callers -> Tenants \cup {"basic", "bearer"}]
  /\ {"basic", "bearer"} \cap Tenants = {}
  /\ RefreshWindow \in Nat \ {0} /\ Lifetimes \subseteq Nat /\ BearerExpiry \in Nat /\ MaxNow \in Nat

VARIABLES
  now,       \* the clock
  cached,    \* per tenant: expiresAt of the cached token, 0 when there is none
  acquiring, \* per tenant: an acquisition promise is stored
  header     \* per caller: what its getAuthorizationHeader came to

authVars == <<cached, acquiring, header>>

Header ==
  [st : {"none", "waiting", "resolved", "ok", "failed"},
   exp : Nat,                                  \* when the token in it expires; 0: never
   from : {"", "fixed", "cache", "cli"}]

AuthTypeOK ==
  /\ now \in 0..MaxNow
  /\ cached \in [Tenants -> Nat]
  /\ acquiring \in [Tenants -> BOOLEAN]
  /\ header \in [Callers -> Header]

NoHeader == [st |-> "none", exp |-> 0, from |-> ""]

AuthInit ==
  /\ now = 0
  /\ cached = [t \in Tenants |-> 0]
  /\ acquiring = [t \in Tenants |-> FALSE]
  /\ header = [c \in Callers |-> NoHeader]

Got(c, st, exp, from) == header' = [header EXCEPT ![c] = [st |-> st, exp |-> exp, from |-> from]]

\* A token is served from the cache as long as it has not expired.
FreshToKeepAnyRemainder(t) == cached[t] > now

\* cached.expiresAt - now > REFRESH_WINDOW_MS
FreshToKeep(t) == cached[t] > now + RefreshWindow

\* A Basic value is made once; BC_ACCESS_TOKEN is sent as it is, unless it has expired.
FixedHeader(c) ==
  /\ ProviderOf[c] \in {"basic", "bearer"}
  /\ CASE ProviderOf[c] = "basic"                          -> Got(c, "ok", 0, "fixed")
       [] ProviderOf[c] = "bearer" /\ BearerExpiry > now   -> Got(c, "ok", BearerExpiry, "fixed")
       [] OTHER                                            -> Got(c, "failed", 0, "")
  /\ UNCHANGED <<cached, acquiring>>

CachedHeader(c) ==
  LET t == ProviderOf[c] IN
  /\ t \in Tenants /\ FreshToKeep(t)
  /\ Got(c, "ok", cached[t], "cache") /\ UNCHANGED <<cached, acquiring>>

\* Joins the acquisition that runs, or starts one.
AwaitAcquisition(c) ==
  LET t == ProviderOf[c] IN
  /\ t \in Tenants /\ ~FreshToKeep(t)
  /\ acquiring' = [acquiring EXCEPT ![t] = TRUE]
  /\ Got(c, "waiting", 0, "") /\ UNCHANGED cached

GetAuthorizationHeader(c) ==
  FixedHeader(c) \/ CachedHeader(c) \/ AwaitAcquisition(c)

\* Every continuation of a settled promise runs before the next process or socket event.
Drained == \A c \in Callers : header[c].st # "resolved"

Waiting(t) == {c \in Callers : header[c].st = "waiting" /\ ProviderOf[c] = t}

\* az ended; the finally clears the promise before the callers that awaited it resume.
AcquireEnds(t, st, exp) ==
  /\ acquiring[t] /\ Drained
  /\ acquiring' = [acquiring EXCEPT ![t] = FALSE]
  /\ header' = [c \in Callers |->
       IF c \in Waiting(t) THEN [st |-> st, exp |-> exp, from |-> IF st = "failed" THEN "" ELSE "cli"]
       ELSE header[c]]
  /\ UNCHANGED <<now, cached>>

\* A token that is already expired is refused like a failed az.
Acquired(t) == \E life \in Lifetimes \ {0} : AcquireEnds(t, "resolved", now + life)
AcquireFailed(t) == AcquireEnds(t, "failed", 0)

\* this.cached = await this.acquiring
StoreToken(c) ==
  /\ header[c].st = "resolved"
  /\ header' = [header EXCEPT ![c].st = "ok"]
  /\ cached' = [cached EXCEPT ![ProviderOf[c]] = header[c].exp]
  /\ UNCHANGED <<now, acquiring>>

AuthNext ==
  \/ \E t \in Tenants : Acquired(t) \/ AcquireFailed(t)
  \/ \E c \in Callers : StoreToken(c)

----------------------------------------------------------------------------
(* Properties *)

\* Nobody waits for an acquisition that is not running: a failed or finished az leaves no caller behind.
NobodyForgotten == \A t \in Tenants : Waiting(t) # {} => acquiring[t]
=============================================================================
