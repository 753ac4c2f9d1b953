---------------------------- MODULE TokenManager ----------------------------
(***************************************************************************)
(* The token cache of the browser client and its automatic renewal:        *)
(* src/packages/cloud-auth-client/src/token/token-manager.ts.              *)
(*                                                                         *)
(* One page holds a set of TokenManager instances (one per SplunkAuthClient*)
(* the application has constructed) that share one token storage.  Each    *)
(* instance owns one setTimeout handle and any number of renewal requests  *)
(* that the auth host has not answered yet.  The page is single threaded:  *)
(* every action below is one callback that runs to completion.             *)
(***************************************************************************)
EXTENDS Integers, FiniteSets

CONSTANTS
    Clients,        \* TokenManager instances living on the page
    Tenants,        \* names of tenants
    Global,         \* the slot, and the scope, of tokens without a tenant
    TenantOf,       \* tenant whose tokens an instance's client signs in for
    GrantType,      \* "pkce" or "implicit"
    RenewalBuffer,  \* settings.autoTokenRenewalBuffer
    Lifetimes,      \* values of expires_in the auth host answers with
    HalfRange,      \* 2^31 milliseconds: setTimeout delays are signed 32 bit
    TimerSlack,     \* the page runs a due timer at most this late
    ResponseTime,   \* a request is answered, or fails, within this time
    NoToken,        \* an empty slot of the storage
    NoTimer,        \* _autoRefreshFunction holds no pending timeout
    MaxTime,        \* bound: the clock of the model stops here
    MaxInFlight     \* bound: renewal requests in flight at once

Slots == Tenants \cup {Global}

(***************************************************************************)
(* An AccessToken.  expiresAt is what the client computes when the token   *)
(* arrives; validUntil and scope are what the auth host granted, which the *)
(* client cannot see: the host counts expiresIn from the moment it mints   *)
(* the token, the client from the moment the answer arrives.               *)
(***************************************************************************)
Token == [tenant: Slots, scope: Slots, expiresIn: Lifetimes,
          expiresAt: Nat, validUntil: Nat]

\* A pending timeout and the token its callback closes over.
Timeout == [token: Token, armedAt: Nat, dueAt: Nat]

\* A renewal request the auth host has not answered yet.
Request == [client: Clients, timeout: Timeout, sentAt: Nat]

ASSUME TenantsAssumption ==
    /\ Global \notin Tenants
    /\ TenantOf \in [Clients -> Slots]

\* The settings; a buffer that is not positive switches renewals off.
TokenManagerSettings ==
    /\ GrantType \in {"pkce", "implicit"}
    /\ RenewalBuffer \in Int

ASSUME SettingsAssumption == TokenManagerSettings

\* The implicit flow asks for tokens without a tenant
\* (implicit-auth-manager.ts:154-160).
ASSUME GrantTypeAssumption ==
    GrantType = "implicit" => \A c \in Clients : TenantOf[c] = Global

ASSUME TimesAssumption ==
    /\ Lifetimes \subseteq Nat \ {0}
    /\ HalfRange \in Nat \ {0}
    /\ TimerSlack \in Nat
    /\ ResponseTime \in Nat
    /\ MaxTime \in Nat
    /\ MaxInFlight \in Nat

ASSUME NothingAssumption ==
    /\ NoToken \notin Token
    /\ NoTimer \notin Timeout

VARIABLES
    now,        \* Date.now()
    store,      \* the token storage: one global slot and one per tenant
    timer,      \* _autoRefreshFunction of every instance
    requests    \* renewal requests in flight

tmVars == <<now, store, timer, requests>>

-----------------------------------------------------------------------------
(***************************************************************************)
(* Reading and writing the cache.                                          *)
(***************************************************************************)

EmptyStore == [s \in Slots |-> NoToken]

\* TokenManager.get: the tenant's own token, or else the global one.
Lookup(tenant) ==
    IF tenant \in Tenants /\ store[tenant] # NoToken
    THEN store[tenant]
    ELSE store[Global]

\* Faulty variant: expiresAt counted down from the wrong end.
MintedTokenNegated(tenant, scope, expiresIn, received, age) ==
    [tenant     |-> tenant,
     scope      |-> scope,
     expiresIn  |-> expiresIn,
     expiresAt  |-> received - expiresIn,
     validUntil |-> received - age + expiresIn]

\* A token that arrives at time `received`; the host minted it `age` before.
MintedToken(tenant, scope, expiresIn, received, age) ==
    [tenant     |-> tenant,
     scope      |-> scope,
     expiresIn  |-> expiresIn,
     expiresAt  |-> received + expiresIn,
     validUntil |-> received - age + expiresIn]

\* Faulty variant: seconds handed to setTimeout as if they were milliseconds.
DelayInSeconds(expiresIn) == 0

\* Faulty variant: the renewal is due when the token expires.
DelayWithoutBuffer(expiresIn) == expiresIn

\* setTimeout converts its argument to a signed 32 bit number of milliseconds
\* and treats a negative one as zero.
Delay(expiresIn) ==
    LET wrapped == (expiresIn - RenewalBuffer) % (2 * HalfRange)
    IN  IF wrapped < HalfRange THEN wrapped ELSE 0

\* Faulty variant: a pending timeout is kept instead of replaced.
SetTokenKeepingTimer(c, token) ==
    /\ store' = [store EXCEPT ![token.tenant] = token]
    /\ timer' = IF RenewalBuffer <= 0 \/ timer[c] # NoTimer
                THEN timer
                ELSE [timer EXCEPT ![c] =
                        [token   |-> token,
                         armedAt |-> now,
                         dueAt   |-> now + Delay(token.expiresIn)]]

\* TokenManager.set: store the token in its slot and, unless renewal is off,
\* replace the instance's only timeout by one for this token.
SetToken(c, token) ==
    /\ store' = [store EXCEPT ![token.tenant] = token]
    /\ timer' = IF RenewalBuffer <= 0
                THEN timer
                ELSE [timer EXCEPT ![c] =
                        [token   |-> token,
                         armedAt |-> now,
                         dueAt   |-> now + Delay(token.expiresIn)]]

\* The tenant a renewal asks for: the refresh_token grant repeats the token's
\* tenant, the implicit grant passes none.
RenewalTenant(token) == IF GrantType = "pkce" THEN token.tenant ELSE Global

-----------------------------------------------------------------------------
(***************************************************************************)
(* The actions.                                                            *)
(***************************************************************************)

TMInit ==
    /\ now = 0
    /\ store = EmptyStore
    /\ timer = [c \in Clients |-> NoTimer]
    /\ requests = {}

\* The client hands over the token of its sign-in.  getAccessTokenContext sets
\* the token of the memoized exchange again whenever it finds none it accepts,
\* so the token may have been received at any earlier time.  With PKCE it came in
\* an answer to a request; in the implicit flow it came with the page, which may
\* have been opened long after the auth host minted it.
ClientSets(c) ==
    /\ \E e \in Lifetimes, received \in 0 .. now :
         \E age \in 0 .. received :
            /\ GrantType = "pkce" => age <= ResponseTime
            /\ SetToken(c, MintedToken(TenantOf[c], TenantOf[c], e, received, age))
    /\ UNCHANGED <<now, requests>>

\* clear(): the whole storage is emptied; timers and requests stay.
Clear(c) ==
    /\ store' = EmptyStore
    /\ UNCHANGED <<now, timer, requests>>

\* Faulty variant: a renewal that is in flight already is taken to be enough.
TimerFiresUnlessRenewing(c) ==
    /\ timer[c] # NoTimer
    /\ timer[c].dueAt <= now
    /\ Cardinality(requests) < MaxInFlight
    /\ requests' = IF \E r \in requests : r.client = c THEN requests
                   ELSE requests \cup {[client |-> c, timeout |-> timer[c], sentAt |-> now]}
    /\ timer' = [timer EXCEPT ![c] = NoTimer]
    /\ UNCHANGED <<now, store>>

\* The timeout runs refreshToken, which sends the request and returns.
TimerFires(c) ==
    /\ timer[c] # NoTimer
    /\ timer[c].dueAt <= now
    /\ Cardinality(requests) < MaxInFlight
    /\ requests' = requests \cup
            {[client |-> c, timeout |-> timer[c], sentAt |-> now]}
    /\ timer' = [timer EXCEPT ![c] = NoTimer]
    /\ UNCHANGED <<now, store>>

\* Faulty variant: the answer's tenant is not copied to the new token.
RefreshForgetsTenant(r) ==
    /\ \E e \in Lifetimes, age \in 0 .. (now - r.sentAt) :
         SetToken(r.client, MintedToken(Global, RenewalTenant(r.timeout.token),
                                        e, now, age))
    /\ requests' = requests \ {r}
    /\ UNCHANGED now

\* Faulty variant: the new token is stored without arming a timer for it.
RefreshStoresOnly(r) ==
    /\ \E e \in Lifetimes, age \in 0 .. (now - r.sentAt) :
         store' = [store EXCEPT ![RenewalTenant(r.timeout.token)] =
                      MintedToken(RenewalTenant(r.timeout.token),
                                  RenewalTenant(r.timeout.token), e, now, age)]
    /\ requests' = requests \ {r}
    /\ UNCHANGED <<now, timer>>

\* The answer arrives and its token is set, whatever happened in between.
RefreshSucceeds(r) ==
    /\ \E e \in Lifetimes, age \in 0 .. (now - r.sentAt) :
         SetToken(r.client, MintedToken(RenewalTenant(r.timeout.token),
                                        RenewalTenant(r.timeout.token), e, now, age))
    /\ requests' = requests \ {r}
    /\ UNCHANGED now

\* The request is refused or lost, or the storage rejects the new token: the
\* error is logged and nothing else happens.
RefreshFails(r) ==
    /\ requests' = requests \ {r}
    /\ UNCHANGED <<now, store, timer>>

\* The page is loaded again: sessionStorage survives, callbacks do not.
Reload ==
    /\ timer' = [c \in Clients |-> NoTimer]
    /\ requests' = {}
    /\ UNCHANGED <<now, store>>

\* Time passes, as long as no due timer and no request has waited too long.
Tick ==
    /\ now < MaxTime
    /\ \A c \in Clients : timer[c] # NoTimer => now < timer[c].dueAt + TimerSlack
    /\ \A r \in requests : now < r.sentAt + ResponseTime
    /\ now' = now + 1
    /\ UNCHANGED <<store, timer, requests>>

TMNext ==
    \/ \E c \in Clients : ClientSets(c) \/ Clear(c) \/ TimerFires(c)
    \/ \E r \in requests : RefreshSucceeds(r) \/ RefreshFails(r)
    \/ Reload
    \/ Tick

TMSpec == TMInit /\ [][TMNext]_tmVars

-----------------------------------------------------------------------------
(***************************************************************************)
(* What the token manager promises.                                        *)
(***************************************************************************)

\* Type correctness of the cache, the timers and the requests in flight.
TMTypeOK ==
    /\ now \in Nat
    /\ store \in [Slots -> Token \cup {NoToken}]
    /\ timer \in [Clients -> Timeout \cup {NoTimer}]
    /\ requests \subseteq Request

\* A client that asks for the token of tenant t is never handed a token the
\* auth host granted for another tenant, although all clients share one storage,
\* get() falls back to the global token, and renewals of other clients' tokens
\* arrive at any time (token-manager.ts:134-149, 178-187, 208-221).
TenantIsolation ==
    \A t \in Tenants :
        Lookup(t) # NoToken => Lookup(t).scope \in {t, Global}

\* The renewal buffer, and every lifetime, leave room for a late timer, for the
\* renewal request and for the answer that brought the token.
Timely ==
    LET room == TimerSlack + 2 * ResponseTime
    IN  /\ room < RenewalBuffer /\ RenewalBuffer <= HalfRange
        /\ \A e \in Lifetimes : room < e

\* When the token of a timeout came to the client.
ReceivedAt(timeout) == timeout.token.expiresAt - timeout.token.expiresIn

\* The token was set the moment it was received.
SetOnReceipt(timeout) == timeout.armedAt = ReceivedAt(timeout)

\* The page was not opened later with the token than an answer would have
\* brought it (implicit-auth-manager.ts:154-160 counts its life from then on).
OpenedPromptly(timeout) ==
    GrantType = "implicit"
        => timeout.token.expiresAt <= timeout.token.validUntil + ResponseTime

\* With a large enough buffer a token that was set on receipt is still valid at
\* the auth host as long as its renewal is pending, from the arming of the timer
\* to the arrival of the answer: sign-in and renewals never leave a gap
\* (token-manager.ts:160-167, 199-227).
RenewedInTime ==
    Timely =>
      /\ \A c \in Clients :
            timer[c] # NoTimer /\ SetOnReceipt(timer[c]) /\ OpenedPromptly(timer[c])
                => now < timer[c].token.validUntil
      /\ \A r \in requests :
            SetOnReceipt(r.timeout) /\ OpenedPromptly(r.timeout)
                => now < r.timeout.token.validUntil

\* The delay is not changed by the conversion to 32 bit.
Fits(expiresIn) == expiresIn - RenewalBuffer < HalfRange

\* No token is renewed before it enters its renewal buffer, whichever client's
\* timer it was and however often it was set again, unless its delay overflows
\* (token-manager.ts:160-167; settings: "now > actualExpiration -
\* autoTokenRenewalBuffer will trigger an auto renewal").
RenewalNotEarly ==
    \A r \in requests :
        Fits(r.timeout.token.expiresIn) => r.sentAt >= r.timeout.token.expiresAt - RenewalBuffer

\* No other client signs in to c's slot.
SoleOwner(c) == \A d \in Clients \ {c} : TenantOf[d] # TenantOf[c]

\* The token that is going to be renewed is the token the cache serves, unless
\* the cache was cleared: neither a late answer nor a second sign-in leaves the
\* timer on a token other than the cached one (token-manager.ts:134-168).
TimerFollowsCache ==
    RenewalBuffer > 0 =>
      \A c \in Clients :
        SoleOwner(c) /\ timer[c] # NoTimer
            => store[TenantOf[c]] \in {timer[c].token, NoToken}

\* The instance still has a renewal coming or in flight.
Renewing(c) == timer[c] # NoTimer \/ \E r \in requests : r.client = c

\* Once a client renews its tokens it goes on doing so, through sign-ins, clears
\* and answers in any order, until a renewal fails or the page is left
\* (token-manager.ts:155-167, 214-227).
RenewalGoesOn ==
    [][\A c \in Clients :
         Renewing(c) /\ ~Renewing(c)'
            => Reload \/ \E r \in requests : RefreshFails(r)]_tmVars

\* The cache of c's tenant is empty, or a renewal of its token is coming or in
\* flight.
Covered(c) ==
    LET cached == store[TenantOf[c]]
    IN  \/ cached = NoToken
        \/ timer[c] # NoTimer /\ timer[c].token = cached
        \/ \E r \in requests : r.client = c /\ r.timeout.token = cached

\* Nor is it a renewal of some older token that goes on: the one the cache serves
\* is being renewed, also when it came while the renewal of another was in flight
\* and however the answers overtake each other, until a renewal fails or the page
\* is left (token-manager.ts:134-168, 199-227).
CachedTokenIsRenewed ==
    [][\A c \in Clients :
         RenewalBuffer > 0 /\ SoleOwner(c) /\ Covered(c) /\ ~Covered(c)'
            => Reload \/ \E r \in requests : RefreshFails(r)]_tmVars

\* What the documentation of clearAccessToken promises: "Explicitly clears the
\* access token from storage" (splunk-auth-client.ts:185), so only a new
\* sign-in fills the storage again.
ClearedUntilSignIn ==
    [][store = EmptyStore /\ store' # EmptyStore
         => \E c \in Clients : ClientSets(c)]_tmVars
=============================================================================
