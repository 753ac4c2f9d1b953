# Formal model of splunk-cloud-auth-js

TLA+ specifications of the three packages of this repository
(`cloud-auth-client` for browsers, `cloud-auth-node` for Node, and their shared
`cloud-auth-common`), TLC configurations that check them on small instances and
TLAPS proofs for all values of the constants.

    tlc -config TMRenewal.cfg MCTokenManager      # one of the runs below
    tlapm TokenManagerProofs.tla                  # one of the proof modules

Paths below are relative to `src/packages`; C = `cloud-auth-client/src`,
N = `cloud-auth-node/src`, M = `cloud-auth-common/src`.

## 1. Inventory

| component | state it keeps | operations | interacts with |
|---|---|---|---|
| token manager (C/token/token-manager.ts) | tokens in session storage, a global slot and one per tenant; one `setTimeout` handle per instance; renewal requests awaited | `set`, `get`, `clear`, `refreshToken` | storage shared by all instances of a page; auth manager or auth proxy for renewals |
| `SplunkAuthClient` (C/splunk-auth-client.ts) | memoized promise of the exchange, `hasRequestedToken`, `redirectInProgress`, path to restore | `getAccessTokenContext`, `isAuthenticated`, `login`, `logout`, `clearAccessToken`, a call scheduled by the constructor | token manager, auth manager, `window.location` |
| browser PKCE manager (C/auth/pkce-auth-manager.ts, C/validator) | OAuth parameters (verifier) and user state in the redirect storage | `getAccessToken`, `generateAuthUrl`, `generateLogoutUrl`, `generateTosUrl` | auth proxy, location, storage |
| browser implicit manager (C/auth/implicit-auth-manager.ts, C/validator) | OAuth parameters (state, scope) | `getAccessToken`, `generateAuthUrl`, `generateLogoutUrl`; the token comes in the URL fragment | location, storage |
| storage manager and factory (C/storage) | one JSON blob per name in session storage, or in a cookie that all tabs share; the medium is chosen when a page constructs the manager | `get`, `set`, `delete`, `clear`, of one key or of the blob | all of the above |
| browser utilities (C/common/util.ts) | none; the PKCE and the token manager keep the host they built last | clearing the location, random strings, host names of regions and tenants | client, managers |
| auth proxy (M/auth-proxy.ts) | none | one HTTP request per method | auth host |
| Node managers (N/client, N/refresh, N/pkce) | `AuthContext` (M/base-auth-manager.ts) | `getAccessToken` with one or four requests | auth proxy |
| auth host, tab | codes issued and redeemed, terms accepted; location, pending navigation | external | - |
| models, errors, logger, factories, examples, CI | plain data or none | - | - |

What is hard to get right here, and hard to reach with unit tests:

- **Interleaving on one page.** JavaScript runs one callback at a time, yet a
  call of `getAccessTokenContext`, the constructor's own call, the renewal timer,
  answers of the auth host and clicks interleave in any order at every `await`.
  The memoized exchange is shared by all of them, the storage even by clients of
  different tenants.
- **Protocol sequences over page loads.** A login spans two pages, the detour to
  the terms of service three; between them only session storage survives.
  Users reload, give up, go back and start over in the middle, also while the page is
  still redeeming what the login before brought.
- **Read, change, write.** Every change of one key of the storage rewrites the
  whole blob, may throw half way because the storage is full, and is not atomic for
  tabs that share the cookie.
- **Names built from names.** With several regions the auth host is rebuilt from
  the last one, in three places that know different tenants and regions.
- **Two clocks.** The auth host counts a token's life from its minting, the
  client from the arrival of the answer; the clock skew, the renewal buffer, the
  lateness of timers and the time answers take all eat into it. `setTimeout`
  keeps 32 bits of its delay.
- **Node**: calls that overlap each run the whole request sequence and overwrite
  one context.

PROJECT.json lists each hazard at its line with the properties that cover it, or
the reason none does.

## 2. Modules

| module | models | composed from |
|---|---|---|
| `TokenManager` | the token manager: any number of instances (clients) on one page, their tenants, one storage | |
| `MCTokenManager` | values of constants for TLC | `TokenManager` |
| `TokenManagerProofs` | theorems about `TokenManager` | `TokenManager` |
| `LoginSession` | abstract: what signing in is to the user of one tab | |
| `SplunkAuthClient` | one client on one tab: client, its PKCE or implicit manager, tab, auth host | extends `TokenManager` and uses its actions; implements `TokenManager` and `LoginSession` |
| `MCSplunkAuthClient` | values of constants for TLC | `SplunkAuthClient` |
| `SplunkAuthClientProofs` | theorems about `SplunkAuthClient` | `SplunkAuthClient`, `TokenManagerProofs` |
| `NodeAuthManager` | the three Node managers with concurrent callers | |
| `MCNodeAuthManager` | values of constants for TLC | `NodeAuthManager` |
| `NodeAuthManagerProofs` | theorems about `NodeAuthManager` | `NodeAuthManager` |
| `KeyedStore` | abstract: a map changed by whole calls of its owner | |
| `StorageManager` | storage manager and factory in several tabs | implements `KeyedStore` |
| `MCStorageManager` | values of constants for TLC | `StorageManager` |
| `StorageManagerProofs` | theorems about `StorageManager` | `StorageManager` |
| `AuthHost` | the auth hosts the PKCE manager and the token manager build | |
| `MCAuthHost` | values of constants for TLC | `AuthHost` |
| `AuthHostProofs` | theorems about `AuthHost` | `AuthHost` |

Definitions introduced by a comment "Faulty variant" are plausible mistakes in the
definition that follows them. No behaviour of the model uses them; each breaks one
property when put in place of its neighbour, which shows that the property is
sensitive to that piece of code.

### TokenManager

`store` is the session storage (`store[Global]` the global slot, the others one
per tenant), `timer[c]` the handle `_autoRefreshFunction` of instance `c` with the
token its callback closes over, `requests` the renewals `refreshToken` has sent.
`ClientSets` is `set()` as the client calls it, `Clear` is `clear()`, `TimerFires`
is `refreshToken`, which sends the request, `RefreshSucceeds` and `RefreshFails`
are its `then` and `catch` callbacks, `Reload` a page load, and `Tick` lets a unit of time pass
unless a due timer or an answer would be later than `TimerSlack` or
`ResponseTime`. A token carries, besides what the client sees, what the auth host
granted: `scope` (the tenant) and `validUntil` (counted from the minting, `age`
before the answer arrived). The delay is computed with the wrap-around of
`setTimeout` (`Delay`). Because the memoized exchange hands out the same token
again and again, `ClientSets` takes a token received at any earlier time. With PKCE it
came in an answer, so it is no older than `ResponseTime` was then; in the implicit flow
it came with the page, at any time after it was minted.

`TMSpec` is also the abstract specification of how clients use the token manager:
`SplunkAuthClient` is shown to implement it (`UsesTokenManager`), so whatever holds
for any number of clients in `TokenManager` holds under the real client.

### SplunkAuthClient

The model follows the event loop. `StartCall` is `getAccessTokenContext` up to
its return or its `await`, including the synchronous part of the auth manager's
`getAccessToken` (`RequestToken`) when the promise is not memoized yet: there
may be nothing in the location to redeem (`NothingToRedeem`), a code is
presented to the token endpoint (`PresentCode`), or, in the implicit flow, the
token is taken out of the fragment if it answers the stored state (`TakeToken`).
`ExchangeAnswered` is the answer to the exchange and what the manager does with
it; `Resume` is the rest of the call, with its `try`, `catch` and `finally`
blocks (`ResumeWithToken`, `ResumeWithTos`, `ResumeWithLogin`,
`ResumeWithError`, `Finally`). Resumptions are microtasks: timers, answers,
navigations and ticks wait until none is due (`Drained`). `AutoCall` is the call
the constructor schedules. Assigning `location.href` only sets `nav`; scripts
run on until `Leave`. Then the auth host returns the user with a code
(`ReturnWithCode`), a token (`ReturnWithToken`), an error (`ReturnWithError`),
or the user comes back without either (`ReturnClean`). `ReloadPage` may happen
whenever the page is open; the client's state is lost, the session storage is
not. A code is bound to the challenge of one verifier and knows whether it was
issued after accepting the terms; code or token may also answer a login this tab
knows nothing of (`NoVerifier`). With `StorageFails` a write to the session
storage that makes it larger may throw at any time: the token of a finished
exchange or of a renewal is then not stored, `login()` throws with its flag
raised (`LoginThrows`), the path is not remembered, the user state is lost.
Writes that only remove something are taken to succeed. The application may call
`login()`, `logout()` and `clearAccessToken()` at any time, also while its first call
is pending, as the React example does (its login button is there before
`getAccessToken()` has ended when `autoRedirectToLogin` is off): `login()` checks
nothing, so it replaces the stored verifier in the middle of an exchange, whose end
then deletes it (`EndAttempt`). `lastLogin` is a history variable: where the login the
tab was last sent to was called from, its verifier, and whether it `overlaps`, that is,
whether the page then held, or was redeeming, the answer to an earlier one
(`Redeeming`). `presented` is the auth host's. `userState` is
what is stored of the user state a code brings back: whether it names an invite. An
exchange that ends deletes the OAuth parameters and the invite (`EndAttempt`), one
refused for unsigned terms keeps both and `GenerateTosUrl` takes them along. When no
parameters are stored `generateTosUrl` throws instead, out of the catch block: the call
fails and no navigation starts (`ResumeWithTos`, second disjunct).

### LoginSession

What the user of a tab can rely on, without promises, calls or locations: where the
tab is and what it takes along, the attempt (the stored verifier or state), the
invite, and what became of this page's redemption. `SplunkAuthClient` implements it
(`ImplementsLoginSession`) with `place <- nav`, `attempt <- oauthParams`,
`invite <- userState = "invited"` and the state of the memoized promise as
`exchange`: a page redeems at most once and never without an attempt, the terms are
accepted for the attempt and the invite the tab then holds, and an exchange that ends,
unless the terms are missing, leaves neither. A new login may replace the attempt at
any time, also the one being redeemed, and is then used up in its place: that is what
the code does and what `client_overlap` shows.

### NodeAuthManager

A call is a record: the endpoint whose answer it awaits and when it sent the request.
`GetAccessToken` is the code before the first `await`, then one action per
answer; client credentials and refresh have only the last (`TokenAnswered`).
Verifier, code, session and CSRF token are local variables of a call, which no other
call can reach; they are left out. `RequestFails` may strike at any request.

### KeyedStore and StorageManager

`StorageManager` has several tabs, each with the session storage of its own and all
with one cookie. `usable` says which media the factory may find usable in which tab;
`LoadPage` constructs a manager anew, with one of them (`GetStorage`). A call that
writes is split between the item it reads (`BeginCall`) and the item it writes
(`EndCall`), so that calls of other tabs come in between; it may throw instead
(`CallThrows`: the storage is full, or `clear(key)` finds no item) or be cut short by
a page load. `get` only reads: it is the state function `Blob`.

`KeyedStore` is the map a tab's manager promises: calls apply as a whole or not at
all and nothing else changes it. `AloneIsKeyedStore` shows that this is what a tab
gets if it has its blob for itself (`Alone`): it always gets session storage, or it
always gets the cookie and no other tab ever does. For all other tabs the map is not
kept, as the model shows when `Alone` is dropped: the medium changes between page
loads, and tabs that share the cookie overwrite each other's keys. `delete(key)` writes
nothing when there is no item (`WritesNothing`), `clear(key)` throws then (`Misses`).

### AuthHost

Host names are sequences of labels: a tenant's or a region's prefixes and the first
label of the configured domain. `TenantBasedAuthHost` and `RegionBasedAuthHost` are
the two functions of util.ts; `StartsWith` says which names begin with a tenant's name
or with `region-`, which is all `startsWith` can see. `pkce` is the PKCE manager (tenant, region, host of
its proxy), `renewal` the host of the token manager's proxy. `GetAccessToken` is the
part of the exchange that replaces tenant and region by the user's and rebuilds the
host, `RefreshToken` a renewal, `GoTo` and `GoToTos` the URLs of login, logout and
terms. `request` is the last host asked.

## 3. Properties and runs

Times are in abstract units. Deadlock is checked in every run: also when the clock
has reached `MaxTime` some operation is always possible.

| run | configuration | shows |
|---|---|---|
| `tm_renewal` | two clients, two tenants, buffer 3, lifetimes 3 and 4, answers late by 1 | `TenantIsolation`, `RenewalNotEarly`, `TimerFollowsCache`, `RenewedInTime` with the smallest buffer that is large enough, `RenewalGoesOn`; `CachedTokenIsRenewed` with two renewals of one client in flight |
| `client_login` | two concurrent calls, logins and logouts at any time, two routes, three codes, clock skew 1 | `VerifierMatchesChallenge`, `CodePresentedOnce`, `PathRestoredAfterLogin`, `SignInAnswersLogin`, `NoLoginDuringExchange`, `FlagMeansRedirect`, `NoNeedlessLogin`; refinement `ImplementsLoginSession` |
| `client_implicit` | the implicit flow with renewal on, without `autoRedirectToLogin`, two concurrent calls | `SignInAnswersLogin` (a token of another login is refused); refinements `ImplementsLoginSession` and `UsesTokenManager` |
| `client_renewal` | the client with renewal on and a storage that may be full | refinement `UsesTokenManager`; liveness `CallsSettle`, also when writes or `generateTosUrl` throw |
| `node_pkce` | two PKCE calls, lifetimes 3 and 4, answers as slow as the buffer | `ServedTokensLast` at its boundary, whichever call's answer came last; liveness `CallsReturn` |
| `auth_hosts` | two tenants, of which one's name begins the other's and the domain's, `system`, two regions, all settings | `AtMostOnePrefix`, `OneHostPerSession` |
| `storage` | two tabs, two keys, three combinations of media | refinement `AloneIsKeyedStore` |

Runs that show where the code does not do what its documentation says; TLC finds a
behaviour that violates the quoted sentence:

| run | sentence | what happens |
|---|---|---|
| `tm_cleared` | splunk-auth-client.ts:185 "Explicitly clears the access token from storage." | a timer or a renewal in flight outlives `clear()` and stores a token again |
| `client_expired` | splunk-auth-client.ts:131-132, an expired token is replaced by a new one | the memoized exchange resolves to the first token for the life of the client |
| `client_no_tenant` | splunk-auth-client.ts:130 "If a token has been cached ... returns the cached AccessToken." | a client constructed without a tenant looks in the global slot, its token is in the tenant's |
| `client_logout` | splunk-auth-client.ts:225 "Clear any tokens saved to sessionStorage." | a call resumed between `logout()` and the navigation stores the token again |
| `client_overlap` | splunk-auth-client.ts:209-212 "after they log in, they will be redirected back ... and any tokens returned will be parsed" | `login()` called while the page redeems an earlier login's code stores a new verifier; the exchange then ends and deletes it (pkce-auth-manager.ts:236, 246), and the tab leaves for a login whose answer cannot be redeemed |

More divergences are visible by reading, in the module named, and have no run:

- after a reload, or a failed renewal, no timer is armed for the cached token, while
  splunk-auth-client-settings.ts:164-165 says that the buffer "will trigger an auto
  renewal" (token-manager.ts:165, 224; `Reload` and `RefreshFails` of `TokenManager`
  are the only steps that end renewals, which is what `RenewalGoesOn` shows);
- splunk-auth-client-settings.ts:134 says "The user will also be redirected to login
  if the getAccessToken call fails": only `token_not_found` redirects, a failed
  exchange throws, and is memoized (`Unhandled`, `ResumeWithError`);
- `maxClockSkew` is added to the expiry (splunk-auth-client.ts:199; `IsAuthenticated`)
  where splunk-auth-client-settings.ts:151-152 and line 170 of the package's README say
  that a token counts as expired from `actualExpiration - maxClockSkew` on.
  `NoNeedlessLogin` is stated for tokens that have more than the skew left, so it holds
  of the code and would hold of the documented comparison as well; what happens to a
  token after that is not in it;
- a failed exchange is memoized like any other, so a page never recovers from it
  (splunk-auth-client.ts:266), while lines 136-137 promise another attempt;
- the buffer is counted from when `set()` runs (token-manager.ts:162) and the expiry of
  an implicit token from when the page parses it (implicit-auth-manager.ts:156), neither
  from when the host minted the token: a memoized token set again late, or one of a page
  opened late, is renewed after its expiry at the host, against
  splunk-auth-client-settings.ts:164-165 (`RenewedInTime` excludes them through
  `SetOnReceipt` and `OpenedPromptly`);
- a delay beyond 2^31 ms makes a renewal fire at once (token-manager.ts:162;
  `RenewalNotEarly` excludes it through `Fits`);
- a renewal builds its host with the region of the constructor and not of the user
  (token-manager.ts:204-205), so tokens of the tenant 'system', or of no tenant, are
  renewed elsewhere than they were granted unless the constructor was given that region:
  `OneHostPerSession` needs `RenewalKnowsHome`;
- a host whose name merely starts with the tenant's name is never made the tenant's
  (util.ts:107): `OneHostPerSession` needs `HostsDiffer`;
- a Node PKCE call that was overtaken still sends its remaining requests
  (pkce-auth-manager.ts:140, 159).

### Bounds

`MaxTime` stops the clock, `MaxInFlight` limits renewals in flight, `MaxCodes` the
codes the auth host issues; all appear as guards in the modules. They are large
enough for the interesting cases. In `tm_renewal` a token of either lifetime can be
received as late as an answer may be, renewed with the latest answer and renewed again,
a second one can come while the first is being renewed, and both clients' renewals can
be in flight together. Late timers, delays that overflow 32 bits and implicit tokens of
pages opened late are not in that run; `NoGap` and `NotEarly` are proved with them. In
`client_renewal` the clock covers a sign-in, its renewal and the expiry of a token. In
`client_login` and `client_implicit` three codes (tokens) allow a login, the detour to
the terms and a login after that. `Login` needs a verifier that nothing refers to any
more: in `client_login` (four verifiers) and `client_implicit` (three) there always is
one, in `client_renewal` and `client_overlap` (three) no more logins come once all are in
use, which in `client_renewal` still lets every call settle. In
`client_implicit` a token of lifetime 2 is renewed, and expires, within the time of the
run. In `node_pkce` the clock
covers a sequence of four answers and the expiry of the token, or two sequences of
faster ones;
the managers with one request run its last part only, and the theorems of
`NodeAuthManagerProofs` hold for all three.
Verifiers are interchangeable, which is why symmetry is used for them (only in runs
without liveness properties). The states of `AuthHost` are finite without a
bound, because the property holds; two tenants and two regions let every two names
differ, coincide or overlap. In `storage` two tabs suffice because a tab only tells its own calls
from those of others; the combinations are a tab alone on session storage beside one
that changes its medium, two tabs on cookies, and one on each.

### Fairness

The safety properties assume none. `CallsSettle` assumes that the browser runs a
microtask that stays due (`WF` of `Resume`) and that the request of the exchange is
answered or fails (`ExchangeAnswered`): the code sets no timeout on `fetch`, so the
latter is an assumption about browser and host and not something the library ensures.
That a navigation is carried out need not be assumed, as the proof shows: until it is,
scripts run on. `CallsReturn` assumes the same of the Node
managers' requests. Nothing is assumed of the user.

## 4. Proofs

All theorems hold for every value of the constants under the named assumptions of
the modules (`SettingsAssumption`, `TimesAssumption`, `TenantsAssumption`,
`GrantTypeAssumption`, `NothingAssumption`, `NodeAssumption`,
`NoTokenAssumption`, `StorageAssumption`, `NamesAssumption`, `ClientAssumption`), which TLC evaluates in
the module's runs.

**TokenManagerProofs.** `TypeCorrect` is inductive on its own. `Invariant` adds
`TMInv`: a cached token's scope is its slot (`CacheInv`); a timeout's token was
granted to the instance's tenant, was received before the timeout was armed and the
timeout is not overdue by more than the slack (`TimerInv`); the same of requests,
which in addition are not older than the response time (`RequestInv`). None of the
promised properties is inductive alone: they say nothing of the token a timeout
holds, which is the token the next renewal names its tenant by. From it follow
`Isolation`, `NoGap` (`RenewedInTime`: arithmetic on the slack and two response
times, with `DelayFacts` for the 32-bit conversion) and `NotEarly`. What bounds the age
of a token is an answer's `ResponseTime`, for renewals and for PKCE; an implicit token
has no such bound, which is where `OpenedPromptly` is needed. `FollowsCache`
has an induction of its own, since it relates a timer to a slot. `GoesOn` and
`StaysCovered` (`CachedTokenIsRenewed`) look at one step at a time; the latter rests on
`SetTokenCovers`: whatever sets a token also arms the timer for it, and no other
instance writes that slot.

**NodeAuthManagerProofs.** `NodeInv` joins the types, the age of each request and
how late the computed expiry can be; `ServedLast` follows from
it. `Returns` is liveness: an answer
takes a call to its next request (`AnswerMovesOn`), nothing else disturbs it
(`AwaitsUntilAnswered`), and four such steps lead to its return (`CallReturns`).

**StorageManagerProofs.** `Implements` proves the refinement of `KeyedStore`, for any
number of tabs, keys and values. Its invariant `StoreInv` adds to the types that a tab
that is alone finds, when its call writes, the item the call has read (`ReadInv`): this
is what makes a read and a later write one step of the map. `OthersKept` says that the
steps of other tabs do not reach the blob, and `OwnStep` maps each step of the tab
itself; `NewItemApplies` is the lemma that what a call writes over an item is the map
with the call applied, whether there was an item or not.

**AuthHostProofs.** `HostInv` says where each host comes from: the PKCE manager's is
rebuilt once from the configured one with the tenant and region it now has, that of
the renewals is the configured one or rebuilt from it. That this survives any
number of renewals is `RebuiltTwice`: to rebuild a rebuilt host for the same tenant and region
changes nothing. `NoSecondPrefix` and `OneHost` follow. `OneHost` is not
inductive alone, since it says nothing of the host the next renewal starts from.

**SplunkAuthClientProofs.** `FlagRaised` needs the types only, and
`NoLoginMeanwhile` not even those. For the
other safety properties `LoginInv` says where a login stands. `AnswerInv`: every answer
in a location the tab holds, its own or the one to restore, was issued, and in the
client's flow. `StoredInv`: the stored verifier is the last login's; a code in the
location belongs to it, or to another tab, or the last `login()` overlapped with it, and
one that the stored verifier could redeem was not presented yet. `NavInv`: the tab is on
its way with what is stored, or has lost it to an exchange it overlapped with.
`PendingInv`: while the exchange is in flight the stored verifier is the presented one
unless `login()` or `logout()` has been called since. `NoTokenInv`: until a token
is granted there is none to use and no renewal can bring one, which is why a call
cannot skip the exchange the others wait for. From `LoginInvariant` follow
`VerifierMatches`, `PresentedOnce` and `AnswersLogin`. What an overlapping login may
break is named in the properties themselves (`lastLogin.overlaps`), not excluded by an
assumption on the application. `PresentedOnce` assumes a storage that takes what is
written: otherwise an old path, with a code in it, can outlive the login it was stored
for. Three results need more:

- `PathRestored` adds `PathInv`: which path is remembered and when it can be restored or
  is not needed (`CanGoBack`). It holds if the storage takes
  what is written; the path is lost when it does not.
- `NoNeedless` adds `SlotInv`: every token the page holds, in the cache, a timer, a
  request or the memoized promise, is of the client's tenant. It needs a client that
  looks tokens up under the tenant it signs in to, which `client_no_tenant` shows.
- `UsesManager`, the refinement of `TMSpec` in both flows, adds `GrantedInv`: the token of
  the exchange was received on this page, with PKCE from an answer that was not late, and
  a token in a location the tab holds (`HeldStep`) was minted before it is parsed. Through it `KeepsPromises`
  carries the theorems of `TokenManagerProofs` over to the client.

`IsLoginSession` is the refinement of `LoginSession`: `SessionStep` maps each action to
one of its steps or to a stutter, from the types alone.

`Settles` is liveness. `NoOrphans` says that a call that waits has a page and an exchange
to wait for; the exchange ends, the call is then due, and each handler settles it
(`ResumeSettles`), also when a write or `generateTosUrl` throws.

**Fairness in the proofs.** The prover does not know `ENABLED`, so `Returns` and `Settles`
cannot assume `WF` as `FairSpec` does. They assume what `WF` says with the enabling
condition written out as the guard of the action (`RequestEnds`, `ExchangeEnds`,
`MicrotaskRuns`). That the guards are no stronger than `ENABLED` is argued by two lemmas:
a running call's request can always fail and that changes the state (`AnswerPossible`),
and for a call that waits for an exchange that is over some handler applies
(`HandlerApplies`; a login needs a verifier that nothing refers to, so there must be one
besides any four). The last step, from these lemmas to `FairSpec => CallsReturn` and
`FairSpec => CallsSettle`, is not machine-checked; TLC checks `node_pkce` and
`client_renewal` with `FairSpec` itself.

## 5. Not modelled, and the plan

Not modelled: HTTP and URLs beyond the host's name, hashes and random strings (model
values), logging, parameter validation beyond its outcome, the e-mail in the user
state, cookies that are too large for the browser, refresh tokens, and an application
that calls `restorePath` handlers of its own.

All runs of the client but `client_implicit` and `client_overlap` use `autoRedirectToLogin`, which is the default and
the richer setting; without it the constructor makes no call and a missing token
throws (`Unhandled`). `getTenantInfo` only reads.

Order of the work, most important behaviour first; all but item 9 are done:

1. `TokenManager` and its runs; proofs of its safety properties.
2. `SplunkAuthClient` with PKCE, checked, with the refinement of `TMSpec`.
3. `NodeAuthManager`, checked.
4. Proofs about `NodeAuthManager`.
5. The implicit flow, and a storage that rejects writes, in `SplunkAuthClient`.
6. Proofs about `SplunkAuthClient`: its safety properties and both refinements, for
   every constant.
7. `LoginSession`, which `SplunkAuthClient` implements.
8. `StorageManager` over a JSON blob or the cookie that tabs share, implementing
   `KeyedStore`.
9. Several clients on one page in the composed model (`clear` wipes the tokens of
   all), and refresh tokens: rotation and an answer without one.
10. `AuthHost`: rebuilding on every renewal must not pile up prefixes.
