------------------------------ MODULE AuthHost ------------------------------
(***************************************************************************)
(* Which auth host a PKCE client asks when it supports several regions:    *)
(* generateTenantBasedAuthHost and generateRegionBasedAuthHost of          *)
(* src/packages/cloud-auth-client/src/common/util.ts, and the hosts that   *)
(* auth/pkce-auth-manager.ts and token/token-manager.ts rebuild with them. *)
(*                                                                         *)
(* Both managers start from settings.authHost and the constructor's tenant *)
(* and region.  The PKCE manager replaces tenant and region by those of the*)
(* user who signs in; each of them keeps the host it built last and builds *)
(* the next one from it.                                                   *)
(***************************************************************************)
EXTENDS Sequences

CONSTANTS
    Tenants,    \* names of tenants other than 'system'
    System,     \* the tenant 'system'
    NoTenant,   \* '' or undefined
    Regions,    \* names of regions
    NoRegion,   \* '' or undefined
    Domain,     \* the first label of the configured host's name
    RegionPrefix, \* 'region-', what the host names of regions start with
    StartsWith  \* pairs of names, of which the first starts with the second

TenantNames == Tenants \cup {System}

\* The labels a host name is extended by, and its own first one.
TenantLabel(tenant) == [kind |-> "tenant", name |-> tenant]
RegionLabel(region) == [kind |-> "region", name |-> region]
DomainLabel == [kind |-> "domain", name |-> Domain]
Prefixes == {TenantLabel(t) : t \in TenantNames} \cup {RegionLabel(r) : r \in Regions}
Labels == Prefixes \cup {DomainLabel}

ASSUME NamesAssumption ==
    /\ System \notin Tenants
    /\ NoTenant \notin TenantNames
    /\ NoRegion \notin Regions
    /\ StartsWith \subseteq (TenantNames \cup {Domain}) \X (TenantNames \cup {RegionPrefix})
    /\ \A t \in TenantNames : <<t, t>> \in StartsWith

\* A host name is the sequence of its labels; the rest of the domain is left out.
HostNames == Seq(Labels)

\* The host names that exist: the domain, with at most one prefix.
Hosts == {<<DomainLabel>>} \cup {<<p, DomainLabel>> : p \in Prefixes}

\* What the application constructs the client with: the configured host may
\* itself be the host of a region.
Settings ==
    [https: BOOLEAN,
     authHost: {<<DomainLabel>>} \cup {<<RegionLabel(r), DomainLabel>> : r \in Regions},
     tenant: TenantNames \cup {NoTenant},
     region: Regions \cup {NoRegion},
     enableTenantScopedTokens: BOOLEAN,
     enableMultiRegionSupport: BOOLEAN]

\* The user state: both parts are required.
UserState == [tenant: TenantNames, region: Regions]

NoUser == [tenant |-> NoTenant, region |-> NoRegion]

Nothing == [endpoint |-> "none"]

VARIABLES
    settings,   \* the client's settings
    pkce,       \* the PKCE manager: its tenant, its region, its proxy's host
    renewal,    \* the token manager: its proxy's host
    user,       \* the user the page's exchange was made for
    token,      \* the page holds a token of that exchange
    request     \* the last request, or the last page navigated to

vars == <<settings, pkce, renewal, user, token, request>>

-----------------------------------------------------------------------------
\* The tenant does not name a host of its own.
Regional(tenant) == tenant \in {NoTenant, System}

\* The host name starts with the tenant's name, be it by accident.
NamesTenant(host, tenant) ==
    /\ tenant # NoTenant
    /\ Head(host).kind # "region"
    /\ <<Head(host).name, tenant>> \in StartsWith

\* The host name starts with 'region-', which a tenant's may do as well.
NamesRegion(host) ==
    \/ Head(host).kind = "region"
    \/ <<Head(host).name, RegionPrefix>> \in StartsWith

\* Faulty variant: a prefix is added whatever the name starts with.
TenantBasedAuthHostUnchecked(host, tenant, region) ==
    IF ~settings.https \/ (region = NoRegion /\ Regional(tenant))
    THEN host
    ELSE <<IF region # NoRegion /\ Regional(tenant)
           THEN RegionLabel(region) ELSE TenantLabel(tenant)>> \o host

\* generateTenantBasedAuthHost.
TenantBasedAuthHost(host, tenant, region) ==
    IF \/ ~settings.https
       \/ region = NoRegion /\ Regional(tenant)
       \/ NamesTenant(host, tenant)
       \/ NamesRegion(host)
    THEN host
    ELSE <<IF Regional(tenant) THEN RegionLabel(region) ELSE TenantLabel(tenant)>> \o host

\* Faulty variant: a missing region is taken for a region.
RegionBasedAuthHostOfAny(host, region) ==
    IF ~settings.https \/ NamesRegion(host)
    THEN host
    ELSE <<RegionLabel(region)>> \o host

\* generateRegionBasedAuthHost.
RegionBasedAuthHost(host, region) ==
    IF ~settings.https \/ region = NoRegion \/ NamesRegion(host)
    THEN host
    ELSE <<RegionLabel(region)>> \o host

\* The host a manager goes on with.
Rebuilt(host, tenant, region) ==
    IF settings.enableMultiRegionSupport
    THEN TenantBasedAuthHost(host, tenant, region)
    ELSE host

Ask(endpoint, host) == request' = [endpoint |-> endpoint, host |-> host]

-----------------------------------------------------------------------------
\* The managers of a client that has just been constructed.
NewManagers ==
    /\ pkce' = [tenant |-> settings.tenant, region |-> settings.region,
                host |-> settings.authHost]
    /\ renewal' = settings.authHost
    /\ user' = NoUser
    /\ token' = FALSE

LoadPage ==
    /\ NewManagers
    /\ request' = Nothing
    /\ UNCHANGED settings

\* getAccessToken for a code that brings back user state u: the exchange runs
\* once on a page, and the page gets a token or not.
GetAccessToken(u) ==
    LET tenant == IF settings.enableTenantScopedTokens THEN u.tenant ELSE NoTenant
        host   == Rebuilt(pkce.host, tenant, u.region)
    IN  /\ user = NoUser
        /\ pkce' = [tenant |-> tenant, region |-> u.region, host |-> host]
        /\ Ask("token", host)
        /\ user' = u
        /\ token' \in BOOLEAN
        /\ UNCHANGED <<settings, renewal>>

\* Faulty variant: the renewal builds its host without the token's tenant.
RefreshTokenForNoTenant ==
    LET host == Rebuilt(renewal, NoTenant, settings.region)
    IN  /\ token
        /\ renewal' = host
        /\ Ask("refresh", host)
        /\ UNCHANGED <<settings, pkce, user, token>>

\* refreshToken: the token's tenant, but the region of the constructor.
RefreshToken ==
    LET host == Rebuilt(renewal, pkce.tenant, settings.region)
    IN  /\ token
        /\ renewal' = host
        /\ Ask("refresh", host)
        /\ UNCHANGED <<settings, pkce, user, token>>

\* generateAuthUrl and generateLogoutUrl start from the configured host.
GoTo(endpoint) ==
    /\ Ask(endpoint, Rebuilt(settings.authHost, pkce.tenant, pkce.region))
    /\ UNCHANGED <<settings, pkce, renewal, user, token>>

\* generateTosUrl: the terms are those of the region.
GoToTos ==
    /\ Ask("tos", IF settings.enableMultiRegionSupport
                  THEN RegionBasedAuthHost(settings.authHost, pkce.region)
                  ELSE settings.authHost)
    /\ UNCHANGED <<settings, pkce, renewal, user, token>>

Init ==
    /\ settings \in Settings
    /\ pkce = [tenant |-> settings.tenant, region |-> settings.region,
               host |-> settings.authHost]
    /\ renewal = settings.authHost
    /\ user = NoUser
    /\ token = FALSE
    /\ request = Nothing

Next ==
    \/ LoadPage
    \/ \E u \in UserState : GetAccessToken(u)
    \/ RefreshToken
    \/ \E endpoint \in {"authorize", "logout"} : GoTo(endpoint)
    \/ GoToTos

Spec == Init /\ [][Next]_vars

-----------------------------------------------------------------------------
\* Type correctness of the settings, the managers and the requests.
TypeOK ==
    /\ settings \in Settings
    /\ pkce \in [tenant: TenantNames \cup {NoTenant}, region: Regions \cup {NoRegion},
                 host: HostNames]
    /\ renewal \in HostNames
    /\ user \in UserState \cup {NoUser}
    /\ token \in BOOLEAN
    /\ request \in {Nothing} \cup
         [endpoint: {"token", "refresh", "authorize", "logout", "tos"}, host: HostNames]

\* Whatever is rebuilt from what, and however often, a host has at most one
\* prefix: renewals do not pile them up (token-manager.ts:203-206,
\* pkce-auth-manager.ts:208-212).
AtMostOnePrefix ==
    /\ pkce.host \in Hosts
    /\ renewal \in Hosts
    /\ request # Nothing => request.host \in Hosts

\* The host of the user's tenant, or of the user's region for 'system' and for
\* tokens without a tenant ("if a tenant is 'system', auth host will be of region
\* based", util.ts:95).
HomeOf(u) ==
    IF settings.enableTenantScopedTokens /\ u.tenant # System
    THEN <<TenantLabel(u.tenant), DomainLabel>>
    ELSE <<RegionLabel(u.region), DomainLabel>>

\* With multi-region support, a host that is not yet a region's and whose name
\* does not happen to start with the tenant's, hosts are told apart.
HostsDiffer ==
    /\ settings.enableMultiRegionSupport /\ settings.https
    /\ settings.authHost = <<DomainLabel>>
    /\ ~NamesRegion(settings.authHost)
    /\ ~NamesTenant(settings.authHost, pkce.tenant)

\* The renewal knows where its token was granted: the constructor was given the
\* user's region, or the tenant is enough.
RenewalKnowsHome ==
    \/ settings.region = user.region
    \/ settings.enableTenantScopedTokens /\ user.tenant # System

\* Once a user has come back, every request of the page, be it an exchange, a
\* renewal, a login or a logout, goes to one host, the user's home if hosts can
\* be told apart, although three places build it from different hosts and
\* regions (pkce-auth-manager.ts:205-212, 274-279, 322-325,
\* token-manager.ts:203-206).
OneHostPerSession ==
    /\ user # NoUser
    /\ request.endpoint \in {"token", "authorize", "logout", "refresh"}
    /\ request.endpoint = "refresh" => RenewalKnowsHome
    => /\ request.host = pkce.host
       /\ HostsDiffer => request.host = HomeOf(user)
=============================================================================
