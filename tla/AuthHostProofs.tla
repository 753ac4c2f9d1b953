--------------------------- MODULE AuthHostProofs ---------------------------
(***************************************************************************)
(* Theorems about AuthHost, for any tenants and regions and any overlap of *)
(* their names.                                                            *)
(***************************************************************************)
EXTENDS AuthHost, Integers, SequenceTheorems, TLAPS

\* The hosts an application may configure.
ConfiguredHosts ==
    {<<DomainLabel>>} \cup {<<RegionLabel(r), DomainLabel>> : r \in Regions}

\* A tenant and a region, or the lack of them.
SomeTenant == TenantNames \cup {NoTenant}
SomeRegion == Regions \cup {NoRegion}

-----------------------------------------------------------------------------
(***************************************************************************)
(* The functions on host names.                                            *)
(***************************************************************************)

\* A prefix in front of the domain.
LEMMA Prefixed ==
    ASSUME NEW p
    PROVE  <<p>> \o <<DomainLabel>> = <<p, DomainLabel>>
  <1> DEFINE S == {p, DomainLabel}
  <1>1. <<p>> \in Seq(S) /\ <<DomainLabel>> \in Seq(S) /\ <<p, DomainLabel>> \in Seq(S)
    OBVIOUS
  <1>2. <<p>> \o <<DomainLabel>> \in Seq(S)
    BY <1>1
  <1>3. Len(<<p>> \o <<DomainLabel>>) = 2 /\ Len(<<p, DomainLabel>>) = 2
    BY <1>1
  <1>4. (<<p>> \o <<DomainLabel>>)[1] = p /\ (<<p>> \o <<DomainLabel>>)[2] = DomainLabel
    BY <1>1
  <1>5. \A i \in 1 .. 2 : (<<p>> \o <<DomainLabel>>)[i] = <<p, DomainLabel>>[i]
    BY <1>4
  <1> QED
    BY <1>1, <1>2, <1>3, <1>5, SeqEqual

\* The hosts that exist are host names.
LEMMA HostsAreNames == Hosts \subseteq HostNames
  <1>1. <<DomainLabel>> \in Seq(Labels)
    BY DEF Labels
  <1>2. ASSUME NEW p \in Prefixes
        PROVE  <<p, DomainLabel>> \in Seq(Labels)
    <2>1. p \in Labels /\ DomainLabel \in Labels
      BY DEF Labels
    <2> QED
      BY <2>1
  <1> QED
    BY <1>1, <1>2 DEF Hosts, HostNames

\* A configured host exists, and its first label is the domain's or a region's.
LEMMA ConfiguredHost ==
    ASSUME NEW host \in ConfiguredHosts
    PROVE  /\ host \in Hosts
           /\ host = <<DomainLabel>> \/ NamesRegion(host)
  BY DEF ConfiguredHosts, Hosts, Prefixes, NamesRegion, RegionLabel, DomainLabel

\* What becomes of a configured host: it stays, or the domain gets one prefix.
LEMMA TenantBasedCases ==
    ASSUME NEW host \in ConfiguredHosts, NEW tenant \in SomeTenant, NEW region \in SomeRegion
    PROVE  LET built == TenantBasedAuthHost(host, tenant, region)
           IN  \/ built = host
               \/ Regional(tenant) /\ region \in Regions /\ built = <<RegionLabel(region), DomainLabel>>
               \/ ~Regional(tenant) /\ built = <<TenantLabel(tenant), DomainLabel>>
  <1> SUFFICES ASSUME TenantBasedAuthHost(host, tenant, region) # host
               PROVE  \/ /\ Regional(tenant) /\ region \in Regions
                         /\ TenantBasedAuthHost(host, tenant, region) = <<RegionLabel(region), DomainLabel>>
                      \/ /\ ~Regional(tenant)
                         /\ TenantBasedAuthHost(host, tenant, region) = <<TenantLabel(tenant), DomainLabel>>
    OBVIOUS
  <1>1. /\ ~NamesRegion(host)
        /\ ~(region = NoRegion /\ Regional(tenant))
        /\ TenantBasedAuthHost(host, tenant, region)
             = <<IF Regional(tenant) THEN RegionLabel(region) ELSE TenantLabel(tenant)>> \o host
    BY DEF TenantBasedAuthHost
  <1>2. host = <<DomainLabel>>
    BY <1>1, ConfiguredHost
  <1>3. CASE Regional(tenant)
    BY <1>1, <1>2, <1>3, Prefixed DEF SomeRegion
  <1>4. CASE ~Regional(tenant)
    BY <1>1, <1>2, <1>4, Prefixed
  <1> QED
    BY <1>3, <1>4

\* The host rebuilt from a configured one exists.
LEMMA RebuiltExists ==
    ASSUME NEW host \in ConfiguredHosts, NEW tenant \in SomeTenant, NEW region \in SomeRegion
    PROVE  Rebuilt(host, tenant, region) \in Hosts
  <1>1. TenantBasedAuthHost(host, tenant, region) \in Hosts
    <2>1. Regional(tenant) \/ tenant \in TenantNames
      BY DEF Regional, SomeTenant
    <2> QED
      BY <2>1, TenantBasedCases, ConfiguredHost DEF Hosts, Prefixes
  <1> QED
    BY <1>1, ConfiguredHost DEF Rebuilt

\* Rebuilding it once more for the same tenant and region changes nothing: the
\* prefix is recognised.
LEMMA RebuiltTwice ==
    ASSUME NEW host \in ConfiguredHosts, NEW tenant \in SomeTenant, NEW region \in SomeRegion
    PROVE  LET built == Rebuilt(host, tenant, region)
           IN  Rebuilt(built, tenant, region) = built
  <1> DEFINE built == TenantBasedAuthHost(host, tenant, region)
  <1>1. TenantBasedAuthHost(built, tenant, region) = built
    <2>1. CASE built = host
      BY <2>1
    <2>2. CASE Regional(tenant) /\ region \in Regions /\ built = <<RegionLabel(region), DomainLabel>>
      <3>1. NamesRegion(built)
        BY <2>2 DEF NamesRegion, RegionLabel
      <3> QED
        BY <3>1 DEF TenantBasedAuthHost
    <2>3. CASE ~Regional(tenant) /\ built = <<TenantLabel(tenant), DomainLabel>>
      <3>1. tenant \in TenantNames /\ <<tenant, tenant>> \in StartsWith
        BY <2>3, NamesAssumption DEF Regional, SomeTenant
      <3>2. Head(built) = TenantLabel(tenant)
        BY <2>3
      <3>3. NamesTenant(built, tenant)
        BY <2>3, <3>1, <3>2 DEF NamesTenant, TenantLabel, Regional
      <3> QED
        BY <3>3 DEF TenantBasedAuthHost
    <2> QED
      BY <2>1, <2>2, <2>3, TenantBasedCases
  <1> QED
    BY <1>1 DEF Rebuilt

\* The host of the terms exists.
LEMMA RegionBasedExists ==
    ASSUME NEW host \in ConfiguredHosts, NEW region \in SomeRegion
    PROVE  RegionBasedAuthHost(host, region) \in Hosts
  <1>1. CASE RegionBasedAuthHost(host, region) = host
    BY <1>1, ConfiguredHost
  <1>2. CASE RegionBasedAuthHost(host, region) # host
    <2>1. /\ ~NamesRegion(host) /\ region # NoRegion
          /\ RegionBasedAuthHost(host, region) = <<RegionLabel(region)>> \o host
      BY <1>2 DEF RegionBasedAuthHost
    <2>2. RegionBasedAuthHost(host, region) = <<RegionLabel(region), DomainLabel>>
      BY <2>1, ConfiguredHost, Prefixed
    <2> QED
      BY <2>1, <2>2 DEF Hosts, Prefixes, SomeRegion
  <1> QED
    BY <1>1, <1>2
-----------------------------------------------------------------------------
(***************************************************************************)
(* The invariant: where each of the two hosts comes from.                  *)
(***************************************************************************)

\* The PKCE manager's tenant and region are the constructor's until an exchange
\* replaces them by the user's.
UserKnown ==
    /\ pkce.tenant = IF settings.enableTenantScopedTokens THEN user.tenant ELSE NoTenant
    /\ pkce.region = user.region
    /\ pkce.host = Rebuilt(settings.authHost, pkce.tenant, pkce.region)

UserUnknown ==
    /\ pkce = [tenant |-> settings.tenant, region |-> settings.region,
               host |-> settings.authHost]
    /\ renewal = settings.authHost
    /\ ~token

\* The host of the renewals is built at most once more.
RenewalInv ==
    renewal \in {settings.authHost,
                 Rebuilt(settings.authHost, pkce.tenant, settings.region)}

\* After an exchange all requests go to the host of its proxy.
RequestInv ==
    /\ user # NoUser
    /\ request.endpoint \in {"token", "authorize", "logout", "refresh"}
    /\ request.endpoint = "refresh" => RenewalKnowsHome
    => request.host = pkce.host

HostInv ==
    /\ settings \in Settings
    /\ user \in UserState \cup {NoUser}
    /\ token \in BOOLEAN
    /\ request \in {Nothing} \cup
         [endpoint: {"token", "refresh", "authorize", "logout", "tos"}, host: Hosts]
    /\ IF user = NoUser THEN UserUnknown ELSE UserKnown
    /\ pkce = [tenant |-> pkce.tenant, region |-> pkce.region, host |-> pkce.host]
    /\ RenewalInv
    /\ RequestInv

\* The user state has a tenant, no user has none.
LEMMA NoUserIsNone == NoUser \notin UserState
  BY NamesAssumption DEF NoUser, UserState

\* The parameters of the functions above.
LEMMA Parameters ==
    ASSUME HostInv
    PROVE  /\ settings.authHost \in ConfiguredHosts
           /\ settings.tenant \in SomeTenant /\ settings.region \in SomeRegion
           /\ pkce.tenant \in SomeTenant /\ pkce.region \in SomeRegion
  <1>1. settings.authHost \in ConfiguredHosts /\ settings.tenant \in SomeTenant
          /\ settings.region \in SomeRegion
    BY DEF HostInv, Settings, ConfiguredHosts, SomeTenant, SomeRegion
  <1>2. CASE user = NoUser
    BY <1>1, <1>2 DEF HostInv, UserUnknown
  <1>3. CASE user # NoUser
    <2>1. user.tenant \in TenantNames /\ user.region \in Regions
      BY <1>3 DEF HostInv, UserState
    <2>2. UserKnown
      BY <1>3 DEF HostInv
    <2> QED
      BY <1>1, <2>1, <2>2 DEF UserKnown, SomeTenant, SomeRegion
  <1> QED
    BY <1>1, <1>2, <1>3

\* The hosts of both managers exist.
LEMMA ManagersHosts ==
    ASSUME HostInv
    PROVE  pkce.host \in Hosts /\ renewal \in Hosts
  <1>1. settings.authHost \in Hosts
    BY Parameters, ConfiguredHost
  <1>2. renewal \in Hosts
    BY <1>1, Parameters, RebuiltExists DEF HostInv, RenewalInv
  <1>3. pkce.host \in Hosts
    BY <1>1, Parameters, RebuiltExists DEF HostInv, UserUnknown, UserKnown
  <1> QED
    BY <1>2, <1>3

\* However often it is renewed, a token is renewed at one host.
LEMMA RenewalHost ==
    ASSUME HostInv
    PROVE  Rebuilt(renewal, pkce.tenant, settings.region)
             = Rebuilt(settings.authHost, pkce.tenant, settings.region)
  BY Parameters, RebuiltTwice DEF HostInv, RenewalInv

\* It is the host of the exchange if the renewal knows enough of the user.
LEMMA RenewalAtHome ==
    ASSUME HostInv, user # NoUser, RenewalKnowsHome
    PROVE  Rebuilt(settings.authHost, pkce.tenant, settings.region) = pkce.host
  <1>1. CASE settings.region = user.region
    BY <1>1 DEF HostInv, UserKnown
  <1>2. CASE settings.enableTenantScopedTokens /\ user.tenant # System
    <2>1. ~Regional(pkce.tenant)
      BY <1>2, NamesAssumption DEF HostInv, UserKnown, UserState, Regional
    <2> QED
      BY <2>1 DEF HostInv, UserKnown, Rebuilt, TenantBasedAuthHost
  <1> QED
    BY <1>1, <1>2 DEF RenewalKnowsHome

\* The invariant holds initially.
LEMMA HostInvInit == Init => HostInv
  BY NamesAssumption DEF Init, HostInv, UserUnknown, RenewalInv, RequestInv, NoUser, Nothing

\* Every step preserves it.
LEMMA HostInvStep == HostInv /\ [Next]_vars => HostInv'
  <1> SUFFICES ASSUME HostInv, [Next]_vars
               PROVE  HostInv'
    OBVIOUS
  <1> USE Parameters, ManagersHosts
  <1>1. CASE LoadPage
    BY <1>1 DEF LoadPage, NewManagers, HostInv, UserUnknown, RenewalInv, RequestInv, NoUser, Nothing
  <1>2. ASSUME NEW u \in UserState, GetAccessToken(u)
        PROVE  HostInv'
    <2> DEFINE tenant == IF settings.enableTenantScopedTokens THEN u.tenant ELSE NoTenant
               host == Rebuilt(settings.authHost, tenant, u.region)
    <2>1. /\ user = NoUser /\ pkce.host = settings.authHost /\ renewal = settings.authHost
          /\ settings' = settings /\ renewal' = renewal /\ user' = u /\ token' \in BOOLEAN
          /\ pkce' = [tenant |-> tenant, region |-> u.region, host |-> host]
          /\ request' = [endpoint |-> "token", host |-> host]
      BY <1>2 DEF GetAccessToken, HostInv, UserUnknown, Ask
    <2>2. host \in Hosts
      BY RebuiltExists DEF UserState, SomeTenant, SomeRegion
    <2>3. user' # NoUser
      BY <2>1, NoUserIsNone
    <2>4. UserKnown'
      BY <2>1 DEF UserKnown, Rebuilt, TenantBasedAuthHost
    <2>5. RenewalInv'
      BY <2>1 DEF RenewalInv
    <2>6. RequestInv'
      BY <2>1 DEF RequestInv
    <2> QED
      BY <2>1, <2>2, <2>3, <2>4, <2>5, <2>6 DEF HostInv
  <1>3. CASE RefreshToken
    <2> DEFINE host == Rebuilt(settings.authHost, pkce.tenant, settings.region)
    <2>1. /\ token /\ renewal' = host /\ request' = [endpoint |-> "refresh", host |-> host]
          /\ UNCHANGED <<settings, pkce, user, token>>
      BY <1>3, RenewalHost DEF RefreshToken, Ask
    <2>2. user # NoUser
      BY <2>1 DEF HostInv, UserUnknown
    <2>3. host \in Hosts
      BY RebuiltExists
    <2>4. UserKnown'
      BY <2>1, <2>2 DEF HostInv, UserKnown, Rebuilt, TenantBasedAuthHost
    <2>5. RenewalInv'
      BY <2>1 DEF RenewalInv, Rebuilt, TenantBasedAuthHost
    <2>6. RequestInv'
      BY <2>1, <2>2, RenewalAtHome DEF RequestInv, RenewalKnowsHome
    <2> QED
      BY <2>1, <2>2, <2>3, <2>4, <2>5, <2>6 DEF HostInv
  <1>4. ASSUME NEW endpoint \in {"authorize", "logout"}, GoTo(endpoint)
        PROVE  HostInv'
    <2> DEFINE host == Rebuilt(settings.authHost, pkce.tenant, pkce.region)
    <2>1. request' = [endpoint |-> endpoint, host |-> host]
          /\ UNCHANGED <<settings, pkce, renewal, user, token>>
      BY <1>4 DEF GoTo, Ask
    <2>2. host \in Hosts
      BY RebuiltExists
    <2>3. RequestInv'
      BY <2>1 DEF HostInv, RequestInv, UserKnown
    <2>4. (IF user = NoUser THEN UserUnknown ELSE UserKnown)' /\ RenewalInv'
      BY <2>1 DEF HostInv, UserUnknown, UserKnown, RenewalInv, Rebuilt, TenantBasedAuthHost
    <2> QED
      BY <2>1, <2>2, <2>3, <2>4 DEF HostInv
  <1>5. CASE GoToTos
    <2> DEFINE host == IF settings.enableMultiRegionSupport
                       THEN RegionBasedAuthHost(settings.authHost, pkce.region)
                       ELSE settings.authHost
    <2>1. request' = [endpoint |-> "tos", host |-> host]
          /\ UNCHANGED <<settings, pkce, renewal, user, token>>
      BY <1>5 DEF GoToTos, Ask
    <2>2. host \in Hosts
      BY RegionBasedExists, ConfiguredHost
    <2>3. RequestInv'
      BY <2>1 DEF RequestInv
    <2>4. (IF user = NoUser THEN UserUnknown ELSE UserKnown)' /\ RenewalInv'
      BY <2>1 DEF HostInv, UserUnknown, UserKnown, RenewalInv, Rebuilt, TenantBasedAuthHost
    <2> QED
      BY <2>1, <2>2, <2>3, <2>4 DEF HostInv
  <1>6. CASE UNCHANGED vars
    BY <1>6 DEF vars, HostInv, UserUnknown, UserKnown, RenewalInv, RequestInv,
                RenewalKnowsHome, Rebuilt, TenantBasedAuthHost
  <1> QED
    BY <1>1, <1>2, <1>3, <1>4, <1>5, <1>6 DEF Next

\* The hosts are built as the invariant says in every reachable state.
THEOREM Invariant == Spec => []HostInv
  BY HostInvInit, HostInvStep, PTL DEF Spec

-----------------------------------------------------------------------------
\* Type correctness of the settings, the managers and the requests.
THEOREM TypeCorrect == Spec => []TypeOK
  <1>1. HostInv => TypeOK
    BY Parameters, ManagersHosts, HostsAreNames DEF HostInv, TypeOK, SomeTenant, SomeRegion
  <1> QED
    BY <1>1, Invariant, PTL

\* No host ever gets a second prefix, however many exchanges, renewals and page
\* loads there are (token-manager.ts:203-206, pkce-auth-manager.ts:208-212).
THEOREM NoSecondPrefix == Spec => []AtMostOnePrefix
  <1>1. HostInv => AtMostOnePrefix
    BY ManagersHosts DEF HostInv, AtMostOnePrefix
  <1> QED
    BY <1>1, Invariant, PTL

\* All requests of a page after the exchange go to one host, the user's home if
\* hosts can be told apart (pkce-auth-manager.ts:205-212, 274-279, 322-325,
\* token-manager.ts:203-206).
THEOREM OneHost == Spec => []OneHostPerSession
  <1>1. ASSUME HostInv, user # NoUser, HostsDiffer
        PROVE  pkce.host = HomeOf(user)
    <2>1. ~NamesRegion(<<DomainLabel>>) /\ user.region # NoRegion /\ user.tenant # NoTenant
      BY <1>1, NamesAssumption DEF HostInv, UserState, HostsDiffer
    <2>2. pkce.host = <<IF Regional(pkce.tenant) THEN RegionLabel(user.region)
                        ELSE TenantLabel(pkce.tenant), DomainLabel>>
      BY <1>1, <2>1, Prefixed DEF HostInv, UserKnown, HostsDiffer, Rebuilt, TenantBasedAuthHost
    <2>3. Regional(pkce.tenant)
            <=> ~(settings.enableTenantScopedTokens /\ user.tenant # System)
      BY <1>1, <2>1 DEF HostInv, UserKnown, Regional
    <2> QED
      BY <1>1, <2>2, <2>3 DEF HomeOf, HostInv, UserKnown
  <1>2. HostInv => OneHostPerSession
    BY <1>1 DEF HostInv, RequestInv, OneHostPerSession
  <1> QED
    BY <1>2, Invariant, PTL
=============================================================================
