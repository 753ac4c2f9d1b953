SPECIFICATION FairSpec
CONSTANTS
    Self = Self
    Clients <- SelfOnly
    tA = tA
    Tenants = {tA}
    Global = Global
    NoToken = NoToken
    NoTimer = NoTimer
    GrantType = "pkce"
    HalfRange = 8
    AutoCaller = auto
    Home = home
    NoVerifier = NoVerifier
    TenantOf <- TenantScoped
    ClientTenant = tA
    Callers = {auto, app}
    Routes = {home}
    Verifiers = {v1, v2, v3}
    AutoRedirect = TRUE
    RestorePath = TRUE
    StorageFails = TRUE
    MaxClockSkew = 0
    RenewalBuffer = 1
    Lifetimes = {2}
    TimerSlack = 0
    ResponseTime = 1
    MaxTime = 2
    MaxInFlight = 1
    MaxCodes = 1
PROPERTIES
    UsesTokenManager
    CallsSettle
