SPECIFICATION Spec
CONSTANTS
    Self = Self
    Clients <- SelfOnly
    tA = tA
    Tenants = {tA}
    Global = Global
    NoToken = NoToken
    NoTimer = NoTimer
    GrantType = "pkce"
    HalfRange = 8
    AutoCaller = auto
    Home = home
    NoVerifier = NoVerifier
    TenantOf <- TenantScoped
    ClientTenant = Global
    Callers = {auto, app}
    Routes = {home}
    Verifiers = {v1, v2, v3}
    AutoRedirect = TRUE
    RestorePath = TRUE
    StorageFails = FALSE
    MaxClockSkew = 0
    RenewalBuffer = 0
    Lifetimes = {3}
    TimerSlack = 0
    ResponseTime = 0
    MaxTime = 3
    MaxInFlight = 1
    MaxCodes = 1
PROPERTY
    NoNeedlessLogin
