SPECIFICATION Spec
CONSTANTS
    Self = Self
    Clients <- SelfOnly
    tA = tA
    Tenants = {tA}
    Global = Global
    NoToken = NoToken
    NoTimer = NoTimer
    GrantType = "implicit"
    HalfRange = 8
    AutoCaller = auto
    Home = home
    NoVerifier = NoVerifier
    TenantOf <- NotScoped
    ClientTenant = Global
    Callers = {auto, app1, app2}
    Routes = {home, deep}
    Verifiers = {v1, v2, v3}
    AutoRedirect = FALSE
    RestorePath = TRUE
    StorageFails = FALSE
    MaxClockSkew = 1
    RenewalBuffer = 1
    Lifetimes = {2}
    TimerSlack = 0
    ResponseTime = 0
    MaxTime = 4
    MaxInFlight = 1
    MaxCodes = 3
PROPERTIES
    SignInAnswersLogin
    ImplementsLoginSession
    UsesTokenManager
SYMMETRY VerifierSymmetry
