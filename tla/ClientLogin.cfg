SPECIFICATION Spec
CONSTANTS
    Self = Self
    Clients <- SelfOnly
    tA = tA
    Tenants = {tA}
    Global = Global
    NoToken = NoToken
    NoTimer = NoTimer
    GrantType = "pkce"
    HalfRange = 8
    AutoCaller = auto
    Home = home
    NoVerifier = NoVerifier
    TenantOf <- TenantScoped
    ClientTenant = tA
    Callers = {auto, app}
    Routes = {home, deep}
    Verifiers = {v1, v2, v3, v4}
    AutoRedirect = TRUE
    RestorePath = TRUE
    StorageFails = FALSE
    MaxClockSkew = 1
    RenewalBuffer = 0
    Lifetimes = {2}
    TimerSlack = 0
    ResponseTime = 0
    MaxTime = 4
    MaxInFlight = 1
    MaxCodes = 3
INVARIANTS
    TypeOK
    VerifierMatchesChallenge
    CodePresentedOnce
    PathRestoredAfterLogin
    FlagMeansRedirect
PROPERTIES
    SignInAnswersLogin
    NoLoginDuringExchange
    NoNeedlessLogin
    ImplementsLoginSession
SYMMETRY VerifierSymmetry
