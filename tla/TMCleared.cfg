SPECIFICATION TMSpec
CONSTANTS
    c1 = c1
    c2 = c2
    tA = tA
    tB = tB
    Global = Global
    NoToken = NoToken
    NoTimer = NoTimer
    Clients = {c1}
    Tenants = {tA}
    TenantOf <- AllGlobal
    GrantType = "pkce"
    RenewalBuffer = 2
    Lifetimes = {4}
    HalfRange = 8
    TimerSlack = 0
    ResponseTime = 1
    MaxTime = 8
    MaxInFlight = 2
PROPERTY
    ClearedUntilSignIn
