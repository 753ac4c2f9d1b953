SPECIFICATION TMSpec
CONSTANTS
    c1 = c1
    c2 = c2
    tA = tA
    tB = tB
    Global = Global
    NoToken = NoToken
    NoTimer = NoTimer
    Clients = {c1, c2}
    Tenants = {tA, tB}
    TenantOf <- OneTenantEach
    GrantType = "pkce"
    RenewalBuffer = 3
    Lifetimes = {3, 4}
    HalfRange = 3
    TimerSlack = 0
    ResponseTime = 1
    MaxTime = 3
    MaxInFlight = 2
INVARIANTS
    TMTypeOK
    TenantIsolation
    RenewalNotEarly
    TimerFollowsCache
    RenewedInTime
PROPERTIES
    RenewalGoesOn
    CachedTokenIsRenewed
SYMMETRY ClientSymmetry
