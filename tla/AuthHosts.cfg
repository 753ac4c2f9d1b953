SPECIFICATION Spec
CONSTANTS
    t1 = t1
    t2 = t2
    Tenants <- TwoTenants
    System = System
    NoTenant = NoTenant
    Regions = {r1, r2}
    NoRegion = NoRegion
    Domain = Domain
    RegionPrefix = RegionPrefix
    StartsWith <- Overlaps
INVARIANTS
    TypeOK
    AtMostOnePrefix
    OneHostPerSession
