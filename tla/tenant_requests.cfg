SPECIFICATION TenantSpec
CONSTANTS
    None = None
    t1 = t1
    t2 = t2
    o1 = o1
    o2 = o2
    o3 = o3
    i1 = i1
    a = a
    b = b
    Tenants = {t1, t2}
    Owners = {o1, o2, o3}
    Ids = {i1, i2}
    Contents = {a, b}
    OwnerTenant <- TenantOfOwner
    Grants <- ScopesOf
    Requests = {r1, r2}
    Commands <- MixedCommands
    Rewraps = {w1}
    Keys = {2}
    MaxVersion = 3
SYMMETRY Symmetric
INVARIANTS
    SealedForItsTenant
    OnlyLateRewrapsRevert
    AuditAccounts
PROPERTIES
    TenantsApart
