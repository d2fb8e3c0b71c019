CONSTANTS
    m1 = m1
    m2 = m2
    Keys = {1, 2}
    Models = {m1, m2}
    MaxCooldown = 1
    MaxExponent = 1
    MaxAdminWrites = 1
    Requests = {r1}
    Bindings <- ThreeBindings
    LoadBalance = TRUE
    MaxBindings = 2
SPECIFICATION FairSpec
INVARIANTS TypeOK FailoverComplete
PROPERTIES RequestsEnd
