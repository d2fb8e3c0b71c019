CONSTANTS
    m1 = m1
    m2 = m2
    Keys = {1}
    Models = {m1, m2}
    MaxCooldown = 1
    MaxExponent = 1
    MaxAdminWrites = 0
    Requests = {r1, r2}
    Bindings <- OneAndOne
    LoadBalance = FALSE
    MaxBindings = 2
SPECIFICATION Spec
PROPERTIES BillsOnce UsesHealth
