CONSTANTS
    Keys = {1}
    Models = {m1, m2}
    Workers = {w1, w2}
    MaxCooldown = 5
    MaxExponent = 3
    MaxAdminWrites = 2
SPECIFICATION FairSpec
INVARIANTS DisabledDurable BackoffGrows
PROPERTIES OnePairPerFailure CooldownEnds
