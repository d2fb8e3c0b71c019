CONSTANTS
    Users = {u1}
    Tokens = {1}
    Requests = {r1, r2}
    Estimates = {2}
    Costs = {2}
    Budgets = {4}
    MaxAdminWrites = 0
SPECIFICATION Spec
INVARIANTS ExhaustedMeansSpent
CHECK_DEADLOCK FALSE
