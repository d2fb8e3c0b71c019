CONSTANTS
    Users = {u1}
    Tokens = {1, 2}
    Requests = {r1, r2}
    Estimates = {0, 2}
    Costs = {0, 3}
    Budgets = {3}
    MaxAdminWrites = 2
SPECIFICATION Spec
INVARIANTS   SpentTokenIsShut
PROPERTIES AdmittedWithinBalance BudgetConserved
SYMMETRY Symmetry
CHECK_DEADLOCK FALSE
