SPECIFICATION Spec
CONSTANTS
    m1 = m1
    w1 = w1
    w2 = w2
    SmallModels = {m1}
    Workers = {w1, w2}
    Configs <- MCConfigs
    Usages = {0, 2}
    MaxAnswers = 2
    MaxAdminWrites = 1
    MaxRestarts = 1
CHECK_DEADLOCK FALSE
SYMMETRY MCSymmetry
INVARIANTS TypeOK  
PROPERTY TotalIsForgivenByAdmin
