SPECIFICATION FairSpec
CONSTANTS
    m1 = m1
    m2 = m2
    w1 = w1
    SmallModels = {m1, m2}
    Workers = {w1}
    Configs <- MCWindows
    Usages = {0, 2}
    MaxAnswers = 2
    MaxAdminWrites = 0
    MaxRestarts = 1
CHECK_DEADLOCK FALSE
PROPERTY QuotaComesBack
