CONSTANTS
    Tables = 17
    Version = 1
    Older = 0
    Rows = 4
    MaxCrashes = 4
    MaxRows = 2
    Names = {"gpt", "claude"}
    ApiKeys = {"sk1", "sk2"}
    Raws = {"raw"}
    Priorities = {10}
    Prices = {1}
    Quotas = {1}
    MaxWeight = 2
    MaxInt32 = 1023
    MaxEdits = 7
    Handlers = {h1, h2}
    MaxUsers = 2
    UserNames = {"admin", "ann"}
    Passwords = {"old", "new"}
    AdminName = "admin"
    AdminPassword = "old"
    NoPassword = "none"
    MaxAge = 1
    SweepMax = 1
    MaxNow = 2
    MaxLogins = 2
    MaxWrites = 4
SPECIFICATION MCSpec
SYMMETRY Interchangeable
CHECK_DEADLOCK FALSE

    
    
PROPERTIES
    
    LoggedOutStaysOut
    AccountsAreGuarded
