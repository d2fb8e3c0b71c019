CONSTANTS
    Bindings = {1, 2}
    TokenPrices = {0, 3}
    CallPrices = {0, 2}
    Expressions <- MCExpressions
    Prompts = {0, 400, 20000}
    Completions = {400, 999}
    Caps = {1000}
    MaxEdits = 1
    NBindings = 3
    NKeys = 2
    Priorities = {10, 20}
    Weights = {0, 1, 3}
    Prices = {0}
    Speakers = {"user"}
    Limits = {100}
    MaxSaid = 6
    MaxBlocks = 4
    MaxTools = 3
    Interleaved = FALSE
    Tokens = {0, 2}
SPECIFICATION MCSpec
CHECK_DEADLOCK FALSE
INVARIANTS
    EstimateCovers
    PaidAsListed
    RoutesEachOnce
    DrawIsProportional
    RequestsAreWellFormed
    NothingIsLost
    
    StreamsAreWellFormed
    AnswersArriveWhole
