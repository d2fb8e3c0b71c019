CONSTANTS
    s1 = s1
    s2 = s2
    Streams = {s1, s2}
    Kinds <- PerProtocol
    Frames = 4
    Capacity = 2
    Cuts = FALSE
SPECIFICATION FairSpec
CHECK_DEADLOCK FALSE
INVARIANTS TypeOK DrainedIsSettled WholeAnswer UsageIsBilled
PROPERTY ShutdownEnds
