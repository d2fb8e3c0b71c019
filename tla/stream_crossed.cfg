CONSTANTS
    s1 = s1
    Streams = {s1}
    Kinds <- Crossed
    Frames = 3
    Capacity = 1
    Cuts = FALSE
SPECIFICATION Spec
CHECK_DEADLOCK FALSE
INVARIANT TranslatedIsAnswered
