CONSTANTS
    Sessions = {s1, s2}
    QueueSize = 1
    AsyncTeardown = TRUE
    MaxDisplays = 2
SPECIFICATION FairSpec
INVARIANTS
    DisplaysApart
    ContextsTold
PROPERTIES
    WaitsEnd
CHECK_DEADLOCK FALSE
