CONSTANTS
    InputPackets <- AllPackets
    MaxReceived = 3
    Half = 8
    Clients = {c1, c2}
    Inputs = {i1, i2}
    Controllers = {k1}
    MaxGamepads = 2
    MaxPackets = 3
    MaxSessions = 3
    MaxTasks = 3
    None = None
SPECIFICATION InputSpec
INVARIANTS
    NothingStranded
    OrderKept
    ContentKept
    SlotsAccounted
    NeutralWhenPaused
PROPERTIES
    PadsSurvivePause
    PadsUnplugged
CHECK_DEADLOCK FALSE
