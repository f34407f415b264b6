CONSTANTS
    MaxLaunch = 3
    MaxAnnounce = 1
    Empty = Empty
    Sessions = {s1}
    Streams = {"video", "audio"}
    Calls = {"all", "stopping", "cert"}
    UintMod = 8
    None = None
SPECIFICATION LifeSpec
INVARIANTS
    ViewedStillAccounted
    PendingIsCovered
PROPERTIES
    NoOverwrite
    PendingLeaves
    StoppingIsReaped
    BroadcastEnds
CHECK_DEADLOCK FALSE
