CONSTANTS
    Sessions = {s1, s2}
    Streams = {"video", "audio"}
    Calls = {"all", "stopping", "cert"}
    UintMod = 8
    None = None
SPECIFICATION Spec
SYMMETRY Symmetry
INVARIANTS
    FreedIsUnused
    ReapedOnce
    QuietCount
PROPERTIES
    SharesBroadcast
CHECK_DEADLOCK FALSE
