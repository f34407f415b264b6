CONSTANTS
    Keys = {k1, k2}
    Ids = {i1, i2, i3}
    MaxButtonPackets = 4
    MaxButtonsQueued = 2
    MaxButtonSessions = 2
    Unset = Unset
SPECIFICATION ButtonsFairSpec
INVARIANTS
    OneRepeat
    NoKeyLeftDown
PROPERTY LeftIsReleased
CHECK_DEADLOCK FALSE
