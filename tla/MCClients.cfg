CONSTANTS
    Clients = {c1, c2}
    Ids = {i1, i2}
    MaxQueued = 1
    MaxAsks = 2
    MaxEdits = 2
    MaxFaults = 1
    Nobody = Nobody
SPECIFICATION PairingFairSpec
INVARIANTS
    FileIsCurrent
    ChainFollowsList
PROPERTIES
    RestartKeepsList
    PinsAnswer
CHECK_DEADLOCK FALSE
