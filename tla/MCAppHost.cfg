CONSTANTS
    Apps <- MCApps
    Preps <- MCPreps
    Commands <- MCCommands
    AutoDetach <- MCCommands
    WaitAll <- MCCommands
    RevertOnDisconnect = FALSE
    MaxRequests <- MCMaxRequests
SPECIFICATION FairSpec
INVARIANTS
    UndoAccounted
    NothingLeftBehind
    LaunchEndsNoApp
PROPERTIES
    SessionEndsWithApp
CONSTRAINT
    Tracked
CHECK_DEADLOCK FALSE
