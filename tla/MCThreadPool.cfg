CONSTANTS
    Tasks = {i1, d1, d2}
    Timed = {d1, d2}
    Addresses = {a1, a2, a3}
    Workers = {w1, w2}
    Delays = {0, 2}
    MaxTime = 2
    None = None
SPECIFICATION FairSpec
INVARIANTS
    OneOwner
    SleepsForAReason
PROPERTIES
    ImplementsBoard
    DueTaskRuns
CHECK_DEADLOCK FALSE
