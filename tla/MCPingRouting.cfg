CONSTANTS
    s1 = s1
    s2 = s2
    s3 = s3
    a1 = a1
    Sessions = {s1, s2, s3}
    Legacy = {s1, s2}
    Addrs = {a1}
    AddrOf <- MCAddrOf
    QueueSize = 4
    MaxPings = 3
    Started <- MCStarted
    None = None
SPECIFICATION Spec
SYMMETRY Symmetry
INVARIANTS
    RightEndpoint
    RegistrationsKept
CHECK_DEADLOCK FALSE
