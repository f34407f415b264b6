CONSTANTS
    s1 = s1
    s2 = s2
    stereo = stereo
    surround = surround
    speakers = speakers
    cable = cable
    Sessions = {s1, s2}
    Layouts = {stereo, surround}
    Sinks = {speakers}
    ConfigSinks = {None, cable}
    Statuses = {"ok", "timeout", "reinit", "error"}
    QueueSize = 1
    MaxStarts = 2
    MaxFaults = 1
    None = None
SPECIFICATION FairSpec
INVARIANTS
    HostAsBefore
    HearsTheHost
PROPERTIES
    ThreadsEnd
CHECK_DEADLOCK FALSE
