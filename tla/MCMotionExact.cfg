CONSTANTS
    InputPackets <- Mouse
    MaxReceived = 3
    Half = 8
SPECIFICATION QueueSpec
INVARIANT MotionExact
CHECK_DEADLOCK FALSE
