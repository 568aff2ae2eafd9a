SPECIFICATION Spec
CONSTANTS
    Participants = {"p1", "p2", "s1", "s2"}
    Planes <- OneStream
    RetainedDepth = 1
    RingSlots = 2
    Ticks = 2
    Lifespan = 2
    Deadline = 1
    Lease = 1
    LateTime = 1
    RetryLimit = 2
    MaxRestarts = 1
PROPERTY CannotDrop
CHECK_DEADLOCK FALSE
