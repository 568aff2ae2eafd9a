SPECIFICATION FairSpec
CONSTANTS
    Participants = {"p1", "p2", "s1", "s2"}
    Planes <- MCPlanes
    RetainedDepth = 1
    RingSlots = 2
    Ticks = 2
    Lifespan = 2
    Deadline = 1
    Lease = 1
    LateTime = 1
    RetryLimit = 2
    MaxRestarts = 1
INVARIANT FramesExact
INVARIANT FreshWhenDelivered
INVARIANT RingsSound
PROPERTY ReadersEnd
CHECK_DEADLOCK FALSE
