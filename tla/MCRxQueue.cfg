SPECIFICATION FairSpec
CONSTANTS
    Depth = 2
    MaxArrivals = 6
    MaxResets = 1
INVARIANTS
    QueueKeepsOrder
    AllAccountedFor
PROPERTIES
    FifoSpec
    LeftoversReachCallback
CHECK_DEADLOCK FALSE
