SPECIFICATION FairSpec
CONSTANTS
    Size = 4
    MaxArrivals = 9
INVARIANTS
    NoSlotRace
    InOrderOnce
PROPERTIES
    FifoSpec
    StoredIsHandled
CHECK_DEADLOCK FALSE
