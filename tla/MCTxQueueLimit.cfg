SPECIFICATION FairSpec
CONSTANTS
    Depth = 2
    Lengths = {3}
    Header = 1
    Block = 3
    Limit = 5
    MaxSends = 2
    MaxResets = 0
PROPERTIES
    QueueIsFlushed
CHECK_DEADLOCK FALSE
