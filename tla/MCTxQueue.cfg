SPECIFICATION FairSpec
CONSTANTS
    Depth = 3
    Lengths = {3, 5}
    Header = 1
    Block = 9
    Limit = 6
    MaxSends = 4
    MaxResets = 1
INVARIANTS
    QueueKeepsOrder
    AnswerIsTrue
    FragmentsTogether
PROPERTIES
    QueueIsFlushed
CHECK_DEADLOCK FALSE
