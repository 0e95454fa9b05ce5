SPECIFICATION Rs485Spec
CONSTANTS
    FrameLen = 2
    MaxSends = 5
    MaxErrors = 2
INVARIANTS
    DrivenWhileAlone
    ReleasedWhenDone
CHECK_DEADLOCK FALSE
