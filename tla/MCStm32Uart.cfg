SPECIFICATION FairSpec
CONSTANTS
    FrameLen = 2
    MaxSends = 4
    MaxErrors = 2
INVARIANTS
    TypeOK
    WholeUnlessDisturbed
    ProtectedWhileTransmitting
    DeafnessIsCounted
PROPERTIES
    BusyIsReleased
CHECK_DEADLOCK FALSE
