SPECIFICATION AudibleSpec
CONSTANTS
    Senders = {s1}
    Lengths = {3, 5, 6, 7}
    Limit = 4
    Overhead = 1
    Header = 1
    MaxPayload = 5
    CrcSize = 1
    SeqMod = 3
    ChunkMod = 3
    MaxSends = 4
    BusCapacity = 3
INVARIANTS
    PayloadsIntact
    NoCollateralLoss
    DeliveredInOrder
CHECK_DEADLOCK FALSE
