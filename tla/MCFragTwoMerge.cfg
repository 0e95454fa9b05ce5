SPECIFICATION Spec
CONSTANTS
    Senders = {s1, s2}
    Lengths = {5}
    Limit = 4
    Overhead = 1
    Header = 1
    MaxPayload = 5
    CrcSize = 1
    SeqMod = 256
    ChunkMod = 3
    MaxSends = 1
    BusCapacity = 3
INVARIANTS
    PayloadsIntact
CHECK_DEADLOCK FALSE
