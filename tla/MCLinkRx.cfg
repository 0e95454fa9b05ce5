SPECIFICATION Spec
CONSTANTS
    Raws <- MCRaws
    Block = 2
    EncBufSize = 6
    RawBufSize = 3
    Width = 16
    Poly <- MCPoly
    Initial <- MCInitial
    XorOut = {}
    RawMax = 5
    Payloads <- MCPayloads
    Burst = 11
INVARIANTS
    TypeOK
    CobsResynchronises
    PrefixKeepsInStep
    FramesReadBack
    DamageIsCaught
