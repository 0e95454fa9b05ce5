SPECIFICATION FairSpec
CONSTANTS
    MaxSize = 3
    Room = 2
    Requests = 2
    SeqIds = 2
    Held <- SomeHeld
    RequestTimeout = 1
    ClockMod = 3
    MaxStep = 1
    Slave = {1}
    CounterMod = 1
    HeartbeatInterval = 1
    SlaveClockMod = 2
    SlaveMaxStep = 1
    Ids = {1}
    Addresses = {0, 1, 127}
    Answers <- NoneAndLong
INVARIANTS
    PacketsReadBack
    PendingIsFound
    AnswersMatch
    HeartbeatsSpaced
PROPERTIES
    RequestsEnd
    HeartbeatsGoOn
