SPECIFICATION FairSpec
CONSTANTS
    Size = 3
    Lengths = {1, 2}
    Mailboxes = 1
    MaxArrivals = 5
    MaxInits = 2
INVARIANTS
    MessagesWhole
PROPERTIES
    FifoSpec
    MessageIsHandled
