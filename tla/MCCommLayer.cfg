SPECIFICATION CommFairSpec
CONSTANTS
    Devices = {1, 90, 165}
    Broadcast = 255
    Magic0 = 165
    Magic1 = 90
    Setups <- MCSetups
    InboxSize = 2
    MaxSends = 2
INVARIANTS
    AnswersWhatWasAsked
    HeardOnce
PROPERTIES
    LineBecomesQuiet
    ExecutedIsAnswered
CHECK_DEADLOCK FALSE
