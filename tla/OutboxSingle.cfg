SPECIFICATION FairSpec
CONSTANTS
    p1 = p1
    p2 = p2
    Events <- MCEvents
    Publishers <- OnePublisher
    MaxAttempts = 3
    BatchSize = 2
    MaxLosses = 1
INVARIANTS
    TypeOK
    ExhaustedAfterAllAttempts
    DuplicatesAreAccountedFor
PROPERTIES
    SettledIsFinal
    ImplementsRelay
CHECK_DEADLOCK TRUE
