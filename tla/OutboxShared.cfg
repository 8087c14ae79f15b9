SPECIFICATION FairSpec
CONSTANTS
    p1 = p1
    p2 = p2
    Events <- MCTwoEvents
    Publishers <- TwoPublishers
    MaxAttempts = 2
    BatchSize = 2
    MaxLosses = 1
INVARIANTS
    PublishedWasSent
    RetriesAreLeft
PROPERTIES
    EventsAreSettled
CHECK_DEADLOCK TRUE
