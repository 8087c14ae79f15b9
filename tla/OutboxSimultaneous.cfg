SPECIFICATION Spec
CONSTANTS
    p1 = p1
    p2 = p2
    Events <- MCTwoEvents
    Publishers <- TwoPublishers
    MaxAttempts = 2
    BatchSize = 2
    MaxLosses = 0
INVARIANTS
    NoSimultaneousProcessing
CHECK_DEADLOCK TRUE
