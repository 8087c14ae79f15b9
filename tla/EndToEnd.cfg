SPECIFICATION SerialSpec
CONSTANTS
    l1 = l1
    f1 = f1
    f2 = f2
    d1 = d1
    c1 = c1
    c2 = c2
    Lost <- MCLost
    Found <- MCFound
    Deciders <- MCDeciders
    Closers <- MCClosers
    Closings <- MCClosings
    MaxDecisions = 2
    MaxRequests = 2
INVARIANTS
    OfferedIsFree
    ActiveCaseHoldsItems
    RecoveryHasCase
PROPERTIES
    CasesFollowLifecycle
    AcceptedGetsCase
CHECK_DEADLOCK TRUE
