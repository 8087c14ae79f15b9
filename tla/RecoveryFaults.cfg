SPECIFICATION Spec
CONSTANTS
    l1 = l1
    l2 = l2
    f1 = f1
    m1 = m1
    m2 = m2
    e1 = e1
    e2 = e2
    e3 = e3
    consumer = consumer
    t1 = t1
    t2 = t2
    u1 = u1
    Consumer = consumer
    Threads <- MCThreads
    Users <- MCUsers
    Items <- MCItems
    Matches <- MCMatches
    LostOf <- MCLostOf
    FoundOf <- MCFoundOf
    Events <- MCEvents
    MatchOf <- MCMatchOf
    UserTargets = {"CLOSED"}
    MaxDeliveries <- MCDeliveries
    MaxRequests = 2
    MaxFaults = 1
SYMMETRY MCSymmetry
INVARIANTS
    TypeOK
    ProcessedHasCase
    OneActiveCasePerFoundItem
CHECK_DEADLOCK TRUE
