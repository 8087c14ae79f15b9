SPECIFICATION FairSpec
CONSTANTS
    lost = lost
    found = found
    d1 = d1
    d2 = d2
    t1 = t1
    t2 = t2
    Items <- MCItems
    Details <- MCDetails
    Requests <- MCRequests
    Txns <- MCTxns
    MaxRequests = 3
INVARIANTS
    TypeOK
    NewestEventHasRowVersion
    TrailIsGrounded
    AuditIsLegal
    VersionsNeverSkip
    RecoveryMovesBothItems
PROPERTY
    RequestsAreAnswered
CHECK_DEADLOCK TRUE
