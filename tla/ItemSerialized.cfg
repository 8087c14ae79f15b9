SPECIFICATION SerializedSpec
CONSTANTS
    lost = lost
    found = found
    d1 = d1
    d2 = d2
    t1 = t1
    t2 = t2
    Items <- MCItems
    Details <- MCDetails
    Txns <- MCTxns
    Requests <- MCSerializedRequests
    MaxRequests = 5
INVARIANTS
    VersionsAreConsecutive
    AuditIsChained
    NewestEventIsRow
PROPERTIES
    ImplementsLifecycle
CHECK_DEADLOCK TRUE
