SPECIFICATION Spec
CONSTANTS
    lost = lost
    found = found
    d1 = d1
    d2 = d2
    t1 = t1
    t2 = t2
    Items <- MCItems
    Details <- MCDetails
    Txns <- MCTxns
    Requests <- MCRequests
    MaxRequests = 2
PROPERTY
    TerminalIsFinal
CHECK_DEADLOCK TRUE
