SPECIFICATION Spec
CONSTANTS
    ana = ana
    Ana = Ana
    pw1 = pw1
    pw2 = pw2
    Addresses <- MCAddresses
    Canonical <- MCCanonical
    Passwords <- MCPasswords
    Lifetime = 0
    MaxCalls = 3
    MaxTime = 1
SYMMETRY MCSymmetry
INVARIANTS
    TypeOK
    OneAccountPerMailbox
    TokensAreHonoured
PROPERTIES
    ImplementsRegistry
CHECK_DEADLOCK TRUE
