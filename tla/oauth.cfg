CONSTANTS
    Requests = {r1, r2, r3}
    MaxPairs = 3
    MaxTime = 6
    MaxPending = 2
    PendingTTL = 2
    CodeTTL = 2
    RetryTTL = 1
    AccessTTL = 3
    RefreshTTL = 4
SPECIFICATION Spec
INVARIANTS
    TypeOK
    PairsLinked
    OneGrantOneHolder
    DenialIsFinal
PROPERTIES
    RevocationIsWhole
CHECK_DEADLOCK FALSE
SYMMETRY RequestSymmetry
