CONSTANTS
    Mutating = {m1, m2, m3}
    Reading = {r1}
    Unlabelled = {m3, r1}
    Cancellable = {m1}
    MaxFile = 3
    Retained = 3
    EventSize = 2
    ShortWrites = TRUE
    MaxSessions = 2
SPECIFICATION Spec
INVARIANTS
    TypeOK
    EffectsKept
    OutcomeFollowsAttempt
    SizeBounded
    NumberedWithoutGap
PROPERTIES
    RetainsInOrder
CHECK_DEADLOCK FALSE
