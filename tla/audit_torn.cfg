CONSTANTS
    Mutating = {m1}
    Reading = {r1}
    Unlabelled = {}
    Cancellable = {}
    MaxFile = 5
    Retained = 2
    EventSize = 2
    ShortWrites = TRUE
    MaxSessions = 1
SPECIFICATION Spec
INVARIANTS
    EffectsOnRecord
CHECK_DEADLOCK FALSE
