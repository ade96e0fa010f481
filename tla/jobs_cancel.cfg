CONSTANTS
    MaxJobs = 2
    MaxActive = 1
    HistoryLimit = 1
    RecoveryLimit = 1
    Cancellers = {c1}
    Abandonable = {c1, "start"}
    MaxRestarts = 1
    Outcomes = {"succeeded"}
SPECIFICATION Spec
INVARIANTS
    TypeOK
    CapacityBound
    ProcessIsTracked
    DiskOutcomeIsTrue
    UndisturbedIsDurable
PROPERTIES
    ImplementsLifecycle
    DiskOutcomeIsFinal
CHECK_DEADLOCK FALSE
