CONSTANTS
    MaxJobs = 1
    MaxActive = 1
    HistoryLimit = 1
    RecoveryLimit = 1
    Cancellers = {c1}
    Abandonable = {}
    MaxRestarts = 1
    Outcomes = {"succeeded"}
SPECIFICATION Spec
INVARIANTS
    PublishedIsDurable
CHECK_DEADLOCK FALSE
