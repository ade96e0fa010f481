CONSTANTS
    MaxJobs = 1
    MaxActive = 1
    HistoryLimit = 1
    RecoveryLimit = 1
    Cancellers = {c1}
    Abandonable = {}
    MaxRestarts = 0
    Outcomes = {"succeeded"}
SPECIFICATION Spec
INVARIANTS
    AcceptedCancelSettles
CHECK_DEADLOCK FALSE
