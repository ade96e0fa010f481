CONSTANTS
    MaxJobs = 1
    MaxActive = 1
    HistoryLimit = 1
    RecoveryLimit = 1
    Cancellers = {c1}
    Abandonable = {"start", c1}
    MaxRestarts = 0
    Outcomes = {"succeeded", "timeout", "output_limit"}
    Calls = {1, d1}
    MaxConcurrent = 1
    MaxOutput = 1
    MaxWrite = 0
    Writing = {1, d1}
    Posix = TRUE
SPECIFICATION ManagedFairSpec
INVARIANTS
    SlotsBalanced
    ChildrenSignalled
    OutcomeMeansStopped
PROPERTIES
    SupervisionIsFair
    JobsSettle
CHECK_DEADLOCK FALSE
