CONSTANTS
    Calls = {c1, c2}
    MaxConcurrent = 1
    MaxOutput = 2
    MaxWrite = 3
    Writing = {c1}
    Posix = FALSE
SPECIFICATION FairSpec
INVARIANTS
    TypeOK
    BudgetShared
    ExitedIsComplete
    LimitIsTruncation
PROPERTIES
    CallsReturn
CHECK_DEADLOCK FALSE
