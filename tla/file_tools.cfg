CONSTANTS
    Paths = {0, 1, 2, 3, 4, 5}
    Parent <- MCParent
    May <- MCMay
    Changing = {2, 3}
    Sensitive = {5}
    MaxListed = 2
    MaxEntries = 4
    MaxFiles = 2
    MaxTotal = 3
    MaxResults = 2
SPECIFICATION FairSpec
INVARIANTS
    TypeOK
    AnswerIsComplete
PROPERTIES
    CallsAnswered
CHECK_DEADLOCK FALSE
