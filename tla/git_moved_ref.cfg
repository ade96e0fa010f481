CONSTANTS
    c0 = c0
    c1 = c1
    c2 = c2
    x = x
    main = main
    topic = topic
    getStatus = getStatus
    fetching = fetching
    syncing = syncing
    Commits <- History
    Before <- Ancestry
    Kind <- ToolOf
    NoCommit = NoCommit
    NoCall = NoCall
    Root = c0
    Published = {c1, c2}
    Local = {c0, x}
    Branches = {main, topic}
    Configured = main
    Calls = {syncing}
    MeddleAt = {"ancestor"}
SPECIFICATION Spec
PROPERTIES
    TargetIsFetched
