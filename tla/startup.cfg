CONSTANTS
    Directories <- MCDirectories
    Projects = {"one", "two"}
    Aliases = {"py", "make"}
    Configs <- MCConfigs
    Overlays <- MCOverlays
    Remotes <- MCRemotes
    MaxEdits = 2
SPECIFICATION Spec
INVARIANTS
    PolicySound
    ReadyMeansReadOnly
    JobsAuthorized
    ListenerIsGated
CHECK_DEADLOCK FALSE
