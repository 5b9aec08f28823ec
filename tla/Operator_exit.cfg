SPECIFICATION FairSpec
CONSTANTS
    Roots <- MCRoots
    Clients <- MCClients
    StopFlag = TRUE
    KillTimeout = TRUE
    MaxCancels = 1
\* The operator stops when it has exited.
CHECK_DEADLOCK FALSE
INVARIANTS
    OrderlyExit
    CleanupRuns
    NothingIsLeft
PROPERTIES
    ExitCompletes
