SPECIFICATION FairSpec
CONSTANTS
  Ids = {"d"}
  Backoff = {"d"}
  Timeout = {"d"}
  Heeding = {}
  Async = {"d"}
  Finite = {"d"}
  IdleOnly = {}
  Diffbase = TRUE
  MaxFlips = 1
  MaxPauses = 1
  MaxExits = 1
  MaxChanges = 2
INVARIANT OwnExitIsFinal
PROPERTIES ReleasedAfterDaemons PausedAreAsked DeletionCompletes ExitCompletes
\* The operator rests when nothing happens to the object, or has exited.
CHECK_DEADLOCK FALSE
