SPECIFICATION FairSpec
CONSTANTS
  Ids = {"t"}
  Backoff = {}
  Timeout = {}
  Heeding = {"t"}
  Async = {}
  Finite = {}
  IdleOnly = {"t"}
  Diffbase = TRUE
  MaxFlips = 0
  MaxPauses = 0
  MaxExits = 0
  MaxChanges = 0
PROPERTY DeletionCompletes
\* The operator rests when nothing happens to the object, or has exited.
CHECK_DEADLOCK FALSE
