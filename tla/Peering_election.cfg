\* Two operators start, leave and crash; one trouble at any moment: a crash, a
\* request that fails for good, or the time that passes while somebody lags.
CONSTANTS
  Operators = {"pod", "dev"}
  Priorities <- MCPriorities
  Lifetime = 2
  Jitter = {1}
  Mandatory = TRUE
  MaxLag = 0
  MaxTroubles = 1
SPECIFICATION FairSpec
INVARIANTS PausedIffOutranked OneIsActive
PROPERTIES ResumesEventually
\* The operators rest when they have left or crashed.
CHECK_DEADLOCK FALSE
