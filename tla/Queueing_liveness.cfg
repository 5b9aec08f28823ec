\* Progress and termination; no symmetry, which liveness checking does not allow.
CONSTANTS
  Keys = {k1, k2}
  Workers = {w1, w2}
  NoWorker = NoWorker
  Limit = 1
  MaxEvents = 2
SPECIFICATION FairSpec
PROPERTIES EventuallyHandled FailureStopsWatcher ShutdownTerminates
\* The multiplexer stops for good when it is closed; a premature stop violates the properties.
CHECK_DEADLOCK FALSE
