CONSTANTS
  Operators = {"A", "B"}
  Objects = {"d", "r"}
  Config <- MCConfig
  Bodies <- MCBodies
  Edits <- MCEdits
  Owner <- MCOwner
  UserPrefix = "user"
  KnownPrefixes = {"kopf.zalando.org"}
  KopfPrefixes = {"kopf.zalando.org", "kopf.example.com"}
  LongNames = {"long"}
  MaxEdits = 2
  MaxCycles = 4
SPECIFICATION Spec
INVARIANTS StoredIsFetched ChangesAreNoticed FieldHandlersSeeChanges
\* The operators rest when the edits and the cycles are used up.
CHECK_DEADLOCK FALSE
