SPECIFICATION FairSpec
CONSTANTS
  Calls = {"a", "b"}
  Keys = {"k", "l"}
  Infos = {1, 2}
  Ageing = {1}
  Priority <- SecondFirst
INVARIANT LoginOnlyWhenDepleted
PROPERTIES DroppedWithReason EveryCallEnds
\* The operator stops when a login handler fails for good.
CHECK_DEADLOCK FALSE
