SPECIFICATION FairSpec
CONSTANTS
  Handlers = {"a", "b", "d"}
  Creating = {"a"}
  Updating = {"a", "b"}
  Deleting = {"d"}
  Resuming = {}
  Essences = {1, 2, 3}
  Matching = {1, 2}
  Spying = FALSE
  MaxEdits = 1
  MaxRetries = 1
  Troubles = {"crash"}
  MaxTroubles = 1
INVARIANT OnePurpose
PROPERTIES DeletionIsNotRepeated EventuallySettled
\* The object rests when nobody changes it any more, or is gone.
CHECK_DEADLOCK FALSE
