SPECIFICATION Spec
CONSTANTS
  Handlers = {"a", "r", "d"}
  Creating = {"a"}
  Updating = {"a"}
  Deleting = {"d"}
  Resuming = {"r"}
  Essences = {1, 2}
  Matching = {1, 2}
  Spying = TRUE
  MaxEdits = 1
  MaxRetries = 1
  Troubles = {"crash", "relist", "failure", "loss", "haste"}
  MaxTroubles = 1
PROPERTIES LastHandledIsSeen ChangeIsNotRepeated ResumedOnce DeletionIsHandled HandledIsProtected
\* The object rests when nobody changes it any more: Quiet, or gone.
CHECK_DEADLOCK FALSE
