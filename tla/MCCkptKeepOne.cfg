\* As the trainer advises in place of remove_previous_ckpt_in_save: keep one checkpoint.
CONSTANTS
  WorldSize = 2
  UseCritic = TRUE
  UseRealOptim = TRUE
  MaxToKeep <- KeepOne
  DelLocal = FALSE
  MaxStep = 2
  MaxStarts = 1
  MaxSaveFailures = 1
SPECIFICATION Spec
INVARIANT TrackedIsLoadable
CHECK_DEADLOCK FALSE
