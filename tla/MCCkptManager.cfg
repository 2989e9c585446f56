CONSTANTS
  WorldSize = 2
  UseCritic = TRUE
  UseRealOptim = TRUE
  MaxToKeep <- KeepTwo
  DelLocal = FALSE
  MaxStep = 4
  MaxStarts = 3
  MaxSaveFailures = 1
SPECIFICATION FairSpec
INVARIANTS TrackedIsLoadable LoadedTogether
PROPERTIES KeptPerStart ResumesNewest ImplementsStore SaveEnds
CHECK_DEADLOCK FALSE
