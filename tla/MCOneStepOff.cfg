CONSTANTS
  RolloutRanks = {r1, r2}
  Actor = actor
  Params = 2
  BatchesPerEpoch = 3
  TotalEpochs = 2
  TotalTrainingSteps = 4
  CriticWarmup = 2
  SaveFreq = 2
  TestFreq = 3
  LoaderMayFail = TRUE
  MaxCrashes = 2
SPECIFICATION FairSpec
INVARIANTS OneStepBehind LostPerResume StepsOverResumes ValidationLag SavedAtEnd
PROPERTY Terminates
CHECK_DEADLOCK FALSE
