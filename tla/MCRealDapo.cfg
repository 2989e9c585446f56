\* As bash_real/run_real.sh runs it: REAL alone, no group filtering.
CONSTANTS
  GenBatchSize = 2
  TrainBatchSize = 2
  N = 2
  BatchesPerEpoch = 2
  TotalEpochs = 2
  TotalTrainingSteps = 3
  UseReal = TRUE
  UseGrpo = FALSE
  DataType = "partial"
  BufferSize = 2
  RealSteps = 2
  DpSize = 2
  FilterGroups = FALSE
  MaxNumGenBatches = 0
  CriticWarmup = 0
  SaveFreq = 2
  TestFreq = 1
  Scores = {0, 1}
  MaxCrashes = 1
SPECIFICATION Spec
INVARIANTS TypeOK BufferAccounting RealFresh StepsPerStart
CHECK_DEADLOCK FALSE
