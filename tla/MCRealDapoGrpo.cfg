\* DAPO with group filtering and REAL beside GRPO; buffer_size * n does not divide
\* among the four workers, so a REAL round may raise.
CONSTANTS
  GenBatchSize = 2
  TrainBatchSize = 2
  N = 2
  BatchesPerEpoch = 5
  TotalEpochs = 1
  TotalTrainingSteps = 4
  UseReal = TRUE
  UseGrpo = TRUE
  DataType = "partial_incorrect"
  BufferSize = 3
  RealSteps = 1
  DpSize = 4
  FilterGroups = TRUE
  MaxNumGenBatches = 2
  CriticWarmup = 2
  SaveFreq = 2
  TestFreq = 2
  Scores = {0, 1}
  MaxCrashes = 1
SPECIFICATION Spec
INVARIANTS RealRoundSize GrpoBatchComplete GrpoFresh TrainedOnce SavedAtEnd LostToKill
CHECK_DEADLOCK FALSE
