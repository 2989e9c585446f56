CONSTANTS
  WorldSize = 2
  TensorParallel = 2
  MiniBatchSize = 3
  MaxTokenLen = 6
  Epochs = 2
  UseRloo = TRUE
  Jobs <- MCJobs
SPECIFICATION Spec
INVARIANT WeighedByOwnAccuracy
