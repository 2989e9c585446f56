CONSTANTS
  WorldSize = 2
  TensorParallel = 2
  MiniBatchSize = 3
  MaxTokenLen = 6
  Epochs = 2
  UseRloo = FALSE
  Jobs <- MCJobs
SPECIFICATION Spec
INVARIANTS RanksInStep ReturnedInOrder TrainsOnItsBatch ComparedWithinPrompt PartsBalanced
