CONSTANTS
  NumLayers = 5
  MicroBatches = 3
SPECIFICATION Spec
INVARIANTS BackwardReadsOwn AtMostTwoGroups
