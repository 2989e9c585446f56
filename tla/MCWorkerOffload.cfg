CONSTANTS
  Configs <- Flags
  MiniBatches = 2
  MicroBatches = 2
  MaxSteps = 4
  MaxCrashes = 2
SPECIFICATION Spec
INVARIANTS WorkerTypeOK StepsWithState RestsOffloaded GeneratesWithActorWeights RoomForCache MomentsMatchWeights
PROPERTY StepsOwnGradients
CHECK_DEADLOCK FALSE
