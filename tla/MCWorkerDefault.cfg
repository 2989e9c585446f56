\* The default configuration: nothing is offloaded.
CONSTANTS
  Configs <- Default
  MiniBatches = 1
  MicroBatches = 1
  MaxSteps = 2
  MaxCrashes = 0
SPECIFICATION Spec
INVARIANT EveryStepAccepted
CHECK_DEADLOCK FALSE
