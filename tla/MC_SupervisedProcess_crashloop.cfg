CONSTANTS
  camera = camera
  gateway = gateway
  Started = Started
  Alive = Alive
  None = None
  Entities <- OnlyCamera
  Processes <- OnlyCamera
  Policy <- TwoPolicies
  Checkpoints <- TwoNames
  MaxSilence = 5
  MaxFruitless = 3
SPECIFICATION SupervisedSpec
INVARIANTS
  CrashLoopEscalates
