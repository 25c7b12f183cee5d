CONSTANTS
  c1 = c1
  c2 = c2
  v1 = v1
  v2 = v2
  None = None
  Consumers <- TwoConsumers
  FieldValues <- TwoValues
  Mappings <- Deployments
  Lease = 1
  MaxGeneration = 2
  k1 = k1
  k2 = k2
  Nothing = Nothing
  Corrupted = Corrupted
  Denied = Denied
  Keys <- TwoKeys
  Values = {1, 2}
  Quota = 3
  Configured = 1
  MaxSchema = 2
  Faulty = TRUE
SYMMETRY AllAlike
SPECIFICATION PlatformSpec
INVARIANTS
  CallsAreTracked
  FramesAreCurrent
  AcknowledgedIsKept
PROPERTIES
  LossIsAccounted
