CONSTANTS
  Clusters <- BothClusters
  Factory <- FactoryPackage
  FreeBytes = 2
  MaxBootAttempts = 2
  None = None
  Packages <- SomePackages
  MaxBoots = 2
  Codes = {"d1"}
  Identifiers = {"i1", "i2"}
  BootIdentifiers = {"i1"}
  Routines = {"r1"}
  ValueBytes = 1
  FrameBytes = 7
  Contributions <- SomeContributions
  SecurityEvents <- SomeEvents
  Policies <- SomePolicies
  MaxCount = 3
  MaxEventTime = 2
  MaxEvents = 4
  JumpPolicies <- AnyPolicy
  JumpThreshold = 1
  MaxUncertainty = 0
  LossTimeout = 1
  GlobalTimes <- SomeTimes
  Uncertainties = {0, 1}
  MaxMonotonic = 3
  MaxSyncs = 3
  Interfaces <- SomeInterfaces
  Endpoints <- SomeEndpoints
  Requirements <- Asked
SPECIFICATION ServicesSpec
INVARIANTS
  TrialsAreSafe
  EventsAreAccounted
  DriftIsBounded
  AllowedIsOpen
PROPERTIES
  AbortRecovers
  UpdatesAreAB
  ProtectedServices
CHECK_DEADLOCK FALSE
