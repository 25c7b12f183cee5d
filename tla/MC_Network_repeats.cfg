CONSTANTS
  w1 = w1
  w2 = w2
  r1 = r1
  r2 = r2
  Writers <- TwoWriters
  Readers <- TwoReaders
  ReaderId <- OwnId
  Profiles <- AllProfiles
  BitmapBits = 256
  Announced <- RemotePublication
  Contents <- TwoContents
  LocalTopics <- LocalReader
  EndpointTtl = 2
  Delay = 1
  MaxAnnouncements = 3
  MaxLives = 2
  MaxDiscoveryTime = 8
  NoEndpoint = NoEndpoint
  Modulus = 5
  MaxDelta = 1
  FrameTimeout = 2
  MaxRepetitions = 1
  CountLimit = 2
  MaxFrames = 7
  MaxInFlight = 2
  MaxTime = 7
  Clients <- TwoClients
  MaxSession = 3
  Capacity = 2
  RequestTimeout = 2
  Life = 1
  Deployments <- SomeDeployments
  Sent <- OneValue
  MaxCalls = 4
  MaxClock = 6
  NoRequest = NoRequest
  StreamConfigs <- OnlyTested
  Frames <- SevenSamples
  Routes <- SomeRoutes
  Callers <- SomeCallers
  GatewayPolicy <- SmallGateway
  SecurityPolicy <- DenyByDefault
  AccessRules <- SomeRules
  RateWindow = 2
  RateLimit = 2
  EventBudget = 1
  EventWindow = 1
  MaxDispatches = 4
  MaxGatewayTime = 3
SPECIFICATION StreamSpec
INVARIANTS
  SamplesOnce
CHECK_DEADLOCK FALSE
