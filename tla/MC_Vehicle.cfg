CONSTANTS
  camera = camera
  gateway = gateway
  Started = Started
  Alive = Alive
  None = None
  Entities <- CameraAndGateway
  Processes <- OnlyCamera
  Policy <- TwoPolicies
  Checkpoints <- TwoNames
  MaxSilence = 5
  MaxFruitless = 2
  adaptive = adaptive
  dashboardEcu = dashboardEcu
  dashboard = dashboard
  provider = provider
  v1_9 = v1_9
  v1_10 = v1_10
  v2_0 = v2_0
  Unrecorded = Unrecorded
  Ecus <- BothEcus
  Clusters <- BothClusters
  Rank <- NameOrder
  Versions <- ThreeVersions
  TextOrder <- ByText
  Release <- ByRelease
  Inventories <- Fleet
  MaxSteps = 2
  Packages <- OfferedPackages
  ConfirmationPolicies = {TRUE, FALSE}
SPECIFICATION VehicleSpec
INVARIANTS
  RestartsInARowEscalate
  BlameIsDeserved
  OutcomeIsEverywhere
PROPERTIES
  SilenceIsJudged
  CampaignsUpgrade
