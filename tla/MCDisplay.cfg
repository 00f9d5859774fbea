SPECIFICATION Spec
CONSTANTS
  MaxEndpoints = 4  AfkFaults = 4  RingLayouts <- AfkLayouts  BufferTags = {1, 2}
  EpicChannels = {1, 2}  TxRoom = 1  RxRoom = 2  MaxCalls = 2  MaxCallbacks = 1
  CallShapes <- CallbackShapes
  Operations = {"start", "powerOn", "swap"}  Tags = {"plain", "D100", "D120", "D206", "shortD003", "unknown"}
  MaxIds = 6  MaxTimeouts = 1
  MaxDescriptors = 4
  PanelSizes <- Sizes  Timings <- PanelTimings  Screen <- SmallScreen  RegionEdges = {0, 1, 2, 3, 5}
  CableModes = {"usb3", "usb3dp", "dp"}  LinkRates = {1620, 2700}  MaxSlow = 1  MaxProbes = 2  MaxRequests = 2
  PresentTasks = {"t1", "t2"}  MaxBadSwaps = 2  MaxPresents = 4
  Dispexts = {0, 1}  BootClocks <- BootFifos  MaxRoutes = 3
  DmaTasks = {"t1", "t2"}  DmaBase = 4  DmaLimit = 9  DmaMask = 64  DmaSizes = {0, 1, 2, 3}  MaxMaps = 3
  PortStates <- TypecStates  ExtTimings <- SinkTimings  ExtColors <- SinkColors
  FullWidth = 4  FullHeight = 2  MaxFps = 60  MayBeLate = TRUE  MaxDeferrals = 1
INVARIANTS ServicesAnswered  BuffersSafe PhyIsHonest
PROPERTIES FramesAreShown RouteIsReal
CHECK_DEADLOCK FALSE
