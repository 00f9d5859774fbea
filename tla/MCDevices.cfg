SPECIFICATION Spec
CONSTANTS
  MsiTasks = {"t1", "t2", "t3"}  BaseVector = 32  NumVectors = 3  MaxCount = 2
  Domains = {"root", "left", "right", "side", "leaf"}
  Parents <- Diamond  AlwaysOn = {}
  PmUsers = {"u1", "u2"}  Leaves <- TwoUsers  MaySlow = TRUE
  Streams = {0, 1}  FwStream = 0  DartTasks = {"t1", "t2"}
  PagesOf <- TwoRuns  FwPages <- FwPage
  ClkUsers = {"t1", "t2"}  Rates = {5, 15, 30, 90}  ParentRates = {0, 60, 200}  W = 256
  FreqTasks = {"t1", "t2"}  Clusters <- ThreeClusters  OppsOf <- Tables
  Encoding <- Layouts  BootLevel <- BootLevels  MaxDomains = 2  MaxOpps = 2
  Levels = {1, 10}
  WdW = 16  ClockRates = {1000, 2400}  Timeouts = {0, 1, 5, 9}  DefaultMs = 6
  Pins = {0, 1}  LevelPins = {1}
  Outputs = {"speakers", "headphones"}  CodecsOf <- Codecs  MaxFaults = 1  MaxPcmCalls = 6
  Cards <- DeviceTrees  SlotCounts = {1, 2, 3, 4}  SlotMasks <- Masks
  AdmacChannels = {"a", "b"}  Players = {"a"}  SramBlocks = {1, 2}  RingRoom = 2  PeriodLen = 3  Periods = 2
  DpPeriods = 2  MaxDpFaults = 3
  Modifiers = {"shift"}  Keys = {"a", "b"}  Codeless = {"x"}  NoKey = "none"  KeyLists <- Reports2
  RepeatDelay = 2  RepeatPeriod = 1  MaxHidTime = 5  Touches <- Fingers
  HidRequests = 3  MaxHidReports = 3  MaxHidDrain = 2  MaxHidFaults = 2
  FifoDepth = 2  SegmentLens = {0, 1, 3}  MaxSegments = 2  MaxTransfers = 3  MaxStalls = 2
  CsRates = {24000, 48000, 64000, 192000}  MaxCsFaults = 2  MaxCsCalls = 5
  TasFormats = {"s16", "u8"}  TasRates = {48000, 96000}  TasMasks = {{}, {0}, {1, 3}, {0, 1, 2}, {2, 16}}
  TasSlots = {2, 4, 20}  TasWidths = {16, 32}  MaxTasFaults = 1  MaxTasCalls = 2
  I2cShapes <- Transfers  MaxI2cTransfers = 3  MaxI2cTimeouts = 1
  MaxTcReplugs = 2  MaxTcFaults = 1
INVARIANTS OwnedOnce PowerIsOrdered SoundIsFed TransfersAreOwn
PROPERTIES MappingsAreKept ProgrammedIsAsked InputsHeard PeriodsAreCounted CodecsObey
CHECK_DEADLOCK FALSE
