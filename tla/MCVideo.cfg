SPECIFICATION Spec
CONSTANTS
  Streams = {1, 2}
  QueueLen = 2
  MaxOwners = 2
  MaxSubmits = 2
  MaxFaults = 1
  TableLen = 2
  MaxFit = 4
  Spans = {1, 2}
  MaxFrames = 4
  CodedSizes = {2, 4, 6}
  StrideSlack = {0, 2}
  CropSteps = {0, 1, 2, 4}
  SliceBytes = {0, 3, 9}
  MaxRbsp = 4
  After <- Followers
  Requests <- SliceRequests
  MaxReferences = 16
  FrameSizes <- CommonSizes
  References = {0, 4, 16}
  OutputLens = {3000000, 67108864}
  ActivePipes = {0, 2}
  MaxDone = 1
INVARIANTS MemoryIsKept ReferencesKept LayoutHolds SliceIsMeant FirmwareTellsAll
PROPERTIES DecodesAccounted
CHECK_DEADLOCK FALSE
