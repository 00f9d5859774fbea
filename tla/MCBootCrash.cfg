SPECIFICATION Spec
CONSTANTS
  present = present  audio = audio  iomfb = iomfb  epic = epic
  crashlog = crashlog  syslog = syslog  extra = extra  app = app
  Crashlog = crashlog  OtherSys = {syslog}  Extra = {extra}  AppEps = {app}
  Requested <- AppFirst  ApMin = 11  ApMax = 12  FwVersions <- Versions  FwMaps <- Maps
  BootMayFail = TRUE  MaxBoots = 2  MaxApp = 1
  NPeriods = 3  MaxInflight = 2  NTags = 2  MaxQueues = 3  MaxStops = 1
  MayTimeout = TRUE  MayFail = TRUE  StickyWaker = TRUE
INVARIANTS CrashedOnlyByCrash
CHECK_DEADLOCK FALSE
