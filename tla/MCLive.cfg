SPECIFICATION FairSpec
CONSTANTS
  present = present  audio = audio  iomfb = iomfb  epic = epic
  crashlog = crashlog  syslog = syslog  extra = extra  app = app
  Cpus = {"c0", "c1"}  BootCpu = "c0"  Irqs = {"i0"}  MaxRaises = 2
  Streams = {1, 2}
  QueueLen = 1
  MaxOwners = 1
  MaxSubmits = 1
  MaxFaults = 1
PROPERTIES EveryMessageReturned BootSucceeds CommittedIsPlayed InterruptsServed DecodeEnds
CHECK_DEADLOCK FALSE
