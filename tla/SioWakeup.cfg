SPECIFICATION SioSpec
CONSTANTS
  NPeriods = 2  MaxInflight = 1  NTags = 2  MaxQueues = 2  MaxStops = 0
  MayTimeout = FALSE  MayFail = FALSE  StickyWaker = TRUE
INVARIANT NoMessageForgotten
CHECK_DEADLOCK FALSE
