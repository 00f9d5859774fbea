SPECIFICATION FairSpec
CONSTANTS
  N = 6
  MaxLen = 5
  MaxMsgs = 6
INVARIANTS TypeOK EntriesIntact EmptyTakesHalf
PROPERTIES IsFifoChannel EverythingDelivered
CHECK_DEADLOCK FALSE
