SPECIFICATION FairSpec
CONSTANTS
  Senders = {s1, s2}
  Receivers = {r1}
  Handler = h
  HasHandler = TRUE
  Depth = 2
  MaxSends = 2
  MaxProduced = 3
  StickyWaker = TRUE
INVARIANTS TypeOK TxIsFifo
PROPERTIES InboundIntact NoSleepOverMessage
CHECK_DEADLOCK FALSE
