SPECIFICATION Spec
CONSTANTS
  Senders = {}
  Receivers = {r1}
  Handler = h
  HasHandler = FALSE
  Depth = 1
  MaxSends = 0
  MaxProduced = 2
  StickyWaker = TRUE
INVARIANTS DeliveredInOrder
CHECK_DEADLOCK FALSE
