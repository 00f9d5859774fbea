----------------------------- MODULE FifoChannel ------------------------------
(* What a ring of the AFK transport promises its two ends: the messages put  *)
(* in come out whole, once each and in order.  Messages are numbered in the  *)
(* order they are put in.                                                    *)
EXTENDS Naturals, Sequences

CONSTANT MaxMsgs   \* bound: messages put in

VARIABLES
  queue,   \* messages in the channel, oldest first
  putIn,   \* messages put in so far
  out      \* the last message taken out, 0 before the first

Init == queue = <<>> /\ putIn = 0 /\ out = 0

Put ==
  /\ putIn < MaxMsgs
  /\ putIn' = putIn + 1
  /\ queue' = Append(queue, putIn + 1)
  /\ UNCHANGED out

Take ==
  /\ queue # <<>>
  /\ out' = Head(queue)
  /\ queue' = Tail(queue)
  /\ UNCHANGED putIn

Next == Put \/ Take

Spec == Init /\ [][Next]_<<queue, putIn, out>>
=============================================================================
