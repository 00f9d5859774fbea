------------------------------- MODULE AfkRing --------------------------------
(* One ring buffer of an AFK endpoint, drivers/soc/apple-afk.                *)
(*                                                                           *)
(* The ring lies in memory shared by the AP and a coprocessor; a producer    *)
(* and a consumer on different processors access it without a lock, through  *)
(* the pointers rptr and wptr of its header.  The producer is send (the AP,  *)
(* for the TX ring), the consumer is recv, recv_payload and recv_ack (the    *)
(* AP, for the RX ring); the firmware's end of each ring runs the other half *)
(* of the same protocol.                                                     *)
(*                                                                           *)
(* Offsets are counted in 64-byte blocks: bufsz is a multiple of the block   *)
(* size and entries are padded to it.  An entry is a 16-byte header and a    *)
(* payload.  One that does not fit above wptr leaves its header there, and a *)
(* second header (the sentinel) and the payload at the start of the buffer.  *)
EXTENDS Integers

CONSTANTS
  N,        \* size of the data area, in blocks
  MaxLen,   \* largest entry, header included, in blocks
  MaxMsgs   \* bound: messages sent

ASSUME RingAssumption ==
  N \in Nat \ {0} /\ MaxLen \in Nat /\ MaxMsgs \in Nat

VARIABLES
  rptr, wptr,  \* the pointers of the shared header
  hdr,         \* entry header last written in each block; id 0: no magic
  data,        \* message whose payload was last written in each block
  ppc, plen,   \* where the producer is in send; the length of its entry
  cpc, entry,  \* where the consumer is in recv; the header it returned
  payload,     \* messages whose payload recv_payload returned parts of
  starts,      \* history: blocks where an unread entry begins
  sent,        \* history: messages published; the k-th one has id k
  acked,       \* history: messages acknowledged
  got          \* history: what the header of the last of them said it was

prodVars == <<ppc, plen>>
consVars == <<cpc, entry, payload>>
vars == <<rptr, wptr, hdr, data, prodVars, consVars, starts, sent, acked, got>>

Blocks == 0 .. N - 1
Header == [id : 0 .. MaxMsgs, len : 0 .. MaxLen]
NoHeader == [id |-> 0, len |-> 0]

Init ==
  /\ rptr = 0 /\ wptr = 0
  /\ hdr = [b \in Blocks |-> NoHeader] /\ data = [b \in Blocks |-> 0]
  /\ ppc = "idle" /\ plen = 0
  /\ cpc = "idle" /\ entry = NoHeader /\ payload = {}
  /\ starts = {} /\ sent = 0 /\ acked = 0 /\ got = 0

------------------------------------------------------------------------------
(* Geometry shared by both ends *)

(* An entry of len blocks at p does not fit below the end of the buffer. *)
Wraps(p, len) == p + len > N

(* The pointer after an entry of len blocks at p. *)
After(p, len) ==
  LET from == IF Wraps(p, len) THEN 0 ELSE p
  IN  IF from + len >= N THEN 0 ELSE from + len

(* The blocks that hold the payload of an entry of len blocks at p. *)
PayloadBlocks(p, len) ==
  IF Wraps(p, len) THEN 0 .. len - 1 ELSE p .. p + len - 1

(* Mutant: an entry may fill the ring up to the read pointer. *)
HasSpaceOffByOne(w, r, needed) ==
  IF w < r
  THEN needed <= r - w
  ELSE needed < N - w \/ (needed = N - w /\ r # 0) \/ needed <= r

(* Mutant: the space above wptr counts even when unread data lies there. *)
HasSpaceAbove(w, r, needed) ==
  needed < N - w \/ (needed = N - w /\ r # 0) \/ needed < r

(* Mutant: an entry may not end at the end of the buffer. *)
HasSpaceNoExactFit(w, r, needed) ==
  IF w < r
  THEN needed < r - w
  ELSE needed < N - w \/ needed < r

(* has_space: one block stays free, so that equal pointers mean empty. *)
HasSpace(w, r, needed) ==
  IF w < r
  THEN needed < r - w
  ELSE needed < N - w \/ (needed = N - w /\ r # 0) \/ needed < r

------------------------------------------------------------------------------
(* AfkEndpoint::send *)

(* Read the pointers and check the space; without it send returns an error. *)
SendCheck(len) ==
  /\ ppc = "idle" /\ sent < MaxMsgs
  /\ HasSpace(wptr, rptr, len)
  /\ ppc' = "header" /\ plen' = len
  /\ UNCHANGED <<rptr, wptr, hdr, data, consVars, starts, sent, acked, got>>

(* Mutant: no sentinel at the start of the buffer. *)
SendNoSentinel ==
  /\ ppc = "header"
  /\ hdr' = [hdr EXCEPT ![wptr] = [id |-> sent + 1, len |-> plen]]
  /\ ppc' = "payload"
  /\ UNCHANGED <<rptr, wptr, data, plen, consVars, starts, sent, acked, got>>

SendHeader ==
  /\ ppc = "header"
  /\ hdr' = [b \in Blocks |->
               IF b = wptr \/ (b = 0 /\ Wraps(wptr, plen))
               THEN [id |-> sent + 1, len |-> plen] ELSE hdr[b]]
  /\ ppc' = "payload"
  /\ UNCHANGED <<rptr, wptr, data, plen, consVars, starts, sent, acked, got>>

(* Mutant: the copy leaves out the length of the entry header. *)
SendPayloadShort ==
  /\ ppc = "payload"
  /\ data' = [b \in Blocks |->
                IF b \in PayloadBlocks(wptr, plen) \ {After(wptr, plen) - 1}
                THEN sent + 1 ELSE data[b]]
  /\ ppc' = "publish"
  /\ UNCHANGED <<rptr, wptr, hdr, plen, consVars, starts, sent, acked, got>>

SendPayload ==
  /\ ppc = "payload"
  /\ data' = [b \in Blocks |->
                IF b \in PayloadBlocks(wptr, plen) THEN sent + 1 ELSE data[b]]
  /\ ppc' = "publish"
  /\ UNCHANGED <<rptr, wptr, hdr, plen, consVars, starts, sent, acked, got>>

(* The data is cleaned to memory before the new write pointer is. *)
SendPublish ==
  /\ ppc = "publish"
  /\ wptr' = After(wptr, plen)
  /\ starts' = starts \cup {wptr} /\ sent' = sent + 1
  /\ ppc' = "notify"
  /\ UNCHANGED <<rptr, hdr, data, plen, consVars, acked, got>>

(* RBEP_SEND; if it fails send returns an error, and the entry stays.  The   *)
(* consumer may look at the ring at any time, so the doorbell has no state.  *)
SendNotify ==
  /\ ppc = "notify"
  /\ ppc' = "idle"
  /\ UNCHANGED <<rptr, wptr, hdr, data, plen, consVars, starts, sent, acked, got>>

------------------------------------------------------------------------------
(* AfkEndpoint::recv, recv_payload and recv_ack *)

(* Read the pointers and the header; go back to the start if it wraps. *)
RecvPeek ==
  /\ cpc = "idle" /\ rptr # wptr
  /\ hdr[rptr].id # 0
  /\ IF Wraps(rptr, hdr[rptr].len)
     THEN /\ rptr' = 0 /\ starts' = (starts \ {rptr}) \cup {0}
          /\ cpc' = "wrapped" /\ UNCHANGED entry
     ELSE /\ entry' = hdr[rptr] /\ cpc' = "peeked" /\ UNCHANGED <<rptr, starts>>
  /\ UNCHANGED <<wptr, hdr, data, prodVars, payload, sent, acked, got>>

(* The sentinel must be there, and must fit. *)
RecvWrapped ==
  /\ cpc = "wrapped"
  /\ IF hdr[0].id = 0 \/ Wraps(0, hdr[0].len)
     THEN cpc' = "idle" /\ UNCHANGED entry
     ELSE cpc' = "peeked" /\ entry' = hdr[0]
  /\ UNCHANGED <<rptr, wptr, hdr, data, prodVars, payload, starts, sent, acked, got>>

RecvPayload ==
  /\ cpc = "peeked"
  /\ payload' = {data[b] : b \in PayloadBlocks(rptr, entry.len)}
  /\ cpc' = "read"
  /\ UNCHANGED <<rptr, wptr, hdr, data, prodVars, entry, starts, sent, acked, got>>

(* Mutant: the read pointer is not taken back to 0 at the end of the buffer. *)
AckNoReset ==
  /\ cpc = "read"
  /\ rptr' = rptr + hdr[rptr].len
  /\ starts' = starts \ {rptr} /\ acked' = acked + 1 /\ got' = entry.id
  /\ cpc' = "idle" /\ payload' = {}
  /\ UNCHANGED <<wptr, hdr, data, prodVars, entry, sent>>

(* The header is read again; without its magic the pointer stays. *)
RecvAck ==
  /\ cpc = "read"
  /\ IF hdr[rptr].id = 0
     THEN UNCHANGED <<rptr, starts, acked, got>>
     ELSE LET end == rptr + hdr[rptr].len
          IN  /\ rptr' = IF end >= N THEN 0 ELSE end
              /\ starts' = starts \ {rptr}
              /\ acked' = acked + 1 /\ got' = entry.id
  /\ cpc' = "idle" /\ payload' = {}
  /\ UNCHANGED <<wptr, hdr, data, prodVars, entry, sent>>

------------------------------------------------------------------------------
Send == SendHeader \/ SendPayload \/ SendPublish \/ SendNotify

Recv == RecvPeek \/ RecvWrapped \/ RecvPayload \/ RecvAck

Next == (\E len \in 1 .. MaxLen : SendCheck(len)) \/ Send \/ Recv

Spec == Init /\ [][Next]_vars

(* A consumer that keeps polling, and a send that runs to its end. *)
FairSpec == Spec /\ WF_vars(Recv) /\ WF_vars(Send)

------------------------------------------------------------------------------
(* Types *)
TypeOK ==
  /\ rptr \in Blocks /\ wptr \in Blocks
  /\ hdr \in [Blocks -> Header] /\ data \in [Blocks -> 0 .. MaxMsgs]
  /\ ppc \in {"idle", "header", "payload", "publish", "notify"}
  /\ plen \in 0 .. MaxLen
  /\ cpc \in {"idle", "wrapped", "peeked", "read"}
  /\ entry \in Header /\ payload \in SUBSET (0 .. MaxMsgs)
  /\ starts \in SUBSET Blocks
  /\ sent \in 0 .. MaxMsgs /\ acked \in 0 .. MaxMsgs /\ got \in 0 .. MaxMsgs

(* The blocks between the pointers. *)
Unread ==
  {b \in Blocks : IF rptr <= wptr THEN rptr <= b /\ b < wptr
                                  ELSE rptr <= b \/ b < wptr}

(* What send is about to write: the entry, and its first header. *)
BeingWritten == PayloadBlocks(wptr, plen) \cup {wptr}

(* A send under way never writes where an unread message lies, however far   *)
(* the consumer has moved since the space was checked, wrap-around included. *)
NoOverrun ==
  ppc \in {"header", "payload", "publish"} => BeingWritten \cap Unread = {}

(* The consumer gets the messages in the order they were sent, each once,    *)
(* and every block of the payload it reads belongs to that message.          *)
IntactInOrder ==
  /\ cpc \in {"peeked", "read"} => entry.id = acked + 1
  /\ cpc = "read" => payload = {entry.id}

(* The ring is a FIFO channel: publishing puts a message in, acknowledging   *)
(* takes it out, and what comes out is what was read from the memory.        *)
Channel ==
  INSTANCE FifoChannel WITH
    queue <- [i \in 1 .. (sent - acked) |-> acked + i],
    putIn <- sent,
    out <- got

IsFifoChannel == Channel!Spec

(* An empty ring takes any entry of at most half its size, wherever its      *)
(* pointers stand; a larger one may be refused for ever.                     *)
EmptyTakesHalf ==
  rptr = wptr => \A len \in 1 .. N : 2 * len <= N => HasSpace(wptr, rptr, len)

(* Whatever was published is eventually taken out by a consumer that polls.  *)
EverythingDelivered == \A k \in 1 .. MaxMsgs : sent = k ~> acked >= k

(* What recv returns is what send put in: no unread byte is overwritten, and   *)
(* the entries come whole, in order, each once.                                *)
EntriesIntact == NoOverrun /\ IntactInOrder

=============================================================================
