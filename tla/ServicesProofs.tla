---------------------------- MODULE ServicesProofs ----------------------------
(* Proofs about what the coprocessors' services are reached through: the AFK    *)
(* ring of the EPIC services, for every size of the ring and of its entries;    *)
(* and the audio DMA behind SIO, for any number of periods, tags and stops: the *)
(* driver's books agree with the firmware's, as long as the tags do not come    *)
(* round, also with answers that overtake each other in the mailbox.            *)
EXTENDS AfkRing, SioChannel, Integers, Sequences, FiniteSetTheorems, FunctionTheorems,
        SequenceTheorems, TLAPS

------------------------------------------------------------------------------
(* AfkRing                                                                      *)

(* An entry of len blocks at s lies within the unread blocks. *)
Fits(s, len) ==
  IF Wraps(s, len)
  THEN wptr < rptr /\ rptr <= s /\ len <= wptr
  ELSE IF rptr <= wptr
       THEN rptr <= s /\ s + len <= wptr
       ELSE (rptr <= s /\ s + len <= N) \/ s + len <= wptr

(* Every unread entry is whole: header, sentinel and payload. *)
EntryWhole(s) ==
  /\ hdr[s].id \in 1 .. sent /\ hdr[s].len >= 1
  /\ Fits(s, hdr[s].len)
  /\ Wraps(s, hdr[s].len) => hdr[0] = hdr[s]
  /\ \A b \in PayloadBlocks(s, hdr[s].len) : data[b] = hdr[s].id

(* The entry after it is the next message, up to the write pointer. *)
EntryLinked(s) ==
  LET next == After(s, hdr[s].len)
  IN  /\ next \in starts \/ next = wptr
      /\ next \in starts => hdr[next].id = hdr[s].id + 1
      /\ next = wptr => hdr[s].id = sent

(* Entries do not overlap. *)
Apart(s, t) ==
  /\ s < t => s + hdr[s].len <= t
  /\ Wraps(s, hdr[s].len) => hdr[s].len <= t

StartsInv ==
  /\ starts \subseteq Unread
  /\ rptr # wptr => rptr \in starts /\ hdr[rptr].id = acked + 1
  /\ rptr = wptr => acked = sent

EntriesInv ==
  \A s \in starts :
    EntryWhole(s) /\ EntryLinked(s) /\ \A t \in starts : Apart(s, t)

ProducerInv ==
  /\ ppc \in {"header", "payload", "publish"} =>
       plen >= 1 /\ sent < MaxMsgs /\ HasSpace(wptr, rptr, plen)
  /\ ppc \in {"payload", "publish"} =>
       /\ hdr[wptr] = [id |-> sent + 1, len |-> plen]
       /\ Wraps(wptr, plen) => hdr[0] = [id |-> sent + 1, len |-> plen]
  /\ ppc = "publish" => \A b \in PayloadBlocks(wptr, plen) : data[b] = sent + 1

ConsumerInv ==
  /\ cpc # "idle" => rptr # wptr
  /\ cpc = "wrapped" => rptr = 0 /\ ~Wraps(0, hdr[0].len)
  /\ cpc \in {"peeked", "read"} => entry = hdr[rptr] /\ ~Wraps(rptr, entry.len)
  /\ cpc = "read" => payload = {entry.id}
  /\ got = acked /\ acked <= sent

IInv == TypeOK /\ StartsInv /\ EntriesInv /\ ProducerInv /\ ConsumerInv

ringVars == <<rptr, wptr, hdr, data, starts, sent, acked, got>>

------------------------------------------------------------------------------
LEMMA InitIInv == Init => IInv
<1> SUFFICES ASSUME Init PROVE IInv
  OBVIOUS
<1> USE RingAssumption DEF Init, Blocks, Header, NoHeader
<1>1. TypeOK
  BY DEF TypeOK
<1>2. StartsInv /\ EntriesInv
  BY DEF StartsInv, EntriesInv, Unread
<1>3. ProducerInv /\ ConsumerInv
  BY DEF ProducerInv, ConsumerInv
<1>4. QED
  BY <1>1, <1>2, <1>3 DEF IInv

(* Steps that leave the ring alone keep what the invariant says of it. *)
LEMMA RingUnchanged ==
  ASSUME StartsInv, EntriesInv, UNCHANGED ringVars
  PROVE  StartsInv' /\ EntriesInv'
<1>1. StartsInv'
  BY DEF StartsInv, Unread, ringVars
<1>2. EntriesInv'
  BY DEF EntriesInv, EntryWhole, EntryLinked, Apart, Fits, Wraps, After,
         PayloadBlocks, ringVars
<1>3. QED
  BY <1>1, <1>2

LEMMA SendCheckStep ==
  ASSUME IInv, NEW len \in 1 .. MaxLen, SendCheck(len)
  PROVE  IInv'
<1> USE RingAssumption DEF SendCheck, IInv
<1>1. TypeOK'
  BY DEF TypeOK, consVars
<1>2. StartsInv' /\ EntriesInv'
  BY RingUnchanged DEF ringVars, consVars
<1>3. ProducerInv'
  BY DEF ProducerInv, HasSpace, consVars
<1>4. ConsumerInv'
  BY DEF ConsumerInv, consVars, Wraps
<1>5. QED
  BY <1>1, <1>2, <1>3, <1>4

(* So do steps that write outside the unread entries. *)
LEMMA EntriesKept ==
  ASSUME IInv, UNCHANGED <<rptr, wptr, starts, sent, acked>>,
         \A s \in starts : hdr'[s] = hdr[s],
         \A s \in starts : Wraps(s, hdr[s].len) => hdr'[0] = hdr[0],
         \A s \in starts : \A b \in PayloadBlocks(s, hdr[s].len) : data'[b] = data[b]
  PROVE  StartsInv' /\ EntriesInv'
<1>1. StartsInv'
  BY DEF StartsInv, Unread, IInv
<1>2. ASSUME NEW s \in starts PROVE EntryWhole(s)'
  BY <1>2 DEF EntriesInv, EntryWhole, Fits, Wraps, PayloadBlocks, IInv
<1>3. ASSUME NEW s \in starts PROVE EntryLinked(s)'
  BY <1>3 DEF EntriesInv, EntryLinked, After, Wraps, IInv
<1>4. ASSUME NEW s \in starts, NEW t \in starts PROVE Apart(s, t)'
  BY <1>4 DEF EntriesInv, Apart, Wraps, IInv
<1>5. QED
  BY <1>1, <1>2, <1>3, <1>4 DEF EntriesInv

(* The geometry of a send under way: where its blocks are, and where not. *)
LEMMA SendGeometry ==
  ASSUME IInv, ppc \in {"header", "payload", "publish"}
  PROVE  /\ wptr \in 0 .. N - 1 /\ rptr \in 0 .. N - 1
         /\ plen \in Nat \ {0} /\ sent + 1 \in 1 .. MaxMsgs
         /\ \/ wptr < rptr /\ wptr + plen < rptr
            \/ rptr <= wptr /\ wptr + plen < N
            \/ rptr <= wptr /\ wptr + plen = N /\ rptr > 0
            \/ rptr <= wptr /\ wptr + plen > N /\ plen < rptr
<1> USE RingAssumption
<1>1. wptr \in 0 .. N - 1 /\ rptr \in 0 .. N - 1 /\ plen \in Nat
      /\ sent \in Nat /\ MaxMsgs \in Nat
  BY DEF IInv, TypeOK, Blocks
<1>2. plen >= 1 /\ sent < MaxMsgs /\ HasSpace(wptr, rptr, plen)
  BY DEF IInv, ProducerInv
<1>3. QED
  BY <1>1, <1>2 DEF HasSpace

(* The types of what is known of an unread entry. *)
LEMMA EntryFacts ==
  ASSUME IInv, NEW s \in starts
  PROVE  /\ s \in 0 .. N - 1 /\ hdr[s].len \in Nat \ {0}
         /\ rptr \in 0 .. N - 1 /\ wptr \in 0 .. N - 1 /\ rptr # wptr
         /\ IF rptr < wptr THEN rptr <= s /\ s < wptr ELSE rptr <= s \/ s < wptr
         /\ \/ /\ s + hdr[s].len > N
               /\ wptr < rptr /\ rptr <= s /\ hdr[s].len <= wptr
            \/ /\ s + hdr[s].len <= N
               /\ rptr < wptr /\ rptr <= s /\ s + hdr[s].len <= wptr
            \/ /\ s + hdr[s].len <= N
               /\ wptr < rptr /\ (rptr <= s \/ s + hdr[s].len <= wptr)
<1> USE RingAssumption
<1>1. s \in 0 .. N - 1 /\ rptr \in 0 .. N - 1 /\ wptr \in 0 .. N - 1
  BY DEF IInv, TypeOK, Blocks
<1>2. hdr[s].len \in Nat /\ hdr[s].len >= 1 /\ Fits(s, hdr[s].len)
  BY <1>1 DEF IInv, TypeOK, Blocks, Header, EntriesInv, EntryWhole
<1>3. s \in Unread
  BY DEF IInv, StartsInv
<1>4. QED
  BY <1>1, <1>2, <1>3 DEF Unread, Fits, Wraps

LEMMA SendHeaderStep ==
  ASSUME IInv, SendHeader
  PROVE  IInv'
<1> USE RingAssumption
<1>1. /\ ppc = "header" /\ ppc' = "payload"
      /\ UNCHANGED <<rptr, wptr, data, plen, cpc, entry, payload, starts,
                     sent, acked, got>>
      /\ hdr' = [b \in Blocks |->
                   IF b = wptr \/ (b = 0 /\ Wraps(wptr, plen))
                   THEN [id |-> sent + 1, len |-> plen] ELSE hdr[b]]
  BY DEF SendHeader, consVars
<1>2. [id |-> sent + 1, len |-> plen] \in Header /\ hdr \in [Blocks -> Header]
  BY <1>1, SendGeometry DEF Header, IInv, TypeOK
<1>3. TypeOK'
  <2>1. hdr' \in [Blocks -> Header]
    BY <1>1, <1>2
  <2>2. QED
    BY <1>1, <2>1 DEF IInv, TypeOK
<1>4. ASSUME NEW s \in starts
      PROVE  hdr'[s] = hdr[s] /\ (Wraps(s, hdr[s].len) => hdr'[0] = hdr[0])
  BY SMTT(20), <1>1, <1>2, EntryFacts, SendGeometry DEF Wraps, Blocks
<1>5. StartsInv' /\ EntriesInv'
  BY <1>1, <1>4, EntriesKept
<1>6. ProducerInv'
  BY <1>1, SendGeometry DEF IInv, ProducerInv, HasSpace, Wraps, Blocks
<1>7. ConsumerInv'
  <2>1. rptr # wptr => hdr'[rptr] = hdr[rptr] /\ rptr \in starts
    BY <1>4 DEF IInv, StartsInv
  <2>2. QED
    BY <1>1, <2>1 DEF IInv, ConsumerInv, Wraps
<1>8. QED
  BY <1>3, <1>5, <1>6, <1>7 DEF IInv

LEMMA SendPayloadStep ==
  ASSUME IInv, SendPayload
  PROVE  IInv'
<1> USE RingAssumption
<1>1. /\ ppc = "payload" /\ ppc' = "publish"
      /\ UNCHANGED <<rptr, wptr, hdr, plen, cpc, entry, payload, starts,
                     sent, acked, got>>
      /\ data' = [b \in Blocks |->
                    IF b \in PayloadBlocks(wptr, plen) THEN sent + 1 ELSE data[b]]
  BY DEF SendPayload, consVars
<1>2. TypeOK'
  <2>1. sent + 1 \in 0 .. MaxMsgs /\ data \in [Blocks -> 0 .. MaxMsgs]
    BY <1>1, SendGeometry DEF IInv, TypeOK
  <2>2. data' \in [Blocks -> 0 .. MaxMsgs]
    BY <1>1, <2>1
  <2>3. QED
    BY <1>1, <2>2 DEF IInv, TypeOK
<1>3. ASSUME NEW s \in starts, NEW b \in PayloadBlocks(s, hdr[s].len)
      PROVE  data'[b] = data[b]
  <2> DEFINE len == hdr[s].len
  <2>a. /\ wptr \in 0 .. N - 1 /\ rptr \in 0 .. N - 1 /\ plen \in Nat \ {0}
        /\ s \in 0 .. N - 1 /\ len \in Nat \ {0}
    BY <1>1, EntryFacts, SendGeometry
  <2>b. b \in Int /\ (IF s + len > N THEN 0 <= b /\ b < len ELSE s <= b /\ b < s + len)
    BY <2>a, <1>3 DEF PayloadBlocks, Wraps
  <2>c. b \in Blocks
    BY <2>a, <2>b, EntryFacts DEF Blocks
  <2>d. ~(IF wptr + plen > N THEN 0 <= b /\ b < plen ELSE wptr <= b /\ b < wptr + plen)
    BY <1>1, <2>a, <2>b, EntryFacts, SendGeometry
  <2>1. b \in Blocks /\ b \notin PayloadBlocks(wptr, plen)
    BY <2>a, <2>c, <2>d DEF PayloadBlocks, Wraps
  <2>2. QED
    BY <1>1, <2>1
<1>4. StartsInv' /\ EntriesInv'
  BY <1>1, <1>3, EntriesKept
<1>5. ProducerInv'
  <2>1. ASSUME NEW b \in PayloadBlocks(wptr, plen) PROVE data'[b] = sent + 1
    <3>1. b \in Blocks
      BY <1>1, SendGeometry DEF PayloadBlocks, Wraps, Blocks
    <3>2. QED
      BY <1>1, <3>1, <2>1
  <2>2. QED
    BY <1>1, <2>1 DEF IInv, ProducerInv, HasSpace, Wraps, PayloadBlocks
<1>6. ConsumerInv'
  BY <1>1 DEF IInv, ConsumerInv, Wraps
<1>7. QED
  BY <1>2, <1>4, <1>5, <1>6 DEF IInv

LEMMA SendPublishStep ==
  ASSUME IInv, SendPublish
  PROVE  IInv'
<1> USE RingAssumption
<1>1. /\ ppc = "publish" /\ ppc' = "notify"
      /\ UNCHANGED <<rptr, hdr, data, plen, cpc, entry, payload, acked, got>>
      /\ wptr' = After(wptr, plen)
      /\ starts' = starts \cup {wptr} /\ sent' = sent + 1
  BY DEF SendPublish, consVars
<1>2. /\ wptr \in 0 .. N - 1 /\ rptr \in 0 .. N - 1 /\ plen \in Nat \ {0}
      /\ sent \in Nat /\ sent + 1 \in 1 .. MaxMsgs /\ wptr' \in 0 .. N - 1
      /\ hdr[wptr] = [id |-> sent + 1, len |-> plen]
  <2>1. sent \in Nat
    BY DEF IInv, TypeOK
  <2>2. QED
    BY <1>1, <2>1, SendGeometry DEF After, Wraps, IInv, ProducerInv
<1>3. \/ wptr < rptr /\ wptr + plen < rptr /\ wptr' = wptr + plen
      \/ rptr <= wptr /\ wptr + plen < N /\ wptr' = wptr + plen
      \/ rptr <= wptr /\ wptr + plen = N /\ rptr > 0 /\ wptr' = 0
      \/ rptr <= wptr /\ wptr + plen > N /\ plen < rptr /\ wptr' = plen
  BY <1>1, <1>2, SendGeometry DEF After, Wraps
<1>4. rptr # wptr'
  BY <1>2, <1>3
<1>5. TypeOK'
  BY <1>1, <1>2 DEF IInv, TypeOK, Blocks
<1>6. StartsInv'
  <2>1. ASSUME NEW s \in starts PROVE s \in Unread'
    BY <1>1, <1>2, <1>3, EntryFacts DEF Unread, Blocks
  <2>2. wptr \in Unread'
    BY <1>1, <1>2, <1>3 DEF Unread, Blocks
  <2>3. rptr \in starts' /\ hdr'[rptr].id = acked' + 1
    <3>1. CASE rptr = wptr
      BY <1>1, <1>2, <3>1 DEF IInv, StartsInv
    <3>2. CASE rptr # wptr
      BY <1>1, <3>2 DEF IInv, StartsInv
    <3>3. QED
      BY <3>1, <3>2
  <2>4. QED
    BY <1>1, <1>4, <2>1, <2>2, <2>3 DEF StartsInv
<1>7. wptr' \notin starts'
  BY <1>2, <1>6 DEF StartsInv, Unread
<1>8. ASSUME NEW s \in starts PROVE EntryWhole(s)' /\ EntryLinked(s)'
  <2>1. EntryWhole(s) /\ EntryLinked(s)
    BY DEF IInv, EntriesInv
  <2>2. Fits(s, hdr[s].len)'
    BY <1>1, <1>2, <1>3, EntryFacts DEF Fits, Wraps
  <2>3. EntryWhole(s)'
    BY <1>1, <1>2, <2>1, <2>2 DEF EntryWhole, Wraps, PayloadBlocks
  <2>4. EntryLinked(s)'
    BY <1>1, <1>2, <1>7, <2>1 DEF EntryLinked, After, Wraps
  <2>5. QED
    BY <2>3, <2>4
<1>9. ASSUME NEW s \in {wptr} PROVE EntryWhole(s)' /\ EntryLinked(s)'
  <2>0. s = wptr /\ hdr'[s].id = sent + 1 /\ hdr'[s].len = plen
    BY <1>1, <1>2
  <2>1. Fits(s, plen)'
    BY <1>1, <1>2, <1>3, <2>0 DEF Fits, Wraps
  <2>a. Wraps(s, plen) => hdr'[0] = hdr'[s]
    BY <1>1, <1>2, <2>0 DEF IInv, ProducerInv, Wraps
  <2>b. \A b \in PayloadBlocks(s, plen) : data'[b] = sent + 1
    BY <1>1, <2>0 DEF IInv, ProducerInv
  <2>2. EntryWhole(s)'
    BY <1>1, <1>2, <2>0, <2>1, <2>a, <2>b DEF EntryWhole, Fits, Wraps, PayloadBlocks
  <2>3. EntryLinked(s)'
    BY <1>1, <1>2, <1>7, <2>0 DEF EntryLinked, After, Wraps
  <2>4. QED
    BY <2>2, <2>3
<1>10. ASSUME NEW s \in starts', NEW t \in starts' PROVE Apart(s, t)'
  <2>1. CASE s \in starts /\ t \in starts
    BY <1>1, <2>1 DEF IInv, EntriesInv, Apart, Wraps
  <2>2. CASE s \in starts /\ t = wptr
    BY <1>1, <1>2, <1>3, <2>2, EntryFacts DEF Apart, Wraps
  <2>3. CASE s = wptr /\ t \in starts
    <3>1. /\ t \in 0 .. N - 1 /\ rptr # wptr
          /\ IF rptr < wptr THEN rptr <= t /\ t < wptr ELSE rptr <= t \/ t < wptr
      BY <2>3, EntryFacts
    <3>2. QED
      BY <1>1, <1>2, <1>3, <2>3, <3>1 DEF Apart, Wraps
  <2>4. CASE s = wptr /\ t = wptr
    BY <1>1, <1>2, <1>3, <2>4 DEF Apart, Wraps
  <2>5. QED
    BY <1>1, <2>1, <2>2, <2>3, <2>4
<1>11. EntriesInv'
  BY <1>1, <1>8, <1>9, <1>10 DEF EntriesInv
<1>12. ProducerInv'
  <2>1. ppc' \notin {"header", "payload", "publish"}
    BY <1>1
  <2>2. QED
    BY <2>1 DEF ProducerInv
<1>13. ConsumerInv'
  BY <1>1, <1>2, <1>4 DEF IInv, ConsumerInv, Wraps, TypeOK
<1>14. QED
  BY <1>5, <1>6, <1>11, <1>12, <1>13 DEF IInv

LEMMA SendNotifyStep ==
  ASSUME IInv, SendNotify
  PROVE  IInv'
<1>1. /\ ppc' = "idle" /\ UNCHANGED <<ringVars, plen, cpc, entry, payload>>
  BY DEF SendNotify, consVars, ringVars
<1>2. TypeOK'
  BY <1>1 DEF IInv, TypeOK, ringVars
<1>3. StartsInv' /\ EntriesInv'
  BY <1>1, RingUnchanged DEF IInv
<1>4. ProducerInv' /\ ConsumerInv'
  BY <1>1 DEF IInv, ProducerInv, ConsumerInv, Wraps, ringVars
<1>5. QED
  BY <1>2, <1>3, <1>4 DEF IInv

(* A header at the read pointer is the one of the next message. *)
LEMMA ReadHeader ==
  ASSUME IInv, rptr # wptr
  PROVE  /\ rptr \in starts /\ EntryWhole(rptr) /\ EntryLinked(rptr)
         /\ hdr[rptr] \in Header /\ hdr[rptr].id = acked + 1
         /\ \A t \in starts : Apart(rptr, t)
BY DEF IInv, StartsInv, EntriesInv, TypeOK

LEMMA RecvPeekStep ==
  ASSUME IInv, RecvPeek
  PROVE  IInv'
<1> USE RingAssumption
<1>1. /\ cpc = "idle" /\ rptr # wptr
      /\ UNCHANGED <<wptr, hdr, data, ppc, plen, payload, sent, acked, got>>
  BY DEF RecvPeek, prodVars
<1>2. CASE ~Wraps(rptr, hdr[rptr].len)
  <2>1. UNCHANGED <<rptr, starts>> /\ entry' = hdr[rptr] /\ cpc' = "peeked"
    BY <1>2 DEF RecvPeek
  <2>2. TypeOK'
    BY <1>1, <2>1, ReadHeader DEF IInv, TypeOK
  <2>3. StartsInv' /\ EntriesInv'
    BY <1>1, <2>1, RingUnchanged DEF ringVars, IInv
  <2>4. ProducerInv' /\ ConsumerInv'
    BY <1>1, <1>2, <2>1 DEF IInv, ProducerInv, ConsumerInv, Wraps, HasSpace, PayloadBlocks
  <2>5. QED
    BY <2>2, <2>3, <2>4 DEF IInv
<1>3. CASE Wraps(rptr, hdr[rptr].len)
  <2> DEFINE len == hdr[rptr].len
  <2>1. /\ rptr' = 0 /\ starts' = (starts \ {rptr}) \cup {0}
        /\ cpc' = "wrapped" /\ entry' = entry
    BY <1>3 DEF RecvPeek
  <2>2. /\ rptr \in 0 .. N - 1 /\ wptr \in 0 .. N - 1 /\ len \in Nat \ {0}
        /\ rptr + len > N /\ wptr < rptr /\ len <= wptr
        /\ hdr[0] = hdr[rptr]
    BY <1>1, <1>3, ReadHeader, EntryFacts DEF Wraps, EntryWhole
  <2>3. ASSUME NEW t \in starts, t # rptr
        PROVE  /\ t \in 0 .. N - 1 /\ hdr[t].len \in Nat \ {0}
               /\ len <= t /\ t + hdr[t].len <= wptr
    BY <1>1, <2>2, <2>3, ReadHeader, EntryFacts DEF Apart, Wraps
  <2>4. TypeOK'
    BY <1>1, <2>1, <2>2 DEF IInv, TypeOK, Blocks
  <2>5. StartsInv'
    <3>1. starts' \subseteq Unread'
      BY <1>1, <2>1, <2>2, <2>3 DEF Unread, Blocks
    <3>2. QED
      BY <1>1, <2>1, <2>2, <3>1, ReadHeader DEF StartsInv
  <2>6. ASSUME NEW t \in starts, t # rptr PROVE EntryWhole(t)' /\ EntryLinked(t)'
    <3>1. EntryWhole(t) /\ EntryLinked(t)
      BY DEF IInv, EntriesInv
    <3>2. EntryWhole(t)'
      BY <1>1, <2>1, <2>2, <2>3, <2>6, <3>1 DEF EntryWhole, Fits, Wraps, PayloadBlocks
    <3>3. EntryLinked(t)'
      BY <1>1, <2>1, <2>2, <2>3, <2>6, <3>1 DEF EntryLinked, After, Wraps
    <3>4. QED
      BY <3>2, <3>3
  <2>7. EntryWhole(0)' /\ EntryLinked(0)'
    <3>1. EntryWhole(rptr) /\ EntryLinked(rptr)
      BY <1>1, ReadHeader
    <3>2. EntryWhole(0)'
      BY <1>1, <2>1, <2>2, <3>1 DEF EntryWhole, Fits, Wraps, PayloadBlocks
    <3>3. EntryLinked(0)'
      BY <1>1, <2>1, <2>2, <3>1 DEF EntryLinked, After, Wraps
    <3>4. QED
      BY <3>2, <3>3
  <2>8. ASSUME NEW s \in starts', NEW t \in starts' PROVE Apart(s, t)'
    <3>1. CASE s \in starts \ {rptr} /\ t \in starts \ {rptr}
      BY <1>1, <3>1 DEF IInv, EntriesInv, Apart, Wraps
    <3>2. CASE s \in starts \ {rptr} /\ t = 0
      BY <1>1, <2>2, <2>3, <3>2 DEF Apart, Wraps
    <3>3. CASE s = 0 /\ t \in starts \ {rptr}
      BY <1>1, <2>2, <2>3, <3>3 DEF Apart, Wraps
    <3>4. CASE s = 0 /\ t = 0
      BY <1>1, <2>2, <3>4 DEF Apart, Wraps
    <3>5. QED
      BY <2>1, <3>1, <3>2, <3>3, <3>4
  <2>9. EntriesInv'
    BY <2>1, <2>6, <2>7, <2>8 DEF EntriesInv
  <2>10. ProducerInv'
    <3>1. ppc \in {"header", "payload", "publish"} => HasSpace(wptr, 0, plen)
      BY <2>2, SendGeometry DEF HasSpace
    <3>2. QED
      BY <1>1, <2>1, <3>1 DEF IInv, ProducerInv, Wraps, PayloadBlocks
  <2>11. ConsumerInv'
    BY <1>1, <2>1, <2>2 DEF IInv, ConsumerInv, Wraps
  <2>12. QED
    BY <2>4, <2>5, <2>9, <2>10, <2>11 DEF IInv
<1>4. QED
  BY <1>2, <1>3

LEMMA RecvWrappedStep ==
  ASSUME IInv, RecvWrapped
  PROVE  IInv'
<1> USE RingAssumption
<1>1. /\ cpc = "wrapped" /\ UNCHANGED <<ringVars, ppc, plen, payload>>
      /\ \/ cpc' = "idle" /\ entry' = entry
         \/ cpc' = "peeked" /\ entry' = hdr[0]
  BY DEF RecvWrapped, prodVars, ringVars
<1>2. rptr # wptr /\ rptr = 0 /\ ~Wraps(0, hdr[0].len) /\ hdr[0] \in Header
  BY <1>1, ReadHeader DEF IInv, ConsumerInv
<1>3. TypeOK'
  BY <1>1, <1>2 DEF IInv, TypeOK, ringVars
<1>4. StartsInv' /\ EntriesInv'
  BY <1>1, RingUnchanged DEF IInv
<1>5. ProducerInv' /\ ConsumerInv'
  BY <1>1, <1>2 DEF IInv, ProducerInv, ConsumerInv, Wraps, HasSpace,
                    PayloadBlocks, ringVars
<1>6. QED
  BY <1>3, <1>4, <1>5 DEF IInv

LEMMA RecvPayloadStep ==
  ASSUME IInv, RecvPayload
  PROVE  IInv'
<1> USE RingAssumption
<1>1. /\ cpc = "peeked" /\ cpc' = "read"
      /\ UNCHANGED <<ringVars, ppc, plen, entry>>
      /\ payload' = {data[b] : b \in PayloadBlocks(rptr, entry.len)}
  BY DEF RecvPayload, prodVars, ringVars
<1>2. rptr # wptr /\ entry = hdr[rptr] /\ ~Wraps(rptr, entry.len)
  BY <1>1 DEF IInv, ConsumerInv
<1>3. /\ rptr \in 0 .. N - 1 /\ entry.len \in Nat \ {0}
      /\ entry.id \in 0 .. MaxMsgs
      /\ \A b \in PayloadBlocks(rptr, entry.len) : data[b] = entry.id
  BY <1>2, ReadHeader, EntryFacts DEF EntryWhole, Header
<1>4. payload' = {entry.id}
  <2>1. rptr \in PayloadBlocks(rptr, entry.len)
    BY <1>2, <1>3 DEF PayloadBlocks
  <2>2. QED
    BY <1>1, <1>3, <2>1
<1>5. TypeOK'
  BY <1>1, <1>3, <1>4 DEF IInv, TypeOK, ringVars
<1>6. StartsInv' /\ EntriesInv'
  BY <1>1, RingUnchanged DEF IInv
<1>7. ProducerInv' /\ ConsumerInv'
  BY <1>1, <1>2, <1>4 DEF IInv, ProducerInv, ConsumerInv, Wraps, HasSpace,
                          PayloadBlocks, ringVars
<1>8. QED
  BY <1>5, <1>6, <1>7 DEF IInv

LEMMA RecvAckStep ==
  ASSUME IInv, RecvAck
  PROVE  IInv'
<1> USE RingAssumption
<1> DEFINE len == hdr[rptr].len
<1>1. rptr # wptr /\ entry = hdr[rptr] /\ ~Wraps(rptr, len)
  BY DEF RecvAck, IInv, ConsumerInv
<1>2. /\ rptr \in 0 .. N - 1 /\ wptr \in 0 .. N - 1 /\ len \in Nat \ {0}
      /\ hdr[rptr].id = acked + 1 /\ acked \in Nat /\ sent \in 0 .. MaxMsgs
      /\ acked + 1 \in 1 .. sent
      /\ rptr \in starts
      /\ \/ rptr < wptr /\ rptr + len <= wptr
         \/ wptr < rptr /\ rptr + len <= N
  <2>1. acked \in Nat /\ sent \in 0 .. MaxMsgs
    BY DEF IInv, TypeOK
  <2>2. QED
    BY <1>1, <2>1, ReadHeader, EntryFacts DEF Wraps, EntryWhole
<1>3. /\ cpc = "read" /\ cpc' = "idle" /\ payload' = {}
      /\ UNCHANGED <<wptr, hdr, data, ppc, plen, entry, sent>>
      /\ rptr' = (IF rptr + len >= N THEN 0 ELSE rptr + len)
      /\ starts' = starts \ {rptr} /\ acked' = acked + 1 /\ got' = entry.id
  BY <1>2 DEF RecvAck, prodVars
<1>4. /\ rptr' \in 0 .. N - 1 /\ rptr' = After(rptr, len)
      /\ \/ rptr < wptr /\ rptr' = rptr + len /\ rptr' <= wptr
         \/ wptr < rptr /\ rptr' = rptr + len /\ rptr' < N
         \/ wptr < rptr /\ rptr + len = N /\ rptr' = 0
  BY <1>1, <1>2, <1>3 DEF After, Wraps
<1>5. ASSUME NEW t \in starts'
      PROVE  /\ t \in starts /\ t # rptr /\ t \in 0 .. N - 1
             /\ hdr[t].len \in Nat \ {0} /\ rptr < t => rptr + len <= t
  BY <1>1, <1>3, ReadHeader, EntryFacts DEF Apart
<1>6. TypeOK'
  BY <1>1, <1>2, <1>3, <1>4, SMTT(30) DEF IInv, TypeOK, Blocks
<1>7. rptr' # wptr => rptr' \in starts' /\ hdr'[rptr'].id = acked' + 1
  BY <1>1, <1>2, <1>3, <1>4, ReadHeader DEF EntryLinked
<1>8. rptr' = wptr => acked' = sent
  BY <1>1, <1>2, <1>3, <1>4, ReadHeader DEF EntryLinked
<1>9. StartsInv'
  <2>1. ASSUME NEW t \in starts' PROVE t \in Unread'
    BY <1>2, <1>3, <1>4, <1>5, EntryFacts DEF Unread, Blocks
  <2>2. QED
    BY <1>3, <1>7, <1>8, <2>1 DEF StartsInv
<1>10. ASSUME NEW t \in starts' PROVE EntryWhole(t)' /\ EntryLinked(t)'
  <2>1. EntryWhole(t) /\ EntryLinked(t)
    BY <1>5 DEF IInv, EntriesInv
  <2>2. Fits(t, hdr[t].len)'
    BY <1>2, <1>3, <1>4, <1>5, EntryFacts DEF Fits, Wraps
  <2>3. EntryWhole(t)'
    BY <1>3, <2>1, <2>2 DEF EntryWhole, Wraps, PayloadBlocks
  <2>4. After(t, hdr[t].len) # rptr
    BY <1>2, <1>5, EntryFacts DEF After, Wraps
  <2>5. EntryLinked(t)'
    BY <1>3, <2>1, <2>4 DEF EntryLinked, After, Wraps
  <2>6. QED
    BY <2>3, <2>5
<1>11. ASSUME NEW s \in starts', NEW t \in starts' PROVE Apart(s, t)'
  BY <1>3 DEF IInv, EntriesInv, Apart, Wraps
<1>12. EntriesInv'
  BY <1>10, <1>11 DEF EntriesInv
<1>13. ProducerInv'
  <2>1. ppc \in {"header", "payload", "publish"} => HasSpace(wptr, rptr', plen)
    BY <1>2, <1>4, SendGeometry DEF HasSpace
  <2>2. QED
    BY <1>3, <2>1 DEF IInv, ProducerInv, HasSpace, Wraps, PayloadBlocks
<1>14. ConsumerInv'
  BY <1>1, <1>2, <1>3 DEF IInv, ConsumerInv
<1>15. QED
  BY <1>6, <1>9, <1>12, <1>13, <1>14 DEF IInv

------------------------------------------------------------------------------
(* The inductive invariant holds in every reachable state, whatever the size *)
(* of the ring and the lengths of the entries.                               *)
THEOREM Invariance == Spec => []IInv
<1>1. Init => IInv
  BY InitIInv
<1>2. IInv /\ [Next]_vars => IInv'
  <2> SUFFICES ASSUME IInv, [Next]_vars PROVE IInv'
    OBVIOUS
  <2>1. CASE \E len \in 1 .. MaxLen : SendCheck(len)
    BY <2>1, SendCheckStep
  <2>2. CASE Send
    BY <2>2, SendHeaderStep, SendPayloadStep, SendPublishStep, SendNotifyStep DEF Send
  <2>3. CASE Recv
    BY <2>3, RecvPeekStep, RecvWrappedStep, RecvPayloadStep, RecvAckStep DEF Recv
  <2>4. CASE UNCHANGED vars
    <3>1. UNCHANGED <<ringVars, ppc, plen, cpc, entry, payload>>
      BY <2>4 DEF vars, ringVars, prodVars, consVars
    <3>2. TypeOK'
      BY <3>1 DEF IInv, TypeOK, ringVars
    <3>3. StartsInv' /\ EntriesInv'
      BY <3>1, RingUnchanged DEF IInv
    <3>4. ProducerInv' /\ ConsumerInv'
      BY <3>1 DEF IInv, ProducerInv, ConsumerInv, HasSpace, Wraps, PayloadBlocks,
                  ringVars
    <3>5. QED
      BY <3>2, <3>3, <3>4 DEF IInv
  <2>5. QED
    BY <2>1, <2>2, <2>3, <2>4 DEF Next
<1>3. QED
  BY <1>1, <1>2, PTL DEF Spec

(* Types: the pointers and headers of the ring stay in range. *)
THEOREM TypeCorrect == Spec => []TypeOK
<1>1. IInv => TypeOK
  BY DEF IInv
<1>2. QED
  BY <1>1, Invariance, PTL

(* send, whenever it writes, writes outside the blocks its peer has not read:*)
(* has_space is enough even though the peer moves the pointer meanwhile.     *)
THEOREM NeverOverruns == Spec => []NoOverrun
<1> USE RingAssumption
<1>1. IInv => NoOverrun
  <2> SUFFICES ASSUME IInv, ppc \in {"header", "payload", "publish"},
                      NEW b \in BeingWritten, b \in Unread
               PROVE  FALSE
    BY DEF NoOverrun
  <2>1. /\ b \in 0 .. N - 1
        /\ IF rptr <= wptr THEN rptr <= b /\ b < wptr ELSE rptr <= b \/ b < wptr
    BY DEF Unread, Blocks
  <2>2. b = wptr \/ (IF wptr + plen > N THEN b < plen
                                       ELSE wptr <= b /\ b < wptr + plen)
    BY SendGeometry, <2>1 DEF BeingWritten, PayloadBlocks, Wraps
  <2>3. QED
    BY SendGeometry, <2>1, <2>2
<1>2. QED
  BY <1>1, Invariance, PTL

(* recv hands out the messages in order, each once, with its own payload.    *)
THEOREM DeliversIntactInOrder == Spec => []IntactInOrder
<1>1. IInv => IntactInOrder
  <2> SUFFICES ASSUME IInv PROVE IntactInOrder
    OBVIOUS
  <2>1. cpc \in {"peeked", "read"} => entry.id = acked + 1
    BY ReadHeader DEF IInv, ConsumerInv
  <2>2. cpc = "read" => payload = {entry.id}
    BY DEF IInv, ConsumerInv
  <2>3. QED
    BY <2>1, <2>2 DEF IntactInOrder
<1>2. QED
  BY <1>1, Invariance, PTL

(* recv as its callers see it: whole entries, in order, none overwritten.     *)
THEOREM EntriesStayIntact == Spec => []EntriesIntact
<1>1. NoOverrun /\ IntactInOrder => EntriesIntact
  BY DEF EntriesIntact
<1>2. QED
  BY <1>1, NeverOverruns, DeliversIntactInOrder, PTL

(* has_space accepts any entry of at most half the ring when it is empty.    *)
THEOREM EmptyRingTakesHalf == Spec => []EmptyTakesHalf
<1> USE RingAssumption
<1>1. IInv => EmptyTakesHalf
  <2> SUFFICES ASSUME IInv, rptr = wptr, NEW len \in 1 .. N, 2 * len <= N
               PROVE  HasSpace(wptr, rptr, len)
    BY DEF EmptyTakesHalf
  <2>1. wptr \in 0 .. N - 1
    BY DEF IInv, TypeOK, Blocks
  <2>2. QED
    BY <2>1 DEF HasSpace
<1>2. QED
  BY <1>1, Invariance, PTL

------------------------------------------------------------------------------
(* Refinement: the messages after the a-th, up to the s-th, as a queue. *)
Between(a, s) == [i \in 1 .. (s - a) |-> a + i]

LEMMA QueueEmpty == ASSUME NEW a \in Nat PROVE Between(a, a) = <<>>
  BY DEF Between

LEMMA QueueGrows ==
  ASSUME NEW a \in Nat, NEW s \in Nat, a <= s
  PROVE  Between(a, s + 1) = Append(Between(a, s), s + 1)
<1> DEFINE q == Between(a, s)
           r == Append(q, s + 1)
<1>1. q \in Seq(Nat) /\ Len(q) = s - a
  BY DEF Between
<1>2. r \in Seq(Nat) /\ Len(r) = s - a + 1
  BY <1>1
<1>3. \A i \in 1 .. (s - a + 1) : r[i] = a + i
  BY <1>1 DEF Between
<1>4. DOMAIN r = 1 .. (s + 1 - a) /\ r = [i \in 1 .. (s + 1 - a) |-> r[i]]
  BY <1>2
<1>5. QED
  BY <1>3, <1>4 DEF Between

LEMMA SeqIsFunction ==
  ASSUME NEW t \in Seq(Nat)
  PROVE  t = [i \in 1 .. Len(t) |-> t[i]]
  OBVIOUS

LEMMA QueueShrinks ==
  ASSUME NEW a \in Nat, NEW s \in Nat, a < s
  PROVE  /\ Between(a, s) # <<>>
         /\ Head(Between(a, s)) = a + 1
         /\ Tail(Between(a, s)) = Between(a + 1, s)
<1> DEFINE q == Between(a, s)
<1>1. q \in Seq(Nat) /\ Len(q) = s - a /\ q # <<>>
  BY DEF Between
<1>2. Head(q) = a + 1
  BY <1>1 DEF Between
<1>3. Tail(q) \in Seq(Nat) /\ Len(Tail(q)) = s - a - 1
  BY <1>1
<1>4. \A i \in 1 .. (s - a - 1) : Tail(q)[i] = (a + 1) + i
  BY <1>1 DEF Between
<1>5. Tail(q) = [i \in 1 .. Len(Tail(q)) |-> Tail(q)[i]]
  BY <1>3, SeqIsFunction
<1>6. Tail(q) = Between(a + 1, s)
  <2>1. Len(Tail(q)) = s - (a + 1)
    BY <1>3
  <2>2. [i \in 1 .. Len(Tail(q)) |-> Tail(q)[i]]
          = [i \in 1 .. (s - (a + 1)) |-> (a + 1) + i]
    BY <1>4, <2>1
  <2>3. QED
    BY <1>5, <2>2 DEF Between
<1>7. QED
  BY <1>1, <1>2, <1>6

(* The ring implements the channel: SendPublish puts a message in, RecvAck   *)
(* takes the oldest out, and no other step of either end shows.              *)
THEOREM ImplementsChannel == Spec => IsFifoChannel
<1> DEFINE chan == <<[i \in 1 .. (sent - acked) |-> acked + i], sent, got>>
<1>1. Init => Channel!Init
  BY QueueEmpty DEF Init, Channel!Init, Between
<1>2. IInv /\ [Next]_vars => [Channel!Next]_chan
  <2> SUFFICES ASSUME IInv, [Next]_vars PROVE Channel!Next \/ UNCHANGED chan
    OBVIOUS
  <2>1. sent \in Nat /\ acked \in Nat /\ acked <= sent /\ got = acked
    BY RingAssumption DEF IInv, TypeOK, ConsumerInv
  <2>2. CASE SendPublish
    <3>1. sent' = sent + 1 /\ acked' = acked /\ got' = got /\ sent < MaxMsgs
      BY <2>2 DEF SendPublish, IInv, ProducerInv
    <3>2. Between(acked, sent + 1) = Append(Between(acked, sent), sent + 1)
      BY <2>1, QueueGrows
    <3>3. Channel!Put
      BY <3>1, <3>2 DEF Channel!Put, Between
    <3>4. QED
      BY <3>3 DEF Channel!Next
  <2>3. CASE RecvAck
    <3>1. CASE hdr[rptr].id = 0
      BY <2>3, <3>1 DEF RecvAck
    <3>2. CASE hdr[rptr].id # 0
      <4>1. acked' = acked + 1 /\ got' = entry.id /\ sent' = sent
        BY <2>3, <3>2 DEF RecvAck
      <4>2. acked < sent /\ entry.id = acked + 1
        <5>1. rptr \in starts /\ hdr[rptr].id = acked + 1 /\ entry = hdr[rptr]
          BY <2>3 DEF RecvAck, IInv, ConsumerInv, StartsInv
        <5>2. hdr[rptr].id \in 1 .. sent
          BY <5>1 DEF IInv, EntriesInv, EntryWhole
        <5>3. QED
          BY <2>1, <5>1, <5>2
      <4>3. /\ Between(acked, sent) # <<>>
            /\ Head(Between(acked, sent)) = acked + 1
            /\ Tail(Between(acked, sent)) = Between(acked + 1, sent)
        BY <2>1, <4>2, QueueShrinks
      <4>4. Channel!Take
        BY <4>1, <4>2, <4>3 DEF Channel!Take, Between
      <4>5. QED
        BY <4>4 DEF Channel!Next
    <3>3. QED
      BY <3>1, <3>2
  <2>4. CASE UNCHANGED <<sent, acked, got>>
    BY <2>4
  <2>5. QED
    BY <2>2, <2>3, <2>4
    DEF Next, Send, Recv, SendCheck, SendHeader, SendPayload, SendNotify,
        RecvPeek, RecvWrapped, RecvPayload, vars
<1>3. QED
  BY <1>1, <1>2, Invariance, PTL DEF Spec, IsFifoChannel, Channel!Spec

------------------------------------------------------------------------------
(* SioChannel                                                                   *)

(* Types, without the bounds that matter to TLC alone *)
Transfers ==
  [nextIssue : Periods, nextReport : Periods, inflight : Nat, issuePending : BOOLEAN,
   committed : SUBSET Periods, issued : SUBSET Periods, terminated : BOOLEAN, gen : Nat]
Entries == [kind : {"free", "sync", "issue"}, gen : Nat, result : {"none", "ack", "nack"}]
ClientHolds == {"start", "issueMark", "issueSend", "stopMark", "termSend", "termWait",
                "stopWait", "reset", "resetCount"}
WorkerAt == {"issueGen", "issueLock", "issueMark", "issueSend", "top", "wait", "sleep"}
Places == ClientHolds \cup WorkerAt \cup {"idle", "stopped"}
Drainings == {"out", "enter", "take", "recv", "fifo", "count", "countKick", "clear", "recheck"}
Requests == [type : {"issue", "terminate"}, tag : Tags, period : Periods]
Answers == [type : {"ack", "nack", "report"}, tag : 0 .. NTags, period : Periods]

TxTypeOK == tx \in Transfers /\ running \in BOOLEAN /\ error \in BOOLEAN
TagTypeOK == tags \in [Tags -> Entries] /\ last \in 0 .. NTags /\ ctag \in 0 .. NTags
TaskTypeOK == pc \in [SioTasks -> Places] /\ dpc \in [SioTasks -> Drainings] /\ draining \in BOOLEAN
MailTypeOK ==
  /\ a2i \in Seq(Requests) /\ i2a \in Seq(Answers) /\ fwq \in Seq(Periods)
  /\ queued \in Nat /\ claimed \in Nat /\ queued + claimed <= Len(i2a)
CountTypeOK == completed \in Nat /\ earned \in Nat /\ overtook \in BOOLEAN /\ dropped \in BOOLEAN
SioTypes == TxTypeOK /\ TagTypeOK /\ TaskTypeOK /\ MailTypeOK /\ CountTypeOK

------------------------------------------------------------------------------
(* Who owes what *)
IsReply(i) == i \in DOMAIN i2a /\ i2a[i].type # "report"
IsReport(i) == i \in DOMAIN i2a /\ i2a[i].type = "report"
ForIssue(t) == t \in Tags /\ tags[t].kind = "issue"

(* Requests sent and not yet answered have tags of their own, the ones the    *)
(* driver has given up included.                                              *)
TagsApart ==
  /\ \A i \in DOMAIN i2a : IsReply(i) => i2a[i].tag \in Tags
  /\ \A i, j \in DOMAIN i2a : IsReply(i) /\ IsReply(j) /\ i2a[i].tag = i2a[j].tag => i = j
  /\ \A i, j \in DOMAIN a2i : a2i[i].tag = a2i[j].tag => i = j
  /\ \A i \in DOMAIN i2a, j \in DOMAIN a2i : IsReply(i) => i2a[i].tag # a2i[j].tag

(* One ISSUE at most is on its way, under the one tag that is kept for it.     *)
OneIssue ==
  /\ \A j \in DOMAIN a2i : (a2i[j].type = "issue") <=> ForIssue(a2i[j].tag)
  /\ \A s, t \in Tags : ForIssue(s) /\ ForIssue(t) => s = t
  /\ \A t \in Tags : ForIssue(t) => tags[t].gen = tx.gen /\ tx.issuePending
  /\ \A t \in Tags : ForIssue(t) =>
       (\E i \in DOMAIN i2a : IsReply(i) /\ i2a[i].tag = t) \/ (\E j \in DOMAIN a2i : a2i[j].tag = t)

(* A marked period is sent by the task that marked it or has a tag.           *)
OneSender ==
  /\ tx.issuePending => (\E t \in Tags : ForIssue(t)) \/ (\E t \in SioTasks : pc[t] = "issueSend")
  /\ \A t \in SioTasks : pc[t] = "issueSend" => tx.issuePending /\ \A s \in Tags : ~ForIssue(s)

(* Only a stop that waits has a tag for its call. *)
OneCall ==
  /\ \A t \in Tags : tags[t].kind = "sync" => pc["client"] = "termWait" /\ t = ctag
  /\ pc["client"] = "termWait" => ctag \in Tags /\ tags[ctag].kind = "sync"
  /\ \A t \in Tags : tags[t].result # "none" => tags[t].kind = "sync"

LockOK ==
  /\ pc["client"] \in ClientHolds => issueLock = {"client"}
  /\ pc["worker"] \in {"issueMark", "issueSend"} => issueLock = {"worker"}
  /\ pc["worker"] \in WorkerAt

------------------------------------------------------------------------------
(* The ring: its distances are counted from the period reported next. *)
Behind(r, p) == IF p >= r THEN p - r ELSE p + NPeriods - r
Dist(p) == Behind(tx.nextReport, p)
AcceptedAt(i) == IsReply(i) /\ i2a[i].type = "ack" /\ ForIssue(i2a[i].tag)
Accepted == \E i \in DOMAIN i2a : AcceptedAt(i)
Taken == tx.inflight + (IF Accepted THEN 1 ELSE 0)

RingOK ==
  /\ tx.inflight <= NPeriods
  /\ Dist(tx.nextIssue) = IF tx.inflight = NPeriods THEN 0 ELSE tx.inflight
  /\ \A p \in Periods : p \in tx.issued <=> Dist(p) < tx.inflight
  /\ tx.issued \subseteq tx.committed
  /\ tx.issuePending => tx.nextIssue \in tx.committed \ tx.issued
  /\ \A j \in DOMAIN a2i : a2i[j].type = "issue" => a2i[j].period = tx.nextIssue

(* What the firmware has been given and the driver counts, in flight or with   *)
(* its acknowledgement unread: reported and not read yet, thrown away, or with *)
(* the firmware, which has the periods that come last, in ring order.  This   *)
(* holds whatever the order of reading.                                       *)
Reports(s) == {i \in DOMAIN s : s[i].type = "report"}
CountReports(s) == Cardinality(Reports(s))
Unseen == CountReports(i2a)
Thrown == IF dropped THEN 1 ELSE 0
WindowOK ==
  /\ Taken = Unseen + Thrown + Len(fwq)
  /\ \A j \in DOMAIN fwq : Dist(fwq[j]) = Unseen + Thrown + j - 1

(* Read in order, the reports are for the first periods of the window, and one *)
(* for a period not yet counted comes after its acknowledgement.              *)
FirmwareOK ==
  /\ \A i \in DOMAIN i2a : IsReport(i) => Dist(i2a[i].period) < Unseen
  /\ \A i \in DOMAIN i2a : IsReport(i) /\ Dist(i2a[i].period) = tx.inflight =>
       \E j \in DOMAIN i2a : AcceptedAt(j) /\ j < i
  /\ \A i, k \in DOMAIN i2a : IsReport(i) /\ IsReport(k) /\ i < k => Dist(i2a[i].period) < Dist(i2a[k].period)
  /\ \A p \in Periods : Dist(p) < Unseen => \E i \in DOMAIN i2a : IsReport(i) /\ i2a[i].period = p

(* Only a receive that overtakes has a report thrown away.                    *)
OrderOK == (dropped => overtook) /\ (overtook \/ FirmwareOK)

------------------------------------------------------------------------------
(* Draining, stopping and counting *)
InsideAt == {"take", "recv", "fifo", "count", "countKick", "clear"}
CountingAt == {"count", "countKick"}
Counting == \E t \in SioTasks : dpc[t] \in CountingAt

DrainOK ==
  /\ draining <=> \E t \in SioTasks : dpc[t] \in InsideAt
  /\ ~(dpc["client"] \in InsideAt /\ dpc["worker"] \in InsideAt)
  /\ pc["client"] \in {"idle", "issueMark", "issueSend", "termSend", "reset", "resetCount", "stopped"}
       => dpc["client"] = "out"
  /\ pc["worker"] \in {"issueLock", "issueMark", "issueSend", "top", "wait", "sleep"}
       => dpc["worker"] = "out"

StopOK ==
  /\ tx.inflight > 0 \/ tx.issuePending \/ Counting => running \/ tx.terminated
  /\ pc["client"] \in {"termSend", "termWait", "stopWait"} => tx.terminated /\ ~running
  /\ pc["client"] \in {"reset", "resetCount", "stopped"} => tx.inflight = 0 /\ ~tx.issuePending /\ ~running
  /\ pc["client"] \in {"stopWait", "reset", "resetCount"} => ~Counting
  /\ pc["client"] = "termWait" /\ tags[ctag].result # "none" => ~Counting

CountOK == completed + (IF Counting THEN 1 ELSE 0) <= earned

MailOK == TagsApart /\ OneIssue /\ RingOK /\ WindowOK /\ OrderOK
TasksOK == OneSender /\ OneCall /\ LockOK /\ DrainOK /\ StopOK /\ CountOK
SioInv == SioTypes /\ MailOK /\ TasksOK

(* Tags whose request is not answered, as far as the mailbox knows, and what  *)
(* must not happen to them: that one is given to the next request.            *)
Owed == {i2a[i].tag : i \in {i \in DOMAIN i2a : IsReply(i)}} \cup {a2i[j].tag : j \in DOMAIN a2i}
Sending == pc["worker"] = "issueSend" \/ pc["client"] \in {"issueSend", "termSend"}
NoTagComesRound == Sending => NextTag \cap Owed = {}

------------------------------------------------------------------------------
(* Sequences, by index *)
LEMMA AppendAt ==
  ASSUME NEW S, NEW s \in Seq(S), NEW x \in S, NEW u, u = Append(s, x)
  PROVE  /\ u \in Seq(S) /\ Len(s) \in Nat
         /\ DOMAIN s = 1 .. Len(s) /\ DOMAIN u = 1 .. Len(s) + 1
         /\ \A i \in DOMAIN s : i \in DOMAIN u /\ u[i] = s[i]
         /\ u[Len(s) + 1] = x
<1>1. Len(s) \in Nat /\ DOMAIN s = 1 .. Len(s) /\ u \in Seq(S) /\ Len(u) = Len(s) + 1
  BY AppendProperties, LenProperties
<1>2. DOMAIN u = 1 .. Len(s) + 1
  BY <1>1, LenProperties
<1>3. (\A i \in 1 .. Len(s) : u[i] = s[i]) /\ u[Len(s) + 1] = x
  BY AppendProperties
<1>4. QED
  BY <1>1, <1>2, <1>3

LEMMA TailAt ==
  ASSUME NEW S, NEW s \in Seq(S), s # <<>>, NEW u, u = Tail(s)
  PROVE  /\ u \in Seq(S) /\ Len(s) \in Nat \ {0}
         /\ DOMAIN s = 1 .. Len(s) /\ DOMAIN u = 1 .. (Len(s) - 1)
         /\ Head(s) = s[1] /\ s[1] \in S
         /\ \A i \in DOMAIN u : i + 1 \in DOMAIN s /\ u[i] = s[i + 1]
<1>1. /\ u \in Seq(S) /\ Len(u) = Len(s) - 1 /\ Len(s) \in Nat \ {0} /\ Head(s) = s[1]
      /\ s[1] \in S /\ \A i \in 1 .. Len(u) : u[i] = s[i + 1]
  BY HeadTailProperties, EmptySeq, ElementOfSeq, LenProperties
<1>2. DOMAIN s = 1 .. Len(s) /\ DOMAIN u = 1 .. Len(u)
  BY <1>1, LenProperties
<1>3. QED
  BY <1>1, <1>2

LEMMA SeqAt ==
  ASSUME NEW S, NEW s \in Seq(S)
  PROVE  /\ Len(s) \in Nat /\ DOMAIN s = 1 .. Len(s) /\ (s # <<>> <=> Len(s) > 0)
         /\ \A i \in DOMAIN s : s[i] \in S
  BY LenProperties, EmptySeq, ElementOfSeq

------------------------------------------------------------------------------
(* How many reports a sequence holds *)
LEMMA CountAt ==
  ASSUME NEW S, NEW s \in Seq(S)
  PROVE  /\ IsFiniteSet(Reports(s)) /\ CountReports(s) \in Nat
         /\ \A i \in DOMAIN s : s[i].type = "report" => CountReports(s) > 0
         /\ (\A i \in DOMAIN s : s[i].type # "report") => CountReports(s) = 0
<1>1. Len(s) \in Nat /\ DOMAIN s = 1 .. Len(s)
  BY SeqAt
<1>2. IsFiniteSet(1 .. Len(s)) /\ Reports(s) \in SUBSET (1 .. Len(s))
  BY <1>1, FS_Interval DEF Reports
<1>3. IsFiniteSet(Reports(s))
  BY <1>2, FS_Subset
<1>4. CountReports(s) \in Nat /\ (CountReports(s) = 0 <=> Reports(s) = {})
  BY <1>3, FS_CardinalityType, FS_EmptySet DEF CountReports
<1>5. \A i \in DOMAIN s : s[i].type = "report" => Reports(s) # {}
  BY DEF Reports
<1>6. (\A i \in DOMAIN s : s[i].type # "report") => Reports(s) = {}
  BY DEF Reports
<1>7. QED
  BY <1>3, <1>4, <1>5, <1>6

LEMMA CountAppend ==
  ASSUME NEW S, NEW s \in Seq(S), NEW x \in S, NEW u, u = Append(s, x)
  PROVE  CountReports(u) = CountReports(s) + (IF x.type = "report" THEN 1 ELSE 0)
<1>1. /\ Len(s) \in Nat /\ DOMAIN s = 1 .. Len(s) /\ DOMAIN u = 1 .. Len(s) + 1
      /\ \A i \in DOMAIN s : i \in DOMAIN u /\ u[i] = s[i]
      /\ u[Len(s) + 1] = x
  BY AppendAt
<1>2. IsFiniteSet(Reports(s)) /\ CountReports(s) \in Nat
  BY CountAt
<1>3. CASE x.type = "report"
  <2>1. Reports(u) = Reports(s) \cup {Len(s) + 1} /\ Len(s) + 1 \notin Reports(s)
    BY <1>1, <1>3 DEF Reports
  <2>2. Cardinality(Reports(u)) = Cardinality(Reports(s)) + 1
    BY <1>2, <2>1, FS_AddElement
  <2>3. QED
    BY <1>3, <2>2 DEF CountReports
<1>4. CASE x.type # "report"
  <2>1. Reports(u) = Reports(s)
    BY <1>1, <1>4 DEF Reports
  <2>2. QED
    BY <1>2, <1>4, <2>1 DEF CountReports
<1>5. QED
  BY <1>3, <1>4

(* Places before and after the message at k is taken away.                    *)
Cut(s, k) == [i \in 1 .. Len(s) - 1 |-> IF i < k THEN s[i] ELSE s[i + 1]]
Up(k, i) == IF i < k THEN i ELSE i + 1
Down(k, i) == IF i < k THEN i ELSE i - 1

LEMMA WithoutAt ==
  ASSUME NEW S, NEW s \in Seq(S), NEW k \in DOMAIN s,
         NEW u, u = Cut(s, k)
  PROVE  /\ u \in Seq(S) /\ Len(s) \in Nat \ {0} /\ Len(u) = Len(s) - 1
         /\ DOMAIN s = 1 .. Len(s) /\ DOMAIN u = 1 .. (Len(s) - 1)
         /\ \A i \in DOMAIN u : Up(k, i) \in DOMAIN s \ {k} /\ u[i] = s[Up(k, i)] /\ Down(k, Up(k, i)) = i
         /\ \A i \in DOMAIN s \ {k} : Down(k, i) \in DOMAIN u /\ u[Down(k, i)] = s[i] /\ Up(k, Down(k, i)) = i
         /\ \A i, j \in DOMAIN u : i < j => Up(k, i) < Up(k, j)
         /\ \A i, j \in DOMAIN s \ {k} : i < j => Down(k, i) < Down(k, j)
         /\ \A i \in DOMAIN u, j \in DOMAIN s \ {k} : j < Up(k, i) => Down(k, j) < i
<1>1. /\ Len(s) \in Nat /\ DOMAIN s = 1 .. Len(s) /\ \A i \in DOMAIN s : s[i] \in S
      /\ k \in 1 .. Len(s)
  BY SeqAt
<1>2. DOMAIN u = 1 .. (Len(s) - 1) /\ Len(s) - 1 \in Nat
  BY <1>1 DEF Cut
<1>3. \A i \in DOMAIN u : Up(k, i) \in DOMAIN s \ {k} /\ u[i] = s[Up(k, i)] /\ Down(k, Up(k, i)) = i
  BY <1>1, <1>2 DEF Up, Down, Cut
<1>4. \A i \in DOMAIN u : u[i] \in S
  BY <1>1, <1>3
<1>5. u \in Seq(S) /\ Len(u) = Len(s) - 1
  <2>1. u \in [1 .. (Len(s) - 1) -> S]
    BY <1>1, <1>2, <1>4 DEF Cut
  <2>2. u \in Seq(S)
    BY <1>2, <2>1, SeqDef
  <2>3. QED
    BY <1>2, <2>2, LenProperties
<1>6. \A i \in DOMAIN s \ {k} : Down(k, i) \in DOMAIN u /\ Up(k, Down(k, i)) = i
  BY <1>1, <1>2 DEF Up, Down
<1>7. \A i \in DOMAIN s \ {k} : u[Down(k, i)] = s[i]
  BY <1>3, <1>6
<1>8. /\ \A i, j \in DOMAIN u : i < j => Up(k, i) < Up(k, j)
      /\ \A i, j \in DOMAIN s \ {k} : i < j => Down(k, i) < Down(k, j)
      /\ \A i \in DOMAIN u, j \in DOMAIN s \ {k} : j < Up(k, i) => Down(k, j) < i
  BY <1>1, <1>2 DEF Up, Down
<1>9. QED
  BY <1>1, <1>2, <1>3, <1>5, <1>6, <1>7, <1>8

LEMMA CountWithout ==
  ASSUME NEW S, NEW s \in Seq(S), NEW k \in DOMAIN s,
         NEW u, u = Cut(s, k)
  PROVE  CountReports(s) = CountReports(u) + (IF s[k].type = "report" THEN 1 ELSE 0)
<1>1. /\ \A i \in DOMAIN u : Up(k, i) \in DOMAIN s \ {k} /\ u[i] = s[Up(k, i)] /\ Down(k, Up(k, i)) = i
      /\ \A i \in DOMAIN s \ {k} : Down(k, i) \in DOMAIN u /\ u[Down(k, i)] = s[i] /\ Up(k, Down(k, i)) = i
      /\ u \in Seq(S)
  BY WithoutAt
<1>2. /\ IsFiniteSet(Reports(s)) /\ CountReports(s) \in Nat /\ IsFiniteSet(Reports(u)) /\ CountReports(u) \in Nat
  BY <1>1, CountAt
<1> DEFINE f == [i \in Reports(u) |-> Up(k, i)]
           T == Reports(s) \ {k}
<1>3. f \in [Reports(u) -> T] /\ \A i \in Reports(u) : f[i] = Up(k, i)
  BY <1>1 DEF Reports
<1>4. \A a, b \in Reports(u) : f[a] = f[b] => a = b
  BY <1>1, <1>3 DEF Reports
<1>5. \A j \in T : Down(k, j) \in Reports(u) /\ f[Down(k, j)] = j
  BY <1>1, <1>3 DEF Reports
<1>6. \A j \in T : \E i \in Reports(u) : f[i] = j
  BY <1>5
<1> HIDE DEF f
<1>7. f \in Bijection(Reports(u), T)
  BY <1>3, <1>4, <1>6, Fun_IsBij
<1>8. ExistsBijection(Reports(u), T)
  BY <1>7 DEF ExistsBijection
<1>9. Cardinality(T) = Cardinality(Reports(u))
  BY <1>2, <1>8, FS_Bijection
<1>10. Cardinality(T) = IF k \in Reports(s) THEN Cardinality(Reports(s)) - 1 ELSE Cardinality(Reports(s))
  BY <1>2, FS_RemoveElement
<1>11. k \in Reports(s) <=> s[k].type = "report"
  BY DEF Reports
<1>12. QED
  BY <1>2, <1>9, <1>10, <1>11 DEF CountReports

------------------------------------------------------------------------------
(* The ring *)
LEMMA SmallMod ==
  ASSUME NEW m \in Nat, NEW a \in Nat, a < m
  PROVE  a % m = a
<1> DEFINE q == a \div m
           r == a % m
<1>1. q \in Int /\ r \in Int /\ a = m * q + r /\ 0 <= r /\ r < m
  OBVIOUS
<1> HIDE DEF q, r
<1>2. \A k \in Int : (k >= 1 => m * k >= m) /\ (k <= -1 => m * k <= -m)
  OBVIOUS
<1>3. q = 0
  BY <1>1, <1>2
<1>4. r = a
  BY <1>1, <1>3
<1>5. QED
  BY <1>4 DEF r

LEMMA FullMod ==
  ASSUME NEW m \in Nat, m > 0
  PROVE  m % m = 0
<1> DEFINE q == m \div m
           r == m % m
<1>1. q \in Int /\ r \in Int /\ m = m * q + r /\ 0 <= r /\ r < m
  OBVIOUS
<1> HIDE DEF q, r
<1>2. \A k \in Int : (k >= 2 => m * k >= m + m) /\ (k <= 0 => m * k <= 0)
  OBVIOUS
<1>3. q = 1
  BY <1>1, <1>2
<1>4. r = 0
  BY <1>1, <1>3
<1>5. QED
  BY <1>4 DEF r

LEMMA FollowingIs ==
  ASSUME SioAssumption, NEW p \in Periods
  PROVE  Following(p) = (IF p = NPeriods - 1 THEN 0 ELSE p + 1) /\ Following(p) \in Periods
<1>1. NPeriods \in Nat /\ NPeriods > 0 /\ p \in 0 .. NPeriods - 1
  BY DEF SioAssumption, Periods
<1>2. CASE p = NPeriods - 1
  <2>1. NPeriods % NPeriods = 0
    BY <1>1, FullMod
  <2>2. p + 1 = NPeriods
    BY <1>1, <1>2
  <2>3. QED
    BY <1>1, <1>2, <2>1, <2>2 DEF Following, Periods
<1>3. CASE p # NPeriods - 1
  <2>1. (p + 1) % NPeriods = p + 1
    BY <1>1, <1>3, SmallMod
  <2>2. QED
    BY <1>1, <1>3, <2>1 DEF Following, Periods
<1>4. QED
  BY <1>2, <1>3

(* Distances: their range, each once, and how the two pointers move them.     *)
LEMMA BehindIs ==
  ASSUME SioAssumption, NEW r \in Periods
  PROVE  /\ NPeriods \in Nat /\ NPeriods > 0 /\ Behind(r, r) = 0
         /\ \A p \in Periods : Behind(r, p) \in 0 .. (NPeriods - 1)
         /\ \A p, q \in Periods : Behind(r, p) = Behind(r, q) => p = q
         /\ \A p \in Periods : Behind(Following(r), p) =
              IF Behind(r, p) = 0 THEN NPeriods - 1 ELSE Behind(r, p) - 1
         /\ \A p \in Periods : Behind(r, Following(p)) =
              IF Behind(r, p) = NPeriods - 1 THEN 0 ELSE Behind(r, p) + 1
<1>1. NPeriods \in Nat /\ NPeriods > 0 /\ Periods = 0 .. NPeriods - 1
  BY DEF SioAssumption, Periods
<1>2. \A p \in Periods : Following(p) = (IF p = NPeriods - 1 THEN 0 ELSE p + 1) /\ Following(p) \in Periods
  BY FollowingIs
<1>3. ASSUME NEW p \in Periods
      PROVE  Behind(Following(r), p) = IF Behind(r, p) = 0 THEN NPeriods - 1 ELSE Behind(r, p) - 1
  <2>1. CASE r = NPeriods - 1
    <3>1. Following(r) = 0
      BY <1>2, <2>1
    <3>2. QED
      BY <1>1, <2>1, <3>1 DEF Behind
  <2>2. CASE r # NPeriods - 1
    <3>1. Following(r) = r + 1
      BY <1>2, <2>2
    <3>2. QED
      BY <1>1, <2>2, <3>1 DEF Behind
  <2>3. QED
    BY <2>1, <2>2
<1>4. ASSUME NEW p \in Periods
      PROVE  Behind(r, Following(p)) = IF Behind(r, p) = NPeriods - 1 THEN 0 ELSE Behind(r, p) + 1
  <2>1. CASE p = NPeriods - 1
    <3>1. Following(p) = 0
      BY <1>2, <2>1
    <3>2. QED
      BY <1>1, <2>1, <3>1 DEF Behind
  <2>2. CASE p # NPeriods - 1
    <3>1. Following(p) = p + 1
      BY <1>2, <2>2
    <3>2. QED
      BY <1>1, <2>2, <3>1 DEF Behind
  <2>3. QED
    BY <2>1, <2>2
<1>5. /\ Behind(r, r) = 0 /\ \A p \in Periods : Behind(r, p) \in 0 .. (NPeriods - 1)
      /\ \A p, q \in Periods : Behind(r, p) = Behind(r, q) => p = q
  BY <1>1 DEF Behind
<1>6. QED
  BY <1>1, <1>3, <1>4, <1>5

------------------------------------------------------------------------------
(* What the invariant says of the mailbox and the ring *)

LEMMA MailAt ==
  ASSUME SioTypes
  PROVE  /\ a2i \in Seq(Requests) /\ i2a \in Seq(Answers) /\ fwq \in Seq(Periods) /\ Unseen \in Nat
         /\ Len(a2i) \in Nat /\ DOMAIN a2i = 1 .. Len(a2i) /\ (a2i # <<>> <=> Len(a2i) > 0)
         /\ Len(i2a) \in Nat /\ DOMAIN i2a = 1 .. Len(i2a) /\ (i2a # <<>> <=> Len(i2a) > 0)
         /\ Len(fwq) \in Nat /\ DOMAIN fwq = 1 .. Len(fwq) /\ (fwq # <<>> <=> Len(fwq) > 0)
         /\ \A j \in DOMAIN a2i : /\ a2i[j] \in Requests /\ a2i[j].tag \in Tags
                                  /\ a2i[j].period \in Periods /\ a2i[j].type \in {"issue", "terminate"}
         /\ \A i \in DOMAIN i2a : /\ i2a[i] \in Answers /\ i2a[i].tag \in 0 .. NTags
                                  /\ i2a[i].period \in Periods /\ i2a[i].type \in {"ack", "nack", "report"}
         /\ \A j \in DOMAIN fwq : fwq[j] \in Periods
<1>1. a2i \in Seq(Requests) /\ i2a \in Seq(Answers) /\ fwq \in Seq(Periods)
  BY DEF SioTypes, MailTypeOK
<1>2. /\ Len(a2i) \in Nat /\ DOMAIN a2i = 1 .. Len(a2i) /\ (a2i # <<>> <=> Len(a2i) > 0)
      /\ \A j \in DOMAIN a2i : a2i[j] \in Requests
  BY <1>1, SeqAt
<1>3. /\ Len(i2a) \in Nat /\ DOMAIN i2a = 1 .. Len(i2a) /\ (i2a # <<>> <=> Len(i2a) > 0)
      /\ \A i \in DOMAIN i2a : i2a[i] \in Answers
  BY <1>1, SeqAt
<1>4. /\ Len(fwq) \in Nat /\ DOMAIN fwq = 1 .. Len(fwq) /\ (fwq # <<>> <=> Len(fwq) > 0)
      /\ \A j \in DOMAIN fwq : fwq[j] \in Periods
  BY <1>1, SeqAt
<1>5. \A m \in Requests : m.tag \in Tags /\ m.period \in Periods /\ m.type \in {"issue", "terminate"}
  BY DEF Requests
<1>6. \A m \in Answers : m.tag \in 0 .. NTags /\ m.period \in Periods /\ m.type \in {"ack", "nack", "report"}
  BY DEF Answers
<1>7. Unseen \in Nat
  BY <1>1, CountAt DEF Unseen
<1>8. QED
  BY <1>1, <1>2, <1>3, <1>4, <1>5, <1>6, <1>7

(* Never more periods out than the ring has; the one being issued is next.    *)
LEMMA RingHolds ==
  ASSUME SioAssumption, SioTypes, MailOK
  PROVE  /\ NPeriods \in Nat /\ NPeriods > 0 /\ tx.nextReport \in Periods /\ tx.nextIssue \in Periods
         /\ tx.inflight \in Nat /\ Taken \in Nat /\ Taken <= NPeriods
         /\ tx.inflight <= Taken /\ Taken <= tx.inflight + 1
         /\ Accepted => tx.issuePending
         /\ tx.issuePending => tx.inflight < NPeriods /\ Dist(tx.nextIssue) = tx.inflight
         /\ \A p \in Periods : Dist(p) \in 0 .. (NPeriods - 1)
         /\ \A p, q \in Periods : Dist(p) = Dist(q) => p = q
         /\ Dist(tx.nextReport) = 0
<1>1. /\ tx.nextIssue \in Periods /\ tx.nextReport \in Periods /\ tx.inflight \in Nat
      /\ tx.issued \in SUBSET Periods
  BY DEF SioTypes, TxTypeOK, Transfers
<1>2. /\ NPeriods \in Nat /\ NPeriods > 0 /\ Dist(tx.nextReport) = 0
      /\ \A p \in Periods : Dist(p) \in 0 .. (NPeriods - 1)
      /\ \A p, q \in Periods : Dist(p) = Dist(q) => p = q
  BY <1>1, BehindIs DEF Dist
<1>3. Accepted => tx.issuePending
  BY DEF MailOK, OneIssue, Accepted, AcceptedAt, ForIssue
<1>4. tx.issuePending => tx.inflight < NPeriods /\ Dist(tx.nextIssue) = tx.inflight
  <2>1. tx.issuePending => ~(Dist(tx.nextIssue) < tx.inflight)
    BY <1>1 DEF MailOK, RingOK
  <2>2. tx.inflight <= NPeriods /\ Dist(tx.nextIssue) = IF tx.inflight = NPeriods THEN 0 ELSE tx.inflight
    BY DEF MailOK, RingOK
  <2>3. QED
    BY <1>1, <1>2, <2>1, <2>2
<1>5. Taken \in Nat /\ tx.inflight <= Taken /\ Taken <= tx.inflight + 1 /\ Taken <= NPeriods
  <2>1. tx.inflight <= NPeriods
    BY DEF MailOK, RingOK
  <2>2. QED
    BY <1>1, <1>2, <1>3, <1>4, <2>1 DEF Taken
<1>6. QED
  BY <1>1, <1>2, <1>3, <1>4, <1>5

(* Whatever the firmware has is committed, and not more of it than Taken.     *)
LEMMA TakenIsCommitted ==
  ASSUME SioAssumption, SioTypes, MailOK, NEW p \in Periods, Dist(p) < Taken
  PROVE  p \in tx.committed
<1>1. tx.inflight \in Nat /\ Dist(p) \in Nat /\ (Dist(p) < tx.inflight \/ (Dist(p) = tx.inflight /\ Accepted))
  <2>1. tx.inflight \in Nat /\ Dist(p) \in 0 .. (NPeriods - 1) /\ NPeriods \in Nat
    BY RingHolds
  <2>2. CASE Accepted
    <3>1. Taken = tx.inflight + 1
      BY <2>2 DEF Taken
    <3>2. QED
      BY <2>1, <2>2, <3>1
  <2>3. CASE ~Accepted
    <3>1. Taken = tx.inflight
      BY <2>1, <2>3 DEF Taken
    <3>2. QED
      BY <2>1, <3>1
  <2>4. QED
    BY <2>2, <2>3
<1>2. CASE Dist(p) < tx.inflight
  BY <1>2 DEF MailOK, RingOK
<1>3. CASE Dist(p) = tx.inflight /\ Accepted
  <2>1. p = tx.nextIssue /\ tx.issuePending
    BY <1>3, RingHolds
  <2>2. QED
    BY <2>1 DEF MailOK, RingOK
<1>4. QED
  BY <1>1, <1>2, <1>3

(* Read in order, the oldest message is the report of the period the driver    *)
(* expects, if it is one.                                                     *)
LEMMA HeadReport ==
  ASSUME SioAssumption, SioTypes, MailOK, ~overtook, 1 \in DOMAIN i2a, i2a[1].type = "report"
  PROVE  /\ tx.inflight > 0 /\ i2a[1].period = tx.nextReport
         /\ tx.nextReport \in tx.committed \cap tx.issued
<1>1. /\ DOMAIN i2a = 1 .. Len(i2a) /\ Len(i2a) \in Nat \ {0} /\ Unseen \in Nat /\ Len(fwq) \in Nat
      /\ i2a[1].period \in Periods /\ \A i \in DOMAIN i2a : i2a[i].period \in Periods
  BY MailAt
<1>2. IsReport(1) /\ (\A j \in DOMAIN i2a : ~(j < 1)) /\ FirmwareOK
  BY <1>1 DEF IsReport, MailOK, OrderOK
<1>3. Dist(i2a[1].period) < Unseen /\ Dist(i2a[1].period) # tx.inflight
  BY <1>1, <1>2 DEF FirmwareOK
<1>4. Unseen <= Taken
  BY <1>1 DEF MailOK, WindowOK, Thrown
<1>5. Dist(i2a[1].period) < tx.inflight
  BY <1>1, <1>3, <1>4, RingHolds
<1>6. Dist(tx.nextReport) < Unseen /\ Dist(tx.nextReport) = 0 /\ tx.nextReport \in Periods
  BY <1>1, <1>3, RingHolds
<1>7. \E i \in DOMAIN i2a : IsReport(i) /\ i2a[i].period = tx.nextReport
  BY <1>2, <1>6 DEF FirmwareOK
<1>8. ASSUME NEW i \in DOMAIN i2a, IsReport(i), i2a[i].period = tx.nextReport PROVE i = 1
  <2>1. i # 1 => Dist(i2a[1].period) < Dist(i2a[i].period)
    BY <1>1, <1>2, <1>8 DEF FirmwareOK
  <2>2. QED
    BY <1>1, <1>6, <1>8, <2>1, RingHolds
<1>9. i2a[1].period = tx.nextReport
  BY <1>7, <1>8
<1>10. tx.nextReport \in tx.issued
  BY <1>1, <1>5, <1>9 DEF MailOK, RingOK
<1>11. QED
  BY <1>1, <1>5, <1>9, <1>10, RingHolds DEF MailOK, RingOK

(* A report thrown away leaves one more on the books than will be reported.   *)
LEMMA ThrownStays ==
  ASSUME SioAssumption, SioTypes, MailOK, dropped
  PROVE  tx.inflight # 0 \/ tx.issuePending
<1>1. Unseen \in Nat /\ Len(fwq) \in Nat
  BY MailAt
<1>2. Taken > 0
  BY <1>1 DEF MailOK, WindowOK, Thrown
<1>3. QED
  BY <1>2, RingHolds DEF Taken

LEMMA InvIsEnough ==
  ASSUME SioAssumption, SioInv
  PROVE  BooksAgree
<1>1. SioTypes /\ MailOK
  BY DEF SioInv
<1>2. /\ DOMAIN a2i = 1 .. Len(a2i) /\ \A j \in DOMAIN a2i : a2i[j].period \in Periods /\ a2i[j].tag \in Tags
      /\ DOMAIN fwq = 1 .. Len(fwq) /\ \A j \in DOMAIN fwq : fwq[j] \in Periods
  BY <1>1, MailAt
<1>3. \A j \in DOMAIN a2i : a2i[j].type = "issue" => tx.issuePending /\ a2i[j].period \in tx.committed
  <2>1. \A j \in DOMAIN a2i : a2i[j].type = "issue" => ForIssue(a2i[j].tag) /\ a2i[j].period = tx.nextIssue
    BY <1>1 DEF MailOK, OneIssue, RingOK
  <2>2. \A j \in DOMAIN a2i : a2i[j].type = "issue" => tx.issuePending
    BY <1>1, <1>2, <2>1 DEF MailOK, OneIssue
  <2>3. tx.issuePending => tx.nextIssue \in tx.committed
    BY <1>1 DEF MailOK, RingOK
  <2>4. QED
    BY <2>1, <2>2, <2>3
<1>4. \A j \in DOMAIN fwq : Dist(fwq[j]) < Taken
  <2>1. Unseen \in Nat /\ Len(fwq) \in Nat
    BY <1>1, MailAt
  <2>2. QED
    BY <1>1, <1>2, <2>1 DEF MailOK, WindowOK, Thrown
<1>5. OwnedIsCommitted
  <2>1. \A j \in DOMAIN fwq : fwq[j] \in tx.committed
    BY <1>1, <1>2, <1>4, TakenIsCommitted
  <2>2. QED
    BY <1>3, <2>1 DEF OwnedIsCommitted, Outbound, Owned
<1>6. StopMeansQuiet
  <2>1. SUFFICES ASSUME pc["client"] = "stopped" PROVE Outbound \cup Owned = {}
    BY DEF StopMeansQuiet
  <2>2. tx.inflight = 0 /\ ~tx.issuePending
    BY <2>1 DEF SioInv, TasksOK, StopOK
  <2>3. Taken = 0
    BY <1>1, <2>2, RingHolds DEF Taken
  <2>4. \A j \in DOMAIN fwq : FALSE
    BY <1>1, <1>2, <1>4, <2>3, RingHolds
  <2>5. QED
    BY <1>3, <2>2, <2>4 DEF Outbound, Owned
<1>7. ReportsMatch
  <2>1. i2a # <<>> => 1 \in DOMAIN i2a /\ Head(i2a) = i2a[1]
    BY <1>1, MailAt, TailAt
  <2>2. ~overtook /\ i2a # <<>> /\ Head(i2a).type = "report"
          => tx.inflight # 0 /\ Head(i2a).period = tx.nextReport
    BY <1>1, <2>1, HeadReport, RingHolds
  <2>3. dropped => overtook /\ (tx.inflight # 0 \/ tx.issuePending)
    BY <1>1, ThrownStays DEF MailOK, OrderOK
  <2>4. QED
    BY <2>2, <2>3 DEF ReportsMatch
<1>8. NoStaleCompletion
  BY <1>1 DEF SioInv, SioTypes, CountTypeOK, TasksOK, CountOK, NoStaleCompletion
<1>9. QED
  BY <1>5, <1>6, <1>7, <1>8 DEF BooksAgree

------------------------------------------------------------------------------
(* Steps that leave the mailbox alone *)

(* A wake moves the worker only when it sleeps. *)
PcKept ==
  /\ pc' \in [SioTasks -> Places] /\ pc'["client"] = pc["client"]
  /\ pc'["worker"] = pc["worker"] \/ (pc["worker"] = "sleep" /\ pc'["worker"] = "top")

LEMMA Kicked ==
  ASSUME SioTypes, NEW b, KickIf(b, pc)
  PROVE  PcKept
<1>1. pc \in [SioTasks -> Places] /\ SioTasks = {"client", "worker"} /\ "top" \in Places
  BY DEF SioTypes, TaskTypeOK, Places, WorkerAt, SioTasks
<1>2. pc' = pc \/ (pc["worker"] = "sleep" /\ pc' = [pc EXCEPT !["worker"] = "top"])
  BY DEF KickIf, Kick
<1>3. QED
  BY <1>1, <1>2 DEF PcKept

(* The mailbox, the tags of issues and the ring are as they were; a mark may   *)
(* come or go while no tag speaks for it, and periods may be committed.       *)
LEMMA MailRests ==
  ASSUME SioTypes, MailOK, a2i' = a2i, i2a' = i2a, fwq' = fwq,
         \A t \in Tags : (tags'[t].kind = "issue") <=> (tags[t].kind = "issue"),
         \A t \in Tags : tags[t].kind = "issue" => tags'[t] = tags[t] /\ tx'.issuePending,
         tx'.nextIssue = tx.nextIssue, tx'.nextReport = tx.nextReport, tx'.inflight = tx.inflight,
         tx'.issued = tx.issued, tx'.gen = tx.gen, tx.committed \subseteq tx'.committed,
         tx'.issuePending => tx'.nextIssue \in tx'.committed \ tx'.issued,
         overtook' = overtook, dropped' = dropped
  PROVE  /\ MailOK'
         /\ \A t \in Tags : ForIssue(t)' <=> ForIssue(t)
<1>1. \A t \in Tags : ForIssue(t)' <=> ForIssue(t)
  BY DEF ForIssue, Tags
<1>2. \A j \in DOMAIN a2i : a2i[j].tag \in Tags
  BY MailAt
<1>3. \A i : (IsReply(i)' <=> IsReply(i)) /\ (IsReport(i)' <=> IsReport(i))
  BY DEF IsReply, IsReport
<1>4. TagsApart'
  BY <1>3 DEF MailOK, TagsApart, Tags
<1>5. OneIssue'
  <2>1. \A j \in DOMAIN a2i : (a2i[j].type = "issue")' <=> ForIssue(a2i[j].tag)'
    BY <1>1, <1>2 DEF MailOK, OneIssue, ForIssue, Tags
  <2>2. \A s, t \in Tags : ForIssue(s)' /\ ForIssue(t)' => s = t
    BY <1>1 DEF MailOK, OneIssue
  <2>3. \A t \in Tags : ForIssue(t)' => tags'[t].gen = tx'.gen /\ tx'.issuePending
    BY <1>1 DEF MailOK, OneIssue, ForIssue
  <2>4. \A t \in Tags : ForIssue(t)' =>
          (\E i \in DOMAIN i2a : IsReply(i)' /\ i2a'[i].tag = t) \/ (\E j \in DOMAIN a2i : a2i'[j].tag = t)
    BY <1>1, <1>3 DEF MailOK, OneIssue
  <2>5. QED
    BY <2>1, <2>2, <2>3, <2>4 DEF OneIssue, Tags
<1>6. \A i \in DOMAIN i2a : AcceptedAt(i)' <=> AcceptedAt(i)
  BY <1>1, <1>3 DEF AcceptedAt, MailOK, TagsApart
<1>7. (Accepted' <=> Accepted) /\ Taken' = Taken
  BY <1>6 DEF Accepted, Taken
<1>8. \A p : Dist(p)' = Dist(p)
  BY DEF Dist, Behind
<1>9. RingOK'
  BY <1>8 DEF MailOK, RingOK, Periods
<1>10. Unseen' = Unseen /\ Thrown' = Thrown
  BY DEF Unseen, Thrown, CountReports, Reports
<1>11. WindowOK'
  BY <1>7, <1>8, <1>10 DEF MailOK, WindowOK
<1>12. FirmwareOK => FirmwareOK'
  BY <1>3, <1>6, <1>8, <1>10 DEF FirmwareOK, Periods
<1>13. OrderOK'
  BY <1>12 DEF MailOK, OrderOK
<1>14. QED
  BY <1>1, <1>4, <1>5, <1>9, <1>11, <1>13 DEF MailOK

(* The same where nothing of the transfer or the tags changes. *)
LEMMA AllRests ==
  ASSUME SioTypes, MailOK, a2i' = a2i, i2a' = i2a, fwq' = fwq, tags' = tags, tx' = tx,
         overtook' = overtook, dropped' = dropped
  PROVE  MailOK' /\ \A t \in Tags : ForIssue(t)' <=> ForIssue(t)
<1>1. tx'.issuePending => tx'.nextIssue \in tx'.committed \ tx'.issued
  BY DEF MailOK, RingOK
<1>2. \A t \in Tags : tags[t].kind = "issue" => tx'.issuePending
  BY DEF MailOK, OneIssue, ForIssue
<1>3. QED
  BY <1>1, <1>2, MailRests

(* Steps of process_messages that move one task's place in it only.           *)
DrainMoves(t) ==
  \/ DrainEnter(t) \/ DrainLook(t) \/ DrainNoneQueued(t)
  \/ DrainClear(t) \/ DrainRecheck(t) \/ DrainFails(t)

LEMMA DrainMovesStep ==
  ASSUME SioInv, NEW t \in SioTasks, DrainMoves(t)
  PROVE  SioInv'
<1>1. SioTypes /\ MailOK /\ TasksOK
  BY DEF SioInv
<1>2. /\ tx' = tx /\ running' = running /\ error' = error /\ completed' = completed /\ tags' = tags
      /\ last' = last /\ issueLock' = issueLock /\ pc' = pc /\ ctag' = ctag /\ a2i' = a2i
      /\ i2a' = i2a /\ fwq' = fwq /\ earned' = earned
      /\ queued' = queued /\ claimed' = claimed /\ overtook' = overtook /\ dropped' = dropped
  BY DEF DrainMoves, DrainEnter, DrainLook, DrainNoneQueued, DrainClear, DrainRecheck, DrainFails, flags, tagVars, mail, inbound, hist
<1>3. MailOK' /\ \A s \in Tags : ForIssue(s)' <=> ForIssue(s)
  BY <1>1, <1>2, AllRests
<1>4. \E d \in Drainings : dpc' = [dpc EXCEPT ![t] = d] /\ dpc[t] # "out" /\ d \notin CountingAt /\ dpc[t] \notin CountingAt
  BY DEF DrainMoves, DrainEnter, DrainLook, DrainNoneQueued, DrainClear, DrainRecheck, DrainFails, CountingAt, Drainings
<1>5. /\ dpc \in [SioTasks -> Drainings] /\ dpc' \in [SioTasks -> Drainings] /\ SioTasks = {"client", "worker"}
      /\ t \in {"client", "worker"} /\ dpc[t] # "out" /\ \A s \in SioTasks : s # t => dpc'[s] = dpc[s]
  BY <1>1, <1>4 DEF SioTypes, TaskTypeOK, SioTasks
<1>6. (Counting' <=> Counting)
  BY <1>4, <1>5 DEF Counting
<1>7. SioTypes'
  <2>1. draining' \in BOOLEAN
    BY <1>1 DEF SioTypes, TaskTypeOK, DrainMoves, DrainEnter, DrainLook, DrainNoneQueued, DrainClear, DrainRecheck, DrainFails
  <2>2. QED
    BY <1>1, <1>2, <1>5, <2>1 DEF SioTypes, TxTypeOK, TagTypeOK, TaskTypeOK, MailTypeOK, CountTypeOK,
         Transfers, Entries, Requests, Answers, Periods, Tags
<1>8. OneSender' /\ OneCall' /\ LockOK'
  BY <1>1, <1>2, <1>3 DEF TasksOK, OneSender, OneCall, LockOK, Tags
<1>9. StopOK' /\ CountOK'
  BY <1>1, <1>2, <1>6 DEF TasksOK, StopOK, CountOK
<1>10. DrainOK'
  <2>1. draining' <=> \E s \in SioTasks : dpc'[s] \in InsideAt
    BY <1>1, <1>5 DEF TasksOK, DrainOK, InsideAt, SioTypes, TaskTypeOK, DrainMoves, DrainEnter, DrainLook, DrainNoneQueued,
         DrainClear, DrainRecheck, DrainFails
  <2>2. ~(dpc'["client"] \in InsideAt /\ dpc'["worker"] \in InsideAt)
    BY <1>1, <1>5 DEF TasksOK, DrainOK, InsideAt, SioTypes, TaskTypeOK, DrainMoves, DrainEnter, DrainLook, DrainNoneQueued,
         DrainClear, DrainRecheck, DrainFails
  <2>3. \A s \in SioTasks : dpc[s] = "out" => dpc'[s] = "out"
    BY <1>5
  <2>4. QED
    BY <1>1, <1>2, <1>5, <2>1, <2>2, <2>3 DEF TasksOK, DrainOK
<1>11. QED
  BY <1>3, <1>7, <1>8, <1>9, <1>10 DEF SioInv, TasksOK

(* Steps that only move a task, take or leave the lock or wake the worker: the *)
(* places that promise something are reached only where it holds.             *)
LEMMA MovesOnly ==
  ASSUME SioInv, tx' = tx, running' = running, error' = error, completed' = completed, tags' = tags,
         last' = last, ctag' = ctag, a2i' = a2i, i2a' = i2a, fwq' = fwq, earned' = earned,
         overtook' = overtook, dropped' = dropped, draining' = draining,
         (queued' = queued /\ claimed' = claimed) \/ MailTypeOK',
         pc' \in [SioTasks -> Places], dpc' \in [SioTasks -> Drainings],
         \A s \in SioTasks : dpc'[s] = dpc[s] \/ (dpc[s] = "out" /\ dpc'[s] = "enter"),
         \A s \in SioTasks : pc'[s] = "issueSend" <=> pc[s] = "issueSend",
         pc'["client"] = "termWait" <=> pc["client"] = "termWait",
         pc'["client"] = "termSend" => pc["client"] = "termSend",
         pc'["client"] = "stopWait" => pc["client"] = "stopWait",
         pc'["client"] \in {"resetCount", "stopped"} => pc'["client"] = pc["client"],
         pc'["client"] = "reset" /\ pc["client"] # "reset"
           => tx.inflight = 0 /\ ~tx.issuePending /\ pc["client"] = "stopWait",
         pc'["client"] \in {"idle", "issueMark", "issueSend", "termSend", "reset", "resetCount", "stopped"}
           => dpc'["client"] = "out",
         pc'["worker"] \in {"issueLock", "issueMark", "issueSend", "top", "wait", "sleep"}
           => dpc'["worker"] = "out",
         LockOK'
  PROVE  SioInv'
<1>1. SioTypes /\ MailOK /\ TasksOK
  BY DEF SioInv
<1>2. MailOK' /\ \A s \in Tags : ForIssue(s)' <=> ForIssue(s)
  BY <1>1, AllRests
<1>3. SioTypes'
  <2>1. MailTypeOK'
    BY <1>1 DEF SioTypes, MailTypeOK, Requests, Answers, Periods, Tags
  <2>2. QED
    BY <1>1, <2>1 DEF SioTypes, TxTypeOK, TagTypeOK, TaskTypeOK, CountTypeOK, Transfers, Entries, Periods, Tags
<1>4. \A s \in SioTasks : /\ dpc'[s] \in InsideAt <=> dpc[s] \in InsideAt
                          /\ dpc'[s] \in CountingAt <=> dpc[s] \in CountingAt
  BY DEF InsideAt, CountingAt
<1>5. Counting' <=> Counting
  BY <1>4 DEF Counting
<1>6. OneSender'
  BY <1>1, <1>2 DEF TasksOK, OneSender, Tags
<1>7. OneCall'
  BY <1>1 DEF TasksOK, OneCall, Tags
<1>8. DrainOK'
  BY <1>1, <1>4 DEF TasksOK, DrainOK, SioTasks
<1>9. StopOK'
  BY <1>1, <1>5 DEF TasksOK, StopOK
<1>10. CountOK'
  BY <1>1, <1>5 DEF TasksOK, CountOK
<1>11. QED
  BY <1>2, <1>3, <1>6, <1>7, <1>8, <1>9, <1>10 DEF SioInv, TasksOK

LEMMA WorkerStep ==
  ASSUME SioInv, Worker
  PROVE  SioInv'
<1>1. SioTypes /\ TasksOK
  BY DEF SioInv
<1>2. /\ tx' = tx /\ running' = running /\ error' = error /\ completed' = completed /\ tags' = tags
      /\ last' = last /\ ctag' = ctag /\ a2i' = a2i /\ i2a' = i2a /\ fwq' = fwq /\ earned' = earned
      /\ queued' = queued /\ claimed' = claimed /\ overtook' = overtook /\ dropped' = dropped
      /\ draining' = draining
  BY DEF Worker, WorkerTop, WorkerWait, WorkerGen, WorkerLock, flags, tagVars, mail, inbound, hist
<1>3. /\ pc \in [SioTasks -> Places] /\ dpc \in [SioTasks -> Drainings] /\ SioTasks = {"client", "worker"}
      /\ "worker" # "client"
  BY <1>1 DEF SioTypes, TaskTypeOK, SioTasks
<1>4. /\ pc' \in [SioTasks -> Places] /\ pc'["client"] = pc["client"] /\ dpc'["client"] = dpc["client"]
      /\ pc'["worker"] \in {"issueGen", "wait", "top", "sleep", "issueLock", "issueMark"}
      /\ pc["worker"] \in {"top", "wait", "issueGen", "issueLock"}
      /\ pc'["worker"] \in {"issueMark"} => issueLock = {} /\ issueLock' = {"worker"}
      /\ pc'["worker"] \notin {"issueMark"} => issueLock' = issueLock
  BY <1>3 DEF Worker, WorkerTop, WorkerWait, WorkerGen, WorkerLock, Move, Places, WorkerAt
<1>5. /\ dpc' \in [SioTasks -> Drainings]
      /\ dpc'["worker"] = dpc["worker"] \/ (dpc["worker"] = "out" /\ dpc'["worker"] = "enter" /\ pc'["worker"] = "issueGen")
      /\ pc["worker"] = "issueGen" => dpc["worker"] = "out"
  BY <1>3 DEF Worker, WorkerTop, WorkerWait, WorkerGen, WorkerLock, Move, Drainings
<1>6. LockOK'
  BY <1>1, <1>4 DEF TasksOK, LockOK, WorkerAt
<1>7. pc'["worker"] \in {"issueLock", "issueMark", "issueSend", "top", "wait", "sleep"} => dpc'["worker"] = "out"
  BY <1>1, <1>4, <1>5 DEF TasksOK, DrainOK
<1>8. pc'["client"] \in {"idle", "issueMark", "issueSend", "termSend", "reset", "resetCount", "stopped"}
        => dpc'["client"] = "out"
  BY <1>1, <1>4 DEF TasksOK, DrainOK
<1>9. /\ \A s \in SioTasks : dpc'[s] = dpc[s] \/ (dpc[s] = "out" /\ dpc'[s] = "enter")
      /\ \A s \in SioTasks : pc'[s] = "issueSend" <=> pc[s] = "issueSend"
  BY <1>3, <1>4, <1>5
<1>10. QED
  BY <1>2, <1>4, <1>5, <1>6, <1>7, <1>8, <1>9, MovesOnly

(* The client's calls, and the waits inside them.                             *)
ClientMoves == StartCall \/ StopCall \/ StopQuiet \/ StopAgain \/ Stopped

LEMMA ClientMovesStep ==
  ASSUME SioInv, ClientMoves
  PROVE  SioInv'
<1>1. SioTypes /\ TasksOK
  BY DEF SioInv
<1>2. /\ tx' = tx /\ running' = running /\ error' = error /\ completed' = completed /\ tags' = tags
      /\ last' = last /\ ctag' = ctag /\ a2i' = a2i /\ i2a' = i2a /\ fwq' = fwq /\ earned' = earned
      /\ queued' = queued /\ claimed' = claimed /\ overtook' = overtook /\ dropped' = dropped
      /\ draining' = draining
  BY DEF ClientMoves, StartCall, StopCall, StopQuiet, StopAgain, Stopped, flags, tagVars, mail, inbound, hist
<1>3. /\ pc \in [SioTasks -> Places] /\ dpc \in [SioTasks -> Drainings] /\ SioTasks = {"client", "worker"}
      /\ "worker" # "client"
  BY <1>1 DEF SioTypes, TaskTypeOK, SioTasks
<1>4. /\ pc' \in [SioTasks -> Places] /\ pc'["worker"] = pc["worker"] /\ dpc'["worker"] = dpc["worker"]
      /\ \/ /\ pc["client"] = "idle" /\ issueLock = {} /\ issueLock' = {"client"}
            /\ pc'["client"] \in {"start", "stopMark"}
         \/ /\ pc["client"] = "stopWait" /\ pc'["client"] = "reset" /\ Quiet /\ issueLock' = issueLock
         \/ /\ pc'["client"] = pc["client"] /\ pc["client"] \in {"termWait", "stopWait"}
            /\ issueLock' = issueLock
         \/ /\ pc["client"] = "stopped" /\ pc'["client"] = "idle" /\ issueLock' = issueLock
  BY <1>3 DEF ClientMoves, StartCall, StopCall, StopQuiet, StopAgain, Stopped, Move, Places, ClientHolds
<1>5. /\ dpc' \in [SioTasks -> Drainings]
      /\ pc'["client"] \in {"start", "stopMark"} => dpc'["client"] = "enter"
      /\ pc'["client"] \in {"termWait", "stopWait"} => dpc["client"] = "out" /\ dpc'["client"] = "enter"
      /\ pc'["client"] \in {"idle"} => dpc'["client"] = dpc["client"]
      /\ pc'["client"] \in {"reset"} => dpc'["client"] = dpc["client"] /\ dpc["client"] = "out"
  BY <1>3 DEF ClientMoves, StartCall, StopCall, StopQuiet, StopAgain, Stopped, Move, Drainings
<1>6. LockOK'
  BY <1>1, <1>4 DEF TasksOK, LockOK, ClientHolds
<1>7. pc'["worker"] \in {"issueLock", "issueMark", "issueSend", "top", "wait", "sleep"} => dpc'["worker"] = "out"
  BY <1>1, <1>4 DEF TasksOK, DrainOK
<1>8. /\ pc'["client"] \in {"idle", "issueMark", "issueSend", "termSend", "reset", "resetCount", "stopped"}
           => dpc'["client"] = "out"
      /\ dpc'["client"] = dpc["client"] \/ (dpc["client"] = "out" /\ dpc'["client"] = "enter")
  BY <1>1, <1>4, <1>5 DEF TasksOK, DrainOK
<1>9. /\ \A s \in SioTasks : dpc'[s] = dpc[s] \/ (dpc[s] = "out" /\ dpc'[s] = "enter")
      /\ \A s \in SioTasks : pc'[s] = "issueSend" <=> pc[s] = "issueSend"
  BY <1>3, <1>4, <1>8
<1>10. pc'["client"] = "reset" /\ pc["client"] # "reset"
         => tx.inflight = 0 /\ ~tx.issuePending /\ pc["client"] = "stopWait"
  BY <1>4 DEF Quiet
<1>11. QED
  BY <1>2, <1>4, <1>5, <1>6, <1>7, <1>8, <1>9, <1>10, MovesOnly

(* The interrupt moves what it takes to the queue, and wakes the worker. *)
LEMMA InterruptStep ==
  ASSUME SioInv, Interrupt
  PROVE  SioInv'
<1>1. SioTypes /\ TasksOK
  BY DEF SioInv
<1>2. /\ tx' = tx /\ running' = running /\ error' = error /\ completed' = completed /\ tags' = tags
      /\ last' = last /\ ctag' = ctag /\ a2i' = a2i /\ i2a' = i2a /\ fwq' = fwq /\ earned' = earned
      /\ overtook' = overtook /\ dropped' = dropped
      /\ draining' = draining /\ dpc' = dpc /\ issueLock' = issueLock
  BY DEF Interrupt, IrqDrain, IrqAppend, RxReady, flags, tagVars, mail, inbound, hist
<1>3. PcKept
  <2>1. CASE RxReady
    BY <1>1, <2>1, Kicked DEF RxReady, KickIf
  <2>2. CASE IrqDrain \/ IrqAppend
    BY <1>1, <2>2 DEF IrqDrain, IrqAppend, PcKept, SioTypes, TaskTypeOK
  <2>3. QED
    BY <2>1, <2>2 DEF Interrupt
<1>4. /\ dpc' \in [SioTasks -> Drainings] /\ SioTasks = {"client", "worker"}
  BY <1>1, <1>2 DEF SioTypes, TaskTypeOK, SioTasks
<1>5. LockOK'
  BY <1>1, <1>2, <1>3 DEF TasksOK, LockOK, PcKept, WorkerAt
<1>6. pc'["worker"] \in {"issueLock", "issueMark", "issueSend", "top", "wait", "sleep"} => dpc'["worker"] = "out"
  BY <1>1, <1>2, <1>3 DEF TasksOK, DrainOK, PcKept
<1>7. pc'["client"] \in {"idle", "issueMark", "issueSend", "termSend", "reset", "resetCount", "stopped"}
        => dpc'["client"] = "out"
  BY <1>1, <1>2, <1>3 DEF TasksOK, DrainOK, PcKept
<1>8. \A s \in SioTasks : pc'[s] = "issueSend" <=> pc[s] = "issueSend"
  BY <1>3, <1>4 DEF PcKept
<1>9. (queued' = queued /\ claimed' = claimed) \/ MailTypeOK'
  <2>1. Len(i2a) \in Nat /\ queued \in Nat /\ claimed \in Nat /\ queued + claimed <= Len(i2a)
    BY <1>1, MailAt DEF SioTypes, MailTypeOK
  <2>2. \/ queued' = queued /\ claimed' = claimed
        \/ queued' = queued /\ claimed' = Len(i2a) - queued
        \/ queued' = queued + claimed /\ claimed' = 0
    BY DEF Interrupt, IrqDrain, IrqAppend, RxReady
  <2>3. (queued' = queued /\ claimed' = claimed) \/ (queued' \in Nat /\ claimed' \in Nat /\ queued' + claimed' <= Len(i2a))
    BY <2>1, <2>2
  <2>4. QED
    BY <1>1, <1>2, <2>3 DEF SioTypes, MailTypeOK, Requests, Answers, Periods, Tags
<1>10. QED
  BY <1>2, <1>3, <1>4, <1>5, <1>6, <1>7, <1>8, <1>9, MovesOnly DEF PcKept

------------------------------------------------------------------------------
(* Steps that change the transfer, the flags or the counters *)

LEMMA TransferAt ==
  ASSUME SioTypes
  PROVE  /\ tx \in Transfers /\ tx.nextIssue \in Periods /\ tx.nextReport \in Periods /\ tx.inflight \in Nat
         /\ tx.issuePending \in BOOLEAN /\ tx.committed \in SUBSET Periods /\ tx.issued \in SUBSET Periods
         /\ tx.terminated \in BOOLEAN /\ tx.gen \in Nat /\ running \in BOOLEAN /\ error \in BOOLEAN
         /\ tags \in [Tags -> Entries] /\ \A t \in Tags : tags[t] \in Entries
         /\ pc \in [SioTasks -> Places] /\ dpc \in [SioTasks -> Drainings] /\ SioTasks = {"client", "worker"}
         /\ completed \in Nat /\ earned \in Nat
  BY DEF SioTypes, TxTypeOK, TagTypeOK, TaskTypeOK, CountTypeOK, Transfers, SioTasks

(* A period committed: nothing of it is out yet. *)
LEMMA QueuePeriodStep ==
  ASSUME SioInv, NEW p \in Periods, QueuePeriod(p)
  PROVE  SioInv'
<1>1. SioTypes /\ MailOK /\ TasksOK
  BY DEF SioInv
<1>2. /\ tx' = [tx EXCEPT !.committed = @ \cup {p}] /\ running' = running /\ error' = error
      /\ completed' = completed /\ tags' = tags /\ last' = last /\ ctag' = ctag /\ a2i' = a2i
      /\ i2a' = i2a /\ fwq' = fwq /\ earned' = earned /\ draining' = draining /\ dpc' = dpc
      /\ queued' = queued /\ claimed' = claimed /\ overtook' = overtook /\ dropped' = dropped
      /\ issueLock' = issueLock
  BY DEF QueuePeriod, flags, tagVars, mail, inbound, hist
<1>3. PcKept
  BY <1>1, Kicked DEF QueuePeriod
<1>4. /\ tx' \in Transfers /\ tx'.nextIssue = tx.nextIssue /\ tx'.nextReport = tx.nextReport
      /\ tx'.inflight = tx.inflight /\ tx'.issued = tx.issued /\ tx'.gen = tx.gen
      /\ tx'.issuePending = tx.issuePending /\ tx'.terminated = tx.terminated
      /\ tx.committed \subseteq tx'.committed
  BY <1>1, <1>2, TransferAt DEF Transfers
<1>5. MailOK' /\ \A t \in Tags : ForIssue(t)' <=> ForIssue(t)
  <2>1. tx'.issuePending => tx'.nextIssue \in tx'.committed \ tx'.issued
    BY <1>1, <1>4 DEF MailOK, RingOK
  <2>2. \A t \in Tags : tags[t].kind = "issue" => tx'.issuePending
    BY <1>1, <1>4 DEF MailOK, OneIssue, ForIssue
  <2>3. QED
    BY <1>1, <1>2, <1>4, <2>1, <2>2, MailRests
<1>6. SioTypes'
  BY <1>1, <1>2, <1>3, <1>4 DEF PcKept, SioTypes, TxTypeOK, TagTypeOK, TaskTypeOK, MailTypeOK, CountTypeOK,
       Transfers, Entries, Requests, Answers, Periods, Tags
<1>7. OneSender'
  BY <1>1, <1>3, <1>4, <1>5, TransferAt DEF PcKept, TasksOK, OneSender, Tags
<1>8. OneCall' /\ LockOK'
  BY <1>1, <1>2, <1>3 DEF PcKept, TasksOK, OneCall, LockOK, Tags, WorkerAt
<1>9. DrainOK'
  BY <1>1, <1>2, <1>3 DEF PcKept, TasksOK, DrainOK
<1>10. StopOK' /\ CountOK'
  BY <1>1, <1>2, <1>3, <1>4 DEF PcKept, TasksOK, StopOK, CountOK, Counting
<1>11. QED
  BY <1>5, <1>6, <1>7, <1>8, <1>9, <1>10 DEF SioInv, TasksOK

LEMMA TakeCompletedStep ==
  ASSUME SioInv, TakeCompleted
  PROVE  SioInv'
<1>1. SioTypes /\ MailOK /\ TasksOK
  BY DEF SioInv
<1>2. /\ tx' = tx /\ running' = running /\ error' = error /\ tags' = tags /\ last' = last
      /\ ctag' = ctag /\ a2i' = a2i /\ i2a' = i2a /\ fwq' = fwq /\ draining' = draining /\ dpc' = dpc
      /\ pc' = pc /\ issueLock' = issueLock
      /\ queued' = queued /\ claimed' = claimed /\ overtook' = overtook /\ dropped' = dropped
      /\ completed' = 0 /\ earned' = IF earned < completed THEN 0 ELSE earned - completed
  BY DEF TakeCompleted, flags, tagVars, mail, inbound, hist
<1>3. MailOK' /\ \A t \in Tags : ForIssue(t)' <=> ForIssue(t)
  BY <1>1, <1>2, AllRests
<1>4. SioTypes'
  <2>1. CountTypeOK'
    BY <1>1, <1>2, TransferAt DEF SioTypes, CountTypeOK
  <2>2. QED
    BY <1>1, <1>2, <2>1 DEF SioTypes, TxTypeOK, TagTypeOK, TaskTypeOK, MailTypeOK,
         Transfers, Entries, Requests, Answers, Periods, Tags
<1>5. OneSender' /\ OneCall' /\ LockOK' /\ DrainOK' /\ StopOK'
  BY <1>1, <1>2, <1>3 DEF TasksOK, OneSender, OneCall, LockOK, DrainOK, StopOK, Counting, Tags
<1>6. CountOK'
  BY <1>1, <1>2, TransferAt DEF TasksOK, CountOK, Counting
<1>7. QED
  BY <1>3, <1>4, <1>5, <1>6 DEF SioInv, TasksOK

(* The report taken off the ring is counted, by the one task inside. *)
LEMMA DrainCountStep ==
  ASSUME SioInv, NEW t \in SioTasks, DrainCount(t)
  PROVE  SioInv'
<1>1. SioTypes /\ MailOK /\ TasksOK
  BY DEF SioInv
<1>2. /\ tx' = tx /\ running' = running /\ error' = error /\ tags' = tags /\ last' = last
      /\ ctag' = ctag /\ a2i' = a2i /\ i2a' = i2a /\ fwq' = fwq /\ draining' = draining
      /\ issueLock' = issueLock /\ earned' = earned
      /\ queued' = queued /\ claimed' = claimed /\ overtook' = overtook /\ dropped' = dropped
      /\ completed' = completed + 1 /\ dpc' = [dpc EXCEPT ![t] = "take"] /\ dpc[t] \in CountingAt
  BY DEF DrainCount, flags, tagVars, mail, inbound, hist, CountingAt
<1>3. PcKept
  BY <1>1, Kicked DEF DrainCount
<1>4. MailOK' /\ \A s \in Tags : ForIssue(s)' <=> ForIssue(s)
  BY <1>1, <1>2, AllRests
<1>5. /\ dpc' \in [SioTasks -> Drainings] /\ Counting /\ ~Counting'
      /\ dpc'[t] = "take" /\ \A s \in SioTasks : s # t => dpc'[s] = dpc[s]
      /\ \A s \in SioTasks : dpc'[s] \in InsideAt <=> dpc[s] \in InsideAt
      /\ \A s \in SioTasks : dpc[s] = "out" => dpc'[s] = "out"
  BY <1>1, <1>2, TransferAt DEF Counting, CountingAt, InsideAt, Drainings, TasksOK, DrainOK
<1>6. SioTypes'
  <2>1. CountTypeOK'
    BY <1>1, <1>2, TransferAt DEF SioTypes, CountTypeOK
  <2>2. QED
    BY <1>1, <1>2, <1>3, <1>5, <2>1 DEF PcKept, SioTypes, TxTypeOK, TagTypeOK, TaskTypeOK, MailTypeOK,
         Transfers, Entries, Requests, Answers, Periods, Tags
<1>7. OneSender'
  BY <1>1, <1>2, <1>3, <1>4, TransferAt DEF PcKept, TasksOK, OneSender, Tags
<1>8. OneCall' /\ LockOK'
  BY <1>1, <1>2, <1>3 DEF PcKept, TasksOK, OneCall, LockOK, Tags, WorkerAt
<1>9. DrainOK'
  BY <1>1, <1>2, <1>3, <1>5, TransferAt DEF PcKept, TasksOK, DrainOK
<1>10. StopOK'
  BY <1>1, <1>2, <1>3, <1>5 DEF PcKept, TasksOK, StopOK
<1>11. CountOK'
  BY <1>1, <1>2, <1>5, TransferAt DEF TasksOK, CountOK
<1>12. QED
  BY <1>4, <1>6, <1>7, <1>8, <1>9, <1>10, <1>11 DEF SioInv, TasksOK

(* start_channel marks the channel running, or leaves it as it is. *)
LEMMA StartStep ==
  ASSUME SioInv, Start
  PROVE  SioInv'
<1>1. SioTypes /\ MailOK /\ TasksOK
  BY DEF SioInv
<1>2. /\ error' = error /\ completed' = completed /\ tags' = tags /\ last' = last /\ ctag' = ctag
      /\ a2i' = a2i /\ i2a' = i2a /\ fwq' = fwq /\ earned' = earned /\ draining' = draining /\ dpc' = dpc
      /\ queued' = queued /\ claimed' = claimed /\ overtook' = overtook /\ dropped' = dropped
      /\ pc["client"] = "start" /\ dpc["client"] = "out" /\ issueLock = {"client"}
  BY <1>1 DEF Start, flags, tagVars, mail, inbound, hist, TasksOK, LockOK, ClientHolds
<1>3. /\ pc' \in [SioTasks -> Places] /\ pc'["worker"] = pc["worker"]
      /\ \/ pc'["client"] = "idle" /\ issueLock' = {} /\ tx' = tx /\ running' = running
         \/ /\ pc'["client"] = "issueMark" /\ issueLock' = issueLock
            /\ tx' = [tx EXCEPT !.terminated = FALSE] /\ running' = TRUE
  BY <1>1, <1>2, TransferAt DEF Start, Move, Unlock, Places, ClientHolds
<1>4. /\ tx' \in Transfers /\ tx'.nextIssue = tx.nextIssue /\ tx'.nextReport = tx.nextReport
      /\ tx'.inflight = tx.inflight /\ tx'.issued = tx.issued /\ tx'.gen = tx.gen
      /\ tx'.issuePending = tx.issuePending /\ tx'.committed = tx.committed
      /\ running' \in BOOLEAN /\ (running' \/ (tx'.terminated = tx.terminated /\ running' = running))
  BY <1>1, <1>3, TransferAt DEF Transfers
<1>5. MailOK' /\ \A t \in Tags : ForIssue(t)' <=> ForIssue(t)
  <2>1. tx'.issuePending => tx'.nextIssue \in tx'.committed \ tx'.issued
    BY <1>1, <1>4 DEF MailOK, RingOK
  <2>2. \A t \in Tags : tags[t].kind = "issue" => tx'.issuePending
    BY <1>1, <1>4 DEF MailOK, OneIssue, ForIssue
  <2>3. QED
    BY <1>1, <1>2, <1>4, <2>1, <2>2, MailRests
<1>6. SioTypes'
  BY <1>1, <1>2, <1>3, <1>4 DEF SioTypes, TxTypeOK, TagTypeOK, TaskTypeOK, MailTypeOK, CountTypeOK,
       Transfers, Entries, Requests, Answers, Periods, Tags
<1>7. OneSender'
  BY <1>1, <1>2, <1>3, <1>4, <1>5, TransferAt DEF TasksOK, OneSender, Tags
<1>8. OneCall' /\ LockOK'
  BY <1>1, <1>2, <1>3 DEF TasksOK, OneCall, LockOK, Tags, ClientHolds
<1>9. DrainOK'
  BY <1>1, <1>2, <1>3 DEF TasksOK, DrainOK
<1>10. StopOK' /\ CountOK'
  BY <1>1, <1>2, <1>3, <1>4 DEF TasksOK, StopOK, CountOK, Counting
<1>11. QED
  BY <1>5, <1>6, <1>7, <1>8, <1>9, <1>10 DEF SioInv, TasksOK

(* stop_channel marks the transfer terminated when anything is out, and        *)
(* otherwise nothing is.                                                      *)
LEMMA StopMarkStep ==
  ASSUME SioInv, StopMark
  PROVE  SioInv'
<1> DEFINE needs == running \/ tx.terminated \/ tx.inflight # 0 \/ tx.issuePending
<1>1. SioTypes /\ MailOK /\ TasksOK
  BY DEF SioInv
<1>2. /\ error' = error /\ completed' = completed /\ tags' = tags /\ last' = last /\ ctag' = ctag
      /\ a2i' = a2i /\ i2a' = i2a /\ fwq' = fwq /\ earned' = earned /\ draining' = draining /\ dpc' = dpc
      /\ queued' = queued /\ claimed' = claimed /\ overtook' = overtook /\ dropped' = dropped
      /\ pc["client"] = "stopMark" /\ dpc["client"] = "out" /\ issueLock' = issueLock
      /\ running' = FALSE /\ tx' = [tx EXCEPT !.terminated = needs]
      /\ pc' = Move("client", IF needs THEN "termSend" ELSE "reset")
  BY DEF StopMark, flags, tagVars, mail, inbound, hist
<1>3. /\ pc' \in [SioTasks -> Places] /\ pc'["worker"] = pc["worker"]
      /\ needs => pc'["client"] = "termSend"
      /\ ~needs => pc'["client"] = "reset"
  BY <1>1, <1>2, TransferAt DEF Move, Places, ClientHolds
<1>4. /\ tx' \in Transfers /\ tx'.nextIssue = tx.nextIssue /\ tx'.nextReport = tx.nextReport
      /\ tx'.inflight = tx.inflight /\ tx'.issued = tx.issued /\ tx'.gen = tx.gen
      /\ tx'.issuePending = tx.issuePending /\ tx'.committed = tx.committed
      /\ tx'.terminated = needs
  BY <1>1, <1>2, TransferAt DEF Transfers
<1>5. MailOK' /\ \A t \in Tags : ForIssue(t)' <=> ForIssue(t)
  <2>1. tx'.issuePending => tx'.nextIssue \in tx'.committed \ tx'.issued
    BY <1>1, <1>4 DEF MailOK, RingOK
  <2>2. \A t \in Tags : tags[t].kind = "issue" => tx'.issuePending
    BY <1>1, <1>4 DEF MailOK, OneIssue, ForIssue
  <2>3. QED
    BY <1>1, <1>2, <1>4, <2>1, <2>2, MailRests
<1>6. SioTypes'
  BY <1>1, <1>2, <1>3, <1>4 DEF SioTypes, TxTypeOK, TagTypeOK, TaskTypeOK, MailTypeOK, CountTypeOK,
       Transfers, Entries, Requests, Answers, Periods, Tags
<1>7. OneSender'
  BY <1>1, <1>2, <1>3, <1>4, <1>5, TransferAt DEF TasksOK, OneSender, Tags
<1>8. OneCall' /\ LockOK'
  BY <1>1, <1>2, <1>3 DEF TasksOK, OneCall, LockOK, Tags, ClientHolds
<1>9. DrainOK'
  BY <1>1, <1>2, <1>3 DEF TasksOK, DrainOK
<1>10. StopOK'
  <2>1. Counting' <=> Counting
    BY <1>2 DEF Counting
  <2>2. tx.inflight > 0 \/ tx.issuePending \/ Counting => needs
    BY <1>1, TransferAt DEF TasksOK, StopOK
  <2>3. ~needs => tx.inflight = 0 /\ ~tx.issuePending /\ ~Counting
    BY <1>1, <2>2, TransferAt
  <2>4. CASE needs
    BY <1>2, <1>3, <1>4, <2>1, <2>2, <2>4 DEF StopOK
  <2>5. CASE ~needs
    BY <1>2, <1>3, <1>4, <2>1, <2>3, <2>5 DEF StopOK
  <2>6. QED
    BY <2>4, <2>5
<1>11. CountOK'
  BY <1>1, <1>2 DEF TasksOK, CountOK, Counting
<1>12. QED
  BY <1>5, <1>6, <1>7, <1>8, <1>9, <1>10, <1>11 DEF SioInv, TasksOK

(* The next period is marked for issue, by the holder of the lock. *)
LEMMA IssueMarkStep ==
  ASSUME SioInv, NEW t \in SioTasks, IssueMark(t)
  PROVE  SioInv'
<1>1. SioTypes /\ MailOK /\ TasksOK
  BY DEF SioInv
<1>2. /\ running' = running /\ error' = error /\ completed' = completed /\ tags' = tags /\ last' = last
      /\ ctag' = ctag /\ a2i' = a2i /\ i2a' = i2a /\ fwq' = fwq /\ earned' = earned
      /\ queued' = queued /\ claimed' = claimed /\ overtook' = overtook /\ dropped' = dropped
      /\ draining' = draining /\ dpc' = dpc /\ dpc[t] = "out" /\ pc[t] = "issueMark"
  BY DEF IssueMark, flags, tagVars, mail, inbound, hist
<1>3. t \in {"client", "worker"} /\ issueLock = {t}
  BY <1>1, <1>2, TransferAt DEF TasksOK, LockOK, ClientHolds
<1>4. /\ pc' \in [SioTasks -> Places] /\ \A s \in SioTasks : s # t => pc'[s] = pc[s]
      /\ \/ /\ pc'[t] = "issueSend" /\ issueLock' = issueLock /\ tx' = [tx EXCEPT !.issuePending = TRUE]
            /\ MayIssue /\ Issuable
         \/ pc'[t] = AfterIssue[t] /\ issueLock' = {} /\ tx' = tx
  <2>1. \A p \in Places : /\ Move(t, p) \in [SioTasks -> Places] /\ Move(t, p)[t] = p
                          /\ \A s \in SioTasks : s # t => Move(t, p)[s] = pc[s]
    BY <1>1, TransferAt DEF Move
  <2>2. "issueSend" \in Places /\ AfterIssue[t] \in Places
    BY <1>3 DEF AfterIssue, Places, ClientHolds, WorkerAt
  <2>3. QED
    BY <1>3, <2>1, <2>2 DEF IssueMark, Unlock
<1>5. AfterIssue[t] = (IF t = "client" THEN "idle" ELSE "top")
  BY <1>3 DEF AfterIssue
<1>6. /\ tx' \in Transfers /\ tx'.nextIssue = tx.nextIssue /\ tx'.nextReport = tx.nextReport
      /\ tx'.inflight = tx.inflight /\ tx'.issued = tx.issued /\ tx'.gen = tx.gen
      /\ tx'.committed = tx.committed /\ tx'.terminated = tx.terminated
      /\ tx'.issuePending = (tx.issuePending \/ pc'[t] = "issueSend")
      /\ pc'[t] = "issueSend" => ~tx.issuePending /\ running /\ tx.nextIssue \in tx.committed \ tx.issued
  BY <1>1, <1>3, <1>4, <1>5, TransferAt DEF Transfers, MayIssue, Wants, Issuable
<1>7. MailOK' /\ \A s \in Tags : ForIssue(s)' <=> ForIssue(s)
  <2>1. tx'.issuePending => tx'.nextIssue \in tx'.committed \ tx'.issued
    BY <1>1, <1>6 DEF MailOK, RingOK
  <2>2. \A s \in Tags : tags[s].kind = "issue" => tx'.issuePending
    BY <1>1, <1>6 DEF MailOK, OneIssue, ForIssue
  <2>3. QED
    BY <1>1, <1>2, <1>6, <2>1, <2>2, MailRests
<1>8. SioTypes'
  BY <1>1, <1>2, <1>4, <1>6 DEF SioTypes, TxTypeOK, TagTypeOK, TaskTypeOK, MailTypeOK, CountTypeOK,
       Transfers, Entries, Requests, Answers, Periods, Tags
<1>9. OneSender'
  <2>1. pc'[t] = "issueSend" => \A s \in Tags : ~ForIssue(s)
    BY <1>1, <1>6 DEF MailOK, OneIssue
  <2>2. \A s \in SioTasks : pc'[s] = "issueSend" => tx'.issuePending /\ \A r \in Tags : ~ForIssue(r)'
    BY <1>1, <1>4, <1>6, <1>7, <2>1 DEF TasksOK, OneSender
  <2>3. tx'.issuePending => (\E r \in Tags : ForIssue(r)') \/ (\E s \in SioTasks : pc'[s] = "issueSend")
    BY <1>1, <1>2, <1>4, <1>6, <1>7 DEF TasksOK, OneSender
  <2>4. QED
    BY <2>2, <2>3 DEF OneSender, Tags
<1>10. OneCall'
  BY <1>1, <1>2, <1>3, <1>4, <1>5 DEF TasksOK, OneCall, Tags, SioTasks
<1>11. LockOK'
  BY <1>1, <1>2, <1>3, <1>4, <1>5 DEF TasksOK, LockOK, ClientHolds, WorkerAt, SioTasks
<1>12. DrainOK'
  BY <1>1, <1>2, <1>3, <1>4, <1>5 DEF TasksOK, DrainOK, SioTasks
<1>13. StopOK' /\ CountOK'
  <2>1. Counting' <=> Counting
    BY <1>2 DEF Counting
  <2>2. /\ pc'["client"] \in {"termSend", "termWait", "stopWait", "reset", "resetCount", "stopped"}
             => pc'["client"] = pc["client"]
    BY <1>3, <1>4, <1>5 DEF SioTasks
  <2>3. StopOK'
    BY <1>1, <1>2, <1>6, <2>1, <2>2, TransferAt DEF TasksOK, StopOK
  <2>4. QED
    BY <1>1, <1>2, <2>1, <2>3 DEF TasksOK, CountOK
<1>14. QED
  BY <1>7, <1>8, <1>9, <1>10, <1>11, <1>12, <1>13 DEF SioInv, TasksOK

(* A send that fails ends the transfer, and the mark goes with it. *)
LEMMA IssueSendFailsStep ==
  ASSUME SioInv, NEW t \in SioTasks, IssueSendFails(t)
  PROVE  SioInv'
<1>1. SioTypes /\ MailOK /\ TasksOK
  BY DEF SioInv
<1>2. /\ completed' = completed /\ tags' = tags /\ last' = last /\ ctag' = ctag /\ a2i' = a2i
      /\ i2a' = i2a /\ fwq' = fwq /\ earned' = earned /\ draining' = draining /\ dpc' = dpc
      /\ queued' = queued /\ claimed' = claimed /\ overtook' = overtook /\ dropped' = dropped
      /\ pc[t] = "issueSend" /\ running' = FALSE /\ error' = TRUE
      /\ tx' = [tx EXCEPT !.issuePending = FALSE, !.terminated = TRUE]
  BY DEF IssueSendFails, flags, tagVars, mail, inbound, hist
<1>3. t \in {"client", "worker"} /\ issueLock = {t}
  BY <1>1, <1>2, TransferAt DEF TasksOK, LockOK, ClientHolds
<1>4. AfterIssue[t] = (IF t = "client" THEN "idle" ELSE "top")
  BY <1>3 DEF AfterIssue
<1>5. /\ pc' \in [SioTasks -> Places] /\ \A s \in SioTasks : s # t => pc'[s] = pc[s]
      /\ pc'[t] = AfterIssue[t] /\ issueLock' = {}
  <2>1. AfterIssue[t] \in Places
    BY <1>3, <1>4 DEF Places, WorkerAt
  <2>2. QED
    BY <1>1, <1>3, <2>1, TransferAt DEF IssueSendFails, Move, Unlock
<1>6. /\ tx' \in Transfers /\ tx'.nextIssue = tx.nextIssue /\ tx'.nextReport = tx.nextReport
      /\ tx'.inflight = tx.inflight /\ tx'.issued = tx.issued /\ tx'.gen = tx.gen
      /\ tx'.committed = tx.committed /\ tx'.terminated = TRUE /\ tx'.issuePending = FALSE
  BY <1>1, <1>2, TransferAt DEF Transfers
<1>7. tx.issuePending /\ \A s \in Tags : ~ForIssue(s)
  BY <1>1, <1>2 DEF TasksOK, OneSender
<1>8. MailOK' /\ \A s \in Tags : ForIssue(s)' <=> ForIssue(s)
  <2>1. \A s \in Tags : tags[s].kind # "issue"
    BY <1>7 DEF ForIssue
  <2>2. QED
    BY <1>1, <1>2, <1>6, <2>1, MailRests
<1>9. SioTypes'
  BY <1>1, <1>2, <1>5, <1>6 DEF SioTypes, TxTypeOK, TagTypeOK, TaskTypeOK, MailTypeOK, CountTypeOK,
       Transfers, Entries, Requests, Answers, Periods, Tags
<1>10. OneSender'
  <2>1. \A s \in SioTasks : pc'[s] # "issueSend"
    BY <1>1, <1>3, <1>4, <1>5, TransferAt DEF TasksOK, LockOK, ClientHolds
  <2>2. QED
    BY <1>6, <2>1 DEF OneSender
<1>11. OneCall'
  BY <1>1, <1>2, <1>3, <1>4, <1>5 DEF TasksOK, OneCall, Tags, SioTasks
<1>12. LockOK'
  BY <1>1, <1>2, <1>3, <1>4, <1>5 DEF TasksOK, LockOK, ClientHolds, WorkerAt, SioTasks
<1>13. DrainOK'
  BY <1>1, <1>2, <1>3, <1>4, <1>5 DEF TasksOK, DrainOK, SioTasks
<1>14. StopOK' /\ CountOK'
  <2>1. Counting' <=> Counting
    BY <1>2 DEF Counting
  <2>2. /\ pc'["client"] \in {"termSend", "termWait", "stopWait", "reset", "resetCount", "stopped"}
             => pc'["client"] = pc["client"]
    BY <1>3, <1>4, <1>5 DEF SioTasks
  <2>3. StopOK'
    BY <1>1, <1>2, <1>6, <2>1, <2>2, TransferAt DEF TasksOK, StopOK
  <2>4. QED
    BY <1>1, <1>2, <2>1, <2>3 DEF TasksOK, CountOK
<1>15. QED
  BY <1>8, <1>9, <1>10, <1>11, <1>12, <1>13, <1>14 DEF SioInv, TasksOK

(* The end of call and of stop: the tag of the call goes back, answered or     *)
(* given up, and the transfer stays as it is.                                 *)
LEMMA CallEndsStep ==
  ASSUME SioInv, StopAcked \/ StopFails
  PROVE  SioInv'
<1>1. SioTypes /\ MailOK /\ TasksOK
  BY DEF SioInv
<1>2. /\ tx' = tx /\ running' = running /\ error' = error /\ completed' = completed /\ last' = last
      /\ ctag' = ctag /\ a2i' = a2i /\ i2a' = i2a /\ fwq' = fwq /\ earned' = earned
      /\ queued' = queued /\ claimed' = claimed /\ overtook' = overtook /\ dropped' = dropped
      /\ draining' = draining /\ dpc["client"] = "out"
  BY DEF StopAcked, StopFails, flags, tagVars, mail, inbound, hist
<1>3. /\ pc["client"] \in {"termSend", "termWait", "stopWait"} /\ issueLock = {"client"}
  BY <1>1 DEF StopAcked, StopFails, TasksOK, LockOK, ClientHolds
<1>4. \/ pc["client"] = "termWait" /\ tags' = [tags EXCEPT ![ctag] = FreeTag]
      \/ pc["client"] # "termWait" /\ tags' = tags
  BY DEF StopAcked, StopFails
<1>5. /\ pc' \in [SioTasks -> Places] /\ pc'["worker"] = pc["worker"] /\ dpc' \in [SioTasks -> Drainings]
      /\ dpc'["worker"] = dpc["worker"]
      /\ \/ /\ pc'["client"] = "stopWait" /\ dpc'["client"] = "enter" /\ issueLock' = issueLock
            /\ pc["client"] = "termWait" /\ tags[ctag].result # "none"
         \/ pc'["client"] = "idle" /\ dpc'["client"] = "out" /\ issueLock' = {}
  BY <1>1, <1>2, <1>3, TransferAt DEF StopAcked, StopFails, Move, Unlock, Places, ClientHolds, Drainings
<1>6. /\ \A s \in Tags : tags'[s] = tags[s] \/ (s = ctag /\ pc["client"] = "termWait" /\ tags'[s] = FreeTag)
      /\ pc["client"] = "termWait" => tags'[ctag] = FreeTag /\ ctag \in Tags /\ tags[ctag].kind = "sync"
      /\ tags' \in [Tags -> Entries]
  BY <1>1, <1>4, TransferAt DEF FreeTag, Entries, TasksOK, OneCall
<1>7. MailOK' /\ \A s \in Tags : ForIssue(s)' <=> ForIssue(s)
  <2>1. tx'.issuePending => tx'.nextIssue \in tx'.committed \ tx'.issued
    BY <1>1, <1>2 DEF MailOK, RingOK
  <2>2. \A s \in Tags : (tags'[s].kind = "issue") <=> (tags[s].kind = "issue")
    BY <1>6 DEF FreeTag
  <2>3. \A s \in Tags : tags[s].kind = "issue" => tags'[s] = tags[s] /\ tx'.issuePending
    BY <1>1, <1>2, <1>6 DEF MailOK, OneIssue, ForIssue
  <2>4. QED
    BY <1>1, <1>2, <2>1, <2>2, <2>3, MailRests
<1>8. SioTypes'
  BY <1>1, <1>2, <1>5, <1>6 DEF SioTypes, TxTypeOK, TagTypeOK, TaskTypeOK, MailTypeOK, CountTypeOK,
       Transfers, Entries, Requests, Answers, Periods, Tags
<1>9. OneSender'
  BY <1>1, <1>2, <1>3, <1>5, <1>7, TransferAt DEF TasksOK, OneSender, Tags
<1>10. OneCall'
  <2>1. \A s \in Tags : tags'[s].kind # "sync"
    BY <1>1, <1>6 DEF TasksOK, OneCall, FreeTag
  <2>2. \A s \in Tags : tags'[s].result = "none"
    BY <1>1, <1>6 DEF TasksOK, OneCall, FreeTag
  <2>3. QED
    BY <1>5, <2>1, <2>2 DEF OneCall, Tags
<1>11. LockOK'
  BY <1>1, <1>3, <1>5 DEF TasksOK, LockOK, ClientHolds
<1>12. DrainOK'
  BY <1>1, <1>2, <1>5 DEF TasksOK, DrainOK, SioTasks, InsideAt
<1>13. Counting' <=> Counting
  BY <1>2, <1>5 DEF Counting, CountingAt, SioTasks
<1>14. StopOK' /\ CountOK'
  BY <1>1, <1>2, <1>5, <1>13 DEF TasksOK, StopOK, CountOK
<1>15. QED
  BY <1>7, <1>8, <1>9, <1>10, <1>11, <1>12, <1>14 DEF SioInv, TasksOK

(* With nothing out, nothing of the old generation is on its way.             *)
LEMMA StopResetStep ==
  ASSUME SioAssumption, SioInv, StopReset
  PROVE  SioInv'
<1>1. SioTypes /\ MailOK /\ TasksOK
  BY DEF SioInv
<1>2. /\ running' = running /\ error' = error /\ completed' = completed /\ tags' = tags /\ last' = last
      /\ ctag' = ctag /\ a2i' = a2i /\ i2a' = i2a /\ fwq' = fwq /\ earned' = earned
      /\ queued' = queued /\ claimed' = claimed /\ overtook' = overtook /\ dropped' = dropped
      /\ draining' = draining /\ dpc' = dpc /\ issueLock' = issueLock /\ pc["client"] = "reset"
      /\ tx' = Fresh(tx.gen + 1)
  BY DEF StopReset, flags, tagVars, mail, inbound, hist
<1>3. /\ pc' \in [SioTasks -> Places] /\ pc'["worker"] = pc["worker"] /\ pc'["client"] = "resetCount"
  BY <1>1, TransferAt DEF StopReset, Move, Places, ClientHolds
<1>4. NPeriods \in Nat /\ NPeriods > 0 /\ 0 \in Periods
  BY DEF SioAssumption, Periods
<1>5. /\ tx' \in Transfers /\ tx'.nextIssue = 0 /\ tx'.nextReport = 0 /\ tx'.inflight = 0
      /\ tx'.issued = {} /\ tx'.committed = {} /\ tx'.issuePending = FALSE /\ tx'.terminated = FALSE
  BY <1>1, <1>2, <1>4, TransferAt DEF Transfers, Fresh
<1>6. tx.inflight = 0 /\ ~tx.issuePending /\ ~running
  BY <1>1, <1>2 DEF TasksOK, StopOK
<1>7. \A s \in Tags : ~ForIssue(s) /\ ~ForIssue(s)'
  BY <1>1, <1>2, <1>6 DEF MailOK, OneIssue, ForIssue
<1>8. Unseen = 0 /\ Len(fwq) = 0 /\ ~dropped /\ (\A i \in DOMAIN i2a : ~IsReport(i)) /\ (\A j \in DOMAIN fwq : FALSE)
  <2>1. Taken = 0
    BY <1>1, <1>6, RingHolds DEF Taken
  <2>2. Unseen \in Nat /\ Len(fwq) \in Nat /\ Thrown \in Nat /\ DOMAIN fwq = 1 .. Len(fwq) /\ i2a \in Seq(Answers)
    BY <1>1, MailAt DEF Thrown
  <2>3. Unseen = 0 /\ Len(fwq) = 0 /\ Thrown = 0
    BY <1>1, <2>1, <2>2 DEF MailOK, WindowOK
  <2>4. \A i \in DOMAIN i2a : ~IsReport(i)
    BY <2>2, <2>3, CountAt DEF Unseen, IsReport
  <2>5. QED
    BY <2>2, <2>3, <2>4 DEF Thrown
<1>9. /\ \A i : (IsReply(i)' <=> IsReply(i)) /\ (IsReport(i)' <=> IsReport(i))
      /\ \A i : ~AcceptedAt(i)'
  BY <1>2, <1>7 DEF IsReply, IsReport, AcceptedAt, ForIssue, Tags
<1>10. \A j \in DOMAIN a2i : a2i[j].type # "issue"
  BY <1>1, <1>7, MailAt DEF MailOK, OneIssue
<1>11. TagsApart'
  BY <1>1, <1>2, <1>9 DEF MailOK, TagsApart, Tags
<1>12. OneIssue'
  <2>1. \A j \in DOMAIN a2i : (a2i[j].type = "issue")' <=> ForIssue(a2i[j].tag)'
    BY <1>1, <1>2, <1>7, <1>10, MailAt DEF ForIssue
  <2>2. QED
    BY <1>2, <1>7, <2>1 DEF OneIssue, Tags
<1>13. \A p \in Periods : Dist(p)' = p
  BY <1>4, <1>5 DEF Dist, Behind, Periods
<1>14. RingOK'
  BY <1>2, <1>4, <1>5, <1>10, <1>13 DEF RingOK, Periods
<1>15. WindowOK' /\ OrderOK'
  <2>1. Taken' = 0
    BY <1>5, <1>9 DEF Taken, Accepted
  <2>2. Unseen' = 0 /\ Thrown' = 0 /\ DOMAIN fwq' = DOMAIN fwq /\ Len(fwq') = 0
    BY <1>2, <1>8 DEF Unseen, Thrown, CountReports, Reports
  <2>3. WindowOK'
    BY <1>8, <2>1, <2>2 DEF WindowOK
  <2>4. \A p \in Periods : ~(Dist(p)' < 0)
    BY <1>4, <1>13 DEF Periods
  <2>5. FirmwareOK'
    BY <1>2, <1>8, <1>9, <2>2, <2>4 DEF FirmwareOK, Periods
  <2>6. QED
    BY <1>2, <1>8, <2>3, <2>5 DEF OrderOK
<1>16. SioTypes'
  BY <1>1, <1>2, <1>3, <1>5 DEF SioTypes, TxTypeOK, TagTypeOK, TaskTypeOK, MailTypeOK, CountTypeOK,
       Transfers, Entries, Requests, Answers, Periods, Tags
<1>17. OneSender'
  BY <1>1, <1>3, <1>5, <1>6, TransferAt DEF TasksOK, OneSender
<1>18. OneCall' /\ LockOK'
  BY <1>1, <1>2, <1>3 DEF TasksOK, OneCall, LockOK, Tags, ClientHolds
<1>19. DrainOK'
  BY <1>1, <1>2, <1>3 DEF TasksOK, DrainOK
<1>20. StopOK' /\ CountOK'
  BY <1>1, <1>2, <1>3, <1>5, <1>6 DEF TasksOK, StopOK, CountOK, Counting
<1>21. QED
  BY <1>11, <1>12, <1>14, <1>15, <1>16, <1>17, <1>18, <1>19, <1>20 DEF SioInv, MailOK, TasksOK

(* The counter is reset when nobody is about to count. *)
LEMMA StopDoneStep ==
  ASSUME SioInv, StopDone
  PROVE  SioInv'
<1>1. SioTypes /\ MailOK /\ TasksOK
  BY DEF SioInv
<1>2. /\ tx' = tx /\ running' = running /\ error' = FALSE /\ tags' = tags /\ last' = last
      /\ ctag' = ctag /\ a2i' = a2i /\ i2a' = i2a /\ fwq' = fwq /\ draining' = draining /\ dpc' = dpc
      /\ queued' = queued /\ claimed' = claimed /\ overtook' = overtook /\ dropped' = dropped
      /\ completed' = 0 /\ earned' = 0 /\ pc["client"] = "resetCount"
  BY DEF StopDone, flags, tagVars, mail, inbound, hist
<1>3. /\ pc' \in [SioTasks -> Places] /\ pc'["worker"] = pc["worker"] /\ pc'["client"] = "stopped"
      /\ issueLock = {"client"} /\ issueLock' = {}
  BY <1>1, TransferAt DEF StopDone, Move, Unlock, Places, TasksOK, LockOK, ClientHolds
<1>4. MailOK' /\ \A t \in Tags : ForIssue(t)' <=> ForIssue(t)
  BY <1>1, <1>2, AllRests
<1>5. ~Counting /\ ~Counting'
  BY <1>1, <1>2 DEF TasksOK, StopOK, Counting
<1>6. SioTypes'
  BY <1>1, <1>2, <1>3 DEF SioTypes, TxTypeOK, TagTypeOK, TaskTypeOK, MailTypeOK, CountTypeOK,
       Transfers, Entries, Requests, Answers, Periods, Tags
<1>7. OneSender'
  BY <1>1, <1>2, <1>3, <1>4, TransferAt DEF TasksOK, OneSender, Tags
<1>8. OneCall' /\ LockOK'
  BY <1>1, <1>2, <1>3 DEF TasksOK, OneCall, LockOK, Tags, ClientHolds
<1>9. DrainOK'
  BY <1>1, <1>2, <1>3 DEF TasksOK, DrainOK
<1>10. StopOK' /\ CountOK'
  BY <1>1, <1>2, <1>3, <1>5 DEF TasksOK, StopOK, CountOK
<1>11. QED
  BY <1>4, <1>6, <1>7, <1>8, <1>9, <1>10 DEF SioInv, TasksOK

------------------------------------------------------------------------------
(* The requests sent *)

LEMMA NextTagIsFree ==
  ASSUME SioAssumption, SioTypes, NEW t \in NextTag
  PROVE  t \in Tags /\ tags[t].kind = "free"
<1> DEFINE free == {k \in 1 .. NTags : tags[TagAfter(last, k)].kind = "free"}
<1>1. NTags \in Nat /\ NTags > 0 /\ last \in Nat
  BY DEF SioAssumption, SioTypes, TagTypeOK
<1>2. PICK k \in 1 .. NTags : t = TagAfter(last, k) /\ tags[TagAfter(last, k)].kind = "free"
  <2>1. PICK k \in {k \in free : \A j \in free : k <= j} : t = TagAfter(last, k)
    BY DEF NextTag
  <2>2. QED
    BY <2>1
<1>3. last + k - 1 \in Nat
  BY <1>1
<1>4. (last + k - 1) % NTags \in 0 .. (NTags - 1)
  BY <1>1, <1>3
<1>5. QED
  BY <1>1, <1>2, <1>4 DEF TagAfter, Tags

LEMMA OwedAt ==
  ASSUME SioTypes, NEW t, t \notin Owed
  PROVE  /\ \A i \in DOMAIN i2a : IsReply(i) => i2a[i].tag # t
         /\ \A j \in DOMAIN a2i : a2i[j].tag # t
  BY DEF Owed

(* A request is sent under a tag that nothing on its way has.  What it adds   *)
(* to the mailbox disturbs nothing that is there.                             *)
LEMMA SendRests ==
  ASSUME SioAssumption, SioTypes, MailOK, NEW s \in Tags, s \notin Owed, tags[s].kind = "free",
         NEW m \in Requests, m.tag = s, a2i' = Append(a2i, m), i2a' = i2a, fwq' = fwq, tx' = tx,
         queued' = queued, claimed' = claimed, overtook' = overtook, dropped' = dropped,
         NEW e \in Entries, tags' = [tags EXCEPT ![s] = e], e.kind \in {"sync", "issue"},
         m.type = "issue" <=> e.kind = "issue",
         e.kind = "issue" => /\ e.gen = tx.gen /\ tx.issuePending /\ m.period = tx.nextIssue
                             /\ \A t \in Tags : ~ForIssue(t)
  PROVE  MailOK' /\ MailTypeOK' /\ \A t \in Tags : ForIssue(t)' <=> IF t = s THEN e.kind = "issue" ELSE ForIssue(t)
<1> DEFINE n == Len(a2i) + 1
<1>1. /\ a2i' \in Seq(Requests) /\ Len(a2i) \in Nat /\ DOMAIN a2i = 1 .. Len(a2i) /\ DOMAIN a2i' = 1 .. n
      /\ \A j \in DOMAIN a2i : j \in DOMAIN a2i' /\ a2i'[j] = a2i[j]
      /\ a2i'[n] = m
  <2>1. a2i \in Seq(Requests)
    BY MailAt
  <2>2. QED
    BY <2>1, AppendAt
<1>2. n \in DOMAIN a2i' /\ \A j \in DOMAIN a2i' : j \in DOMAIN a2i \/ j = n
  BY <1>1
<1> HIDE DEF n
<1>3. /\ \A j \in DOMAIN a2i : a2i[j].tag \in Tags /\ a2i[j].tag # s
      /\ \A i \in DOMAIN i2a : IsReply(i) => i2a[i].tag \in Tags /\ i2a[i].tag # s
  BY MailAt, OwedAt DEF MailOK, TagsApart
<1>4. /\ \A t \in Tags : t # s => tags'[t] = tags[t]
      /\ tags'[s] = e
  BY TransferAt
<1>5. \A t \in Tags : ForIssue(t)' <=> IF t = s THEN e.kind = "issue" ELSE ForIssue(t)
  BY <1>4 DEF ForIssue, Tags
<1>6. \A i : (IsReply(i)' <=> IsReply(i)) /\ (IsReport(i)' <=> IsReport(i))
  BY DEF IsReply, IsReport
<1>7. ~ForIssue(s)
  BY DEF ForIssue
<1>8. TagsApart'
  BY <1>1, <1>2, <1>3, <1>6 DEF MailOK, TagsApart, Tags
<1>9. OneIssue'
  <2>1. \A j \in DOMAIN a2i' : (a2i'[j].type = "issue") <=> (a2i'[j].tag \in Tags /\ tags'[a2i'[j].tag].kind = "issue")
    <3>1. ASSUME NEW j \in DOMAIN a2i
          PROVE  (a2i'[j].type = "issue") <=> (a2i'[j].tag \in Tags /\ tags'[a2i'[j].tag].kind = "issue")
      BY <1>1, <1>3, <1>4 DEF MailOK, OneIssue, ForIssue
    <3>2. QED
      BY <1>1, <1>2, <1>4, <3>1
  <2>2. \A r, t \in Tags : ForIssue(r)' /\ ForIssue(t)' => r = t
    BY <1>5 DEF MailOK, OneIssue
  <2>3. \A t \in Tags : ForIssue(t)' => tags'[t].gen = tx'.gen /\ tx'.issuePending
    BY <1>4, <1>5 DEF MailOK, OneIssue
  <2>4. \A t \in Tags : ForIssue(t)' =>
          (\E i \in DOMAIN i2a : IsReply(i)' /\ i2a'[i].tag = t) \/ (\E j \in DOMAIN a2i' : a2i'[j].tag = t)
    <3>1. ASSUME NEW t \in Tags, t # s, ForIssue(t)
          PROVE  (\E i \in DOMAIN i2a : IsReply(i) /\ i2a[i].tag = t) \/ (\E j \in DOMAIN a2i : a2i[j].tag = t)
      BY <3>1 DEF MailOK, OneIssue
    <3>2. \E j \in DOMAIN a2i' : a2i'[j].tag = s
      BY <1>1, <1>2
    <3>3. ASSUME NEW t \in Tags, ForIssue(t)', t # s
          PROVE  (\E i \in DOMAIN i2a : IsReply(i)' /\ i2a'[i].tag = t) \/ (\E j \in DOMAIN a2i' : a2i'[j].tag = t)
      <4>1. (\E i \in DOMAIN i2a : IsReply(i) /\ i2a[i].tag = t) \/ (\E j \in DOMAIN a2i : a2i[j].tag = t)
        BY <1>5, <3>1, <3>3
      <4>2. QED
        BY <1>1, <1>6, <4>1
    <3>4. QED
      BY <3>2, <3>3
  <2>5. QED
    BY <2>1, <2>2, <2>3, <2>4 DEF OneIssue, ForIssue, Tags
<1>10. \A i \in DOMAIN i2a : AcceptedAt(i)' <=> AcceptedAt(i)
  BY <1>3, <1>5, <1>6 DEF AcceptedAt
<1>11. (Accepted' <=> Accepted) /\ Taken' = Taken
  BY <1>10 DEF Accepted, Taken
<1>12. \A p : Dist(p)' = Dist(p)
  BY DEF Dist, Behind
<1>13. RingOK'
  <2>1. \A j \in DOMAIN a2i' : a2i'[j].type = "issue" => a2i'[j].period = tx'.nextIssue
    BY <1>1, <1>2 DEF MailOK, RingOK
  <2>2. QED
    BY <1>12, <2>1 DEF MailOK, RingOK, Periods
<1>14. WindowOK' /\ OrderOK'
  <2>1. Unseen' = Unseen /\ Thrown' = Thrown
    BY DEF Unseen, Thrown, CountReports, Reports
  <2>2. FirmwareOK => FirmwareOK'
    BY <1>6, <1>10, <1>12, <2>1 DEF FirmwareOK, Periods
  <2>3. QED
    BY <1>11, <1>12, <2>1, <2>2 DEF MailOK, WindowOK, OrderOK
<1>15. MailTypeOK'
  BY <1>1, MailAt DEF SioTypes, MailTypeOK, Requests, Answers, Periods, Tags
<1>16. QED
  BY <1>5, <1>8, <1>9, <1>13, <1>14, <1>15 DEF MailOK

LEMMA IssueSendStep ==
  ASSUME SioAssumption, SioInv, NoTagComesRound, NEW t \in SioTasks, IssueSend(t)
  PROVE  SioInv'
<1> DEFINE msg == [type |-> "issue", tag |-> 0, period |-> tx.nextIssue]
<1>1. SioTypes /\ MailOK /\ TasksOK
  BY DEF SioInv
<1>2. /\ tx' = tx /\ running' = running /\ error' = error /\ completed' = completed /\ ctag' = ctag
      /\ i2a' = i2a /\ fwq' = fwq /\ earned' = earned /\ draining' = draining /\ dpc' = dpc
      /\ queued' = queued /\ claimed' = claimed /\ overtook' = overtook /\ dropped' = dropped
      /\ pc[t] = "issueSend" /\ pc' = Move(t, AfterIssue[t]) /\ Unlock(t)
      /\ SendTagged("issue", tx.gen, msg)
  BY DEF IssueSend, flags, inbound, hist
<1>3. t \in {"client", "worker"} /\ issueLock = {t} /\ Sending
  BY <1>1, <1>2, TransferAt DEF TasksOK, LockOK, ClientHolds, Sending
<1>4. AfterIssue[t] = (IF t = "client" THEN "idle" ELSE "top")
  BY <1>3 DEF AfterIssue
<1>5. /\ pc' \in [SioTasks -> Places] /\ \A s \in SioTasks : s # t => pc'[s] = pc[s]
      /\ pc'[t] = AfterIssue[t] /\ issueLock' = {}
  <2>1. AfterIssue[t] \in Places
    BY <1>3, <1>4 DEF Places, WorkerAt
  <2>2. QED
    BY <1>1, <1>2, <1>3, <2>1, TransferAt DEF Move, Unlock
<1>6. tx.issuePending /\ \A s \in Tags : ~ForIssue(s)
  BY <1>1, <1>2 DEF TasksOK, OneSender
<1>7. PICK s \in NextTag :
        /\ tags' = [tags EXCEPT ![s] = [kind |-> "issue", gen |-> tx.gen, result |-> "none"]]
        /\ last' = s /\ a2i' = Append(a2i, [msg EXCEPT !.tag = s])
  BY <1>2 DEF SendTagged
<1>8. s \in Tags /\ tags[s].kind = "free" /\ s \notin Owed
  BY <1>1, <1>3, <1>7, NextTagIsFree DEF NoTagComesRound
<1> DEFINE m == [msg EXCEPT !.tag = s]
           e == [kind |-> "issue", gen |-> tx.gen, result |-> "none"]
<1>9. /\ m \in Requests /\ m.tag = s /\ m.type = "issue" /\ m.period = tx.nextIssue
      /\ e \in Entries /\ e.kind = "issue" /\ e.gen = tx.gen /\ e.result = "none"
  BY <1>1, <1>8, TransferAt DEF Requests, Entries
<1>10. a2i' = Append(a2i, m) /\ tags' = [tags EXCEPT ![s] = e]
  BY <1>7
<1> HIDE DEF m, e, msg
<1>11. MailOK' /\ MailTypeOK' /\ \A r \in Tags : ForIssue(r)' <=> IF r = s THEN e.kind = "issue" ELSE ForIssue(r)
  BY <1>1, <1>2, <1>6, <1>8, <1>9, <1>10, SendRests
<1>12. tags' \in [Tags -> Entries] /\ tags'[s] = e /\ \A r \in Tags : r # s => tags'[r] = tags[r]
  BY <1>1, <1>8, <1>9, <1>10, TransferAt
<1>13. SioTypes'
  BY <1>1, <1>2, <1>5, <1>7, <1>8, <1>11, <1>12 DEF SioTypes, TxTypeOK, TagTypeOK, TaskTypeOK, CountTypeOK,
       Transfers, Entries, Periods, Tags
<1>14. OneSender'
  <2>1. \A r \in SioTasks : pc'[r] # "issueSend"
    BY <1>1, <1>3, <1>4, <1>5, TransferAt DEF TasksOK, LockOK, ClientHolds
  <2>2. ForIssue(s)'
    BY <1>8, <1>9, <1>11
  <2>3. QED
    BY <1>8, <2>1, <2>2 DEF OneSender, Tags
<1>15. OneCall'
  <2>1. pc'["client"] = "termWait" <=> pc["client"] = "termWait"
    BY <1>2, <1>3, <1>4, <1>5 DEF SioTasks
  <2>2. pc["client"] = "termWait" => ctag # s
    BY <1>1, <1>8 DEF TasksOK, OneCall
  <2>3. QED
    BY <1>1, <1>2, <1>8, <1>9, <1>12, <2>1, <2>2 DEF TasksOK, OneCall, Tags
<1>16. LockOK'
  BY <1>1, <1>2, <1>3, <1>4, <1>5 DEF TasksOK, LockOK, ClientHolds, WorkerAt, SioTasks
<1>17. DrainOK'
  BY <1>1, <1>2, <1>3, <1>4, <1>5 DEF TasksOK, DrainOK, SioTasks
<1>18. StopOK' /\ CountOK'
  <2>1. Counting' <=> Counting
    BY <1>2 DEF Counting
  <2>2. /\ pc'["client"] \in {"termSend", "termWait", "stopWait", "reset", "resetCount", "stopped"}
             => pc'["client"] = pc["client"]
    BY <1>3, <1>4, <1>5 DEF SioTasks
  <2>3. pc["client"] = "termWait" => tags'[ctag] = tags[ctag]
    BY <1>1, <1>8, <1>12 DEF TasksOK, OneCall
  <2>4. StopOK'
    BY <1>1, <1>2, <2>1, <2>2, <2>3, TransferAt DEF TasksOK, StopOK
  <2>5. QED
    BY <1>1, <1>2, <2>1, <2>4 DEF TasksOK, CountOK
<1>19. QED
  BY <1>11, <1>13, <1>14, <1>15, <1>16, <1>17, <1>18 DEF SioInv, TasksOK

LEMMA StopSendStep ==
  ASSUME SioAssumption, SioInv, NoTagComesRound, StopSend
  PROVE  SioInv'
<1> DEFINE msg == [type |-> "terminate", tag |-> 0, period |-> 0]
<1>1. SioTypes /\ MailOK /\ TasksOK
  BY DEF SioInv
<1>2. /\ tx' = tx /\ running' = running /\ error' = error /\ completed' = completed /\ issueLock' = issueLock
      /\ i2a' = i2a /\ fwq' = fwq /\ earned' = earned /\ draining' = draining
      /\ queued' = queued /\ claimed' = claimed /\ overtook' = overtook /\ dropped' = dropped
      /\ dpc' = [dpc EXCEPT !["client"] = "enter"] /\ pc["client"] = "termSend"
      /\ pc' = Move("client", "termWait") /\ ctag' = last' /\ SendTagged("sync", 0, msg)
  BY DEF StopSend, flags, inbound, hist
<1>3. /\ pc' \in [SioTasks -> Places] /\ pc'["worker"] = pc["worker"] /\ pc'["client"] = "termWait"
      /\ dpc' \in [SioTasks -> Drainings] /\ dpc'["worker"] = dpc["worker"] /\ dpc'["client"] = "enter"
      /\ dpc["client"] = "out" /\ issueLock = {"client"}
  BY <1>1, <1>2, TransferAt DEF Move, Places, ClientHolds, Drainings, TasksOK, DrainOK, LockOK
<1>4. \A r \in Tags : tags[r].kind # "sync" /\ tags[r].result = "none"
  BY <1>1, <1>2 DEF TasksOK, OneCall
<1>5. PICK s \in NextTag :
        /\ tags' = [tags EXCEPT ![s] = [kind |-> "sync", gen |-> 0, result |-> "none"]]
        /\ last' = s /\ a2i' = Append(a2i, [msg EXCEPT !.tag = s])
  BY <1>2 DEF SendTagged
<1>6. s \in Tags /\ tags[s].kind = "free" /\ s \notin Owed
  <2>1. Sending
    BY <1>2 DEF Sending
  <2>2. QED
    BY <1>1, <1>5, <2>1, NextTagIsFree DEF NoTagComesRound
<1> DEFINE m == [msg EXCEPT !.tag = s]
           e == [kind |-> "sync", gen |-> 0, result |-> "none"]
<1>7. /\ m \in Requests /\ m.tag = s /\ m.type = "terminate"
      /\ e \in Entries /\ e.kind = "sync" /\ e.result = "none"
  <2>1. 0 \in Periods
    BY DEF SioAssumption, Periods
  <2>2. QED
    BY <1>6, <2>1 DEF Requests, Entries
<1>8. a2i' = Append(a2i, m) /\ tags' = [tags EXCEPT ![s] = e]
  BY <1>5
<1> HIDE DEF m, e, msg
<1>9. MailOK' /\ MailTypeOK' /\ \A r \in Tags : ForIssue(r)' <=> IF r = s THEN e.kind = "issue" ELSE ForIssue(r)
  BY <1>1, <1>2, <1>6, <1>7, <1>8, SendRests
<1>10. tags' \in [Tags -> Entries] /\ tags'[s] = e /\ \A r \in Tags : r # s => tags'[r] = tags[r]
  BY <1>1, <1>6, <1>7, <1>8, TransferAt
<1>11. \A r \in Tags : ForIssue(r)' <=> ForIssue(r)
  BY <1>6, <1>7, <1>9 DEF ForIssue
<1>12. SioTypes'
  BY SMTT(20), <1>1, <1>2, <1>3, <1>5, <1>6, <1>9, <1>10 DEF SioTypes, TxTypeOK, TagTypeOK, TaskTypeOK, CountTypeOK,
       Transfers, Entries, Periods, Tags
<1>13. OneSender'
  BY <1>1, <1>2, <1>3, <1>11, TransferAt DEF TasksOK, OneSender, Tags
<1>14. OneCall'
  BY <1>2, <1>3, <1>4, <1>5, <1>6, <1>7, <1>10 DEF OneCall, Tags
<1>15. LockOK'
  BY <1>1, <1>2, <1>3 DEF TasksOK, LockOK, ClientHolds
<1>16. DrainOK'
  BY <1>1, <1>2, <1>3 DEF TasksOK, DrainOK, SioTasks, InsideAt
<1>17. Counting' <=> Counting
  BY <1>3 DEF Counting, CountingAt, SioTasks
<1>18. tags'[ctag'].result = "none"
  BY <1>2, <1>5, <1>7, <1>10
<1>19. StopOK' /\ CountOK'
  BY <1>1, <1>2, <1>3, <1>17, <1>18 DEF TasksOK, StopOK, CountOK
<1>20. QED
  BY <1>9, <1>12, <1>13, <1>14, <1>15, <1>16, <1>19 DEF SioInv, TasksOK

------------------------------------------------------------------------------
(* The firmware *)

LEMMA TasksRest ==
  ASSUME SioTypes, TasksOK, tx' = tx, running' = running, error' = error, completed' = completed, tags' = tags,
         last' = last, ctag' = ctag, earned' = earned, draining' = draining, pc' = pc, dpc' = dpc,
         issueLock' = issueLock, overtook' = overtook, dropped' = dropped, MailTypeOK'
  PROVE  TasksOK' /\ SioTypes'
<1>1. \A t \in Tags : ForIssue(t)' <=> ForIssue(t)
  BY DEF ForIssue, Tags
<1>2. SioTypes'
  BY DEF SioTypes, TxTypeOK, TagTypeOK, TaskTypeOK, CountTypeOK, Transfers, Entries, Periods, Tags
<1>3. OneSender'
  BY <1>1 DEF TasksOK, OneSender, Tags
<1>4. OneCall' /\ LockOK' /\ DrainOK' /\ StopOK' /\ CountOK'
  BY DEF TasksOK, OneCall, LockOK, DrainOK, StopOK, CountOK, Counting, Tags
<1>5. QED
  BY <1>1, <1>2, <1>3, <1>4 DEF TasksOK

(* An answer to the oldest request; an accepted ISSUE gives the firmware its   *)
(* period, behind those it has.                                               *)
LEMMA AnswerRests ==
  ASSUME SioAssumption, SioTypes, MailOK, a2i # <<>>, a2i' = Tail(a2i), NEW ty \in {"ack", "nack"},
         i2a' = Append(i2a, FwMsg(ty, Head(a2i).tag)), tx' = tx, tags' = tags,
         queued' = queued, claimed' = claimed, overtook' = overtook, dropped' = dropped,
         ty = "ack" /\ Head(a2i).type = "issue" => fwq' = Append(fwq, Head(a2i).period),
         ~(ty = "ack" /\ Head(a2i).type = "issue") => fwq' = fwq
  PROVE  MailOK' /\ MailTypeOK'
<1>0. PICK n \in Nat : n = Len(i2a) + 1
  BY MailAt
<1> DEFINE r == a2i[1]
           m == FwMsg(ty, r.tag)
           taking == ty = "ack" /\ r.type = "issue"
<1>1. /\ a2i' \in Seq(Requests) /\ Len(a2i) \in Nat \ {0} /\ DOMAIN a2i = 1 .. Len(a2i)
      /\ DOMAIN a2i' = 1 .. (Len(a2i) - 1) /\ Head(a2i) = r /\ r \in Requests
      /\ \A j \in DOMAIN a2i' : j + 1 \in DOMAIN a2i /\ a2i'[j] = a2i[j + 1]
  <2>1. a2i \in Seq(Requests)
    BY MailAt
  <2>2. QED
    BY <2>1, TailAt
<1>2. /\ 1 \in DOMAIN a2i /\ \A j \in DOMAIN a2i : j = 1 \/ (j - 1 \in DOMAIN a2i' /\ a2i'[j - 1] = a2i[j])
      /\ r.tag \in Tags /\ r.period \in Periods /\ r.type \in {"issue", "terminate"}
  <2>1. 1 \in DOMAIN a2i
    BY <1>1
  <2>2. r.tag \in Tags /\ r.period \in Periods /\ r.type \in {"issue", "terminate"}
    BY <2>1, MailAt
  <2>3. ASSUME NEW j \in DOMAIN a2i, j # 1 PROVE j - 1 \in DOMAIN a2i' /\ a2i'[j - 1] = a2i[j]
    <3>1. j - 1 \in DOMAIN a2i' /\ (j - 1) + 1 = j
      BY <1>1, <2>3
    <3>2. QED
      BY <1>1, <3>1
  <2>4. QED
    BY <2>1, <2>2, <2>3
<1>3. m \in Answers /\ m.type = ty /\ m.tag = r.tag
  <2>1. 0 \in Periods /\ r.tag \in 0 .. NTags
    BY SMTT(20), <1>2 DEF SioAssumption, Periods, Tags
  <2>2. QED
    BY <2>1 DEF FwMsg, Answers
<1>4. /\ i2a' \in Seq(Answers) /\ Len(i2a) \in Nat /\ DOMAIN i2a = 1 .. Len(i2a) /\ DOMAIN i2a' = 1 .. n
      /\ \A i \in DOMAIN i2a : i \in DOMAIN i2a' /\ i2a'[i] = i2a[i]
      /\ i2a'[n] = m
  <2>1. i2a \in Seq(Answers) /\ i2a' = Append(i2a, m)
    BY <1>1, MailAt
  <2>2. QED
    BY <1>0, <1>3, <2>1, AppendAt
<1>5. n \in DOMAIN i2a' /\ n \notin DOMAIN i2a /\ \A i \in DOMAIN i2a' : i \in DOMAIN i2a \/ i = n
  BY <1>0, <1>4
<1>6. \A i \in DOMAIN i2a : i < n
  BY <1>0, <1>4
<1> HIDE DEF m, r
<1>7. /\ \A i \in DOMAIN i2a : (IsReply(i)' <=> IsReply(i)) /\ (IsReport(i)' <=> IsReport(i))
      /\ IsReply(n)' /\ ~IsReport(n)'
  BY <1>3, <1>4, <1>5 DEF IsReply, IsReport
<1>8. \A t \in Tags : ForIssue(t)' <=> ForIssue(t)
  BY DEF ForIssue, Tags
<1>9. /\ \A i \in DOMAIN i2a : IsReply(i) => i2a[i].tag \in Tags /\ i2a[i].tag # r.tag
      /\ \A j \in DOMAIN a2i' : a2i'[j].tag # r.tag /\ a2i'[j].tag \in Tags
      /\ r.type = "issue" <=> ForIssue(r.tag)
      /\ r.type = "issue" => r.period = tx.nextIssue /\ tx.issuePending
  <2>1. \A i \in DOMAIN i2a : IsReply(i) => i2a[i].tag \in Tags /\ i2a[i].tag # r.tag
    BY <1>2 DEF MailOK, TagsApart, r
  <2>2. \A j \in DOMAIN a2i' : a2i'[j].tag # r.tag /\ a2i'[j].tag \in Tags
    <3>1. ASSUME NEW j \in DOMAIN a2i' PROVE a2i'[j].tag # r.tag /\ a2i'[j].tag \in Tags
      <4>1. j + 1 \in DOMAIN a2i /\ a2i'[j] = a2i[j + 1] /\ j + 1 # 1
        BY <1>1, <3>1
      <4>2. QED
        BY <1>2, <4>1, MailAt DEF MailOK, TagsApart, r
    <3>2. QED
      BY <3>1
  <2>3. r.type = "issue" <=> ForIssue(r.tag)
    BY <1>2 DEF MailOK, OneIssue, r
  <2>4. r.type = "issue" => r.period = tx.nextIssue /\ tx.issuePending
    BY <1>2, <2>3 DEF MailOK, OneIssue, RingOK, r
  <2>5. QED
    BY <2>1, <2>2, <2>3, <2>4
<1>10. TagsApart'
  <2>1. \A i \in DOMAIN i2a' : i2a'[i].type # "report" => i2a'[i].tag \in Tags
    BY <1>2, <1>3, <1>4, <1>5, <1>9 DEF IsReply
  <2>2. \A i, j \in DOMAIN i2a' :
          i2a'[i].type # "report" /\ i2a'[j].type # "report" /\ i2a'[i].tag = i2a'[j].tag => i = j
    BY <1>3, <1>4, <1>5, <1>9 DEF IsReply, MailOK, TagsApart
  <2>3. \A i, j \in DOMAIN a2i' : a2i'[i].tag = a2i'[j].tag => i = j
    <3>1. ASSUME NEW i \in DOMAIN a2i', NEW j \in DOMAIN a2i', a2i'[i].tag = a2i'[j].tag PROVE i = j
      <4>1. i + 1 = j + 1
        BY <1>1, <3>1 DEF MailOK, TagsApart
      <4>2. QED
        BY <1>1, <4>1
    <3>2. QED
      BY <3>1
  <2>4. \A i \in DOMAIN i2a', j \in DOMAIN a2i' : i2a'[i].type # "report" => i2a'[i].tag # a2i'[j].tag
    BY <1>1, <1>3, <1>4, <1>5, <1>9 DEF IsReply, MailOK, TagsApart
  <2>5. QED
    BY <2>1, <2>2, <2>3, <2>4 DEF TagsApart, IsReply, Tags
<1>11. OneIssue'
  <2>1. \A j \in DOMAIN a2i' : (a2i'[j].type = "issue") <=> (a2i'[j].tag \in Tags /\ tags[a2i'[j].tag].kind = "issue")
    BY <1>1 DEF MailOK, OneIssue, ForIssue
  <2>2. \A s, t \in Tags : ForIssue(s)' /\ ForIssue(t)' => s = t
    BY <1>8 DEF MailOK, OneIssue
  <2>3. \A t \in Tags : ForIssue(t)' => tags'[t].gen = tx'.gen /\ tx'.issuePending
    BY <1>8 DEF MailOK, OneIssue
  <2>4. ASSUME NEW t \in Tags, ForIssue(t)
        PROVE  (\E i \in DOMAIN i2a' : i2a'[i].type # "report" /\ i2a'[i].tag = t) \/ (\E j \in DOMAIN a2i' : a2i'[j].tag = t)
    <3>1. (\E i \in DOMAIN i2a : IsReply(i) /\ i2a[i].tag = t) \/ (\E j \in DOMAIN a2i : a2i[j].tag = t)
      BY <2>4 DEF MailOK, OneIssue
    <3>2. ASSUME NEW i \in DOMAIN i2a, IsReply(i), i2a[i].tag = t
          PROVE  \E k \in DOMAIN i2a' : i2a'[k].type # "report" /\ i2a'[k].tag = t
      BY <1>4, <3>2 DEF IsReply
    <3>3. ASSUME NEW j \in DOMAIN a2i, a2i[j].tag = t, j # 1
          PROVE  \E k \in DOMAIN a2i' : a2i'[k].tag = t
      BY <1>2, <3>3
    <3>4. a2i[1].tag = t => i2a'[n].type # "report" /\ i2a'[n].tag = t
      BY <1>3, <1>4 DEF r
    <3>5. QED
      BY <1>5, <3>1, <3>2, <3>3, <3>4
  <2>5. QED
    BY <1>8, <2>1, <2>2, <2>3, <2>4 DEF OneIssue, ForIssue, IsReply, Tags
<1>12. /\ \A i \in DOMAIN i2a : AcceptedAt(i)' <=> AcceptedAt(i)
       /\ AcceptedAt(n)' <=> taking
  <2>1. \A i \in DOMAIN i2a : AcceptedAt(i)' <=> AcceptedAt(i)
    BY <1>4, <1>7 DEF AcceptedAt, ForIssue, Tags
  <2>2. AcceptedAt(n)' <=> ty = "ack" /\ ForIssue(r.tag)
    BY <1>2, <1>3, <1>4, <1>7 DEF AcceptedAt, ForIssue, Tags
  <2>3. QED
    BY <1>9, <2>1, <2>2
<1>13. taking => ~Accepted
  <2>1. SUFFICES ASSUME taking, NEW i \in DOMAIN i2a, AcceptedAt(i) PROVE FALSE
    BY DEF Accepted
  <2>2. IsReply(i) /\ ForIssue(i2a[i].tag) /\ ForIssue(r.tag) /\ i2a[i].tag \in Tags /\ r.tag \in Tags
    BY <1>2, <1>9, <2>1 DEF AcceptedAt
  <2>3. i2a[i].tag = r.tag
    BY <2>2 DEF MailOK, OneIssue
  <2>4. QED
    BY <1>9, <2>2, <2>3
<1>14. Taken' = Taken + (IF taking THEN 1 ELSE 0)
  <2>1. Accepted' <=> Accepted \/ taking
    <3>1. ASSUME NEW i \in DOMAIN i2a', AcceptedAt(i)'
          PROVE  Accepted \/ taking
      <4>1. i \in DOMAIN i2a \/ i = n
        BY <1>5, <3>1
      <4>2. CASE i = n
        BY <1>12, <3>1, <4>2
      <4>3. CASE i \in DOMAIN i2a
        BY <1>12, <3>1, <4>3 DEF Accepted
      <4>4. QED
        BY ONLY <4>1, <4>2, <4>3
    <3>2. ASSUME NEW i \in DOMAIN i2a, AcceptedAt(i)
          PROVE  Accepted'
      <4>1. i \in DOMAIN i2a' /\ AcceptedAt(i)'
        BY <1>4, <1>12, <3>2
      <4>2. QED
        BY ONLY <4>1 DEF Accepted
    <3>3. taking => Accepted'
      BY ONLY <1>5, <1>12 DEF Accepted
    <3>4. (Accepted' => Accepted \/ taking) /\ (Accepted => Accepted')
      BY ONLY <3>1, <3>2 DEF Accepted
    <3>5. QED
      BY ONLY <3>3, <3>4
  <2>2. QED
    BY <1>13, <2>1, RingHolds DEF Taken
<1>15. \A p : Dist(p)' = Dist(p)
  BY DEF Dist, Behind
<1>16. RingOK'
  <2>1. \A j \in DOMAIN a2i' : a2i'[j].type = "issue" => a2i'[j].period = tx.nextIssue
    BY <1>1 DEF MailOK, RingOK
  <2>2. QED
    BY <1>15, <2>1 DEF MailOK, RingOK, Periods
<1>17. Unseen' = Unseen /\ Thrown' = Thrown
  <2>1. i2a \in Seq(Answers) /\ i2a' = Append(i2a, m) /\ Unseen \in Nat
    BY <1>1, MailAt DEF m
  <2>2. m.type # "report"
    BY <1>3
  <2>3. CountReports(i2a') = CountReports(i2a) + (IF m.type = "report" THEN 1 ELSE 0)
    BY <1>3, <2>1, CountAppend
  <2>4. QED
    BY <2>1, <2>2, <2>3 DEF Unseen, Thrown
<1>18. MailTypeOK' /\ WindowOK'
  <2>1. queued \in Nat /\ claimed \in Nat /\ queued + claimed <= Len(i2a) /\ Len(i2a') = Len(i2a) + 1
    <3>1. Len(i2a') = Len(i2a) + 1
      BY <1>0, <1>4, LenProperties
    <3>2. QED
      BY <3>1 DEF SioTypes, MailTypeOK
  <2>2. queued + claimed <= Len(i2a')
    BY <1>4, <2>1
  <2>3. CASE taking
    <3>1. Dist(r.period) = tx.inflight /\ Taken = tx.inflight /\ Taken' = Taken + 1 /\ tx.inflight \in Nat
      BY <1>9, <1>13, <1>14, <2>3, RingHolds DEF Taken
    <3>2. /\ fwq' \in Seq(Periods) /\ Len(fwq) \in Nat /\ DOMAIN fwq = 1 .. Len(fwq) /\ DOMAIN fwq' = 1 .. Len(fwq) + 1
          /\ \A j \in DOMAIN fwq : j \in DOMAIN fwq' /\ fwq'[j] = fwq[j]
          /\ fwq'[Len(fwq) + 1] = r.period
      <4>1. fwq \in Seq(Periods) /\ fwq' = Append(fwq, r.period)
        BY <1>1, <2>3, MailAt
      <4>2. QED
        BY <1>2, <4>1, AppendAt
    <3>3. Len(fwq') = Len(fwq) + 1
      BY <3>2, LenProperties
    <3>4. Taken = Unseen + Thrown + Len(fwq) /\ \A j \in DOMAIN fwq : Dist(fwq[j]) = Unseen + Thrown + j - 1
      BY DEF MailOK, WindowOK
    <3>5. Unseen \in Nat /\ Thrown \in Nat
      BY MailAt DEF Thrown
    <3>6. \A j \in DOMAIN fwq' : Dist(fwq'[j]) = Unseen + Thrown + j - 1
      <4>1. SUFFICES ASSUME NEW j \in DOMAIN fwq' PROVE Dist(fwq'[j]) = Unseen + Thrown + j - 1
        OBVIOUS
      <4>2. CASE j = Len(fwq) + 1
        BY <3>1, <3>2, <3>4, <3>5, <4>2
      <4>3. CASE j # Len(fwq) + 1
        <5>1. j \in DOMAIN fwq /\ fwq'[j] = fwq[j]
          BY <3>2, <4>3
        <5>2. QED
          BY <3>4, <5>1
      <4>4. QED
        BY <4>2, <4>3
    <3>7. WindowOK'
      <4>1. Taken' = Unseen + Thrown + Len(fwq')
        BY <3>1, <3>2, <3>3, <3>4, <3>5
      <4>2. QED
        BY <1>15, <1>17, <3>6, <4>1 DEF WindowOK
    <3>8. MailTypeOK'
      BY <1>1, <1>4, <2>1, <2>2, <3>2 DEF MailTypeOK, Requests, Answers, Periods, Tags
    <3>9. QED
      BY <3>7, <3>8
  <2>4. CASE ~taking
    <3>1. Taken' = Taken /\ fwq' = fwq
      BY SMTT(20), <1>1, <1>14, <2>4, RingHolds
    <3>2. WindowOK'
      BY <1>15, <1>17, <3>1 DEF MailOK, WindowOK
    <3>3. MailTypeOK'
      BY <1>1, <1>4, <2>1, <2>2, <3>1, MailAt DEF MailTypeOK, Requests, Answers, Periods, Tags
    <3>4. QED
      BY <3>2, <3>3
  <2>5. QED
    BY <2>3, <2>4
<1>19. ASSUME FirmwareOK PROVE FirmwareOK'
  <2>1. \A i \in DOMAIN i2a' : i2a'[i].type = "report" => i \in DOMAIN i2a /\ IsReport(i) /\ i2a'[i] = i2a[i]
    BY <1>3, <1>4, <1>5 DEF IsReport
  <2>2. \A i \in DOMAIN i2a : AcceptedAt(i) => i \in DOMAIN i2a' /\ AcceptedAt(i)'
    BY <1>4, <1>12
  <2>3. \A i \in DOMAIN i2a' : i2a'[i].type = "report" => Dist(i2a'[i].period) < Unseen
    BY <1>19, <2>1 DEF FirmwareOK
  <2>4. \A i, j \in DOMAIN i2a' : i2a'[i].type = "report" /\ i2a'[j].type = "report" /\ i < j
          => Dist(i2a'[i].period) < Dist(i2a'[j].period)
    BY <1>19, <2>1 DEF FirmwareOK
  <2>5. \A i \in DOMAIN i2a : IsReport(i) /\ Dist(i2a[i].period) = tx.inflight =>
          \E j \in DOMAIN i2a : j \in DOMAIN i2a' /\ AcceptedAt(j)' /\ j < i
    BY <1>19, <2>2 DEF FirmwareOK
  <2>6. ASSUME NEW p \in Periods, Dist(p) < Unseen
        PROVE  \E i \in DOMAIN i2a' : i2a'[i].type = "report" /\ i2a'[i].period = p
    <3>1. \E i \in DOMAIN i2a : IsReport(i) /\ i2a[i].period = p
      BY <1>19, <2>6 DEF FirmwareOK
    <3>2. QED
      BY <1>4, <3>1 DEF IsReport
  <2>7. \A i \in DOMAIN i2a' : i2a'[i].type = "report" /\ Dist(i2a'[i].period) = tx.inflight =>
          \E j \in DOMAIN i2a : j \in DOMAIN i2a' /\ AcceptedAt(j)' /\ j < i
    BY <2>1, <2>5
  <2>8. QED
    BY <1>15, <1>17, <2>3, <2>4, <2>6, <2>7 DEF FirmwareOK, IsReport, Periods
<1>20. OrderOK'
  BY <1>19 DEF MailOK, OrderOK
<1>21. QED
  BY <1>10, <1>11, <1>16, <1>18, <1>20 DEF MailOK

LEMMA FwAnswerStep ==
  ASSUME SioAssumption, SioInv, FwAccept \/ FwRefuse
  PROVE  SioInv'
<1>1. SioTypes /\ MailOK /\ TasksOK
  BY DEF SioInv
<1>2. /\ tx' = tx /\ running' = running /\ error' = error /\ completed' = completed /\ tags' = tags
      /\ last' = last /\ ctag' = ctag /\ earned' = earned /\ draining' = draining /\ pc' = pc
      /\ queued' = queued /\ claimed' = claimed /\ overtook' = overtook /\ dropped' = dropped
      /\ dpc' = dpc /\ issueLock' = issueLock /\ a2i # <<>> /\ a2i' = Tail(a2i)
  BY DEF FwAccept, FwRefuse, FwSend, flags, tagVars, hist
<1>3. MailOK' /\ MailTypeOK'
  <2>1. CASE FwAccept
    <3>1. /\ i2a' = Append(i2a, FwMsg("ack", Head(a2i).tag))
          /\ fwq' = IF Head(a2i).type = "issue" THEN Append(fwq, Head(a2i).period) ELSE fwq
      BY <2>1 DEF FwAccept, FwSend
    <3>2. QED
      BY <1>1, <1>2, <3>1, AnswerRests
  <2>2. CASE FwRefuse
    <3>1. i2a' = Append(i2a, FwMsg("nack", Head(a2i).tag)) /\ fwq' = fwq
      BY <2>2 DEF FwRefuse, FwSend
    <3>2. QED
      BY <1>1, <1>2, <3>1, AnswerRests
  <2>3. QED
    BY <2>1, <2>2
<1>4. QED
  BY <1>1, <1>2, <1>3, TasksRest DEF SioInv

(* The oldest period the firmware has is reported. *)
LEMMA FwReportStep ==
  ASSUME SioAssumption, SioInv, FwReport
  PROVE  SioInv'
<1>0. PICK n \in Nat : n = Len(i2a) + 1
  BY MailAt DEF SioInv
<1> DEFINE q == fwq[1]
           m == [type |-> "report", tag |-> 0, period |-> q]
<1>1. SioTypes /\ MailOK /\ TasksOK
  BY DEF SioInv
<1>2. /\ tx' = tx /\ running' = running /\ error' = error /\ completed' = completed /\ tags' = tags
      /\ last' = last /\ ctag' = ctag /\ earned' = earned /\ draining' = draining /\ pc' = pc
      /\ queued' = queued /\ claimed' = claimed /\ overtook' = overtook /\ dropped' = dropped
      /\ dpc' = dpc /\ issueLock' = issueLock /\ a2i' = a2i /\ fwq # <<>> /\ fwq' = Tail(fwq)
      /\ i2a' = Append(i2a, [type |-> "report", tag |-> 0, period |-> Head(fwq)])
  BY DEF FwReport, FwSend, flags, tagVars, hist
<1>3. /\ fwq' \in Seq(Periods) /\ Len(fwq) \in Nat \ {0} /\ DOMAIN fwq = 1 .. Len(fwq)
      /\ DOMAIN fwq' = 1 .. (Len(fwq) - 1) /\ Head(fwq) = q /\ q \in Periods
      /\ \A j \in DOMAIN fwq' : j + 1 \in DOMAIN fwq /\ fwq'[j] = fwq[j + 1]
  <2>1. fwq \in Seq(Periods)
    BY <1>1, MailAt
  <2>2. QED
    BY <1>2, <2>1, TailAt
<1>4. 1 \in DOMAIN fwq /\ \A j \in DOMAIN fwq : j = 1 \/ (j - 1 \in DOMAIN fwq' /\ fwq'[j - 1] = fwq[j])
  <2>1. 1 \in DOMAIN fwq
    BY <1>3
  <2>2. ASSUME NEW j \in DOMAIN fwq, j # 1 PROVE j - 1 \in DOMAIN fwq' /\ fwq'[j - 1] = fwq[j]
    <3>1. j - 1 \in DOMAIN fwq' /\ (j - 1) + 1 = j
      BY <1>3, <2>2
    <3>2. QED
      BY <1>3, <3>1
  <2>3. QED
    BY <2>1, <2>2
<1>5. /\ i2a' \in Seq(Answers) /\ DOMAIN i2a = 1 .. Len(i2a) /\ DOMAIN i2a' = 1 .. n
      /\ \A i \in DOMAIN i2a : i \in DOMAIN i2a' /\ i2a'[i] = i2a[i]
      /\ i2a'[n] = m /\ m.type = "report" /\ m.period = q
  <2>1. m \in Answers /\ m.type = "report" /\ m.period = q
    BY <1>3 DEF Answers, SioAssumption
  <2>2. i2a \in Seq(Answers) /\ i2a' = Append(i2a, m)
    BY <1>1, <1>2, <1>3, MailAt
  <2>3. QED
    BY <1>0, <2>1, <2>2, AppendAt
<1>6. /\ n \in DOMAIN i2a' /\ n \notin DOMAIN i2a /\ \A i \in DOMAIN i2a' : i \in DOMAIN i2a \/ i = n
      /\ \A i \in DOMAIN i2a : i < n
  <2>1. Len(i2a) \in Nat
    BY <1>1, MailAt
  <2>2. QED
    BY <1>0, <1>5, <2>1
<1> HIDE DEF m, q
<1>7. /\ \A i \in DOMAIN i2a : (IsReply(i)' <=> IsReply(i)) /\ (IsReport(i)' <=> IsReport(i))
      /\ ~IsReply(n)' /\ IsReport(n)'
  BY <1>5, <1>6 DEF IsReply, IsReport
<1>8. \A i \in DOMAIN i2a' : i2a'[i].type # "report" => i \in DOMAIN i2a /\ IsReply(i) /\ i2a'[i] = i2a[i]
  BY <1>5, <1>6 DEF IsReply
<1>9. \A i \in DOMAIN i2a : IsReply(i) => i \in DOMAIN i2a' /\ i2a'[i].type # "report" /\ i2a'[i] = i2a[i]
  BY <1>5 DEF IsReply
<1>10. TagsApart'
  <2>1. \A i \in DOMAIN i2a' : i2a'[i].type # "report" => i2a'[i].tag \in Tags
    BY <1>1, <1>8 DEF MailOK, TagsApart
  <2>2. \A i, j \in DOMAIN i2a' :
          i2a'[i].type # "report" /\ i2a'[j].type # "report" /\ i2a'[i].tag = i2a'[j].tag => i = j
    BY <1>1, <1>8 DEF MailOK, TagsApart
  <2>3. \A i \in DOMAIN i2a', j \in DOMAIN a2i : i2a'[i].type # "report" => i2a'[i].tag # a2i[j].tag
    BY <1>1, <1>8 DEF MailOK, TagsApart
  <2>4. \A i, j \in DOMAIN a2i : a2i[i].tag = a2i[j].tag => i = j
    BY <1>1 DEF MailOK, TagsApart
  <2>5. QED
    BY <1>2, <2>1, <2>2, <2>3, <2>4 DEF TagsApart, IsReply, Tags
<1>11. OneIssue'
  <2>1. ASSUME NEW t \in Tags, ForIssue(t)
        PROVE  (\E i \in DOMAIN i2a' : i2a'[i].type # "report" /\ i2a'[i].tag = t) \/ (\E j \in DOMAIN a2i : a2i[j].tag = t)
    <3>1. (\E i \in DOMAIN i2a : IsReply(i) /\ i2a[i].tag = t) \/ (\E j \in DOMAIN a2i : a2i[j].tag = t)
      BY <1>1, <2>1 DEF MailOK, OneIssue
    <3>2. QED
      BY <1>9, <3>1
  <2>2. /\ \A j \in DOMAIN a2i : (a2i[j].type = "issue") <=> ForIssue(a2i[j].tag)
        /\ \A s, t \in Tags : ForIssue(s) /\ ForIssue(t) => s = t
        /\ \A t \in Tags : ForIssue(t) => tags[t].gen = tx.gen /\ tx.issuePending
    BY <1>1 DEF MailOK, OneIssue
  <2>3. QED
    BY <1>2, <2>1, <2>2 DEF OneIssue, ForIssue, IsReply, Tags
<1>12. \A i \in DOMAIN i2a' : AcceptedAt(i)' <=> (i \in DOMAIN i2a /\ AcceptedAt(i))
  BY <1>2, <1>5, <1>6, <1>7 DEF AcceptedAt, IsReply, ForIssue, Tags
<1>13. Taken' = Taken
  <2>1. Accepted' <=> Accepted
    BY <1>5, <1>12 DEF Accepted
  <2>2. QED
    BY <1>2, <2>1 DEF Taken
<1>14. \A p : Dist(p)' = Dist(p)
  BY <1>2 DEF Dist, Behind
<1>15. RingOK'
  BY <1>1, <1>2, <1>14 DEF MailOK, RingOK, Periods
<1>16. /\ Unseen \in Nat /\ Thrown \in Nat /\ Unseen' = Unseen + 1 /\ Thrown' = Thrown
       /\ Len(fwq) = Len(fwq') + 1 /\ Len(fwq') \in Nat /\ Len(i2a') = Len(i2a) + 1
  <2>1. i2a \in Seq(Answers) /\ i2a' = Append(i2a, m) /\ m \in Answers /\ Unseen \in Nat
    BY <1>1, <1>2, <1>3, MailAt DEF m, Answers, SioAssumption
  <2>2. CountReports(i2a') = CountReports(i2a) + 1
    BY <1>5, <2>1, CountAppend
  <2>3. Len(fwq) = Len(fwq') + 1 /\ Len(fwq') \in Nat /\ Len(i2a') = Len(i2a) + 1
    <3>1. fwq \in Seq(Periods) /\ Len(Tail(fwq)) = Len(fwq) - 1
      BY <1>1, <1>2, MailAt, HeadTailProperties
    <3>2. Len(i2a') = n
      BY <1>0, <1>5, LenProperties
    <3>3. QED
      BY <1>0, <1>2, <1>3, <3>1, <3>2
  <2>4. QED
    BY <1>2, <2>1, <2>2, <2>3 DEF Unseen, Thrown
<1>17. \A i \in DOMAIN i2a' : i2a'[i].type = "report" => (i = n /\ i2a'[i].period = q) \/ (i \in DOMAIN i2a /\ IsReport(i) /\ i2a'[i] = i2a[i])
  BY <1>5, <1>6 DEF IsReport
<1>18. Dist(q) = Unseen + Thrown /\ Taken = Unseen + Thrown + Len(fwq)
  BY <1>1, <1>3, <1>4, <1>16 DEF MailOK, WindowOK, q
<1>19. WindowOK'
  <2>1. ASSUME NEW j \in DOMAIN fwq' PROVE Dist(fwq'[j]) = (Unseen + 1) + Thrown + j - 1
    <3>1. j + 1 \in DOMAIN fwq /\ fwq'[j] = fwq[j + 1] /\ j \in Nat
      BY <1>3, <2>1
    <3>2. Dist(fwq[j + 1]) = Unseen + Thrown + (j + 1) - 1
      BY <1>1, <3>1 DEF MailOK, WindowOK
    <3>3. QED
      BY <1>16, <3>1, <3>2
  <2>2. Taken = (Unseen + 1) + Thrown + Len(fwq')
    BY <1>16, <1>18
  <2>3. QED
    BY <1>13, <1>14, <1>16, <2>1, <2>2 DEF WindowOK
<1>20. ASSUME ~overtook PROVE FirmwareOK'
  <2>1. FirmwareOK /\ Thrown = 0 /\ Dist(q) = Unseen
    BY <1>1, <1>16, <1>18, <1>20 DEF MailOK, OrderOK, Thrown
  <2>2. \A i \in DOMAIN i2a : i2a[i].period \in Periods
    BY <1>1, MailAt
  <2>3. \A i \in DOMAIN i2a' : i2a'[i].type = "report" => Dist(i2a'[i].period) < Unseen + 1
    <3>1. \A i \in DOMAIN i2a : IsReport(i) => Dist(i2a[i].period) < Unseen + 1
      BY <1>1, <1>16, <2>1, <2>2, RingHolds DEF FirmwareOK
    <3>2. QED
      BY <1>16, <1>17, <2>1, <3>1
  <2>4. ASSUME NEW i \in DOMAIN i2a', i2a'[i].type = "report", Dist(i2a'[i].period) = tx.inflight
        PROVE  \E j \in DOMAIN i2a : j \in DOMAIN i2a' /\ AcceptedAt(j)' /\ j < i
    <3>1. \A j \in DOMAIN i2a : AcceptedAt(j) => j \in DOMAIN i2a' /\ AcceptedAt(j)'
      BY <1>5, <1>12
    <3>2. CASE i = n
      <4>1. Dist(q) = tx.inflight
        BY <1>5, <2>4, <3>2
      <4>2. Accepted
        BY <1>16, <1>18, <2>1, <4>1 DEF Taken
      <4>3. QED
        BY <1>6, <3>1, <3>2, <4>2 DEF Accepted
    <3>3. CASE i # n
      <4>1. i \in DOMAIN i2a /\ IsReport(i) /\ i2a'[i] = i2a[i]
        BY <1>17, <2>4, <3>3
      <4>2. \E j \in DOMAIN i2a : AcceptedAt(j) /\ j < i
        BY <2>1, <2>4, <4>1 DEF FirmwareOK
      <4>3. QED
        BY <3>1, <4>2
    <3>4. QED
      BY <3>2, <3>3
  <2>5. \A i, j \in DOMAIN i2a' : i2a'[i].type = "report" /\ i2a'[j].type = "report" /\ i < j
          => Dist(i2a'[i].period) < Dist(i2a'[j].period)
    <3>1. ASSUME NEW i \in DOMAIN i2a', NEW j \in DOMAIN i2a', i2a'[i].type = "report", i2a'[j].type = "report", i < j
          PROVE  Dist(i2a'[i].period) < Dist(i2a'[j].period)
      <4>1. i \in DOMAIN i2a /\ IsReport(i) /\ i2a'[i] = i2a[i]
        BY <1>5, <1>6, <1>17, <3>1
      <4>2. Dist(i2a[i].period) < Dist(q)
        BY <2>1, <4>1 DEF FirmwareOK
      <4>3. CASE j = n
        BY <1>5, <4>1, <4>2, <4>3
      <4>4. CASE j # n
        BY <1>17, <2>1, <3>1, <4>1, <4>4 DEF FirmwareOK
      <4>5. QED
        BY <4>3, <4>4
    <3>2. QED
      BY <3>1
  <2>6. ASSUME NEW p \in Periods, Dist(p) < Unseen + 1
        PROVE  \E i \in DOMAIN i2a' : i2a'[i].type = "report" /\ i2a'[i].period = p
    <3>1. CASE Dist(p) = Unseen
      <4>1. p = q
        BY <1>1, <1>3, <2>1, <3>1, RingHolds
      <4>2. QED
        BY <1>5, <1>6, <4>1
    <3>2. CASE Dist(p) # Unseen
      <4>1. Dist(p) < Unseen
        BY <1>1, <1>16, <2>6, <3>2, RingHolds
      <4>2. \E i \in DOMAIN i2a : IsReport(i) /\ i2a[i].period = p
        BY <2>1, <4>1 DEF FirmwareOK
      <4>3. QED
        BY <1>5, <4>2 DEF IsReport
    <3>3. QED
      BY <3>1, <3>2
  <2>7. QED
    BY <1>2, <1>14, <1>16, <2>3, <2>4, <2>5, <2>6 DEF FirmwareOK, IsReport, Periods
<1>21. OrderOK'
  BY <1>1, <1>2, <1>20 DEF MailOK, OrderOK
<1>22. MailTypeOK'
  BY <1>0, <1>1, <1>2, <1>3, <1>5, <1>16, MailAt DEF SioTypes, MailTypeOK, Requests, Answers, Periods, Tags
<1>23. QED
  BY <1>1, <1>2, <1>10, <1>11, <1>15, <1>19, <1>21, <1>22, TasksRest DEF SioInv, MailOK

------------------------------------------------------------------------------
(* The messages read *)

(* One message leaves the mailbox, the oldest unless a read overtook.         *)
Reads(k) ==
  /\ k \in DOMAIN i2a /\ i2a' = Without(k) /\ a2i' = a2i /\ fwq' = fwq
  /\ overtook' \in BOOLEAN /\ (overtook => overtook') /\ (~overtook' => k = 1)
  /\ queued' \in Nat /\ claimed' \in Nat /\ queued' + claimed' <= Len(i2a')

LEMMA MessageRead ==
  ASSUME SioInv, NEW t \in SioTasks, DrainMessage(t)
  PROVE  /\ dpc[t] \in {"recv", "fifo"}
         /\ \E k \in DOMAIN i2a : Reads(k) /\ Process(t, k)
<1>1. /\ i2a \in Seq(Answers) /\ Len(i2a) \in Nat /\ DOMAIN i2a = 1 .. Len(i2a)
      /\ queued \in Nat /\ claimed \in Nat /\ queued + claimed <= Len(i2a) /\ overtook \in BOOLEAN
  BY MailAt DEF SioInv, SioTypes, MailTypeOK, CountTypeOK
<1>2. ASSUME NEW k \in DOMAIN i2a, Process(t, k)
      PROVE  i2a' = Without(k) /\ Len(i2a') = Len(i2a) - 1 /\ claimed' = claimed /\ a2i' = a2i /\ fwq' = fwq
  <2>1. i2a' = Without(k) /\ claimed' = claimed /\ a2i' = a2i /\ fwq' = fwq
    BY <1>2 DEF Process
  <2>2. Without(k) = Cut(i2a, k)
    BY DEF Without, Cut
  <2>0. i2a \in Seq(Answers)
    BY <1>1
  <2>3. \A u : u = Cut(i2a, k) => Len(u) = Len(i2a) - 1
    BY <2>0, WithoutAt
  <2>4. QED
    BY <2>1, <2>2, <2>3
<1>3. CASE DrainQueued(t)
  <2>1. 1 \in DOMAIN i2a /\ Process(t, 1) /\ queued' = queued - 1 /\ queued > 0 /\ overtook' = overtook /\ dpc[t] = "recv"
    BY <1>1, <1>3 DEF DrainQueued
  <2>2. /\ i2a' = Without(1) /\ Len(i2a') = Len(i2a) - 1 /\ claimed' = claimed /\ a2i' = a2i /\ fwq' = fwq
        /\ queued' \in Nat /\ claimed' \in Nat /\ queued' + claimed' <= Len(i2a')
    <3>1. i2a' = Without(1) /\ Len(i2a') = Len(i2a) - 1 /\ claimed' = claimed /\ a2i' = a2i /\ fwq' = fwq
      BY SMTT(20), <1>2, <2>1
    <3>2. PICK l \in Nat : l = Len(i2a)
      BY <1>1
    <3>3. queued' \in Nat /\ claimed' \in Nat /\ queued' + claimed' <= l - 1
      BY <1>1, <2>1, <3>1, <3>2
    <3>4. QED
      BY <3>1, <3>2, <3>3
  <2>4. Reads(1)
    BY <1>1, <2>1, <2>2 DEF Reads
  <2>3. QED
    BY <2>1, <2>4
<1>4. CASE DrainFifo(t)
  <2>1. /\ FifoHead \in DOMAIN i2a /\ Process(t, FifoHead) /\ queued' = queued /\ dpc[t] = "fifo"
        /\ overtook' = (overtook \/ FifoHead > 1) /\ FifoHead = queued + claimed + 1 /\ FifoHead <= Len(i2a)
    BY <1>1, <1>4 DEF DrainFifo, InFifo, FifoHead
  <2>2. PICK f \in Nat : f = FifoHead /\ f = queued + claimed + 1 /\ f \in DOMAIN i2a
    BY <1>1, <2>1
  <2>5. overtook' \in BOOLEAN /\ (overtook => overtook') /\ (~overtook' => ~(f > 1))
    BY <1>1, <2>1, <2>2
  <2>6. /\ i2a' = Without(f) /\ Len(i2a') = Len(i2a) - 1 /\ claimed' = claimed /\ a2i' = a2i /\ fwq' = fwq
        /\ queued' \in Nat /\ claimed' \in Nat /\ queued' + claimed' <= Len(i2a')
    <3>1. i2a' = Without(f) /\ Len(i2a') = Len(i2a) - 1 /\ claimed' = claimed /\ a2i' = a2i /\ fwq' = fwq
      BY <1>2, <2>1, <2>2
    <3>2. PICK l \in Nat : l = Len(i2a)
      BY <1>1
    <3>3. queued' \in Nat /\ claimed' \in Nat /\ queued' + claimed' <= l - 1
      BY <1>1, <2>1, <2>2, <3>1, <3>2
    <3>4. QED
      BY <3>1, <3>2, <3>3
  <2>7. ~overtook' => f = 1
    BY <1>1, <2>2, <2>5
  <2>3. Reads(FifoHead)
    BY <2>2, <2>5, <2>6, <2>7 DEF Reads
  <2>4. QED
    BY <2>1, <2>3
<1>5. QED
  BY <1>3, <1>4 DEF DrainMessage

(* The places of the others, and how many reports are left. *)
LEMMA TakenOut ==
  ASSUME SioTypes, NEW k, Reads(k)
  PROVE  /\ k \in Nat /\ i2a' \in Seq(Answers) /\ Unseen' \in Nat
         /\ Unseen = Unseen' + (IF i2a[k].type = "report" THEN 1 ELSE 0)
         /\ \A i \in DOMAIN i2a' : Up(k, i) \in DOMAIN i2a \ {k} /\ i2a'[i] = i2a[Up(k, i)]
         /\ \A i \in DOMAIN i2a \ {k} : Down(k, i) \in DOMAIN i2a' /\ i2a'[Down(k, i)] = i2a[i]
         /\ \A i, j \in DOMAIN i2a' : (i < j => Up(k, i) < Up(k, j)) /\ (Up(k, i) = Up(k, j) => i = j)
         /\ \A i, j \in DOMAIN i2a \ {k} : i < j => Down(k, i) < Down(k, j)
         /\ \A i \in DOMAIN i2a', j \in DOMAIN i2a \ {k} : j < Up(k, i) => Down(k, j) < i
<1>1. /\ i2a \in Seq(Answers) /\ k \in DOMAIN i2a /\ Len(i2a) \in Nat /\ DOMAIN i2a = 1 .. Len(i2a)
      /\ i2a' = Cut(i2a, k)
  BY MailAt DEF Reads, Without, Cut
<1>2. PICK u : u = i2a' /\ u = Cut(i2a, k)
  BY <1>1
<1>3. /\ u \in Seq(Answers)
      /\ \A i \in DOMAIN u : Up(k, i) \in DOMAIN i2a \ {k} /\ u[i] = i2a[Up(k, i)] /\ Down(k, Up(k, i)) = i
      /\ \A i \in DOMAIN i2a \ {k} : Down(k, i) \in DOMAIN u /\ u[Down(k, i)] = i2a[i]
      /\ \A i, j \in DOMAIN u : i < j => Up(k, i) < Up(k, j)
      /\ \A i, j \in DOMAIN i2a \ {k} : i < j => Down(k, i) < Down(k, j)
      /\ \A i \in DOMAIN u, j \in DOMAIN i2a \ {k} : j < Up(k, i) => Down(k, j) < i
  <2>0. i2a \in Seq(Answers) /\ k \in DOMAIN i2a
    BY <1>1
  <2>1. /\ u \in Seq(Answers)
        /\ \A i \in DOMAIN u : Up(k, i) \in DOMAIN i2a \ {k} /\ u[i] = i2a[Up(k, i)] /\ Down(k, Up(k, i)) = i
        /\ \A i \in DOMAIN i2a \ {k} : Down(k, i) \in DOMAIN u /\ u[Down(k, i)] = i2a[i]
    BY <2>0, <1>2, WithoutAt
  <2>2. /\ \A i, j \in DOMAIN u : i < j => Up(k, i) < Up(k, j)
        /\ \A i, j \in DOMAIN i2a \ {k} : i < j => Down(k, i) < Down(k, j)
        /\ \A i \in DOMAIN u, j \in DOMAIN i2a \ {k} : j < Up(k, i) => Down(k, j) < i
    BY <1>1, <1>2, WithoutAt
  <2>3. QED
    BY <2>1, <2>2
<1>4. CountReports(i2a) = CountReports(u) + (IF i2a[k].type = "report" THEN 1 ELSE 0)
  BY <1>1, <1>2, CountWithout
<1>5. CountReports(u) \in Nat
  BY <1>3, CountAt
<1>6. \A i, j \in DOMAIN u : Up(k, i) = Up(k, j) => i = j
  BY <1>3
<1>7. Unseen = CountReports(i2a) /\ Unseen' = CountReports(u)
  BY <1>2 DEF Unseen
<1>8. Unseen' \in Nat /\ Unseen = Unseen' + (IF i2a[k].type = "report" THEN 1 ELSE 0)
  BY <1>4, <1>5, <1>7
<1>9. /\ i2a' \in Seq(Answers)
      /\ \A i \in DOMAIN i2a' : Up(k, i) \in DOMAIN i2a \ {k} /\ i2a'[i] = i2a[Up(k, i)]
      /\ \A i \in DOMAIN i2a \ {k} : Down(k, i) \in DOMAIN i2a' /\ i2a'[Down(k, i)] = i2a[i]
      /\ \A i, j \in DOMAIN i2a' : (i < j => Up(k, i) < Up(k, j)) /\ (Up(k, i) = Up(k, j) => i = j)
      /\ \A i, j \in DOMAIN i2a \ {k} : i < j => Down(k, i) < Down(k, j)
      /\ \A i \in DOMAIN i2a', j \in DOMAIN i2a \ {k} : j < Up(k, i) => Down(k, j) < i
  BY <1>2, <1>3, <1>6
<1>10. k \in Nat
  BY <1>1
<1>11. QED
  BY <1>8, <1>9, <1>10

(* Without the message, the rest is in the order it was in. *)
LEMMA TakenOutRests ==
  ASSUME SioTypes, MailOK, NEW k, Reads(k)
  PROVE  /\ TagsApart'
         /\ i2a[k].type # "report" =>
              /\ i2a[k].tag \in Tags /\ \A j \in DOMAIN a2i : a2i[j].tag # i2a[k].tag
              /\ \A i \in DOMAIN i2a' : i2a'[i].type # "report" => i2a'[i].tag # i2a[k].tag
         /\ ~overtook' =>
              /\ \A i \in DOMAIN i2a' : i2a'[i].type = "report" => Dist(i2a'[i].period) < Unseen
              /\ \A i, j \in DOMAIN i2a' : i2a'[i].type = "report" /\ i2a'[j].type = "report" /\ i < j
                   => Dist(i2a'[i].period) < Dist(i2a'[j].period)
<1>1. /\ k \in DOMAIN i2a /\ a2i' = a2i
      /\ \A i \in DOMAIN i2a' : Up(k, i) \in DOMAIN i2a \ {k} /\ i2a'[i] = i2a[Up(k, i)]
      /\ \A i, j \in DOMAIN i2a' : (i < j => Up(k, i) < Up(k, j)) /\ (Up(k, i) = Up(k, j) => i = j)
  BY TakenOut DEF Reads
<1>2. i2a[k].type # "report" =>
        /\ i2a[k].tag \in Tags /\ \A j \in DOMAIN a2i : a2i[j].tag # i2a[k].tag
        /\ \A i \in DOMAIN i2a' : i2a'[i].type # "report" => i2a'[i].tag # i2a[k].tag
  BY <1>1 DEF MailOK, TagsApart, IsReply
<1>3. TagsApart'
  <2>1. \A i \in DOMAIN i2a' : i2a'[i].type # "report" => i2a'[i].tag \in Tags
    BY <1>1 DEF MailOK, TagsApart, IsReply
  <2>2. \A i, j \in DOMAIN i2a' :
          i2a'[i].type # "report" /\ i2a'[j].type # "report" /\ i2a'[i].tag = i2a'[j].tag => i = j
    BY <1>1 DEF MailOK, TagsApart, IsReply
  <2>3. \A i \in DOMAIN i2a', j \in DOMAIN a2i : i2a'[i].type # "report" => i2a'[i].tag # a2i[j].tag
    BY <1>1 DEF MailOK, TagsApart, IsReply
  <2>4. \A i, j \in DOMAIN a2i : a2i[i].tag = a2i[j].tag => i = j
    BY DEF MailOK, TagsApart
  <2>5. QED
    BY <1>1, <2>1, <2>2, <2>3, <2>4 DEF TagsApart, IsReply, Tags
<1>4. ~overtook' => FirmwareOK
  BY DEF Reads, MailOK, OrderOK
<1>5. ~overtook' => \A i \in DOMAIN i2a' : i2a'[i].type = "report" => Dist(i2a'[i].period) < Unseen
  BY <1>1, <1>4 DEF FirmwareOK, IsReport
<1>6. ~overtook' =>
        \A i, j \in DOMAIN i2a' : i2a'[i].type = "report" /\ i2a'[j].type = "report" /\ i < j
          => Dist(i2a'[i].period) < Dist(i2a'[j].period)
  BY <1>1, <1>4 DEF FirmwareOK, IsReport
<1>7. QED
  BY <1>2, <1>3, <1>5, <1>6

(* What a reader still finds of the periods and of the one ISSUE.             *)
LEMMA StillThere ==
  ASSUME SioTypes, MailOK, NEW k, Reads(k)
  PROVE  /\ \A t \in Tags : ForIssue(t) /\ (t # i2a[k].tag \/ i2a[k].type = "report") =>
              (\E i \in DOMAIN i2a' : i2a'[i].type # "report" /\ i2a'[i].tag = t) \/ (\E j \in DOMAIN a2i : a2i[j].tag = t)
         /\ ~overtook' => \A p \in Periods : Dist(p) < Unseen /\ ~(i2a[k].type = "report" /\ i2a[k].period = p) =>
              \E i \in DOMAIN i2a' : i2a'[i].type = "report" /\ i2a'[i].period = p
<1>1. \A i \in DOMAIN i2a : i # k => Down(k, i) \in DOMAIN i2a' /\ i2a'[Down(k, i)] = i2a[i]
  BY TakenOut
<1>2. ASSUME NEW t \in Tags, ForIssue(t), t # i2a[k].tag \/ i2a[k].type = "report"
      PROVE  (\E i \in DOMAIN i2a' : i2a'[i].type # "report" /\ i2a'[i].tag = t) \/ (\E j \in DOMAIN a2i : a2i[j].tag = t)
  <2>1. (\E i \in DOMAIN i2a : IsReply(i) /\ i2a[i].tag = t) \/ (\E j \in DOMAIN a2i : a2i[j].tag = t)
    BY <1>2 DEF MailOK, OneIssue
  <2>2. ASSUME NEW i \in DOMAIN i2a, IsReply(i), i2a[i].tag = t
        PROVE  \E m \in DOMAIN i2a' : i2a'[m].type # "report" /\ i2a'[m].tag = t
    <3>1. i # k
      BY <1>2, <2>2 DEF IsReply
    <3>2. QED
      BY <1>1, <2>2, <3>1 DEF IsReply
  <2>3. QED
    BY <2>1, <2>2
<1>3. ASSUME ~overtook', NEW p \in Periods, Dist(p) < Unseen, ~(i2a[k].type = "report" /\ i2a[k].period = p)
      PROVE  \E i \in DOMAIN i2a' : i2a'[i].type = "report" /\ i2a'[i].period = p
  <2>1. PICK i \in DOMAIN i2a : IsReport(i) /\ i2a[i].period = p
    BY <1>3 DEF Reads, MailOK, OrderOK, FirmwareOK
  <2>2. i # k
    BY <1>3, <2>1 DEF IsReport
  <2>3. QED
    BY <1>1, <2>1, <2>2 DEF IsReport
<1>4. QED
  BY <1>2, <1>3

(* The reply to a call, or to a request given up: no ISSUE is concerned.      *)
LEMMA OtherReplyRests ==
  ASSUME SioTypes, MailOK, NEW k, Reads(k), tx' = tx, dropped' = dropped,
         i2a[k].type # "report", tags[i2a[k].tag].kind # "issue",
         \A t \in Tags : (tags'[t].kind = "issue") <=> (tags[t].kind = "issue"),
         \A t \in Tags : tags[t].kind = "issue" => tags'[t] = tags[t]
  PROVE  MailOK'
<1>1. /\ TagsApart' /\ a2i' = a2i /\ fwq' = fwq
      /\ i2a[k].tag \in Tags
      /\ ~overtook' =>
           /\ FirmwareOK
           /\ \A i \in DOMAIN i2a' : i2a'[i].type = "report" => Dist(i2a'[i].period) < Unseen
           /\ \A i, j \in DOMAIN i2a' : i2a'[i].type = "report" /\ i2a'[j].type = "report" /\ i < j
                => Dist(i2a'[i].period) < Dist(i2a'[j].period)
  BY TakenOutRests DEF Reads, MailOK, OrderOK
<1>2. \A t \in Tags : ForIssue(t)' <=> ForIssue(t)
  BY DEF ForIssue, Tags
<1>3. ~ForIssue(i2a[k].tag)
  BY DEF ForIssue
<1>4. \A p : Dist(p)' = Dist(p)
  BY DEF Dist, Behind
<1>5. OneIssue'
  <2>1. \A j \in DOMAIN a2i : a2i[j].tag \in Tags /\ ((a2i[j].type = "issue") <=> (a2i[j].tag \in Tags /\ tags'[a2i[j].tag].kind = "issue"))
    BY MailAt DEF MailOK, OneIssue, ForIssue
  <2>2. \A s, t \in Tags : ForIssue(s)' /\ ForIssue(t)' => s = t
    BY <1>2 DEF MailOK, OneIssue
  <2>3. \A t \in Tags : ForIssue(t)' => tags'[t].gen = tx'.gen /\ tx'.issuePending
    BY <1>2 DEF MailOK, OneIssue, ForIssue
  <2>4. \A t \in Tags : ForIssue(t) =>
          (\E i \in DOMAIN i2a' : i2a'[i].type # "report" /\ i2a'[i].tag = t) \/ (\E j \in DOMAIN a2i : a2i[j].tag = t)
    BY <1>3, StillThere
  <2>5. QED
    BY <1>1, <1>2, <2>1, <2>2, <2>3, <2>4 DEF OneIssue, ForIssue, IsReply, Tags
<1>6. \A i \in DOMAIN i2a : AcceptedAt(i) => i # k /\ Down(k, i) \in DOMAIN i2a' /\ AcceptedAt(Down(k, i))'
  <2>1. SUFFICES ASSUME NEW i \in DOMAIN i2a, AcceptedAt(i) PROVE i # k /\ Down(k, i) \in DOMAIN i2a' /\ AcceptedAt(Down(k, i))'
    OBVIOUS
  <2>2. i # k
    BY <1>3, <2>1 DEF AcceptedAt
  <2>3. Down(k, i) \in DOMAIN i2a' /\ i2a'[Down(k, i)] = i2a[i]
    BY <2>2, TakenOut
  <2>4. PICK d \in DOMAIN i2a' : d = Down(k, i) /\ i2a'[d] = i2a[i]
    BY <2>3
  <2>5. AcceptedAt(d)'
    BY <2>1, <2>4 DEF AcceptedAt, IsReply, ForIssue, Tags
  <2>6. QED
    BY <2>2, <2>4, <2>5
<1>7. \A i \in DOMAIN i2a' : AcceptedAt(i)' => AcceptedAt(Up(k, i)) /\ Up(k, i) \in DOMAIN i2a
  BY TakenOut DEF AcceptedAt, IsReply, ForIssue, Tags
<1>8. Taken' = Taken
  <2>1. Accepted' <=> Accepted
    BY <1>6, <1>7 DEF Accepted
  <2>2. QED
    BY <2>1 DEF Taken
<1>9. RingOK'
  BY <1>1, <1>4 DEF MailOK, RingOK, Periods
<1>10. Unseen' = Unseen /\ Thrown' = Thrown
  BY TakenOut DEF Thrown
<1>11. WindowOK'
  BY <1>1, <1>4, <1>8, <1>10 DEF MailOK, WindowOK
<1>12. ASSUME ~overtook' PROVE FirmwareOK'
  <2>1. ASSUME NEW i \in DOMAIN i2a', i2a'[i].type = "report", Dist(i2a'[i].period) = tx.inflight
        PROVE  \E j \in DOMAIN i2a' : AcceptedAt(j)' /\ j < i
    <3>1. Up(k, i) \in DOMAIN i2a /\ i2a'[i] = i2a[Up(k, i)]
      BY <2>1, TakenOut
    <3>2. PICK j \in DOMAIN i2a : AcceptedAt(j) /\ j < Up(k, i)
      BY <1>1, <1>12, <2>1, <3>1 DEF FirmwareOK, IsReport
    <3>3. Down(k, j) \in DOMAIN i2a' /\ AcceptedAt(Down(k, j))' /\ Down(k, j) < i
      BY <1>6, <3>2, TakenOut
    <3>4. QED
      BY <3>3
  <2>2. \A p \in Periods : Dist(p) < Unseen => \E i \in DOMAIN i2a' : i2a'[i].type = "report" /\ i2a'[i].period = p
    BY <1>12, StillThere
  <2>3. QED
    BY <1>1, <1>4, <1>10, <1>12, <2>1, <2>2 DEF FirmwareOK, IsReport, Periods
<1>13. OrderOK'
  BY <1>12 DEF Reads, MailOK, OrderOK
<1>14. QED
  BY <1>1, <1>5, <1>9, <1>11, <1>13 DEF MailOK

(* The reply to the one ISSUE: accepted, its period counts as in flight, in    *)
(* the place it had while the acknowledgement was unread.                      *)
LEMMA IssueReplyRests ==
  ASSUME SioAssumption, SioTypes, MailOK, NEW m, Reads(m), dropped' = dropped,
         i2a[m].type # "report", tags[i2a[m].tag].kind = "issue",
         tags' = [tags EXCEPT ![i2a[m].tag] = FreeTag],
         tx'.nextReport = tx.nextReport, tx'.committed = tx.committed, tx'.gen = tx.gen, ~tx'.issuePending,
         \/ /\ i2a[m].type = "ack" /\ tx'.nextIssue = Following(tx.nextIssue)
            /\ tx'.inflight = tx.inflight + 1 /\ tx'.issued = tx.issued \cup {tx.nextIssue}
         \/ /\ i2a[m].type # "ack" /\ tx'.nextIssue = tx.nextIssue
            /\ tx'.inflight = tx.inflight /\ tx'.issued = tx.issued
  PROVE  MailOK' /\ \A t \in Tags : ~ForIssue(t)'
<1> DEFINE k == i2a[m].tag
<1>1. /\ TagsApart' /\ a2i' = a2i /\ fwq' = fwq
      /\ k \in Tags
      /\ \A j \in DOMAIN a2i : a2i[j].tag # k
      /\ ~overtook' =>
           /\ \A i \in DOMAIN i2a' : i2a'[i].type = "report" => Dist(i2a'[i].period) < Unseen
           /\ \A i, j \in DOMAIN i2a' : i2a'[i].type = "report" /\ i2a'[j].type = "report" /\ i < j
                => Dist(i2a'[i].period) < Dist(i2a'[j].period)
  BY TakenOutRests DEF Reads
<1>2. ForIssue(k) /\ tx.issuePending /\ \A t \in Tags : ForIssue(t) => t = k
  BY <1>1 DEF ForIssue, MailOK, OneIssue
<1>3. \A t \in Tags : ~ForIssue(t)'
  <2>1. \A t \in Tags : tags'[t].kind = "issue" => ForIssue(t) /\ t # k
    BY <1>1, TransferAt DEF ForIssue, FreeTag
  <2>2. QED
    BY <1>2, <2>1 DEF ForIssue
<1>4. \A j \in DOMAIN a2i : a2i[j].type # "issue" /\ a2i[j].tag \in Tags
  <2>1. \A j \in DOMAIN a2i : a2i[j].type = "issue" => ForIssue(a2i[j].tag)
    BY DEF MailOK, OneIssue
  <2>2. \A j \in DOMAIN a2i : a2i[j].tag \in Tags
    BY MailAt
  <2>3. QED
    BY <1>1, <1>2, <2>1, <2>2
<1>5. OneIssue'
  BY <1>1, <1>3, <1>4 DEF OneIssue, Tags
<1>6. /\ Accepted <=> i2a[m].type = "ack"
      /\ \A i \in DOMAIN i2a : AcceptedAt(i) => i = m
  <2>1. m \in DOMAIN i2a
    BY DEF Reads
  <2>2. \A i \in DOMAIN i2a : AcceptedAt(i) => i = m
    BY <1>2, <2>1 DEF AcceptedAt, IsReply, MailOK, TagsApart
  <2>3. AcceptedAt(m) <=> i2a[m].type = "ack"
    BY <1>2, <2>1 DEF AcceptedAt, IsReply
  <2>4. QED
    BY <2>1, <2>2, <2>3 DEF Accepted
<1>7. tx'.inflight = Taken /\ Taken' = Taken /\ ~Accepted'
  <2>1. tx'.inflight = Taken
    BY <1>6, TransferAt DEF Taken
  <2>2. ~Accepted'
    BY <1>1, <1>3 DEF Accepted, AcceptedAt, ForIssue, Tags, TagsApart, IsReply
  <2>3. QED
    BY <2>1, <2>2, RingHolds DEF Taken
<1>8. \A p : Dist(p)' = Dist(p)
  BY DEF Dist, Behind
<1>9. RingOK'
  <2>1. /\ NPeriods \in Nat /\ tx.inflight \in Nat /\ tx.inflight < NPeriods /\ tx.nextIssue \in Periods
        /\ Dist(tx.nextIssue) = tx.inflight /\ \A p, q \in Periods : Dist(p) = Dist(q) => p = q
        /\ \A p \in Periods : Dist(p) \in 0 .. (NPeriods - 1)
    BY <1>2, RingHolds
  <2>2. Dist(Following(tx.nextIssue)) = IF tx.inflight = NPeriods - 1 THEN 0 ELSE tx.inflight + 1
    BY <2>1, BehindIs, TransferAt DEF Dist
  <2>3. /\ \A p \in Periods : p \in tx.issued <=> Dist(p) < tx.inflight
        /\ tx.issued \subseteq tx.committed /\ tx.nextIssue \in tx.committed
    BY <1>2 DEF MailOK, RingOK
  <2>4. tx'.inflight <= NPeriods /\ Dist(tx'.nextIssue) = IF tx'.inflight = NPeriods THEN 0 ELSE tx'.inflight
    BY <2>1, <2>2
  <2>5. ASSUME NEW p \in Periods PROVE p \in tx'.issued <=> Dist(p) < tx'.inflight
    <3>1. p = tx.nextIssue <=> Dist(p) = tx.inflight
      BY <2>1
    <3>2. Dist(p) \in Nat
      BY <2>1
    <3>3. QED
      BY <2>1, <2>3, <3>1, <3>2
  <2>6. tx'.issued \subseteq tx'.committed
    BY <2>3
  <2>7. QED
    BY <1>1, <1>4, <1>8, <2>4, <2>5, <2>6 DEF RingOK, Periods
<1>10. /\ Unseen \in Nat /\ Thrown \in Nat /\ Len(fwq) \in Nat /\ Unseen' = Unseen /\ Thrown' = Thrown
       /\ Taken = Unseen + Thrown + Len(fwq)
  BY TakenOut, MailAt DEF Thrown, MailOK, WindowOK
<1>11. WindowOK'
  BY <1>1, <1>7, <1>8, <1>10 DEF MailOK, WindowOK
<1>12. ASSUME ~overtook' PROVE FirmwareOK'
  <2>1. \A i \in DOMAIN i2a' : i2a'[i].period \in Periods
    BY SMTT(20), TakenOut, MailAt
  <2>2. \A i \in DOMAIN i2a' : i2a'[i].type = "report" => Dist(i2a'[i].period) # tx'.inflight
    BY <1>1, <1>7, <1>10, <1>12, <2>1, RingHolds
  <2>3. \A p \in Periods : Dist(p) < Unseen => \E i \in DOMAIN i2a' : i2a'[i].type = "report" /\ i2a'[i].period = p
    BY <1>12, StillThere
  <2>4. QED
    BY <1>1, <1>8, <1>10, <1>12, <2>2, <2>3 DEF FirmwareOK, IsReport, Periods
<1>13. OrderOK'
  BY <1>12 DEF Reads, MailOK, OrderOK
<1>14. QED
  BY <1>1, <1>3, <1>5, <1>9, <1>11, <1>13 DEF MailOK

(* The reader goes back to look for the next message. *)
LEMMA BackToTake ==
  ASSUME SioInv, NEW t \in SioTasks, dpc[t] \in {"recv", "fifo"},
         NEW d \in {"take", "count", "countKick"}, NEW u, u = [dpc EXCEPT ![t] = d]
  PROVE  /\ u \in [SioTasks -> Drainings] /\ ~Counting
         /\ d = "take" => \A s \in SioTasks : u[s] \notin CountingAt
         /\ \A s \in SioTasks : u[s] \in InsideAt <=> dpc[s] \in InsideAt
         /\ \A s \in SioTasks : dpc[s] = "out" => u[s] = "out"
<1>1. dpc \in [SioTasks -> Drainings] /\ SioTasks = {"client", "worker"}
  BY TransferAt DEF SioInv
<1>2. dpc[t] \in InsideAt /\ dpc[t] \notin CountingAt /\ d \in InsideAt /\ d \in Drainings
  BY DEF InsideAt, CountingAt, Drainings
<1>3. \A s \in SioTasks : dpc[s] \in InsideAt => s = t
  BY <1>1, <1>2 DEF SioInv, TasksOK, DrainOK
<1>4. CountingAt \subseteq InsideAt /\ "take" \notin CountingAt
  BY DEF CountingAt, InsideAt
<1>5. \A s \in SioTasks : dpc[s] \notin CountingAt
  BY <1>2, <1>3, <1>4
<1>6. \A s \in SioTasks : u[s] = IF s = t THEN d ELSE dpc[s]
  BY <1>1
<1>7. dpc[t] # "out"
  OBVIOUS
<1>8. QED
  BY <1>1, <1>2, <1>4, <1>5, <1>6, <1>7 DEF Counting

LEMMA MailTypes ==
  ASSUME SioTypes, NEW k, Reads(k)
  PROVE  MailTypeOK'
<1>1. /\ a2i' \in Seq(Requests) /\ i2a' \in Seq(Answers) /\ fwq' \in Seq(Periods)
      /\ queued' \in Nat /\ claimed' \in Nat /\ queued' + claimed' <= Len(i2a')
  BY TakenOut, MailAt DEF Reads
<1>2. QED
  BY <1>1 DEF MailTypeOK, Requests, Answers, Periods, Tags

LEMMA IssueReplyStep ==
  ASSUME SioAssumption, SioInv, NEW t \in SioTasks, NEW w, dpc[t] \in {"recv", "fifo"}, Reads(w), Process(t, w),
         i2a[w].type # "report", tags[i2a[w].tag].kind = "issue"
  PROVE  SioInv'
<1> DEFINE k == i2a[w].tag
           ok == i2a[w].type = "ack"
<1>1. SioTypes /\ MailOK /\ TasksOK
  BY DEF SioInv
<1>2. /\ completed' = completed /\ last' = last /\ draining' = draining
      /\ issueLock' = issueLock /\ ctag' = ctag /\ a2i' = a2i /\ fwq' = fwq /\ overtook' \in BOOLEAN
  BY DEF Process, Reads
<1>3. k \in Tags
  BY <1>1, TakenOutRests
<1>4. /\ dpc' = [dpc EXCEPT ![t] = "take"] /\ earned' = earned /\ dropped' = dropped
      /\ tags' = [tags EXCEPT ![k] = FreeTag] /\ IssueReply(tags[k].gen, ok)
  BY <1>3 DEF Process, Reply
<1>0. /\ dpc' \in [SioTasks -> Drainings] /\ ~Counting /\ ~Counting'
      /\ \A s \in SioTasks : dpc'[s] \in InsideAt <=> dpc[s] \in InsideAt
      /\ \A s \in SioTasks : dpc[s] = "out" => dpc'[s] = "out"
  BY <1>4, BackToTake DEF Counting
<1>5. tags[k].gen = tx.gen /\ ForIssue(k) /\ tx.issuePending
  BY <1>1, <1>3 DEF ForIssue, MailOK, OneIssue
<1>6. /\ PcKept
      /\ \/ /\ ok /\ running' = running /\ error' = error
            /\ tx' = [tx EXCEPT !.issuePending = FALSE, !.issued = @ \cup {tx.nextIssue},
                                !.nextIssue = Following(@), !.inflight = @ + 1]
         \/ /\ ~ok /\ running' = FALSE /\ error' = TRUE
            /\ tx' = [tx EXCEPT !.issuePending = FALSE, !.terminated = TRUE]
  <2>1. CASE ok
    <3>1. /\ KickIf(Wants(tx'), pc) /\ running' = running /\ error' = error
          /\ tx' = [tx EXCEPT !.issuePending = FALSE, !.issued = @ \cup {tx.nextIssue},
                              !.nextIssue = Following(@), !.inflight = @ + 1]
      BY <1>4, <1>5, <2>1 DEF IssueReply, flags
    <3>2. PcKept
      BY <1>1, <3>1, Kicked
    <3>3. QED
      BY <2>1, <3>1, <3>2
  <2>2. CASE ~ok
    <3>1. /\ pc' = pc /\ running' = FALSE /\ error' = TRUE
          /\ tx' = [tx EXCEPT !.issuePending = FALSE, !.terminated = TRUE]
      BY <1>4, <1>5, <2>2 DEF IssueReply
    <3>2. PcKept
      BY <1>1, <3>1, TransferAt DEF PcKept
    <3>3. QED
      BY <2>2, <3>1, <3>2
  <2>3. QED
    BY <2>1, <2>2
<1>7. /\ tx' \in Transfers /\ tx'.nextReport = tx.nextReport /\ tx'.committed = tx.committed
      /\ tx'.gen = tx.gen /\ ~tx'.issuePending /\ running' \in BOOLEAN /\ error' \in BOOLEAN
      /\ \/ /\ ok /\ tx'.nextIssue = Following(tx.nextIssue) /\ tx'.terminated = tx.terminated
            /\ tx'.inflight = tx.inflight + 1 /\ tx'.issued = tx.issued \cup {tx.nextIssue} /\ running' = running
         \/ /\ ~ok /\ tx'.nextIssue = tx.nextIssue /\ tx'.terminated /\ ~running'
            /\ tx'.inflight = tx.inflight /\ tx'.issued = tx.issued
  <2>1. tx \in Transfers /\ tx.nextIssue \in Periods /\ running \in BOOLEAN /\ error \in BOOLEAN
    BY <1>1, TransferAt
  <2>2. Following(tx.nextIssue) \in Periods
    BY <2>1, FollowingIs
  <2>3. ASSUME ok, tx' = [tx EXCEPT !.issuePending = FALSE, !.issued = @ \cup {tx.nextIssue},
                                    !.nextIssue = Following(@), !.inflight = @ + 1]
        PROVE  /\ tx' \in Transfers /\ tx'.nextReport = tx.nextReport /\ tx'.committed = tx.committed
               /\ tx'.gen = tx.gen /\ ~tx'.issuePending /\ tx'.nextIssue = Following(tx.nextIssue)
               /\ tx'.terminated = tx.terminated /\ tx'.inflight = tx.inflight + 1
               /\ tx'.issued = tx.issued \cup {tx.nextIssue}
    <3>0. tx.inflight + 1 \in Nat /\ tx.issued \cup {tx.nextIssue} \in SUBSET Periods
      BY <1>1, TransferAt
    <3>1. PICK n \in Periods, m \in Nat, s \in SUBSET Periods :
            n = Following(tx.nextIssue) /\ m = tx.inflight + 1 /\ s = tx.issued \cup {tx.nextIssue}
      BY <2>2, <3>0
    <3>2. tx' = [tx EXCEPT !.issuePending = FALSE, !.issued = s, !.nextIssue = n, !.inflight = m]
      BY <2>3, <3>1
    <3>3. /\ tx' \in Transfers /\ tx'.nextReport = tx.nextReport /\ tx'.committed = tx.committed
          /\ tx'.gen = tx.gen /\ ~tx'.issuePending /\ tx'.nextIssue = n
          /\ tx'.terminated = tx.terminated /\ tx'.inflight = m /\ tx'.issued = s
      BY <2>1, <3>2 DEF Transfers
    <3>4. QED
      BY <3>1, <3>3
  <2>4. ASSUME ~ok, tx' = [tx EXCEPT !.issuePending = FALSE, !.terminated = TRUE]
        PROVE  /\ tx' \in Transfers /\ tx'.nextReport = tx.nextReport /\ tx'.committed = tx.committed
               /\ tx'.gen = tx.gen /\ ~tx'.issuePending /\ tx'.nextIssue = tx.nextIssue
               /\ tx'.terminated /\ tx'.inflight = tx.inflight /\ tx'.issued = tx.issued
    BY <2>1, <2>4 DEF Transfers
  <2>5. CASE ok
    <3>1. running' = running /\ error' = error
      BY <1>6, <2>5
    <3>2. QED
      BY <1>6, <2>1, <2>3, <2>5, <3>1
  <2>6. CASE ~ok
    <3>1. running' = FALSE /\ error' = TRUE
      BY <1>6, <2>6
    <3>2. QED
      BY <1>6, <2>4, <2>6, <3>1
  <2>7. QED
    BY <2>5, <2>6
<1>8. MailOK' /\ \A s \in Tags : ~ForIssue(s)'
  BY <1>1, <1>2, <1>4, <1>5, <1>7, IssueReplyRests DEF ForIssue
<1>9. \A s \in Tags : (tags'[s].kind = "sync" <=> tags[s].kind = "sync") /\ (tags[s].kind = "sync" => tags'[s] = tags[s])
                      /\ (tags'[s].result # "none" => tags'[s] = tags[s]) /\ tags'[s] \in Entries
  BY <1>1, <1>3, <1>4, <1>5, TransferAt DEF FreeTag, ForIssue, Entries
<1>10. SioTypes'
  <2>1. tags' \in [Tags -> Entries]
    BY <1>1, <1>4, <1>9, TransferAt
  <2>2. MailTypeOK'
    BY <1>1, MailTypes
  <2>3. QED
    BY <1>0, <1>1, <1>2, <1>4, <1>6, <1>7, <2>1, <2>2 DEF PcKept, SioTypes, TxTypeOK, TagTypeOK, TaskTypeOK, CountTypeOK,
         Transfers, Entries, Periods, Tags
<1>11. \A s \in SioTasks : pc'[s] # "issueSend"
  <2>1. \A s \in SioTasks : pc[s] # "issueSend"
    BY <1>1, <1>3, <1>5 DEF TasksOK, OneSender
  <2>2. QED
    BY <1>6, <2>1 DEF PcKept, SioTasks
<1>12. OneSender'
  BY <1>7, <1>11 DEF OneSender
<1>13. OneCall'
  BY <1>1, <1>2, <1>6, <1>9 DEF PcKept, TasksOK, OneCall, Tags
<1>14. LockOK'
  BY <1>1, <1>2, <1>6 DEF PcKept, TasksOK, LockOK, WorkerAt
<1>15. DrainOK'
  BY <1>0, <1>1, <1>2, <1>6 DEF PcKept, TasksOK, DrainOK, SioTasks
<1>16. StopOK'
  <2>1. pc'["client"] = "termWait" => tags'[ctag] = tags[ctag]
    BY <1>1, <1>6, <1>9 DEF PcKept, TasksOK, OneCall
  <2>2. QED
    BY <1>0, <1>1, <1>2, <1>5, <1>6, <1>7, <2>1 DEF PcKept, TasksOK, StopOK
<1>17. CountOK'
  BY <1>0, <1>1, <1>2, <1>4 DEF TasksOK, CountOK
<1>18. QED
  BY <1>8, <1>10, <1>12, <1>13, <1>14, <1>15, <1>16, <1>17 DEF SioInv, TasksOK

(* The reply to a call, or to one that was given up. *)
LEMMA CallReplyStep ==
  ASSUME SioInv, NEW t \in SioTasks, NEW w, dpc[t] \in {"recv", "fifo"}, Reads(w), Process(t, w),
         i2a[w].type # "report", tags[i2a[w].tag].kind # "issue"
  PROVE  SioInv'
<1> DEFINE k == i2a[w].tag
<1>1. SioTypes /\ MailOK /\ TasksOK
  BY DEF SioInv
<1>2. /\ completed' = completed /\ last' = last /\ draining' = draining
      /\ issueLock' = issueLock /\ ctag' = ctag /\ a2i' = a2i /\ fwq' = fwq /\ overtook' \in BOOLEAN
  BY DEF Process, Reads
<1>3. k \in Tags /\ i2a[w].type \in {"ack", "nack"}
  BY <1>1, TakenOutRests, MailAt DEF Reads
<1>4. /\ dpc' = [dpc EXCEPT ![t] = "take"] /\ earned' = earned /\ dropped' = dropped
      /\ tx' = tx /\ running' = running /\ error' = error /\ pc' = pc
      /\ \/ tags[k].kind = "free" /\ tags' = tags
         \/ tags[k].kind = "sync" /\ tags' = [tags EXCEPT ![k].result = i2a[w].type]
  BY <1>3 DEF Process, Reply, flags
<1>0. /\ dpc' \in [SioTasks -> Drainings] /\ ~Counting /\ ~Counting'
      /\ \A s \in SioTasks : dpc'[s] \in InsideAt <=> dpc[s] \in InsideAt
      /\ \A s \in SioTasks : dpc[s] = "out" => dpc'[s] = "out"
  BY <1>4, BackToTake DEF Counting
<1>5. /\ \A s \in Tags : tags'[s].kind = tags[s].kind /\ tags'[s] \in Entries
      /\ \A s \in Tags : s # k => tags'[s] = tags[s]
      /\ tags' \in [Tags -> Entries]
  <2>1. tags \in [Tags -> Entries]
    BY <1>1, TransferAt
  <2>2. \A e \in Entries, r \in {"ack", "nack"} : [e EXCEPT !.result = r] \in Entries /\ [e EXCEPT !.result = r].kind = e.kind
    BY DEF Entries
  <2>3. CASE tags' = tags
    BY <2>1, <2>3
  <2>4. CASE tags' = [tags EXCEPT ![k].result = i2a[w].type]
    <3>1. PICK e \in Entries : e = [tags[k] EXCEPT !.result = i2a[w].type] /\ e.kind = tags[k].kind
      BY <1>3, <2>1, <2>2
    <3>2. tags' = [tags EXCEPT ![k] = e]
      BY <2>4, <3>1
    <3>3. QED
      BY <1>3, <2>1, <3>1, <3>2
  <2>5. QED
    BY <1>4, <2>3, <2>4
<1>6. MailOK' /\ \A s \in Tags : ForIssue(s)' <=> ForIssue(s)
  <2>1. \A s \in Tags : tags[s].kind = "issue" => tags'[s] = tags[s]
    BY <1>5
  <2>2. MailOK'
    BY <1>1, <1>2, <1>4, <1>5, <2>1, OtherReplyRests
  <2>3. QED
    BY <1>5, <2>2 DEF ForIssue, Tags
<1>7. SioTypes'
  <2>1. MailTypeOK'
    BY <1>1, MailTypes
  <2>2. QED
    BY <1>0, <1>1, <1>2, <1>4, <1>5, <2>1 DEF SioTypes, TxTypeOK, TagTypeOK, TaskTypeOK, CountTypeOK,
         Transfers, Entries, Periods, Tags
<1>8. OneSender'
  BY <1>1, <1>4, <1>6 DEF TasksOK, OneSender, Tags
<1>9. OneCall'
  <2>1. tags' = tags \/ tags[k].kind = "sync"
    BY <1>4
  <2>2. \A s \in Tags : tags'[s].result # "none" => tags'[s].kind = "sync"
    BY <1>1, <1>5, <2>1 DEF TasksOK, OneCall
  <2>3. QED
    BY <1>1, <1>2, <1>4, <1>5, <2>2 DEF TasksOK, OneCall, Tags
<1>10. LockOK' /\ DrainOK' /\ CountOK'
  BY <1>0, <1>1, <1>2, <1>4 DEF TasksOK, LockOK, DrainOK, CountOK, SioTasks
<1>11. StopOK'
  BY <1>0, <1>1, <1>2, <1>4 DEF TasksOK, StopOK
<1>12. QED
  BY <1>6, <1>7, <1>8, <1>9, <1>10, <1>11 DEF SioInv, TasksOK

(* A report: the ring turns by the one period the driver lets go, so every     *)
(* other distance falls by one.                                                *)
LEMMA ReportRests ==
  ASSUME SioAssumption, SioTypes, MailOK, NEW k, Reads(k), tags' = tags, dropped' = dropped,
         i2a[k].type = "report", tx.inflight > 0,
         tx'.nextReport = Following(tx.nextReport), tx'.inflight = tx.inflight - 1,
         tx'.committed = tx.committed \ {tx.nextReport}, tx'.issued = tx.issued \ {tx.nextReport},
         tx'.nextIssue = tx.nextIssue, tx'.issuePending = tx.issuePending, tx'.gen = tx.gen
  PROVE  MailOK'
<1>1. /\ NPeriods \in Nat /\ NPeriods > 0 /\ tx.nextReport \in Periods /\ tx.nextIssue \in Periods
      /\ tx.inflight \in Nat /\ Taken \in Nat /\ Taken <= NPeriods /\ tx.inflight <= Taken
      /\ tx.issuePending => tx.inflight < NPeriods /\ Dist(tx.nextIssue) = tx.inflight
      /\ \A p \in Periods : Dist(p) \in 0 .. (NPeriods - 1)
      /\ \A p, q \in Periods : Dist(p) = Dist(q) => p = q
      /\ Dist(tx.nextReport) = 0
  BY RingHolds
<1>2. /\ TagsApart' /\ a2i' = a2i /\ fwq' = fwq
      /\ ~overtook' =>
           /\ ~overtook /\ k = 1 /\ FirmwareOK
           /\ \A i \in DOMAIN i2a' : i2a'[i].type = "report" => Dist(i2a'[i].period) < Unseen
           /\ \A i, j \in DOMAIN i2a' : i2a'[i].type = "report" /\ i2a'[j].type = "report" /\ i < j
                => Dist(i2a'[i].period) < Dist(i2a'[j].period)
  BY TakenOutRests DEF Reads, MailOK, OrderOK
<1>3. ~overtook' => i2a[k].period = tx.nextReport
  BY <1>2, HeadReport DEF Reads
<1>4. /\ Unseen \in Nat /\ Unseen > 0 /\ Unseen' = Unseen - 1 /\ Thrown \in Nat /\ Thrown' = Thrown
      /\ Len(fwq) \in Nat /\ Taken = Unseen + Thrown + Len(fwq)
  BY TakenOut, MailAt DEF Thrown, MailOK, WindowOK
<1>5. \A t \in Tags : ForIssue(t)' <=> ForIssue(t)
  BY DEF ForIssue, Tags
<1>6. \A p \in Periods : Dist(p)' = IF Dist(p) = 0 THEN NPeriods - 1 ELSE Dist(p) - 1
  BY <1>1, BehindIs DEF Dist, Behind
<1>7. \A i \in DOMAIN i2a' : i2a'[i].period \in Periods
  BY TakenOut, MailAt
<1>8. OneIssue'
  <2>1. \A t \in Tags : ForIssue(t) =>
          (\E i \in DOMAIN i2a' : i2a'[i].type # "report" /\ i2a'[i].tag = t) \/ (\E j \in DOMAIN a2i : a2i[j].tag = t)
    BY StillThere
  <2>2. /\ \A j \in DOMAIN a2i : (a2i[j].type = "issue") <=> ForIssue(a2i[j].tag)
        /\ \A s, t \in Tags : ForIssue(s) /\ ForIssue(t) => s = t
        /\ \A t \in Tags : ForIssue(t) => tags[t].gen = tx.gen /\ tx.issuePending
    BY DEF MailOK, OneIssue
  <2>3. QED
    BY <1>2, <2>1, <2>2 DEF OneIssue, ForIssue, IsReply, Tags
<1>9. \A i \in DOMAIN i2a : AcceptedAt(i) => i # k /\ Down(k, i) \in DOMAIN i2a' /\ AcceptedAt(Down(k, i))'
  <2>1. SUFFICES ASSUME NEW i \in DOMAIN i2a, AcceptedAt(i) PROVE i # k /\ Down(k, i) \in DOMAIN i2a' /\ AcceptedAt(Down(k, i))'
    OBVIOUS
  <2>2. i # k
    BY <2>1 DEF AcceptedAt, IsReply
  <2>3. PICK d \in DOMAIN i2a' : d = Down(k, i) /\ i2a'[d] = i2a[i]
    BY <2>2, TakenOut
  <2>4. AcceptedAt(d)'
    BY <2>1, <2>3 DEF AcceptedAt, IsReply, ForIssue, Tags
  <2>5. QED
    BY <2>2, <2>3, <2>4
<1>10. \A i \in DOMAIN i2a' : AcceptedAt(i)' => AcceptedAt(Up(k, i)) /\ Up(k, i) \in DOMAIN i2a
  BY TakenOut DEF AcceptedAt, IsReply, ForIssue, Tags
<1>11. Taken' = Taken - 1
  <2>1. Accepted' <=> Accepted
    BY <1>9, <1>10 DEF Accepted
  <2>2. QED
    BY <1>1, <2>1 DEF Taken
<1>12. RingOK'
  <2>1. /\ tx.inflight <= NPeriods
        /\ Dist(tx.nextIssue) = IF tx.inflight = NPeriods THEN 0 ELSE tx.inflight
        /\ \A p \in Periods : p \in tx.issued <=> Dist(p) < tx.inflight
        /\ tx.issued \subseteq tx.committed
        /\ tx.issuePending => tx.nextIssue \in tx.committed \ tx.issued
        /\ \A j \in DOMAIN a2i : a2i[j].type = "issue" => a2i[j].period = tx.nextIssue
    BY DEF MailOK, RingOK
  <2>2. tx'.inflight <= NPeriods /\ Dist(tx.nextIssue)' = IF tx'.inflight = NPeriods THEN 0 ELSE tx'.inflight
    BY <1>1, <1>6, <2>1
  <2>3. ASSUME NEW p \in Periods PROVE p \in tx'.issued <=> Dist(p)' < tx'.inflight
    <3>1. p = tx.nextReport <=> Dist(p) = 0
      BY <1>1
    <3>2. Dist(p) \in 0 .. (NPeriods - 1) /\ Dist(p)' = (IF Dist(p) = 0 THEN NPeriods - 1 ELSE Dist(p) - 1)
      BY <1>1, <1>6
    <3>3. CASE Dist(p) = 0
      BY <1>1, <2>1, <3>1, <3>2, <3>3
    <3>4. CASE Dist(p) # 0
      <4>1. p \in tx'.issued <=> Dist(p) < tx.inflight
        BY <2>1, <3>1, <3>4
      <4>2. QED
        BY <1>1, <3>2, <3>4, <4>1
    <3>5. QED
      BY <3>3, <3>4
  <2>4. tx'.issued \subseteq tx'.committed
    BY <2>1
  <2>5. tx'.issuePending => tx'.nextIssue \in tx'.committed \ tx'.issued
    <3>1. tx.issuePending => tx.nextIssue # tx.nextReport
      BY <1>1
    <3>2. QED
      BY <2>1, <3>1
  <2>6. QED
    BY <1>2, <2>1, <2>2, <2>3, <2>4, <2>5 DEF RingOK, Periods, Dist
<1>13. WindowOK'
  <2>1. Taken - 1 = (Unseen - 1) + Thrown + Len(fwq)
    BY <1>1, <1>4
  <2>2. ASSUME NEW j \in DOMAIN fwq PROVE Behind(tx'.nextReport, fwq[j]) = (Unseen - 1) + Thrown + j - 1
    <3>1. fwq[j] \in Periods /\ j \in Nat \ {0}
      BY MailAt
    <3>2. Dist(fwq[j]) = Unseen + Thrown + j - 1
      BY DEF MailOK, WindowOK
    <3>3. Dist(fwq[j]) # 0
      BY <1>4, <3>1, <3>2
    <3>4. QED
      BY <1>4, <1>6, <3>1, <3>2, <3>3 DEF Dist
  <2>3. QED
    BY <1>2, <1>4, <1>11, <2>1, <2>2 DEF WindowOK, Dist
<1>14. ASSUME ~overtook' PROVE FirmwareOK'
  <2>1. IsReport(1) /\ Dist(i2a[1].period) = 0 /\ k = 1 /\ 1 \in DOMAIN i2a
    BY <1>1, <1>2, <1>3, <1>14 DEF IsReport, Reads
  <2>2. ASSUME NEW i \in DOMAIN i2a', i2a'[i].type = "report"
        PROVE  Behind(tx'.nextReport, i2a'[i].period) = Dist(i2a'[i].period) - 1
    <3>1. Up(k, i) \in DOMAIN i2a \ {1} /\ i2a'[i] = i2a[Up(k, i)]
      BY <2>1, <2>2, TakenOut
    <3>2. 1 < Up(k, i)
      BY <3>1, MailAt
    <3>3. Dist(i2a'[i].period) > 0
      BY <1>2, <1>14, <2>1, <2>2, <3>1, <3>2 DEF FirmwareOK, IsReport
    <3>4. QED
      BY <1>1, <1>6, <1>7, <3>3 DEF Dist
  <2>3. \A i \in DOMAIN i2a' : i2a'[i].type = "report" => Dist(i2a'[i].period) \in Nat
    BY <1>1, <1>7
  <2>4. \A i \in DOMAIN i2a' : i2a'[i].type = "report" => Behind(tx'.nextReport, i2a'[i].period) < Unseen - 1
    BY <1>2, <1>4, <1>14, <2>2, <2>3
  <2>5. ASSUME NEW i \in DOMAIN i2a', i2a'[i].type = "report", Behind(tx'.nextReport, i2a'[i].period) = tx.inflight - 1
        PROVE  \E j \in DOMAIN i2a' : AcceptedAt(j)' /\ j < i
    <3>1. Dist(i2a'[i].period) = tx.inflight
      BY <1>1, <2>2, <2>3, <2>5
    <3>2. Up(k, i) \in DOMAIN i2a /\ i2a'[i] = i2a[Up(k, i)]
      BY <2>5, TakenOut
    <3>3. PICK j \in DOMAIN i2a : AcceptedAt(j) /\ j < Up(k, i)
      BY <1>2, <1>14, <2>5, <3>1, <3>2 DEF FirmwareOK, IsReport
    <3>4. Down(k, j) \in DOMAIN i2a' /\ AcceptedAt(Down(k, j))' /\ Down(k, j) < i
      BY <1>9, <3>3, TakenOut
    <3>5. QED
      BY <3>4
  <2>6. \A i, j \in DOMAIN i2a' : i2a'[i].type = "report" /\ i2a'[j].type = "report" /\ i < j
          => Behind(tx'.nextReport, i2a'[i].period) < Behind(tx'.nextReport, i2a'[j].period)
    BY <1>2, <1>14, <2>2, <2>3
  <2>7. ASSUME NEW p \in Periods, Behind(tx'.nextReport, p) < Unseen - 1
        PROVE  \E i \in DOMAIN i2a' : i2a'[i].type = "report" /\ i2a'[i].period = p
    <3>1. Behind(tx'.nextReport, p) = (IF Dist(p) = 0 THEN NPeriods - 1 ELSE Dist(p) - 1) /\ Dist(p) \in 0 .. (NPeriods - 1)
      BY <1>1, <1>6 DEF Dist
    <3>2. Dist(p) # 0 /\ Dist(p) < Unseen
      BY <1>1, <1>4, <2>7, <3>1
    <3>3. p # tx.nextReport
      BY <1>1, <3>2
    <3>4. QED
      BY <1>3, <1>14, <3>2, <3>3, StillThere
  <2>8. QED
    BY <1>4, <2>4, <2>5, <2>6, <2>7 DEF FirmwareOK, IsReport, Periods, Dist
<1>15. OrderOK'
  BY <1>14 DEF Reads, MailOK, OrderOK
<1>16. QED
  BY <1>2, <1>8, <1>12, <1>13, <1>15 DEF MailOK

(* With nothing in flight the report is thrown away, and its period stays on   *)
(* the books: it came ahead of its own acknowledgement.                        *)
LEMMA ThrownRests ==
  ASSUME SioAssumption, SioTypes, MailOK, NEW k, Reads(k), tags' = tags, tx' = tx, dropped',
         i2a[k].type = "report", tx.inflight = 0
  PROVE  MailOK'
<1>1. /\ TagsApart' /\ a2i' = a2i /\ fwq' = fwq
      /\ Taken \in Nat /\ Taken <= 1
  BY TakenOutRests, RingHolds DEF Reads
<1>2. overtook'
  <2>1. SUFFICES ASSUME ~overtook' PROVE FALSE
    OBVIOUS
  <2>2. k = 1 /\ ~overtook /\ 1 \in DOMAIN i2a
    BY <2>1 DEF Reads
  <2>3. QED
    BY <2>2, HeadReport
<1>3. /\ Unseen \in Nat /\ Unseen > 0 /\ Unseen' = Unseen - 1 /\ Thrown \in {0, 1}
      /\ Len(fwq) \in Nat /\ Taken = Unseen + Thrown + Len(fwq)
  BY TakenOut, MailAt DEF Thrown, MailOK, WindowOK
<1>4. Thrown = 0 /\ Thrown' = 1
  BY <1>1, <1>3 DEF Thrown
<1>5. \A t \in Tags : ForIssue(t)' <=> ForIssue(t)
  BY DEF ForIssue, Tags
<1>6. \A p : Dist(p)' = Dist(p)
  BY DEF Dist, Behind
<1>7. OneIssue'
  <2>1. \A t \in Tags : ForIssue(t) =>
          (\E i \in DOMAIN i2a' : i2a'[i].type # "report" /\ i2a'[i].tag = t) \/ (\E j \in DOMAIN a2i : a2i[j].tag = t)
    BY StillThere
  <2>2. /\ \A j \in DOMAIN a2i : (a2i[j].type = "issue") <=> ForIssue(a2i[j].tag)
        /\ \A s, t \in Tags : ForIssue(s) /\ ForIssue(t) => s = t
        /\ \A t \in Tags : ForIssue(t) => tags[t].gen = tx.gen /\ tx.issuePending
    BY DEF MailOK, OneIssue
  <2>3. QED
    BY <1>1, <2>1, <2>2 DEF OneIssue, ForIssue, IsReply, Tags
<1>8. \A i \in DOMAIN i2a : AcceptedAt(i) => Down(k, i) \in DOMAIN i2a' /\ AcceptedAt(Down(k, i))'
  <2>1. SUFFICES ASSUME NEW i \in DOMAIN i2a, AcceptedAt(i) PROVE Down(k, i) \in DOMAIN i2a' /\ AcceptedAt(Down(k, i))'
    OBVIOUS
  <2>2. i # k
    BY <2>1 DEF AcceptedAt, IsReply
  <2>3. PICK d \in DOMAIN i2a' : d = Down(k, i) /\ i2a'[d] = i2a[i]
    BY <2>2, TakenOut
  <2>4. AcceptedAt(d)'
    BY <2>1, <2>3 DEF AcceptedAt, IsReply, ForIssue, Tags
  <2>5. QED
    BY <2>3, <2>4
<1>9. \A i \in DOMAIN i2a' : AcceptedAt(i)' => AcceptedAt(Up(k, i)) /\ Up(k, i) \in DOMAIN i2a
  BY TakenOut DEF AcceptedAt, IsReply, ForIssue, Tags
<1>10. Taken' = Taken
  <2>1. Accepted' <=> Accepted
    BY <1>8, <1>9 DEF Accepted
  <2>2. QED
    BY <2>1 DEF Taken
<1>11. RingOK'
  BY <1>1, <1>6 DEF MailOK, RingOK, Periods
<1>12. WindowOK'
  <2>1. Unseen' + Thrown' = Unseen + Thrown
    BY <1>3, <1>4
  <2>2. Taken' = Unseen' + Thrown' + Len(fwq)
    BY <1>3, <1>10, <2>1
  <2>3. \A j \in DOMAIN fwq : Dist(fwq[j]) = Unseen' + Thrown' + j - 1
    BY <2>1 DEF MailOK, WindowOK
  <2>4. QED
    BY <1>1, <1>6, <2>2, <2>3 DEF WindowOK
<1>13. QED
  BY <1>1, <1>2, <1>7, <1>11, <1>12 DEF MailOK, OrderOK

LEMMA ReportStep ==
  ASSUME SioAssumption, SioInv, NEW t \in SioTasks, NEW w, dpc[t] \in {"recv", "fifo"}, Reads(w), Process(t, w),
         i2a[w].type = "report"
  PROVE  SioInv'
<1>1. SioTypes /\ MailOK /\ TasksOK
  BY DEF SioInv
<1>2. /\ completed' = completed /\ last' = last /\ draining' = draining
      /\ issueLock' = issueLock /\ ctag' = ctag /\ a2i' = a2i /\ fwq' = fwq /\ overtook' \in BOOLEAN
      /\ Report(t) /\ pc' = pc /\ tags' = tags
  BY DEF Process, Reads
<1>3. MailTypeOK' /\ tx.inflight \in Nat /\ tx \in Transfers
  BY <1>1, MailTypes, TransferAt
<1>4. CASE tx.inflight = 0
  <2>1. tx' = tx /\ running' = running /\ error' = error /\ earned' = earned /\ dropped' /\ dropped' \in BOOLEAN
        /\ dpc' = [dpc EXCEPT ![t] = "take"]
    BY <1>2, <1>4 DEF Report, flags
  <2>2. /\ dpc' \in [SioTasks -> Drainings] /\ ~Counting /\ ~Counting'
        /\ \A s \in SioTasks : dpc'[s] \in InsideAt <=> dpc[s] \in InsideAt
        /\ \A s \in SioTasks : dpc[s] = "out" => dpc'[s] = "out"
    BY <2>1, BackToTake DEF Counting
  <2>3. MailOK' /\ \A s \in Tags : ForIssue(s)' <=> ForIssue(s)
    <3>1. MailOK'
      BY <1>1, <1>2, <1>4, <2>1, ThrownRests
    <3>2. QED
      BY <1>2, <3>1 DEF ForIssue, Tags
  <2>4. SioTypes'
    BY <1>1, <1>2, <1>3, <2>1, <2>2 DEF SioTypes, TxTypeOK, TagTypeOK, TaskTypeOK, CountTypeOK,
         Transfers, Entries, Periods, Tags
  <2>5. OneSender' /\ OneCall'
    BY <1>1, <1>2, <2>1, <2>3 DEF TasksOK, OneSender, OneCall, Tags
  <2>6. LockOK' /\ DrainOK'
    BY <1>1, <1>2, <2>2 DEF TasksOK, LockOK, DrainOK, SioTasks
  <2>7. StopOK' /\ CountOK'
    BY <1>1, <1>2, <2>1, <2>2 DEF TasksOK, StopOK, CountOK
  <2>8. QED
    BY <2>3, <2>4, <2>5, <2>6, <2>7 DEF SioInv, TasksOK
<1>5. CASE tx.inflight # 0
  <2>1. tx.inflight > 0 /\ tx.nextReport \in tx.committed \cap tx.issued
    <3>1. tx.inflight > 0 /\ tx.nextReport \in Periods /\ Dist(tx.nextReport) = 0
      BY <1>1, <1>3, <1>5, RingHolds
    <3>2. QED
      BY <1>1, <3>1 DEF MailOK, RingOK
  <2>2. /\ running' = running /\ error' = error /\ dropped' = dropped
        /\ tx' = [tx EXCEPT !.inflight = @ - 1, !.nextReport = Following(@),
                            !.committed = @ \ {tx.nextReport}, !.issued = @ \ {tx.nextReport}]
        /\ \/ tx.terminated /\ dpc' = [dpc EXCEPT ![t] = "take"] /\ earned' = earned
           \/ /\ ~tx.terminated /\ earned' = earned + 1
              /\ \E d \in CountingAt : dpc' = [dpc EXCEPT ![t] = d]
    BY <1>2, <1>5, <2>1 DEF Report, Reported, flags, CountingAt
  <2>3. PICK d \in {"take", "count", "countKick"} :
          /\ dpc' = [dpc EXCEPT ![t] = d]
          /\ tx.terminated => d = "take"
    BY <2>2 DEF CountingAt
  <2>4. /\ dpc' \in [SioTasks -> Drainings] /\ ~Counting
        /\ \A s \in SioTasks : dpc'[s] \in InsideAt <=> dpc[s] \in InsideAt
        /\ \A s \in SioTasks : dpc[s] = "out" => dpc'[s] = "out"
        /\ tx.terminated => ~Counting'
    BY <2>3, BackToTake DEF Counting
  <2>5. /\ tx' \in Transfers /\ tx'.nextReport = Following(tx.nextReport) /\ tx'.inflight = tx.inflight - 1
        /\ tx'.committed = tx.committed \ {tx.nextReport} /\ tx'.issued = tx.issued \ {tx.nextReport}
        /\ tx'.nextIssue = tx.nextIssue /\ tx'.issuePending = tx.issuePending /\ tx'.gen = tx.gen
        /\ tx'.terminated = tx.terminated
    <3>1. /\ Following(tx.nextReport) \in Periods /\ tx.inflight - 1 \in Nat
          /\ tx.committed \ {tx.nextReport} \in SUBSET Periods /\ tx.issued \ {tx.nextReport} \in SUBSET Periods
      BY <1>1, <1>3, <2>1, TransferAt, FollowingIs
    <3>2. PICK n \in Periods, m \in Nat, c \in SUBSET Periods, s \in SUBSET Periods :
            /\ n = Following(tx.nextReport) /\ m = tx.inflight - 1
            /\ c = tx.committed \ {tx.nextReport} /\ s = tx.issued \ {tx.nextReport}
      BY <3>1
    <3>3. tx' = [tx EXCEPT !.inflight = m, !.nextReport = n, !.committed = c, !.issued = s]
      BY <2>2, <3>2
    <3>4. /\ tx' \in Transfers /\ tx'.nextReport = n /\ tx'.inflight = m /\ tx'.committed = c /\ tx'.issued = s
          /\ tx'.nextIssue = tx.nextIssue /\ tx'.issuePending = tx.issuePending /\ tx'.gen = tx.gen
          /\ tx'.terminated = tx.terminated
      BY <1>3, <3>3 DEF Transfers
    <3>5. QED
      BY <3>2, <3>4
  <2>6. MailOK' /\ \A s \in Tags : ForIssue(s)' <=> ForIssue(s)
    <3>1. MailOK'
      BY <1>1, <1>2, <2>1, <2>2, <2>5, ReportRests
    <3>2. QED
      BY <1>2, <3>1 DEF ForIssue, Tags
  <2>7. SioTypes'
    <3>1. CountTypeOK'
      BY <1>1, <1>2, <2>2, TransferAt DEF SioTypes, CountTypeOK
    <3>2. QED
      BY <1>1, <1>2, <1>3, <2>2, <2>4, <2>5, <3>1 DEF SioTypes, TxTypeOK, TagTypeOK, TaskTypeOK,
           Transfers, Entries, Periods, Tags
  <2>8. OneSender'
    BY <1>1, <1>2, <2>5, <2>6 DEF TasksOK, OneSender, Tags
  <2>9. OneCall' /\ LockOK'
    BY <1>1, <1>2 DEF TasksOK, OneCall, LockOK, Tags
  <2>10. DrainOK'
    BY <1>1, <1>2, <2>4 DEF TasksOK, DrainOK, SioTasks
  <2>11. StopOK'
    <3>1. running \/ tx.terminated
      BY <1>1, <2>1 DEF TasksOK, StopOK
    <3>2. pc["client"] \notin {"reset", "resetCount", "stopped"}
      BY <1>1, <2>1 DEF TasksOK, StopOK
    <3>3. QED
      BY <1>1, <1>2, <2>2, <2>4, <2>5, <3>1, <3>2 DEF TasksOK, StopOK
  <2>12. CountOK'
    <3>1. completed <= earned /\ completed \in Nat /\ earned \in Nat
      BY <1>1, <2>4, TransferAt DEF TasksOK, CountOK
    <3>2. CASE tx.terminated
      BY <1>2, <2>2, <2>4, <3>1, <3>2 DEF CountOK
    <3>3. CASE ~tx.terminated
      <4>1. completed' = completed /\ earned' = earned + 1
        BY <1>2, <2>2, <3>3
      <4>2. QED
        BY <3>1, <4>1 DEF CountOK
    <3>4. QED
      BY <3>2, <3>3
  <2>13. QED
    BY <2>6, <2>7, <2>8, <2>9, <2>10, <2>11, <2>12 DEF SioInv, TasksOK
<1>6. QED
  BY <1>4, <1>5

------------------------------------------------------------------------------
(* Every step *)

LEMMA SioInitOK ==
  ASSUME SioAssumption, SioInit
  PROVE  SioInv
<1>1. /\ NPeriods \in Nat /\ NPeriods > 0 /\ Periods = 0 .. NPeriods - 1 /\ 0 \in Periods /\ Tags = 1 .. NTags
      /\ SioTasks = {"client", "worker"} /\ NTags \in Nat
  BY DEF SioAssumption, Periods, Tags, SioTasks
<1>2. /\ DOMAIN a2i = {} /\ DOMAIN i2a = {} /\ DOMAIN fwq = {}
  BY DEF SioInit
<1>3. /\ \A t \in Tags : tags[t] = FreeTag /\ ~ForIssue(t)
      /\ tx = Fresh(1) /\ tx.inflight = 0 /\ ~tx.issuePending /\ tx.nextIssue = 0 /\ tx.nextReport = 0
      /\ tx.issued = {} /\ tx.committed = {}
  BY DEF SioInit, ForIssue, FreeTag, Fresh
<1>4. SioTypes
  <2>1. tx \in Transfers
    BY <1>1, <1>3 DEF Transfers, Fresh
  <2>2. FreeTag \in Entries
    BY DEF FreeTag, Entries
  <2>3. TxTypeOK /\ TagTypeOK
    <3>1. running \in BOOLEAN /\ error \in BOOLEAN
      BY DEF SioInit
    <3>2. tags \in [Tags -> Entries]
      BY <2>2 DEF SioInit
    <3>3. 0 \in 0 .. NTags
      BY <1>1
    <3>4. QED
      BY <2>1, <3>1, <3>2, <3>3 DEF SioInit, TxTypeOK, TagTypeOK
  <2>4. TaskTypeOK
    <3>1. pc \in [SioTasks -> Places]
      <4>1. {"idle", "sleep"} \subseteq Places
        BY DEF Places, WorkerAt
      <4>2. pc = [client |-> "idle", worker |-> "sleep"]
        BY DEF SioInit
      <4>3. QED
        BY <1>1, <4>1, <4>2
    <3>2. dpc \in [SioTasks -> Drainings] /\ draining \in BOOLEAN
      BY DEF SioInit, Drainings
    <3>3. QED
      BY <3>1, <3>2 DEF TaskTypeOK
  <2>5. MailTypeOK /\ CountTypeOK
    <3>1. /\ a2i = <<>> /\ i2a = <<>> /\ fwq = <<>> /\ queued = 0 /\ claimed = 0
          /\ completed = 0 /\ earned = 0 /\ overtook = FALSE /\ dropped = FALSE
      BY DEF SioInit
    <3>2. Len(i2a) = 0 /\ a2i \in Seq(Requests) /\ i2a \in Seq(Answers) /\ fwq \in Seq(Periods)
      BY <3>1
    <3>3. queued = 0 /\ claimed = 0
      BY <3>1
    <3>4. queued \in Nat /\ claimed \in Nat /\ queued + claimed <= Len(i2a)
      BY <3>2, <3>3
    <3>5. MailTypeOK
      BY <3>2, <3>4 DEF MailTypeOK
    <3>6. CountTypeOK
      BY <3>1 DEF CountTypeOK
    <3>7. QED
      BY <3>5, <3>6
  <2>6. QED
    BY <2>3, <2>4, <2>5 DEF SioTypes
<1>5. TagsApart /\ OneIssue
  BY <1>2, <1>3 DEF TagsApart, OneIssue
<1>6. ~Accepted /\ Taken = 0 /\ ~Counting
  BY <1>1, <1>2, <1>3 DEF Accepted, Taken, Counting, CountingAt, SioInit
<1>7. /\ Dist(0) = 0 /\ \A p \in Periods : ~(Dist(p) < 0)
  <2>1. Behind(0, 0) = 0 /\ \A p \in Periods : Behind(0, p) \in 0 .. (NPeriods - 1)
    BY <1>1, BehindIs
  <2>2. QED
    BY <1>1, <1>3, <2>1 DEF Dist
<1>8. RingOK
  BY <1>1, <1>2, <1>3, <1>7 DEF RingOK
<1>9. WindowOK /\ OrderOK
  <2>1. i2a \in Seq(Answers) /\ Len(fwq) = 0
    BY <1>4 DEF SioInit, SioTypes, MailTypeOK
  <2>2. Unseen = 0 /\ Thrown = 0 /\ ~dropped
    BY <1>2, <2>1, CountAt DEF Unseen, Thrown, SioInit
  <2>3. WindowOK
    BY <1>2, <1>6, <2>1, <2>2 DEF WindowOK
  <2>4. FirmwareOK
    BY <1>2, <1>7, <2>2 DEF FirmwareOK
  <2>5. QED
    BY <2>2, <2>3, <2>4 DEF OrderOK
<1>10. OneSender /\ OneCall
  BY <1>1, <1>3 DEF OneSender, OneCall, SioInit, FreeTag
<1>11. LockOK /\ DrainOK
  BY <1>1 DEF LockOK, DrainOK, SioInit, ClientHolds, WorkerAt, InsideAt
<1>12. StopOK /\ CountOK
  BY <1>3, <1>6 DEF StopOK, CountOK, SioInit
<1>13. QED
  BY <1>4, <1>5, <1>8, <1>9, <1>10, <1>11, <1>12 DEF SioInv, MailOK, TasksOK

LEMMA SioNextOK ==
  ASSUME SioAssumption, SioInv, NoTagComesRound, SioNext
  PROVE  SioInv'
<1>1. ASSUME NEW t \in SioTasks, Drain(t) PROVE SioInv'
  <2>1. CASE DrainMoves(t)
    BY <2>1, DrainMovesStep
  <2>2. CASE DrainMessage(t)
    <3>1. PICK k \in DOMAIN i2a : dpc[t] \in {"recv", "fifo"} /\ Reads(k) /\ Process(t, k)
      BY <2>2, MessageRead
    <3>2. CASE i2a[k].type = "report"
      BY <3>1, <3>2, ReportStep
    <3>3. CASE i2a[k].type # "report" /\ tags[i2a[k].tag].kind = "issue"
      BY <3>1, <3>3, IssueReplyStep
    <3>4. CASE i2a[k].type # "report" /\ tags[i2a[k].tag].kind # "issue"
      BY <3>1, <3>4, CallReplyStep
    <3>5. QED
      BY <3>2, <3>3, <3>4
  <2>3. CASE DrainCount(t)
    BY <2>3, DrainCountStep
  <2>4. QED
    BY <1>1, <2>1, <2>2, <2>3 DEF Drain, DrainMoves
<1>2. ASSUME NEW t \in SioTasks, Issue(t) PROVE SioInv'
  BY <1>2, IssueMarkStep, IssueSendStep, IssueSendFailsStep DEF Issue
<1>3. CASE StopStep
  BY <1>3, StopMarkStep, StopSendStep, CallEndsStep, ClientMovesStep, StopResetStep, StopDoneStep DEF StopStep, ClientMoves
<1>4. CASE StartCall \/ StopCall
  BY <1>4, ClientMovesStep DEF ClientMoves
<1>5. CASE Firmware \/ FwRefuse
  BY <1>5, FwAnswerStep, FwReportStep DEF Firmware
<1>6. QED
  BY <1>1, <1>2, <1>3, <1>4, <1>5, WorkerStep, StartStep, CallEndsStep, QueuePeriodStep, TakeCompletedStep, InterruptStep
     DEF SioNext

LEMMA SioStutterOK ==
  ASSUME SioInv, UNCHANGED sioVars
  PROVE  SioInv'
<1>1. /\ tx' = tx /\ running' = running /\ error' = error /\ completed' = completed /\ tags' = tags
      /\ last' = last /\ ctag' = ctag /\ a2i' = a2i /\ i2a' = i2a /\ fwq' = fwq /\ earned' = earned
      /\ draining' = draining /\ pc' = pc /\ dpc' = dpc /\ issueLock' = issueLock
      /\ queued' = queued /\ claimed' = claimed /\ overtook' = overtook /\ dropped' = dropped
  BY DEF sioVars, flags, tagVars, mail, inbound, hist
<1>2. MailOK'
  BY <1>1, AllRests DEF SioInv
<1>3. MailTypeOK'
  BY <1>1 DEF SioInv, SioTypes, MailTypeOK, Requests, Answers, Periods, Tags
<1>4. QED
  BY <1>1, <1>2, <1>3, TasksRest DEF SioInv

(* The books agree for as long as no request is sent under the tag of one      *)
(* whose answer is still to come, however often the channel is stopped.        *)
THEOREM BooksAgreeWhileTagsLast ==
  ASSUME SioAssumption
  PROVE  SioSpec /\ []NoTagComesRound => []BooksAgree
<1>1. SioInit => SioInv
  BY SioInitOK
<1>2. SioInv /\ NoTagComesRound /\ [SioNext]_sioVars => SioInv'
  BY SioNextOK, SioStutterOK
<1>3. SioInv => BooksAgree
  BY InvIsEnough
<1>4. QED
  BY <1>1, <1>2, <1>3, PTL DEF SioSpec

------------------------------------------------------------------------------
(* How long the tags last.  Answers come in the order of the requests, so the  *)
(* tags still owed are the last ones given, and all but one of them are of     *)
(* TERMINATEs that stop gave up or still waits for.                            *)
Age(t) == IF t <= last THEN last - t ELSE last + NTags - t
Marked == pc["client"] \in {"stopMark", "termSend"}
Unanswered == \E t \in Tags : ForIssue(t)
MayOwe == (IF Marked THEN stops - 1 ELSE stops) + (IF Unanswered THEN 1 ELSE 0)

AgeOK ==
  /\ stops \in 0 .. MaxStops /\ (Marked => stops > 0)
  /\ last = 0 => Owed = {}
  /\ \A i, j \in DOMAIN i2a : IsReply(i) /\ IsReply(j) /\ i < j => Age(i2a[i].tag) > Age(i2a[j].tag)
  /\ \A i \in DOMAIN i2a, j \in DOMAIN a2i : IsReply(i) => Age(i2a[i].tag) > Age(a2i[j].tag)
  /\ \A i, j \in DOMAIN a2i : i < j => Age(a2i[i].tag) > Age(a2i[j].tag)
  /\ \A t \in Owed : Age(t) < MayOwe

(* Without timeouts a tag is free again only when its answer was read. *)
NotGivenUp == \A t \in Owed : tags[t].kind # "free" /\ tags[t].result = "none"

LEMMA OwedIs ==
  ASSUME SioTypes, MailOK
  PROVE  /\ \A t \in Owed : /\ t \in Tags
                            /\ \/ \E i \in DOMAIN i2a : IsReply(i) /\ i2a[i].tag = t
                               \/ \E j \in DOMAIN a2i : a2i[j].tag = t
         /\ \A i \in DOMAIN i2a : IsReply(i) => i2a[i].tag \in Owed
         /\ \A j \in DOMAIN a2i : a2i[j].tag \in Owed
<1>1. \A t \in Owed : \/ \E i \in DOMAIN i2a : IsReply(i) /\ i2a[i].tag = t
                      \/ \E j \in DOMAIN a2i : a2i[j].tag = t
  BY DEF Owed
<1>2. \A i \in DOMAIN i2a : IsReply(i) => i2a[i].tag \in Tags /\ i2a[i].tag \in Owed
  BY DEF Owed, MailOK, TagsApart
<1>3. \A j \in DOMAIN a2i : a2i[j].tag \in Tags /\ a2i[j].tag \in Owed
  BY MailAt DEF Owed
<1>4. QED
  BY <1>1, <1>2, <1>3

LEMMA AgeAt ==
  ASSUME SioAssumption, SioTypes
  PROVE  /\ NTags \in Nat /\ NTags > 0 /\ Tags = 1 .. NTags /\ last \in 0 .. NTags
         /\ \A t \in Tags : Age(t) \in 0 .. (NTags - 1)
<1>1. NTags \in Nat /\ NTags > 0 /\ Tags = 1 .. NTags /\ last \in 0 .. NTags
  BY DEF SioAssumption, Tags, SioTypes, TagTypeOK
<1>2. QED
  BY <1>1 DEF Age

LEMMA MayOweAt ==
  ASSUME SioAssumption, AgeOK
  PROVE  MayOwe \in Nat /\ stops \in Nat /\ MaxStops \in Nat
  BY DEF AgeOK, MayOwe, SioAssumption

(* The tag given next, when tags come back in the order they were given. *)
Successor == IF last = NTags THEN 1 ELSE last + 1

LEMMA SuccessorIs ==
  ASSUME SioAssumption, SioTypes
  PROVE  /\ Successor \in Tags /\ TagAfter(last, 1) = Successor
         /\ last # 0 => Age(Successor) = NTags - 1
         /\ tags[Successor].kind = "free" => NextTag = {Successor}
<1>1. NTags \in Nat /\ NTags > 0 /\ Tags = 1 .. NTags /\ last \in 0 .. NTags
  BY AgeAt
<1>2. last + 1 - 1 = last
  BY <1>1
<1>3. TagAfter(last, 1) = (last % NTags) + 1
  BY <1>2 DEF TagAfter
<1>4. last % NTags = IF last = NTags THEN 0 ELSE last
  <2>1. CASE last = NTags
    BY <1>1, <2>1, FullMod
  <2>2. CASE last # NTags
    BY <1>1, <2>2, SmallMod
  <2>3. QED
    BY <2>1, <2>2
<1>5. TagAfter(last, 1) = Successor /\ Successor \in Tags
  BY <1>1, <1>3, <1>4 DEF Successor
<1>6. last # 0 => Age(Successor) = NTags - 1
  BY <1>1 DEF Age, Successor
<1>7. ASSUME tags[Successor].kind = "free" PROVE NextTag = {Successor}
  <2> DEFINE free == {k \in 1 .. NTags : tags[TagAfter(last, k)].kind = "free"}
  <2>1. 1 \in free /\ \A j \in free : j \in Nat /\ 1 <= j
    BY <1>1, <1>5, <1>7
  <2>2. {k \in free : \A j \in free : k <= j} = {1}
    <3>1. \A k \in free : (\A j \in free : k <= j) <=> k = 1
      BY <2>1
    <3>2. QED
      BY <2>1, <3>1
  <2>3. NextTag = {TagAfter(last, k) : k \in {1}}
    BY <2>2 DEF NextTag
  <2>4. QED
    BY <1>5, <2>3
<1>8. QED
  BY <1>5, <1>6, <1>7

(* With fewer stops than tags, the tag after the last one given is always the  *)
(* one to give: not owed, and free.                                            *)
LEMMA TagsLast ==
  ASSUME SioAssumption, MaxStops < NTags, SioInv, AgeOK, Sending
  PROVE  NextTag = {Successor} /\ Successor \in Tags /\ Successor \notin Owed
<1>1. SioTypes /\ MailOK /\ TasksOK
  BY DEF SioInv
<1>2. /\ NTags \in Nat /\ Successor \in Tags /\ (last # 0 => Age(Successor) = NTags - 1)
      /\ tags[Successor].kind = "free" => NextTag = {Successor}
  BY <1>1, SuccessorIs, AgeAt
<1>3. /\ stops \in 0 .. MaxStops /\ MaxStops \in Nat /\ (Marked => stops > 0)
      /\ last = 0 => Owed = {} /\ \A t \in Owed : Age(t) < MayOwe
  BY MayOweAt DEF AgeOK
<1>4. MayOwe <= NTags - 1
  <2>1. CASE pc["client"] = "termSend"
    BY <1>2, <1>3, <2>1 DEF MayOwe, Marked
  <2>2. CASE pc["client"] # "termSend"
    <3>1. ~Unanswered
      BY <1>1, <2>2 DEF Sending, TasksOK, OneSender, SioTasks, Unanswered
    <3>2. QED
      BY <1>2, <1>3, <3>1 DEF MayOwe
  <2>3. QED
    BY <2>1, <2>2
<1>5. Successor \notin Owed
  <2>1. CASE last = 0
    BY <1>3, <2>1 DEF AgeOK
  <2>2. CASE last # 0
    <3>1. MayOwe \in Nat
      BY MayOweAt
    <3>2. ASSUME Successor \in Owed PROVE FALSE
      <4>1. Age(Successor) < MayOwe
        BY <3>2 DEF AgeOK
      <4>2. QED
        BY <1>2, <1>4, <2>2, <3>1, <4>1
    <3>3. QED
      BY <3>2
  <2>3. QED
    BY <2>1, <2>2
<1>6. tags[Successor].kind = "free"
  <2>1. tags[Successor].kind # "issue"
    <3>1. ForIssue(Successor) => Successor \in Owed
      BY <1>1, <1>2, OwedIs DEF MailOK, OneIssue
    <3>2. QED
      BY <1>2, <1>5, <3>1 DEF ForIssue
  <2>2. tags[Successor].kind # "sync"
    <3>1. pc["client"] # "termWait"
      BY <1>1 DEF Sending, TasksOK, LockOK, ClientHolds
    <3>2. QED
      BY <1>1, <1>2, <3>1 DEF TasksOK, OneCall
  <2>3. QED
    BY <1>1, <1>2, <2>1, <2>2, TransferAt DEF Entries
<1>7. QED
  BY <1>2, <1>5, <1>6

(* Steps that send and read nothing. *)
LEMMA AgeRests ==
  ASSUME SioAssumption, SioTypes, MailOK, AgeOK, last' = last, a2i' = a2i, i2a' = i2a,
         \A t \in Tags : (tags'[t].kind = "issue") <=> (tags[t].kind = "issue"),
         \/ stops' = stops /\ (Marked' => Marked)
         \/ stops' = stops + 1 /\ stops < MaxStops /\ Marked'
  PROVE  AgeOK'
<1>1. \A t : Age(t)' = Age(t)
  BY DEF Age
<1>2. (Unanswered' <=> Unanswered) /\ Owed' = Owed
  BY DEF Unanswered, ForIssue, Owed, IsReply, Tags
<1>3. stops \in Nat /\ stops <= MaxStops /\ MaxStops \in Nat /\ (Marked => stops > 0)
  BY DEF AgeOK, SioAssumption
<1>4. stops' \in Nat /\ stops' <= MaxStops /\ (Marked' => stops' > 0)
  BY <1>3
<1>5. MayOwe \in Nat /\ MayOwe' \in Nat /\ MayOwe <= MayOwe'
  <2>1. PICK u \in {0, 1} : u = (IF Unanswered THEN 1 ELSE 0) /\ u = (IF Unanswered' THEN 1 ELSE 0)
    BY <1>2, Zenon
  <2>a. /\ MayOwe = (IF Marked THEN stops - 1 ELSE stops) + u
        /\ MayOwe' = (IF Marked' THEN stops' - 1 ELSE stops') + u
    BY <2>1, Zenon DEF MayOwe
  <2>2. PICK a \in Nat : a = (IF Marked THEN stops - 1 ELSE stops) /\ MayOwe = a + u
    <3>1. CASE Marked
      <4>1. MayOwe = (stops - 1) + u
        BY <2>a, <3>1
      <4>2. stops - 1 \in Nat
        BY <1>3, <3>1
      <4>3. QED
        BY <3>1, <4>1, <4>2
    <3>2. CASE ~Marked
      <4>1. MayOwe = stops + u
        BY <2>a, <3>2
      <4>2. QED
        BY <1>3, <3>2, <4>1
    <3>3. QED
      BY <3>1, <3>2
  <2>3. PICK b \in Nat : b = (IF Marked' THEN stops' - 1 ELSE stops') /\ MayOwe' = b + u
    <3>1. CASE Marked'
      <4>1. MayOwe' = (stops' - 1) + u
        BY <2>a, <3>1
      <4>2. stops' - 1 \in Nat
        <5>1. stops' \in Nat /\ stops' > 0
          BY <1>4, <3>1, Zenon
        <5>2. \A n \in Nat : n > 0 => n - 1 \in Nat
          OBVIOUS
        <5>3. QED
          BY <5>1, <5>2, Zenon
      <4>3. QED
        BY <3>1, <4>1, <4>2
    <3>2. CASE ~Marked'
      <4>1. MayOwe' = stops' + u
        BY <2>a, <3>2
      <4>2. QED
        BY <1>4, <3>2, <4>1
    <3>3. QED
      BY <3>1, <3>2
  <2>4. a <= b
    <3>1. CASE Marked'
      BY <1>3, <2>2, <2>3, <3>1
    <3>2. CASE ~Marked'
      BY <1>3, <2>2, <2>3, <3>2
    <3>3. QED
      BY <3>1, <3>2
  <2>5. QED
    BY <2>1, <2>2, <2>3, <2>4
<1>6. \A t \in Owed : Age(t) < MayOwe'
  <2>1. SUFFICES ASSUME NEW t \in Owed PROVE Age(t) < MayOwe'
    OBVIOUS
  <2>2. t \in Tags
    BY OwedIs
  <2>3. Age(t) < MayOwe /\ Age(t) \in Nat
    BY <2>2, AgeAt DEF AgeOK
  <2>4. QED
    BY <1>5, <2>3
<1>7. stops' \in 0 .. MaxStops
  BY <1>3, <1>4
<1>8. QED
  BY <1>1, <1>2, <1>4, <1>6, <1>7 DEF AgeOK, IsReply

QuietStep ==
  \/ \E t \in SioTasks : DrainMoves(t) \/ DrainCount(t) \/ IssueMark(t) \/ IssueSendFails(t)
  \/ Worker \/ ClientMoves \/ Start \/ StopMark \/ StopAcked \/ StopFails \/ StopReset \/ StopDone
  \/ TakeCompleted \/ Interrupt \/ \E p \in Periods : QueuePeriod(p)

(* The tags that are given back without a message read. *)
GivenBack ==
  /\ ctag \in Tags /\ tags[ctag].kind = "sync" /\ (MayTimeout \/ tags[ctag].result # "none")
  /\ tags' = [tags EXCEPT ![ctag] = FreeTag]

LEMMA QuietStepIs ==
  ASSUME SioInv, QuietStep
  PROVE  /\ last' = last /\ a2i' = a2i /\ i2a' = i2a
         /\ tags' = tags \/ GivenBack
         /\ \/ stops' = stops /\ (Marked' => Marked)
            \/ stops' = stops + 1 /\ stops < MaxStops /\ Marked'
<1>1. SioTypes /\ TasksOK /\ pc \in [SioTasks -> Places] /\ SioTasks = {"client", "worker"}
  BY TransferAt DEF SioInv
<1>2. ASSUME NEW t \in SioTasks, DrainMoves(t)
      PROVE  /\ last' = last /\ a2i' = a2i /\ i2a' = i2a /\ tags' = tags
             /\ stops' = stops /\ (Marked' => Marked)
  BY <1>2 DEF DrainMoves, DrainEnter, DrainLook, DrainNoneQueued, DrainClear, DrainRecheck, DrainFails, tagVars, mail, inbound, bounds, Marked
<1>3. ASSUME NEW t \in SioTasks, DrainCount(t)
      PROVE  /\ last' = last /\ a2i' = a2i /\ i2a' = i2a /\ tags' = tags
             /\ stops' = stops /\ (Marked' => Marked)
  <2>1. PcKept
    BY <1>1, <1>3, Kicked DEF DrainCount
  <2>2. QED
    BY <1>3, <2>1 DEF DrainCount, tagVars, mail, inbound, bounds, Marked, PcKept
<1>4. ASSUME NEW t \in SioTasks, IssueMark(t) \/ IssueSendFails(t)
      PROVE  /\ last' = last /\ a2i' = a2i /\ i2a' = i2a /\ tags' = tags
             /\ stops' = stops /\ (Marked' => Marked)
  <2>1. \E p \in {"issueSend", "idle", "top"} : pc' = [pc EXCEPT ![t] = p]
    BY <1>1, <1>4 DEF IssueMark, IssueSendFails, Move, AfterIssue
  <2>2. Marked' => Marked
    BY <1>1, <2>1 DEF Marked
  <2>3. QED
    BY <1>4, <2>2 DEF IssueMark, IssueSendFails, tagVars, mail, inbound, bounds
<1>5. ASSUME Worker
      PROVE  /\ last' = last /\ a2i' = a2i /\ i2a' = i2a /\ tags' = tags
             /\ stops' = stops /\ (Marked' => Marked)
  <2>1. pc'["client"] = pc["client"]
    BY <1>1, <1>5 DEF Worker, WorkerTop, WorkerWait, WorkerGen, WorkerLock, Move
  <2>2. QED
    BY <1>5, <2>1 DEF Worker, WorkerTop, WorkerWait, WorkerGen, WorkerLock, tagVars, mail, inbound, bounds, Marked
<1>6. ASSUME StartCall \/ Start \/ StopMark \/ StopQuiet \/ StopAgain \/ StopReset \/ StopDone \/ Stopped \/ TakeCompleted
      PROVE  /\ last' = last /\ a2i' = a2i /\ i2a' = i2a /\ tags' = tags
             /\ stops' = stops /\ (Marked' => Marked)
  <2>1. Marked' => Marked
    BY <1>1, <1>6 DEF StartCall, Start, StopMark, StopQuiet, StopAgain, StopReset, StopDone, Stopped, TakeCompleted,
         Move, Marked
  <2>2. QED
    BY <1>6, <2>1 DEF StartCall, Start, StopMark, StopQuiet, StopAgain, StopReset, StopDone, Stopped, TakeCompleted,
         tagVars, mail, inbound, bounds
<1>7. ASSUME StopCall
      PROVE  /\ last' = last /\ a2i' = a2i /\ i2a' = i2a /\ tags' = tags
             /\ stops' = stops + 1 /\ stops < MaxStops /\ Marked'
  BY <1>1, <1>7 DEF StopCall, Move, Marked, tagVars, mail, inbound
<1>8. ASSUME StopAcked \/ StopFails
      PROVE  /\ last' = last /\ a2i' = a2i /\ i2a' = i2a /\ (tags' = tags \/ GivenBack)
             /\ stops' = stops /\ (Marked' => Marked)
  <2>1. Marked' => Marked
    BY <1>1, <1>8 DEF StopAcked, StopFails, Move, Marked
  <2>2. tags' = tags \/ GivenBack
    <3>1. tags' = tags \/ (pc["client"] = "termWait" /\ tags' = [tags EXCEPT ![ctag] = FreeTag]
                           /\ (MayTimeout \/ tags[ctag].result # "none"))
      BY <1>8 DEF StopAcked, StopFails
    <3>2. pc["client"] = "termWait" => ctag \in Tags /\ tags[ctag].kind = "sync"
      BY <1>1 DEF TasksOK, OneCall
    <3>3. QED
      BY <3>1, <3>2 DEF GivenBack
  <2>3. QED
    BY <1>8, <2>1, <2>2 DEF StopAcked, StopFails, mail, inbound, bounds
<1>9. ASSUME Interrupt \/ \E p \in Periods : QueuePeriod(p)
      PROVE  /\ last' = last /\ a2i' = a2i /\ i2a' = i2a /\ tags' = tags
             /\ stops' = stops /\ (Marked' => Marked)
  <2>1. PcKept
    BY <1>1, <1>9, Kicked DEF Interrupt, IrqDrain, IrqAppend, RxReady, QueuePeriod, KickIf, PcKept
  <2>2. QED
    BY <1>9, <2>1 DEF Interrupt, IrqDrain, IrqAppend, RxReady, QueuePeriod, tagVars, mail, inbound, bounds, Marked, PcKept
<1>10. QED
  BY <1>2, <1>3, <1>4, <1>5, <1>6, <1>7, <1>8, <1>9 DEF QuietStep, ClientMoves

LEMMA GivenBackIs ==
  ASSUME SioTypes, tags' = tags \/ GivenBack
  PROVE  /\ \A t \in Tags : (tags'[t].kind = "issue") <=> (tags[t].kind = "issue")
         /\ \A t \in Tags : tags'[t] = tags[t] \/ (t = ctag /\ (MayTimeout \/ tags[t].result # "none"))
  BY TransferAt DEF GivenBack, FreeTag

LEMMA MessageIs ==
  ASSUME SioInv, NEW t \in SioTasks, NEW k, Reads(k), Process(t, k)
  PROVE  /\ a2i' = a2i /\ last' = last /\ stops' = stops
         /\ pc'["client"] = pc["client"]
         /\ \A s \in Tags : tags'[s] = tags[s] \/ (s = i2a[k].tag /\ i2a[k].type # "report")
         /\ \A s \in Tags : tags'[s].kind = "issue" => tags[s].kind = "issue"
         /\ i2a[k].type = "report" => tags' = tags
<1>1. SioTypes /\ MailOK /\ tags \in [Tags -> Entries]
  BY TransferAt DEF SioInv
<1>2. a2i' = a2i /\ last' = last /\ stops' = stops
  BY DEF Process, bounds
<1>3. i2a[k].type # "report" => i2a[k].tag \in Tags
  BY <1>1, TakenOutRests
<1>4. CASE i2a[k].type = "report"
  <2>1. tags' = tags /\ pc' = pc
    BY <1>4 DEF Process, Reply
  <2>2. QED
    BY <1>2, <1>4, <2>1
<1>5. CASE i2a[k].type # "report"
  <2>1. Reply(i2a[k])
    BY <1>5 DEF Process
  <2>2. pc' = pc \/ \E b : KickIf(b, pc)
    BY <2>1 DEF Reply, IssueReply
  <2>3. pc'["client"] = pc["client"]
    BY <1>1, <2>2, Kicked DEF PcKept
  <2>4. \/ tags' = tags
        \/ tags[i2a[k].tag].kind = "issue" /\ tags' = [tags EXCEPT ![i2a[k].tag] = FreeTag]
        \/ tags[i2a[k].tag].kind = "sync" /\ tags' = [tags EXCEPT ![i2a[k].tag].result = i2a[k].type]
    BY <2>1 DEF Reply
  <2>5. \A s \in Tags : tags'[s] = tags[s] \/ s = i2a[k].tag
    BY <1>1, <1>3, <1>5, <2>4
  <2>6. \A s \in Tags : tags'[s].kind = "issue" => tags[s].kind = "issue"
    <3>1. CASE tags' = tags
      BY <3>1
    <3>2. CASE tags[i2a[k].tag].kind = "issue"
      BY <2>5, <3>2
    <3>3. CASE tags[i2a[k].tag].kind = "sync" /\ tags' = [tags EXCEPT ![i2a[k].tag].result = i2a[k].type]
      <4>1. \A e \in Entries : \A r : [e EXCEPT !.result = r].kind = e.kind
        BY DEF Entries
      <4>2. tags'[i2a[k].tag] = [tags[i2a[k].tag] EXCEPT !.result = i2a[k].type]
        BY <1>1, <1>3, <1>5, <3>3
      <4>3. tags'[i2a[k].tag].kind = "sync"
        BY <1>1, <1>3, <1>5, <3>3, <4>1, <4>2
      <4>4. QED
        BY <2>5, <4>3
    <3>4. QED
      BY <2>4, <3>1, <3>2, <3>3
  <2>7. QED
    BY <1>2, <1>5, <2>3, <2>5, <2>6
<1>6. QED
  BY <1>4, <1>5

(* With the answer read goes a tag that was owed. *)
LEMMA OwedMessage ==
  ASSUME SioInv, NEW k, Reads(k)
  PROVE  /\ \A i \in DOMAIN i2a' : i2a'[i].type # "report" => IsReply(Up(k, i)) /\ i2a'[i].tag = i2a[Up(k, i)].tag
         /\ \A s \in Owed' : \/ \E i \in DOMAIN i2a' : i2a'[i].type # "report" /\ i2a'[i].tag = s
                             \/ \E j \in DOMAIN a2i : a2i[j].tag = s
         /\ Owed' \subseteq Owed /\ (i2a[k].type # "report" => i2a[k].tag \notin Owed')
<1>1. SioTypes /\ MailOK
  BY DEF SioInv
<1>2. a2i' = a2i
  BY DEF Reads
<1>3. \A i \in DOMAIN i2a' : i2a'[i].type # "report" =>
        Up(k, i) \in DOMAIN i2a /\ IsReply(Up(k, i)) /\ i2a'[i].tag = i2a[Up(k, i)].tag
  BY <1>1, TakenOut DEF IsReply
<1>4. \A s \in Owed' : \/ \E i \in DOMAIN i2a' : i2a'[i].type # "report" /\ i2a'[i].tag = s
                       \/ \E j \in DOMAIN a2i : a2i[j].tag = s
  BY <1>2 DEF Owed, IsReply
<1>5. Owed' \subseteq Owed
  BY <1>1, <1>3, <1>4, OwedIs
<1>6. i2a[k].type # "report" => i2a[k].tag \notin Owed'
  BY <1>1, <1>2, <1>4, TakenOutRests
<1>7. QED
  BY <1>3, <1>4, <1>5, <1>6

(* The oldest message is read: with it goes the oldest of the tags owed. *)
LEMMA AgeMessage ==
  ASSUME SioAssumption, SioInv, AgeOK, NEW t \in SioTasks, Reads(1), Process(t, 1)
  PROVE  AgeOK'
<1>1. SioTypes /\ MailOK
  BY DEF SioInv
<1>2. /\ a2i' = a2i /\ last' = last /\ stops' = stops
      /\ (Marked' <=> Marked)
      /\ \A s \in Tags : tags'[s] = tags[s] \/ (s = i2a[1].tag /\ i2a[1].type # "report")
      /\ \A s \in Tags : tags'[s].kind = "issue" => tags[s].kind = "issue"
  BY MessageIs DEF Marked
<1>3. /\ 1 \in DOMAIN i2a
      /\ \A i \in DOMAIN i2a' : i \in Nat /\ i + 1 \in DOMAIN i2a /\ i2a'[i] = i2a[i + 1] /\ 1 < i + 1
  <2>1. 1 \in DOMAIN i2a /\ DOMAIN i2a = 1 .. Len(i2a) /\ Len(i2a) \in Nat
    BY <1>1, MailAt DEF Reads
  <2>2. \A i \in DOMAIN i2a' : Up(1, i) \in DOMAIN i2a \ {1} /\ i2a'[i] = i2a[Up(1, i)]
    BY <1>1, TakenOut
  <2>3. i2a' \in Seq(Answers)
    BY <1>1, TakenOut
  <2>4. \A i \in DOMAIN i2a' : i \in Nat /\ i >= 1
    BY <2>3, SeqAt
  <2>5. \A i \in DOMAIN i2a' : Up(1, i) = i + 1 /\ 1 < i + 1
    BY <2>4 DEF Up
  <2>6. QED
    BY <2>1, <2>2, <2>4, <2>5
<1>4. /\ \A i \in DOMAIN i2a' : i2a'[i].type # "report" => IsReply(i + 1) /\ i2a'[i].tag = i2a[i + 1].tag
      /\ \A s \in Owed' : \/ \E i \in DOMAIN i2a' : i2a'[i].type # "report" /\ i2a'[i].tag = s
                          \/ \E j \in DOMAIN a2i : a2i[j].tag = s
      /\ Owed' \subseteq Owed
  <2>1. /\ \A i \in DOMAIN i2a' : i2a'[i].type # "report" => IsReply(Up(1, i)) /\ i2a'[i].tag = i2a[Up(1, i)].tag
        /\ \A s \in Owed' : \/ \E i \in DOMAIN i2a' : i2a'[i].type # "report" /\ i2a'[i].tag = s
                            \/ \E j \in DOMAIN a2i : a2i[j].tag = s
        /\ Owed' \subseteq Owed
    BY OwedMessage
  <2>2. \A i \in DOMAIN i2a' : Up(1, i) = i + 1
    BY <1>3 DEF Up
  <2>3. QED
    BY <2>1, <2>2
<1>5. \A s : Age(s)' = Age(s)
  BY <1>2 DEF Age
<1>6. i2a[1].type # "report" => \A s \in Owed' : Age(i2a[1].tag) > Age(s)
  <2>1. SUFFICES ASSUME i2a[1].type # "report", NEW s \in Owed' PROVE Age(i2a[1].tag) > Age(s) 
    OBVIOUS
  <2>2. IsReply(1) /\ i2a[1].tag \in Tags /\ s \in Tags
    BY <1>1, <1>3, <1>4, <2>1, OwedIs DEF IsReply
  <2>3. Age(i2a[1].tag) > Age(s)
    <3>1. CASE \E j \in DOMAIN a2i : a2i[j].tag = s
      BY <1>3, <2>2, <3>1 DEF AgeOK
    <3>2. CASE \E i \in DOMAIN i2a' : i2a'[i].type # "report" /\ i2a'[i].tag = s
      BY <1>3, <1>4, <2>2, <3>2 DEF AgeOK
    <3>3. QED
      BY <1>4, <3>1, <3>2
  <2>4. QED
    BY <2>3
<1>7. ASSUME NEW s \in Owed' PROVE Age(s) < MayOwe'
  <2>1. Age(s) < MayOwe /\ Age(s) \in Nat /\ MayOwe \in Nat
    <3>1. s \in Owed /\ s \in Tags
      BY <1>1, <1>4, <1>7, OwedIs
    <3>2. QED
      BY <1>1, <3>1, AgeAt, MayOweAt DEF AgeOK
  <2>2. CASE Unanswered' <=> Unanswered
    BY <1>2, <2>1, <2>2 DEF MayOwe
  <2>3. CASE ~(Unanswered' <=> Unanswered)
    <3>1. Unanswered /\ ~Unanswered'
      BY <1>2, <2>3 DEF Unanswered, ForIssue, Tags
    <3>2. PICK u \in Tags : ForIssue(u) /\ tags'[u].kind # "issue"
      BY <3>1 DEF Unanswered, ForIssue, Tags
    <3>3. u = i2a[1].tag /\ i2a[1].type # "report"
      BY <1>2, <3>2 DEF ForIssue
    <3>4. u \in Owed
      BY <1>1, <1>3, <3>3, OwedIs DEF IsReply
    <3>5. Age(u) < MayOwe /\ Age(u) > Age(s) /\ Age(u) \in Nat
      BY <1>1, <1>6, <3>2, <3>3, <3>4, AgeAt DEF AgeOK
    <3>6. MayOwe' = MayOwe - 1
      <4>1. stops \in Nat
        BY MayOweAt
      <4>2. QED
        BY <1>2, <3>1, <4>1 DEF MayOwe
    <3>7. QED
      BY <2>1, <3>5, <3>6
  <2>4. QED
    BY <2>2, <2>3
<1>8. AgeOK'
  <2>1. \A i, j \in DOMAIN i2a' : i2a'[i].type # "report" /\ i2a'[j].type # "report" /\ i < j
          => Age(i2a'[i].tag) > Age(i2a'[j].tag)
    <3>1. SUFFICES ASSUME NEW i \in DOMAIN i2a', NEW j \in DOMAIN i2a', i2a'[i].type # "report", i2a'[j].type # "report", i < j
                   PROVE  Age(i2a'[i].tag) > Age(i2a'[j].tag)
      OBVIOUS
    <3>2. i + 1 < j + 1 /\ i + 1 \in DOMAIN i2a /\ j + 1 \in DOMAIN i2a
      BY <1>3, <3>1
    <3>3. QED
      BY <1>4, <3>1, <3>2 DEF AgeOK
  <2>2. \A i \in DOMAIN i2a', j \in DOMAIN a2i : i2a'[i].type # "report" => Age(i2a'[i].tag) > Age(a2i[j].tag)
    BY <1>3, <1>4 DEF AgeOK
  <2>3. last' = 0 => Owed' = {}
    BY <1>2, <1>4 DEF AgeOK
  <2>4. stops' \in 0 .. MaxStops /\ (Marked' => stops' > 0)
    BY <1>2 DEF AgeOK
  <2>5. \A i, j \in DOMAIN a2i : i < j => Age(a2i[i].tag) > Age(a2i[j].tag)
    BY DEF AgeOK
  <2>6. QED
    BY <1>2, <1>5, <1>7, <2>1, <2>2, <2>3, <2>4, <2>5 DEF AgeOK, IsReply
<1>9. QED
  BY <1>8

(* An answer moves a tag from the end of one queue to the end of the other. *)
LEMMA AnswerIs ==
  ASSUME SioAssumption, SioInv, FwAccept \/ FwRefuse
  PROVE  /\ tags' = tags /\ last' = last /\ pc' = pc /\ stops' = stops
         /\ 1 \in DOMAIN a2i
         /\ \A j \in DOMAIN a2i' : j \in Nat /\ j + 1 \in DOMAIN a2i /\ a2i'[j] = a2i[j + 1] /\ 1 < j + 1
         /\ \E n \in DOMAIN i2a' :
              /\ \A i, j \in DOMAIN i2a' : i < j => i \in DOMAIN i2a /\ i2a'[i] = i2a[i]
              /\ \A i \in DOMAIN i2a' : i2a'[i].type # "report" =>
                   (i = n /\ i2a'[i].tag = a2i[1].tag) \/ (i \in DOMAIN i2a /\ IsReply(i) /\ i2a'[i] = i2a[i])
         /\ Owed' \subseteq Owed
<1>0. PICK n \in Nat : n = Len(i2a) + 1
  BY MailAt DEF SioInv
<1>1. SioTypes /\ MailOK
  BY DEF SioInv
<1>2. /\ tags' = tags /\ last' = last /\ pc' = pc /\ stops' = stops /\ a2i # <<>> /\ a2i' = Tail(a2i)
      /\ \E ty \in {"ack", "nack"} : i2a' = Append(i2a, FwMsg(ty, Head(a2i).tag))
  BY DEF FwAccept, FwRefuse, FwSend, tagVars, bounds
<1>3. /\ Head(a2i) = a2i[1] /\ 1 \in DOMAIN a2i /\ a2i[1].tag \in Tags
      /\ \A j \in DOMAIN a2i' : j \in Nat /\ j + 1 \in DOMAIN a2i /\ a2i'[j] = a2i[j + 1] /\ 1 < j + 1
  <2>1. a2i \in Seq(Requests) /\ \A j \in DOMAIN a2i : a2i[j].tag \in Tags
    BY <1>1, MailAt
  <2>2. /\ Len(a2i) \in Nat \ {0} /\ DOMAIN a2i = 1 .. Len(a2i) /\ DOMAIN a2i' = 1 .. (Len(a2i) - 1)
        /\ Head(a2i) = a2i[1] /\ \A j \in DOMAIN a2i' : j + 1 \in DOMAIN a2i /\ a2i'[j] = a2i[j + 1]
    BY <1>2, <2>1, TailAt
  <2>3. QED
    BY <2>1, <2>2
<1>4. /\ DOMAIN i2a = 1 .. Len(i2a) /\ DOMAIN i2a' = 1 .. n /\ Len(i2a) \in Nat
      /\ \A i \in DOMAIN i2a : i \in DOMAIN i2a' /\ i2a'[i] = i2a[i]
      /\ i2a'[n].type # "report" /\ i2a'[n].tag = a2i[1].tag
  <2>1. PICK ty \in {"ack", "nack"} : i2a' = Append(i2a, FwMsg(ty, a2i[1].tag))
    BY <1>2, <1>3
  <2>2. PICK m : m = FwMsg(ty, a2i[1].tag)
    OBVIOUS
  <2>3. m \in Answers /\ m.type # "report" /\ m.tag = a2i[1].tag
    BY <1>3, <2>2 DEF FwMsg, Answers, SioAssumption, Tags, Periods
  <2>4. i2a \in Seq(Answers) /\ Len(i2a) \in Nat
    BY <1>1, MailAt
  <2>5. QED
    BY <1>0, <2>1, <2>2, <2>3, <2>4, AppendAt
<1>5. /\ n \in DOMAIN i2a' /\ \A i \in DOMAIN i2a' : i \in DOMAIN i2a \/ i = n
      /\ \A i, j \in DOMAIN i2a' : i < j => i \in DOMAIN i2a
  BY <1>0, <1>4
<1>6. \A i \in DOMAIN i2a' : i2a'[i].type # "report" =>
        (i = n /\ i2a'[i].tag = a2i[1].tag) \/ (i \in DOMAIN i2a /\ IsReply(i) /\ i2a'[i] = i2a[i])
  BY <1>4, <1>5 DEF IsReply
<1>7. Owed' \subseteq Owed
  <2>1. \A s \in Owed' : \/ \E i \in DOMAIN i2a' : i2a'[i].type # "report" /\ i2a'[i].tag = s
                         \/ \E j \in DOMAIN a2i' : a2i'[j].tag = s
    BY DEF Owed, IsReply
  <2>2. \A i \in DOMAIN i2a' : i2a'[i].type # "report" => i2a'[i].tag \in Owed
    BY <1>1, <1>3, <1>6, OwedIs
  <2>3. \A j \in DOMAIN a2i' : a2i'[j].tag \in Owed
    BY <1>1, <1>3, OwedIs
  <2>4. QED
    BY <2>1, <2>2, <2>3
<1>8. QED
  BY <1>2, <1>3, <1>4, <1>5, <1>6, <1>7

LEMMA AgeAnswer ==
  ASSUME SioAssumption, SioInv, AgeOK, FwAccept \/ FwRefuse
  PROVE  AgeOK'
<1>1. /\ tags' = tags /\ last' = last /\ pc' = pc /\ stops' = stops /\ Owed' \subseteq Owed
      /\ 1 \in DOMAIN a2i
      /\ \A j \in DOMAIN a2i' : j \in Nat /\ j + 1 \in DOMAIN a2i /\ a2i'[j] = a2i[j + 1] /\ 1 < j + 1
  BY AnswerIs
<1>2. PICK n \in DOMAIN i2a' :
        /\ \A i, j \in DOMAIN i2a' : i < j => i \in DOMAIN i2a /\ i2a'[i] = i2a[i]
        /\ \A i \in DOMAIN i2a' : i2a'[i].type # "report" =>
             (i = n /\ i2a'[i].tag = a2i[1].tag) \/ (i \in DOMAIN i2a /\ IsReply(i) /\ i2a'[i] = i2a[i])
  BY AnswerIs
<1>3. \A s : Age(s)' = Age(s)
  BY <1>1 DEF Age
<1>4. MayOwe' = MayOwe
  BY <1>1 DEF MayOwe, Marked, Unanswered, ForIssue, Tags
<1>5. AgeOK'
  <2>1. \A i, j \in DOMAIN i2a' : i2a'[i].type # "report" /\ i2a'[j].type # "report" /\ i < j
          => Age(i2a'[i].tag) > Age(i2a'[j].tag)
    <3>1. SUFFICES ASSUME NEW i \in DOMAIN i2a', NEW j \in DOMAIN i2a', i2a'[i].type # "report", i2a'[j].type # "report", i < j
                   PROVE  Age(i2a'[i].tag) > Age(i2a'[j].tag)
      OBVIOUS
    <3>2. i \in DOMAIN i2a /\ IsReply(i) /\ i2a'[i] = i2a[i]
      BY <1>2, <3>1 DEF IsReply
    <3>3. CASE i2a'[j].tag = a2i[1].tag
      BY <1>1, <3>2, <3>3 DEF AgeOK
    <3>4. CASE j \in DOMAIN i2a /\ IsReply(j) /\ i2a'[j] = i2a[j]
      BY <3>1, <3>2, <3>4 DEF AgeOK
    <3>5. QED
      BY <1>2, <3>1, <3>3, <3>4
  <2>2. \A i \in DOMAIN i2a', j \in DOMAIN a2i' : i2a'[i].type # "report" => Age(i2a'[i].tag) > Age(a2i'[j].tag)
    <3>1. SUFFICES ASSUME NEW i \in DOMAIN i2a', NEW j \in DOMAIN a2i', i2a'[i].type # "report"
                   PROVE  Age(i2a'[i].tag) > Age(a2i'[j].tag)
      OBVIOUS
    <3>2. j + 1 \in DOMAIN a2i /\ a2i'[j] = a2i[j + 1] /\ 1 < j + 1
      BY <1>1
    <3>3. CASE i2a'[i].tag = a2i[1].tag
      BY <1>1, <3>2, <3>3 DEF AgeOK
    <3>4. CASE i \in DOMAIN i2a /\ IsReply(i) /\ i2a'[i] = i2a[i]
      BY <3>2, <3>4 DEF AgeOK
    <3>5. QED
      BY <1>2, <3>1, <3>3, <3>4
  <2>3. \A i, j \in DOMAIN a2i' : i < j => Age(a2i'[i].tag) > Age(a2i'[j].tag)
    <3>1. SUFFICES ASSUME NEW i \in DOMAIN a2i', NEW j \in DOMAIN a2i', i < j
                   PROVE  Age(a2i'[i].tag) > Age(a2i'[j].tag)
      OBVIOUS
    <3>2. i + 1 \in DOMAIN a2i /\ j + 1 \in DOMAIN a2i /\ i + 1 < j + 1 /\ a2i'[i] = a2i[i + 1] /\ a2i'[j] = a2i[j + 1]
      BY <1>1, <3>1
    <3>3. QED
      BY <3>2 DEF AgeOK
  <2>4. (last' = 0 => Owed' = {}) /\ \A s \in Owed' : Age(s) < MayOwe
    BY <1>1 DEF AgeOK
  <2>5. stops' \in 0 .. MaxStops /\ (Marked' => stops' > 0)
    BY <1>1 DEF AgeOK, Marked
  <2>6. QED
    BY <1>3, <1>4, <2>1, <2>2, <2>3, <2>4, <2>5 DEF AgeOK, IsReply
<1>6. QED
  BY <1>5

LEMMA ReportIs ==
  ASSUME SioAssumption, SioInv, FwReport
  PROVE  /\ tags' = tags /\ last' = last /\ pc' = pc /\ stops' = stops /\ a2i' = a2i
         /\ \A i \in DOMAIN i2a' : i2a'[i].type # "report" => i \in DOMAIN i2a /\ IsReply(i) /\ i2a'[i] = i2a[i]
         /\ Owed' \subseteq Owed
<1>0. PICK n \in Nat : n = Len(i2a) + 1
  BY MailAt DEF SioInv
<1>1. SioTypes /\ MailOK
  BY DEF SioInv
<1>2. /\ tags' = tags /\ last' = last /\ pc' = pc /\ stops' = stops /\ a2i' = a2i /\ fwq # <<>>
      /\ i2a' = Append(i2a, [type |-> "report", tag |-> 0, period |-> Head(fwq)])
  BY DEF FwReport, FwSend, tagVars, bounds
<1>3. /\ DOMAIN i2a = 1 .. Len(i2a) /\ DOMAIN i2a' = 1 .. n /\ Len(i2a) \in Nat
      /\ \A i \in DOMAIN i2a : i \in DOMAIN i2a' /\ i2a'[i] = i2a[i]
      /\ i2a'[n].type = "report"
  <2>1. PICK m : m = [type |-> "report", tag |-> 0, period |-> Head(fwq)]
    OBVIOUS
  <2>2. Head(fwq) \in Periods
    <3>1. fwq \in Seq(Periods)
      BY <1>1, MailAt
    <3>2. QED
      BY <1>2, <3>1, HeadTailProperties
  <2>3. m \in Answers /\ m.type = "report"
    BY <2>1, <2>2 DEF Answers, SioAssumption
  <2>4. i2a \in Seq(Answers) /\ Len(i2a) \in Nat
    BY <1>1, MailAt
  <2>5. QED
    BY <1>0, <1>2, <2>1, <2>3, <2>4, AppendAt
<1>4. \A i \in DOMAIN i2a' : i2a'[i].type # "report" => i \in DOMAIN i2a /\ IsReply(i) /\ i2a'[i] = i2a[i]
  BY <1>0, <1>3 DEF IsReply
<1>5. Owed' \subseteq Owed
  <2>1. \A s \in Owed' : \/ \E i \in DOMAIN i2a' : i2a'[i].type # "report" /\ i2a'[i].tag = s
                         \/ \E j \in DOMAIN a2i : a2i[j].tag = s
    BY <1>2 DEF Owed, IsReply
  <2>2. QED
    BY <1>1, <1>4, <2>1, OwedIs
<1>6. QED
  BY <1>2, <1>4, <1>5

LEMMA AgeReport ==
  ASSUME SioAssumption, SioInv, AgeOK, FwReport
  PROVE  AgeOK'
<1>1. /\ tags' = tags /\ last' = last /\ pc' = pc /\ stops' = stops /\ a2i' = a2i /\ Owed' \subseteq Owed
      /\ \A i \in DOMAIN i2a' : i2a'[i].type # "report" => i \in DOMAIN i2a /\ IsReply(i) /\ i2a'[i] = i2a[i]
  BY ReportIs
<1>2. \A s : Age(s)' = Age(s)
  BY <1>1 DEF Age
<1>3. MayOwe' = MayOwe
  BY <1>1 DEF MayOwe, Marked, Unanswered, ForIssue, Tags
<1>4. AgeOK'
  <2>1. \A i, j \in DOMAIN i2a' : i2a'[i].type # "report" /\ i2a'[j].type # "report" /\ i < j
          => Age(i2a'[i].tag) > Age(i2a'[j].tag)
    BY <1>1 DEF AgeOK
  <2>2. \A i \in DOMAIN i2a', j \in DOMAIN a2i : i2a'[i].type # "report" => Age(i2a'[i].tag) > Age(a2i[j].tag)
    BY <1>1 DEF AgeOK
  <2>3. \A i, j \in DOMAIN a2i : i < j => Age(a2i[i].tag) > Age(a2i[j].tag)
    BY DEF AgeOK
  <2>4. (last' = 0 => Owed' = {}) /\ \A s \in Owed' : Age(s) < MayOwe
    BY <1>1 DEF AgeOK
  <2>5. stops' \in 0 .. MaxStops /\ (Marked' => stops' > 0)
    BY <1>1 DEF AgeOK, Marked
  <2>6. QED
    BY <1>1, <1>2, <1>3, <2>1, <2>2, <2>3, <2>4, <2>5 DEF AgeOK, IsReply
<1>5. QED
  BY <1>4

LEMMA OwedSend ==
  ASSUME SioInv, NEW m \in Requests, a2i' = Append(a2i, m), i2a' = i2a
  PROVE  /\ \E n \in DOMAIN a2i' :
              /\ a2i'[n] = m
              /\ \A i, j \in DOMAIN a2i' : i < j => i \in DOMAIN a2i /\ a2i'[i] = a2i[i]
              /\ \A j \in DOMAIN a2i' : (j \in DOMAIN a2i /\ a2i'[j] = a2i[j]) \/ j = n
         /\ \A s \in Owed' : s \in Owed \/ s = m.tag
<1>0. PICK n \in Nat : n = Len(a2i) + 1
  BY MailAt DEF SioInv
<1>1. SioTypes /\ MailOK
  BY DEF SioInv
<1>3. /\ DOMAIN a2i = 1 .. Len(a2i) /\ DOMAIN a2i' = 1 .. n /\ Len(a2i) \in Nat
      /\ \A j \in DOMAIN a2i : j \in DOMAIN a2i' /\ a2i'[j] = a2i[j]
      /\ a2i'[n] = m
  <2>1. a2i \in Seq(Requests) /\ Len(a2i) \in Nat
    BY <1>1, MailAt
  <2>2. QED
    BY <1>0, <2>1, AppendAt
<1>4. /\ n \in DOMAIN a2i' /\ \A j \in DOMAIN a2i' : j \in DOMAIN a2i \/ j = n
      /\ \A i, j \in DOMAIN a2i' : i < j => i \in DOMAIN a2i
      /\ \A i, j \in DOMAIN a2i' : i < j => a2i'[i] = a2i[i]
  BY <1>0, <1>3
<1>5. \A s \in Owed' : s \in Owed \/ s = m.tag
  <2>1. \A s \in Owed' : \/ \E i \in DOMAIN i2a : IsReply(i) /\ i2a[i].tag = s
                         \/ \E j \in DOMAIN a2i' : a2i'[j].tag = s
    BY DEF Owed, IsReply
  <2>2. \A j \in DOMAIN a2i' : a2i'[j].tag \in Owed \/ a2i'[j].tag = m.tag
    BY <1>1, <1>3, <1>4, OwedIs
  <2>3. QED
    BY <1>1, <2>1, <2>2, OwedIs
<1>6. QED
  BY <1>3, <1>4, <1>5

(* A request under the next tag: every tag owed is one older. *)
LEMMA AgeSend ==
  ASSUME SioAssumption, SioInv, AgeOK, Successor \notin Owed,
         NEW m \in Requests, m.tag = Successor, last' = Successor,
         a2i' = Append(a2i, m), i2a' = i2a, MayOwe' = MayOwe + 1,
         stops' = stops, Marked' => Marked
  PROVE  AgeOK'
<1>1. SioTypes /\ MailOK
  BY DEF SioInv
<1>2. /\ NTags \in Nat /\ NTags > 0 /\ Tags = 1 .. NTags /\ last \in 0 .. NTags /\ Successor \in Tags
      /\ \A s \in Tags : Age(s) \in 0 .. (NTags - 1)
  BY <1>1, AgeAt, SuccessorIs
<1>3. PICK n \in DOMAIN a2i' :
        /\ a2i'[n] = m
        /\ \A i, j \in DOMAIN a2i' : i < j => i \in DOMAIN a2i /\ a2i'[i] = a2i[i]
        /\ \A j \in DOMAIN a2i' : (j \in DOMAIN a2i /\ a2i'[j] = a2i[j]) \/ j = n
  BY OwedSend
<1>4. a2i'[n].tag = Successor
  BY <1>3
<1> DEFINE Older(s) == IF s <= Successor THEN Successor - s ELSE Successor + NTags - s
<1>5. \A s : Age(s)' = Older(s)
  BY DEF Age
<1>6. Older(Successor) = 0 /\ \A s \in Tags : s # Successor => Older(s) = Age(s) + 1
  BY <1>2 DEF Age, Successor
<1> HIDE DEF Older
<1>7. \A s \in Owed : s \in Tags /\ s # Successor /\ Older(s) = Age(s) + 1 /\ Age(s) \in Nat
  <2>1. \A s \in Owed : s \in Tags
    BY <1>1, OwedIs
  <2>2. QED
    BY <1>2, <1>6, <2>1
<1>8. /\ \A i \in DOMAIN i2a : IsReply(i) => i2a[i].tag \in Owed
      /\ \A j \in DOMAIN a2i : a2i[j].tag \in Owed
  BY <1>1, OwedIs
<1>9. \A s \in Owed' : s \in Owed \/ s = Successor
  BY OwedSend
<1>10. \A s \in Owed : Older(s) > Older(Successor)
  BY <1>6, <1>7
<1>11. AgeOK'
  <2>1. \A i, j \in DOMAIN i2a : IsReply(i) /\ IsReply(j) /\ i < j => Older(i2a[i].tag) > Older(i2a[j].tag)
    <3>1. SUFFICES ASSUME NEW i \in DOMAIN i2a, NEW j \in DOMAIN i2a, IsReply(i), IsReply(j), i < j
                   PROVE  Older(i2a[i].tag) > Older(i2a[j].tag)
      OBVIOUS
    <3>2. Age(i2a[i].tag) > Age(i2a[j].tag)
      BY <3>1 DEF AgeOK
    <3>3. QED
      BY <1>7, <1>8, <3>1, <3>2
  <2>2. \A i \in DOMAIN i2a, j \in DOMAIN a2i' : IsReply(i) => Older(i2a[i].tag) > Older(a2i'[j].tag)
    <3>1. SUFFICES ASSUME NEW i \in DOMAIN i2a, NEW j \in DOMAIN a2i', IsReply(i)
                   PROVE  Older(i2a[i].tag) > Older(a2i'[j].tag)
      OBVIOUS
    <3>2. CASE j = n
      BY <1>4, <1>8, <1>10, <3>1, <3>2
    <3>3. CASE j \in DOMAIN a2i
      <4>1. Age(i2a[i].tag) > Age(a2i[j].tag) /\ a2i'[j] = a2i[j]
        BY <1>3, <3>1, <3>3 DEF AgeOK
      <4>2. QED
        BY <1>7, <1>8, <3>1, <3>3, <4>1
    <3>4. QED
      BY <1>3, <3>2, <3>3
  <2>3. \A i, j \in DOMAIN a2i' : i < j => Older(a2i'[i].tag) > Older(a2i'[j].tag)
    <3>1. SUFFICES ASSUME NEW i \in DOMAIN a2i', NEW j \in DOMAIN a2i', i < j
                   PROVE  Older(a2i'[i].tag) > Older(a2i'[j].tag)
      OBVIOUS
    <3>2. i \in DOMAIN a2i /\ a2i'[i] = a2i[i]
      BY <1>3, <3>1
    <3>3. CASE j = n
      BY <1>4, <1>8, <1>10, <3>2, <3>3
    <3>4. CASE j \in DOMAIN a2i
      <4>1. Age(a2i[i].tag) > Age(a2i[j].tag) /\ a2i'[j] = a2i[j]
        BY <1>3, <3>1, <3>2, <3>4 DEF AgeOK
      <4>2. QED
        BY <1>7, <1>8, <3>2, <3>4, <4>1
    <3>5. QED
      BY <1>3, <3>3, <3>4
  <2>4. \A s \in Owed' : Older(s) < MayOwe'
    <3>1. MayOwe \in Nat /\ \A s \in Owed : Age(s) < MayOwe
      BY MayOweAt DEF AgeOK
    <3>2. QED
      BY <1>6, <1>7, <1>9, <3>1
  <2>5. last' # 0
    BY <1>2
  <2>6. stops' \in 0 .. MaxStops /\ (Marked' => stops' > 0)
    BY DEF AgeOK
  <2>7. QED
    BY <1>5, <2>1, <2>2, <2>3, <2>4, <2>5, <2>6 DEF AgeOK, IsReply
<1>12. QED
  BY <1>11

LEMMA SentIs ==
  ASSUME SioAssumption, SioInv, NEW k \in {"sync", "issue"}, NEW g,
         NEW p \in Periods, NEW ty \in {"issue", "terminate"},
         SendTagged(k, g, [type |-> ty, tag |-> 0, period |-> p])
  PROVE  \E s \in NextTag :
           /\ s \in Tags /\ tags[s].kind = "free" /\ last' = s
           /\ tags'[s].kind = k /\ tags'[s].result = "none" /\ \A r \in Tags : r # s => tags'[r] = tags[r]
           /\ \E m \in Requests : m.tag = s /\ a2i' = Append(a2i, m)
<1>1. PICK s \in NextTag :
        /\ tags' = [tags EXCEPT ![s] = [kind |-> k, gen |-> g, result |-> "none"]]
        /\ last' = s /\ a2i' = Append(a2i, [[type |-> ty, tag |-> 0, period |-> p] EXCEPT !.tag = s])
  BY DEF SendTagged
<1>2. SioTypes /\ tags \in [Tags -> Entries]
  BY TransferAt DEF SioInv
<1>3. s \in Tags /\ tags[s].kind = "free"
  BY <1>1, <1>2, NextTagIsFree
<1>4. PICK m : m = [[type |-> ty, tag |-> 0, period |-> p] EXCEPT !.tag = s]
  OBVIOUS
<1>5. m \in Requests /\ m.tag = s
  BY <1>3, <1>4 DEF Requests
<1>6. PICK e : e = [kind |-> k, gen |-> g, result |-> "none"]
  OBVIOUS
<1>7. e.kind = k /\ e.result = "none"
  BY <1>6
<1>8. tags' = [tags EXCEPT ![s] = e]
  BY <1>1, <1>6
<1>9. tags'[s] = e /\ \A r \in Tags : r # s => tags'[r] = tags[r]
  BY <1>2, <1>3, <1>8
<1>10. QED
  BY <1>1, <1>3, <1>4, <1>5, <1>7, <1>9

SendStep == StopSend \/ \E t \in SioTasks : IssueSend(t)

LEMMA SendStepIs ==
  ASSUME SioAssumption, SioInv, SendStep
  PROVE  /\ Sending /\ i2a' = i2a /\ stops' = stops /\ (Marked' => Marked)
         /\ \E s \in NextTag :
              /\ s \in Tags /\ tags[s].kind = "free" /\ last' = s
              /\ tags'[s].kind # "free" /\ tags'[s].result = "none"
              /\ \A r \in Tags : r # s => tags'[r] = tags[r]
              /\ \E m \in Requests : m.tag = s /\ a2i' = Append(a2i, m)
         /\ stops \in Nat /\ (Marked => stops > 0) => MayOwe' = MayOwe + 1
<1>1. /\ SioTypes /\ TasksOK /\ pc \in [SioTasks -> Places] /\ SioTasks = {"client", "worker"} /\ 0 \in Periods
      /\ tx.nextIssue \in Periods
  BY TransferAt DEF SioInv, SioAssumption, Periods
<1>2. CASE StopSend
  <2>1. /\ i2a' = i2a /\ stops' = stops /\ pc["client"] = "termSend" /\ pc'["client"] = "termWait"
        /\ SendTagged("sync", 0, [type |-> "terminate", tag |-> 0, period |-> 0])
    BY <1>1, <1>2 DEF StopSend, bounds, inbound, Move
  <2>2. PICK s \in NextTag :
           /\ s \in Tags /\ tags[s].kind = "free" /\ last' = s
           /\ tags'[s].kind = "sync" /\ tags'[s].result = "none" /\ \A r \in Tags : r # s => tags'[r] = tags[r]
           /\ \E m \in Requests : m.tag = s /\ a2i' = Append(a2i, m)
    BY <1>1, <2>1, SentIs
  <2>3. Marked /\ ~Marked' /\ Sending
    BY <2>1 DEF Marked, Sending
  <2>4. Unanswered' <=> Unanswered
    BY <2>2 DEF Unanswered, ForIssue, Tags
  <2>5. stops \in Nat => MayOwe' = MayOwe + 1
    BY <2>1, <2>3, <2>4 DEF MayOwe
  <2>6. QED
    BY <2>1, <2>2, <2>3, <2>5
<1>3. ASSUME NEW t \in SioTasks, IssueSend(t)
      PROVE  /\ Sending /\ i2a' = i2a /\ stops' = stops /\ (Marked' => Marked)
             /\ \E s \in NextTag :
                  /\ s \in Tags /\ tags[s].kind = "free" /\ last' = s
                  /\ tags'[s].kind # "free" /\ tags'[s].result = "none"
                  /\ \A r \in Tags : r # s => tags'[r] = tags[r]
                  /\ \E m \in Requests : m.tag = s /\ a2i' = Append(a2i, m)
             /\ stops \in Nat /\ (Marked => stops > 0) => MayOwe' = MayOwe + 1
  <2>1. /\ i2a' = i2a /\ stops' = stops /\ pc[t] = "issueSend" /\ pc' = [pc EXCEPT ![t] = AfterIssue[t]]
        /\ SendTagged("issue", tx.gen, [type |-> "issue", tag |-> 0, period |-> tx.nextIssue])
    BY <1>3 DEF IssueSend, bounds, inbound, Move
  <2>2. PICK s \in NextTag :
           /\ s \in Tags /\ tags[s].kind = "free" /\ last' = s
           /\ tags'[s].kind = "issue" /\ tags'[s].result = "none" /\ \A r \in Tags : r # s => tags'[r] = tags[r]
           /\ \E m \in Requests : m.tag = s /\ a2i' = Append(a2i, m)
    BY <1>1, <2>1, SentIs
  <2>3. (Marked' <=> Marked) /\ Sending
    <3>1. AfterIssue[t] \in {"idle", "top"}
      BY <1>1 DEF AfterIssue
    <3>2. t = "client" => pc["client"] = "issueSend" /\ pc'["client"] \in {"idle", "top"}
      BY <1>1, <2>1, <3>1
    <3>3. t = "worker" => pc["worker"] = "issueSend" /\ pc'["client"] = pc["client"]
      BY <1>1, <2>1
    <3>4. QED
      BY <1>1, <3>2, <3>3 DEF Marked, Sending
  <2>4. ~Unanswered /\ Unanswered'
    <3>1. \A r \in Tags : ~ForIssue(r)
      BY <1>1, <2>1 DEF TasksOK, OneSender
    <3>2. QED
      BY <2>2, <3>1 DEF Unanswered, ForIssue, Tags
  <2>5. stops \in Nat => MayOwe' = MayOwe + 1
    <3>1. CASE Marked
      BY <2>1, <2>3, <2>4, <3>1 DEF MayOwe
    <3>2. CASE ~Marked
      BY <2>1, <2>3, <2>4, <3>2 DEF MayOwe
    <3>3. QED
      BY <3>1, <3>2
  <2>6. QED
    BY <2>1, <2>2, <2>3, <2>5
<1>4. QED
  BY <1>2, <1>3 DEF SendStep

LEMMA SioNextIs ==
  ASSUME SioNext
  PROVE  \/ QuietStep \/ SendStep \/ FwAccept \/ FwRefuse \/ FwReport
         \/ \E t \in SioTasks : DrainMessage(t)
<1>1. ASSUME NEW t \in SioTasks, Drain(t) PROVE QuietStep \/ DrainMessage(t)
  BY <1>1 DEF Drain, DrainMoves, QuietStep
<1>2. ASSUME NEW t \in SioTasks, Issue(t) PROVE QuietStep \/ SendStep
  BY <1>2 DEF Issue, QuietStep, SendStep
<1>3. CASE StopStep
  BY <1>3 DEF StopStep, QuietStep, SendStep, ClientMoves
<1>4. CASE Firmware \/ FwRefuse
  BY <1>4 DEF Firmware
<1>5. CASE \/ Worker \/ StartCall \/ Start \/ StopCall \/ StopFails \/ TakeCompleted \/ Interrupt
           \/ \E p \in Periods : QueuePeriod(p)
  BY <1>5 DEF QuietStep, ClientMoves
<1>6. QED
  BY <1>1, <1>2, <1>3, <1>4, <1>5 DEF SioNext

LEMMA AgeNextOK ==
  ASSUME SioAssumption, MaxStops < NTags, SioInv, AgeOK, SioNext
  PROVE  overtook' \/ AgeOK'
<1>1. CASE QuietStep
  BY <1>1, QuietStepIs, GivenBackIs, AgeRests DEF SioInv
<1>2. CASE SendStep
  <2>1. /\ Sending /\ i2a' = i2a /\ stops' = stops /\ (Marked' => Marked)
        /\ \E s \in NextTag : last' = s /\ \E m \in Requests : m.tag = s /\ a2i' = Append(a2i, m)
        /\ MayOwe' = MayOwe + 1
    BY <1>2, SendStepIs, MayOweAt DEF AgeOK
  <2>2. NextTag = {Successor} /\ Successor \notin Owed
    BY <2>1, TagsLast
  <2>3. last' = Successor /\ \E m \in Requests : m.tag = Successor /\ a2i' = Append(a2i, m)
    BY <2>1, <2>2
  <2>4. QED
    BY <2>1, <2>2, <2>3, AgeSend
<1>3. ASSUME NEW t \in SioTasks, DrainMessage(t), ~overtook' PROVE AgeOK'
  <2>1. PICK k \in DOMAIN i2a : Reads(k) /\ Process(t, k)
    BY <1>3, MessageRead
  <2>2. k = 1
    BY <1>3, <2>1 DEF Reads
  <2>3. QED
    BY <2>1, <2>2, AgeMessage
<1>4. QED
  BY <1>1, <1>2, <1>3, SioNextIs, AgeAnswer, AgeReport

LEMMA GivenUpNextOK ==
  ASSUME SioAssumption, ~MayTimeout, SioInv, NotGivenUp, SioNext
  PROVE  NotGivenUp'
<1>1. SioTypes /\ MailOK
  BY DEF SioInv
<1>2. Owed \subseteq Tags
  BY <1>1, OwedIs
<1>3. CASE QuietStep
  <2>1. Owed' = Owed
    BY <1>3, QuietStepIs DEF Owed, IsReply
  <2>2. QED
    BY <1>1, <1>2, <1>3, <2>1, QuietStepIs, GivenBackIs DEF NotGivenUp
<1>4. CASE SendStep
  <2>1. PICK s \in NextTag :
              /\ s \in Tags /\ tags[s].kind = "free" /\ last' = s
              /\ tags'[s].kind # "free" /\ tags'[s].result = "none"
              /\ \A r \in Tags : r # s => tags'[r] = tags[r]
              /\ \E m \in Requests : m.tag = s /\ a2i' = Append(a2i, m)
    BY <1>4, SendStepIs
  <2>2. \A r \in Owed' : r \in Owed \/ r = s
    BY <1>4, <2>1, SendStepIs, OwedSend
  <2>3. QED
    BY <1>2, <2>1, <2>2 DEF NotGivenUp
<1>5. CASE FwAccept \/ FwRefuse \/ FwReport
  BY <1>5, AnswerIs, ReportIs DEF NotGivenUp
<1>6. ASSUME NEW t \in SioTasks, DrainMessage(t) PROVE NotGivenUp'
  <2>1. PICK k \in DOMAIN i2a : Reads(k) /\ Process(t, k)
    BY <1>6, MessageRead
  <2>2. /\ \A s \in Tags : tags'[s] = tags[s] \/ (s = i2a[k].tag /\ i2a[k].type # "report")
        /\ Owed' \subseteq Owed /\ (i2a[k].type # "report" => i2a[k].tag \notin Owed')
    BY <2>1, OwedMessage, MessageIs
  <2>3. QED
    BY <1>2, <2>2 DEF NotGivenUp
<1>7. QED
  BY <1>3, <1>4, <1>5, <1>6, SioNextIs

LEMMA OwedInit ==
  ASSUME SioAssumption, SioInit
  PROVE  AgeOK /\ NotGivenUp
<1>1. DOMAIN a2i = {} /\ DOMAIN i2a = {} /\ stops = 0 /\ MaxStops \in Nat /\ ~Marked
  BY DEF SioInit, SioAssumption, Marked
<1>2. Owed = {}
  BY <1>1 DEF Owed
<1>3. stops \in 0 .. MaxStops
  BY <1>1
<1>4. QED
  BY <1>1, <1>2, <1>3 DEF AgeOK, NotGivenUp

LEMMA OwedStutter ==
  ASSUME UNCHANGED sioVars
  PROVE  (AgeOK => AgeOK') /\ (NotGivenUp => NotGivenUp')
<1>1. tags' = tags /\ last' = last /\ a2i' = a2i /\ i2a' = i2a /\ stops' = stops /\ pc' = pc
  BY DEF sioVars, tagVars, mail, inbound, bounds
<1>2. Owed' = Owed /\ MayOwe' = MayOwe /\ (Marked' <=> Marked) /\ \A t : Age(t)' = Age(t)
  BY <1>1 DEF Owed, IsReply, MayOwe, Marked, Unanswered, ForIssue, Tags, Age
<1>3. AgeOK => AgeOK'
  BY <1>1, <1>2 DEF AgeOK, IsReply
<1>4. NotGivenUp => NotGivenUp'
  BY <1>1, <1>2 DEF NotGivenUp
<1>5. QED
  BY <1>3, <1>4

(* A message read before an older one is remembered for good. *)
LEMMA OvertookStays ==
  ASSUME overtook, [SioNext]_sioVars
  PROVE  overtook'
<1>1. ASSUME NEW t \in SioTasks, Drain(t) PROVE overtook'
  BY <1>1 DEF Drain, DrainEnter, DrainLook, DrainNoneQueued, DrainMessage, DrainQueued, DrainFifo, DrainFails, DrainCount,
       DrainClear, DrainRecheck, hist
<1>2. ASSUME NEW t \in SioTasks, Issue(t) PROVE overtook'
  BY <1>2 DEF Issue, IssueMark, IssueSend, IssueSendFails, hist
<1>3. CASE Worker \/ StartCall \/ Start \/ StopCall \/ StopFails
  BY <1>3 DEF Worker, WorkerTop, WorkerWait, WorkerGen, WorkerLock, StartCall, Start, StopCall, StopFails, hist
<1>4. CASE StopStep
  BY <1>4 DEF StopStep, StopMark, StopSend, StopAcked, StopQuiet, StopAgain, StopReset, StopDone, Stopped, hist
<1>5. CASE TakeCompleted \/ \E p \in Periods : QueuePeriod(p)
  BY <1>5 DEF TakeCompleted, QueuePeriod, hist
<1>6. CASE Firmware \/ FwRefuse \/ Interrupt
  BY <1>6 DEF Firmware, FwAccept, FwRefuse, FwReport, Interrupt, IrqDrain, IrqAppend, RxReady, hist
<1>7. CASE UNCHANGED sioVars
  BY <1>7 DEF sioVars, hist
<1>8. QED
  BY <1>1, <1>2, <1>3, <1>4, <1>5, <1>6, <1>7 DEF SioNext

(* Whatever times out, is refused or fails, the books agree as long as the     *)
(* channel is stopped fewer times than there are tags and no message is read   *)
(* before an older one: a tag given up by a TERMINATE that timed out comes     *)
(* round only after all the others, each stop gives up one at most, and        *)
(* answers read in order leave the last tags given as the ones still owed.  An *)
(* answer overtaken keeps its tag owed while later ones are given out again.   *)
THEOREM BooksAgreeForFewStops ==
  ASSUME SioAssumption, MaxStops < NTags
  PROVE  SioSpec => [](overtook \/ BooksAgree)
<1> DEFINE Kept == overtook \/ (SioInv /\ AgeOK)
<1>1. SioInit => Kept
  BY SioInitOK, OwedInit
<1>2. SioInv /\ AgeOK => NoTagComesRound
  BY TagsLast DEF NoTagComesRound
<1>3. Kept /\ [SioNext]_sioVars => Kept'
  <2>1. CASE overtook /\ [SioNext]_sioVars
    BY <2>1, OvertookStays
  <2>2. CASE SioInv /\ AgeOK /\ SioNext
    BY <1>2, <2>2, SioNextOK, AgeNextOK
  <2>3. CASE SioInv /\ AgeOK /\ UNCHANGED sioVars
    BY <2>3, SioStutterOK, OwedStutter
  <2>4. QED
    BY <2>1, <2>2, <2>3
<1>4. Kept => overtook \/ BooksAgree
  BY InvIsEnough
<1> HIDE DEF Kept
<1>5. QED
  BY <1>1, <1>3, <1>4, PTL DEF SioSpec

(* The books agree, however often the channel is stopped and started, as long *)
(* as neither the call nor the wait for the last report times out: a tag is   *)
(* free again only when its answer was read.                                  *)
THEOREM BooksAgreeWithoutTimeouts ==
  ASSUME SioAssumption, ~MayTimeout
  PROVE  SioSpec => []BooksAgree
<1> DEFINE Kept == SioInv /\ NotGivenUp
<1>1. SioInit => Kept
  BY SioInitOK, OwedInit
<1>2. SioInv /\ NotGivenUp => NoTagComesRound
  <2>1. SioInv => \A t \in NextTag : tags[t].kind = "free"
    BY NextTagIsFree DEF SioInv
  <2>2. QED
    BY <2>1 DEF NoTagComesRound, NotGivenUp
<1>3. Kept /\ [SioNext]_sioVars => Kept'
  <2>1. CASE SioNext
    BY <1>2, <2>1, SioNextOK, GivenUpNextOK
  <2>2. CASE UNCHANGED sioVars
    BY <2>2, SioStutterOK, OwedStutter
  <2>3. QED
    BY <2>1, <2>2
<1>4. Kept => BooksAgree
  BY InvIsEnough
<1> HIDE DEF Kept
<1>5. QED
  BY <1>1, <1>3, <1>4, PTL DEF SioSpec

=============================================================================
