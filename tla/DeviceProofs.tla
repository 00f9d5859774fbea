---------------------------- MODULE DeviceProofs -----------------------------
(* Proofs about the buses, the input devices and the DMA of sound: what a       *)
(* transfer over SPI, I2C or the SPI HID protocol returns is its own, a Type-C  *)
(* port is described by one connection, no edge of a pin, report or key is lost *)
(* or made up, and every period of sound is counted once.  For any depth of the *)
(* FIFOs, number of segments, messages, requests, channels, periods and faults. *)
EXTENDS MCDevices, Integers, SequenceTheorems, WellFoundedInduction, TLAPS

------------------------------------------------------------------------------
(* SerialBuses: SPI                                                            *)

(* SPI: in a segment, the bytes queued follow those the device took; what was   *)
(* read and what waits to be read are answers to bytes of this segment, in      *)
(* order and perhaps with gaps, none of them before its place.                  *)
SpiBytes == [t : Nat, s : Nat, i : Nat]
Byte(n, s, i) == [t |-> n, s |-> s, i |-> i]
Ahead(n, s, c, tx) == \A k \in 1 .. Len(tx) : tx[k] = Byte(n, s, c + k)
Answers(n, s, c, taken, rx) ==
  /\ Len(taken) + Len(rx) <= c
  /\ \A k \in 1 .. Len(taken) : /\ taken[k].t = n /\ taken[k].s = s /\ k <= taken[k].i
                              /\ taken[k].i + Len(taken) + Len(rx) <= c + k
  /\ \A k \in 1 .. Len(rx) : /\ rx[k].t = n /\ rx[k].s = s /\ Len(taken) + k <= rx[k].i
                             /\ rx[k].i + Len(rx) <= c + k
(* The device was sent the bytes of one transfer in order. *)
Follows(a, b) == (a.s = b.s /\ b.i = a.i + 1) \/ (b.s = a.s + 1 /\ b.i = 1)
InOrder(n, w) ==
  /\ \A k \in 1 .. Len(w) : w[k].t = n /\ (k > 1 => Follows(w[k - 1], w[k]))
  /\ w # <<>> => w[1].i = 1 /\ w[1].s = 1

SpiTypeOK ==
  /\ selected \in BOOLEAN /\ txf \in Seq(SpiBytes) /\ rxf \in Seq(SpiBytes) /\ wireSeen \in Seq(SpiBytes)
  /\ shifting \in [on : BOOLEAN, left : Nat]
  /\ xfer \in [n : Nat, seg : Nat, lens : Seq(SegmentLens)]
  /\ segRun \in [at : {"none", "drain", "fill", "check"}, written : Nat, got : Seq(SpiBytes)]
  /\ readBack \in [t : Nat, s : Nat, got : Seq(SpiBytes)]
SelectedInv ==
  /\ selected <=> SpiBusy
  /\ SpiBusy => xfer.lens # <<>> /\ xfer.seg > 0
Shifted == segRun.written - Len(txf)
SegmentInv ==
  /\ segRun.at = "none" => segRun = NoRun /\ ~shifting.on
  /\ segRun.at # "none" =>
       /\ SpiBusy /\ SegLen > 0 /\ Len(txf) <= FifoDepth
       /\ Shifted \in Nat /\ segRun.written <= SegLen
       /\ Ahead(xfer.n, xfer.seg, Shifted, txf)
       /\ Answers(xfer.n, xfer.seg, Shifted, segRun.got, rxf)
LastSeen(run, c) ==
  IF run /\ c > 0 THEN wireSeen # <<>> /\ wireSeen[Len(wireSeen)] = Byte(xfer.n, xfer.seg, c)
  ELSE \/ xfer.seg = 1 /\ wireSeen = <<>>
       \/ wireSeen # <<>> /\ wireSeen[Len(wireSeen)].s = xfer.seg - 1
WireInv == InOrder(xfer.n, wireSeen) /\ (SpiBusy => LastSeen(segRun.at # "none", Shifted))
SpiInv == SpiTypeOK /\ SelectedInv /\ SegmentInv /\ WireInv /\ SpiReadIsOwn

LEMMA SpiAheadTail ==
  ASSUME NEW n, NEW s, NEW c \in Nat, NEW tx \in Seq(SpiBytes), tx # <<>>, Ahead(n, s, c, tx)
  PROVE  Ahead(n, s, c + 1, Tail(tx)) /\ Head(tx) = Byte(n, s, c + 1) /\ Len(Tail(tx)) = Len(tx) - 1 /\ Tail(tx) \in Seq(SpiBytes)
<1>1. Len(tx) \in Nat \ {0} /\ Tail(tx) \in Seq(SpiBytes) /\ Len(Tail(tx)) = Len(tx) - 1 /\ Head(tx) = tx[1]
  OBVIOUS
<1>2. \A k \in 1 .. Len(tx) - 1 : Tail(tx)[k] = tx[k + 1] /\ k + 1 \in 1 .. Len(tx) /\ c + (k + 1) = (c + 1) + k
  BY <1>1
<1>3. Ahead(n, s, c + 1, Tail(tx))
  BY <1>1, <1>2 DEF Ahead
<1>4. Head(tx) = Byte(n, s, c + 1)
  BY <1>1 DEF Ahead
<1>5. QED
  BY <1>1, <1>3, <1>4

LEMMA SpiAheadFill ==
  ASSUME NEW n \in Nat, NEW s \in Nat, NEW c \in Nat, NEW tx \in Seq(SpiBytes), Ahead(n, s, c, tx), NEW m \in Nat,
         NEW more \in Seq(SpiBytes), Len(more) = m, \A k \in 1 .. m : more[k] = Byte(n, s, c + Len(tx) + k)
  PROVE  /\ tx \o more \in Seq(SpiBytes) /\ Len(tx \o more) = Len(tx) + m
         /\ Ahead(n, s, c, tx \o more)
<1>2. /\ tx \o more \in Seq(SpiBytes) /\ Len(tx \o more) = Len(tx) + m
      /\ \A k \in 1 .. Len(tx) + m : (tx \o more)[k] = IF k <= Len(tx) THEN tx[k] ELSE more[k - Len(tx)]
  BY ConcatProperties
<1>3. ASSUME NEW k \in 1 .. Len(tx) + m  PROVE (tx \o more)[k] = Byte(n, s, c + k)
  <2>1. CASE k <= Len(tx)
    <3>1. k \in 1 .. Len(tx) /\ (tx \o more)[k] = tx[k]
      BY <1>2, <2>1
    <3>2. QED
      BY <3>1 DEF Ahead
  <2>2. CASE k > Len(tx)
    <3>1. k - Len(tx) \in 1 .. m /\ c + Len(tx) + (k - Len(tx)) = c + k /\ ~(k <= Len(tx))
      BY <2>2
    <3>2. (tx \o more)[k] = more[k - Len(tx)]
      BY <1>2, <3>1
    <3>3. QED
      BY <3>1, <3>2
  <2>3. QED
    BY <2>1, <2>2
<1>4. QED
  BY <1>2, <1>3 DEF Ahead

LEMMA SpiAnswersDrain ==
  ASSUME NEW n, NEW s, NEW c \in Nat, NEW taken \in Seq(SpiBytes), NEW rx \in Seq(SpiBytes), rx # <<>>, Answers(n, s, c, taken, rx)
  PROVE  /\ Answers(n, s, c, Append(taken, Head(rx)), Tail(rx))
         /\ Append(taken, Head(rx)) \in Seq(SpiBytes) /\ Tail(rx) \in Seq(SpiBytes)
<1>1. /\ Len(rx) \in Nat \ {0} /\ Tail(rx) \in Seq(SpiBytes) /\ Len(Tail(rx)) = Len(rx) - 1 /\ Head(rx) = rx[1]
      /\ Head(rx) \in SpiBytes /\ Len(taken) \in Nat
  OBVIOUS
<1>2. \A k \in 1 .. Len(rx) - 1 : Tail(rx)[k] = rx[k + 1] /\ k + 1 \in 1 .. Len(rx)
  BY <1>1
<1>3. PICK g : g = Append(taken, Head(rx))
  OBVIOUS
<1>4. /\ g \in Seq(SpiBytes) /\ Len(g) = Len(taken) + 1 /\ g[Len(taken) + 1] = rx[1]
      /\ \A k \in 1 .. Len(taken) : g[k] = taken[k]
  BY <1>1, <1>3
<1>5. PICK r : r = Tail(rx)
  OBVIOUS
<1>6. /\ Len(r) = Len(rx) - 1 /\ \A k \in 1 .. Len(r) : r[k] = rx[k + 1] /\ k + 1 \in 1 .. Len(rx)
      /\ \A k \in 1 .. Len(rx) : rx[k].i \in Nat /\ \A j \in 1 .. Len(taken) : taken[j].i \in Nat
  <2>1. \A x \in SpiBytes : x.i \in Nat
    BY DEF SpiBytes
  <2>2. \A k \in 1 .. Len(rx) : rx[k] \in SpiBytes
    OBVIOUS
  <2>3. \A j \in 1 .. Len(taken) : taken[j] \in SpiBytes
    OBVIOUS
  <2>4. QED
    BY <1>1, <1>2, <1>5, <2>1, <2>2, <2>3
<1>7. Answers(n, s, c, g, r)
  <2>1. Len(g) + Len(r) = Len(taken) + Len(rx) /\ Len(taken) + Len(rx) <= c
    BY <1>1, <1>4, <1>6 DEF Answers
  <2>2. ASSUME NEW k \in 1 .. Len(g)
        PROVE  g[k].t = n /\ g[k].s = s /\ k <= g[k].i /\ g[k].i + Len(g) + Len(r) <= c + k
    <3>1. CASE k \in 1 .. Len(taken)
      <4>1. taken[k].t = n /\ taken[k].s = s /\ k <= taken[k].i /\ taken[k].i + Len(taken) + Len(rx) <= c + k
        BY <3>1 DEF Answers
      <4>2. QED
        BY ONLY <1>1, <1>4, <1>6, <3>1, <4>1
    <3>2. CASE k = Len(taken) + 1
      <4>1. 1 \in 1 .. Len(rx)
        BY <1>1
      <4>2. rx[1].t = n /\ rx[1].s = s /\ Len(taken) + 1 <= rx[1].i /\ rx[1].i + Len(rx) <= c + 1
        BY <4>1 DEF Answers
      <4>3. rx[1].i \in Nat
        BY <1>6, <4>1
      <4>4. Len(g) = Len(taken) + 1 /\ Len(r) = Len(rx) - 1 /\ Len(taken) \in Nat /\ Len(rx) \in Nat /\ c \in Nat
        BY <1>1, <1>4, <1>6
      <4>5. g[k] = rx[1]
        BY <1>4, <3>2
      <4>6. QED
        BY ONLY <3>2, <4>2, <4>3, <4>4, <4>5
    <3>3. QED
      BY ONLY <1>1, <1>4, <2>2, <3>1, <3>2
  <2>3. ASSUME NEW k \in 1 .. Len(r)
        PROVE  r[k].t = n /\ r[k].s = s /\ Len(g) + k <= r[k].i /\ r[k].i + Len(r) <= c + k
    <3>1. r[k] = rx[k + 1] /\ k + 1 \in 1 .. Len(rx)
      BY <1>6
    <3>2. /\ rx[k + 1].t = n /\ rx[k + 1].s = s /\ Len(taken) + (k + 1) <= rx[k + 1].i
          /\ rx[k + 1].i + Len(rx) <= c + (k + 1)
      BY <3>1 DEF Answers
    <3>3. rx[k + 1].i \in Nat /\ Len(g) = Len(taken) + 1 /\ Len(r) = Len(rx) - 1 /\ Len(taken) \in Nat /\ Len(rx) \in Nat /\ c \in Nat /\ k \in Nat
      BY <1>1, <1>4, <1>6, <3>1
    <3>4. QED
      BY ONLY SMTT(20), <3>1, <3>2, <3>3
  <2>4. QED
    BY <2>1, <2>2, <2>3 DEF Answers
<1>8. QED
  BY <1>1, <1>3, <1>4, <1>5, <1>7

LEMMA SpiAnswersShift ==
  ASSUME NEW n \in Nat, NEW s \in Nat, NEW c \in Nat, NEW taken \in Seq(SpiBytes), NEW rx \in Seq(SpiBytes), Answers(n, s, c, taken, rx)
  PROVE  /\ Answers(n, s, c + 1, taken, rx)
         /\ Answers(n, s, c + 1, taken, Append(rx, Byte(n, s, c + 1)))
         /\ Append(rx, Byte(n, s, c + 1)) \in Seq(SpiBytes)
<1>1. /\ Len(rx) \in Nat /\ Len(taken) \in Nat
      /\ \A k \in 1 .. Len(rx) : rx[k].i \in Nat
      /\ \A j \in 1 .. Len(taken) : taken[j].i \in Nat
  <2>1. \A x \in SpiBytes : x.i \in Nat
    BY DEF SpiBytes
  <2>2. \A k \in 1 .. Len(rx) : rx[k] \in SpiBytes
    OBVIOUS
  <2>3. \A j \in 1 .. Len(taken) : taken[j] \in SpiBytes
    OBVIOUS
  <2>4. QED
    BY <2>1, <2>2, <2>3
<1>2. PICK b : b = Byte(n, s, c + 1)
  OBVIOUS
<1>3. b \in SpiBytes /\ b.t = n /\ b.s = s /\ b.i = c + 1
  BY <1>2 DEF Byte, SpiBytes
<1>4. PICK r : r = Append(rx, b)
  OBVIOUS
<1>5. r \in Seq(SpiBytes) /\ Len(r) = Len(rx) + 1 /\ r[Len(rx) + 1] = b /\ \A k \in 1 .. Len(rx) : r[k] = rx[k]
  BY <1>3, <1>4
<1>6. Answers(n, s, c + 1, taken, rx)
  <2>1. Len(taken) + Len(rx) <= c + 1
    BY <1>1 DEF Answers
  <2>2. ASSUME NEW k \in 1 .. Len(taken)
        PROVE  taken[k].t = n /\ taken[k].s = s /\ k <= taken[k].i /\ taken[k].i + Len(taken) + Len(rx) <= c + 1 + k
    <3>1. taken[k].t = n /\ taken[k].s = s /\ k <= taken[k].i /\ taken[k].i + Len(taken) + Len(rx) <= c + k
      BY DEF Answers
    <3>2. taken[k].i \in Nat /\ k \in Nat /\ Len(rx) \in Nat /\ Len(taken) \in Nat
      BY <1>1
    <3>3. QED
      BY ONLY SMTT(20), <3>1, <3>2, c \in Nat
  <2>3. ASSUME NEW k \in 1 .. Len(rx)
        PROVE  rx[k].t = n /\ rx[k].s = s /\ Len(taken) + k <= rx[k].i /\ rx[k].i + Len(rx) <= c + 1 + k
    <3>1. rx[k].t = n /\ rx[k].s = s /\ Len(taken) + k <= rx[k].i /\ rx[k].i + Len(rx) <= c + k
      BY DEF Answers
    <3>2. rx[k].i \in Nat /\ k \in Nat /\ Len(rx) \in Nat
      BY <1>1
    <3>3. QED
      BY ONLY <3>1, <3>2, c \in Nat
  <2>4. QED
    BY <2>1, <2>2, <2>3 DEF Answers
<1>7. Answers(n, s, c + 1, taken, r)
  <2>1. Len(taken) + Len(r) <= c + 1
    <3>1. Len(taken) + Len(rx) <= c
      BY DEF Answers
    <3>2. QED
      BY ONLY <1>1, <1>5, <3>1, c \in Nat
  <2>2. ASSUME NEW k \in 1 .. Len(taken)
        PROVE  taken[k].t = n /\ taken[k].s = s /\ k <= taken[k].i /\ taken[k].i + Len(taken) + Len(r) <= c + 1 + k
    <3>1. taken[k].t = n /\ taken[k].s = s /\ k <= taken[k].i /\ taken[k].i + Len(taken) + Len(rx) <= c + k
      BY DEF Answers
    <3>2. taken[k].i \in Nat /\ k \in Nat /\ Len(rx) \in Nat /\ Len(taken) \in Nat /\ Len(r) = Len(rx) + 1
      BY <1>1, <1>5
    <3>3. QED
      BY ONLY <3>1, <3>2, c \in Nat
  <2>3. ASSUME NEW k \in 1 .. Len(r)
        PROVE  r[k].t = n /\ r[k].s = s /\ Len(taken) + k <= r[k].i /\ r[k].i + Len(r) <= c + 1 + k
    <3>1. CASE k \in 1 .. Len(rx)
      <4>1. rx[k].t = n /\ rx[k].s = s /\ Len(taken) + k <= rx[k].i /\ rx[k].i + Len(rx) <= c + k
        BY <3>1 DEF Answers
      <4>2. r[k] = rx[k] /\ rx[k].i \in Nat
        BY <1>1, <1>5, <3>1
      <4>3. QED
        BY ONLY SMTT(20), <1>1, <1>5, <3>1, <4>1, <4>2, c \in Nat
    <3>2. CASE k = Len(rx) + 1
      <4>1. Len(taken) + Len(rx) <= c
        BY DEF Answers
      <4>2. r[k] = b
        BY <1>5, <3>2
      <4>3. QED
        BY ONLY <1>1, <1>3, <1>5, <3>2, <4>1, <4>2, c \in Nat
    <3>3. k \in 1 .. Len(rx) \/ k = Len(rx) + 1
      BY <1>1, <1>5
    <3>4. QED
      BY ONLY <3>1, <3>2, <3>3
  <2>4. QED
    BY <2>1, <2>2, <2>3 DEF Answers
<1>8. QED
  BY <1>2, <1>4, <1>5, <1>6, <1>7

(* A finished segment has all its answers, none missing. *)
LEMMA SpiAllAnswered ==
  ASSUME NEW n \in Nat, NEW s \in Nat, NEW c \in Nat, NEW taken \in Seq(SpiBytes), NEW rx \in Seq(SpiBytes),
         Answers(n, s, c, taken, rx), c <= Len(taken)
  PROVE  c = Len(taken) /\ \A k \in 1 .. Len(taken) : taken[k] = Byte(n, s, k)
<1>1. Len(rx) \in Nat /\ Len(taken) \in Nat
  OBVIOUS
<1>2. c = Len(taken)
  BY <1>1 DEF Answers
<1>3. ASSUME NEW k \in 1 .. Len(taken)  PROVE taken[k] = Byte(n, s, k)
  <2>1. taken[k] \in SpiBytes
    OBVIOUS
  <2>2. taken[k].t = n /\ taken[k].s = s /\ k <= taken[k].i /\ taken[k].i + Len(taken) + Len(rx) <= c + k
    BY DEF Answers
  <2>3. taken[k].i \in Nat
    BY <2>1 DEF SpiBytes
  <2>4. taken[k].i = k
    BY <1>1, <1>2, <2>2, <2>3
  <2>5. QED
    BY <2>1, <2>2, <2>4 DEF SpiBytes, Byte
<1>4. QED
  BY <1>2, <1>3

LEMMA SpiWireGrows ==
  ASSUME NEW n, NEW w \in Seq(SpiBytes), InOrder(n, w), NEW b \in SpiBytes, b.t = n,
         \/ w = <<>> /\ b.s = 1 /\ b.i = 1
         \/ w # <<>> /\ Follows(w[Len(w)], b)
  PROVE  InOrder(n, Append(w, b)) /\ Append(w, b) \in Seq(SpiBytes) /\ Append(w, b) # <<>>
         /\ Append(w, b)[Len(Append(w, b))] = b
<1>1. PICK v : v = Append(w, b)
  OBVIOUS
<1>2. /\ v \in Seq(SpiBytes) /\ Len(v) = Len(w) + 1 /\ v[Len(w) + 1] = b /\ v # <<>> /\ Len(w) \in Nat
      /\ \A k \in 1 .. Len(w) : v[k] = w[k]
  BY <1>1
<1>3. ASSUME NEW k \in 1 .. Len(v)  PROVE v[k].t = n /\ (k > 1 => Follows(v[k - 1], v[k]))
  <2>1. CASE k \in 1 .. Len(w)
    <3>1. w[k].t = n /\ (k > 1 => Follows(w[k - 1], w[k]))
      BY <2>1 DEF InOrder
    <3>2. v[k] = w[k] /\ (k > 1 => v[k - 1] = w[k - 1])
      BY <1>2, <2>1
    <3>3. QED
      BY <3>1, <3>2
  <2>2. CASE k = Len(w) + 1
    <3>1. v[k] = b
      BY <1>2, <2>2
    <3>2. ASSUME k > 1  PROVE Follows(v[k - 1], v[k])
      <4>1. w # <<>> /\ k - 1 = Len(w) /\ Len(w) \in 1 .. Len(w)
        BY <1>2, <2>2, <3>2
      <4>2. v[k - 1] = w[Len(w)]
        BY <1>2, <4>1
      <4>3. QED
        BY <3>1, <4>1, <4>2
    <3>3. QED
      BY <3>1, <3>2
  <2>3. QED
    BY <1>2, <2>1, <2>2
<1>4. v[1].i = 1 /\ v[1].s = 1
  <2>1. CASE w = <<>>
    BY <1>2, <2>1
  <2>2. CASE w # <<>>
    <3>1. 1 \in 1 .. Len(w)
      BY <2>2, <1>2
    <3>2. v[1] = w[1]
      BY <1>2, <3>1
    <3>3. QED
      BY <2>2, <3>2 DEF InOrder
  <2>3. QED
    BY <2>1, <2>2
<1>5. QED
  BY <1>1, <1>2, <1>3, <1>4 DEF InOrder

LEMMA SpiFilledIs ==
  ASSUME SpiAssumption, SpiTypeOK, SpiBusy, SelectedInv, NEW tx \in Seq(SpiBytes), NEW c \in Nat,
         Len(tx) <= FifoDepth, c + Len(tx) <= SegLen, Ahead(xfer.n, xfer.seg, c, tx)
  PROVE  LET f == Filled(tx, c + Len(tx)) IN
         /\ f \in Seq(SpiBytes) /\ Len(f) <= FifoDepth /\ Len(tx) <= Len(f) /\ c + Len(f) <= SegLen
         /\ Ahead(xfer.n, xfer.seg, c, f)
<1>1. SegLen \in Nat
  <2>1. xfer.lens \in Seq(SegmentLens) /\ xfer.lens # <<>>
    BY DEF SpiTypeOK, SelectedInv
  <2>2. xfer.lens[1] \in SegmentLens
    BY <2>1
  <2>3. SegLen = xfer.lens[1]
    BY <2>1 DEF SegLen
  <2>4. SegmentLens \subseteq Nat
    BY DEF SpiAssumption
  <2>5. QED
    BY ONLY <2>2, <2>3, <2>4
<1>2. Len(tx) \in Nat /\ FifoDepth \in Nat /\ xfer.n \in Nat /\ xfer.seg \in Nat
  BY DEF SpiAssumption, SpiTypeOK
<1>3. PICK L : L = SegLen
  OBVIOUS
<1>4. PICK m : m = (IF L - (c + Len(tx)) < FifoDepth - Len(tx) THEN L ELSE c + Len(tx) + (FifoDepth - Len(tx))) - (c + Len(tx))
  OBVIOUS
<1>5. L \in Nat /\ c + Len(tx) <= L
  BY <1>1, <1>3
<1>6. m \in Nat /\ m <= FifoDepth - Len(tx) /\ m <= L - (c + Len(tx))
  BY ONLY <1>2, <1>4, <1>5, c \in Nat, Len(tx) <= FifoDepth
<1>7. PICK more : more = [k \in 1 .. m |-> Byte(xfer.n, xfer.seg, c + Len(tx) + k)]
  OBVIOUS
<1>8. Filled(tx, c + Len(tx)) = tx \o more
  <2>1. Filled(tx, c + Len(tx)) = tx \o [k \in 1 .. m |-> SpiByte(c + Len(tx) + k)]
    BY ONLY <1>3, <1>4 DEF Filled, FifoRoom
  <2>2. \A i : SpiByte(i) = Byte(xfer.n, xfer.seg, i)
    BY DEF SpiByte, Byte
  <2>3. QED
    BY ONLY <1>7, <2>1, <2>2
<1>9. /\ tx \o more \in Seq(SpiBytes) /\ Len(tx \o more) = Len(tx) + m
      /\ Ahead(xfer.n, xfer.seg, c, tx \o more)
  <2>1. m \in Nat /\ xfer.n \in Nat /\ xfer.seg \in Nat
    BY ONLY <1>2, <1>6
  <2>2. \A k \in 1 .. m : Byte(xfer.n, xfer.seg, c + Len(tx) + k) \in SpiBytes
    BY <1>2, <2>1 DEF Byte, SpiBytes
  <2>3. more \in Seq(SpiBytes) /\ Len(more) = m /\ \A k \in 1 .. m : more[k] = Byte(xfer.n, xfer.seg, c + Len(tx) + k)
    BY ONLY <1>7, <2>1, <2>2
  <2>4. QED
    BY ONLY <2>1, <2>3, SpiAheadFill, tx \in Seq(SpiBytes), c \in Nat, Ahead(xfer.n, xfer.seg, c, tx)
<1>10. Len(tx) + m <= FifoDepth /\ Len(tx) <= Len(tx) + m /\ c + (Len(tx) + m) <= SegLen
  BY ONLY <1>2, <1>3, <1>5, <1>6, c \in Nat
<1>11. QED
  BY ONLY <1>8, <1>9, <1>10

LEMMA SpiSegLenNat ==
  ASSUME SpiAssumption, SpiTypeOK, SelectedInv, SpiBusy
  PROVE  SegLen \in Nat /\ xfer.lens # <<>> /\ xfer.seg \in Nat \ {0} /\ xfer.n \in Nat /\ xfer.lens \in Seq(SegmentLens)
<1>1. xfer.lens \in Seq(SegmentLens) /\ xfer.lens # <<>> /\ xfer.seg \in Nat \ {0} /\ xfer.n \in Nat
  BY DEF SpiTypeOK, SelectedInv
<1>2. xfer.lens[1] \in SegmentLens
  BY <1>1
<1>3. SegLen = xfer.lens[1]
  BY <1>1 DEF SegLen
<1>4. SegmentLens \subseteq Nat
  BY DEF SpiAssumption
<1>5. QED
  BY ONLY <1>1, <1>2, <1>3, <1>4

(* The transfer ends: between segments, and nothing else moved. *)
LEMMA SpiEnds ==
  ASSUME SpiInv, Deselect, segRun' = NoRun, ~shifting'.on, shifting' \in [on : BOOLEAN, left : Nat],
         txf' \in Seq(SpiBytes), rxf' \in Seq(SpiBytes), wireSeen' = wireSeen,
         readBack' \in [t : Nat, s : Nat, got : Seq(SpiBytes)], SpiReadIsOwn'
  PROVE  SpiInv'
<1>1. xfer' = [n |-> xfer.n, seg |-> 0, lens |-> <<>>] /\ selected' = FALSE
  BY DEF Deselect, NoTransfer
<1>2. xfer.n \in Nat /\ wireSeen \in Seq(SpiBytes)
  BY DEF SpiInv, SpiTypeOK
<1>3. segRun' \in [at : {"none", "drain", "fill", "check"}, written : Nat, got : Seq(SpiBytes)] /\ segRun'.at = "none"
  BY DEF NoRun
<1>4. xfer' \in [n : Nat, seg : Nat, lens : Seq(SegmentLens)] /\ xfer'.n = xfer.n /\ xfer'.seg = 0 /\ xfer'.lens = <<>>
  BY <1>1, <1>2
<1>5. SpiTypeOK'
  BY <1>1, <1>2, <1>3, <1>4 DEF SpiTypeOK
<1>6. ~SpiBusy'
  BY <1>4 DEF SpiBusy
<1>7. SelectedInv' /\ SegmentInv'
  BY <1>1, <1>3, <1>6 DEF SelectedInv, SegmentInv
<1>8. WireInv'
  BY <1>4, <1>6 DEF SpiInv, WireInv
<1>9. QED
  BY <1>5, <1>7, <1>8 DEF SpiInv

LEMMA SpiBeginTransferKeeps ==
  ASSUME SpiAssumption, SpiInv, BeginTransfer
  PROVE  SpiInv'
<1>1. PICK n \in 1 .. MaxSegments : \E lens \in [1 .. n -> SegmentLens] : xfer' = [n |-> xfer.n + 1, seg |-> 1, lens |-> lens]
  BY DEF BeginTransfer
<1>2. PICK lens \in [1 .. n -> SegmentLens] : xfer' = [n |-> xfer.n + 1, seg |-> 1, lens |-> lens]
  BY <1>1
<1>3. n \in Nat \ {0}
  BY DEF SpiAssumption
<1>4. lens \in Seq(SegmentLens) /\ lens # <<>>
  BY <1>3
<1>5. selected' = TRUE /\ wireSeen' = <<>> /\ UNCHANGED <<txf, rxf, shifting, segRun, readBack, stalls>> /\ ~SpiBusy
  BY DEF BeginTransfer
<1>6. xfer.n \in Nat
  BY DEF SpiInv, SpiTypeOK
<1>7. xfer' \in [n : Nat, seg : Nat, lens : Seq(SegmentLens)] /\ xfer'.seg = 1 /\ xfer'.lens # <<>>
  BY <1>2, <1>4, <1>6
<1>8. SpiTypeOK'
  BY <1>5, <1>7 DEF SpiInv, SpiTypeOK
<1>9. SpiBusy' /\ SelectedInv'
  BY <1>5, <1>7 DEF SpiBusy, SelectedInv
<1>10. segRun.at = "none" /\ segRun = NoRun /\ ~shifting.on
  BY <1>5 DEF SpiInv, SegmentInv
<1>11. SegmentInv'
  BY <1>5, <1>10 DEF SegmentInv
<1>12. InOrder(xfer'.n, wireSeen')
  BY <1>5 DEF InOrder
<1>13. WireInv'
  BY <1>5, <1>7, <1>10, <1>12 DEF WireInv, LastSeen
<1>14. SpiReadIsOwn'
  BY <1>5 DEF SpiInv, SpiReadIsOwn
<1>15. QED
  BY <1>8, <1>9, <1>11, <1>13, <1>14 DEF SpiInv

LEMMA SpiRefuseSegmentKeeps ==
  ASSUME SpiInv, RefuseSegment
  PROVE  SpiInv'
<1>1. Deselect /\ segRun = NoRun /\ UNCHANGED <<txf, rxf, shifting, segRun, wireSeen, readBack, stalls>>
  BY DEF RefuseSegment
<1>2. ~shifting.on
  BY <1>1 DEF SpiInv, SegmentInv, NoRun
<1>3. SpiReadIsOwn'
  BY <1>1 DEF SpiInv, SpiReadIsOwn
<1>4. QED
  BY <1>1, <1>2, <1>3, SpiEnds DEF SpiInv, SpiTypeOK

LEMMA SpiBeginSegmentKeeps ==
  ASSUME SpiAssumption, SpiInv, BeginSegment
  PROVE  SpiInv'
<1>1. /\ SpiBusy /\ segRun = NoRun /\ SegLen > 0
      /\ UNCHANGED <<selected, xfer, wireSeen, readBack, stalls>>
      /\ shifting' = [on |-> TRUE, left |-> SegLen]
  BY DEF BeginSegment
<1>2. PICK f : f = Filled(<<>>, 0)
  OBVIOUS
<1>3. txf' = f /\ rxf' = <<>> /\ segRun' = [at |-> "drain", written |-> Len(f) - 0, got |-> <<>>]
  BY <1>2 DEF BeginSegment, ResetFifos
<1>4. SegLen \in Nat /\ xfer.n \in Nat /\ xfer.seg \in Nat
  BY <1>1, SpiSegLenNat DEF SpiInv
<1>5. f \in Seq(SpiBytes) /\ Len(f) <= FifoDepth /\ 0 + Len(f) <= SegLen /\ Ahead(xfer.n, xfer.seg, 0, f)
  <2>1. Ahead(xfer.n, xfer.seg, 0, <<>>)
    BY DEF Ahead
  <2>2. Len(<<>>) = 0 /\ <<>> \in Seq(SpiBytes) /\ 0 <= FifoDepth
    BY DEF SpiAssumption
  <2>3. SpiTypeOK /\ SelectedInv
    BY DEF SpiInv
  <2>4. 0 + Len(<<>>) = 0 /\ 0 + Len(<<>>) <= SegLen
    BY <1>4
  <2>5. Filled(<<>>, 0 + Len(<<>>)) = f
    BY ONLY <1>2, <2>4
  <2>6. QED
    BY <1>1, <2>1, <2>2, <2>3, <2>4, <2>5, SpiFilledIs
<1>6. Len(f) \in Nat /\ Len(f) - 0 = Len(f) /\ Len(f) - Len(f) = 0 /\ Len(f) <= SegLen
  BY <1>4, <1>5
<1>7. /\ segRun'.at = "drain" /\ segRun'.written = Len(f) /\ segRun'.got = <<>>
      /\ segRun' \in [at : {"none", "drain", "fill", "check"}, written : Nat, got : Seq(SpiBytes)]
  BY <1>3, <1>6
<1>8. SpiTypeOK'
  BY <1>1, <1>3, <1>4, <1>5, <1>7 DEF SpiInv, SpiTypeOK
<1>9. SelectedInv' /\ SpiBusy' /\ SegLen' = SegLen
  BY <1>1 DEF SpiInv, SelectedInv, SpiBusy, SegLen
<1>10. Shifted' = 0
  BY <1>3, <1>6, <1>7 DEF Shifted
<1>11. Answers(xfer.n, xfer.seg, 0, <<>>, <<>>)
  BY DEF Answers
<1>12. SegmentInv'
  BY <1>1, <1>3, <1>5, <1>6, <1>7, <1>9, <1>10, <1>11 DEF SegmentInv
<1>13. WireInv'
  <2>1. segRun.at = "none"
    BY <1>1 DEF NoRun
  <2>2. WireInv
    BY DEF SpiInv
  <2>3. QED
    BY <1>1, <1>10, <2>1, <2>2 DEF WireInv, LastSeen
<1>14. SpiReadIsOwn'
  BY <1>1 DEF SpiInv, SpiReadIsOwn
<1>15. QED
  BY <1>8, <1>9, <1>12, <1>13, <1>14 DEF SpiInv

(* What a running segment says, as far as the steps below need it. *)
LEMMA SpiRunning ==
  ASSUME SpiAssumption, SpiInv, segRun.at # "none"
  PROVE  /\ SpiBusy /\ Len(txf) <= FifoDepth /\ Shifted \in Nat /\ segRun.written <= SegLen
         /\ Ahead(xfer.n, xfer.seg, Shifted, txf) /\ Answers(xfer.n, xfer.seg, Shifted, segRun.got, rxf)
         /\ SegLen \in Nat /\ xfer.n \in Nat /\ xfer.seg \in Nat \ {0} /\ Len(txf) \in Nat /\ segRun.written \in Nat
         /\ txf \in Seq(SpiBytes) /\ rxf \in Seq(SpiBytes) /\ segRun.got \in Seq(SpiBytes)
         /\ segRun.written = Shifted + Len(txf)
<1>1. SpiTypeOK /\ SelectedInv /\ SegmentInv
  BY DEF SpiInv
<1>2. /\ SpiBusy /\ Len(txf) <= FifoDepth /\ Shifted \in Nat /\ segRun.written <= SegLen
      /\ Ahead(xfer.n, xfer.seg, Shifted, txf) /\ Answers(xfer.n, xfer.seg, Shifted, segRun.got, rxf)
  BY <1>1 DEF SegmentInv
<1>3. /\ txf \in Seq(SpiBytes) /\ rxf \in Seq(SpiBytes) /\ segRun.got \in Seq(SpiBytes) /\ segRun.written \in Nat
      /\ Len(txf) \in Nat
  BY <1>1 DEF SpiTypeOK
<1>4. segRun.written = Shifted + Len(txf)
  BY <1>3 DEF Shifted
<1>5. QED
  BY <1>1, <1>2, <1>3, <1>4, SpiSegLenNat

(* The step stays within its segment and does not touch the wire. *)
LEMMA SpiWithin ==
  ASSUME SpiInv, segRun.at # "none", segRun'.at # "none", UNCHANGED <<selected, xfer, wireSeen, readBack>>, SpiTypeOK',
         Shifted' = Shifted, Len(txf') <= FifoDepth, segRun'.written <= SegLen,
         Ahead(xfer.n, xfer.seg, Shifted, txf'), Answers(xfer.n, xfer.seg, Shifted, segRun'.got, rxf')
  PROVE  SpiInv'
<1>1. SelectedInv' /\ (SpiBusy' <=> SpiBusy) /\ SegLen' = SegLen
  BY DEF SpiInv, SelectedInv, SpiBusy, SegLen
<1>2. SegmentInv'
  BY <1>1 DEF SpiInv, SegmentInv
<1>3. WireInv'
  BY <1>1 DEF SpiInv, WireInv, LastSeen
<1>4. SpiReadIsOwn'
  BY DEF SpiInv, SpiReadIsOwn
<1>5. QED
  BY <1>1, <1>2, <1>3, <1>4 DEF SpiInv

LEMMA SpiDrainRxKeeps ==
  ASSUME SpiAssumption, SpiInv, DrainRx
  PROVE  SpiInv'
<1>1. segRun.at = "drain" /\ UNCHANGED <<selected, txf, shifting, xfer, wireSeen, readBack, stalls>>
  BY DEF DrainRx
<1>2. segRun \in [at : {"none", "drain", "fill", "check"}, written : Nat, got : Seq(SpiBytes)]
  BY DEF SpiInv, SpiTypeOK
<1>3. /\ segRun.at # "none" /\ Len(txf) <= FifoDepth /\ segRun.written <= SegLen /\ Shifted \in Nat
      /\ Ahead(xfer.n, xfer.seg, Shifted, txf) /\ Answers(xfer.n, xfer.seg, Shifted, segRun.got, rxf)
      /\ rxf \in Seq(SpiBytes) /\ segRun.got \in Seq(SpiBytes)
  BY <1>1, SpiRunning
<1>4. CASE rxf # <<>> /\ Len(segRun.got) < SegLen
  <2>1. rxf' = Tail(rxf) /\ segRun' = [segRun EXCEPT !.got = Append(segRun.got, Head(rxf))]
    BY <1>4 DEF DrainRx
  <2>2. /\ Answers(xfer.n, xfer.seg, Shifted, Append(segRun.got, Head(rxf)), Tail(rxf))
        /\ Append(segRun.got, Head(rxf)) \in Seq(SpiBytes) /\ Tail(rxf) \in Seq(SpiBytes)
    BY <1>3, <1>4, SpiAnswersDrain
  <2>3. PICK g : g = Append(segRun.got, Head(rxf))
    OBVIOUS
  <2>4. /\ segRun'.at = "drain" /\ segRun'.written = segRun.written /\ segRun'.got = g
        /\ segRun' \in [at : {"none", "drain", "fill", "check"}, written : Nat, got : Seq(SpiBytes)]
    BY <1>1, <1>2, <2>1, <2>2, <2>3
  <2>5. Shifted' = Shifted
    BY <1>1, <2>4 DEF Shifted
  <2>6. SpiTypeOK'
    BY <1>1, <2>1, <2>2, <2>4 DEF SpiInv, SpiTypeOK
  <2>7. QED
    BY <1>1, <1>3, <2>1, <2>2, <2>3, <2>4, <2>5, <2>6, SpiWithin
<1>5. CASE ~(rxf # <<>> /\ Len(segRun.got) < SegLen)
  <2>1. rxf' = rxf /\ segRun' = [segRun EXCEPT !.at = "fill"]
    BY <1>5 DEF DrainRx
  <2>2. /\ segRun'.at = "fill" /\ segRun'.written = segRun.written /\ segRun'.got = segRun.got
        /\ segRun' \in [at : {"none", "drain", "fill", "check"}, written : Nat, got : Seq(SpiBytes)]
    BY <1>2, <2>1
  <2>3. Shifted' = Shifted
    BY <1>1, <2>2 DEF Shifted
  <2>4. SpiTypeOK'
    BY <1>1, <2>1, <2>2 DEF SpiInv, SpiTypeOK
  <2>5. QED
    BY <1>1, <1>3, <2>1, <2>2, <2>3, <2>4, SpiWithin
<1>6. QED
  BY <1>4, <1>5

LEMMA SpiFillTxKeeps ==
  ASSUME SpiAssumption, SpiInv, FillTx
  PROVE  SpiInv'
<1>1. segRun.at = "fill" /\ UNCHANGED <<selected, rxf, shifting, xfer, wireSeen, readBack, stalls>>
  BY DEF FillTx
<1>2. segRun \in [at : {"none", "drain", "fill", "check"}, written : Nat, got : Seq(SpiBytes)]
  BY DEF SpiInv, SpiTypeOK
<1>3. /\ segRun.at # "none" /\ Len(txf) <= FifoDepth /\ segRun.written <= SegLen /\ Shifted \in Nat /\ SpiBusy
      /\ Ahead(xfer.n, xfer.seg, Shifted, txf) /\ Answers(xfer.n, xfer.seg, Shifted, segRun.got, rxf)
      /\ txf \in Seq(SpiBytes) /\ Len(txf) \in Nat /\ segRun.written = Shifted + Len(txf) /\ SegLen \in Nat
  BY <1>1, SpiRunning
<1>4. PICK f : f = Filled(txf, segRun.written)
  OBVIOUS
<1>5. txf' = f /\ segRun' = [segRun EXCEPT !.at = "check", !.written = segRun.written + Len(f) - Len(txf)]
  BY <1>4 DEF FillTx
<1>6. /\ f \in Seq(SpiBytes) /\ Len(f) <= FifoDepth /\ Len(txf) <= Len(f) /\ Shifted + Len(f) <= SegLen
      /\ Ahead(xfer.n, xfer.seg, Shifted, f)
  <2>1. SpiTypeOK /\ SelectedInv
    BY DEF SpiInv
  <2>2. PICK c : c = Shifted
    OBVIOUS
  <2>3. c \in Nat /\ c + Len(txf) <= SegLen /\ Ahead(xfer.n, xfer.seg, c, txf) /\ f = Filled(txf, c + Len(txf))
    BY ONLY <1>3, <1>4, <2>2
  <2>4. /\ f \in Seq(SpiBytes) /\ Len(f) <= FifoDepth /\ Len(txf) <= Len(f) /\ c + Len(f) <= SegLen
        /\ Ahead(xfer.n, xfer.seg, c, f)
    BY <1>3, <2>1, <2>3, SpiFilledIs
  <2>5. QED
    BY ONLY <2>2, <2>4
<1>7. Len(f) \in Nat
  BY <1>6
<1>8. segRun.written + Len(f) - Len(txf) = Shifted + Len(f) /\ Shifted + Len(f) \in Nat
  BY ONLY <1>3, <1>7
<1>9. /\ segRun'.at = "check" /\ segRun'.written = Shifted + Len(f) /\ segRun'.got = segRun.got
      /\ segRun' \in [at : {"none", "drain", "fill", "check"}, written : Nat, got : Seq(SpiBytes)]
  BY <1>2, <1>5, <1>8
<1>10. Shifted' = Shifted
  <2>1. Shifted' = segRun'.written - Len(txf')
    BY DEF Shifted
  <2>2. QED
    BY ONLY <1>3, <1>5, <1>7, <1>9, <2>1
<1>11. SpiTypeOK'
  BY <1>1, <1>5, <1>6, <1>9 DEF SpiInv, SpiTypeOK
<1>12. segRun'.at # "none" /\ Len(txf') <= FifoDepth /\ segRun'.written <= SegLen
       /\ Ahead(xfer.n, xfer.seg, Shifted, txf') /\ Answers(xfer.n, xfer.seg, Shifted, segRun'.got, rxf')
  BY <1>1, <1>3, <1>5, <1>6, <1>9
<1>13. QED
  BY ONLY SpiInv, <1>1, <1>3, <1>10, <1>11, <1>12, SpiWithin

LEMMA SpiCheckAgainKeeps ==
  ASSUME SpiAssumption, SpiInv, CheckAgain
  PROVE  SpiInv'
<1>1. /\ segRun.at = "check" /\ segRun' = [segRun EXCEPT !.at = "drain"]
      /\ UNCHANGED <<selected, txf, rxf, shifting, xfer, wireSeen, readBack, stalls>>
  BY DEF CheckAgain
<1>2. segRun \in [at : {"none", "drain", "fill", "check"}, written : Nat, got : Seq(SpiBytes)]
  BY DEF SpiInv, SpiTypeOK
<1>3. /\ segRun.at # "none" /\ Len(txf) <= FifoDepth /\ segRun.written <= SegLen
      /\ Ahead(xfer.n, xfer.seg, Shifted, txf) /\ Answers(xfer.n, xfer.seg, Shifted, segRun.got, rxf)
  BY <1>1, SpiRunning
<1>4. /\ segRun'.at = "drain" /\ segRun'.written = segRun.written /\ segRun'.got = segRun.got
      /\ segRun' \in [at : {"none", "drain", "fill", "check"}, written : Nat, got : Seq(SpiBytes)]
  BY <1>1, <1>2
<1>5. Shifted' = Shifted
  BY <1>1, <1>4 DEF Shifted
<1>6. SpiTypeOK'
  BY <1>1, <1>4 DEF SpiInv, SpiTypeOK
<1>7. QED
  BY <1>1, <1>3, <1>4, <1>5, <1>6, SpiWithin

LEMMA SpiSegmentTimesOutKeeps ==
  ASSUME SpiInv, SegmentTimesOut
  PROVE  SpiInv'
<1>1. /\ shifting' = NotRunning /\ segRun' = NoRun /\ Deselect /\ UNCHANGED <<txf, rxf, wireSeen, readBack>>
  BY DEF SegmentTimesOut
<1>2. ~shifting'.on /\ shifting' \in [on : BOOLEAN, left : Nat]
  BY <1>1 DEF NotRunning
<1>3. SpiReadIsOwn'
  BY <1>1 DEF SpiInv, SpiReadIsOwn
<1>4. QED
  BY <1>1, <1>2, <1>3, SpiEnds DEF SpiInv, SpiTypeOK

LEMMA SpiSegmentDoneKeeps ==
  ASSUME SpiAssumption, SpiInv, SegmentDone
  PROVE  SpiInv'
<1>1. /\ segRun.at = "check" /\ segRun.written = SegLen /\ Len(segRun.got) = SegLen
      /\ shifting' = NotRunning /\ readBack' = [t |-> xfer.n, s |-> xfer.seg, got |-> segRun.got] /\ segRun' = NoRun
      /\ NextSegment /\ UNCHANGED <<txf, rxf, wireSeen, stalls>>
  BY DEF SegmentDone
<1>2. PICK c : c = Shifted
  OBVIOUS
<1>3. /\ SpiBusy /\ c \in Nat /\ Answers(xfer.n, xfer.seg, c, segRun.got, rxf) /\ segRun.at # "none"
      /\ SegLen \in Nat /\ xfer.n \in Nat /\ xfer.seg \in Nat \ {0} /\ segRun.written = c + Len(txf)
      /\ rxf \in Seq(SpiBytes) /\ segRun.got \in Seq(SpiBytes) /\ Len(txf) \in Nat
  BY <1>1, <1>2, SpiRunning
<1>4. c = Len(segRun.got) /\ \A k \in 1 .. Len(segRun.got) : segRun.got[k] = Byte(xfer.n, xfer.seg, k)
  <2>1. c <= Len(segRun.got)
    BY ONLY <1>1, <1>3
  <2>2. xfer.seg \in Nat
    BY ONLY <1>3
  <2>3. QED
    BY ONLY SMTT(20), <1>3, <2>1, <2>2, SpiAllAnswered
<1>5. readBack'.t = xfer.n /\ readBack'.s = xfer.seg /\ readBack'.got = segRun.got
      /\ readBack' \in [t : Nat, s : Nat, got : Seq(SpiBytes)]
  BY <1>1, <1>3
<1>6. SpiReadIsOwn'
  <2>1. DOMAIN segRun.got = 1 .. Len(segRun.got)
    BY <1>3
  <2>2. QED
    BY <1>4, <1>5, <2>1 DEF SpiReadIsOwn, Byte
<1>7. ~shifting'.on /\ shifting' \in [on : BOOLEAN, left : Nat]
  BY <1>1 DEF NotRunning
<1>8. CASE Len(xfer.lens) = 1
  <2>1. Deselect
    BY <1>1, <1>8 DEF NextSegment, Deselect
  <2>2. QED
    BY <1>1, <1>5, <1>6, <1>7, <2>1, SpiEnds DEF SpiInv, SpiTypeOK
<1>9. CASE Len(xfer.lens) # 1
  <2>1. xfer' = [xfer EXCEPT !.seg = xfer.seg + 1, !.lens = Tail(xfer.lens)] /\ selected' = selected
    BY <1>1, <1>9 DEF NextSegment
  <2>2. xfer \in [n : Nat, seg : Nat, lens : Seq(SegmentLens)] /\ xfer.lens # <<>>
    BY <1>3 DEF SpiInv, SpiTypeOK, SelectedInv
  <2>3. Tail(xfer.lens) \in Seq(SegmentLens) /\ Tail(xfer.lens) # <<>>
    <3>1. xfer.lens \in Seq(SegmentLens) /\ xfer.lens # <<>>
      BY <2>2
    <3>2. Len(xfer.lens) \in Nat \ {0}
      BY <3>1
    <3>3. Tail(xfer.lens) \in Seq(SegmentLens) /\ Len(Tail(xfer.lens)) = Len(xfer.lens) - 1
      BY <3>1
    <3>4. PICK r : r = Tail(xfer.lens)
      OBVIOUS
    <3>5. r \in Seq(SegmentLens) /\ Len(r) # 0
      BY ONLY <1>9, <3>2, <3>3, <3>4
    <3>6. r # <<>>
      BY ONLY <3>5
    <3>7. QED
      BY ONLY <3>4, <3>5, <3>6
  <2>4. /\ xfer'.n = xfer.n /\ xfer'.seg = xfer.seg + 1 /\ xfer'.lens # <<>>
        /\ xfer' \in [n : Nat, seg : Nat, lens : Seq(SegmentLens)]
    <3>1. PICK r : r = Tail(xfer.lens)
      OBVIOUS
    <3>2. r \in Seq(SegmentLens) /\ r # <<>> /\ xfer' = [xfer EXCEPT !.seg = xfer.seg + 1, !.lens = r]
      BY ONLY <2>1, <2>3, <3>1
    <3>3. xfer.seg + 1 \in Nat
      BY ONLY <1>3
    <3>4. QED
      BY ONLY <2>2, <3>2, <3>3
  <2>5. segRun' \in [at : {"none", "drain", "fill", "check"}, written : Nat, got : Seq(SpiBytes)] /\ segRun'.at = "none"
    BY <1>1 DEF NoRun
  <2>6. SpiTypeOK'
    <3>1. selected \in BOOLEAN /\ txf \in Seq(SpiBytes) /\ rxf \in Seq(SpiBytes) /\ wireSeen \in Seq(SpiBytes)
      BY DEF SpiInv, SpiTypeOK
    <3>2. txf' = txf /\ rxf' = rxf /\ wireSeen' = wireSeen
      BY <1>1
    <3>3. selected' \in BOOLEAN
      BY ONLY <2>1, <3>1
    <3>4. txf' \in Seq(SpiBytes) /\ rxf' \in Seq(SpiBytes) /\ wireSeen' \in Seq(SpiBytes)
      BY ONLY <3>1, <3>2
    <3>5. QED
      BY <1>5, <1>7, <2>4, <2>5, <3>3, <3>4, Zenon DEF SpiTypeOK
  <2>7. SpiBusy' /\ SelectedInv'
    <3>1. SpiBusy'
      BY <2>4 DEF SpiBusy
    <3>2. selected
      BY <1>3 DEF SpiInv, SelectedInv
    <3>3. xfer'.seg > 0
      BY ONLY <1>3, <2>4
    <3>4. QED
      BY <2>1, <2>4, <3>1, <3>2, <3>3 DEF SelectedInv
  <2>8. SegmentInv'
    BY <1>1, <1>7, <2>5 DEF SegmentInv
  <2>9. wireSeen # <<>> /\ wireSeen[Len(wireSeen)].s = xfer.seg
    <3>1. SegLen > 0
      BY <1>3 DEF SpiInv, SegmentInv
    <3>2. c > 0
      BY ONLY <1>1, <1>4, <1>3, <3>1
    <3>3. WireInv
      BY DEF SpiInv
    <3>4. LastSeen(TRUE, c)
      BY <1>2, <1>3, <3>3 DEF WireInv
    <3>5. QED
      BY <3>2, <3>4 DEF LastSeen, Byte
  <2>10. xfer.seg = xfer'.seg - 1 /\ InOrder(xfer'.n, wireSeen')
    BY <1>1, <1>3, <2>4 DEF SpiInv, WireInv
  <2>11. WireInv'
    BY <1>1, <2>5, <2>9, <2>10 DEF WireInv, LastSeen
  <2>12. QED
    BY <1>6, <2>6, <2>7, <2>8, <2>11 DEF SpiInv
<1>10. QED
  BY <1>8, <1>9

LEMMA SpiShiftByteKeeps ==
  ASSUME SpiAssumption, SpiInv, ShiftByte
  PROVE  SpiInv'
<1>1. /\ shifting.on /\ shifting.left > 0 /\ txf # <<>> /\ txf' = Tail(txf) /\ wireSeen' = Append(wireSeen, Head(txf))
      /\ rxf' = (IF FifoRoom(rxf) > 0 THEN Append(rxf, Head(txf)) ELSE rxf)
      /\ shifting' = [shifting EXCEPT !.left = shifting.left - 1]
      /\ UNCHANGED <<selected, xfer, segRun, readBack, stalls>>
  BY DEF ShiftByte
<1>2. segRun.at # "none" /\ wireSeen \in Seq(SpiBytes) /\ shifting \in [on : BOOLEAN, left : Nat]
  BY <1>1 DEF SpiInv, SegmentInv, SpiTypeOK
<1>3. PICK c : c = Shifted
  OBVIOUS
<1>4. /\ SpiBusy /\ c \in Nat /\ Ahead(xfer.n, xfer.seg, c, txf) /\ Answers(xfer.n, xfer.seg, c, segRun.got, rxf)
      /\ xfer.n \in Nat /\ xfer.seg \in Nat \ {0} /\ Len(txf) \in Nat /\ segRun.written \in Nat
      /\ txf \in Seq(SpiBytes) /\ rxf \in Seq(SpiBytes) /\ segRun.got \in Seq(SpiBytes)
      /\ segRun.written = c + Len(txf) /\ Len(txf) <= FifoDepth /\ segRun.written <= SegLen
  BY <1>2, <1>3, SpiRunning
<1>5. PICK b : b = Byte(xfer.n, xfer.seg, c + 1)
  OBVIOUS
<1>6. b \in SpiBytes /\ b.t = xfer.n /\ b.s = xfer.seg /\ b.i = c + 1
  BY SMTT(20), <1>4, <1>5 DEF Byte, SpiBytes
<1>7. PICK x : x = Tail(txf)
  OBVIOUS
<1>8. Ahead(xfer.n, xfer.seg, c + 1, x) /\ Head(txf) = b /\ Len(x) = Len(txf) - 1 /\ x \in Seq(SpiBytes)
  BY <1>1, <1>4, <1>5, <1>7, SpiAheadTail
<1>9. Answers(xfer.n, xfer.seg, c + 1, segRun.got, rxf') /\ rxf' \in Seq(SpiBytes)
  <2>1. xfer.seg \in Nat
    BY ONLY <1>4
  <2>2. /\ Answers(xfer.n, xfer.seg, c + 1, segRun.got, rxf)
        /\ Answers(xfer.n, xfer.seg, c + 1, segRun.got, Append(rxf, b))
        /\ Append(rxf, b) \in Seq(SpiBytes)
    BY ONLY <1>4, <1>5, <2>1, SpiAnswersShift
  <2>3. rxf' = Append(rxf, b) \/ rxf' = rxf
    BY ONLY <1>1, <1>8
  <2>4. QED
    BY ONLY <1>4, <2>2, <2>3
<1>10. Shifted' = c + 1
  <2>1. Shifted' = segRun'.written - Len(txf')
    BY DEF Shifted
  <2>2. QED
    BY ONLY <1>1, <1>4, <1>7, <1>8, <2>1
<1>11. WireInv /\ LastSeen(TRUE, c)
  BY <1>2, <1>3, <1>4 DEF SpiInv, WireInv
<1>12. \/ wireSeen = <<>> /\ b.s = 1 /\ b.i = 1
       \/ wireSeen # <<>> /\ Follows(wireSeen[Len(wireSeen)], b)
  <2>1. CASE c > 0
    <3>1. wireSeen # <<>> /\ wireSeen[Len(wireSeen)] = Byte(xfer.n, xfer.seg, c)
      BY <1>11, <2>1 DEF LastSeen
    <3>2. QED
      BY <1>6, <3>1 DEF Byte, Follows
  <2>2. CASE c = 0
    <3>1. \/ xfer.seg = 1 /\ wireSeen = <<>>
          \/ wireSeen # <<>> /\ wireSeen[Len(wireSeen)].s = xfer.seg - 1
      BY <1>11, <2>2 DEF LastSeen
    <3>2. CASE xfer.seg = 1 /\ wireSeen = <<>>
      BY ONLY <1>6, <2>2, <3>2
    <3>3. CASE wireSeen # <<>> /\ wireSeen[Len(wireSeen)].s = xfer.seg - 1
      <4>1. b.i = 1 /\ b.s = wireSeen[Len(wireSeen)].s + 1
        BY ONLY <1>4, <1>6, <2>2, <3>3
      <4>2. QED
        BY <3>3, <4>1 DEF Follows
    <3>4. QED
      BY <3>1, <3>2, <3>3
  <2>3. QED
    BY <1>4, <2>1, <2>2
<1>13. PICK w : w = Append(wireSeen, b)
  OBVIOUS
<1>14. InOrder(xfer.n, w) /\ w \in Seq(SpiBytes) /\ w # <<>> /\ w[Len(w)] = b
  <2>1. InOrder(xfer.n, wireSeen)
    BY <1>11 DEF WireInv
  <2>2. QED
    BY ONLY <1>2, <1>6, <1>12, <1>13, <2>1, SpiWireGrows
<1>15. wireSeen' = w /\ txf' = x
  BY ONLY <1>1, <1>7, <1>8, <1>13
<1>16. shifting' \in [on : BOOLEAN, left : Nat]
  <2>1. PICK r : r = shifting.left - 1
    OBVIOUS
  <2>2. shifting.left \in Nat /\ shifting.left > 0
    BY <1>1, <1>2
  <2>3. r \in Nat
    BY ONLY <2>1, <2>2
  <2>4. shifting' = [shifting EXCEPT !.left = r]
    BY ONLY <1>1, <2>1
  <2>5. QED
    BY ONLY <1>2, <2>3, <2>4
<1>17. SpiTypeOK'
  <2>1. SpiTypeOK
    BY DEF SpiInv
  <2>2. QED
    BY <1>1, <1>8, <1>9, <1>14, <1>15, <1>16, <2>1 DEF SpiTypeOK
<1>18. SelectedInv' /\ (SpiBusy' <=> SpiBusy) /\ SegLen' = SegLen
  BY <1>1 DEF SpiInv, SelectedInv, SpiBusy, SegLen
<1>19. SegmentInv'
  <2>1. Len(txf') <= FifoDepth
    <3>1. FifoDepth \in Nat
      BY DEF SpiAssumption
    <3>2. QED
      BY ONLY <1>4, <1>8, <1>15, <3>1
  <2>2. SegLen > 0
    BY <1>2 DEF SpiInv, SegmentInv
  <2>3. c + 1 \in Nat
    BY ONLY <1>4
  <2>4. QED
    BY <1>1, <1>2, <1>4, <1>8, <1>9, <1>10, <1>15, <1>18, <2>1, <2>2, <2>3 DEF SegmentInv
<1>20. WireInv'
  <2>1. c + 1 > 0
    BY <1>4
  <2>2. QED
    BY <1>1, <1>2, <1>5, <1>10, <1>14, <1>15, <2>1 DEF WireInv, LastSeen
<1>21. SpiReadIsOwn'
  BY <1>1 DEF SpiInv, SpiReadIsOwn
<1>22. QED
  BY <1>17, <1>18, <1>19, <1>20, <1>21 DEF SpiInv

LEMMA SpiInitHolds ==
  ASSUME SpiInit
  PROVE  SpiInv
<1>1. /\ selected = FALSE /\ txf = <<>> /\ rxf = <<>> /\ shifting = [on |-> FALSE, left |-> 0]
      /\ xfer = [n |-> 0, seg |-> 0, lens |-> <<>>] /\ segRun = [at |-> "none", written |-> 0, got |-> <<>>]
      /\ wireSeen = <<>> /\ readBack = [t |-> 0, s |-> 0, got |-> <<>>]
  BY DEF SpiInit, NotRunning, NoTransfer, NoRun, NoRead
<1>2. SpiTypeOK
  <2>1. txf \in Seq(SpiBytes) /\ rxf \in Seq(SpiBytes) /\ wireSeen \in Seq(SpiBytes)
    BY <1>1
  <2>0. selected \in BOOLEAN
    BY <1>1, Zenon
  <2>2. shifting \in [on : BOOLEAN, left : Nat] /\ xfer \in [n : Nat, seg : Nat, lens : Seq(SegmentLens)]
    BY <1>1
  <2>3. segRun \in [at : {"none", "drain", "fill", "check"}, written : Nat, got : Seq(SpiBytes)]
    BY <1>1
  <2>4. readBack \in [t : Nat, s : Nat, got : Seq(SpiBytes)]
    BY <1>1
  <2>5. QED
    BY <2>0, <2>1, <2>2, <2>3, <2>4 DEF SpiTypeOK
<1>3. ~SpiBusy
  BY <1>1 DEF SpiBusy
<1>4. SelectedInv /\ SegmentInv
  BY <1>1, <1>3 DEF SelectedInv, SegmentInv, NoRun
<1>5. WireInv
  BY <1>1, <1>3 DEF WireInv, InOrder
<1>6. SpiReadIsOwn
  BY <1>1 DEF SpiReadIsOwn
<1>7. QED
  BY <1>2, <1>4, <1>5, <1>6 DEF SpiInv

LEMMA SpiStepHolds ==
  ASSUME SpiAssumption, SpiInv, [SpiNext]_spiVars
  PROVE  SpiInv'
<1>1. CASE UNCHANGED spiVars
  BY <1>1 DEF spiVars, SpiInv, SpiTypeOK, SelectedInv, SegmentInv, WireInv, LastSeen, SpiReadIsOwn, SpiBusy, SegLen, Shifted
<1>2. CASE SpiNext
  BY <1>2, SpiBeginTransferKeeps, SpiRefuseSegmentKeeps, SpiBeginSegmentKeeps, SpiDrainRxKeeps, SpiFillTxKeeps,
     SpiSegmentDoneKeeps, SpiCheckAgainKeeps, SpiSegmentTimesOutKeeps, SpiShiftByteKeeps DEF SpiNext
<1>3. QED
  BY <1>1, <1>2

(* Whatever is lost or given up on the way, a segment of an SPI transfer that   *)
(* succeeds returns the answers to its own bytes, and the device sees one       *)
(* transfer in order while it is selected.                                      *)
THEOREM SpiTransfersAreOwn == SpiSpec => [](SpiReadIsOwn /\ WireIsTransfer)
<1>1. SpiInv => SpiReadIsOwn /\ WireIsTransfer
  <2> SUFFICES ASSUME SpiInv PROVE WireIsTransfer
    BY DEF SpiInv
  <2>1. InOrder(xfer.n, wireSeen) /\ wireSeen \in Seq(SpiBytes) /\ (selected <=> SpiBusy)
    BY DEF SpiInv, WireInv, SpiTypeOK, SelectedInv
  <2>2. DOMAIN wireSeen = 1 .. Len(wireSeen) /\ (wireSeen # <<>> => 1 \in 1 .. Len(wireSeen))
    BY <2>1
  <2>3. \A k \in DOMAIN wireSeen : wireSeen[k].t = xfer.n /\ wireSeen[1].t = xfer.n
    <3>1. \A k \in DOMAIN wireSeen : wireSeen # <<>>
      BY <2>1
    <3>2. QED
      BY <2>1, <2>2, <3>1 DEF InOrder
  <2>4. \A k \in DOMAIN wireSeen : k > 1 => Follows(wireSeen[k - 1], wireSeen[k])
    BY <2>1, <2>2 DEF InOrder
  <2>5. wireSeen # <<>> => wireSeen[1].i = 1 /\ wireSeen[1].s = 1 /\ wireSeen[1].t = xfer.n
    BY <2>1, <2>2 DEF InOrder
  <2>6. QED
    BY <2>1, <2>3, <2>4, <2>5 DEF WireIsTransfer, Follows
<1>2. SpiAssumption
  BY SpiAssumption
<1>3. QED
  BY <1>1, <1>2, SpiInitHolds, SpiStepHolds, PTL DEF SpiSpec

------------------------------------------------------------------------------
(* SerialBuses: I2C                                                            *)

(* I2C: every message sent was acknowledged, failed, or is still with the       *)
(* controller, and nothing is with it when the transfer ends.                   *)
I2cCommands == [read : BOOLEAN, n : Nat, t : Nat, k : Nat]
I2cBytes == Nat \X Nat \X Nat
I2cTypeOK ==
  /\ mtx \in Seq(I2cCommands) /\ mrx \in Seq(I2cBytes) /\ i2cGot \in Seq(I2cBytes)
  /\ i2cMsgs \in [t : Nat, left : Seq(I2cMessages), k : Nat]
  /\ i2cOut \in Seq([t : Nat, k : Nat, got : Seq(I2cBytes)])
  /\ i2cWaits \in [n : Nat, lateRead : BOOLEAN]
EndsWell(msgs) == msgs # <<>> => msgs[Len(msgs)].stop /\ \A i \in 1 .. Len(msgs) - 1 : ~msgs[i].read
StageInv ==
  /\ i2cAt \in {"rest", "idle", "send", "poll", "rx"}
  /\ i2cAt # "rest" => i2cMsgs.k >= 1 /\ EndsWell(i2cMsgs.left)
  /\ i2cAt = "idle" => i2cMsgs.k = 1
  /\ i2cAt \in {"poll", "rx"} => i2cMsgs.left # <<>>
  /\ i2cAt = "send" /\ i2cMsgs.left = <<>> => mtx = <<>>
  /\ i2cAt = "rx" => mtx = <<>> /\ Message1.read
  /\ i2cAt \in {"idle", "poll"} \/ (i2cAt = "send" /\ i2cMsgs.left # <<>>) => i2cGot = <<>>
Accounted(t, j, dev, flags, tx) == <<t, j>> \in dev \/ flags # {} \/ \E i \in 1 .. Len(tx) : tx[i].t = t /\ tx[i].k = j
SentInv ==
  /\ i2cAt = "send" => \A j \in 1 .. i2cMsgs.k - 1 : Accounted(i2cMsgs.t, j, i2cDevice, smsta, mtx)
  /\ i2cAt \in {"poll", "rx"} => \A j \in 1 .. i2cMsgs.k : Accounted(i2cMsgs.t, j, i2cDevice, smsta, mtx)
(* While no read was left behind, the bytes of the read that runs are the only  *)
(* ones in the FIFO, and its command is the last one with the controller.       *)
NoReads(tx) == \A i \in 1 .. Len(tx) : ~tx[i].read
ReadLast(t, k, n, tx, rx) ==
  \A i \in 1 .. Len(tx) : tx[i].read => /\ i = Len(tx) /\ tx[i].t = t /\ tx[i].k = k /\ tx[i].n = n
                                        /\ rx = <<>>
OwnBytes(t, k, taken, rx) ==
  /\ \A j \in 1 .. Len(taken) : taken[j] = <<t, k, j>>
  /\ \A j \in 1 .. Len(rx) : rx[j] = <<t, k, Len(taken) + j>>
ReadInv ==
  ~i2cWaits.lateRead =>
    /\ i2cAt \in {"rest", "idle", "send"} \/ (i2cAt = "poll" /\ ~Message1.read) => NoReads(mtx) /\ mrx = <<>>
    /\ i2cAt = "poll" => ReadLast(i2cMsgs.t, i2cMsgs.k, Message1.n, mtx, mrx)
    /\ i2cAt \in {"poll", "rx"} => OwnBytes(i2cMsgs.t, i2cMsgs.k, i2cGot, mrx) /\ Len(i2cGot) + Len(mrx) <= Message1.n
    /\ i2cAt = "send" /\ i2cMsgs.left = <<>> => OwnBytes(i2cMsgs.t, i2cMsgs.k - 1, i2cGot, <<>>)
I2cInv == I2cTypeOK /\ StageInv /\ SentInv /\ ReadInv /\ OkIsAcked /\ I2cReadIsOwn

LEMMA I2cOutKept ==
  ASSUME I2cInv, i2cOut' = i2cOut, i2cDevice \subseteq i2cDevice', i2cWaits.lateRead => i2cWaits'.lateRead
  PROVE  OkIsAcked' /\ I2cReadIsOwn'
<1>1. OkIsAcked /\ I2cReadIsOwn
  BY DEF I2cInv
<1>2. OkIsAcked'
  BY <1>1 DEF OkIsAcked
<1>3. I2cReadIsOwn'
  BY <1>1 DEF I2cReadIsOwn
<1>4. QED
  BY <1>2, <1>3

(* The transfer's messages but the first. *)
LEMMA EndsWellTail ==
  ASSUME NEW msgs \in Seq(I2cMessages), msgs # <<>>, EndsWell(msgs)
  PROVE  /\ Tail(msgs) \in Seq(I2cMessages) /\ EndsWell(Tail(msgs)) /\ Head(msgs) \in I2cMessages
         /\ Head(msgs).read => Tail(msgs) = <<>>
         /\ ~Head(msgs).stop => Tail(msgs) # <<>>
<1>1. PICK r : r = Tail(msgs)
  OBVIOUS
<1>2. PICK n : n = Len(msgs)
  OBVIOUS
<1>3. /\ n \in Nat \ {0} /\ Len(r) = n - 1 /\ r \in Seq(I2cMessages) /\ Head(msgs) = msgs[1] /\ msgs[1] \in I2cMessages
      /\ \A i \in 1 .. n - 1 : r[i] = msgs[i + 1]
  BY <1>1, <1>2
<1>4. msgs[n].stop /\ \A i \in 1 .. n - 1 : ~msgs[i].read
  BY <1>2 DEF EndsWell
<1>5. r # <<>> <=> n - 1 > 0
  BY <1>3
<1>6. EndsWell(r)
  <2>1. SUFFICES ASSUME r # <<>> PROVE r[n - 1].stop /\ \A i \in 1 .. n - 1 - 1 : ~r[i].read
    BY <1>3 DEF EndsWell
  <2>2. n - 1 \in 1 .. n - 1 /\ (n - 1) + 1 = n
    BY <1>3, <1>5, <2>1
  <2>3. r[n - 1] = msgs[n]
    BY <1>3, <2>2
  <2>4. \A i \in 1 .. n - 1 - 1 : i \in 1 .. n - 1 /\ i + 1 \in 1 .. n - 1
    BY <1>3
  <2>5. QED
    BY <1>3, <1>4, <2>3, <2>4
<1>7. Head(msgs).read => r = <<>>
  <2>1. n - 1 > 0 => 1 \in 1 .. n - 1
    BY <1>3
  <2>2. QED
    BY <1>3, <1>4, <1>5, <2>1
<1>8. ~Head(msgs).stop => r # <<>>
  <2>1. n = 1 => msgs[n] = Head(msgs)
    BY <1>3
  <2>2. n - 1 = 0 => n = 1
    BY <1>3
  <2>3. ~Head(msgs).stop => n # 1
    BY <1>4, <2>1
  <2>4. QED
    BY <1>3, <1>5, <2>2, <2>3
<1>9. QED
  BY <1>1, <1>3, <1>6, <1>7, <1>8

LEMMA NoReadsEmpty == NoReads(<<>>) /\ \A t, k : OwnBytes(t, k, <<>>, <<>>)
  BY DEF NoReads, OwnBytes

LEMMA I2cInitHolds ==
  ASSUME I2cInit
  PROVE  I2cInv
<1>1. /\ mtx = <<>> /\ mrx = <<>> /\ i2cMsgs = [t |-> 0, left |-> <<>>, k |-> 0] /\ i2cAt = "rest" /\ i2cGot = <<>>
      /\ i2cOut = <<>> /\ i2cWaits = [n |-> 0, lateRead |-> FALSE]
  BY DEF I2cInit
<1>2. I2cTypeOK
  <2>1. i2cWaits \in [n : Nat, lateRead : BOOLEAN]
    BY <1>1
  <2>2. i2cMsgs \in [t : Nat, left : Seq(I2cMessages), k : Nat]
    BY <1>1
  <2>3. QED
    BY <1>1, <2>1, <2>2 DEF I2cTypeOK
<1>3. StageInv /\ SentInv
  BY <1>1 DEF StageInv, SentInv
<1>4. ReadInv
  BY <1>1, NoReadsEmpty DEF ReadInv
<1>5. OkIsAcked /\ I2cReadIsOwn
  BY <1>1 DEF OkIsAcked, I2cReadIsOwn
<1>6. QED
  BY <1>2, <1>3, <1>4, <1>5 DEF I2cInv

LEMMA BeginI2cKeeps ==
  ASSUME I2cAssumption, I2cInv, BeginI2c
  PROVE  I2cInv'
<1>1. PICK shape \in I2cShapes : i2cMsgs' = [t |-> i2cMsgs.t + 1, left |-> shape, k |-> 1]
  BY DEF BeginI2c
<1>2. /\ i2cAt = "rest" /\ i2cAt' = "idle" /\ i2cGot' = <<>> /\ mtx' = mtx /\ mrx' = mrx /\ i2cOut' = i2cOut
      /\ i2cDevice' = i2cDevice /\ i2cWaits' = i2cWaits
  BY DEF BeginI2c
<1>3. I2cTypeOK
  BY DEF I2cInv
<1>4. i2cMsgs.t + 1 \in Nat
  BY <1>3 DEF I2cTypeOK
<1>5. shape \in Seq(I2cMessages) /\ EndsWell(shape)
  BY DEF I2cAssumption, EndsWell
<1>6. i2cMsgs' \in [t : Nat, left : Seq(I2cMessages), k : Nat] /\ i2cMsgs'.left = shape /\ i2cMsgs'.k = 1
  BY <1>1, <1>4, <1>5
<1>7. I2cTypeOK'
  BY <1>2, <1>3, <1>6 DEF I2cTypeOK
<1>8. StageInv' /\ SentInv'
  BY <1>2, <1>5, <1>6 DEF StageInv, SentInv
<1>9. ReadInv'
  BY <1>2 DEF I2cInv, ReadInv
<1>10. QED
  BY <1>2, <1>7, <1>8, <1>9, I2cOutKept DEF I2cInv

LEMMA EnsureBusIdleKeeps ==
  ASSUME I2cInv, EnsureBusIdle
  PROVE  I2cInv'
<1>1. i2cAt = "idle" /\ i2cAt' = "send" /\ UNCHANGED <<i2cMsgs, i2cGot, i2cOut, i2cDevice>>
  BY DEF EnsureBusIdle
<1>2. I2cTypeOK /\ StageInv /\ ReadInv
  BY DEF I2cInv
<1>3. mtx' = <<>> /\ (mrx' = mrx \/ mrx' = <<>>) /\ i2cWaits' \in [n : Nat, lateRead : BOOLEAN] /\ i2cWaits'.lateRead = i2cWaits.lateRead
  <2>1. CASE ~XferInProgress /\ UNCHANGED <<mtx, mrx, smsta, i2cWaits>>
    BY <1>2, <2>1 DEF XferInProgress, I2cTypeOK
  <2>2. CASE ResetController /\ i2cWaits' = [i2cWaits EXCEPT !.n = @ + 1]
    <3>1. PICK v : v = i2cWaits.n + 1
      OBVIOUS
    <3>2. i2cWaits \in [n : Nat, lateRead : BOOLEAN] /\ v \in Nat
      BY <1>2, <3>1 DEF I2cTypeOK
    <3>3. i2cWaits' = [i2cWaits EXCEPT !.n = v]
      BY ONLY <2>2, <3>1
    <3>4. i2cWaits' \in [n : Nat, lateRead : BOOLEAN] /\ i2cWaits'.lateRead = i2cWaits.lateRead
      BY ONLY <3>2, <3>3
    <3>5. QED
      BY <2>2, <3>4 DEF ResetController
  <2>3. QED
    BY <2>1, <2>2 DEF EnsureBusIdle
<1>4. I2cTypeOK'
  <2>1. mtx' \in Seq(I2cCommands) /\ mrx' \in Seq(I2cBytes)
    <3>1. mrx \in Seq(I2cBytes) /\ mtx' = <<>>
      BY <1>2, <1>3 DEF I2cTypeOK
    <3>2. mtx' \in Seq(I2cCommands)
      BY ONLY <3>1
    <3>3. CASE mrx' = mrx
      BY ONLY <3>1, <3>2, <3>3
    <3>4. CASE mrx' = <<>>
      BY ONLY <3>2, <3>4
    <3>5. QED
      BY ONLY <1>3, <3>3, <3>4
  <2>2. i2cWaits' \in [n : Nat, lateRead : BOOLEAN] /\ i2cGot' = i2cGot /\ i2cMsgs' = i2cMsgs /\ i2cOut' = i2cOut
    BY ONLY <1>1, <1>3
  <2>3. QED
    BY ONLY <1>2, <2>1, <2>2 DEF I2cTypeOK
<1>5. i2cMsgs.k = 1 /\ i2cGot = <<>> /\ EndsWell(i2cMsgs.left)
  BY <1>1, <1>2 DEF StageInv
<1>6. StageInv' /\ SentInv'
  BY <1>1, <1>3, <1>5 DEF StageInv, SentInv
<1>7. ReadInv'
  <2>1. \A t, k : OwnBytes(t, k, <<>>, <<>>)
    BY NoReadsEmpty
  <2>2. ~i2cWaits.lateRead => mrx = <<>>
    BY <1>1, <1>2 DEF ReadInv
  <2>3. QED
    BY <1>1, <1>3, <1>5, <2>1, <2>2, NoReadsEmpty DEF ReadInv
<1>8. QED
  BY <1>1, <1>3, <1>4, <1>6, <1>7, I2cOutKept DEF I2cInv

LEMMA AccountedGrows ==
  ASSUME NEW t, NEW j, NEW dev, NEW flags, NEW tx \in Seq(I2cCommands), NEW c \in I2cCommands
  PROVE  /\ Accounted(t, j, dev, flags, tx) => Accounted(t, j, dev, flags, Append(tx, c))
         /\ c.t = t /\ c.k = j => Accounted(t, j, dev, flags, Append(tx, c))
<1>1. PICK x : x = Append(tx, c)
  OBVIOUS
<1>2. Len(tx) \in Nat /\ Len(x) = Len(tx) + 1 /\ x[Len(x)] = c /\ \A i \in 1 .. Len(tx) : x[i] = tx[i] /\ i \in 1 .. Len(x)
  BY <1>1
<1>3. Len(x) \in 1 .. Len(x)
  BY <1>2
<1>4. Accounted(t, j, dev, flags, tx) => Accounted(t, j, dev, flags, x)
  BY <1>2 DEF Accounted
<1>5. c.t = t /\ c.k = j => Accounted(t, j, dev, flags, x)
  BY <1>2, <1>3 DEF Accounted
<1>6. QED
  BY <1>1, <1>4, <1>5

LEMMA NextMessageIs ==
  ASSUME i2cMsgs \in [t : Nat, left : Seq(I2cMessages), k : Nat], NEW r \in Seq(I2cMessages), NEW k \in Nat,
         i2cMsgs' = [i2cMsgs EXCEPT !.left = r, !.k = k + 1]
  PROVE  /\ i2cMsgs' \in [t : Nat, left : Seq(I2cMessages), k : Nat]
         /\ i2cMsgs'.t = i2cMsgs.t /\ i2cMsgs'.left = r /\ i2cMsgs'.k = k + 1
<1>1. PICK j : j = k + 1
  OBVIOUS
<1>2. j \in Nat
  BY <1>1
<1>3. i2cMsgs' = [i2cMsgs EXCEPT !.left = r, !.k = j]
  BY ONLY <1>1, i2cMsgs' = [i2cMsgs EXCEPT !.left = r, !.k = k + 1]
<1>4. QED
  BY <1>1, <1>2, <1>3

LEMMA SendMessageKeeps ==
  ASSUME I2cInv, SendMessage
  PROVE  I2cInv'
<1>1. /\ i2cAt = "send" /\ i2cMsgs.left # <<>> /\ smsta' = smsta /\ UNCHANGED <<mrx, i2cGot, i2cOut, i2cDevice, i2cWaits>>
      /\ mtx' = Append(mtx, I2cCommand(Message1))
  BY DEF SendMessage, Push
<1>2. I2cTypeOK /\ StageInv /\ SentInv /\ ReadInv
  BY DEF I2cInv
<1>3. PICK m : m = Message1
  OBVIOUS
<1>4. PICK c : c = I2cCommand(m)
  OBVIOUS
<1>5. PICK msgs : msgs = i2cMsgs.left
  OBVIOUS
<1>6. PICK k : k = i2cMsgs.k
  OBVIOUS
<1>7. msgs \in Seq(I2cMessages) /\ msgs # <<>> /\ k \in Nat \ {0} /\ EndsWell(msgs) /\ i2cMsgs.t \in Nat /\ m = Head(msgs)
      /\ i2cMsgs \in [t : Nat, left : Seq(I2cMessages), k : Nat] /\ mtx \in Seq(I2cCommands) /\ i2cGot = <<>>
  BY <1>1, <1>2, <1>3, <1>5, <1>6 DEF I2cTypeOK, StageInv, Message1
<1>8. /\ Tail(msgs) \in Seq(I2cMessages) /\ EndsWell(Tail(msgs)) /\ m \in I2cMessages
      /\ (m.read => Tail(msgs) = <<>>) /\ (~m.stop => Tail(msgs) # <<>>)
  BY ONLY <1>7, EndsWellTail
<1>9. c \in I2cCommands /\ c.read = m.read /\ c.n = m.n /\ c.t = i2cMsgs.t /\ c.k = k
  BY <1>4, <1>6, <1>7, <1>8 DEF I2cCommand, I2cCommands, I2cMessages
<1>10. PICK x : x = Append(mtx, c)
  OBVIOUS
<1>11. /\ x \in Seq(I2cCommands) /\ Len(x) = Len(mtx) + 1 /\ x[Len(x)] = c /\ \A i \in 1 .. Len(mtx) : x[i] = mtx[i]
       /\ Len(mtx) \in Nat
  BY <1>7, <1>9, <1>10
<1>12. mtx' = x
  BY ONLY <1>1, <1>3, <1>4, <1>10
<1>13. \A j \in 1 .. k : Accounted(i2cMsgs.t, j, i2cDevice, smsta, x)
  <2>1. \A j \in 1 .. k - 1 : Accounted(i2cMsgs.t, j, i2cDevice, smsta, mtx)
    BY <1>1, <1>2, <1>6 DEF SentInv
  <2>2. \A j \in 1 .. k : j \in 1 .. k - 1 \/ j = k
    BY <1>7
  <2>3. \A j \in 1 .. k - 1 : Accounted(i2cMsgs.t, j, i2cDevice, smsta, x)
    BY ONLY <1>7, <1>9, <1>10, <2>1, AccountedGrows
  <2>4. Accounted(i2cMsgs.t, k, i2cDevice, smsta, x)
    BY ONLY <1>7, <1>9, <1>10, AccountedGrows
  <2>5. QED
    BY ONLY <2>2, <2>3, <2>4
<1>14. OkIsAcked' /\ I2cReadIsOwn'
  BY <1>1, I2cOutKept
<1>15. CASE m.read \/ m.stop
  <2>1. i2cAt' = "poll" /\ i2cMsgs' = i2cMsgs
    BY <1>3, <1>15 DEF SendMessage
  <2>2. I2cTypeOK'
    BY <1>1, <1>2, <1>11, <1>12, <2>1 DEF I2cTypeOK
  <2>3. StageInv'
    BY <1>1, <1>5, <1>6, <1>7, <2>1 DEF StageInv
  <2>4. SentInv'
    BY <1>1, <1>6, <1>12, <1>13, <2>1 DEF SentInv
  <2>5. ReadInv'
    <3>1. Message1' = m
      BY <1>3, <2>1 DEF Message1
    <3>2. SUFFICES ASSUME ~i2cWaits'.lateRead
                   PROVE  /\ ~m.read => NoReads(mtx') /\ mrx' = <<>>
                          /\ ReadLast(i2cMsgs'.t, i2cMsgs'.k, m.n, mtx', mrx')
                          /\ OwnBytes(i2cMsgs'.t, i2cMsgs'.k, i2cGot', mrx') /\ Len(i2cGot') + Len(mrx') <= m.n
      BY <2>1, <3>1 DEF ReadInv
    <3>3. NoReads(mtx) /\ mrx = <<>>
      BY <1>1, <1>2, <3>2 DEF ReadInv
    <3>4. \A i \in 1 .. Len(x) : i \in 1 .. Len(mtx) \/ i = Len(x)
      BY <1>11
    <3>5. \A i \in 1 .. Len(x) : x[i].read => i = Len(x) /\ c.read
      BY ONLY <1>11, <3>3, <3>4 DEF NoReads
    <3>6. ~m.read => NoReads(x)
      BY <1>9, <3>5 DEF NoReads
    <3>7. ReadLast(i2cMsgs.t, k, m.n, x, <<>>)
      BY <1>9, <1>11, <3>5 DEF ReadLast
    <3>8. OwnBytes(i2cMsgs.t, k, <<>>, <<>>)
      BY NoReadsEmpty
    <3>9. Len(i2cGot') + Len(mrx') <= m.n
      <4>1. i2cGot' = <<>> /\ mrx' = <<>> /\ m.n \in Nat
        BY <1>1, <1>7, <1>8, <3>3 DEF I2cMessages
      <4>2. Len(i2cGot') = 0 /\ Len(mrx') = 0
        BY <4>1
      <4>3. QED
        BY <4>1, <4>2
    <3>10. QED
      BY <1>1, <1>6, <1>7, <1>12, <2>1, <3>3, <3>6, <3>7, <3>8, <3>9
  <2>6. QED
    BY <1>14, <2>2, <2>3, <2>4, <2>5 DEF I2cInv
<1>16. CASE ~(m.read \/ m.stop)
  <2>1. NextMessage
    BY <1>3, <1>16 DEF SendMessage
  <2>2. i2cMsgs' = [i2cMsgs EXCEPT !.left = Tail(msgs), !.k = k + 1] /\ i2cAt' = "send"
    BY <1>5, <1>6, <2>1 DEF NextMessage
  <2>3. PICK r : r = Tail(msgs)
    OBVIOUS
  <2>4. r \in Seq(I2cMessages) /\ r # <<>> /\ EndsWell(r) /\ k + 1 \in Nat /\ k + 1 >= 1 /\ k + 1 - 1 = k
    BY <1>7, <1>8, <1>16, <2>3
  <2>5. /\ i2cMsgs' \in [t : Nat, left : Seq(I2cMessages), k : Nat]
        /\ i2cMsgs'.t = i2cMsgs.t /\ i2cMsgs'.left = r /\ i2cMsgs'.k = k + 1
    <3>1. i2cMsgs' = [i2cMsgs EXCEPT !.left = r, !.k = k + 1]
      BY ONLY <2>2, <2>3
    <3>2. k \in Nat
      BY ONLY <1>7
    <3>3. QED
      BY ONLY <1>7, <2>4, <3>1, <3>2, NextMessageIs
  <2>6. I2cTypeOK'
    BY <1>1, <1>2, <1>11, <1>12, <2>5 DEF I2cTypeOK
  <2>7. StageInv'
    BY <1>1, <1>7, <2>2, <2>4, <2>5 DEF StageInv
  <2>8. SentInv'
    <3>1. i2cMsgs'.k - 1 = k
      BY ONLY <1>7, <2>5
    <3>2. \A j \in 1 .. i2cMsgs'.k - 1 : Accounted(i2cMsgs'.t, j, i2cDevice', smsta', mtx')
      <4>1. i2cDevice' = i2cDevice /\ smsta' = smsta /\ i2cMsgs'.t = i2cMsgs.t
        BY ONLY <1>1, <2>5
      <4>2. \A j \in 1 .. k : Accounted(i2cMsgs'.t, j, i2cDevice', smsta', mtx')
        BY ONLY <1>12, <1>13, <4>1
      <4>3. QED
        BY ONLY <3>1, <4>2
    <3>3. QED
      BY <2>2, <3>2 DEF SentInv
  <2>9. ReadInv'
    <3>1. SUFFICES ASSUME ~i2cWaits'.lateRead PROVE NoReads(x) /\ mrx' = <<>>
      BY <1>12, <2>2, <2>4, <2>5 DEF ReadInv
    <3>2. NoReads(mtx) /\ mrx = <<>>
      BY <1>1, <1>2, <3>1 DEF ReadInv
    <3>3. \A i \in 1 .. Len(x) : i \in 1 .. Len(mtx) \/ i = Len(x)
      BY <1>11
    <3>4. ~c.read
      BY <1>9, <1>16
    <3>5. QED
      BY <1>1, <1>11, <3>2, <3>3, <3>4 DEF NoReads
  <2>10. QED
    BY <1>14, <2>6, <2>7, <2>8, <2>9 DEF I2cInv
<1>17. QED
  BY <1>15, <1>16

LEMMA I2cFailsKeeps ==
  ASSUME I2cInv, NEW reset, NEW timeout, I2cFails(reset, timeout)
  PROVE  I2cInv'
<1>1. /\ i2cAt' = "rest" /\ UNCHANGED <<i2cMsgs, i2cGot, i2cOut, i2cDevice>>
      /\ IF reset THEN ResetController ELSE UNCHANGED <<mtx, mrx, smsta>>
      /\ i2cWaits' = [n |-> IF timeout THEN i2cWaits.n + 1 ELSE i2cWaits.n,
                      lateRead |-> i2cWaits.lateRead \/ (~reset /\ LeavesRead)]
  BY DEF I2cFails
<1>2. I2cTypeOK
  BY DEF I2cInv
<1>3. PICK v : v = IF timeout THEN i2cWaits.n + 1 ELSE i2cWaits.n
  OBVIOUS
<1>4. PICK b : b = (i2cWaits.lateRead \/ (~reset /\ LeavesRead))
  OBVIOUS
<1>5. v \in Nat
  BY <1>2, <1>3 DEF I2cTypeOK
<1>6. b \in BOOLEAN
  BY <1>4, Zenon
<1>7. i2cWaits' = [n |-> v, lateRead |-> b]
  BY ONLY <1>1, <1>3, <1>4, Zenon
<1>8. i2cWaits' \in [n : Nat, lateRead : BOOLEAN] /\ i2cWaits'.lateRead = b
  BY ONLY <1>5, <1>6, <1>7
<1>9. (mtx' = <<>> /\ mrx' = <<>>) \/ (mtx' = mtx /\ mrx' = mrx /\ (~b => ~LeavesRead))
  BY <1>1, <1>4 DEF ResetController
<1>10. I2cTypeOK'
  <2>1. mtx \in Seq(I2cCommands) /\ mrx \in Seq(I2cBytes)
    BY <1>2 DEF I2cTypeOK
  <2>2. mtx' \in Seq(I2cCommands) /\ mrx' \in Seq(I2cBytes)
    <3>1. CASE mtx' = <<>> /\ mrx' = <<>>
      BY ONLY <3>1
    <3>2. CASE mtx' = mtx /\ mrx' = mrx
      BY ONLY <2>1, <3>2
    <3>3. QED
      BY ONLY <1>9, <3>1, <3>2
  <2>3. i2cGot' = i2cGot /\ i2cMsgs' = i2cMsgs /\ i2cOut' = i2cOut
    BY ONLY <1>1
  <2>4. QED
    BY ONLY <1>2, <1>8, <2>2, <2>3 DEF I2cTypeOK
<1>11. StageInv' /\ SentInv'
  BY <1>1 DEF StageInv, SentInv
<1>12. ReadInv'
  <2>1. SUFFICES ASSUME ~b PROVE NoReads(mtx') /\ mrx' = <<>>
    BY <1>1, <1>8 DEF ReadInv
  <2>2. ASSUME ~LeavesRead  PROVE NoReads(mtx) /\ mrx = <<>>
    <3>1. mtx \in Seq(I2cCommands)
      BY <1>2 DEF I2cTypeOK
    <3>2. DOMAIN mtx = 1 .. Len(mtx)
      BY <3>1
    <3>3. QED
      BY <2>2, <3>2 DEF LeavesRead, NoReads
  <2>3. QED
    BY <1>9, <2>1, <2>2, NoReadsEmpty
<1>13. i2cWaits.lateRead => i2cWaits'.lateRead
  BY <1>4, <1>8
<1>14. OkIsAcked' /\ I2cReadIsOwn'
  BY <1>1, <1>13, I2cOutKept
<1>15. QED
  BY <1>10, <1>11, <1>12, <1>14 DEF I2cInv

LEMMA PollAndRxFailKeep ==
  ASSUME I2cInv, PollFails \/ PollTimesOut \/ RxFails
  PROVE  I2cInv'
<1>1. ASSUME PollFails  PROVE I2cInv'
  <2>1. I2cFails("jam" \in smsta, FALSE)
    BY <1>1 DEF PollFails
  <2>2. QED
    BY <2>1, I2cFailsKeeps, Zenon
<1>2. ASSUME PollTimesOut  PROVE I2cInv'
  <2>1. I2cFails(FALSE, TRUE)
    BY <1>2 DEF PollTimesOut
  <2>2. QED
    BY <2>1, I2cFailsKeeps, Zenon
<1>3. ASSUME RxFails  PROVE I2cInv'
  <2>1. I2cFails(FALSE, smsta = {})
    BY <1>3 DEF RxFails
  <2>2. QED
    BY <2>1, I2cFailsKeeps, Zenon
<1>4. QED
  BY <1>1, <1>2, <1>3

(* The next message begins, nothing being with the controller. *)
LEMMA NextMessageKeeps ==
  ASSUME I2cInv, i2cAt \in {"poll", "rx"}, NextMessage, mtx = <<>>,
         UNCHANGED <<mtx, mrx, smsta, i2cGot, i2cOut, i2cDevice, i2cWaits>>,
         Tail(i2cMsgs.left) # <<>> => i2cGot = <<>>,
         ~i2cWaits.lateRead => mrx = <<>>
  PROVE  I2cInv'
<1>1. I2cTypeOK /\ StageInv /\ SentInv /\ ReadInv
  BY DEF I2cInv
<1>2. PICK msgs : msgs = i2cMsgs.left
  OBVIOUS
<1>3. PICK k : k = i2cMsgs.k
  OBVIOUS
<1>4. msgs \in Seq(I2cMessages) /\ msgs # <<>> /\ k \in Nat /\ k >= 1 /\ EndsWell(msgs)
      /\ i2cMsgs \in [t : Nat, left : Seq(I2cMessages), k : Nat]
  BY <1>1, <1>2, <1>3 DEF I2cTypeOK, StageInv
<1>5. PICK r : r = Tail(msgs)
  OBVIOUS
<1>6. r \in Seq(I2cMessages) /\ EndsWell(r)
  BY ONLY <1>4, <1>5, EndsWellTail
<1>7. i2cMsgs' = [i2cMsgs EXCEPT !.left = r, !.k = k + 1] /\ i2cAt' = "send"
  BY <1>2, <1>3, <1>5 DEF NextMessage
<1>8. /\ i2cMsgs' \in [t : Nat, left : Seq(I2cMessages), k : Nat]
      /\ i2cMsgs'.t = i2cMsgs.t /\ i2cMsgs'.left = r /\ i2cMsgs'.k = k + 1
  BY ONLY <1>4, <1>6, <1>7, NextMessageIs
<1>9. k + 1 >= 1 /\ i2cMsgs'.k - 1 = k
  BY ONLY <1>4, <1>8
<1>10. I2cTypeOK'
  BY <1>1, <1>8 DEF I2cTypeOK
<1>11. StageInv'
  BY <1>2, <1>5, <1>6, <1>7, <1>8, <1>9 DEF StageInv
<1>12. SentInv'
  <2>1. \A j \in 1 .. k : Accounted(i2cMsgs.t, j, i2cDevice, smsta, mtx)
    BY <1>1, <1>3 DEF SentInv
  <2>2. \A j \in 1 .. i2cMsgs'.k - 1 : Accounted(i2cMsgs'.t, j, i2cDevice', smsta', mtx')
    BY <1>8, <1>9, <2>1
  <2>3. QED
    BY <1>7, <2>2 DEF SentInv
<1>13. ReadInv'
  <2>1. SUFFICES ASSUME ~i2cWaits.lateRead
                 PROVE  NoReads(mtx) /\ mrx = <<>> /\ OwnBytes(i2cMsgs.t, k, i2cGot, <<>>)
    BY <1>7, <1>8, <1>9 DEF ReadInv
  <2>2. OwnBytes(i2cMsgs.t, k, i2cGot, mrx)
    BY <1>1, <1>3, <2>1 DEF ReadInv
  <2>3. QED
    BY <2>1, <2>2, NoReadsEmpty
<1>14. OkIsAcked' /\ I2cReadIsOwn'
  BY I2cOutKept
<1>15. QED
  BY <1>10, <1>11, <1>12, <1>13, <1>14 DEF I2cInv

LEMMA PollDoneKeeps ==
  ASSUME I2cInv, PollDone
  PROVE  I2cInv'
<1>1. /\ i2cAt = "poll" /\ smsta = {} /\ mtx = <<>>
      /\ UNCHANGED <<mtx, mrx, smsta, i2cGot, i2cOut, i2cDevice, i2cWaits>>
  BY DEF PollDone, XferInProgress
<1>2. I2cTypeOK /\ StageInv /\ SentInv /\ ReadInv
  BY DEF I2cInv
<1>3. i2cGot = <<>>
  BY <1>1, <1>2 DEF StageInv
<1>4. CASE ~Message1.read
  <2>1. NextMessage
    BY <1>4 DEF PollDone
  <2>2. ~i2cWaits.lateRead => mrx = <<>>
    BY <1>1, <1>2, <1>4 DEF ReadInv
  <2>3. QED
    BY <1>1, <1>3, <2>1, <2>2, NextMessageKeeps
<1>5. CASE Message1.read
  <2>1. i2cAt' = "rx" /\ i2cMsgs' = i2cMsgs
    BY <1>5 DEF PollDone
  <2>2. I2cTypeOK'
    BY <1>1, <1>2, <2>1 DEF I2cTypeOK
  <2>3. StageInv'
    BY <1>1, <1>2, <1>5, <2>1 DEF StageInv, Message1
  <2>4. SentInv'
    BY <1>1, <1>2, <2>1 DEF SentInv
  <2>5. ReadInv'
    BY <1>1, <1>2, <2>1 DEF ReadInv, Message1
  <2>6. OkIsAcked' /\ I2cReadIsOwn'
    BY <1>1, I2cOutKept
  <2>7. QED
    BY <2>2, <2>3, <2>4, <2>5, <2>6 DEF I2cInv
<1>6. QED
  BY <1>4, <1>5

LEMMA OwnBytesDrain ==
  ASSUME NEW t, NEW k, NEW taken \in Seq(I2cBytes), NEW rx \in Seq(I2cBytes), rx # <<>>, OwnBytes(t, k, taken, rx)
  PROVE  /\ OwnBytes(t, k, Append(taken, Head(rx)), Tail(rx))
         /\ Append(taken, Head(rx)) \in Seq(I2cBytes) /\ Tail(rx) \in Seq(I2cBytes)
         /\ Len(Append(taken, Head(rx))) + Len(Tail(rx)) = Len(taken) + Len(rx)
<1>1. PICK g : g = Append(taken, Head(rx))
  OBVIOUS
<1>2. PICK r : r = Tail(rx)
  OBVIOUS
<1>3. /\ Len(taken) \in Nat /\ Len(rx) \in Nat \ {0} /\ Head(rx) = rx[1] /\ rx[1] \in I2cBytes
      /\ g \in Seq(I2cBytes) /\ Len(g) = Len(taken) + 1 /\ g[Len(taken) + 1] = rx[1] /\ \A j \in 1 .. Len(taken) : g[j] = taken[j]
  BY <1>1
<1>4. r \in Seq(I2cBytes) /\ Len(r) = Len(rx) - 1 /\ \A j \in 1 .. Len(r) : r[j] = rx[j + 1] /\ j + 1 \in 1 .. Len(rx)
  BY <1>2
<1>5. \A j \in 1 .. Len(g) : g[j] = <<t, k, j>>
  <2>1. \A j \in 1 .. Len(taken) : taken[j] = <<t, k, j>>
    BY DEF OwnBytes
  <2>2. rx[1] = <<t, k, Len(taken) + 1>>
    BY <1>3 DEF OwnBytes
  <2>3. \A j \in 1 .. Len(g) : j \in 1 .. Len(taken) \/ j = Len(taken) + 1
    BY ONLY <1>3
  <2>4. QED
    BY ONLY <1>3, <2>1, <2>2, <2>3
<1>6. \A j \in 1 .. Len(r) : r[j] = <<t, k, Len(g) + j>>
  <2>1. \A j \in 1 .. Len(r) : Len(taken) + (j + 1) = Len(g) + j
    BY ONLY <1>3, <1>4
  <2>2. \A j \in 1 .. Len(rx) : rx[j] = <<t, k, Len(taken) + j>>
    BY DEF OwnBytes
  <2>3. QED
    BY ONLY <1>4, <2>1, <2>2
<1>7. Len(g) + Len(r) = Len(taken) + Len(rx)
  BY ONLY <1>3, <1>4
<1>8. QED
  BY <1>1, <1>2, <1>3, <1>4, <1>5, <1>6, <1>7 DEF OwnBytes

LEMMA WaitRxKeeps ==
  ASSUME I2cInv, WaitRx
  PROVE  I2cInv'
<1>1. i2cAt = "rx" /\ UNCHANGED <<mtx, smsta, i2cDevice, i2cWaits, i2cOut>>
  BY DEF WaitRx
<1>2. I2cTypeOK /\ StageInv /\ SentInv /\ ReadInv
  BY DEF I2cInv
<1>3. PICK msgs : msgs = i2cMsgs.left
  OBVIOUS
<1>4. PICK m : m = Message1
  OBVIOUS
<1>5. /\ mtx = <<>> /\ m.read /\ m = Head(msgs) /\ msgs \in Seq(I2cMessages) /\ msgs # <<>> /\ EndsWell(msgs)
      /\ i2cGot \in Seq(I2cBytes) /\ mrx \in Seq(I2cBytes)
  BY <1>1, <1>2, <1>3, <1>4 DEF StageInv, I2cTypeOK, Message1
<1>6. Tail(msgs) = <<>> /\ m \in I2cMessages
  BY ONLY <1>5, EndsWellTail
<1>7. m.n \in Nat /\ Len(i2cGot) \in Nat /\ Len(mrx) \in Nat
  BY <1>5, <1>6 DEF I2cMessages
<1>8. ~i2cWaits.lateRead => OwnBytes(i2cMsgs.t, i2cMsgs.k, i2cGot, mrx) /\ Len(i2cGot) + Len(mrx) <= m.n
  BY <1>1, <1>2, <1>4 DEF ReadInv
<1>9. CASE Len(i2cGot) = m.n
  <2>1. NextMessage /\ UNCHANGED <<mrx, i2cGot>>
    BY <1>4, <1>9 DEF WaitRx, ToRead
  <2>2. ~i2cWaits.lateRead => mrx = <<>>
    <3>1. ~i2cWaits.lateRead => Len(mrx) = 0
      BY ONLY <1>7, <1>8, <1>9
    <3>2. QED
      BY <1>5, <3>1
  <2>3. QED
    BY <1>1, <1>3, <1>5, <1>6, <2>1, <2>2, NextMessageKeeps
<1>10. CASE Len(i2cGot) # m.n
  <2>1. mrx # <<>> /\ mrx' = Tail(mrx) /\ i2cGot' = Append(i2cGot, Head(mrx)) /\ UNCHANGED <<i2cMsgs, i2cAt>>
    BY <1>4, <1>10 DEF WaitRx, ToRead
  <2>2. PICK g : g = Append(i2cGot, Head(mrx))
    OBVIOUS
  <2>3. PICK r : r = Tail(mrx)
    OBVIOUS
  <2>4. i2cGot' = g /\ mrx' = r /\ g \in Seq(I2cBytes) /\ r \in Seq(I2cBytes)
    BY <1>5, <2>1, <2>2, <2>3
  <2>5. I2cTypeOK'
    BY <1>1, <1>2, <2>1, <2>4 DEF I2cTypeOK
  <2>6. StageInv'
    BY <1>1, <1>2, <2>1 DEF StageInv, Message1
  <2>7. SentInv'
    BY <1>1, <1>2, <2>1 DEF SentInv
  <2>8. ReadInv'
    <3>1. Message1' = m
      BY <1>4, <2>1 DEF Message1
    <3>2. SUFFICES ASSUME ~i2cWaits.lateRead
                   PROVE  OwnBytes(i2cMsgs.t, i2cMsgs.k, g, r) /\ Len(g) + Len(r) <= m.n
      BY <1>1, <2>1, <2>4, <3>1 DEF ReadInv
    <3>3. OwnBytes(i2cMsgs.t, i2cMsgs.k, g, r) /\ Len(g) + Len(r) = Len(i2cGot) + Len(mrx)
      BY <1>5, <1>8, <2>1, <2>2, <2>3, <3>2, OwnBytesDrain
    <3>4. QED
      BY <1>8, <3>2, <3>3
  <2>9. OkIsAcked' /\ I2cReadIsOwn'
    BY <1>1, I2cOutKept
  <2>10. QED
    BY <2>5, <2>6, <2>7, <2>8, <2>9 DEF I2cInv
<1>11. QED
  BY <1>9, <1>10

LEMMA EndI2cKeeps ==
  ASSUME I2cInv, EndI2c
  PROVE  I2cInv'
<1>1. i2cAt = "send" /\ i2cMsgs.left = <<>>
  BY DEF EndI2c
<1>2. I2cTypeOK /\ StageInv /\ SentInv /\ ReadInv /\ OkIsAcked /\ I2cReadIsOwn
  BY DEF I2cInv
<1>3. CASE smsta # {}
  <2>1. I2cFails(FALSE, FALSE)
    BY <1>3 DEF EndI2c
  <2>2. QED
    BY <2>1, I2cFailsKeeps, Zenon
<1>4. CASE smsta = {}
  <2>1. PICK o : o = [t |-> i2cMsgs.t, k |-> i2cMsgs.k - 1, got |-> i2cGot]
    OBVIOUS
  <2>2. /\ i2cOut' = Append(i2cOut, o) /\ i2cAt' = "rest"
        /\ UNCHANGED <<mtx, mrx, smsta, i2cMsgs, i2cGot, i2cDevice, i2cWaits>>
    BY <1>4, <2>1 DEF EndI2c
  <2>3. i2cMsgs.k - 1 \in Nat /\ i2cMsgs.t \in Nat /\ i2cGot \in Seq(I2cBytes) /\ mtx = <<>>
    BY <1>1, <1>2 DEF I2cTypeOK, StageInv
  <2>4. PICK n : n = i2cMsgs.k - 1
    OBVIOUS
  <2>5. o.t = i2cMsgs.t /\ o.k = n /\ o.got = i2cGot /\ o \in [t : Nat, k : Nat, got : Seq(I2cBytes)]
    BY <2>1, <2>3, <2>4
  <2>6. PICK out : out = Append(i2cOut, o)
    OBVIOUS
  <2>7. /\ out \in Seq([t : Nat, k : Nat, got : Seq(I2cBytes)]) /\ out[Len(i2cOut) + 1] = o
        /\ DOMAIN out = 1 .. Len(i2cOut) + 1 /\ DOMAIN i2cOut = 1 .. Len(i2cOut)
        /\ \A i \in DOMAIN out : i = Len(i2cOut) + 1 \/ (i \in DOMAIN i2cOut /\ out[i] = i2cOut[i])
    <3>1. i2cOut \in Seq([t : Nat, k : Nat, got : Seq(I2cBytes)])
      BY <1>2 DEF I2cTypeOK
    <3>2. QED
      BY SMTT(20), <2>5, <2>6, <3>1
  <2>8. i2cOut' = out
    BY <2>2, <2>6
  <2>9. I2cTypeOK'
    BY <1>2, <2>2, <2>7, <2>8 DEF I2cTypeOK
  <2>10. StageInv' /\ SentInv'
    BY <2>2 DEF StageInv, SentInv
  <2>11. ReadInv'
    BY <1>1, <1>2, <2>2 DEF ReadInv
  <2>12. OkIsAcked'
    <3>1. \A j \in 1 .. n : Accounted(i2cMsgs.t, j, i2cDevice, smsta, mtx)
      BY <1>1, <1>2, <2>4 DEF SentInv
    <3>2. \A j \in 1 .. n : <<i2cMsgs.t, j>> \in i2cDevice
      <4>1. 1 .. Len(mtx) = {}
        BY <2>3
      <4>2. QED
        BY <1>4, <3>1, <4>1 DEF Accounted
    <3>3. ASSUME NEW i \in DOMAIN out  PROVE \A j \in 1 .. out[i].k : <<out[i].t, j>> \in i2cDevice
      <4>1. CASE i = Len(i2cOut) + 1
        BY <2>5, <2>7, <3>2, <4>1
      <4>2. CASE i \in DOMAIN i2cOut /\ out[i] = i2cOut[i]
        BY <1>2, <4>2 DEF OkIsAcked
      <4>3. QED
        BY <2>7, <4>1, <4>2
    <3>4. QED
      BY <2>2, <2>8, <3>3 DEF OkIsAcked
  <2>13. I2cReadIsOwn'
    <3>1. SUFFICES ASSUME ~i2cWaits.lateRead, NEW i \in DOMAIN out
                   PROVE  \A j \in DOMAIN out[i].got : out[i].got[j] = <<out[i].t, out[i].k, j>>
      BY <2>2, <2>8 DEF I2cReadIsOwn
    <3>2. CASE i = Len(i2cOut) + 1
      <4>1. OwnBytes(i2cMsgs.t, n, i2cGot, <<>>)
        BY <1>1, <1>2, <2>4, <3>1 DEF ReadInv
      <4>2. DOMAIN i2cGot = 1 .. Len(i2cGot)
        BY <2>3
      <4>3. out[i] = o
        BY <2>7, <3>2
      <4>4. QED
        BY <2>5, <4>1, <4>2, <4>3 DEF OwnBytes
    <3>3. CASE i \in DOMAIN i2cOut /\ out[i] = i2cOut[i]
      BY <1>2, <3>1, <3>3 DEF I2cReadIsOwn
    <3>4. QED
      BY <2>7, <3>1, <3>2, <3>3
  <2>14. QED
    BY <2>9, <2>10, <2>11, <2>12, <2>13 DEF I2cInv
<1>5. QED
  BY <1>3, <1>4

LEMMA I2cAckedKeeps ==
  ASSUME I2cInv, I2cAcked
  PROVE  I2cInv'
<1>1. /\ mtx # <<>> /\ mtx' = Tail(mtx) /\ i2cDevice' = i2cDevice \cup {<<Head(mtx).t, Head(mtx).k>>}
      /\ UNCHANGED <<smsta, i2cMsgs, i2cAt, i2cGot, i2cOut, i2cWaits>>
  BY DEF I2cAcked, XferInProgress
<1>2. I2cTypeOK /\ StageInv /\ SentInv /\ ReadInv
  BY DEF I2cInv
<1>3. PICK c : c = Head(mtx)
  OBVIOUS
<1>4. PICK x : x = Tail(mtx)
  OBVIOUS
<1>5. /\ mtx \in Seq(I2cCommands) /\ Len(mtx) \in Nat \ {0} /\ c = mtx[1] /\ c \in I2cCommands
      /\ x \in Seq(I2cCommands) /\ Len(x) = Len(mtx) - 1
      /\ \A i \in 1 .. Len(x) : x[i] = mtx[i + 1] /\ i + 1 \in 1 .. Len(mtx)
  BY <1>1, <1>2, <1>3, <1>4 DEF I2cTypeOK
<1>6. c.n \in Nat /\ c.t \in Nat /\ c.k \in Nat
  BY <1>5 DEF I2cCommands
<1>7. PICK more : more = [i \in 1 .. c.n |-> <<c.t, c.k, i>>]
  OBVIOUS
<1>8. more \in Seq(I2cBytes) /\ Len(more) = c.n /\ \A i \in 1 .. c.n : more[i] = <<c.t, c.k, i>>
  <2>1. \A i \in 1 .. c.n : <<c.t, c.k, i>> \in I2cBytes
    BY <1>6 DEF I2cBytes
  <2>2. QED
    BY SMTT(20), <1>6, <1>7, <2>1
<1>9. mrx' = IF c.read THEN mrx \o more ELSE mrx
  BY ONLY I2cAcked, <1>3, <1>7 DEF I2cAcked
<1>10. mtx' = x /\ i2cDevice' = i2cDevice \cup {<<c.t, c.k>>}
  BY ONLY <1>1, <1>3, <1>4
<1>11. mrx \in Seq(I2cBytes) /\ mrx' \in Seq(I2cBytes)
  <2>1. mrx \in Seq(I2cBytes)
    BY <1>2 DEF I2cTypeOK
  <2>2. mrx \o more \in Seq(I2cBytes)
    BY ONLY <1>8, <2>1
  <2>3. QED
    BY ONLY <1>9, <2>1, <2>2
<1>12. I2cTypeOK'
  BY <1>1, <1>2, <1>5, <1>10, <1>11 DEF I2cTypeOK
<1>13. ASSUME NEW t, NEW j, Accounted(t, j, i2cDevice, smsta, mtx)
       PROVE  Accounted(t, j, i2cDevice', smsta, x)
  <2>1. CASE <<t, j>> \in i2cDevice \/ smsta # {}
    BY <1>10, <2>1 DEF Accounted
  <2>2. CASE \E i \in 1 .. Len(mtx) : mtx[i].t = t /\ mtx[i].k = j
    <3>1. PICK i \in 1 .. Len(mtx) : mtx[i].t = t /\ mtx[i].k = j
      BY <2>2
    <3>2. CASE i = 1
      <4>1. <<t, j>> \in i2cDevice'
        BY <1>5, <1>10, <3>1, <3>2
      <4>2. QED
        BY <4>1 DEF Accounted
    <3>3. CASE i # 1
      <4>1. i - 1 \in 1 .. Len(x) /\ (i - 1) + 1 = i
        BY <1>5, <3>3
      <4>2. x[i - 1] = mtx[i]
        BY <1>5, <4>1
      <4>3. QED
        BY <3>1, <4>1, <4>2 DEF Accounted
    <3>4. QED
      BY <3>2, <3>3
  <2>3. QED
    BY <1>13, <2>1, <2>2 DEF Accounted
<1>14. SentInv'
  BY <1>1, <1>2, <1>10, <1>13 DEF SentInv
<1>15. StageInv'
  BY <1>1, <1>2 DEF StageInv, Message1
<1>16. ReadInv'
  <2>1. SUFFICES ASSUME ~i2cWaits.lateRead PROVE ReadInv'
    BY <1>1 DEF ReadInv
  <2>2. NoReads(mtx) => NoReads(x) /\ mrx' = mrx
    <3>1. 1 \in 1 .. Len(mtx)
      BY <1>5
    <3>2. QED
      BY <1>5, <1>9, <3>1 DEF NoReads
  <2>3. Message1' = Message1 /\ i2cAt' = i2cAt /\ i2cMsgs' = i2cMsgs /\ i2cGot' = i2cGot
    BY <1>1 DEF Message1
  <2>4. i2cAt # "rx" /\ ~(i2cAt = "send" /\ i2cMsgs.left = <<>>)
    BY <1>1, <1>2 DEF StageInv
  <2>5. CASE i2cAt = "poll"
    <3>1. PICK n : n = Message1.n
      OBVIOUS
    <3>2. PICK t : t = i2cMsgs.t
      OBVIOUS
    <3>3. PICK k : k = i2cMsgs.k
      OBVIOUS
    <3>4. ReadLast(t, k, n, mtx, mrx) /\ OwnBytes(t, k, i2cGot, mrx) /\ Len(i2cGot) + Len(mrx) <= n /\ i2cGot = <<>>
      BY <1>2, <2>1, <2>5, <3>1, <3>2, <3>3 DEF ReadInv, StageInv
    <3>5. CASE c.read
      <4>1. 1 \in 1 .. Len(mtx)
        BY <1>5
      <4>2. 1 = Len(mtx) /\ c.t = t /\ c.k = k /\ c.n = n /\ mrx = <<>>
        BY <1>5, <3>4, <3>5, <4>1 DEF ReadLast
      <4>3. mrx' = more
        BY <1>8, <1>9, <3>5, <4>2
      <4>4. 1 .. Len(x) = {} /\ Len(i2cGot) = 0
        BY <1>5, <3>4, <4>2
      <4>5. ReadLast(t, k, n, x, mrx') /\ NoReads(x)
        BY <4>4 DEF ReadLast, NoReads
      <4>6. OwnBytes(t, k, i2cGot, mrx')
        BY <1>8, <3>4, <4>2, <4>3, <4>4 DEF OwnBytes
      <4>7. Len(i2cGot) + Len(mrx') <= n
        BY <1>6, <1>8, <4>2, <4>3, <4>4
      <4>8. Message1.read
        <5>1. ~Message1.read => NoReads(mtx)
          BY <1>2, <2>1, <2>5 DEF ReadInv
        <5>2. QED
          BY <1>5, <3>5, <4>1, <5>1 DEF NoReads
      <4>9. QED
        BY <1>10, <2>3, <2>5, <3>1, <3>2, <3>3, <4>5, <4>6, <4>7, <4>8 DEF ReadInv
    <3>6. CASE ~c.read
      <4>1. mrx' = mrx
        BY <1>9, <3>6
      <4>2. ReadLast(t, k, n, x, mrx)
        <5>1. SUFFICES ASSUME NEW i \in 1 .. Len(x), x[i].read
                       PROVE  i = Len(x) /\ x[i].t = t /\ x[i].k = k /\ x[i].n = n /\ mrx = <<>>
          BY DEF ReadLast
        <5>2. x[i] = mtx[i + 1] /\ i + 1 \in 1 .. Len(mtx)
          BY <1>5, <5>1
        <5>3. i + 1 = Len(mtx) /\ mtx[i + 1].t = t /\ mtx[i + 1].k = k /\ mtx[i + 1].n = n /\ mrx = <<>>
          BY <3>4, <5>1, <5>2 DEF ReadLast
        <5>4. i = Len(x)
          BY <1>5, <5>1, <5>3
        <5>5. QED
          BY <5>2, <5>3, <5>4
      <4>3. ~Message1.read => NoReads(mtx) /\ mrx = <<>>
        BY <1>2, <2>1, <2>5 DEF ReadInv
      <4>4. QED
        BY <1>10, <2>2, <2>3, <2>5, <3>1, <3>2, <3>3, <3>4, <4>1, <4>2, <4>3 DEF ReadInv
    <3>7. QED
      BY <3>5, <3>6
  <2>6. CASE i2cAt # "poll"
    <3>1. NoReads(mtx) /\ mrx = <<>>
      BY <1>2, <2>1, <2>4, <2>6 DEF ReadInv, StageInv
    <3>2. QED
      BY <1>10, <2>2, <2>3, <2>4, <2>6, <3>1 DEF ReadInv
  <2>7. QED
    BY <2>5, <2>6
<1>17. OkIsAcked' /\ I2cReadIsOwn'
  BY <1>1, I2cOutKept
<1>18. QED
  BY <1>12, <1>14, <1>15, <1>16, <1>17 DEF I2cInv

LEMMA I2cRefusedKeeps ==
  ASSUME I2cInv, I2cRefused
  PROVE  I2cInv'
<1>1. /\ mtx # <<>> /\ (mtx' = Tail(mtx) \/ mtx' = <<>>) /\ smsta' # {}
      /\ UNCHANGED <<mrx, i2cMsgs, i2cAt, i2cGot, i2cOut, i2cDevice, i2cWaits>>
  BY DEF I2cRefused, XferInProgress
<1>2. I2cTypeOK /\ StageInv /\ SentInv /\ ReadInv
  BY DEF I2cInv
<1>3. PICK x : x = mtx'
  OBVIOUS
<1>4. /\ mtx \in Seq(I2cCommands) /\ x \in Seq(I2cCommands) /\ Len(x) \in Nat /\ Len(mtx) \in Nat
      /\ (x = <<>> /\ Len(x) = 0) \/ (Len(x) = Len(mtx) - 1 /\ \A i \in 1 .. Len(x) : x[i] = mtx[i + 1] /\ i + 1 \in 1 .. Len(mtx))
  <2>1. mtx \in Seq(I2cCommands)
    BY <1>2 DEF I2cTypeOK
  <2>2. CASE x = Tail(mtx)
    <3>1. mtx # <<>>
      BY <1>1
    <3>2. /\ x \in Seq(I2cCommands) /\ Len(x) \in Nat /\ Len(mtx) \in Nat \ {0} /\ Len(x) = Len(mtx) - 1
          /\ \A i \in 1 .. Len(x) : x[i] = mtx[i + 1] /\ i + 1 \in 1 .. Len(mtx)
      BY ONLY <2>1, <2>2, <3>1
    <3>3. QED
      BY ONLY <2>1, <3>2
  <2>3. CASE x = <<>>
    BY <2>1, <2>3
  <2>4. QED
    BY <1>1, <1>3, <2>2, <2>3
<1>5. I2cTypeOK'
  BY <1>1, <1>2, <1>3, <1>4 DEF I2cTypeOK
<1>6. StageInv'
  BY <1>1, <1>2 DEF StageInv, Message1
<1>7. SentInv'
  BY <1>1 DEF SentInv, Accounted
<1>8. NoReads(mtx) => NoReads(x)
  BY <1>4 DEF NoReads
<1>9. \A t, k, n : ReadLast(t, k, n, mtx, mrx) => ReadLast(t, k, n, x, mrx)
  <2>1. SUFFICES ASSUME NEW t, NEW k, NEW n, ReadLast(t, k, n, mtx, mrx), NEW i \in 1 .. Len(x), x[i].read
                 PROVE  i = Len(x) /\ x[i].t = t /\ x[i].k = k /\ x[i].n = n /\ mrx = <<>>
    BY DEF ReadLast
  <2>2. Len(x) = Len(mtx) - 1 /\ x[i] = mtx[i + 1] /\ i + 1 \in 1 .. Len(mtx)
    BY <1>4, <2>1
  <2>3. i + 1 = Len(mtx) /\ mtx[i + 1].t = t /\ mtx[i + 1].k = k /\ mtx[i + 1].n = n /\ mrx = <<>>
    BY <2>1, <2>2 DEF ReadLast
  <2>4. i = Len(x)
    BY <1>4, <2>1, <2>2, <2>3
  <2>5. QED
    BY <2>2, <2>3, <2>4
<1>10. ReadInv'
  <2>1. Message1' = Message1
    BY <1>1 DEF Message1
  <2>2. QED
    BY <1>1, <1>2, <1>3, <1>8, <1>9, <2>1 DEF ReadInv
<1>11. OkIsAcked' /\ I2cReadIsOwn'
  BY <1>1, I2cOutKept
<1>12. QED
  BY <1>5, <1>6, <1>7, <1>10, <1>11 DEF I2cInv

LEMMA I2cStepHolds ==
  ASSUME I2cAssumption, I2cInv, [I2cNext]_i2cVars
  PROVE  I2cInv'
<1>1. CASE UNCHANGED i2cVars
  BY <1>1 DEF i2cVars, I2cInv, I2cTypeOK, StageInv, SentInv, ReadInv, OkIsAcked, I2cReadIsOwn, Message1
<1>2. CASE I2cNext
  BY <1>2, BeginI2cKeeps, EnsureBusIdleKeeps, SendMessageKeeps, PollAndRxFailKeep, PollDoneKeeps, WaitRxKeeps,
     EndI2cKeeps, I2cAckedKeeps, I2cRefusedKeeps DEF I2cNext
<1>3. QED
  BY <1>1, <1>2

(* An I2C transfer that succeeds had every message acknowledged, the writes it  *)
(* did not wait for included, and what it read is what it asked for, in order,  *)
(* unless an earlier one left a read with the controller.                       *)
THEOREM I2cTransfersAreOwn == I2cSpec => [](OkIsAcked /\ I2cReadIsOwn)
<1>1. I2cInv => OkIsAcked /\ I2cReadIsOwn
  BY DEF I2cInv
<1>2. I2cAssumption
  BY I2cAssumption
<1>3. QED
  BY <1>1, <1>2, I2cInitHolds, I2cStepHolds, PTL DEF I2cSpec

------------------------------------------------------------------------------
(* SpiHid: the transport                                                       *)

(* SPI HID: the reports' packets are on the line in the order in which they     *)
(* were sent, and behind those received; a report handed on is behind both.     *)
HidPackets == [kind : {"boot", "report", "answer"}, id : Nat, i : Nat, n : Nat]
IsReport(p) == p.kind = "report"
Sent(p) == 2 * p.id + p.i
Past(x, packets) == \A j \in 1 .. Len(packets) : IsReport(packets[j]) => x < Sent(packets[j])
LineOK(line, top) ==
  \A j \in 1 .. Len(line) :
    IsReport(line[j]) => /\ line[j].n = 2 /\ line[j].i <= 1 /\ line[j].id <= top
                         /\ \A h \in 1 .. j - 1 : IsReport(line[h]) => Sent(line[h]) < Sent(line[j])
AsmOK(parts, line, top) ==
  \A j \in 1 .. Len(parts) :
    /\ parts[j].i = j - 1 /\ parts[j].kind = parts[1].kind
    /\ IsReport(parts[j]) => /\ parts[j].n = 2 /\ parts[j].i = 0 /\ parts[j].id <= top
                             /\ Past(Sent(parts[j]), line)
HandedOn(m, parts, line, top) ==
  /\ Len(m) = 2 /\ m[1].n = 2 /\ m[1].id = m[2].id /\ m[1].kind = m[2].kind /\ m[1].id <= top
  /\ Past(2 * m[1].id + 1, parts) /\ Past(2 * m[1].id + 1, line)
ReportsOK(reports, parts, line, top) ==
  /\ \A a \in 1 .. Len(reports) : HandedOn(reports[a], parts, line, top)
  /\ \A a, b \in 1 .. Len(reports) : a < b => reports[a][1].id < reports[b][1].id

HidDevices == [line : Seq(HidPackets), asked : SUBSET Nat, booted : BOOLEAN, reports : Nat]
HidTypeOK ==
  /\ phase \in {"off", "boot", "request", "up", "failed"}
  /\ request \in [n : Nat, sent : BOOLEAN] /\ asm \in Seq(HidPackets) /\ worker \in Nat
  /\ device \in HidDevices
  /\ handled \in [reports : Seq(Seq(HidPackets)), answers : Seq(Nat)]
PacketsOK(line, parts, top, reports) ==
  LineOK(line, top) /\ AsmOK(parts, line, top) /\ ReportsOK(reports, parts, line, top)
PacketInv == PacketsOK(device.line, asm, device.reports, handled.reports)
AnswerInv ==
  /\ phase \in {"off", "boot"} => handled.answers = <<>>
  /\ phase = "request" => request.n = Len(handled.answers) + 1
HidInv == HidTypeOK /\ PacketInv /\ AnswerInv /\ AnswerIsOwn /\ NeverDeaf

LEMMA HidPacketParts ==
  ASSUME NEW q \in HidPackets
  PROVE  q.id \in Nat /\ q.i \in Nat /\ q.n \in Nat /\ Sent(q) \in Nat /\ Sent(q) = 2 * q.id + q.i
  BY DEF HidPackets, Sent

(* The first packet leaves the line, lost or read. *)
LEMMA HidLineTail ==
  ASSUME NEW line \in Seq(HidPackets), line # <<>>, NEW top \in Nat, LineOK(line, top)
  PROVE  /\ LineOK(Tail(line), top) /\ Tail(line) \in Seq(HidPackets) /\ Head(line) \in HidPackets
         /\ \A x : Past(x, line) => Past(x, Tail(line)) /\ (IsReport(Head(line)) => x < Sent(Head(line)))
         /\ IsReport(Head(line)) => /\ Head(line).n = 2 /\ Head(line).i <= 1 /\ Head(line).id <= top
                                    /\ Past(Sent(Head(line)), Tail(line))
<1>1. PICK r : r = Tail(line)
  OBVIOUS
<1>2. PICK p : p = Head(line)
  OBVIOUS
<1>3. /\ Len(line) \in Nat \ {0} /\ p = line[1] /\ p \in HidPackets /\ r \in Seq(HidPackets) /\ Len(r) = Len(line) - 1
      /\ \A j \in 1 .. Len(r) : r[j] = line[j + 1] /\ j + 1 \in 1 .. Len(line)
  BY <1>1, <1>2
<1>4. LineOK(r, top)
  <2>1. SUFFICES ASSUME NEW j \in 1 .. Len(r), IsReport(r[j])
                 PROVE  /\ r[j].n = 2 /\ r[j].i <= 1 /\ r[j].id <= top
                        /\ \A h \in 1 .. j - 1 : IsReport(r[h]) => Sent(r[h]) < Sent(r[j])
    BY DEF LineOK
  <2>2. r[j] = line[j + 1] /\ j + 1 \in 1 .. Len(line)
    BY <1>3
  <2>3. /\ r[j].n = 2 /\ r[j].i <= 1 /\ r[j].id <= top
        /\ \A h \in 1 .. (j + 1) - 1 : IsReport(line[h]) => Sent(line[h]) < Sent(r[j])
    BY <2>1, <2>2 DEF LineOK
  <2>4. \A h \in 1 .. j - 1 : r[h] = line[h + 1] /\ h + 1 \in 1 .. (j + 1) - 1
    BY <1>3
  <2>5. QED
    BY <2>3, <2>4
<1>5. ASSUME NEW x, Past(x, line)  PROVE Past(x, r) /\ (IsReport(p) => x < Sent(p))
  <2>1. 1 \in 1 .. Len(line)
    BY <1>3
  <2>2. QED
    BY <1>3, <1>5, <2>1 DEF Past
<1>6. ASSUME IsReport(p)  PROVE p.n = 2 /\ p.i <= 1 /\ p.id <= top /\ Past(Sent(p), r)
  <2>1. 1 \in 1 .. Len(line) /\ \A j \in 1 .. Len(r) : 1 \in 1 .. (j + 1) - 1
    BY <1>3
  <2>2. p.n = 2 /\ p.i <= 1 /\ p.id <= top
    BY <1>3, <1>6, <2>1 DEF LineOK
  <2>3. ASSUME NEW j \in 1 .. Len(r), IsReport(r[j])  PROVE Sent(p) < Sent(r[j])
    BY <1>3, <1>6, <2>1, <2>3 DEF LineOK
  <2>4. QED
    BY <2>2, <2>3 DEF Past
<1>7. QED
  BY <1>1, <1>2, <1>3, <1>4, <1>5, <1>6

(* The device sends packets of one kind: none of a report, or those of the next one. *)
LEMMA HidLineGrows ==
  ASSUME NEW line \in Seq(HidPackets), NEW top \in Nat, LineOK(line, top), NEW more \in Seq(HidPackets),
         NEW up \in Nat, top <= up,
         \/ \A j \in 1 .. Len(more) : ~IsReport(more[j])
         \/ up = top + 1 /\ Len(more) = 2 /\ \A j \in 1 .. 2 : more[j].id = up /\ more[j].i = j - 1 /\ more[j].n = 2
  PROVE  /\ LineOK(line \o more, up) /\ line \o more \in Seq(HidPackets)
         /\ \A x \in Nat : Past(x, line) /\ x <= 2 * top + 1 => Past(x, line \o more)
<1>1. PICK l : l = line \o more
  OBVIOUS
<1>2. PICK n : n = Len(line)
  OBVIOUS
<1>3. n \in Nat /\ Len(more) \in Nat
  BY <1>2
<1>4. /\ l \in Seq(HidPackets) /\ Len(l) = n + Len(more)
      /\ \A j \in 1 .. n + Len(more) : l[j] = IF j <= n THEN line[j] ELSE more[j - n]
  BY ONLY <1>1, <1>2, ConcatProperties, line \in Seq(HidPackets), more \in Seq(HidPackets)
<1>5. ASSUME NEW j \in 1 .. Len(l), IsReport(l[j])
      PROVE  \/ j \in 1 .. n /\ l[j] = line[j] /\ line[j].n = 2 /\ line[j].i <= 1 /\ line[j].id <= top
             \/ j > n /\ l[j] = more[j - n] /\ j - n \in 1 .. 2 /\ up = top + 1 /\ l[j].id = up /\ l[j].i = j - n - 1 /\ l[j].n = 2
  <2>1. CASE j \in 1 .. n
    <3>1. l[j] = line[j]
      BY <1>3, <1>4, <2>1
    <3>2. j \in 1 .. Len(line) /\ IsReport(line[j])
      BY <1>2, <1>5, <2>1, <3>1
    <3>3. line[j].n = 2 /\ line[j].i <= 1 /\ line[j].id <= top
      BY ONLY <3>2, LineOK(line, top) DEF LineOK
    <3>4. QED
      BY <2>1, <3>1, <3>3
  <2>2. CASE j > n
    <3>1. j - n \in 1 .. Len(more) /\ ~(j <= n) /\ j \in 1 .. n + Len(more)
      BY <1>3, <1>4, <2>2
    <3>2. l[j] = more[j - n]
      BY <1>4, <3>1
    <3>3. up = top + 1 /\ Len(more) = 2 /\ \A h \in 1 .. 2 : more[h].id = up /\ more[h].i = h - 1 /\ more[h].n = 2
      BY <1>5, <3>1, <3>2
    <3>4. QED
      BY <2>2, <3>1, <3>2, <3>3
  <2>3. QED
    BY <1>3, <1>4, <2>1, <2>2
<1>6. \A j \in 1 .. Len(l) : l[j] \in HidPackets
  BY <1>4
<1>7. \A j \in 1 .. Len(l) : IsReport(l[j]) /\ j \in 1 .. n => Sent(l[j]) <= 2 * top + 1
  <2>1. SUFFICES ASSUME NEW j \in 1 .. Len(l), IsReport(l[j]), j \in 1 .. n  PROVE Sent(l[j]) <= 2 * top + 1
    OBVIOUS
  <2>2. l[j].i <= 1 /\ l[j].id <= top
    BY <1>3, <1>5, <2>1
  <2>3. Sent(l[j]) = 2 * l[j].id + l[j].i /\ l[j].id \in Nat /\ l[j].i \in Nat
    BY <1>6, HidPacketParts
  <2>4. QED
    BY <2>2, <2>3
<1>8. \A j \in 1 .. Len(l) : IsReport(l[j]) /\ j > n => Sent(l[j]) = 2 * top + 2 + (j - n - 1)
  <2>1. SUFFICES ASSUME NEW j \in 1 .. Len(l), IsReport(l[j]), j > n  PROVE Sent(l[j]) = 2 * top + 2 + (j - n - 1)
    OBVIOUS
  <2>2. l[j].i = j - n - 1 /\ l[j].id = top + 1
    BY <1>3, <1>5, <2>1
  <2>3. Sent(l[j]) = 2 * l[j].id + l[j].i
    BY <1>6, HidPacketParts
  <2>4. QED
    BY <1>3, <2>2, <2>3
<1>9. LineOK(l, up)
  <2>1. SUFFICES ASSUME NEW j \in 1 .. Len(l), IsReport(l[j])
                 PROVE  /\ l[j].n = 2 /\ l[j].i <= 1 /\ l[j].id <= up
                        /\ \A h \in 1 .. j - 1 : IsReport(l[h]) => Sent(l[h]) < Sent(l[j])
    BY DEF LineOK
  <2>2. CASE j \in 1 .. n
    <3>1. l[j] = line[j] /\ l[j].n = 2 /\ l[j].i <= 1 /\ l[j].id <= top
      BY <1>3, <1>5, <2>1, <2>2
    <3>2. \A h \in 1 .. j - 1 : IsReport(line[h]) => Sent(line[h]) < Sent(line[j])
      BY <1>2, <2>1, <2>2, <3>1 DEF LineOK
    <3>3. \A h \in 1 .. j - 1 : l[h] = line[h]
      BY <1>3, <1>4, <2>2
    <3>4. l[j].id <= up
      <4>1. l[j] \in HidPackets
        BY ONLY <1>6, j \in 1 .. Len(l)
      <4>2. l[j].id \in Nat
        BY ONLY <4>1, HidPacketParts
      <4>3. QED
        BY ONLY <3>1, <4>2, top \in Nat, up \in Nat, top <= up
    <3>5. QED
      BY <3>1, <3>2, <3>3, <3>4
  <2>3. CASE j > n
    <3>1. l[j].n = 2 /\ l[j].i = j - n - 1 /\ j - n \in 1 .. 2 /\ l[j].id = up
      BY <1>3, <1>5, <2>1, <2>3
    <3>2. ASSUME NEW h \in 1 .. j - 1, IsReport(l[h])  PROVE Sent(l[h]) < Sent(l[j])
      <4>1. h \in 1 .. Len(l) /\ (h \in 1 .. n \/ h > n)
        BY <1>3, <1>4
      <4>2. Sent(l[j]) = 2 * top + 2 + (j - n - 1)
        BY <1>8, <2>1, <2>3
      <4>3. CASE h \in 1 .. n
        <5>1. Sent(l[h]) <= 2 * top + 1 /\ Sent(l[h]) \in Nat
          BY <1>6, <1>7, <3>2, <4>1, <4>3, HidPacketParts
        <5>2. QED
          BY <1>3, <2>3, <4>2, <5>1
      <4>4. CASE h > n
        <5>1. Sent(l[h]) = 2 * top + 2 + (h - n - 1)
          BY <1>8, <3>2, <4>1, <4>4
        <5>2. QED
          BY <1>3, <4>2, <5>1
      <4>5. QED
        BY <4>1, <4>3, <4>4
    <3>3. l[j].i <= 1 /\ l[j].id <= up
      BY <1>3, <3>1
    <3>4. QED
      BY <3>1, <3>2, <3>3
  <2>4. QED
    BY <1>3, <1>4, <2>2, <2>3
<1>10. ASSUME NEW x \in Nat, Past(x, line), x <= 2 * top + 1  PROVE Past(x, l)
  <2>1. SUFFICES ASSUME NEW j \in 1 .. Len(l), IsReport(l[j])  PROVE x < Sent(l[j])
    BY DEF Past
  <2>2. CASE j \in 1 .. n
    <3>1. l[j] = line[j]
      BY <1>3, <1>5, <2>1, <2>2
    <3>2. QED
      BY <1>2, <1>10, <2>1, <2>2, <3>1 DEF Past
  <2>3. CASE j > n
    <3>1. Sent(l[j]) = 2 * top + 2 + (j - n - 1)
      BY <1>8, <2>1, <2>3
    <3>2. QED
      BY SMTT(20), <1>3, <1>10, <2>3, <3>1
  <2>4. QED
    BY <1>3, <1>4, <2>2, <2>3
<1>11. QED
  BY <1>1, <1>4, <1>9, <1>10

(* More packets on the line, behind all that were there. *)
LEMMA HidSends ==
  ASSUME NEW line \in Seq(HidPackets), NEW parts \in Seq(HidPackets), NEW top \in Nat, NEW reports,
         reports \in Seq(Seq(HidPackets)), PacketsOK(line, parts, top, reports), NEW more \in Seq(HidPackets),
         NEW up \in Nat, top <= up,
         \/ \A j \in 1 .. Len(more) : ~IsReport(more[j])
         \/ up = top + 1 /\ Len(more) = 2 /\ \A j \in 1 .. 2 : more[j].id = up /\ more[j].i = j - 1 /\ more[j].n = 2
  PROVE  PacketsOK(line \o more, parts, up, reports)
<1>1. LineOK(line, top) /\ AsmOK(parts, line, top) /\ ReportsOK(reports, parts, line, top)
  BY DEF PacketsOK
<1>2. PICK l : l = line \o more
  OBVIOUS
<1>3. LineOK(l, up) /\ \A x \in Nat : Past(x, line) /\ x <= 2 * top + 1 => Past(x, l)
  BY <1>1, <1>2, HidLineGrows
<1>4. AsmOK(parts, l, up)
  <2>1. SUFFICES ASSUME NEW j \in 1 .. Len(parts)
                 PROVE  /\ parts[j].i = j - 1 /\ parts[j].kind = parts[1].kind
                        /\ IsReport(parts[j]) => /\ parts[j].n = 2 /\ parts[j].i = 0 /\ parts[j].id <= up
                                                 /\ Past(Sent(parts[j]), l)
    BY DEF AsmOK
  <2>2. /\ parts[j].i = j - 1 /\ parts[j].kind = parts[1].kind
        /\ IsReport(parts[j]) => /\ parts[j].n = 2 /\ parts[j].i = 0 /\ parts[j].id <= top
                                 /\ Past(Sent(parts[j]), line)
    BY <1>1 DEF AsmOK
  <2>3. parts[j] \in HidPackets
    OBVIOUS
  <2>4. parts[j].id \in Nat /\ Sent(parts[j]) \in Nat /\ Sent(parts[j]) = 2 * parts[j].id + parts[j].i
    BY <2>3, HidPacketParts
  <2>5. IsReport(parts[j]) => parts[j].id <= up /\ Sent(parts[j]) <= 2 * top + 1
    BY <2>2, <2>4
  <2>6. QED
    BY <1>3, <2>2, <2>4, <2>5
<1>5. ReportsOK(reports, parts, l, up)
  <2>1. ASSUME NEW a \in 1 .. Len(reports)  PROVE HandedOn(reports[a], parts, l, up)
    <3>1. PICK m : m = reports[a]
      OBVIOUS
    <3>2. m \in Seq(HidPackets) /\ HandedOn(m, parts, line, top)
      BY <1>1, <3>1 DEF ReportsOK
    <3>3. /\ Len(m) = 2 /\ m[1].n = 2 /\ m[1].id = m[2].id /\ m[1].kind = m[2].kind /\ m[1].id <= top
          /\ Past(2 * m[1].id + 1, parts) /\ Past(2 * m[1].id + 1, line)
      BY <3>2 DEF HandedOn
    <3>4. m[1] \in HidPackets
      <4>1. m \in Seq(HidPackets) /\ 1 \in 1 .. Len(m)
        <5>1. Len(m) = 2
          BY ONLY <3>3
        <5>2. 1 \in 1 .. Len(m)
          BY ONLY <5>1
        <5>3. QED
          BY ONLY <3>2, <5>2
      <4>2. QED
        BY ONLY <4>1
    <3>5. m[1].id \in Nat
      BY <3>4, HidPacketParts
    <3>6. m[1].id <= up /\ 2 * m[1].id + 1 \in Nat /\ 2 * m[1].id + 1 <= 2 * top + 1
      BY ONLY <3>3, <3>5, top \in Nat, up \in Nat, top <= up
    <3>7. QED
      BY <1>3, <3>1, <3>3, <3>6 DEF HandedOn
  <2>2. QED
    BY <1>1, <2>1 DEF ReportsOK
<1>6. QED
  BY <1>2, <1>3, <1>4, <1>5 DEF PacketsOK

LEMMA HidNoParts == (\A x : Past(x, <<>>)) /\ \A line, top : AsmOK(<<>>, line, top)
<1>1. PICK e : e = <<>>
  OBVIOUS
<1>2. Len(e) = 0
  BY <1>1
<1>3. QED
  BY <1>1, <1>2 DEF Past, AsmOK

(* A packet fewer on the line, and what was received kept or given up. *)
LEMMA HidDrops ==
  ASSUME NEW line \in Seq(HidPackets), NEW parts, NEW top \in Nat, NEW reports, PacketsOK(line, parts, top, reports),
         NEW rest, rest = line \/ (line # <<>> /\ rest = Tail(line)), NEW kept \in {parts, <<>>}
  PROVE  PacketsOK(rest, kept, top, reports) /\ rest \in Seq(HidPackets)
<1>1. LineOK(line, top) /\ AsmOK(parts, line, top) /\ ReportsOK(reports, parts, line, top)
  BY DEF PacketsOK
<1>2. LineOK(rest, top) /\ rest \in Seq(HidPackets) /\ \A x : Past(x, line) => Past(x, rest)
  BY <1>1, HidLineTail
<1>3. AsmOK(kept, rest, top)
  BY <1>1, <1>2, HidNoParts DEF AsmOK
<1>4. \A x : Past(x, parts) => Past(x, kept)
  BY HidNoParts
<1>5. \A m : HandedOn(m, parts, line, top) => HandedOn(m, kept, rest, top)
  BY <1>2, <1>4 DEF HandedOn
<1>6. ReportsOK(reports, kept, rest, top)
  BY <1>1, <1>5 DEF ReportsOK
<1>7. QED
  BY <1>2, <1>3, <1>6 DEF PacketsOK

(* What the probe and its requests depend on is left alone. *)
LEMMA HidCalm ==
  ASSUME AnswerInv, AnswerIsOwn, phase' = phase \/ phase' = "failed", handled'.answers = handled.answers,
         request'.n = request.n
  PROVE  AnswerInv' /\ AnswerIsOwn'
  BY DEF AnswerInv, AnswerIsOwn

LEMMA HidInvParts ==
  ASSUME HidInv
  PROVE  /\ HidTypeOK /\ AnswerInv /\ AnswerIsOwn /\ NeverDeaf
         /\ PacketsOK(device.line, asm, device.reports, handled.reports)
         /\ device \in HidDevices /\ device.line \in Seq(HidPackets) /\ device.reports \in Nat /\ asm \in Seq(HidPackets)
         /\ handled.reports \in Seq(Seq(HidPackets)) /\ handled.answers \in Seq(Nat)
         /\ request.n \in Nat /\ worker \in Nat
  BY DEF HidInv, HidTypeOK, PacketInv, HidDevices

LEMMA HidDeviceSendsKeeps ==
  ASSUME HidInv, NEW more \in Seq(HidPackets), NEW up \in Nat, device.reports <= up,
         \/ \A j \in 1 .. Len(more) : ~IsReport(more[j])
         \/ up = device.reports + 1 /\ Len(more) = 2 /\ \A j \in 1 .. 2 : more[j].id = up /\ more[j].i = j - 1 /\ more[j].n = 2,
         device' \in HidDevices, device'.line = device.line \o more, device'.reports = up,
         UNCHANGED <<phase, request, asm, gpio, workQueued, worker, handled>>
  PROVE  HidInv'
<1>1. PacketInv'
  <2>1. PacketsOK(device.line \o more, asm, up, handled.reports)
    BY HidInvParts, HidSends
  <2>2. asm' = asm /\ handled' = handled
    OBVIOUS
  <2>3. QED
    BY <2>1, <2>2 DEF PacketInv
<1>2. HidTypeOK'
  BY HidInvParts DEF HidTypeOK
<1>3. AnswerInv' /\ AnswerIsOwn' /\ NeverDeaf'
  BY HidInvParts, HidCalm DEF NeverDeaf
<1>4. QED
  BY <1>1, <1>2, <1>3 DEF HidInv

LEMMA HidPacketsAre ==
  ASSUME NEW kind \in {"boot", "report", "answer"}, NEW id \in Nat, NEW n \in {1, 2}
  PROVE  /\ Packets(kind, id, n) \in Seq(HidPackets) /\ Len(Packets(kind, id, n)) = n
         /\ \A j \in 1 .. n : Packets(kind, id, n)[j] = [kind |-> kind, id |-> id, i |-> j - 1, n |-> n]
<1>1. \A j \in 1 .. n : [kind |-> kind, id |-> id, i |-> j - 1, n |-> n] \in HidPackets
  BY DEF HidPackets
<1>2. QED
  BY <1>1 DEF Packets

LEMMA HidDeviceActsKeep ==
  ASSUME HidInv, DeviceBoots \/ DeviceReports \/ (\E r \in 1 .. HidRequests : DeviceAnswers(r))
  PROVE  HidInv'
<1>1. ASSUME DeviceBoots  PROVE HidInv'
  <2>1. PICK more : more = Packets("boot", 0, 1)
    OBVIOUS
  <2>2. more \in Seq(HidPackets) /\ Len(more) = 1 /\ \A j \in 1 .. 1 : more[j] = [kind |-> "boot", id |-> 0, i |-> j - 1, n |-> 1]
    BY <2>1, HidPacketsAre
  <2>3. \A j \in 1 .. Len(more) : ~IsReport(more[j])
    BY <2>2 DEF IsReport
  <2>4. device' = [device EXCEPT !.line = device.line \o more, !.booted = TRUE] /\ device.line \o more \in Seq(HidPackets)
    BY <1>1, <2>1, <2>2, HidInvParts DEF DeviceBoots
  <2>5. device' \in HidDevices /\ device'.line = device.line \o more /\ device'.reports = device.reports
    BY <2>4, HidInvParts DEF HidDevices
  <2>6. UNCHANGED <<phase, request, asm, gpio, workQueued, worker, handled>>
    BY <1>1 DEF DeviceBoots
  <2>7. device.reports \in Nat /\ device.reports <= device.reports
    BY HidInvParts
  <2>8. QED
    BY <2>2, <2>3, <2>5, <2>6, <2>7, HidDeviceSendsKeeps
<1>2. ASSUME DeviceReports  PROVE HidInv'
  <2>0. PICK up : up = device.reports + 1
    OBVIOUS
  <2>1. PICK more : more = Packets("report", up, 2)
    OBVIOUS
  <2>2. up \in Nat /\ device.reports <= up
    BY <2>0, HidInvParts
  <2>3. more \in Seq(HidPackets) /\ Len(more) = 2 /\ \A j \in 1 .. 2 : more[j] = [kind |-> "report", id |-> up, i |-> j - 1, n |-> 2]
    BY <2>1, <2>2, HidPacketsAre
  <2>4. \A j \in 1 .. 2 : more[j].id = up /\ more[j].i = j - 1 /\ more[j].n = 2
    BY <2>3
  <2>5. device' = [device EXCEPT !.line = device.line \o more, !.reports = up] /\ device.line \o more \in Seq(HidPackets)
    BY <1>2, <2>0, <2>1, <2>3, HidInvParts DEF DeviceReports
  <2>6. device' \in HidDevices /\ device'.line = device.line \o more /\ device'.reports = up
    BY <2>2, <2>5, HidInvParts DEF HidDevices
  <2>7. UNCHANGED <<phase, request, asm, gpio, workQueued, worker, handled>>
    BY <1>2 DEF DeviceReports
  <2>8. QED
    BY <2>0, <2>2, <2>3, <2>4, <2>6, <2>7, HidDeviceSendsKeeps
<1>3. ASSUME NEW r \in 1 .. HidRequests, DeviceAnswers(r)  PROVE HidInv'
  <2>1. PICK more : more = Packets("answer", r, 2)
    OBVIOUS
  <2>2. r \in device.asked /\ r \in Nat
    BY <1>3, HidInvParts DEF DeviceAnswers, HidDevices
  <2>3. more \in Seq(HidPackets) /\ Len(more) = 2 /\ \A j \in 1 .. 2 : more[j] = [kind |-> "answer", id |-> r, i |-> j - 1, n |-> 2]
    BY <2>1, <2>2, HidPacketsAre
  <2>4. \A j \in 1 .. Len(more) : ~IsReport(more[j])
    BY <2>3 DEF IsReport
  <2>5. device' = [device EXCEPT !.line = device.line \o more, !.asked = device.asked \ {r}] /\ device.line \o more \in Seq(HidPackets)
    <3>1. device' = [device EXCEPT !.line = device.line \o more, !.asked = device.asked \ {r}]
      BY ONLY <1>3, <2>1 DEF DeviceAnswers
    <3>2. device.line \in Seq(HidPackets)
      BY HidInvParts
    <3>3. QED
      BY ONLY <2>3, <3>1, <3>2
  <2>6. device' \in HidDevices /\ device'.line = device.line \o more /\ device'.reports = device.reports
    BY <2>5, HidInvParts DEF HidDevices
  <2>7. UNCHANGED <<phase, request, asm, gpio, workQueued, worker, handled>>
    BY <1>3 DEF DeviceAnswers
  <2>8. device.reports \in Nat /\ device.reports <= device.reports
    BY HidInvParts
  <2>9. QED
    BY <2>3, <2>4, <2>6, <2>7, <2>8, HidDeviceSendsKeeps
<1>4. QED
  BY <1>1, <1>2, <1>3

LEMMA LosePacketKeeps ==
  ASSUME HidInv, LosePacket
  PROVE  HidInv'
<1>1. /\ device.line # <<>> /\ device' = [device EXCEPT !.line = Tail(device.line)]
      /\ UNCHANGED <<phase, request, asm, gpio, workQueued, worker, handled>>
  BY DEF LosePacket, LineActive
<1>2. PICK rest : rest = Tail(device.line)
  OBVIOUS
<1>3. PacketsOK(rest, asm, device.reports, handled.reports) /\ rest \in Seq(HidPackets)
  BY <1>1, <1>2, HidInvParts, HidDrops
<1>4. device' \in HidDevices /\ device'.line = rest /\ device'.reports = device.reports
  BY <1>1, <1>2, <1>3, HidInvParts DEF HidDevices
<1>5. PacketInv' /\ HidTypeOK'
  BY <1>1, <1>3, <1>4, HidInvParts DEF PacketInv, HidTypeOK
<1>6. AnswerInv' /\ AnswerIsOwn' /\ NeverDeaf'
  BY <1>1, HidInvParts, HidCalm DEF NeverDeaf
<1>7. QED
  BY <1>5, <1>6 DEF HidInv

(* A read that gives up what was received, or ends a message that is no report. *)
LEMMA HidReadDrops ==
  ASSUME HidInv, ReadFails \/ NothingToRead \/ ReadsPacket, asm' = <<>>, handled'.reports = handled.reports
  PROVE  PacketInv' /\ device' \in HidDevices /\ asm' \in Seq(HidPackets)
<1>1. device' = device \/ (device.line # <<>> /\ device' = [device EXCEPT !.line = Tail(device.line)])
  BY DEF ReadFails, NothingToRead, ReadsPacket, LineActive
<1>2. PICK rest : rest = IF device' = device THEN device.line ELSE Tail(device.line)
  OBVIOUS
<1>3. rest = device.line \/ (device.line # <<>> /\ rest = Tail(device.line))
  BY <1>1, <1>2
<1>4. PacketsOK(rest, <<>>, device.reports, handled.reports) /\ rest \in Seq(HidPackets)
  BY <1>3, HidInvParts, HidDrops
<1>5. device' \in HidDevices /\ device'.line = rest /\ device'.reports = device.reports
  <2>1. CASE device' = device
    BY <1>2, <2>1, HidInvParts
  <2>2. CASE device' # device
    BY <1>1, <1>2, <1>4, <2>2, HidInvParts DEF HidDevices
  <2>3. QED
    BY <2>1, <2>2
<1>6. PacketInv'
  <2>1. PacketsOK(device'.line, asm', device'.reports, handled'.reports)
    BY <1>4, <1>5
  <2>2. QED
    BY <2>1 DEF PacketInv
<1>7. QED
  BY <1>5, <1>6

LEMMA BootReadKeeps ==
  ASSUME HidInv, BootRead
  PROVE  HidInv'
<1>1. /\ phase = "boot" /\ ReadsPacket /\ asm' = <<>> /\ UNCHANGED <<gpio, workQueued, worker, handled>>
      /\ \/ phase' = "request" /\ request' = [n |-> 1, sent |-> FALSE]
         \/ phase' = "boot" /\ request' = request
  BY DEF BootRead, ReadsLast
<1>2. PacketInv' /\ device' \in HidDevices /\ asm' \in Seq(HidPackets)
  BY <1>1, HidReadDrops
<1>3. HidTypeOK'
  <2>1. request' \in [n : Nat, sent : BOOLEAN] /\ phase' \in {"off", "boot", "request", "up", "failed"}
    <3>1. [n |-> 1, sent |-> FALSE] \in [n : Nat, sent : BOOLEAN]
      OBVIOUS
    <3>2. request \in [n : Nat, sent : BOOLEAN]
      BY HidInvParts DEF HidTypeOK
    <3>3. QED
      BY ONLY <1>1, <3>1, <3>2
  <2>2. QED
    BY <1>1, <1>2, <2>1, HidInvParts DEF HidTypeOK
<1>4. handled.answers = <<>> /\ Len(handled.answers) = 0
  <2>1. handled.answers = <<>>
    BY <1>1, HidInvParts DEF AnswerInv
  <2>2. QED
    BY <2>1
<1>5. AnswerInv' /\ AnswerIsOwn' /\ NeverDeaf'
  BY <1>1, <1>4, HidInvParts DEF AnswerInv, AnswerIsOwn, NeverDeaf
<1>6. QED
  BY <1>2, <1>3, <1>5 DEF HidInv

LEMMA BootFailsKeeps ==
  ASSUME HidInv, BootFails
  PROVE  HidInv'
<1>1. /\ ReadFails \/ NothingToRead
      /\ phase' = "failed" /\ asm' = <<>> /\ UNCHANGED <<request, gpio, workQueued, worker, handled>>
  BY DEF BootFails, ProbeFails
<1>2. PacketInv' /\ device' \in HidDevices /\ asm' \in Seq(HidPackets)
  BY <1>1, HidReadDrops
<1>3. HidTypeOK'
  BY <1>1, <1>2, HidInvParts DEF HidTypeOK
<1>4. AnswerInv' /\ AnswerIsOwn' /\ NeverDeaf'
  BY <1>1, HidInvParts, HidCalm DEF NeverDeaf
<1>5. QED
  BY <1>2, <1>3, <1>4 DEF HidInv

(* The request's number is that of the answer it gets. *)
LEMMA NextHidRequestKeeps ==
  ASSUME HidInv, phase = "request", PacketInv', device' \in HidDevices, asm' \in Seq(HidPackets),
         NextHidRequest(0) \/ NextHidRequest(request.n)
  PROVE  HidInv'
<1>1. PICK a : a \in {0, request.n} /\ NextHidRequest(a)
  OBVIOUS
<1>2. /\ handled' = [handled EXCEPT !.answers = Append(handled.answers, a)]
      /\ request' = [n |-> request.n + 1, sent |-> FALSE] /\ UNCHANGED <<workQueued, worker>>
      /\ \/ phase' = "up" /\ gpio' = TRUE
         \/ UNCHANGED <<phase, gpio>>
  BY <1>1 DEF NextHidRequest
<1>3. PICK s : s = handled.answers
  OBVIOUS
<1>4. s \in Seq(Nat) /\ request.n = Len(s) + 1 /\ a \in Nat /\ request.n \in Nat /\ a \in {0, Len(s) + 1}
  BY <1>1, <1>3, HidInvParts DEF AnswerInv
<1>5. PICK r : r = Append(s, a)
  OBVIOUS
<1>6. r \in Seq(Nat) /\ Len(r) = Len(s) + 1 /\ r[Len(s) + 1] = a /\ \A i \in 1 .. Len(s) : r[i] = s[i]
  BY <1>4, <1>5
<1>7. handled' = [handled EXCEPT !.answers = r]
  BY <1>2, <1>3, <1>5
<1>8. handled' \in [reports : Seq(Seq(HidPackets)), answers : Seq(Nat)] /\ handled'.answers = r
  <2>1. handled \in [reports : Seq(Seq(HidPackets)), answers : Seq(Nat)]
    BY HidInvParts DEF HidTypeOK
  <2>2. QED
    BY ONLY <1>6, <1>7, <2>1
<1>9. HidTypeOK'
  <2>1. request' \in [n : Nat, sent : BOOLEAN]
    BY <1>2, <1>4
  <2>2. phase' \in {"off", "boot", "request", "up", "failed"} /\ worker' \in Nat
    BY <1>2, HidInvParts
  <2>3. QED
    BY <1>8, <2>1, <2>2 DEF HidTypeOK
<1>10. AnswerInv'
  <2>1. request'.n = Len(r) + 1
    BY <1>2, <1>4, <1>6
  <2>2. phase' \notin {"off", "boot"}
    BY <1>2
  <2>3. QED
    BY <1>8, <2>1, <2>2 DEF AnswerInv
<1>11. AnswerIsOwn'
  <2>1. \A i \in 1 .. Len(s) : s[i] \in {0, i}
    BY <1>3, <1>4, HidInvParts DEF AnswerIsOwn
  <2>2. DOMAIN r = 1 .. Len(s) + 1 /\ Len(s) \in Nat
    BY <1>4, <1>6
  <2>3. \A i \in DOMAIN r : r[i] \in {0, i}
    BY ONLY SMTT(20), <1>4, <1>6, <2>1, <2>2
  <2>4. QED
    BY <1>8, <2>3 DEF AnswerIsOwn
<1>12. NeverDeaf'
  BY <1>2 DEF NeverDeaf
<1>13. QED
  BY <1>9, <1>10, <1>11, <1>12 DEF HidInv

LEMMA HidRequestEnds ==
  ASSUME HidInv, phase = "request", ReadFails \/ NothingToRead \/ ReadsPacket, asm' = <<>>,
         \/ NextHidRequest(0) \/ NextHidRequest(request.n)
         \/ phase' \in {phase, "failed"} /\ UNCHANGED <<request, gpio, workQueued, worker, handled>>
  PROVE  HidInv'
<1>1. handled'.reports = handled.reports
  <2>1. handled \in [reports : Seq(Seq(HidPackets)), answers : Seq(Nat)]
    BY HidInvParts DEF HidTypeOK
  <2>2. QED
    BY <2>1 DEF NextHidRequest
<1>2. PacketInv' /\ device' \in HidDevices /\ asm' \in Seq(HidPackets)
  BY <1>1, HidReadDrops
<1>3. CASE NextHidRequest(0) \/ NextHidRequest(request.n)
  BY <1>2, <1>3, NextHidRequestKeeps
<1>4. CASE phase' \in {phase, "failed"} /\ UNCHANGED <<request, gpio, workQueued, worker, handled>>
  <2>1. HidTypeOK'
    BY <1>2, <1>4, HidInvParts DEF HidTypeOK
  <2>2. AnswerInv' /\ AnswerIsOwn' /\ NeverDeaf'
    BY <1>4, HidInvParts, HidCalm DEF NeverDeaf
  <2>3. QED
    BY <1>2, <2>1, <2>2 DEF HidInv
<1>5. QED
  BY <1>3, <1>4

LEMMA HidRequestsKeep ==
  ASSUME HidInv, RequestRead \/ HidRequestFails
  PROVE  HidInv'
<1>1. CASE RequestRead
  <2>1. phase = "request" /\ ReadsPacket /\ asm' = <<>>
    BY <1>1 DEF RequestRead, ReadsLast
  <2>2. \/ NextHidRequest(0)
        \/ AnswersRequest(Message) /\ NextHidRequest(Message[1].id)
        \/ phase' \in {phase, "failed"} /\ UNCHANGED <<request, gpio, workQueued, worker, handled>>
    BY <1>1 DEF RequestRead
  <2>3. AnswersRequest(Message) => Message[1].id = request.n
    BY DEF AnswersRequest
  <2>4. QED
    BY <2>1, <2>2, <2>3, HidRequestEnds
<1>2. CASE HidRequestFails
  <2>1. phase = "request" /\ (ReadFails \/ NothingToRead) /\ asm' = <<>>
    BY <1>2 DEF HidRequestFails
  <2>2. \/ NextHidRequest(0)
        \/ phase' = "failed" /\ UNCHANGED <<request, gpio, workQueued, worker, handled>>
    BY <1>2 DEF HidRequestFails
  <2>3. QED
    BY <2>1, <2>2, HidRequestEnds
<1>3. QED
  BY <1>1, <1>2

(* The part of a message that was read continues it. *)
LEMMA HidFits ==
  ASSUME HidInv, device.line # <<>>, FitsMessage(Head(device.line)), Head(device.line).i = Len(asm), NEW p, p = Head(device.line)
  PROVE  /\ p \in HidPackets /\ p.i = Len(asm) /\ \A j \in 1 .. Len(asm) : asm[j].kind = p.kind
<1>1. p \in HidPackets /\ p.i = Len(asm)
  BY HidInvParts
<1>2. ASSUME NEW j \in 1 .. Len(asm)  PROVE asm[j] \in ToSet(asm)
  <2>1. asm \in Seq(HidPackets)
    BY HidInvParts
  <2>2. j \in DOMAIN asm
    BY <2>1
  <2>3. QED
    BY <2>2 DEF ToSet
<1>3. \A j \in 1 .. Len(asm) : asm[j].kind = p.kind
  BY <1>2 DEF FitsMessage
<1>4. QED
  BY <1>1, <1>3

LEMMA ReadsPartKeeps ==
  ASSUME HidInv, ReadsPart
  PROVE  HidInv'
<1>1. PICK p : p = Head(device.line)
  OBVIOUS
<1>2. PICK rest : rest = Tail(device.line)
  OBVIOUS
<1>3. /\ device.line # <<>> /\ FitsMessage(p) /\ p.i = Len(asm) /\ p.i + 1 < p.n
      /\ device' = [device EXCEPT !.line = rest] /\ asm' = Append(asm, p)
      /\ UNCHANGED <<phase, request, gpio, workQueued, worker, handled>>
  BY <1>1, <1>2 DEF ReadsPart, ReadsPacket, LineActive, Received
<1>4. /\ p \in HidPackets /\ p.i = Len(asm) /\ \A j \in 1 .. Len(asm) : asm[j].kind = p.kind
  BY <1>1, <1>3, HidFits
<1>5. PICK top : top = device.reports
  OBVIOUS
<1>6. PICK line : line = device.line
  OBVIOUS
<1>7. PICK parts : parts = asm
  OBVIOUS
<1>8. PICK q : q = Append(parts, p)
  OBVIOUS
<1>9. line \in Seq(HidPackets) /\ line # <<>> /\ p = Head(line) /\ rest = Tail(line) /\ top \in Nat /\ parts \in Seq(HidPackets)
  BY <1>1, <1>2, <1>3, <1>5, <1>6, <1>7, HidInvParts
<1>10. LineOK(line, top) /\ AsmOK(parts, line, top) /\ ReportsOK(handled.reports, parts, line, top)
  BY <1>5, <1>6, <1>7, HidInvParts DEF PacketsOK
<1>11. /\ LineOK(rest, top) /\ rest \in Seq(HidPackets)
       /\ \A x : Past(x, line) => Past(x, rest) /\ (IsReport(p) => x < Sent(p))
       /\ IsReport(p) => p.n = 2 /\ p.i <= 1 /\ p.id <= top /\ Past(Sent(p), rest)
  BY ONLY <1>9, <1>10, HidLineTail
<1>12. p.i \in Nat /\ p.n \in Nat
  BY <1>4, HidPacketParts
<1>13. IsReport(p) => p.i = 0
  BY <1>3, <1>11, <1>12
<1>14. /\ q \in Seq(HidPackets) /\ Len(q) = Len(parts) + 1 /\ q[Len(parts) + 1] = p
       /\ \A j \in 1 .. Len(parts) : q[j] = parts[j]
  BY ONLY <1>4, <1>8, <1>9
<1>15. Len(parts) \in Nat /\ p.i = Len(parts) /\ \A j \in 1 .. Len(parts) : parts[j].kind = p.kind
  BY <1>4, <1>7, <1>9
<1>16. \A j \in 1 .. Len(q) : q[j].kind = p.kind
  BY ONLY <1>14, <1>15
<1>17. AsmOK(q, rest, top)
  <2>1. SUFFICES ASSUME NEW j \in 1 .. Len(q)
                 PROVE  /\ q[j].i = j - 1 /\ q[j].kind = q[1].kind
                        /\ IsReport(q[j]) => q[j].n = 2 /\ q[j].i = 0 /\ q[j].id <= top /\ Past(Sent(q[j]), rest)
    BY DEF AsmOK
  <2>2. q[j].kind = q[1].kind
    <3>1. 1 \in 1 .. Len(q)
      BY <1>14, <1>15
    <3>2. QED
      BY ONLY <1>16, <3>1, j \in 1 .. Len(q)
  <2>3. CASE j \in 1 .. Len(parts)
    <3>1. /\ parts[j].i = j - 1
          /\ IsReport(parts[j]) => parts[j].n = 2 /\ parts[j].i = 0 /\ parts[j].id <= top /\ Past(Sent(parts[j]), line)
      BY ONLY <1>10, <2>3 DEF AsmOK
    <3>2. q[j] = parts[j]
      BY ONLY <1>14, <2>3
    <3>3. QED
      BY ONLY <1>11, <2>2, <3>1, <3>2
  <2>4. CASE j = Len(parts) + 1
    <3>1. q[j] = p /\ p.i = j - 1
      BY ONLY <1>14, <1>15, <2>4
    <3>2. QED
      BY ONLY <1>11, <1>13, <2>2, <3>1
  <2>5. QED
    BY <1>14, <1>15, <2>3, <2>4
<1>18. ReportsOK(handled.reports, q, rest, top)
  <2>1. ASSUME NEW m, HandedOn(m, parts, line, top)  PROVE HandedOn(m, q, rest, top)
    <3>1. PICK x : x = 2 * m[1].id + 1
      OBVIOUS
    <3>2. Past(x, parts) /\ Past(x, line)
      BY <2>1, <3>1 DEF HandedOn
    <3>3. IsReport(p) => x < Sent(p)
      BY ONLY <1>11, <3>2
    <3>4. Past(x, q)
      <4>1. SUFFICES ASSUME NEW j \in 1 .. Len(q), IsReport(q[j])  PROVE x < Sent(q[j])
        BY DEF Past
      <4>2. CASE j \in 1 .. Len(parts)
        BY ONLY <1>14, <3>2, <4>1, <4>2 DEF Past
      <4>3. CASE j = Len(parts) + 1
        BY ONLY <1>14, <3>3, <4>1, <4>3
      <4>4. QED
        BY <1>14, <1>15, <4>2, <4>3
    <3>5. Past(x, rest)
      BY ONLY <1>11, <3>2
    <3>6. QED
      BY <2>1, <3>1, <3>4, <3>5 DEF HandedOn
  <2>2. QED
    BY <1>10, <2>1 DEF ReportsOK
<1>19. device' \in HidDevices /\ device'.line = rest /\ device'.reports = top
  BY <1>3, <1>5, <1>11, HidInvParts DEF HidDevices
<1>20. asm' = q
  BY <1>3, <1>7, <1>8
<1>21. PacketInv'
  <2>1. PacketsOK(rest, q, top, handled.reports)
    BY <1>11, <1>17, <1>18 DEF PacketsOK
  <2>2. PacketsOK(device'.line, asm', device'.reports, handled'.reports)
    BY <1>3, <1>19, <1>20, <2>1
  <2>3. QED
    BY <2>2 DEF PacketInv
<1>22. HidTypeOK'
  BY <1>3, <1>14, <1>19, <1>20, HidInvParts DEF HidTypeOK
<1>23. AnswerInv' /\ AnswerIsOwn' /\ NeverDeaf'
  BY <1>3, HidInvParts, HidCalm DEF NeverDeaf
<1>24. QED
  BY <1>21, <1>22, <1>23 DEF HidInv

(* The last packet of a verified report: the report is those two packets, and   *)
(* behind all that were handed on before.                                       *)
LEMMA HidHandsOn ==
  ASSUME NEW line \in Seq(HidPackets), line # <<>>, NEW parts \in Seq(HidPackets), NEW top \in Nat,
         NEW reports \in Seq(Seq(HidPackets)), PacketsOK(line, parts, top, reports),
         NEW p, p = Head(line), p.i = Len(parts), p.i + 1 = p.n, \A j \in 1 .. Len(parts) : parts[j].kind = p.kind,
         NEW m, m = Append(parts, p), m[1].kind = "report", Whole(m)
  PROVE  /\ PacketsOK(Tail(line), <<>>, top, Append(reports, m))
         /\ Append(reports, m) \in Seq(Seq(HidPackets))
<1>1. LineOK(line, top) /\ AsmOK(parts, line, top) /\ ReportsOK(reports, parts, line, top)
  BY DEF PacketsOK
<1>2. PICK rest : rest = Tail(line)
  OBVIOUS
<1>3. /\ LineOK(rest, top) /\ rest \in Seq(HidPackets) /\ p \in HidPackets
      /\ \A x : Past(x, line) => Past(x, rest) /\ (IsReport(p) => x < Sent(p))
      /\ IsReport(p) => p.n = 2 /\ p.i <= 1 /\ p.id <= top /\ Past(Sent(p), rest)
  BY ONLY <1>1, <1>2, line \in Seq(HidPackets), line # <<>>, top \in Nat, p = Head(line), HidLineTail
<1>4. p.i \in Nat /\ p.id \in Nat /\ Sent(p) = 2 * p.id + p.i
  BY <1>3, HidPacketParts
<1>5. /\ m \in Seq(HidPackets) /\ Len(m) = Len(parts) + 1 /\ m[Len(parts) + 1] = p
      /\ \A j \in 1 .. Len(parts) : m[j] = parts[j]
  BY ONLY <1>3, parts \in Seq(HidPackets), m = Append(parts, p)
<1>6. Len(parts) \in Nat
  BY ONLY parts \in Seq(HidPackets)
<1>7. p.kind = "report"
  <2>1. CASE Len(parts) = 0
    BY ONLY <1>5, <2>1, m[1].kind = "report"
  <2>2. CASE Len(parts) # 0
    <3>1. 1 \in 1 .. Len(parts)
      BY ONLY <1>6, <2>2
    <3>2. QED
      BY ONLY <1>5, <3>1, m[1].kind = "report", \A j \in 1 .. Len(parts) : parts[j].kind = p.kind
  <2>3. QED
    BY <2>1, <2>2
<1>8. IsReport(p) /\ p.n = 2 /\ p.i = 1 /\ Len(parts) = 1 /\ p.id <= top /\ Past(Sent(p), rest) /\ Sent(p) = 2 * p.id + 1
  <2>1. IsReport(p)
    BY <1>7 DEF IsReport
  <2>2. p.n = 2 /\ p.id <= top /\ Past(Sent(p), rest)
    BY ONLY <1>3, <2>1
  <2>3. p.i = 1
    BY ONLY <1>4, <2>2, p.i + 1 = p.n
  <2>4. Sent(p) = 2 * p.id + 1
    BY ONLY <1>4, <2>3
  <2>5. QED
    BY ONLY <2>1, <2>2, <2>3, <2>4, p.i = Len(parts)
<1>9. m[1] = parts[1] /\ m[2] = p /\ Len(m) = 2 /\ parts[1].kind = "report" /\ parts[1].n = 2
  <2>1. 1 \in 1 .. Len(parts)
    BY ONLY <1>8
  <2>2. m[1] = parts[1] /\ m[2] = p /\ Len(m) = 2
    BY ONLY <1>5, <1>8, <2>1
  <2>3. IsReport(parts[1])
    BY <2>2 DEF IsReport
  <2>4. parts[1].n = 2
    BY ONLY <1>1, <2>1, <2>3 DEF AsmOK
  <2>5. QED
    BY <2>2, <2>4
<1>10. m[1].id = p.id
  <2>0. m \in Seq(HidPackets) /\ Len(m) = 2
    BY ONLY <1>5, <1>9
  <2>1. 2 \in DOMAIN m
    BY ONLY <2>0
  <2>2. p \in ToSet(m)
    BY ONLY <1>9, <2>1 DEF ToSet
  <2>3. QED
    BY ONLY <2>2, Whole(m) DEF Whole
<1>11. HandedOn(m, <<>>, rest, top)
  <2>1. Past(2 * m[1].id + 1, rest) /\ Past(2 * m[1].id + 1, <<>>)
    BY <1>8, <1>10, HidNoParts
  <2>2. QED
    BY ONLY <1>7, <1>8, <1>9, <1>10, <2>1 DEF HandedOn
<1>12. ASSUME NEW a \in 1 .. Len(reports)  PROVE HandedOn(reports[a], <<>>, rest, top) /\ reports[a][1].id < m[1].id
  <2>1. PICK x : x = 2 * reports[a][1].id + 1
    OBVIOUS
  <2>2. HandedOn(reports[a], parts, line, top)
    BY ONLY <1>1, a \in 1 .. Len(reports) DEF ReportsOK
  <2>3. Past(x, line)
    BY ONLY <2>1, <2>2 DEF HandedOn
  <2>4. Past(x, rest) /\ x < Sent(p) /\ Past(x, <<>>)
    BY <1>3, <1>8, <2>3, HidNoParts
  <2>5. HandedOn(reports[a], <<>>, rest, top)
    BY ONLY <2>1, <2>2, <2>4 DEF HandedOn
  <2>6. reports[a][1].id \in Nat
    <3>1. Len(reports[a]) = 2
      BY ONLY <2>2 DEF HandedOn
    <3>2. reports[a] \in Seq(HidPackets)
      BY ONLY reports \in Seq(Seq(HidPackets)), a \in 1 .. Len(reports)
    <3>3. 1 \in 1 .. Len(reports[a])
      BY ONLY <3>1
    <3>4. reports[a][1] \in HidPackets
      BY ONLY <3>2, <3>3
    <3>5. QED
      BY ONLY <3>4, HidPacketParts
  <2>7. reports[a][1].id < p.id
    <3>1. PICK y : y = reports[a][1].id
      OBVIOUS
    <3>2. y \in Nat /\ x = 2 * y + 1
      BY ONLY <2>1, <2>6, <3>1
    <3>3. PICK z : z = p.id
      OBVIOUS
    <3>4. z \in Nat /\ x < 2 * z + 1
      <4>1. Sent(p) = 2 * p.id + 1 /\ p.id \in Nat
        BY ONLY <1>4, <1>8, Zenon
      <4>2. x < Sent(p)
        BY ONLY <2>4, Zenon
      <4>3. QED
        BY ONLY <3>3, <4>1, <4>2
    <3>5. y < z
      BY ONLY <3>2, <3>4
    <3>6. QED
      BY ONLY <3>1, <3>3, <3>5, Zenon
  <2>8. QED
    BY <1>10, <2>5, <2>7
<1>13. PICK r : r = Append(reports, m)
  OBVIOUS
<1>14. /\ r \in Seq(Seq(HidPackets)) /\ Len(r) = Len(reports) + 1 /\ r[Len(reports) + 1] = m /\ Len(reports) \in Nat
       /\ \A a \in 1 .. Len(reports) : r[a] = reports[a]
  BY ONLY <1>5, <1>13, reports \in Seq(Seq(HidPackets))
<1>15. ReportsOK(r, <<>>, rest, top)
  <2>1. ASSUME NEW a \in 1 .. Len(r)  PROVE HandedOn(r[a], <<>>, rest, top)
    <3>1. a \in 1 .. Len(reports) \/ a = Len(reports) + 1
      BY ONLY <1>14, a \in 1 .. Len(r)
    <3>2. QED
      BY ONLY <1>11, <1>12, <1>14, <3>1
  <2>2. ASSUME NEW a \in 1 .. Len(r), NEW b \in 1 .. Len(r), a < b  PROVE r[a][1].id < r[b][1].id
    <3>1. a \in 1 .. Len(reports) /\ (b \in 1 .. Len(reports) \/ b = Len(reports) + 1)
      <4>1. PICK n : n = Len(reports)
        OBVIOUS
      <4>2. n \in Nat /\ Len(r) = n + 1
        BY <1>14, <4>1
      <4>3. a \in 1 .. n + 1 /\ b \in 1 .. n + 1 /\ a < b
        BY ONLY <2>2, <4>2, a \in 1 .. Len(r), b \in 1 .. Len(r)
      <4>4. a \in 1 .. n /\ (b \in 1 .. n \/ b = n + 1)
        BY ONLY <4>2, <4>3
      <4>5. QED
        BY ONLY <4>1, <4>4
    <3>2. CASE b \in 1 .. Len(reports)
      <4>1. reports[a][1].id < reports[b][1].id
        BY ONLY <1>1, <2>2, <3>1, <3>2 DEF ReportsOK
      <4>2. QED
        BY ONLY <1>14, <3>1, <3>2, <4>1
    <3>3. CASE b = Len(reports) + 1
      BY ONLY <1>12, <1>14, <3>1, <3>3
    <3>4. QED
      BY <3>1, <3>2, <3>3
  <2>3. QED
    BY <2>1, <2>2 DEF ReportsOK
<1>16. PacketsOK(rest, <<>>, top, r)
  BY <1>3, <1>15, HidNoParts DEF PacketsOK
<1>17. QED
  BY <1>2, <1>13, <1>14, <1>16

LEMMA WorkReadsKeeps ==
  ASSUME HidInv, WorkReads
  PROVE  HidInv'
<1>1. /\ worker > 0 /\ ReadsPacket /\ asm' = <<>> /\ UNCHANGED <<phase, request, workQueued>>
      /\ Head(device.line).i + 1 = Head(device.line).n
      /\ \/ worker' = 0 /\ gpio' = TRUE /\ UNCHANGED handled
         \/ worker' = worker - 1 /\ gpio' = (worker = 1)
  BY DEF WorkReads, ReadsLast
<1>2. \/ handled' = handled
      \/ /\ Message[1].kind = "report" /\ Whole(Message)
         /\ handled' = [handled EXCEPT !.reports = Append(handled.reports, Message)]
  <2>1. handled = [handled EXCEPT !.reports = handled.reports]
    BY HidInvParts DEF HidTypeOK
  <2>2. QED
    BY <2>1 DEF WorkReads, VerifyMessage
<1>3. worker' \in Nat /\ (gpio' \/ worker' > 0)
  <2>1. worker \in Nat
    BY HidInvParts
  <2>2. (worker' = 0 /\ gpio') \/ (worker' = worker - 1 /\ (worker = 1 => gpio'))
    BY ONLY <1>1, Zenon
  <2>3. worker > 0
    BY ONLY <1>1, Zenon
  <2>4. QED
    BY ONLY <2>1, <2>2, <2>3
<1>4. NeverDeaf'
  BY <1>3 DEF NeverDeaf
<1>5. CASE handled' = handled
  <2>1. PacketInv' /\ device' \in HidDevices /\ asm' \in Seq(HidPackets)
    BY <1>1, <1>5, HidReadDrops
  <2>2. HidTypeOK'
    BY <1>1, <1>3, <1>5, <2>1, HidInvParts DEF HidTypeOK
  <2>3. AnswerInv' /\ AnswerIsOwn'
    BY <1>1, <1>5, HidInvParts, HidCalm
  <2>4. QED
    BY <1>4, <2>1, <2>2, <2>3 DEF HidInv
<1>6. CASE /\ Message[1].kind = "report" /\ Whole(Message)
           /\ handled' = [handled EXCEPT !.reports = Append(handled.reports, Message)]
  <2>1. PICK m : m = Message
    OBVIOUS
  <2>2. PICK p : p = Head(device.line)
    OBVIOUS
  <2>3. PICK rest : rest = Tail(device.line)
    OBVIOUS
  <2>4. PICK r : r = Append(handled.reports, m)
    OBVIOUS
  <2>5. m = Append(asm, p)
    BY <2>1, <2>2 DEF Message, Received
  <2>6. /\ device.line # <<>> /\ FitsMessage(p) /\ p.i = Len(asm) /\ p.i + 1 = p.n
        /\ device' = [device EXCEPT !.line = rest]
    BY <1>1, <2>2, <2>3 DEF ReadsPacket, LineActive
  <2>7. \A j \in 1 .. Len(asm) : asm[j].kind = p.kind
    BY <2>2, <2>6, HidFits
  <2>8. PacketsOK(rest, <<>>, device.reports, r) /\ r \in Seq(Seq(HidPackets))
    BY <1>6, <2>1, <2>2, <2>3, <2>4, <2>5, <2>6, <2>7, HidInvParts, HidHandsOn
  <2>9. rest \in Seq(HidPackets)
    BY <2>3, <2>6, HidInvParts
  <2>10. device' \in HidDevices /\ device'.line = rest /\ device'.reports = device.reports
    BY <2>6, <2>9, HidInvParts DEF HidDevices
  <2>11. /\ handled' \in [reports : Seq(Seq(HidPackets)), answers : Seq(Nat)]
         /\ handled'.reports = r /\ handled'.answers = handled.answers
    <3>1. handled \in [reports : Seq(Seq(HidPackets)), answers : Seq(Nat)]
      BY HidInvParts DEF HidTypeOK
    <3>2. handled' = [handled EXCEPT !.reports = r]
      BY <1>6, <2>1, <2>4
    <3>3. QED
      BY ONLY <2>8, <3>1, <3>2
  <2>12. PacketInv'
    <3>1. PacketsOK(device'.line, asm', device'.reports, handled'.reports)
      BY <1>1, <2>8, <2>10, <2>11
    <3>2. QED
      BY <3>1 DEF PacketInv
  <2>13. HidTypeOK'
    <3>1. asm' \in Seq(HidPackets)
      BY <1>1
    <3>2. QED
      BY <1>1, <1>3, <2>10, <2>11, <3>1, HidInvParts DEF HidTypeOK
  <2>14. AnswerInv' /\ AnswerIsOwn'
    BY <1>1, <2>11, HidInvParts, HidCalm
  <2>15. QED
    BY <1>4, <2>12, <2>13, <2>14 DEF HidInv
<1>7. QED
  BY <1>2, <1>5, <1>6

LEMMA WorkFailsKeeps ==
  ASSUME HidInv, WorkFails
  PROVE  HidInv'
<1>1. /\ ReadFails /\ asm' = <<>> /\ worker' = 0 /\ gpio' = TRUE /\ UNCHANGED <<phase, request, workQueued, handled>>
  BY DEF WorkFails
<1>2. PacketInv' /\ device' \in HidDevices /\ asm' \in Seq(HidPackets)
  BY <1>1, HidReadDrops
<1>3. HidTypeOK'
  BY <1>1, <1>2, HidInvParts DEF HidTypeOK
<1>4. AnswerInv' /\ AnswerIsOwn' /\ NeverDeaf'
  BY <1>1, HidInvParts, HidCalm DEF NeverDeaf
<1>5. QED
  BY <1>2, <1>3, <1>4 DEF HidInv

(* The steps that touch no packet. *)
LEMMA HidOthersKeep ==
  ASSUME HidAssumption, HidInv, ProbeBegins \/ SendHidRequest \/ LineInterrupt \/ WorkBegins \/ WorkDone
  PROVE  HidInv'
<1>1. /\ device'.line = device.line /\ device'.reports = device.reports /\ device' \in HidDevices
      /\ asm' = asm /\ handled' = handled
  <2>1. CASE SendHidRequest
    <3>1. PICK s : s = device.asked \cup {request.n}
      OBVIOUS
    <3>2. s \in SUBSET Nat
      BY <3>1, HidInvParts DEF HidDevices
    <3>3. device' = [device EXCEPT !.asked = s]
      BY <2>1, <3>1 DEF SendHidRequest
    <3>4. device' \in HidDevices /\ device'.line = device.line /\ device'.reports = device.reports
      BY <3>2, <3>3, HidInvParts DEF HidDevices
    <3>5. QED
      BY <2>1, <3>4 DEF SendHidRequest
  <2>2. CASE ~SendHidRequest
    BY <2>2, HidInvParts DEF ProbeBegins, LineInterrupt, WorkBegins, WorkDone
  <2>3. QED
    BY <2>1, <2>2
<1>2. PacketInv'
  BY <1>1, HidInvParts DEF PacketInv
<1>3. /\ phase' \in {"off", "boot", "request", "up", "failed"} /\ worker' \in Nat
      /\ phase' = phase \/ (phase = "off" /\ phase' = "boot")
      /\ request'.n = request.n /\ request' \in [n : Nat, sent : BOOLEAN]
  <2>1. request \in [n : Nat, sent : BOOLEAN] /\ phase \in {"off", "boot", "request", "up", "failed"} /\ worker \in Nat
    BY HidInvParts DEF HidTypeOK
  <2>2. request' = request \/ request' = [request EXCEPT !.sent = TRUE]
    BY DEF ProbeBegins, SendHidRequest, LineInterrupt, WorkBegins, WorkDone
  <2>3. request'.n = request.n /\ request' \in [n : Nat, sent : BOOLEAN]
    BY ONLY <2>1, <2>2
  <2>4. QED
    BY <2>1, <2>3 DEF ProbeBegins, SendHidRequest, LineInterrupt, WorkBegins, WorkDone, HidAssumption
<1>4. HidTypeOK'
  BY <1>1, <1>3, HidInvParts DEF HidTypeOK
<1>5. AnswerInv' /\ AnswerIsOwn'
  BY <1>1, <1>3, HidInvParts DEF AnswerInv, AnswerIsOwn
<1>6. NeverDeaf'
  BY HidInvParts DEF NeverDeaf, ProbeBegins, SendHidRequest, LineInterrupt, WorkBegins, WorkDone, HidAssumption
<1>7. QED
  BY <1>2, <1>4, <1>5, <1>6 DEF HidInv

LEMMA HidInitHolds ==
  ASSUME SpiHidInit
  PROVE  HidInv
<1>1. PICK e : e = <<>>
  OBVIOUS
<1>2. Len(e) = 0 /\ DOMAIN e = {} /\ e \in Seq(HidPackets) /\ e \in Seq(Seq(HidPackets)) /\ e \in Seq(Nat)
  BY <1>1
<1>3. /\ phase = "off" /\ request = [n |-> 0, sent |-> FALSE] /\ asm = e /\ worker = 0
      /\ device = [line |-> e, asked |-> {}, booted |-> FALSE, reports |-> 0]
      /\ handled = [reports |-> e, answers |-> e]
  BY <1>1 DEF SpiHidInit
<1>4. HidTypeOK
  BY ONLY <1>2, <1>3 DEF HidTypeOK, HidDevices
<1>5. PacketsOK(e, e, 0, e)
  BY ONLY <1>2 DEF PacketsOK, LineOK, AsmOK, ReportsOK
<1>6. PacketInv
  BY <1>3, <1>5 DEF PacketInv
<1>7. AnswerInv /\ AnswerIsOwn /\ NeverDeaf
  BY <1>1, <1>2, <1>3 DEF AnswerInv, AnswerIsOwn, NeverDeaf
<1>8. QED
  BY <1>4, <1>6, <1>7 DEF HidInv

LEMMA HidStepHolds ==
  ASSUME HidAssumption, HidInv, [SpiHidNext]_spiHidVars
  PROVE  HidInv'
<1>1. CASE UNCHANGED spiHidVars
  BY <1>1 DEF spiHidVars, HidInv, HidTypeOK, PacketInv, AnswerInv, AnswerIsOwn, NeverDeaf
<1>2. CASE SpiHidNext
  BY <1>2, HidDeviceActsKeep, LosePacketKeeps, ReadsPartKeeps, BootReadKeeps, BootFailsKeeps, HidRequestsKeep,
     WorkReadsKeeps, WorkFailsKeeps, HidOthersKeep DEF SpiHidNext
<1>3. QED
  BY <1>1, <1>2

LEMMA HidReportsWhole ==
  ASSUME HidInv
  PROVE  WholeReports
<1>1. PICK r : r = handled.reports
  OBVIOUS
<1>2. r \in Seq(Seq(HidPackets)) /\ ReportsOK(r, asm, device.line, device.reports)
  BY <1>1, HidInvParts DEF PacketsOK
<1>3. DOMAIN r = 1 .. Len(r)
  BY <1>2
<1>4. ASSUME NEW m \in ToSet(r)  PROVE Whole(m) /\ Len(m) = m[1].n
  <2>1. PICK a \in DOMAIN r : r[a] = m
    BY DEF ToSet
  <2>2. m \in Seq(HidPackets) /\ HandedOn(m, asm, device.line, device.reports)
    BY <1>2, <1>3, <2>1 DEF ReportsOK
  <2>3. Len(m) = 2 /\ m[1].n = 2 /\ m[1].id = m[2].id /\ m[1].kind = m[2].kind
    BY <2>2 DEF HandedOn
  <2>4. DOMAIN m = {1, 2}
    BY ONLY <2>2, <2>3
  <2>5. Whole(m)
    BY ONLY <2>3, <2>4 DEF Whole, ToSet
  <2>6. QED
    BY <2>3, <2>5
<1>5. \A i, j \in DOMAIN r : i < j => r[i][1].id < r[j][1].id
  BY <1>2, <1>3 DEF ReportsOK
<1>6. QED
  BY <1>1, <1>4, <1>5 DEF WholeReports

(* Reports handed on are whole and in the order in which they were sent, a      *)
(* request returns its own answer, and no report is left unheard, whatever is   *)
(* lost or damaged on the wire.                                                 *)
THEOREM HidMessagesAreOwn == SpiHidSpec => [](WholeReports /\ AnswerIsOwn /\ NeverDeaf)
<1>1. HidInv => WholeReports /\ AnswerIsOwn /\ NeverDeaf
  BY HidReportsWhole DEF HidInv
<1>2. HidAssumption
  BY HidAssumption
<1>3. QED
  BY <1>1, <1>2, HidInitHolds, HidStepHolds, PTL DEF SpiHidSpec

------------------------------------------------------------------------------
(* SpiHid: the input devices                                                   *)

(* Input: the listener has what the last report said, or, while it is being     *)
(* emitted, what this one says; a repeat that waits for the lock read the       *)
(* modifiers that are held, or a press since then puts its time off.            *)
HidUsages == UNION {InKeys(list) : list \in KeyLists}
HidKeyRecords == [mods : SUBSET Modifiers, keys : SUBSET HidUsages, pressed : Nat, repeated : Nat]
HidInputTypeOK ==
  /\ lastKeys \in HidKeyRecords /\ clock \in Nat
  /\ events \in [keys : SUBSET (Modifiers \cup HidUsages), button : BOOLEAN]
EmittingInv ==
  \/ emitting.at = "no"
  \/ /\ emitting.at = "record" /\ emitting.mods \subseteq Modifiers /\ emitting.keys \subseteq HidUsages
     /\ events.keys = emitting.mods \cup Coded(emitting.keys)
RepeaterInv ==
  repeater.at = "waits" =>
    /\ repeater.since \in Nat /\ repeater.since <= clock /\ clock < repeater.since + RepeatDelay
    /\ repeater.mods = lastKeys.mods \/ (lastKeys.pressed >= repeater.since /\ lastKeys.repeated = 0)
TouchInv == ~touch.touched => touch.last = <<>>
HidInputInv == HidInputTypeOK /\ EmittingInv /\ RepeaterInv /\ TouchInv /\ RepeatsAreHeld /\ EventsMirrorReports

LEMMA HidUsagesAreKeys ==
  ASSUME HidInputAssumption
  PROVE  HidUsages \cap Modifiers = {} /\ \A list \in KeyLists : InKeys(list) \subseteq HidUsages
  BY DEF HidInputAssumption, HidUsages

LEMMA HidTicksKeeps ==
  ASSUME HidInputAssumption, HidInputInv, HidTicks
  PROVE  HidInputInv'
<1>1. /\ clock' = clock + 1 /\ lastOut' = NoOut /\ UNCHANGED <<lastKeys, events, emitting, repeater, touch>>
      /\ repeater.at = "waits" => clock + 1 < repeater.since + RepeatDelay
  BY DEF HidTicks
<1>2. HidInputTypeOK' /\ RepeaterInv'
  BY <1>1 DEF HidInputInv, HidInputTypeOK, RepeaterInv, HidInputAssumption
<1>3. EmittingInv' /\ TouchInv' /\ EventsMirrorReports' /\ RepeatsAreHeld'
  BY <1>1 DEF HidInputInv, EmittingInv, TouchInv, EventsMirrorReports, RepeatsAreHeld, NoOut
<1>4. QED
  BY <1>2, <1>3 DEF HidInputInv

(* The changes against the last report make the listener's keys those of this one. *)
LEMMA KeyEventsKeeps ==
  ASSUME HidInputAssumption, HidInputInv, NEW mods \in SUBSET Modifiers, NEW list \in KeyLists, KeyEvents(mods, list)
  PROVE  HidInputInv'
<1>1. PICK keys : keys = InKeys(list)
  OBVIOUS
<1>2. PICK e : e = (events.keys \ ((lastKeys.mods \ mods) \cup Coded(lastKeys.keys \ keys)))
                     \cup ((mods \ lastKeys.mods) \cup Coded(keys \ lastKeys.keys))
  OBVIOUS
<1>3. /\ emitting.at = "no" /\ events' = [events EXCEPT !.keys = e]
      /\ emitting' = [at |-> "record", mods |-> mods, keys |-> keys]
      /\ lastOut' = NoOut /\ UNCHANGED <<lastKeys, repeater, clock, touch>>
  BY <1>1, <1>2 DEF KeyEvents
<1>4. keys \in SUBSET HidUsages
  BY <1>1, HidUsagesAreKeys
<1>5. lastKeys.mods \in SUBSET Modifiers /\ lastKeys.keys \in SUBSET HidUsages
  BY DEF HidInputInv, HidInputTypeOK, HidKeyRecords
<1>6. e = mods \cup Coded(keys)
  <2>1. events.keys = lastKeys.mods \cup Coded(lastKeys.keys)
    BY <1>3 DEF HidInputInv, EventsMirrorReports
  <2>2. QED
    <3>1. PICK m, k : m = lastKeys.mods /\ k = lastKeys.keys
      OBVIOUS
    <3>2. PICK prior : prior = events.keys
      OBVIOUS
    <3>3. e = (prior \ ((m \ mods) \cup Coded(k \ keys))) \cup ((mods \ m) \cup Coded(keys \ k)) /\ prior = m \cup Coded(k)
      BY ONLY <1>2, <2>1, <3>1, <3>2, Zenon
    <3>4. m \in SUBSET Modifiers /\ k \in SUBSET HidUsages
      BY ONLY <1>5, <3>1
    <3>5. HidUsages \cap Modifiers = {} /\ keys \in SUBSET HidUsages
      BY <1>4, HidUsagesAreKeys
    <3>6. QED
      BY ONLY <3>3, <3>4, <3>5, mods \in SUBSET Modifiers DEF Coded
<1>7. e \in SUBSET (Modifiers \cup HidUsages)
  BY <1>4, <1>6 DEF Coded
<1>8. events' \in [keys : SUBSET (Modifiers \cup HidUsages), button : BOOLEAN] /\ events'.keys = e
  <2>1. events \in [keys : SUBSET (Modifiers \cup HidUsages), button : BOOLEAN]
    BY DEF HidInputInv, HidInputTypeOK
  <2>2. QED
    BY ONLY <1>3, <1>7, <2>1
<1>9. emitting'.at = "record" /\ emitting'.mods = mods /\ emitting'.keys = keys
  BY <1>3
<1>10. EmittingInv'
  BY <1>4, <1>6, <1>8, <1>9 DEF EmittingInv
<1>11. HidInputTypeOK' /\ RepeaterInv' /\ TouchInv'
  BY <1>3, <1>8 DEF HidInputInv, HidInputTypeOK, RepeaterInv, TouchInv
<1>12. EventsMirrorReports' /\ RepeatsAreHeld'
  BY <1>3, <1>9 DEF EventsMirrorReports, RepeatsAreHeld, NoOut
<1>13. QED
  BY <1>10, <1>11, <1>12 DEF HidInputInv

LEMMA RecordKeysKeeps ==
  ASSUME HidInputAssumption, HidInputInv, RecordKeys
  PROVE  HidInputInv'
<1>1. /\ emitting.at = "record" /\ lastOut' = NoOut /\ emitting' = [at |-> "no"]
      /\ lastKeys' = [mods |-> emitting.mods, keys |-> emitting.keys, pressed |-> clock, repeated |-> 0]
      /\ UNCHANGED <<events, repeater, clock, touch>>
  BY DEF RecordKeys
<1>2. /\ emitting.mods \subseteq Modifiers /\ emitting.keys \subseteq HidUsages
      /\ events.keys = emitting.mods \cup Coded(emitting.keys)
  BY <1>1 DEF HidInputInv, EmittingInv
<1>3. clock \in Nat
  BY DEF HidInputInv, HidInputTypeOK
<1>4. /\ lastKeys' \in HidKeyRecords /\ lastKeys'.mods = emitting.mods /\ lastKeys'.keys = emitting.keys
      /\ lastKeys'.pressed = clock /\ lastKeys'.repeated = 0
  BY <1>1, <1>2, <1>3 DEF HidKeyRecords
<1>5. HidInputTypeOK' /\ EmittingInv' /\ TouchInv'
  BY <1>1, <1>4 DEF HidInputInv, HidInputTypeOK, EmittingInv, TouchInv
<1>6. RepeaterInv'
  BY <1>1, <1>3, <1>4 DEF HidInputInv, RepeaterInv
<1>7. EventsMirrorReports' /\ RepeatsAreHeld'
  BY <1>1, <1>2, <1>4 DEF EventsMirrorReports, RepeatsAreHeld, NoOut
<1>8. QED
  BY <1>5, <1>6, <1>7 DEF HidInputInv

LEMMA RepeatReadsKeeps ==
  ASSUME HidInputAssumption, HidInputInv, RepeatReads
  PROVE  HidInputInv'
<1>1. /\ repeater' = [at |-> "waits", mods |-> lastKeys.mods, since |-> clock] /\ lastOut' = NoOut
      /\ UNCHANGED <<lastKeys, events, emitting, clock, touch>>
  BY DEF RepeatReads
<1>2. clock \in Nat /\ clock < clock + RepeatDelay
  BY DEF HidInputInv, HidInputTypeOK, HidInputAssumption
<1>3. repeater'.since = clock /\ repeater'.mods = lastKeys.mods
  BY <1>1
<1>4. RepeaterInv'
  BY <1>1, <1>2, <1>3 DEF RepeaterInv
<1>5. HidInputTypeOK' /\ EmittingInv' /\ TouchInv' /\ EventsMirrorReports' /\ RepeatsAreHeld'
  BY <1>1 DEF HidInputInv, HidInputTypeOK, EmittingInv, TouchInv, EventsMirrorReports, RepeatsAreHeld, NoOut
<1>6. QED
  BY <1>4, <1>5 DEF HidInputInv

LEMMA RepeatKeysKeeps ==
  ASSUME HidInputAssumption, HidInputInv, RepeatKeys
  PROVE  HidInputInv'
<1>1. /\ repeater.at = "waits" /\ emitting.at = "no" /\ repeater' = [at |-> "idle"]
      /\ UNCHANGED <<events, emitting, clock, touch>>
  BY DEF RepeatKeys
<1>2. events.keys = lastKeys.mods \cup Coded(lastKeys.keys)
  BY <1>1 DEF HidInputInv, EventsMirrorReports
<1>3. repeater'.at = "idle"
  BY <1>1
<1>4. RepeaterInv' /\ EmittingInv' /\ TouchInv'
  BY <1>1, <1>3 DEF HidInputInv, RepeaterInv, EmittingInv, TouchInv
<1>5. CASE lastOut' = NoOut /\ UNCHANGED lastKeys
  BY <1>1, <1>4, <1>5 DEF HidInputInv, HidInputTypeOK, EventsMirrorReports, RepeatsAreHeld, NoOut
<1>6. CASE /\ ~(clock < NextRepeat)
           /\ lastOut' = [kind |-> "repeat", keys |-> repeater.mods \cup Coded(lastKeys.keys)]
           /\ lastKeys' = [lastKeys EXCEPT !.repeated = clock]
  <2>1. lastKeys \in HidKeyRecords /\ clock \in Nat
    BY DEF HidInputInv, HidInputTypeOK
  <2>2. /\ lastKeys' \in HidKeyRecords /\ lastKeys'.mods = lastKeys.mods /\ lastKeys'.keys = lastKeys.keys
    BY <1>6, <2>1 DEF HidKeyRecords
  <2>3. repeater.mods = lastKeys.mods
    <3>1. /\ repeater.since \in Nat /\ clock < repeater.since + RepeatDelay
          /\ repeater.mods = lastKeys.mods \/ (lastKeys.pressed >= repeater.since /\ lastKeys.repeated = 0)
      BY <1>1 DEF HidInputInv, RepeaterInv
    <3>2. lastKeys.pressed \in Nat /\ RepeatDelay \in Nat
      BY <2>1 DEF HidKeyRecords, HidInputAssumption
    <3>3. lastKeys.repeated = 0 => NextRepeat = lastKeys.pressed + RepeatDelay
      BY DEF NextRepeat
    <3>4. QED
      BY <1>6, <2>1, <3>1, <3>2, <3>3
  <2>4. lastOut'.keys = events.keys
    BY <1>2, <1>6, <2>3
  <2>5. RepeatsAreHeld' /\ EventsMirrorReports' /\ HidInputTypeOK'
    BY <1>1, <1>2, <2>1, <2>2, <2>4 DEF HidInputInv, RepeatsAreHeld, EventsMirrorReports, HidInputTypeOK
  <2>6. QED
    BY <1>4, <2>5 DEF HidInputInv
<1>7. QED
  BY <1>5, <1>6 DEF RepeatKeys

LEMMA TrackpadReportKeeps ==
  ASSUME HidInputInv, NEW at, NEW clicked \in BOOLEAN, TrackpadReport(at, clicked)
  PROVE  HidInputInv'
<1>1. /\ events' = [events EXCEPT !.button = clicked] /\ lastOut' = NoOut
      /\ touch'.last = at /\ (touch'.touched <=> at # <<>>)
      /\ UNCHANGED <<lastKeys, emitting, repeater, clock>>
  BY DEF TrackpadReport, EndTouch
<1>2. events' \in [keys : SUBSET (Modifiers \cup HidUsages), button : BOOLEAN] /\ events'.keys = events.keys
  <2>1. events \in [keys : SUBSET (Modifiers \cup HidUsages), button : BOOLEAN]
    BY DEF HidInputInv, HidInputTypeOK
  <2>2. QED
    BY ONLY <1>1, <2>1, clicked \in BOOLEAN
<1>3. TouchInv'
  BY <1>1 DEF TouchInv
<1>4. HidInputTypeOK' /\ EmittingInv' /\ RepeaterInv' /\ EventsMirrorReports' /\ RepeatsAreHeld'
  BY <1>1, <1>2 DEF HidInputInv, HidInputTypeOK, EmittingInv, RepeaterInv, EventsMirrorReports, RepeatsAreHeld, NoOut
<1>5. QED
  BY <1>3, <1>4 DEF HidInputInv

LEMMA HidInputInitHolds ==
  ASSUME HidInputInit
  PROVE  HidInputInv
<1>1. lastKeys = [mods |-> {}, keys |-> {}, pressed |-> 0, repeated |-> 0] /\ events = [keys |-> {}, button |-> FALSE]
  BY DEF HidInputInit
<1>2. lastKeys \in HidKeyRecords /\ lastKeys.mods = {} /\ lastKeys.keys = {} /\ events.keys = {}
  BY <1>1 DEF HidKeyRecords
<1>3. HidInputTypeOK
  BY <1>1, <1>2 DEF HidInputInit, HidInputTypeOK
<1>4. EmittingInv /\ RepeaterInv /\ TouchInv
  BY DEF HidInputInit, EmittingInv, RepeaterInv, TouchInv
<1>5. RepeatsAreHeld /\ EventsMirrorReports
  BY <1>2 DEF HidInputInit, RepeatsAreHeld, EventsMirrorReports, NoOut, Coded
<1>6. QED
  BY <1>3, <1>4, <1>5 DEF HidInputInv

LEMMA HidInputStepHolds ==
  ASSUME HidInputAssumption, HidInputInv, [HidInputNext]_hidInputVars
  PROVE  HidInputInv'
<1>1. CASE UNCHANGED hidInputVars
  <2>1. UNCHANGED <<lastKeys, events, emitting, repeater, clock, lastOut, touch>>
    BY <1>1 DEF hidInputVars
  <2>2. HidInputTypeOK' /\ EmittingInv' /\ RepeaterInv'
    BY <2>1 DEF HidInputInv, HidInputTypeOK, EmittingInv, RepeaterInv
  <2>3. TouchInv' /\ EventsMirrorReports' /\ RepeatsAreHeld'
    BY <2>1 DEF HidInputInv, TouchInv, EventsMirrorReports, RepeatsAreHeld
  <2>4. QED
    BY <2>2, <2>3 DEF HidInputInv
<1>2. CASE HidInputNext
  BY <1>2, HidTicksKeeps, KeyEventsKeeps, RecordKeysKeeps, RepeatReadsKeeps, RepeatKeysKeeps, TrackpadReportKeeps
     DEF HidInputNext
<1>3. QED
  BY <1>1, <1>2

(* Only a report that follows a touch moves the pointer. *)
LEMMA TouchMoves ==
  ASSUME HidInputInv, [HidInputNext]_hidInputVars
  PROVE  [touch'.moved # <<0, 0>> => touch.touched \/ touch'.moved = touch.moved]_hidInputVars
<1>1. CASE \E at \in Touches, clicked \in BOOLEAN : TrackpadReport(at, clicked)
  <2>1. PICK at, clicked : TrackpadReport(at, clicked)
    BY <1>1
  <2>2. touch.last = <<>> => touch'.moved = <<0, 0>>
    BY <2>1 DEF TrackpadReport
  <2>3. QED
    BY <2>2 DEF HidInputInv, TouchInv
<1>2. CASE touch' = touch
  BY <1>2
<1>3. QED
  BY <1>1, <1>2 DEF HidInputNext, hidInputVars, HidTicks, KeyEvents, RecordKeys, RepeatReads, RepeatKeys

(* The listener's keys are those of the last report, a key that was released is *)
(* not repeated, and a finger put down anew does not move the pointer.          *)
THEOREM HidEventsMirror ==
  HidInputSpec => [](RepeatsAreHeld /\ EventsMirrorReports) /\ NoJumpAfterLift
<1>1. HidInputInv => RepeatsAreHeld /\ EventsMirrorReports
  BY DEF HidInputInv
<1>2. HidInputAssumption
  BY HidInputAssumption
<1>3. HidInputSpec => []HidInputInv
  BY <1>2, HidInputInitHolds, HidInputStepHolds, PTL DEF HidInputSpec
<1>4. []HidInputInv /\ [][HidInputNext]_hidInputVars => NoJumpAfterLift
  BY TouchMoves, PTL DEF NoJumpAfterLift
<1>5. QED
  BY <1>1, <1>3, <1>4, PTL DEF HidInputSpec

------------------------------------------------------------------------------
(* TypecPort                                                                   *)

(* Type-C: the probe's command is written to an idle controller, and from its   *)
(* read back on the port is powered; what a snapshot has read of the data       *)
(* status, the register held since it began.                                    *)
TcTypeOK ==
  /\ tcAt \in {"power", "active", "input", "command", "poll", "result", "verify", "failed", "snapshot", "registered",
               "probe data", "probe status", "data", "status"}
  /\ tcSnap \in [data : Pins6 \cup {"none", "usb3"}, status : {"none", "normal", "reverse"}]
  /\ alt \in Pins6 \cup {"none", "usb3"} /\ plug \in {"none", "normal", "reverse"}
TcProbed == {"snapshot", "registered", "probe data", "probe status", "data", "status"}
CommandInv ==
  /\ tcAt = "input" => CommandIdle(cmd1)
  /\ tcRan = {} /\ (tcAt \in TcProbed => sysPower = 0)
SnapshotInv ==
  /\ tcAt \in {"data", "probe data"} => alt \in tcHeld
  /\ tcAt \in {"status", "probe status"} => alt \in tcHeld /\ tcSnap.data \in tcHeld
TcInv == TcTypeOK /\ CommandInv /\ SnapshotInv /\ LanesNegotiated

LEMMA TcLanesKept ==
  ASSUME LanesNegotiated, tcOut' = tcOut, tcHeld \subseteq tcHeld'
  PROVE  LanesNegotiated'
<1>1. SUFFICES ASSUME tcOut'.kind = "lanes"
               PROVE  \E d \in tcHeld' :
                        \/ d \in {"C", "E"} /\ tcOut'.dp = 4 /\ ~tcOut'.usb3
                        \/ d = "D" /\ tcOut'.dp = 2 /\ tcOut'.usb3
  BY DEF LanesNegotiated
<1>2. PICK d \in tcHeld :
        \/ d \in {"C", "E"} /\ tcOut.dp = 4 /\ ~tcOut.usb3
        \/ d = "D" /\ tcOut.dp = 2 /\ tcOut.usb3
  BY <1>1, Zenon DEF LanesNegotiated
<1>3. d \in tcHeld'
  OBVIOUS
<1>4. QED
  BY <1>2, <1>3, Zenon

LEMMA TcCommandsKeep ==
  ASSUME TcInv,
         \/ ReadPower \/ ReadActive \/ WriteInput \/ WriteCommand \/ PollCommand \/ PollGivesUp
         \/ ReadResult \/ VerifyPower
  PROVE  TcInv'
<1>1. UNCHANGED <<plug, alt, tcSnap, tcHeld, tcOut, sysPower>> /\ tcAt \notin TcProbed
  BY DEF ReadPower, ReadActive, WriteInput, WriteCommand, PollCommand, PollGivesUp, ReadResult, VerifyPower, TcGo, TcProbed
<1>2. tcAt' \in {"active", "input", "command", "poll", "result", "verify", "failed"} \/ (tcAt' = "snapshot" /\ sysPower = 0)
  BY DEF ReadPower, ReadActive, WriteInput, WriteCommand, PollCommand, PollGivesUp, ReadResult, VerifyPower, TcGo, ReadBack
<1>3. CommandInv'
  <2>1. tcAt' = "input" => CommandIdle(cmd1')
    BY DEF ReadPower, ReadActive, WriteInput, WriteCommand, PollCommand, PollGivesUp, ReadResult, VerifyPower, TcGo
  <2>2. tcRan' = {}
    BY DEF TcInv, CommandInv, CommandIdle, ReadPower, ReadActive, WriteInput, WriteCommand, PollCommand, PollGivesUp,
           ReadResult, VerifyPower
  <2>3. QED
    BY <1>1, <1>2, <2>1, <2>2 DEF CommandInv, CommandIdle, TcProbed
<1>4. TcTypeOK'
  BY <1>1, <1>2 DEF TcInv, TcTypeOK
<1>5. SnapshotInv' /\ LanesNegotiated'
  BY <1>1, <1>2, TcLanesKept DEF TcInv, SnapshotInv
<1>6. QED
  BY <1>3, <1>4, <1>5 DEF TcInv

(* The lanes are those of the data status read, which the port had since.       *)
LEMMA TcLanes ==
  ASSUME NEW s \in [data : Pins6 \cup {"none", "usb3"}, status : {"none", "normal", "reverse"}], LaneMode(s).kind = "lanes"
  PROVE  \/ s.data \in {"C", "E"} /\ LaneMode(s).dp = 4 /\ ~LaneMode(s).usb3
         \/ s.data = "D" /\ LaneMode(s).dp = 2 /\ LaneMode(s).usb3
<1>1. LaneMode(s) = IF ~(s.status # "none" /\ TcHas(s.data)) THEN [kind |-> "no lanes"]
                    ELSE CASE Encoded(s.data) \in {0, 2} -> [kind |-> "lanes", dp |-> 4, usb3 |-> FALSE]
                           [] Encoded(s.data) = 3 -> [kind |-> "lanes", dp |-> 2, usb3 |-> TRUE]
                           [] OTHER -> [kind |-> "refused"]
  BY DEF LaneMode
<1>2. PICK m : m = LaneMode(s)
  OBVIOUS
<1>3. m.kind = "lanes" /\ [kind |-> "no lanes"].kind # "lanes" /\ [kind |-> "refused"].kind # "lanes"
  BY <1>2
<1>4. TcHas(s.data) /\ \/ Encoded(s.data) \in {0, 2} /\ m = [kind |-> "lanes", dp |-> 4, usb3 |-> FALSE]
                       \/ Encoded(s.data) = 3 /\ m = [kind |-> "lanes", dp |-> 2, usb3 |-> TRUE]
  BY ONLY <1>1, <1>2, <1>3
<1>5. s.data \in {"A", "B", "C", "D", "E", "F"}
  BY <1>4 DEF TcHas, Pins6
<1>6. /\ Encoded("A") = 4 /\ Encoded("B") = 6 /\ Encoded("C") = 2 /\ Encoded("D") = 3
      /\ Encoded("E") = 0 /\ Encoded("F") = 1
  BY DEF Encoded, AssignmentBits, Usb3Bit
<1>7. CASE Encoded(s.data) \in {0, 2} /\ m = [kind |-> "lanes", dp |-> 4, usb3 |-> FALSE]
  <2>1. s.data \in {"C", "E"}
    BY ONLY <1>5, <1>6, <1>7
  <2>2. m.dp = 4 /\ ~m.usb3
    BY <1>7
  <2>3. QED
    BY <1>2, <2>1, <2>2
<1>8. CASE Encoded(s.data) = 3 /\ m = [kind |-> "lanes", dp |-> 2, usb3 |-> TRUE]
  <2>1. s.data = "D"
    BY ONLY <1>5, <1>6, <1>8
  <2>2. m.dp = 2 /\ m.usb3
    BY <1>8
  <2>3. QED
    BY <1>2, <2>1, <2>2
<1>9. QED
  BY <1>4, <1>7, <1>8

LEMMA TcSnapshotsKeep ==
  ASSUME TcInv, BeginSnapshot \/ ReadDataStatus \/ ReadStatus \/ TakeResult \/ TransferFails
  PROVE  TcInv'
<1>1. UNCHANGED <<sysPower, cmd1, data1, plug, alt, tcRan>>
  BY DEF BeginSnapshot, ReadDataStatus, ReadStatus, TakeResult, TransferFails
<1>2. /\ tcAt' = tcAt \/ tcAt' \in {"failed", "registered"} \cup TcProbed
      /\ tcAt' \in TcProbed => tcAt \in TcProbed
      /\ tcAt' # "input" \/ tcAt = "input"
  BY DEF BeginSnapshot, ReadDataStatus, ReadStatus, TakeResult, TransferFails, TcProbed
<1>3. CommandInv'
  BY <1>1, <1>2 DEF TcInv, CommandInv, CommandIdle
<1>4. TcTypeOK'
  <2>1. tcSnap \in [data : Pins6 \cup {"none", "usb3"}, status : {"none", "normal", "reverse"}]
    BY DEF TcInv, TcTypeOK
  <2>2. \/ tcSnap' = tcSnap \/ tcSnap' = [data |-> alt, status |-> "none"]
        \/ tcSnap' = [tcSnap EXCEPT !.status = plug]
    BY DEF BeginSnapshot, ReadDataStatus, ReadStatus, TakeResult, TransferFails
  <2>3. alt \in Pins6 \cup {"none", "usb3"} /\ plug \in {"none", "normal", "reverse"}
    BY DEF TcInv, TcTypeOK
  <2>4. tcSnap' \in [data : Pins6 \cup {"none", "usb3"}, status : {"none", "normal", "reverse"}]
    BY ONLY <2>1, <2>2, <2>3
  <2>5. QED
    BY <1>1, <1>2, <2>4 DEF TcInv, TcTypeOK, TcProbed
<1>5. SnapshotInv'
  <2>1. CASE BeginSnapshot
    BY <2>1 DEF BeginSnapshot, SnapshotInv
  <2>2. CASE ReadDataStatus
    <3>1. alt \in tcHeld /\ tcSnap' = [data |-> alt, status |-> "none"] /\ UNCHANGED <<alt, tcHeld>>
          /\ tcAt' \in {"status", "probe status"}
      BY <2>2 DEF TcInv, SnapshotInv, ReadDataStatus
    <3>2. tcSnap'.data = alt
      BY <3>1
    <3>3. QED
      BY <3>1, <3>2 DEF SnapshotInv
  <2>3. CASE ReadStatus
    BY <2>3 DEF ReadStatus, SnapshotInv
  <2>4. CASE TakeResult
    BY <2>4 DEF TcInv, TakeResult, SnapshotInv
  <2>5. CASE TransferFails
    BY <2>5 DEF TransferFails, SnapshotInv
  <2>6. QED
    BY <2>1, <2>2, <2>3, <2>4, <2>5
<1>6. LanesNegotiated'
  <2>1. CASE ReadStatus
    <3>1. PICK s : s = [tcSnap EXCEPT !.status = plug]
      OBVIOUS
    <3>2. s \in [data : Pins6 \cup {"none", "usb3"}, status : {"none", "normal", "reverse"}] /\ s.data = tcSnap.data
      BY <3>1 DEF TcInv, TcTypeOK
    <3>3. s.data \in tcHeld'
      BY <2>1, <3>2 DEF TcInv, SnapshotInv, ReadStatus
    <3>4. tcOut' = NoResult \/ tcOut' = LaneMode(s)
      BY <2>1, <3>1 DEF ReadStatus
    <3>5. CASE tcOut' = NoResult
      BY <3>5 DEF NoResult, LanesNegotiated
    <3>6. CASE tcOut' = LaneMode(s)
      BY <3>2, <3>3, <3>6, TcLanes DEF LanesNegotiated
    <3>7. QED
      BY <3>4, <3>5, <3>6
  <2>2. CASE TakeResult
    BY <2>2 DEF TakeResult, NoResult, LanesNegotiated
  <2>3. CASE BeginSnapshot
    BY <2>3 DEF BeginSnapshot, NoResult, LanesNegotiated
  <2>4. CASE ReadDataStatus \/ TransferFails
    BY <2>4, TcLanesKept DEF TcInv, ReadDataStatus, TransferFails
  <2>5. QED
    BY <2>1, <2>2, <2>3, <2>4
<1>7. QED
  BY <1>3, <1>4, <1>5, <1>6 DEF TcInv

LEMMA TcOutsideKeeps ==
  ASSUME TcInv, CommandEnds \/ Replug
  PROVE  TcInv'
<1>1. CASE CommandEnds
  <2>1. UNCHANGED <<plug, alt, tcAt, tcSnap, tcHeld, tcOut, tcRan>> /\ CommandIdle(cmd1') /\ (sysPower' = 0 \/ sysPower' = sysPower)
    BY <1>1 DEF CommandEnds, CommandIdle
  <2>2. TcTypeOK'
    BY <2>1 DEF TcInv, TcTypeOK
  <2>3. CommandInv'
    <3>1. tcRan = {} /\ (tcAt \in TcProbed => sysPower = 0)
      BY DEF TcInv, CommandInv
    <3>2. tcRan' = {} /\ (tcAt' \in TcProbed => sysPower' = 0)
      BY ONLY <2>1, <3>1
    <3>3. QED
      BY <2>1, <3>2 DEF CommandInv, CommandIdle
  <2>4. SnapshotInv'
    BY <2>1 DEF TcInv, SnapshotInv
  <2>5. QED
    BY <2>1, <2>2, <2>3, <2>4, TcLanesKept DEF TcInv
<1>2. CASE Replug
  <2>1. /\ UNCHANGED <<sysPower, cmd1, tcAt, tcSnap, tcOut, tcRan>> /\ tcHeld \subseteq tcHeld'
        /\ alt' \in Pins6 \cup {"none", "usb3"} /\ plug' \in {"none", "normal", "reverse"}
        /\ alt \in tcHeld => alt' \in tcHeld'
    BY <1>2 DEF Replug, TcInv, TcTypeOK
  <2>2. TcTypeOK'
    BY <2>1 DEF TcInv, TcTypeOK
  <2>3. CommandInv'
    <3>1. (tcAt = "input" => CommandIdle(cmd1)) /\ tcRan = {} /\ (tcAt \in TcProbed => sysPower = 0)
      BY DEF TcInv, CommandInv
    <3>2. (tcAt' = "input" => CommandIdle(cmd1')) /\ tcRan' = {} /\ (tcAt' \in TcProbed => sysPower' = 0)
      BY ONLY <2>1, <3>1
    <3>3. QED
      BY <3>2 DEF CommandInv
  <2>4. SnapshotInv'
    BY <2>1 DEF TcInv, SnapshotInv
  <2>5. QED
    BY <2>1, <2>2, <2>3, <2>4, TcLanesKept DEF TcInv
<1>3. QED
  BY <1>1, <1>2

LEMMA TcInitHolds ==
  ASSUME TcInit
  PROVE  TcInv
  BY DEF TcInit, TcInv, TcTypeOK, Pins6, CommandInv, TcProbed, SnapshotInv, LanesNegotiated, NoResult

LEMMA TcStepHolds ==
  ASSUME TcInv, [TcNext]_tcVars
  PROVE  TcInv'
<1>1. CASE UNCHANGED tcVars
  <2>1. UNCHANGED <<sysPower, cmd1, plug, alt, tcAt, tcSnap, tcHeld, tcOut, tcRan>>
    BY <1>1 DEF tcVars
  <2>2. TcTypeOK'
    BY <2>1 DEF TcInv, TcTypeOK
  <2>3. CommandInv'
    <3>1. (tcAt = "input" => CommandIdle(cmd1)) /\ tcRan = {} /\ (tcAt \in TcProbed => sysPower = 0)
      BY DEF TcInv, CommandInv
    <3>2. (tcAt' = "input" => CommandIdle(cmd1')) /\ tcRan' = {} /\ (tcAt' \in TcProbed => sysPower' = 0)
      BY ONLY <2>1, <3>1
    <3>3. QED
      BY <3>2 DEF CommandInv
  <2>4. SnapshotInv'
    BY <2>1 DEF TcInv, SnapshotInv
  <2>5. QED
    BY <2>1, <2>2, <2>3, <2>4, TcLanesKept DEF TcInv
<1>2. CASE TcNext
  BY <1>2, TcCommandsKeep, TcSnapshotsKeep, TcOutsideKeeps DEF TcNext
<1>3. QED
  BY <1>1, <1>2

(* The lanes a snapshot reports are those of one mode the port was in, and a    *)
(* port that registers is powered.                                              *)
THEOREM TcPortIsDescribed == TcSpec => [](LanesNegotiated /\ PortIsPowered)
<1>1. TcInv => LanesNegotiated /\ PortIsPowered
  BY DEF TcInv, CommandInv, TcProbed, PortIsPowered
<1>2. QED
  BY <1>1, TcInitHolds, TcStepHolds, PTL DEF TcSpec

------------------------------------------------------------------------------
(* Pinctrl                                                                     *)

(* Pins: an edge that waits has a handler to run and is not the one being       *)
(* cleared; a pin whose request is under way has its handler.                   *)
PinTypeOK ==
  /\ pinMode \in [Pins -> {"off", "irq"}]
  /\ rpc \in [Pins -> {"idle", "mode", "parent", "freeing"}]
EdgeInv == edge \subseteq handlers /\ (gpc = "ack" => pinNow \notin edge)
RequestInv == \A p \in Pins : rpc[p] \in {"mode", "parent"} => p \in handlers
PinInv == PinTypeOK /\ EdgeInv /\ RequestInv /\ NoEdgeLost /\ LivePinHasHandler

LEMMA PinRequestKeeps ==
  ASSUME PinInv, NEW p \in Pins,
         RequestHandler(p) \/ RequestMode(p) \/ RequestParent(p) \/ RequestFails(p) \/ FreeHandler(p) \/ FreeMode(p)
  PROVE  PinInv'
<1>1. PinTypeOK'
  BY DEF PinInv, PinTypeOK, RequestHandler, RequestMode, RequestParent, RequestFails, FreeHandler, FreeMode
<1>2. EdgeInv' /\ NoEdgeLost'
  BY DEF PinInv, EdgeInv, NoEdgeLost, RequestHandler, RequestMode, RequestParent, RequestFails, FreeHandler, FreeMode
<1>3. \A q \in Pins : q # p => rpc'[q] = rpc[q] /\ pinMode'[q] = pinMode[q] /\ (q \in handlers' <=> q \in handlers)
  BY DEF PinInv, PinTypeOK, RequestHandler, RequestMode, RequestParent, RequestFails, FreeHandler, FreeMode
<1>4. /\ rpc'[p] \in {"mode", "parent"} => p \in handlers'
      /\ pinMode'[p] = "irq" => p \in handlers' \/ rpc'[p] = "freeing"
  BY DEF PinInv, PinTypeOK, RequestInv, LivePinHasHandler,
         RequestHandler, RequestMode, RequestParent, RequestFails, FreeHandler, FreeMode
<1>5. RequestInv' /\ LivePinHasHandler'
  BY <1>3, <1>4 DEF PinInv, RequestInv, LivePinHasHandler
<1>6. QED
  BY <1>1, <1>2, <1>5 DEF PinInv

LEMMA PinParentKeeps ==
  ASSUME PinInv, ReadPending \/ AckPin \/ \E p \in Pins : PinTriggers(p) \/ RunPinHandler(p)
  PROVE  PinInv'
<1>1. UNCHANGED <<pinMode, handlers, rpc>>
  BY DEF ReadPending, AckPin, PinTriggers, RunPinHandler
<1>2. EdgeInv' /\ NoEdgeLost'
  <2>1. CASE ReadPending \/ AckPin
    BY <2>1 DEF PinInv, EdgeInv, NoEdgeLost, ReadPending, AckPin
  <2>2. ASSUME NEW p \in Pins, PinTriggers(p)  PROVE EdgeInv' /\ NoEdgeLost'
    BY <2>2 DEF PinInv, EdgeInv, NoEdgeLost, PinTriggers
  <2>3. ASSUME NEW p \in Pins, RunPinHandler(p)  PROVE EdgeInv' /\ NoEdgeLost'
    BY <2>3 DEF PinInv, EdgeInv, NoEdgeLost, RunPinHandler
  <2>4. QED
    BY <2>1, <2>2, <2>3
<1>3. PinTypeOK' /\ RequestInv' /\ LivePinHasHandler'
  BY <1>1 DEF PinInv, PinTypeOK, RequestInv, LivePinHasHandler
<1>4. QED
  BY <1>2, <1>3 DEF PinInv

LEMMA PinInitHolds ==
  ASSUME PinInit
  PROVE  PinInv
  BY DEF PinInit, PinInv, PinTypeOK, EdgeInv, RequestInv, NoEdgeLost, LivePinHasHandler

LEMMA PinStepHolds ==
  ASSUME PinInv, [PinNext]_pinVars
  PROVE  PinInv'
<1>1. CASE UNCHANGED pinVars
  BY <1>1 DEF pinVars, PinInv, PinTypeOK, EdgeInv, RequestInv, NoEdgeLost, LivePinHasHandler
<1>2. CASE PinNext
  BY <1>2, PinRequestKeeps, PinParentKeeps DEF PinNext
<1>3. QED
  BY <1>1, <1>2

(* An edge of a pin stays pending until its handler starts, and a live pin has  *)
(* a handler to find until its driver frees it.                                 *)
THEOREM EdgesAreKept == PinSpec => [](NoEdgeLost /\ LivePinHasHandler)
<1>1. PinInv => NoEdgeLost /\ LivePinHasHandler
  BY DEF PinInv
<1>2. QED
  BY <1>1, PinInitHolds, PinStepHolds, PTL DEF PinSpec

------------------------------------------------------------------------------
(* AdmacChannel                                                                *)

(* A channel is a record; what the books of a channel must add up to holds for  *)
(* the record and for what the handler and the taker hold of its reports.       *)
ChanStates ==
  [inUse : BOOLEAN, block : Nat, transfer : BOOLEAN, running : BOOLEAN, completed : Nat, error : BOOLEAN,
   on : BOOLEAN, mask : SUBSET {"done", "err"}, status : SUBSET {"done", "err"}, ringErr : BOOLEAN,
   descs : Nat, reports : Nat, inFlight : Nat, leaving : {"no", "quiet", "carveout"}, torn : BOOLEAN]
AdmacTypeOK ==
  /\ chan \in [AdmacChannels -> ChanStates]
  /\ irq \in [at : {"idle", "count"}, c : AdmacChannels, n : Nat]
  /\ taker \in [AdmacChannels -> [at : {"idle", "poll"}, n : Nat]]

(* What the handler claimed of a channel and has not counted yet. *)
Claimed(c) == IF irq.at = "count" /\ irq.c = c THEN irq.n ELSE 0
(* A channel plays for a transfer, and not while it is being dropped. *)
Plays(s) == (s.on => s.transfer /\ s.leaving = "no") /\ (s.leaving = "carveout" => ~s.transfer)
Counted(s, n) == s.transfer /\ s.leaving = "no" /\ ~s.torn => s.inFlight = s.descs + s.reports + s.completed + n
ChannelOK(c) ==
  /\ Plays(chan[c]) /\ (taker[c].at = "idle" => taker[c].n = 0)
  /\ Counted(chan[c], taker[c].n + Claimed(c))
AdmacInv == AdmacTypeOK /\ BlocksDisjoint /\ \A c \in AdmacChannels : ChannelOK(c)

LEMMA AdmacTypes ==
  ASSUME AdmacTypeOK, NEW c \in AdmacChannels
  PROVE  /\ chan[c] \in ChanStates /\ taker[c].n \in Nat /\ taker[c].at \in {"idle", "poll"} /\ Claimed(c) \in Nat
         /\ irq.n \in Nat /\ irq.c \in AdmacChannels /\ irq.at \in {"idle", "count"}
  BY DEF AdmacTypeOK, Claimed

(* A step of one channel that leaves its block as it was or free. *)
LEMMA ChannelMoves ==
  ASSUME AdmacInv, NEW c \in AdmacChannels, NEW s \in ChanStates, Step(c, s), AdmacTypeOK', s.block \in {chan[c].block, 0},
         \A d \in AdmacChannels : d # c => taker'[d] = taker[d] /\ Claimed(d)' = Claimed(d),
         Plays(s), taker'[c].at = "idle" => taker'[c].n = 0, Counted(s, taker'[c].n + Claimed(c)')
  PROVE  AdmacInv'
<1>1. chan' = [chan EXCEPT ![c] = s] /\ chan \in [AdmacChannels -> ChanStates]
  BY DEF Step, AdmacInv, AdmacTypeOK
<1>2. chan'[c] = s /\ \A d \in AdmacChannels : d # c => chan'[d] = chan[d]
  BY <1>1
<1>3. ASSUME NEW d \in AdmacChannels PROVE ChannelOK(d)'
  <2>1. CASE d = c
    BY <1>2, <2>1 DEF ChannelOK
  <2>2. CASE d # c
    BY <1>2, <2>2 DEF ChannelOK, AdmacInv
  <2>3. QED
    BY <2>1, <2>2
<1>4. BlocksDisjoint'
  <2>1. \A d \in AdmacChannels : chan'[d].block \in {chan[d].block, 0}
    BY <1>2
  <2>2. QED
    BY <2>1 DEF BlocksDisjoint, AdmacInv
<1>5. QED
  BY <1>3, <1>4 DEF AdmacInv

(* The same when neither the handler nor the taker moves. *)
LEMMA ChannelMovesAlone ==
  ASSUME AdmacInv, NEW c \in AdmacChannels, NEW s \in ChanStates, Step(c, s), UNCHANGED <<irq, taker>>,
         s.block \in {chan[c].block, 0}, Plays(s), Counted(s, taker[c].n + Claimed(c))
  PROVE  AdmacInv'
<1>1. AdmacTypeOK'
  <2>1. chan' \in [AdmacChannels -> ChanStates]
    BY DEF Step, AdmacInv, AdmacTypeOK
  <2>2. QED
    BY <2>1 DEF AdmacTypeOK, AdmacInv
<1>2. \A d \in AdmacChannels : taker'[d] = taker[d] /\ Claimed(d)' = Claimed(d)
  BY DEF Claimed
<1>3. taker'[c].at = "idle" => taker'[c].n = 0
  BY DEF AdmacInv, ChannelOK
<1>4. QED
  BY <1>1, <1>2, <1>3, ChannelMoves

LEMMA QuietIs ==
  ASSUME NEW s \in ChanStates
  PROVE  /\ Quiet(s) \in ChanStates /\ ~Quiet(s).on /\ Quiet(s).descs = 0 /\ Quiet(s).reports = 0
         /\ Quiet(s).transfer = s.transfer /\ Quiet(s).leaving = s.leaving /\ Quiet(s).block = s.block
         /\ Quiet(s).completed = s.completed /\ Quiet(s).inFlight = s.inFlight /\ Quiet(s).torn = s.torn
  BY DEF Quiet, ChanStates

LEMMA FreeIs ==
  ASSUME AdmacInv, NEW c \in AdmacChannels, Free(c)
  PROVE  taker[c].n = 0 /\ taker[c].at = "idle" /\ chan[c].leaving = "no" /\ (~Torn(c) => Claimed(c) = 0)
  BY DEF Free, Idle, Torn, Claimed

LEMMA LeastIs ==
  ASSUME NEW S, S \subseteq Nat, S # {}
  PROVE  Min(S) \in S
<1> DEFINE R == OpToRel(<, Nat)
<1>1. IsWellFoundedOn(R, Nat)
  BY NatLessThanWellFounded
<1>2. \A x, y \in Nat : <<y, x>> \in R <=> y < x
  BY DEF OpToRel
<1> HIDE DEF R
<1>3. PICK x \in S : \A y \in S : <<y, x>> \notin R
  BY <1>1, WFMin
<1>4. ASSUME NEW y \in S PROVE x =< y
  <2>1. x \in Nat /\ y \in Nat /\ ~(y < x)
    BY <1>2, <1>3
  <2>2. QED
    BY <2>1
<1>5. QED
  BY <1>4 DEF Min

LEMMA LessOfTwo ==
  ASSUME NEW a \in Nat, NEW b \in Nat
  PROVE  Min({a, b}) = IF a =< b THEN a ELSE b
<1>1. Min({a, b}) \in {a, b} /\ Min({a, b}) =< a /\ Min({a, b}) =< b
  <2>1. \E x \in {a, b} : \A y \in {a, b} : x =< y
    <3>1. CASE a =< b
      BY <3>1
    <3>2. CASE b =< a
      BY <3>2
    <3>3. QED
      BY <3>1, <3>2
  <2>2. QED
    BY <2>1 DEF Min
<1>2. QED
  BY <1>1

LEMMA RequestKeeps ==
  ASSUME AdmacAssumption, AdmacInv, NEW c \in AdmacChannels, RequestChannel(c)
  PROVE  AdmacInv'
<1>1. PICK b : b = Min(SramBlocks \ Held)
  OBVIOUS
<1>2. b \in SramBlocks \ Held /\ b \in Nat \ {0}
  <2>1. SramBlocks \ Held \subseteq Nat /\ SramBlocks \ Held # {}
    BY DEF AdmacAssumption, RequestChannel
  <2>2. b \in SramBlocks \ Held
    BY <1>1, <2>1, LeastIs
  <2>3. QED
    BY <2>2 DEF AdmacAssumption
<1>3. PICK s : s = [chan[c] EXCEPT !.inUse = TRUE, !.block = b]
  OBVIOUS
<1>4. Step(c, s) /\ UNCHANGED <<irq, taker>>
  BY <1>1, <1>3 DEF RequestChannel
<1>5. chan[c] \in ChanStates
  BY AdmacTypes DEF AdmacInv
<1>6. /\ s \in ChanStates /\ s.block = b /\ s.on = chan[c].on /\ s.transfer = chan[c].transfer /\ s.leaving = chan[c].leaving
      /\ s.torn = chan[c].torn /\ s.inFlight = chan[c].inFlight /\ s.descs = chan[c].descs /\ s.reports = chan[c].reports
      /\ s.completed = chan[c].completed
  BY <1>2, <1>3, <1>5 DEF ChanStates
<1>7. chan' = [chan EXCEPT ![c] = s] /\ chan \in [AdmacChannels -> ChanStates]
  BY <1>4 DEF Step, AdmacInv, AdmacTypeOK
<1>8. chan'[c] = s /\ \A d \in AdmacChannels : d # c => chan'[d] = chan[d]
  BY <1>7
<1>9. AdmacTypeOK'
  <2>1. chan' \in [AdmacChannels -> ChanStates]
    BY <1>6, <1>7
  <2>2. QED
    BY <1>4, <2>1 DEF AdmacTypeOK, AdmacInv
<1>10. BlocksDisjoint'
  <2>1. \A d \in AdmacChannels : chan[d].block # b
    BY <1>2 DEF Held
  <2>2. \A d \in AdmacChannels : chan'[d].block = IF d = c THEN b ELSE chan[d].block
    BY <1>6, <1>8
  <2>3. QED
    BY <2>1, <2>2 DEF BlocksDisjoint, AdmacInv
<1>11. ASSUME NEW d \in AdmacChannels PROVE ChannelOK(d)'
  <2>1. ChannelOK(d) /\ taker'[d] = taker[d] /\ Claimed(d)' = Claimed(d)
    BY <1>4 DEF AdmacInv, Claimed
  <2>2. CASE d = c
    BY <1>6, <1>8, <2>1, <2>2 DEF ChannelOK, Plays, Counted
  <2>3. CASE d # c
    BY <1>8, <2>1, <2>3 DEF ChannelOK
  <2>4. QED
    BY <2>2, <2>3
<1>12. QED
  BY <1>9, <1>10, <1>11 DEF AdmacInv

(* What the owner does between the calls that stop a channel. *)
LEMMA OwnerKeeps ==
  ASSUME AdmacAssumption, AdmacInv, NEW c \in AdmacChannels,
         QueuePeriod(c) \/ StartChannel(c) \/ PauseChannel(c) \/ ResumeChannel(c)
  PROVE  AdmacInv'
<1>1. PICK o \in ChanStates : o = chan[c]
  BY AdmacTypes DEF AdmacInv
<1>2. Plays(o) /\ Counted(o, taker[c].n + Claimed(c)) /\ taker[c].n \in Nat /\ Claimed(c) \in Nat
  BY <1>1, AdmacTypes DEF AdmacInv, ChannelOK
<1>3. o.leaving = "no" /\ UNCHANGED <<irq, taker>>
  BY <1>1, FreeIs DEF QueuePeriod, StartChannel, PauseChannel, ResumeChannel, Runnable
<1>4. CASE QueuePeriod(c)
  <2>1. PICK s : s = [o EXCEPT !.descs = @ + 1, !.inFlight = @ + 1]
    OBVIOUS
  <2>2. Step(c, s) /\ o.transfer
    BY <1>1, <1>4, <2>1 DEF QueuePeriod
  <2>3. o.descs + 1 \in Nat /\ o.inFlight + 1 \in Nat /\ o.descs \in Nat /\ o.inFlight \in Nat /\ o.reports \in Nat /\ o.completed \in Nat
    BY DEF ChanStates
  <2>4. /\ s \in ChanStates /\ s.block = o.block /\ s.on = o.on /\ s.transfer = o.transfer /\ s.leaving = o.leaving /\ s.torn = o.torn
        /\ s.descs = o.descs + 1 /\ s.inFlight = o.inFlight + 1 /\ s.reports = o.reports /\ s.completed = o.completed
    BY <2>1, <2>3 DEF ChanStates
  <2>5. Plays(s)
    BY <1>2, <2>4 DEF Plays
  <2>6. Counted(s, taker[c].n + Claimed(c))
    BY <1>2, <2>3, <2>4 DEF Counted
  <2>7. QED
    BY <1>1, <1>3, <2>2, <2>4, <2>5, <2>6, ChannelMovesAlone
<1>5. CASE StartChannel(c)
  <2>1. PICK s : s = [o EXCEPT !.completed = 0, !.running = TRUE, !.on = TRUE, !.mask = {"done", "err"}, !.status = {}]
    OBVIOUS
  <2>2. Step(c, s) /\ o.transfer /\ o.inFlight = o.descs
    BY <1>1, <1>5, <2>1 DEF StartChannel, Runnable
  <2>3. o.descs \in Nat /\ o.inFlight \in Nat /\ o.reports \in Nat /\ o.completed \in Nat
    BY DEF ChanStates
  <2>4. /\ s \in ChanStates /\ s.block = o.block /\ s.transfer = o.transfer /\ s.leaving = o.leaving /\ s.torn = o.torn
        /\ s.descs = o.descs /\ s.inFlight = o.inFlight /\ s.reports = o.reports /\ s.completed = 0
    BY <2>1 DEF ChanStates
  <2>5. Plays(s)
    BY <1>3, <2>2, <2>4 DEF Plays
  <2>6. Counted(s, taker[c].n + Claimed(c))
    BY <1>2, <2>2, <2>3, <2>4 DEF Counted
  <2>7. QED
    BY <1>1, <1>3, <2>2, <2>4, <2>5, <2>6, ChannelMovesAlone
<1>6. CASE PauseChannel(c)
  <2>1. PICK s : s = [Paused(o) EXCEPT !.running = FALSE]
    OBVIOUS
  <2>2. Step(c, s)
    BY <1>1, <1>6, <2>1 DEF PauseChannel
  <2>3. /\ s \in ChanStates /\ s.block = o.block /\ s.on = FALSE /\ s.transfer = o.transfer /\ s.leaving = o.leaving /\ s.torn = o.torn
        /\ s.descs = o.descs /\ s.inFlight = o.inFlight /\ s.reports = o.reports /\ s.completed = o.completed
    BY <2>1 DEF ChanStates, Paused
  <2>4. Plays(s) /\ Counted(s, taker[c].n + Claimed(c))
    BY <1>2, <2>3 DEF Plays, Counted
  <2>5. QED
    BY <1>1, <1>3, <2>2, <2>3, <2>4, ChannelMovesAlone
<1>7. CASE ResumeChannel(c)
  <2>1. PICK s : s = [o EXCEPT !.running = TRUE, !.on = TRUE, !.mask = {"done", "err"}, !.status = {}]
    OBVIOUS
  <2>2. Step(c, s) /\ o.transfer
    BY <1>1, <1>7, <2>1 DEF ResumeChannel, Runnable
  <2>3. /\ s \in ChanStates /\ s.block = o.block /\ s.transfer = o.transfer /\ s.leaving = o.leaving /\ s.torn = o.torn
        /\ s.descs = o.descs /\ s.inFlight = o.inFlight /\ s.reports = o.reports /\ s.completed = o.completed
    BY <2>1 DEF ChanStates
  <2>4. Plays(s) /\ Counted(s, taker[c].n + Claimed(c))
    BY <1>2, <1>3, <2>2, <2>3 DEF Plays, Counted
  <2>5. QED
    BY <1>1, <1>3, <2>2, <2>3, <2>4, ChannelMovesAlone
<1>8. QED
  BY <1>4, <1>5, <1>6, <1>7

(* What stops a channel: a new configuration, stop, and the steps of its drop. *)
(* What the ways to stop make of a record. *)
LEMMA StopsAre ==
  ASSUME NEW s \in ChanStates, NEW b \in BOOLEAN
  PROVE  /\ [s EXCEPT !.transfer = TRUE, !.completed = 0, !.error = FALSE, !.inFlight = 0, !.torn = b] \in ChanStates
         /\ [s EXCEPT !.running = FALSE, !.completed = 0, !.error = FALSE, !.inFlight = 0, !.torn = b] \in ChanStates
         /\ [s EXCEPT !.leaving = "quiet", !.inFlight = 0, !.torn = b] \in ChanStates
         /\ [s EXCEPT !.transfer = FALSE, !.running = FALSE, !.completed = 0, !.error = FALSE,
                      !.torn = b, !.leaving = "carveout"] \in ChanStates
         /\ [s EXCEPT !.transfer = FALSE, !.inFlight = 0] \in ChanStates
<1>1. [s EXCEPT !.transfer = TRUE, !.completed = 0, !.error = FALSE, !.inFlight = 0, !.torn = b] \in ChanStates
  BY DEF ChanStates
<1>2. [s EXCEPT !.running = FALSE, !.completed = 0, !.error = FALSE, !.inFlight = 0, !.torn = b] \in ChanStates
  BY DEF ChanStates
<1>3. [s EXCEPT !.leaving = "quiet", !.inFlight = 0, !.torn = b] \in ChanStates
  BY DEF ChanStates
<1>4. [s EXCEPT !.transfer = FALSE, !.running = FALSE, !.completed = 0, !.error = FALSE,
                !.torn = b, !.leaving = "carveout"] \in ChanStates
  BY DEF ChanStates
<1>5. [s EXCEPT !.transfer = FALSE, !.inFlight = 0] \in ChanStates
  BY DEF ChanStates
<1>6. QED
  BY <1>1, <1>2, <1>3, <1>4, <1>5

LEMMA StopsKeep ==
  ASSUME AdmacAssumption, AdmacInv, NEW c \in AdmacChannels,
         \/ \E ok \in BOOLEAN : PrepareCyclic(c, ok)
         \/ StopChannel(c) \/ DropBegins(c) \/ DropUnmaps(c) \/ DropReleases(c)
  PROVE  AdmacInv'
<1>1. PICK o \in ChanStates : o = chan[c]
  BY AdmacTypes DEF AdmacInv
<1>2. Plays(o) /\ Counted(o, taker[c].n + Claimed(c)) /\ taker[c].n \in Nat /\ Claimed(c) \in Nat
  BY <1>1, AdmacTypes DEF AdmacInv, ChannelOK
<1>3. UNCHANGED <<irq, taker>>
  BY DEF PrepareCyclic, StopChannel, DropBegins, DropUnmaps, DropReleases
<1>4. PICK q \in ChanStates : /\ q = Quiet(o) /\ ~q.on /\ q.descs = 0 /\ q.reports = 0 /\ q.transfer = o.transfer
                              /\ q.leaving = o.leaving /\ q.block = o.block
  BY QuietIs
<1>5. PICK b \in BOOLEAN : b = Torn(c)
  BY Zenon DEF Torn
<1>6. ASSUME NEW ok \in BOOLEAN, PrepareCyclic(c, ok) PROVE AdmacInv'
  <2>1. CASE ok
    <3>1. PICK s : s = [q EXCEPT !.transfer = TRUE, !.completed = 0, !.error = FALSE, !.inFlight = 0, !.torn = Torn(c)]
      OBVIOUS
    <3>2. Step(c, s) /\ Free(c)
      BY <1>1, <1>4, <1>6, <2>1, <3>1 DEF PrepareCyclic
    <3>3. /\ s \in ChanStates /\ s.block = o.block /\ ~s.on /\ s.leaving = o.leaving /\ s.torn = b
          /\ s.descs = 0 /\ s.inFlight = 0 /\ s.reports = 0 /\ s.completed = 0
      <4>1. s = [q EXCEPT !.transfer = TRUE, !.completed = 0, !.error = FALSE, !.inFlight = 0, !.torn = b]
        BY <1>5, <3>1
      <4>2. s \in ChanStates
        BY <1>4, <4>1, StopsAre, Zenon
      <4>3. QED
        BY <1>4, <4>1, <4>2 DEF ChanStates
    <3>4. Plays(s) /\ Counted(s, taker[c].n + Claimed(c))
      BY <1>1, <1>5, <3>2, <3>3, FreeIs DEF Plays, Counted
    <3>5. QED
      BY <1>1, <1>3, <3>2, <3>3, <3>4, ChannelMovesAlone
  <2>2. CASE ~ok
    <3>1. PICK s : s = [q EXCEPT !.transfer = FALSE, !.inFlight = 0]
      OBVIOUS
    <3>2. Step(c, s)
      BY <1>1, <1>4, <1>6, <2>2, <3>1 DEF PrepareCyclic
    <3>3. s \in ChanStates /\ s.block = o.block /\ ~s.on /\ ~s.transfer
      <4>1. s \in ChanStates
        BY <1>4, <3>1, StopsAre, Zenon
      <4>2. QED
        BY <1>4, <3>1, <4>1 DEF ChanStates
    <3>4. Plays(s) /\ Counted(s, taker[c].n + Claimed(c))
      BY <3>3 DEF Plays, Counted
    <3>5. QED
      BY <1>1, <1>3, <3>2, <3>3, <3>4, ChannelMovesAlone
  <2>3. QED
    BY <2>1, <2>2
<1>7. CASE StopChannel(c)
  <2>1. PICK s : s = [q EXCEPT !.running = FALSE, !.completed = 0, !.error = FALSE, !.inFlight = 0, !.torn = Torn(c)]
    OBVIOUS
  <2>2. Step(c, s) /\ Free(c)
    BY <1>1, <1>4, <1>7, <2>1 DEF StopChannel
  <2>3. /\ s \in ChanStates /\ s.block = o.block /\ ~s.on /\ s.leaving = o.leaving /\ s.torn = b
        /\ s.descs = 0 /\ s.inFlight = 0 /\ s.reports = 0 /\ s.completed = 0
    <3>1. s = [q EXCEPT !.running = FALSE, !.completed = 0, !.error = FALSE, !.inFlight = 0, !.torn = b]
      BY <1>5, <2>1
    <3>2. s \in ChanStates
      BY <1>4, <3>1, StopsAre, Zenon
    <3>3. QED
      BY <1>4, <3>1, <3>2 DEF ChanStates
  <2>4. Plays(s) /\ Counted(s, taker[c].n + Claimed(c))
    BY <1>1, <1>5, <2>2, <2>3, FreeIs DEF Plays, Counted
  <2>5. QED
    BY <1>1, <1>3, <2>2, <2>3, <2>4, ChannelMovesAlone
<1>8. CASE DropBegins(c)
  <2>1. PICK s : s = [q EXCEPT !.leaving = "quiet", !.inFlight = 0, !.torn = Torn(c)]
    OBVIOUS
  <2>2. Step(c, s)
    BY <1>1, <1>4, <1>8, <2>1 DEF DropBegins
  <2>3. s \in ChanStates /\ s.block = o.block /\ ~s.on /\ s.leaving = "quiet"
    <3>1. s = [q EXCEPT !.leaving = "quiet", !.inFlight = 0, !.torn = b]
      BY <1>5, <2>1
    <3>2. s \in ChanStates
      BY <1>4, <3>1, StopsAre, Zenon
    <3>3. QED
      BY <1>4, <3>1, <3>2 DEF ChanStates
  <2>4. Plays(s) /\ Counted(s, taker[c].n + Claimed(c))
    BY <2>3 DEF Plays, Counted
  <2>5. QED
    BY <1>1, <1>3, <2>2, <2>3, <2>4, ChannelMovesAlone
<1>9. CASE DropUnmaps(c)
  <2>1. PICK s : s = [o EXCEPT !.transfer = FALSE, !.running = FALSE, !.completed = 0, !.error = FALSE,
                               !.torn = @ \/ Torn(c), !.leaving = "carveout"]
    OBVIOUS
  <2>2. Step(c, s) /\ o.leaving = "quiet"
    BY <1>1, <1>9, <2>1 DEF DropUnmaps
  <2>3. PICK e \in BOOLEAN : e = (o.torn \/ Torn(c))
    OBVIOUS
  <2>4. s \in ChanStates /\ s.block = o.block /\ s.on = o.on /\ s.leaving = "carveout" /\ ~s.transfer
    <3>1. s = [o EXCEPT !.transfer = FALSE, !.running = FALSE, !.completed = 0, !.error = FALSE,
                        !.torn = e, !.leaving = "carveout"]
      BY <2>1, <2>3
    <3>2. s \in ChanStates
      BY <3>1, StopsAre, Zenon
    <3>3. QED
      BY <3>1, <3>2 DEF ChanStates
  <2>5. Plays(s) /\ Counted(s, taker[c].n + Claimed(c))
    BY <1>2, <2>2, <2>4 DEF Plays, Counted
  <2>6. QED
    BY <1>1, <1>3, <2>2, <2>4, <2>5, ChannelMovesAlone
<1>10. CASE DropReleases(c)
  <2>1. PICK s : s = [o EXCEPT !.block = 0, !.inUse = FALSE, !.leaving = "no"]
    OBVIOUS
  <2>2. Step(c, s) /\ o.leaving = "carveout"
    BY <1>1, <1>10, <2>1 DEF DropReleases
  <2>3. s \in ChanStates /\ s.block = 0 /\ s.on = o.on /\ s.transfer = o.transfer
    BY <2>1 DEF ChanStates
  <2>4. Plays(s) /\ Counted(s, taker[c].n + Claimed(c))
    BY <1>2, <2>2, <2>3 DEF Plays, Counted
  <2>5. QED
    BY <1>1, <1>3, <2>2, <2>3, <2>4, ChannelMovesAlone
<1>11. QED
  BY <1>6, <1>7, <1>8, <1>9, <1>10

(* Two records that say the same of what is counted and of who plays. *)
Alike(s, o) ==
  /\ s.block = o.block /\ s.on = o.on /\ s.transfer = o.transfer /\ s.leaving = o.leaving /\ s.torn = o.torn
  /\ s.descs = o.descs /\ s.inFlight = o.inFlight /\ s.completed = o.completed

LEMMA ErrorIs ==
  ASSUME NEW s \in ChanStates
  PROVE  AfterError(s) \in ChanStates /\ Alike(AfterError(s), s) /\ AfterError(s).reports = s.reports
<1>1. CASE "err" \notin s.status
  BY <1>1 DEF AfterError, Alike
<1>2. CASE "err" \in s.status /\ s.ringErr
  <2>1. PICK t : t = [s EXCEPT !.error = TRUE, !.ringErr = FALSE, !.status = @ \ {"err"}]
    OBVIOUS
  <2>2. t \in ChanStates /\ Alike(t, s) /\ t.reports = s.reports
    BY <2>1 DEF ChanStates, Alike
  <2>3. AfterError(s) = t
    BY <1>2, <2>1 DEF AfterError
  <2>4. QED
    BY <2>2, <2>3
<1>3. CASE "err" \in s.status /\ ~s.ringErr
  <2>1. PICK t : t = [s EXCEPT !.error = TRUE, !.mask = @ \ {"err"}]
    OBVIOUS
  <2>2. t \in ChanStates /\ Alike(t, s) /\ t.reports = s.reports
    BY <2>1 DEF ChanStates, Alike
  <2>3. AfterError(s) = t
    BY <1>3, <2>1 DEF AfterError
  <2>4. QED
    BY <2>2, <2>3
<1>4. QED
  BY <1>1, <1>2, <1>3

LEMMA DrainIs ==
  ASSUME NEW s \in ChanStates
  PROVE  DrainReports(Acked(s)) \in ChanStates /\ Alike(DrainReports(Acked(s)), s) /\ DrainReports(Acked(s)).reports = 0
  BY DEF DrainReports, Acked, Alike, ChanStates

LEMMA HardwareKeeps ==
  ASSUME AdmacAssumption, AdmacInv, NEW c \in AdmacChannels, HwPlays(c) \/ \E ring \in BOOLEAN : HwFails(c, ring)
  PROVE  AdmacInv'
<1>1. PICK o \in ChanStates : o = chan[c]
  BY AdmacTypes DEF AdmacInv
<1>2. Plays(o) /\ Counted(o, taker[c].n + Claimed(c)) /\ taker[c].n \in Nat /\ Claimed(c) \in Nat
  BY <1>1, AdmacTypes DEF AdmacInv, ChannelOK
<1>3. UNCHANGED <<irq, taker>>
  BY DEF HwPlays, HwFails
<1>4. CASE HwPlays(c)
  <2>1. PICK s : s = [o EXCEPT !.descs = @ - 1, !.reports = @ + 1, !.status = @ \cup {"done"}]
    OBVIOUS
  <2>2. Step(c, s) /\ o.descs > 0
    BY <1>1, <1>4, <2>1 DEF HwPlays
  <2>3. o.descs - 1 \in Nat /\ o.reports + 1 \in Nat /\ o.descs \in Nat /\ o.inFlight \in Nat /\ o.reports \in Nat /\ o.completed \in Nat
    BY <2>2 DEF ChanStates
  <2>4. /\ s \in ChanStates /\ s.block = o.block /\ s.on = o.on /\ s.transfer = o.transfer /\ s.leaving = o.leaving /\ s.torn = o.torn
        /\ s.descs = o.descs - 1 /\ s.inFlight = o.inFlight /\ s.reports = o.reports + 1 /\ s.completed = o.completed
    BY <2>1, <2>3 DEF ChanStates
  <2>5. Plays(s)
    BY <1>2, <2>4 DEF Plays
  <2>6. Counted(s, taker[c].n + Claimed(c))
    BY <1>2, <2>3, <2>4 DEF Counted
  <2>7. QED
    BY <1>1, <1>3, <2>2, <2>4, <2>5, <2>6, ChannelMovesAlone
<1>5. ASSUME NEW ring \in BOOLEAN, HwFails(c, ring) PROVE AdmacInv'
  <2>1. PICK s : s = [o EXCEPT !.status = @ \cup {"err"}, !.ringErr = ring]
    OBVIOUS
  <2>2. Step(c, s)
    BY <1>1, <1>5, <2>1 DEF HwFails
  <2>3. /\ s \in ChanStates /\ s.block = o.block /\ s.on = o.on /\ s.transfer = o.transfer /\ s.leaving = o.leaving /\ s.torn = o.torn
        /\ s.descs = o.descs /\ s.inFlight = o.inFlight /\ s.reports = o.reports /\ s.completed = o.completed
    BY <2>1 DEF ChanStates
  <2>4. Plays(s) /\ Counted(s, taker[c].n + Claimed(c))
    BY <1>2, <2>3 DEF Plays, Counted
  <2>5. QED
    BY <1>1, <1>3, <2>2, <2>3, <2>4, ChannelMovesAlone
<1>6. QED
  BY <1>4, <1>5

LEMMA IrqClaimsKeeps ==
  ASSUME AdmacAssumption, AdmacInv, NEW c \in AdmacChannels, IrqClaims(c)
  PROVE  AdmacInv'
<1>1. PICK o \in ChanStates : o = chan[c]
  BY AdmacTypes DEF AdmacInv
<1>2. Plays(o) /\ Counted(o, taker[c].n + Claimed(c)) /\ taker[c].n \in Nat /\ Claimed(c) \in Nat /\ irq.at = "idle" /\ Claimed(c) = 0
  BY <1>1, AdmacTypes DEF AdmacInv, ChannelOK, IrqClaims, Claimed
<1>3. PICK e \in ChanStates : e = AfterError(o) /\ Alike(e, o) /\ e.reports = o.reports
  BY ErrorIs
<1>4. PICK f \in ChanStates : f = DrainReports(Acked(e)) /\ Alike(f, o) /\ f.reports = 0
  BY <1>3, DrainIs DEF Alike
<1>5. /\ Step(c, IF "done" \in e.status THEN f ELSE e) /\ UNCHANGED taker
      /\ irq' = IF "done" \in e.status /\ e.reports > 0 THEN [at |-> "count", c |-> c, n |-> e.reports] ELSE irq
  BY <1>1, <1>3, <1>4 DEF IrqClaims
<1>6. o.reports \in Nat /\ e.reports \in Nat
  BY <1>3 DEF ChanStates
<1>7. CASE "done" \in e.status /\ e.reports > 0
  <2>1. irq' = [at |-> "count", c |-> c, n |-> o.reports] /\ Step(c, f)
    BY <1>3, <1>5, <1>7
  <2>2. Claimed(c)' = o.reports /\ \A d \in AdmacChannels : d # c => Claimed(d)' = Claimed(d)
    BY <1>2, <2>1 DEF Claimed
  <2>3. AdmacTypeOK'
    <3>1. chan' \in [AdmacChannels -> ChanStates]
      BY <2>1 DEF Step, AdmacInv, AdmacTypeOK
    <3>2. irq' \in [at : {"idle", "count"}, c : AdmacChannels, n : Nat]
      BY <1>6, <2>1
    <3>3. QED
      BY <1>5, <3>1, <3>2 DEF AdmacTypeOK, AdmacInv
  <2>4. Plays(f)
    BY <1>2, <1>4 DEF Plays, Alike
  <2>5. Counted(f, taker[c].n + o.reports)
    <3>1. o.descs \in Nat /\ o.completed \in Nat
      BY DEF ChanStates
    <3>2. QED
      BY <1>2, <1>4, <1>6, <3>1 DEF Counted, Alike
  <2>6. f.block = chan[c].block
    BY <1>1, <1>4 DEF Alike
  <2>7. taker' = taker /\ (taker[c].at = "idle" => taker[c].n = 0)
    BY <1>5 DEF AdmacInv, ChannelOK
  <2>8. QED
    BY <2>1, <2>2, <2>3, <2>4, <2>5, <2>6, <2>7, ChannelMoves
<1>8. CASE ~("done" \in e.status /\ e.reports > 0)
  <2>1. PICK s \in ChanStates : Step(c, s) /\ Alike(s, o) /\ s.reports = o.reports
    <3>1. CASE "done" \in e.status
      <4>1. f.reports = o.reports
        BY <1>3, <1>4, <1>6, <1>8, <3>1
      <4>2. QED
        BY <1>4, <1>5, <3>1, <4>1
    <3>2. CASE "done" \notin e.status
      BY <1>3, <1>5, <3>2
    <3>3. QED
      BY <3>1, <3>2
  <2>2. Plays(s) /\ Counted(s, taker[c].n + Claimed(c)) /\ s.block = chan[c].block
    BY <1>1, <1>2, <2>1 DEF Plays, Counted, Alike
  <2>3. UNCHANGED <<irq, taker>>
    BY <1>5, <1>8
  <2>4. QED
    BY <2>1, <2>2, <2>3, ChannelMovesAlone
<1>9. QED
  BY <1>7, <1>8

LEMMA IrqCountsKeeps ==
  ASSUME AdmacAssumption, AdmacInv, IrqCounts
  PROVE  AdmacInv'
<1>1. PICK c \in AdmacChannels : c = irq.c
  BY DEF AdmacInv, AdmacTypeOK
<1>2. PICK o \in ChanStates : o = chan[c]
  BY AdmacTypes DEF AdmacInv
<1>3. /\ Plays(o) /\ Counted(o, taker[c].n + Claimed(c)) /\ taker[c].n \in Nat /\ irq.at = "count" /\ Claimed(c) = irq.n
      /\ irq.n \in Nat
  BY <1>1, <1>2, AdmacTypes DEF AdmacInv, ChannelOK, IrqCounts, Claimed
<1>4. PICK s : s = [o EXCEPT !.completed = @ + irq.n]
  OBVIOUS
<1>5. Step(c, s) /\ irq' = [irq EXCEPT !.at = "idle", !.n = 0] /\ UNCHANGED taker
  BY <1>1, <1>2, <1>4 DEF IrqCounts
<1>6. o.descs \in Nat /\ o.reports \in Nat /\ o.completed \in Nat /\ o.completed + irq.n \in Nat
  BY <1>3 DEF ChanStates
<1>7. s \in ChanStates /\ s.block = o.block /\ s.on = o.on /\ s.transfer = o.transfer /\ s.leaving = o.leaving /\ s.torn = o.torn
      /\ s.descs = o.descs /\ s.inFlight = o.inFlight /\ s.reports = o.reports /\ s.completed = o.completed + irq.n
  BY <1>4, <1>6 DEF ChanStates
<1>8. irq' \in [at : {"idle", "count"}, c : AdmacChannels, n : Nat] /\ irq'.at = "idle"
  BY <1>5 DEF AdmacInv, AdmacTypeOK
<1>9. \A d \in AdmacChannels : Claimed(d)' = 0 /\ (d # c => Claimed(d) = 0)
  BY <1>1, <1>8 DEF Claimed
<1>10. AdmacTypeOK'
  <2>1. chan' \in [AdmacChannels -> ChanStates]
    BY <1>5, <1>7 DEF Step, AdmacInv, AdmacTypeOK
  <2>2. QED
    BY <1>5, <1>8, <2>1 DEF AdmacTypeOK, AdmacInv
<1>11. Plays(s)
  BY <1>3, <1>7 DEF Plays
<1>12. Counted(s, taker[c].n + 0)
  BY <1>3, <1>6, <1>7 DEF Counted
<1>13. taker' = taker /\ (taker[c].at = "idle" => taker[c].n = 0) /\ s.block = chan[c].block
  BY <1>2, <1>5, <1>7 DEF AdmacInv, ChannelOK
<1>14. QED
  BY <1>5, <1>7, <1>9, <1>10, <1>11, <1>12, <1>13, ChannelMoves

LEMMA TakerKeeps ==
  ASSUME AdmacAssumption, AdmacInv, NEW c \in AdmacChannels, TakeSwaps(c) \/ TakePolls(c)
  PROVE  AdmacInv'
<1>1. PICK o \in ChanStates : o = chan[c]
  BY AdmacTypes DEF AdmacInv
<1>2. PICK t \in Nat, m \in Nat : t = taker[c].n /\ m = Claimed(c)
  BY AdmacTypes DEF AdmacInv
<1>3. Plays(o) /\ Counted(o, t + m)
  BY <1>1, <1>2 DEF AdmacInv, ChannelOK
<1>4. o.descs \in Nat /\ o.inFlight \in Nat /\ o.reports \in Nat /\ o.completed \in Nat
  BY DEF ChanStates
<1>5. irq' = irq /\ \A d \in AdmacChannels : Claimed(d)' = Claimed(d)
  BY DEF TakeSwaps, TakePolls, Claimed
<1>6. taker \in [AdmacChannels -> [at : {"idle", "poll"}, n : Nat]]
  BY DEF AdmacInv, AdmacTypeOK
<1>7. CASE TakeSwaps(c)
  <2>1. PICK s : s = [o EXCEPT !.completed = 0]
    OBVIOUS
  <2>2. PICK p : p = [at |-> "poll", n |-> o.completed]
    OBVIOUS
  <2>3. Step(c, s) /\ taker' = [taker EXCEPT ![c] = p] /\ Free(c)
    BY <1>1, <1>7, <2>1, <2>2 DEF TakeSwaps
  <2>4. s \in ChanStates /\ s.block = o.block /\ s.on = o.on /\ s.transfer = o.transfer /\ s.leaving = o.leaving /\ s.torn = o.torn
        /\ s.descs = o.descs /\ s.inFlight = o.inFlight /\ s.reports = o.reports /\ s.completed = 0
    BY <2>1 DEF ChanStates
  <2>5. p \in [at : {"idle", "poll"}, n : Nat] /\ p.at = "poll" /\ p.n = o.completed
    BY <1>4, <2>2
  <2>6. taker'[c] = p /\ taker' \in [AdmacChannels -> [at : {"idle", "poll"}, n : Nat]] /\ \A d \in AdmacChannels : d # c => taker'[d] = taker[d]
    BY <1>6, <2>3, <2>5
  <2>7. AdmacTypeOK'
    <3>1. chan' \in [AdmacChannels -> ChanStates]
      BY <2>3, <2>4 DEF Step, AdmacInv, AdmacTypeOK
    <3>2. QED
      BY <1>5, <2>6, <3>1 DEF AdmacTypeOK, AdmacInv
  <2>8. t = 0
    BY <1>2, <2>3, FreeIs
  <2>9. Plays(s) /\ Counted(s, o.completed + m)
    BY <1>3, <1>4, <2>4, <2>8 DEF Plays, Counted
  <2>10. QED
    BY <1>1, <1>2, <1>5, <2>3, <2>4, <2>5, <2>6, <2>7, <2>9, ChannelMoves
<1>8. CASE TakePolls(c)
  <2>1. PICK e \in ChanStates : e = AfterError(o) /\ Alike(e, o) /\ e.reports = o.reports
    BY ErrorIs
  <2>2. PICK f \in ChanStates : f = DrainReports(Acked(e)) /\ Alike(f, o) /\ f.reports = 0
    BY <2>1, DrainIs DEF Alike
  <2>3. PICK k \in Nat : k = Min({t + o.reports, o.inFlight}) /\ k <= o.inFlight /\ (t + o.reports <= o.inFlight => k = t + o.reports)
    <3>1. t + o.reports \in Nat
      BY <1>4
    <3>2. Min({t + o.reports, o.inFlight}) = IF t + o.reports =< o.inFlight THEN t + o.reports ELSE o.inFlight
      BY <1>4, <3>1, LessOfTwo
    <3>3. QED
      BY <1>4, <3>1, <3>2
  <2>4. PICK s : s = [f EXCEPT !.inFlight = @ - k]
    OBVIOUS
  <2>5. Step(c, s) /\ taker' = [taker EXCEPT ![c] = Idle]
    <3>1. e.inFlight = o.inFlight
      BY <2>1 DEF Alike
    <3>2. QED
      BY <1>1, <1>2, <1>8, <2>1, <2>2, <2>3, <2>4, <3>1 DEF TakePolls
  <2>6. f.inFlight = o.inFlight /\ f.inFlight - k \in Nat
    BY <1>4, <2>2, <2>3 DEF Alike
  <2>7. s \in ChanStates /\ s.block = o.block /\ s.on = o.on /\ s.transfer = o.transfer /\ s.leaving = o.leaving /\ s.torn = o.torn
        /\ s.descs = o.descs /\ s.inFlight = o.inFlight - k /\ s.reports = 0 /\ s.completed = o.completed
    <3>1. /\ s \in ChanStates /\ s.block = f.block /\ s.on = f.on /\ s.transfer = f.transfer /\ s.leaving = f.leaving /\ s.torn = f.torn
          /\ s.descs = f.descs /\ s.inFlight = f.inFlight - k /\ s.reports = f.reports /\ s.completed = f.completed
      BY <2>4, <2>6 DEF ChanStates
    <3>2. QED
      BY <2>2, <3>1 DEF Alike
  <2>8. Idle \in [at : {"idle", "poll"}, n : Nat] /\ Idle.at = "idle" /\ Idle.n = 0
    BY DEF Idle
  <2>9. taker'[c] = Idle /\ taker' \in [AdmacChannels -> [at : {"idle", "poll"}, n : Nat]] /\ \A d \in AdmacChannels : d # c => taker'[d] = taker[d]
    BY <1>6, <2>5, <2>8
  <2>10. AdmacTypeOK'
    <3>1. chan' \in [AdmacChannels -> ChanStates]
      BY <2>5, <2>7 DEF Step, AdmacInv, AdmacTypeOK
    <3>2. QED
      BY <1>5, <2>9, <3>1 DEF AdmacTypeOK, AdmacInv
  <2>11. Plays(s)
    BY <1>3, <2>7 DEF Plays
  <2>12. Counted(s, 0 + m)
    BY <1>3, <1>4, <2>3, <2>7 DEF Counted
  <2>13. QED
    BY <1>1, <1>2, <1>5, <2>5, <2>7, <2>8, <2>9, <2>10, <2>11, <2>12, ChannelMoves
<1>9. QED
  BY <1>7, <1>8

(* The position: the readings of one call were made at four places of the       *)
(* hardware, in order and within one period.                                    *)
Positions ==
  [at : {"none", "ring1", "res1", "ring2", "res2", "found"}, hw : Nat, reclaimed : Nat, moved : Nat,
   ring1 : Int, res1 : Int, ring2 : Int, found : Int]
WholePeriods(h) == h \div PeriodLen

(* h0 is where the hardware was when the call began, h1 to h3 where it was at  *)
(* the readings that were made.                                                *)
PosSeen(h0, h1, h2, h3) ==
  /\ pos.hw = h0 + pos.moved /\ pos.moved < PeriodLen
  /\ h0 <= h1 /\ h1 <= h2 /\ h2 <= h3 /\ h3 <= pos.hw
  /\ pos.reclaimed <= WholePeriods(h0) /\ WholePeriods(h0) - pos.reclaimed < 4
  /\ pos.at \in {"res1", "ring2", "res2"} => pos.ring1 = WholePeriods(h1) - pos.reclaimed
  /\ pos.at \in {"ring2", "res2"} => pos.res1 = PeriodLen - (h2 % PeriodLen)
  /\ pos.at = "res2" => pos.ring2 = WholePeriods(h3) - pos.reclaimed
PosInv ==
  /\ pos \in Positions /\ ResidueIsCurrent
  /\ pos.at \notin {"none", "found"} => \E h0, h1, h2, h3 \in Nat : PosSeen(h0, h1, h2, h3)

LEMMA Division ==
  ASSUME NEW m \in Nat \ {0}, NEW h \in Nat
  PROVE  h \div m \in Nat /\ h % m \in 0 .. m - 1 /\ m * (h \div m) \in Nat /\ h = m * (h \div m) + (h % m)
<1> DEFINE q == h \div m
           r == h % m
<1>1. q \in Int /\ r \in Int /\ h = m * q + r /\ 0 <= r /\ r < m /\ q \in Nat
  OBVIOUS
<1> HIDE DEF q, r
<1>2. m * q \in Int
  BY <1>1
<1>3. q \in Nat /\ r \in 0 .. m - 1 /\ m * q \in Nat /\ h = m * q + r
  <2>1. m * q >= 0
    BY <1>1
  <2>2. QED
    BY <1>1, <1>2, <2>1
<1>4. QED
  BY <1>3 DEF q, r

LEMMA DivisionIs ==
  ASSUME NEW m \in Nat \ {0}, NEW q \in Nat, NEW r \in 0 .. m - 1
  PROVE  m * q + r \in Nat /\ (m * q + r) \div m = q /\ (m * q + r) % m = r
<1> DEFINE h == m * q + r
           p == h \div m
           s == h % m
<1>1. h \in Nat /\ m * q \in Nat
  <2>1. m * q \in Nat
    OBVIOUS
  <2>2. QED
    BY <2>1
<1>2. p \in Nat /\ s \in 0 .. m - 1 /\ m * p \in Nat /\ h = m * p + s
  <2> HIDE DEF h
  <2>1. QED
    BY <1>1, Division
<1> HIDE DEF p, s
<1>3. m * q + r = m * p + s
  BY <1>2
<1>4. m * (q - p) = s - r
  <2>1. m * (q - p) = m * q - m * p
    BY <1>2
  <2>2. QED
    BY <1>1, <1>2, <1>3, <2>1
<1>5. \A k \in Int : (k >= 1 => m * k >= m) /\ (k <= -1 => m * k <= -m)
  OBVIOUS
<1>6. q - p = 0
  BY <1>2, <1>4, <1>5
<1>7. p = q /\ s = r
  BY <1>2, <1>4, <1>6
<1>8. QED
  BY <1>1, <1>7 DEF p, s

LEMMA RoundsDrop ==
  ASSUME NEW m \in Nat \ {0}, NEW x \in Nat, NEW k \in Nat
  PROVE  (m * k + x) % m = x % m
<1> DEFINE q == x \div m
           r == x % m
<1>1. q \in Nat /\ r \in 0 .. m - 1 /\ m * q \in Nat /\ x = m * q + r
  BY Division
<1> HIDE DEF q, r
<1>2. k + q \in Nat /\ m * (k + q) = m * k + m * q /\ m * k \in Int
  BY <1>1
<1>3. m * k + x = m * (k + q) + r
  BY ONLY <1>1, <1>2
<1>4. (m * (k + q) + r) % m = r
  BY <1>1, <1>2, DivisionIs
<1>5. QED
  BY <1>3, <1>4 DEF r

(* Less than a period further on, at most one more period is whole, and then   *)
(* the place within the period has gone back.                                  *)
LEMMA WholeMoves ==
  ASSUME AdmacAssumption, NEW a \in Nat, NEW b \in Nat, a <= b, b - a < PeriodLen
  PROVE  /\ WholePeriods(a) \in Nat /\ WholePeriods(b) \in Nat /\ a % PeriodLen \in 0 .. PeriodLen - 1 /\ b % PeriodLen \in 0 .. PeriodLen - 1
         /\ WholePeriods(b) = IF b % PeriodLen < a % PeriodLen THEN WholePeriods(a) + 1 ELSE WholePeriods(a)
<1> DEFINE qa == a \div PeriodLen
           ra == a % PeriodLen
           qb == b \div PeriodLen
           rb == b % PeriodLen
<1>1. PICK p \in Nat \ {0} : p = PeriodLen
  BY DEF AdmacAssumption
<1>2. qa \in Nat /\ ra \in 0 .. p - 1 /\ p * qa \in Nat /\ a = p * qa + ra
  BY <1>1, Division
<1>3. qb \in Nat /\ rb \in 0 .. p - 1 /\ p * qb \in Nat /\ b = p * qb + rb
  BY <1>1, Division
<1> HIDE DEF qa, qb, ra, rb
<1>4. PICK k \in Int : k = qb - qa
  BY <1>2, <1>3
<1>5. p * k = (b - a) - (rb - ra)
  <2>1. p * k = p * qb - p * qa
    BY <1>2, <1>3, <1>4
  <2>2. QED
    BY ONLY <1>2, <1>3, <2>1, a \in Nat, b \in Nat
<1>6. \A j \in Int : (j >= 2 => p * j >= p + p) /\ (j <= -1 => p * j <= -p)
  OBVIOUS
<1>7. b - a \in 0 .. p - 1 /\ ra \in 0 .. p - 1 /\ rb \in 0 .. p - 1
  BY <1>1, <1>2, <1>3
<1>8. k \in {0, 1}
  BY ONLY <1>5, <1>6, <1>7, p \in Nat, k \in Int
<1>9. p * 0 = 0 /\ p * 1 = p
  OBVIOUS
<1>10. k = IF rb < ra THEN 1 ELSE 0
  BY ONLY <1>5, <1>7, <1>8, <1>9, p \in Nat
<1>11. qb = IF rb < ra THEN qa + 1 ELSE qa
  BY <1>2, <1>3, <1>4, <1>10
<1>12. QED
  BY <1>1, <1>2, <1>3, <1>11 DEF WholePeriods, qa, qb, ra, rb

(* Up to four reports the ring tells how many are in it. *)
LEMMA RingTells ==
  ASSUME pos \in Positions, AdmacAssumption, pos.reclaimed <= WholePeriods(pos.hw), WholePeriods(pos.hw) - pos.reclaimed <= 4
  PROVE  Occupied(Slots) = WholePeriods(pos.hw) - pos.reclaimed
<1> DEFINE d == WholePeriods(pos.hw)
           r == pos.reclaimed
<1>1. d \in Nat /\ r \in Nat /\ r <= d /\ d - r <= 4
  <2>1. pos.hw \in Nat /\ r \in Nat
    BY DEF Positions
  <2>2. d \in Nat
    BY <2>1, Division DEF AdmacAssumption, WholePeriods
  <2>3. QED
    BY <2>1, <2>2
<1>2. Done = d
  BY DEF Done, WholePeriods
<1>3. Slots.write = d % 4 /\ Slots.read = r % 4 /\ (Slots.full <=> d - r = 4)
  BY <1>2 DEF Slots
<1> HIDE DEF d, r
<1>4. (IF d % 4 # r % 4 THEN ((d % 4) + 4 - (r % 4)) % 4 ELSE IF d - r = 4 THEN 4 ELSE 0) = d - r
  BY ONLY <1>1
<1>5. Occupied(Slots) = d - r
  BY <1>3, <1>4 DEF Occupied
<1>6. QED
  BY <1>5 DEF d, r

(* The residue found from the whole periods since those reclaimed. *)
LEMMA FoundIs ==
  ASSUME AdmacAssumption, pos \in Positions, pos.reclaimed <= WholePeriods(pos.hw), NEW res, res = HwResidue,
         Reports(res) = WholePeriods(pos.hw) - pos.reclaimed
  PROVE  Found(res) \in Int /\ (Periods * PeriodLen - Found(res)) % (Periods * PeriodLen) = pos.hw % (Periods * PeriodLen)
<1>1. PICK p \in Nat \ {0}, n \in Nat \ {0} : p = PeriodLen /\ n = Periods
  BY DEF AdmacAssumption
<1>2. PICK h \in Nat, r \in Nat : h = pos.hw /\ r = pos.reclaimed
  BY DEF Positions
<1>3. PICK d \in Nat, e \in 0 .. p - 1 : d = h \div p /\ e = h % p /\ h = p * d + e /\ p * d \in Nat
  BY Division
<1>4. PICK m \in Nat \ {0} : m = n * p
  <2>1. n * p \in Nat \ {0}
    BY <1>1
  <2>2. QED
    BY <2>1
<1>5. PICK mm \in Nat \ {0} : mm = 2 * n * p /\ \A x \in Nat : mm * x = m * (2 * x)
  <2>1. 2 * n * p \in Nat \ {0}
    BY <1>1
  <2>2. \A x \in Nat : (2 * n * p) * x = (n * p) * (2 * x)
    BY <1>1
  <2>3. QED
    BY <1>4, <2>1, <2>2
<1>6. r * p \in Nat /\ r <= d
  <2>1. r <= d
    BY <1>1, <1>2, <1>3 DEF WholePeriods
  <2>2. QED
    BY <1>1, <1>2, <2>1
<1>7. PICK k \in Nat, f \in Nat : f = (r * p) % mm /\ r * p = mm * k + f /\ mm * k \in Nat
  <2>1. PICK y \in Nat : y = r * p
    BY <1>6
  <2>2. y \div mm \in Nat /\ y % mm \in 0 .. mm - 1 /\ mm * (y \div mm) \in Nat /\ y = mm * (y \div mm) + (y % mm)
    BY Division
  <2>3. y % mm \in Nat
    BY <2>2
  <2>4. QED
    BY ONLY <2>1, <2>2, <2>3
<1>8. res = p - e /\ Reports(res) = d - r
  BY <1>1, <1>2, <1>3 DEF HwResidue, WholePeriods
<1>9. PICK at \in Int : at = (f + p * (d - r + 1)) - (p - e)
  <2>1. d - r + 1 \in Int
    OBVIOUS
  <2>2. p * (d - r + 1) \in Int
    BY <2>1
  <2>3. QED
    BY <2>2
<1>10. Found(res) = m - (at % m)
  BY <1>1, <1>2, <1>4, <1>5, <1>7, <1>8, <1>9 DEF Found
<1>11. at \in Nat /\ h = m * (2 * k) + at
  <2>1. p * (d - r + 1) = p * d - r * p + p
    <3>1. PICK u \in Nat : u = d - r
      BY <1>6
    <3>2. d = r + u /\ p * (u + 1) = p * u + p /\ p * (r + u) = r * p + p * u /\ p * u \in Int
      BY <3>1
    <3>3. QED
      BY ONLY <1>6, <3>1, <3>2, p \in Nat, d \in Nat, r \in Nat
  <2>2. h = mm * k + at
    BY ONLY <1>3, <1>6, <1>7, <1>9, <2>1, p \in Nat
  <2>3. p * (d - r + 1) >= p
    BY <1>6
  <2>4. at >= 0
    BY ONLY <1>3, <1>7, <1>9, <2>3, <1>6, d \in Nat, r \in Nat, p \in Nat, p * (d - r + 1) \in Int
  <2>5. mm * k = m * (2 * k)
    BY <1>5
  <2>6. QED
    BY <2>2, <2>4, <2>5
<1>12. 2 * k \in Nat
  OBVIOUS
<1>13. h % m = at % m /\ at % m \in 0 .. m - 1
  BY <1>11, <1>12, RoundsDrop, Division
<1>14. PICK g \in 0 .. m - 1 : g = at % m
  BY <1>13
<1>15. g % m = g
  <2>1. m * 0 + g = g /\ 0 \in Nat
    OBVIOUS
  <2>2. QED
    BY <2>1, DivisionIs
<1>16. m - (m - g) = g /\ m - g \in Int
  OBVIOUS
<1>17. QED
  BY <1>1, <1>2, <1>4, <1>10, <1>13, <1>14, <1>15, <1>16

LEMMA SampleKeeps ==
  ASSUME AdmacAssumption, PosInv,
         \/ \E hw \in 0..(5 * PeriodLen), n \in 0..5 : SampleBegins(hw, n)
         \/ SampleAdvances \/ ReadRing1 \/ ReadResidue1 \/ ReadRing2 \/ ReadResidue2
  PROVE  PosInv'
<1>1. ASSUME NEW hw \in 0..(5 * PeriodLen), NEW n \in 0..5, SampleBegins(hw, n) PROVE PosInv'
  <2>1. pos' = [Sample0 EXCEPT !.at = "ring1", !.hw = hw, !.reclaimed = n] /\ n <= WholePeriods(hw) /\ WholePeriods(hw) - n < 4
    BY <1>1 DEF SampleBegins, Sample, WholePeriods
  <2>2. pos' = [at |-> "ring1", hw |-> hw, reclaimed |-> n, moved |-> 0, ring1 |-> 0, res1 |-> 0, ring2 |-> 0, found |-> 0]
    BY <2>1 DEF Sample0
  <2>3. hw \in Nat /\ n \in Nat /\ PeriodLen \in Nat /\ 0 < PeriodLen
    BY DEF AdmacAssumption
  <2>4. pos' \in Positions
    BY <2>2, <2>3 DEF Positions
  <2>5. PosSeen(hw, hw, hw, hw)'
    <3>1. WholePeriods(hw)' = WholePeriods(hw)
      BY DEF WholePeriods
    <3>2. pos'.hw = hw /\ pos'.moved = 0 /\ pos'.reclaimed = n /\ pos'.at = "ring1"
      BY <2>2
    <3>3. hw = hw + 0
      BY <2>3
    <3>4. QED
      BY <2>1, <2>3, <3>1, <3>2, <3>3 DEF PosSeen
  <2>6. QED
    BY <2>2, <2>3, <2>4, <2>5, SMTT(20) DEF PosInv, ResidueIsCurrent
<1>2. CASE SampleAdvances
  <2>1. pos.at \notin {"none", "found"} /\ pos.moved < PeriodLen - 1 /\ pos' = [pos EXCEPT !.hw = @ + 1, !.moved = @ + 1]
    BY <1>2 DEF SampleAdvances, Sample
  <2>2. PICK h0, h1, h2, h3 \in Nat : PosSeen(h0, h1, h2, h3)
    BY <2>1 DEF PosInv
  <2>3. pos.hw \in Nat /\ pos.moved \in Nat /\ PeriodLen \in Nat /\ pos \in Positions
    BY DEF PosInv, Positions, AdmacAssumption
  <2>4. /\ pos'.hw = pos.hw + 1 /\ pos'.moved = pos.moved + 1 /\ pos'.at = pos.at /\ pos'.reclaimed = pos.reclaimed
        /\ pos'.ring1 = pos.ring1 /\ pos'.res1 = pos.res1 /\ pos'.ring2 = pos.ring2
    BY <2>1, <2>3 DEF Positions
  <2>5. pos' \in Positions
    <3>1. pos.hw + 1 \in Nat /\ pos.moved + 1 \in Nat
      BY <2>3
    <3>2. QED
      BY <2>1, <2>3, <3>1 DEF Positions
  <2>6. PosSeen(h0, h1, h2, h3)'
    BY <2>1, <2>2, <2>3, <2>4 DEF PosSeen, WholePeriods
  <2>7. QED
    BY <2>1, <2>4, <2>5, <2>6 DEF PosInv, ResidueIsCurrent
<1>3. CASE ReadRing1
  <2>1. pos.at = "ring1" /\ pos' = [pos EXCEPT !.at = "res1", !.ring1 = Occupied(Slots)]
    BY <1>3 DEF ReadRing1, Sample
  <2>2. PICK h0, h1, h2, h3 \in Nat : PosSeen(h0, h1, h2, h3)
    BY <2>1 DEF PosInv
  <2>3. h0 <= pos.hw /\ pos.hw - h0 < PeriodLen /\ pos.hw \in Nat /\ PeriodLen \in Nat
    BY <2>2 DEF PosInv, Positions, AdmacAssumption, PosSeen
  <2>4. WholePeriods(pos.hw) \in Nat /\ WholePeriods(h0) \in Nat /\ WholePeriods(pos.hw) \in {WholePeriods(h0), WholePeriods(h0) + 1}
    BY <2>3, WholeMoves
  <2>5. pos.reclaimed \in Nat /\ pos.reclaimed <= WholePeriods(pos.hw) /\ WholePeriods(pos.hw) - pos.reclaimed <= 4
    BY <2>2, <2>4 DEF PosInv, Positions, PosSeen
  <2>6. Occupied(Slots) = WholePeriods(pos.hw) - pos.reclaimed /\ WholePeriods(pos.hw) - pos.reclaimed \in Int
    BY <2>4, <2>5, RingTells DEF PosInv
  <2>7. pos' \in Positions /\ pos'.hw = pos.hw /\ pos'.moved = pos.moved /\ pos'.reclaimed = pos.reclaimed
        /\ pos'.at = "res1" /\ pos'.ring1 = WholePeriods(pos.hw) - pos.reclaimed
    BY <2>1, <2>6 DEF PosInv, Positions
  <2>8. PosSeen(h0, pos.hw, pos.hw, pos.hw)'
    BY <2>2, <2>3, <2>7 DEF PosSeen, WholePeriods
  <2>9. QED
    BY <2>3, <2>7, <2>8 DEF PosInv, ResidueIsCurrent
<1>4. CASE ReadResidue1
  <2>1. pos.at = "res1" /\ pos' = [pos EXCEPT !.at = "ring2", !.res1 = HwResidue]
    BY <1>4 DEF ReadResidue1, Sample
  <2>2. PICK h0, h1, h2, h3 \in Nat : PosSeen(h0, h1, h2, h3)
    BY <2>1 DEF PosInv
  <2>3. h0 <= h1 /\ h1 <= pos.hw /\ pos.hw \in Nat /\ PeriodLen \in Nat \ {0}
    BY <2>2 DEF PosInv, Positions, AdmacAssumption, PosSeen
  <2>4. HwResidue = PeriodLen - (pos.hw % PeriodLen) /\ HwResidue \in Int
    BY <2>3, Division DEF HwResidue
  <2>5. pos' \in Positions /\ pos'.hw = pos.hw /\ pos'.moved = pos.moved /\ pos'.reclaimed = pos.reclaimed
        /\ pos'.at = "ring2" /\ pos'.ring1 = pos.ring1 /\ pos'.res1 = HwResidue
    BY <2>1, <2>4 DEF PosInv, Positions
  <2>6. PosSeen(h0, h1, pos.hw, pos.hw)'
    BY <2>1, <2>2, <2>3, <2>4, <2>5 DEF PosSeen, WholePeriods
  <2>7. QED
    BY <2>3, <2>5, <2>6 DEF PosInv, ResidueIsCurrent
<1>5. CASE ReadRing2
  <2>1. pos.at = "ring2" /\ pos' = [pos EXCEPT !.at = "res2", !.ring2 = Occupied(Slots)]
    BY <1>5 DEF ReadRing2, Sample
  <2>2. PICK h0, h1, h2, h3 \in Nat : PosSeen(h0, h1, h2, h3)
    BY <2>1 DEF PosInv
  <2>3. h0 <= h1 /\ h1 <= h2 /\ h2 <= pos.hw /\ pos.hw - h0 < PeriodLen /\ pos.hw \in Nat /\ PeriodLen \in Nat
    BY <2>2 DEF PosInv, Positions, AdmacAssumption, PosSeen
  <2>4. WholePeriods(pos.hw) \in Nat /\ WholePeriods(h0) \in Nat /\ WholePeriods(pos.hw) \in {WholePeriods(h0), WholePeriods(h0) + 1}
    <3>1. h0 <= pos.hw
      BY <2>3
    <3>2. QED
      BY <2>3, <3>1, WholeMoves
  <2>5. pos.reclaimed \in Nat /\ pos.reclaimed <= WholePeriods(pos.hw) /\ WholePeriods(pos.hw) - pos.reclaimed <= 4
    BY <2>2, <2>4 DEF PosInv, Positions, PosSeen
  <2>6. Occupied(Slots) = WholePeriods(pos.hw) - pos.reclaimed /\ WholePeriods(pos.hw) - pos.reclaimed \in Int
    BY <2>4, <2>5, RingTells DEF PosInv
  <2>7. pos' \in Positions /\ pos'.hw = pos.hw /\ pos'.moved = pos.moved /\ pos'.reclaimed = pos.reclaimed
        /\ pos'.at = "res2" /\ pos'.ring1 = pos.ring1 /\ pos'.res1 = pos.res1 /\ pos'.ring2 = WholePeriods(pos.hw) - pos.reclaimed
    BY <2>1, <2>6 DEF PosInv, Positions
  <2>8. PosSeen(h0, h1, h2, pos.hw)'
    BY <2>1, <2>2, <2>3, <2>7 DEF PosSeen, WholePeriods
  <2>9. QED
    BY <2>3, <2>7, <2>8 DEF PosInv, ResidueIsCurrent
<1>6. CASE ReadResidue2
  <2>1. pos.at = "res2" /\ pos' = [pos EXCEPT !.at = "found", !.found = Found(HwResidue)]
    BY <1>6 DEF ReadResidue2, Sample
  <2>2. PICK h0, h1, h2, h3 \in Nat : PosSeen(h0, h1, h2, h3)
    BY <2>1 DEF PosInv
  <2>3. PICK h \in Nat, r \in Nat, p \in Nat \ {0} : h = pos.hw /\ r = pos.reclaimed /\ p = PeriodLen
    BY DEF PosInv, Positions, AdmacAssumption
  <2>4. h0 <= h1 /\ h1 <= h2 /\ h2 <= h3 /\ h3 <= h /\ h - h0 < p /\ r <= WholePeriods(h0)
    BY <2>2, <2>3 DEF PosSeen, PosInv, Positions
  <2>5. /\ WholePeriods(h0) \in Nat /\ WholePeriods(h1) \in Nat /\ WholePeriods(h2) \in Nat /\ WholePeriods(h3) \in Nat /\ WholePeriods(h) \in Nat
        /\ h % p \in 0 .. p - 1 /\ h2 % p \in 0 .. p - 1
    BY <2>3, Division DEF WholePeriods
  <2>6. /\ WholePeriods(h) = IF h % p < h2 % p THEN WholePeriods(h2) + 1 ELSE WholePeriods(h2)
        /\ WholePeriods(h) \in {WholePeriods(h1), WholePeriods(h1) + 1} /\ WholePeriods(h2) \in {WholePeriods(h1), WholePeriods(h1) + 1}
        /\ WholePeriods(h) \in {WholePeriods(h3), WholePeriods(h3) + 1} /\ WholePeriods(h3) \in {WholePeriods(h2), WholePeriods(h2) + 1}
        /\ WholePeriods(h) \in {WholePeriods(h0), WholePeriods(h0) + 1}
    <3>1. h2 <= h /\ h - h2 < p /\ h1 <= h /\ h - h1 < p /\ h2 - h1 < p /\ h - h3 < p /\ h3 - h2 < p /\ h0 <= h
      BY <2>4
    <3>2. WholePeriods(h) = IF h % p < h2 % p THEN WholePeriods(h2) + 1 ELSE WholePeriods(h2)
      BY <2>3, <3>1, WholeMoves
    <3>3. WholePeriods(h) \in {WholePeriods(h1), WholePeriods(h1) + 1} /\ WholePeriods(h2) \in {WholePeriods(h1), WholePeriods(h1) + 1}
      BY <2>3, <2>4, <3>1, WholeMoves
    <3>4. WholePeriods(h) \in {WholePeriods(h3), WholePeriods(h3) + 1} /\ WholePeriods(h3) \in {WholePeriods(h2), WholePeriods(h2) + 1}
      BY <2>3, <2>4, <3>1, WholeMoves
    <3>5. WholePeriods(h) \in {WholePeriods(h0), WholePeriods(h0) + 1}
      BY <2>3, <2>4, <3>1, WholeMoves
    <3>6. QED
      BY <3>2, <3>3, <3>4, <3>5
  <2>7. pos.ring1 = WholePeriods(h1) - r /\ pos.ring2 = WholePeriods(h3) - r /\ pos.res1 = p - (h2 % p)
    BY <2>1, <2>2, <2>3 DEF PosSeen
  <2>8. HwResidue = p - (h % p)
    BY <2>3 DEF HwResidue
  <2>9. Reports(HwResidue) = WholePeriods(h) - r
    <3>1. CASE h % p < h2 % p
      <4>1. HwResidue > pos.res1
        BY <2>5, <2>7, <2>8, <3>1
      <4>2. WholePeriods(h) = WholePeriods(h1) + 1
        BY <2>5, <2>6, <3>1
      <4>3. QED
        BY <2>5, <2>7, <4>1, <4>2 DEF Reports
    <3>2. CASE ~(h % p < h2 % p)
      <4>1. ~(HwResidue > pos.res1)
        BY <2>5, <2>7, <2>8, <3>2
      <4>2. WholePeriods(h) = WholePeriods(h3)
        BY <2>5, <2>6, <3>2
      <4>3. QED
        BY <2>7, <4>1, <4>2 DEF Reports
    <3>3. QED
      BY <3>1, <3>2
  <2>10. r <= WholePeriods(h)
    BY <2>4, <2>5, <2>6
  <2>11. Found(HwResidue) \in Int /\ (Periods * PeriodLen - Found(HwResidue)) % (Periods * PeriodLen) = pos.hw % (Periods * PeriodLen)
    BY <2>3, <2>9, <2>10, FoundIs DEF PosInv
  <2>12. pos' \in Positions /\ pos'.hw = pos.hw /\ pos'.at = "found" /\ pos'.found = Found(HwResidue)
    BY <2>1, <2>11 DEF PosInv, Positions
  <2>13. ResidueIsCurrent'
    BY <2>11, <2>12 DEF ResidueIsCurrent
  <2>14. QED
    BY <2>12, <2>13 DEF PosInv
<1>7. QED
  BY <1>1, <1>2, <1>3, <1>4, <1>5, <1>6

LEMMA AdmacInitHolds ==
  ASSUME AdmacAssumption, AdmacInit
  PROVE  AdmacInv /\ PosInv
<1>1. Fresh \in ChanStates /\ Fresh.block = 0 /\ Plays(Fresh) /\ \A n : Counted(Fresh, n)
  BY DEF Fresh, ChanStates, Plays, Counted
<1>2. Idle \in [at : {"idle", "poll"}, n : Nat] /\ Idle.at = "idle" /\ Idle.n = 0
  BY DEF Idle
<1>3. PICK d \in AdmacChannels : d = CHOOSE c \in AdmacChannels : TRUE
  BY DEF AdmacAssumption
<1>4. irq = [at |-> "idle", c |-> d, n |-> 0]
  BY <1>3 DEF AdmacInit
<1>5. \A c \in AdmacChannels : chan[c] = Fresh /\ taker[c] = Idle
  BY DEF AdmacInit
<1>6. AdmacTypeOK
  BY <1>1, <1>2, <1>4 DEF AdmacInit, AdmacTypeOK
<1>7. BlocksDisjoint /\ \A c \in AdmacChannels : ChannelOK(c)
  BY <1>1, <1>2, <1>5 DEF BlocksDisjoint, ChannelOK
<1>8. PosInv
  BY DEF AdmacInit, Sample0, Positions, PosInv, ResidueIsCurrent
<1>9. QED
  BY <1>6, <1>7, <1>8 DEF AdmacInv

LEMMA AdmacStepHolds ==
  ASSUME AdmacAssumption, AdmacInv, PosInv, [AdmacNext]_admacVars
  PROVE  AdmacInv' /\ PosInv'
<1>1. ASSUME UNCHANGED <<chan, irq, taker>> PROVE AdmacInv'
  <2>1. AdmacTypeOK' /\ BlocksDisjoint'
    BY <1>1 DEF AdmacInv, AdmacTypeOK, BlocksDisjoint
  <2>2. \A c \in AdmacChannels : ChannelOK(c)'
    BY <1>1 DEF AdmacInv, ChannelOK, Claimed
  <2>3. QED
    BY <2>1, <2>2 DEF AdmacInv
<1>2. ASSUME UNCHANGED pos PROVE PosInv'
  BY <1>2 DEF PosInv, PosSeen, ResidueIsCurrent, WholePeriods
<1>3. ASSUME NEW c \in AdmacChannels,
             \/ RequestChannel(c) \/ \E ok \in BOOLEAN : PrepareCyclic(c, ok)
             \/ QueuePeriod(c) \/ StartChannel(c) \/ PauseChannel(c) \/ ResumeChannel(c) \/ StopChannel(c)
             \/ DropBegins(c) \/ DropUnmaps(c) \/ DropReleases(c)
             \/ HwPlays(c) \/ \E ring \in BOOLEAN : HwFails(c, ring)
             \/ IrqClaims(c) \/ TakeSwaps(c) \/ TakePolls(c)
      PROVE  AdmacInv' /\ PosInv'
  <2>1. AdmacInv'
    BY <1>3, RequestKeeps, OwnerKeeps, StopsKeep, HardwareKeeps, IrqClaimsKeeps, TakerKeeps, SMTT(20)
  <2>2. UNCHANGED pos
    BY <1>3 DEF RequestChannel, PrepareCyclic, QueuePeriod, StartChannel, PauseChannel, ResumeChannel, StopChannel,
                DropBegins, DropUnmaps, DropReleases, HwPlays, HwFails, IrqClaims, TakeSwaps, TakePolls, Step
  <2>3. QED
    BY <1>2, <2>1, <2>2
<1>4. CASE IrqCounts
  <2>1. UNCHANGED pos
    BY <1>4 DEF IrqCounts, Step
  <2>2. QED
    BY <1>2, <1>4, <2>1, IrqCountsKeeps
<1>5. ASSUME \/ \E hw \in 0..(5 * PeriodLen), n \in 0..5 : SampleBegins(hw, n)
             \/ SampleAdvances \/ ReadRing1 \/ ReadResidue1 \/ ReadRing2 \/ ReadResidue2
      PROVE  AdmacInv' /\ PosInv'
  <2>1. UNCHANGED <<chan, irq, taker>>
    BY <1>5 DEF SampleBegins, SampleAdvances, ReadRing1, ReadResidue1, ReadRing2, ReadResidue2, Sample
  <2>2. PosInv'
    BY <1>5, SampleKeeps, SMTT(20)
  <2>3. QED
    BY <1>1, <2>1, <2>2
<1>6. CASE UNCHANGED admacVars
  BY <1>1, <1>2, <1>6 DEF admacVars
<1>7. QED
  BY <1>3, <1>4, <1>5, <1>6 DEF AdmacNext

(* AdmacChannel: what the invariant says of a channel is what is checked. *)
LEMMA AdmacInvIsEnough ==
  ASSUME AdmacInv, PosInv
  PROVE  CountedOnce /\ PlaysMappedBuffer /\ BlocksDisjoint /\ ResidueIsCurrent
<1>1. CountedOnce
  <2>1. ASSUME NEW c \in AdmacChannels, chan[c].transfer, chan[c].leaving = "no", ~chan[c].torn
        PROVE  chan[c].inFlight = chan[c].descs + chan[c].reports + chan[c].completed + taker[c].n + Claimed(c)
    <3>1. chan[c].inFlight = chan[c].descs + chan[c].reports + chan[c].completed + (taker[c].n + Claimed(c))
      BY <2>1 DEF AdmacInv, ChannelOK, Counted
    <3>2. /\ chan[c].descs \in Nat /\ chan[c].reports \in Nat /\ chan[c].completed \in Nat
          /\ taker[c].n \in Nat /\ Claimed(c) \in Nat
      BY AdmacTypes DEF AdmacInv, ChanStates
    <3>3. QED
      BY <3>1, <3>2
  <2>2. QED
    BY <2>1 DEF CountedOnce, Claimed
<1>2. PlaysMappedBuffer
  BY DEF AdmacInv, ChannelOK, Plays, PlaysMappedBuffer
<1>3. QED
  BY <1>1, <1>2 DEF AdmacInv, PosInv

(* AdmacChannel: every period is counted once whoever reads its report, a      *)
(* channel with descriptors has its buffer mapped, no block serves two         *)
(* channels and the residue is that of the last reading.                       *)
THEOREM AdmacCountsOnce == AdmacSpec => [](CountedOnce /\ PlaysMappedBuffer /\ BlocksDisjoint /\ ResidueIsCurrent)
<1>1. AdmacInit => AdmacInv /\ PosInv
  BY AdmacInitHolds, AdmacAssumption
<1>2. (AdmacInv /\ PosInv) /\ [AdmacNext]_admacVars => (AdmacInv /\ PosInv)'
  BY AdmacStepHolds, AdmacAssumption
<1>3. AdmacInv /\ PosInv => CountedOnce /\ PlaysMappedBuffer /\ BlocksDisjoint /\ ResidueIsCurrent
  BY AdmacInvIsEnough
<1>4. QED
  BY <1>1, <1>2, <1>3, PTL DEF AdmacSpec

------------------------------------------------------------------------------
(* DpAudio                                                                     *)

(* Where a call is, and what then holds of the channel, the buffer and the     *)
(* link.  The record of the stream is the truth at every step, not only        *)
(* between calls; what a call still has to undo is told by its place.          *)
DpStreams == [have : BOOLEAN, dma : BOOLEAN, link : BOOLEAN, inFlight : Nat]
DpChans == [held : BOOLEAN, prepared : BOOLEAN, running : BOOLEAN, callback : BOOLEAN]
DpFaultCounts == [n : Nat, lost : BOOLEAN]
DpTypeOK ==
  /\ dpStream \in DpStreams
  /\ dpChan \in DpChans
  /\ bounce \in BOOLEAN /\ dpAv \in [prepared : BOOLEAN, started : BOOLEAN]
  /\ dpFaults \in DpFaultCounts

RecordIsTrue ==
  /\ dpStream.dma = dpChan.running /\ dpStream.link = dpAv.started
  /\ dpAv.started => dpAv.prepared
  /\ IF dpStream.have THEN dpChan.held /\ dpChan.prepared /\ bounce ELSE dpStream = NoStream

LinkOf(av) == IF av.started THEN "started" ELSE IF av.prepared THEN "prepared" ELSE "off"
LinkIsBelieved == ~dpFaults.lost => dpLink = LinkOf(dpAv)
Unprepared == dpFaults.n <= 1 /\ ~dpFaults.lost => ~dpAv.prepared
Empty == ~dpStream.have /\ dpChan = NoChan /\ ~bounce /\ Unprepared

DpPlace ==
  \/ dpCall = DpRest /\ (dpStream.have \/ Empty)
  \/ DpAt("configure", "request") /\ Empty
  \/ DpAt("configure", "link") /\ ~dpStream.have /\ dpChan.held /\ bounce /\ Unprepared
  \/ DpAt("configure", "ring") /\ ~dpStream.have /\ dpChan.held /\ bounce
  \/ DpAt("configure", "store") /\ ~dpStream.have /\ dpChan.held /\ dpChan.prepared /\ bounce
  \/ DpAt("configure", "undo") /\ ~dpStream.have /\ dpFaults.n >= 1
  \/ \E at \in {"link", "dma", "unlink"} : DpAt("start", at) /\ dpStream.have
  \/ \E op \in {"configure", "release", "stop"} :
       \/ DpAt(op, "stop") /\ dpStream.have
       \/ DpAt(op, "stopLink") /\ dpStream.have /\ ~dpStream.dma
  \/ \E op \in {"configure", "release"} :
       \/ \E at \in {"silence", "unprepare"} : DpAt(op, at) /\ dpStream.have /\ ~dpStream.dma /\ ~dpStream.link
       \/ DpAt(op, "drop") /\ dpStream.have /\ ~dpStream.dma /\ ~dpStream.link /\ ~dpAv.prepared

DpInv == DpTypeOK /\ RecordIsTrue /\ LinkIsBelieved /\ DpPlace

LEMMA DpConstants ==
  /\ NoStream \in DpStreams /\ [NoStream EXCEPT !.have = TRUE] \in DpStreams
  /\ NoChan \in DpChans /\ [NoChan EXCEPT !.held = TRUE] \in DpChans
  BY DEF NoStream, NoChan, DpStreams, DpChans

LEMMA DpEdits ==
  ASSUME NEW s \in DpStreams, NEW n \in Nat
  PROVE  [s EXCEPT !.inFlight = n] \in DpStreams /\ [s EXCEPT !.dma = FALSE, !.inFlight = 0] \in DpStreams
  BY DEF DpStreams

LEMMA DpFaultsCount ==
  ASSUME DpTypeOK, DpFails \/ DpFailsLate \/ UNCHANGED dpFaults
  PROVE  dpFaults' \in DpFaultCounts
<1>1. dpFaults \in DpFaultCounts /\ dpFaults.n + 1 \in Nat
  BY DEF DpTypeOK, DpFaultCounts
<1>2. CASE DpFails
  BY <1>1, <1>2 DEF DpFails, DpFaultCounts
<1>3. CASE DpFailsLate
  BY <1>1, <1>3 DEF DpFailsLate, DpFaultCounts
<1>4. QED
  BY <1>1, <1>2, <1>3

LEMMA DpInitHolds ==
  ASSUME DpInit
  PROVE  DpInv
  BY DEF DpInit, DpInv, DpTypeOK, DpStreams, DpChans, DpFaultCounts, RecordIsTrue, LinkIsBelieved, LinkOf, DpPlace, Empty, Unprepared, NoStream, NoChan, DpRest

LEMMA DpBeginKeeps ==
  ASSUME DpInv, Configure \/ Release \/ StopStream \/ StartStream \/ SubmitPeriod \/ \E n \in 1 .. DpPeriods + 1 : ProcessCompletions(n)
  PROVE  DpInv'
<1>1. CASE Configure
  BY <1>1 DEF Configure, DpInv, DpTypeOK, DpStreams, DpChans, DpFaultCounts, RecordIsTrue, LinkIsBelieved, DpPlace, Empty, Unprepared, NoStream, NoChan, DpRest, DpAt
<1>2. CASE Release
  BY <1>2 DEF Release, DpInv, DpTypeOK, DpStreams, DpChans, DpFaultCounts, RecordIsTrue, LinkIsBelieved, DpPlace, Empty, Unprepared, NoStream, NoChan, DpRest, DpAt
<1>3. CASE StopStream
  BY <1>3 DEF StopStream, DpInv, DpTypeOK, DpStreams, DpChans, DpFaultCounts, RecordIsTrue, LinkIsBelieved, DpPlace, Empty, Unprepared, NoStream, NoChan, DpRest, DpAt
<1>4. CASE StartStream
  BY <1>4 DEF StartStream, DpInv, DpTypeOK, DpStreams, DpChans, DpFaultCounts, RecordIsTrue, LinkIsBelieved, DpPlace, Empty, Unprepared, NoStream, NoChan, DpRest, DpAt
<1>5. CASE SubmitPeriod
  BY <1>5 DEF SubmitPeriod, DpInv, DpTypeOK, DpStreams, DpChans, DpFaultCounts, RecordIsTrue, LinkIsBelieved, DpPlace, Empty, Unprepared, NoStream, NoChan, DpRest, DpAt
<1>6. ASSUME NEW n \in 1 .. DpPeriods + 1, ProcessCompletions(n) PROVE DpInv'
  <2>1. PICK m \in Nat : dpStream' = [dpStream EXCEPT !.inFlight = m]
    <3>1. n \in Nat /\ dpStream.inFlight \in Nat
      BY DpAssumption DEF DpInv, DpTypeOK, DpStreams
    <3>2. (IF n < dpStream.inFlight THEN dpStream.inFlight - n ELSE 0) \in Nat
      BY <3>1
    <3>3. QED
      BY <1>6, <3>2 DEF ProcessCompletions
  <2>2. UNCHANGED <<dpChan, bounce, dpAv, dpLink, dpCall, dpFaults>>
    BY <1>6 DEF ProcessCompletions
  <2>3. dpStream' \in DpStreams /\ dpStream.have /\ dpStream'.have /\ dpStream'.dma = dpStream.dma /\ dpStream'.link = dpStream.link
    <3>1. dpStream \in DpStreams /\ dpStream.have
      BY <1>6 DEF DpInv, DpTypeOK, ProcessCompletions
    <3>2. dpStream' \in DpStreams
      BY <2>1, <3>1, DpEdits
    <3>3. QED
      BY <2>1, <3>1, <3>2 DEF DpStreams
  <2>4. QED
    BY <2>2, <2>3 DEF DpInv, DpTypeOK, RecordIsTrue, LinkIsBelieved, LinkOf, DpPlace, Empty, Unprepared, DpRest, DpAt
<1>7. QED
  BY <1>1, <1>2, <1>3, <1>4, <1>5, <1>6

LEMMA DpConfigureKeeps ==
  ASSUME DpInv, RequestDma1 \/ PrepareLink \/ PrepareRing \/ StoreStream \/ UndoConfigure
  PROVE  DpInv' /\ (dpChan.running => bounce')
<1>1. CASE RequestDma1
  <2>1. DpTypeOK'
    <3>1. dpStream' \in DpStreams
      BY <1>1 DEF RequestDma1, Abandons, DpGo, DpReturn, DpFails, DpInv, DpTypeOK, DpStreams, DpChans, DpFaultCounts, NoStream, NoChan
    <3>2. dpChan' \in DpChans /\ bounce' \in BOOLEAN
      <4>1. dpChan' \in {dpChan, NoChan, [NoChan EXCEPT !.held = TRUE]} /\ bounce' \in {bounce, TRUE, FALSE}
        BY <1>1 DEF RequestDma1, Abandons
      <4>2. QED
        BY <4>1, DpConstants DEF DpInv, DpTypeOK
    <3>3. dpAv' \in [prepared : BOOLEAN, started : BOOLEAN]
      BY <1>1 DEF RequestDma1, Abandons, DpGo, DpReturn, DpFails, DpInv, DpTypeOK, DpStreams, DpChans, DpFaultCounts, NoStream, NoChan
    <3>4. dpFaults' \in DpFaultCounts
      BY <1>1 DEF RequestDma1, Abandons, DpGo, DpReturn, DpFails, DpInv, DpTypeOK, DpStreams, DpChans, DpFaultCounts, NoStream, NoChan
    <3>5. QED
      BY <3>1, <3>2, <3>3, <3>4 DEF DpTypeOK, DpStreams, DpChans, DpFaultCounts
  <2>2. RecordIsTrue'
    BY <1>1 DEF RequestDma1, Abandons, DpGo, DpReturn, DpFails, DpInv, DpTypeOK, DpStreams, DpChans, DpFaultCounts, RecordIsTrue, DpPlace, Empty, NoStream, NoChan, DpRest, DpAt
  <2>3. LinkIsBelieved'
    BY <1>1 DEF RequestDma1, Abandons, DpGo, DpReturn, DpFails, DpInv, DpTypeOK, DpStreams, DpChans, DpFaultCounts, RecordIsTrue, LinkIsBelieved, LinkOf, DpPlace, Empty, NoStream, NoChan, DpRest, DpAt
  <2>4. DpPlace' /\ (dpChan.running => bounce')
    BY <1>1 DEF RequestDma1, Abandons, DpGo, DpReturn, DpFails, DpInv, DpTypeOK, DpStreams, DpChans, DpFaultCounts, RecordIsTrue, DpPlace, Empty, Unprepared, NoStream, NoChan, DpRest, DpAt
  <2>5. QED
    BY <2>1, <2>2, <2>3, <2>4 DEF DpInv
<1>2. CASE PrepareLink
  <2>1. DpTypeOK'
    <3>1. dpStream' \in DpStreams
      BY <1>2 DEF PrepareLink, AvPrepare, AvCall, Abandons, DpGo, DpReturn, DpFails, DpFailsLate, DpInv, DpTypeOK, DpStreams, DpChans, DpFaultCounts, NoStream, NoChan
    <3>2. dpChan' \in DpChans /\ bounce' \in BOOLEAN
      <4>1. dpChan' \in {dpChan, NoChan, [NoChan EXCEPT !.held = TRUE]} /\ bounce' \in {bounce, TRUE, FALSE}
        BY <1>2 DEF PrepareLink, AvPrepare, AvCall, Abandons
      <4>2. QED
        BY <4>1, DpConstants DEF DpInv, DpTypeOK
    <3>3. dpAv' \in [prepared : BOOLEAN, started : BOOLEAN]
      BY <1>2 DEF PrepareLink, AvPrepare, AvCall, Abandons, DpGo, DpReturn, DpFails, DpFailsLate, DpInv, DpTypeOK, DpStreams, DpChans, DpFaultCounts, NoStream, NoChan
    <3>4. dpFaults' \in DpFaultCounts
      <4>1. DpFails \/ DpFailsLate \/ UNCHANGED dpFaults
        BY <1>2 DEF PrepareLink, AvPrepare, AvCall
      <4>2. QED
        BY <4>1, DpFaultsCount DEF DpInv
    <3>5. QED
      BY <3>1, <3>2, <3>3, <3>4 DEF DpTypeOK, DpStreams, DpChans, DpFaultCounts
  <2>2. RecordIsTrue'
    <3>1. ~dpStream.have /\ dpStream = NoStream /\ UNCHANGED dpStream
      BY <1>2 DEF PrepareLink, DpInv, RecordIsTrue, DpPlace, DpAt, DpRest
    <3>2. ~dpAv.started /\ ~dpChan.running /\ ~NoChan.running /\ ~dpStream'.have
      BY <3>1 DEF DpInv, RecordIsTrue, NoStream, NoChan
    <3>3. dpChan' \in {dpChan, NoChan} /\ dpAv' \in {dpAv, [dpAv EXCEPT !.prepared = TRUE]}
      BY <1>2 DEF PrepareLink, AvPrepare, AvCall, Abandons
    <3>4. dpAv'.started = FALSE /\ dpChan'.running = FALSE
      BY <3>2, <3>3 DEF DpInv, DpTypeOK, DpChans
    <3>5. QED
      BY <3>1, <3>4 DEF RecordIsTrue, NoStream
  <2>3. LinkIsBelieved'
    BY <1>2 DEF PrepareLink, AvPrepare, AvCall, Abandons, DpGo, DpReturn, DpFails, DpFailsLate, DpInv, DpTypeOK, DpStreams, DpChans, DpFaultCounts, RecordIsTrue, LinkIsBelieved, LinkOf, DpPlace, Empty, NoStream, NoChan, DpRest, DpAt
  <2>4. DpPlace' /\ (dpChan.running => bounce')
    BY <1>2 DEF PrepareLink, AvPrepare, AvCall, Abandons, DpGo, DpReturn, DpFails, DpFailsLate, DpInv, DpTypeOK, DpStreams, DpChans, DpFaultCounts, RecordIsTrue, DpPlace, Empty, Unprepared, NoStream, NoChan, DpRest, DpAt
  <2>5. QED
    BY <2>1, <2>2, <2>3, <2>4 DEF DpInv
<1>3. CASE PrepareRing
  <2>1. DpTypeOK'
    <3>1. dpStream' \in DpStreams
      BY <1>3 DEF PrepareRing, Abandons, DpGo, DpReturn, DpFails, DpInv, DpTypeOK, DpStreams, DpChans, DpFaultCounts, NoStream, NoChan
    <3>2. dpChan' \in DpChans /\ bounce' \in BOOLEAN
      BY <1>3 DEF PrepareRing, Abandons, DpGo, DpReturn, DpFails, DpInv, DpTypeOK, DpStreams, DpChans, DpFaultCounts, NoStream, NoChan
    <3>3. dpAv' \in [prepared : BOOLEAN, started : BOOLEAN]
      BY <1>3 DEF PrepareRing, Abandons, DpGo, DpReturn, DpFails, DpInv, DpTypeOK, DpStreams, DpChans, DpFaultCounts, NoStream, NoChan
    <3>4. dpFaults' \in DpFaultCounts
      BY <1>3 DEF PrepareRing, Abandons, DpGo, DpReturn, DpFails, DpInv, DpTypeOK, DpStreams, DpChans, DpFaultCounts, NoStream, NoChan
    <3>5. QED
      BY <3>1, <3>2, <3>3, <3>4 DEF DpTypeOK, DpStreams, DpChans, DpFaultCounts
  <2>2. RecordIsTrue'
    BY <1>3 DEF PrepareRing, Abandons, DpGo, DpReturn, DpFails, DpInv, DpTypeOK, DpStreams, DpChans, DpFaultCounts, RecordIsTrue, DpPlace, Empty, NoStream, NoChan, DpRest, DpAt
  <2>3. LinkIsBelieved'
    BY <1>3 DEF PrepareRing, Abandons, DpGo, DpReturn, DpFails, DpInv, DpTypeOK, DpStreams, DpChans, DpFaultCounts, RecordIsTrue, LinkIsBelieved, LinkOf, DpPlace, Empty, NoStream, NoChan, DpRest, DpAt
  <2>4. DpPlace' /\ (dpChan.running => bounce')
    BY <1>3 DEF PrepareRing, Abandons, DpGo, DpReturn, DpFails, DpInv, DpTypeOK, DpStreams, DpChans, DpFaultCounts, RecordIsTrue, DpPlace, Empty, Unprepared, NoStream, NoChan, DpRest, DpAt
  <2>5. QED
    BY <2>1, <2>2, <2>3, <2>4 DEF DpInv
<1>4. CASE StoreStream
  <2>1. DpTypeOK'
    <3>1. dpStream' \in DpStreams
      <4>1. dpStream' \in {dpStream, [NoStream EXCEPT !.have = TRUE]}
        BY <1>4 DEF StoreStream
      <4>2. QED
        BY <4>1, DpConstants, DpEdits DEF DpInv, DpTypeOK
    <3>2. dpChan' \in DpChans /\ bounce' \in BOOLEAN
      BY <1>4 DEF StoreStream, DpGo, DpReturn, DpFails, DpInv, DpTypeOK, DpStreams, DpChans, DpFaultCounts, NoStream, NoChan
    <3>3. dpAv' \in [prepared : BOOLEAN, started : BOOLEAN]
      BY <1>4 DEF StoreStream, DpGo, DpReturn, DpFails, DpInv, DpTypeOK, DpStreams, DpChans, DpFaultCounts, NoStream, NoChan
    <3>4. dpFaults' \in DpFaultCounts
      BY <1>4 DEF StoreStream, DpGo, DpReturn, DpFails, DpInv, DpTypeOK, DpStreams, DpChans, DpFaultCounts, NoStream, NoChan
    <3>5. QED
      BY <3>1, <3>2, <3>3, <3>4 DEF DpTypeOK, DpStreams, DpChans, DpFaultCounts
  <2>2. RecordIsTrue'
    BY <1>4 DEF StoreStream, DpGo, DpReturn, DpFails, DpInv, DpTypeOK, DpStreams, DpChans, DpFaultCounts, RecordIsTrue, DpPlace, Empty, NoStream, NoChan, DpRest, DpAt
  <2>3. LinkIsBelieved'
    BY <1>4 DEF StoreStream, DpGo, DpReturn, DpFails, DpInv, DpTypeOK, DpStreams, DpChans, DpFaultCounts, RecordIsTrue, LinkIsBelieved, LinkOf, DpPlace, Empty, NoStream, NoChan, DpRest, DpAt
  <2>4. DpPlace' /\ (dpChan.running => bounce')
    BY <1>4 DEF StoreStream, DpGo, DpReturn, DpFails, DpInv, DpTypeOK, DpStreams, DpChans, DpFaultCounts, RecordIsTrue, DpPlace, Empty, Unprepared, NoStream, NoChan, DpRest, DpAt
  <2>5. QED
    BY <2>1, <2>2, <2>3, <2>4 DEF DpInv
<1>5. CASE UndoConfigure
  <2>1. DpTypeOK'
    <3>1. dpStream' \in DpStreams
      BY <1>5 DEF UndoConfigure, AvUnprepare, AvCall, Abandons, DpGo, DpReturn, DpFails, DpFailsLate, DpInv, DpTypeOK, DpStreams, DpChans, DpFaultCounts, NoStream, NoChan
    <3>2. dpChan' \in DpChans /\ bounce' \in BOOLEAN
      <4>1. dpChan' \in {dpChan, NoChan, [NoChan EXCEPT !.held = TRUE]} /\ bounce' \in {bounce, TRUE, FALSE}
        BY <1>5 DEF UndoConfigure, AvUnprepare, AvCall, Abandons
      <4>2. QED
        BY <4>1, DpConstants DEF DpInv, DpTypeOK
    <3>3. dpAv' \in [prepared : BOOLEAN, started : BOOLEAN]
      BY <1>5 DEF UndoConfigure, AvUnprepare, AvCall, Abandons, DpGo, DpReturn, DpFails, DpFailsLate, DpInv, DpTypeOK, DpStreams, DpChans, DpFaultCounts, NoStream, NoChan
    <3>4. dpFaults' \in DpFaultCounts
      <4>1. DpFails \/ DpFailsLate \/ UNCHANGED dpFaults
        BY <1>5 DEF UndoConfigure, AvUnprepare, AvCall
      <4>2. QED
        BY <4>1, DpFaultsCount DEF DpInv
    <3>5. QED
      BY <3>1, <3>2, <3>3, <3>4 DEF DpTypeOK, DpStreams, DpChans, DpFaultCounts
  <2>2. RecordIsTrue'
    <3>1. ~dpStream.have /\ dpStream = NoStream /\ UNCHANGED dpStream
      BY <1>5 DEF UndoConfigure, DpInv, RecordIsTrue, DpPlace, DpAt, DpRest
    <3>2. ~dpAv.started
      BY <3>1 DEF DpInv, RecordIsTrue, NoStream
    <3>3. dpChan' = NoChan /\ dpAv' \in {dpAv, [dpAv EXCEPT !.prepared = FALSE]}
      BY <1>5 DEF UndoConfigure, AvUnprepare, AvCall, Abandons
    <3>4. dpAv'.started = FALSE /\ dpChan'.running = FALSE
      BY <3>2, <3>3 DEF DpInv, DpTypeOK, NoChan
    <3>5. QED
      BY <3>1, <3>4 DEF RecordIsTrue, NoStream
  <2>3. LinkIsBelieved'
    BY <1>5 DEF UndoConfigure, AvUnprepare, AvCall, Abandons, DpGo, DpReturn, DpFails, DpFailsLate, DpInv, DpTypeOK, DpStreams, DpChans, DpFaultCounts, RecordIsTrue, LinkIsBelieved, LinkOf, DpPlace, Empty, NoStream, NoChan, DpRest, DpAt
  <2>4. DpPlace' /\ (dpChan.running => bounce')
    BY <1>5 DEF UndoConfigure, AvUnprepare, AvCall, Abandons, DpGo, DpReturn, DpFails, DpFailsLate, DpInv, DpTypeOK, DpStreams, DpChans, DpFaultCounts, RecordIsTrue, DpPlace, Empty, Unprepared, NoStream, NoChan, DpRest, DpAt
  <2>5. QED
    BY <2>1, <2>2, <2>3, <2>4 DEF DpInv
<1>6. QED
  BY <1>1, <1>2, <1>3, <1>4, <1>5

LEMMA DpStartKeeps ==
  ASSUME DpInv, StartLink \/ StartRing \/ UndoStart
  PROVE  DpInv' /\ (dpChan.running => bounce')
<1>1. CASE StartLink
  <2>1. DpTypeOK'
    <3>1. dpStream' \in DpStreams
      BY <1>1 DEF StartLink, AvStartLink, AvCall, DpGo, DpReturn, DpFails, DpFailsLate, DpInv, DpTypeOK, DpStreams, DpChans, DpFaultCounts, NoStream, NoChan
    <3>2. dpChan' \in DpChans /\ bounce' \in BOOLEAN
      BY <1>1 DEF StartLink, AvStartLink, AvCall, DpGo, DpReturn, DpFails, DpFailsLate, DpInv, DpTypeOK, DpStreams, DpChans, DpFaultCounts, NoStream, NoChan
    <3>3. dpAv' \in [prepared : BOOLEAN, started : BOOLEAN]
      BY <1>1 DEF StartLink, AvStartLink, AvCall, DpGo, DpReturn, DpFails, DpFailsLate, DpInv, DpTypeOK, DpStreams, DpChans, DpFaultCounts, NoStream, NoChan
    <3>4. dpFaults' \in DpFaultCounts
      <4>1. DpFails \/ DpFailsLate \/ UNCHANGED dpFaults
        BY <1>1 DEF StartLink, AvStartLink, AvCall
      <4>2. QED
        BY <4>1, DpFaultsCount DEF DpInv
    <3>5. QED
      BY <3>1, <3>2, <3>3, <3>4 DEF DpTypeOK, DpStreams, DpChans, DpFaultCounts
  <2>2. RecordIsTrue'
    BY <1>1 DEF StartLink, AvStartLink, AvCall, DpGo, DpReturn, DpFails, DpFailsLate, DpInv, DpTypeOK, DpStreams, DpChans, DpFaultCounts, RecordIsTrue, DpPlace, Empty, NoStream, NoChan, DpRest, DpAt
  <2>3. LinkIsBelieved'
    BY <1>1 DEF StartLink, AvStartLink, AvCall, DpGo, DpReturn, DpFails, DpFailsLate, DpInv, DpTypeOK, DpStreams, DpChans, DpFaultCounts, RecordIsTrue, LinkIsBelieved, LinkOf, DpPlace, Empty, NoStream, NoChan, DpRest, DpAt
  <2>4. DpPlace' /\ (dpChan.running => bounce')
    BY <1>1 DEF StartLink, AvStartLink, AvCall, DpGo, DpReturn, DpFails, DpFailsLate, DpInv, DpTypeOK, DpStreams, DpChans, DpFaultCounts, RecordIsTrue, DpPlace, Empty, Unprepared, NoStream, NoChan, DpRest, DpAt
  <2>5. QED
    BY <2>1, <2>2, <2>3, <2>4 DEF DpInv
<1>2. CASE StartRing
  <2>1. DpTypeOK'
    <3>1. dpStream' \in DpStreams
      BY <1>2 DEF StartRing, DpGo, DpReturn, DpFails, DpInv, DpTypeOK, DpStreams, DpChans, DpFaultCounts, NoStream, NoChan
    <3>2. dpChan' \in DpChans /\ bounce' \in BOOLEAN
      BY <1>2 DEF StartRing, DpGo, DpReturn, DpFails, DpInv, DpTypeOK, DpStreams, DpChans, DpFaultCounts, NoStream, NoChan
    <3>3. dpAv' \in [prepared : BOOLEAN, started : BOOLEAN]
      BY <1>2 DEF StartRing, DpGo, DpReturn, DpFails, DpInv, DpTypeOK, DpStreams, DpChans, DpFaultCounts, NoStream, NoChan
    <3>4. dpFaults' \in DpFaultCounts
      BY <1>2 DEF StartRing, DpGo, DpReturn, DpFails, DpInv, DpTypeOK, DpStreams, DpChans, DpFaultCounts, NoStream, NoChan
    <3>5. QED
      BY <3>1, <3>2, <3>3, <3>4 DEF DpTypeOK, DpStreams, DpChans, DpFaultCounts
  <2>2. RecordIsTrue'
    BY <1>2 DEF StartRing, DpGo, DpReturn, DpFails, DpInv, DpTypeOK, DpStreams, DpChans, DpFaultCounts, RecordIsTrue, DpPlace, Empty, NoStream, NoChan, DpRest, DpAt
  <2>3. LinkIsBelieved'
    BY <1>2 DEF StartRing, DpGo, DpReturn, DpFails, DpInv, DpTypeOK, DpStreams, DpChans, DpFaultCounts, RecordIsTrue, LinkIsBelieved, LinkOf, DpPlace, Empty, NoStream, NoChan, DpRest, DpAt
  <2>4. DpPlace' /\ (dpChan.running => bounce')
    BY <1>2 DEF StartRing, DpGo, DpReturn, DpFails, DpInv, DpTypeOK, DpStreams, DpChans, DpFaultCounts, RecordIsTrue, DpPlace, Empty, Unprepared, NoStream, NoChan, DpRest, DpAt
  <2>5. QED
    BY <2>1, <2>2, <2>3, <2>4 DEF DpInv
<1>3. CASE UndoStart
  <2>1. DpTypeOK'
    <3>1. dpStream' \in DpStreams
      BY <1>3 DEF UndoStart, AvStopLink, AvCall, DpGo, DpReturn, DpFails, DpFailsLate, DpInv, DpTypeOK, DpStreams, DpChans, DpFaultCounts, NoStream, NoChan
    <3>2. dpChan' \in DpChans /\ bounce' \in BOOLEAN
      BY <1>3 DEF UndoStart, AvStopLink, AvCall, DpGo, DpReturn, DpFails, DpFailsLate, DpInv, DpTypeOK, DpStreams, DpChans, DpFaultCounts, NoStream, NoChan
    <3>3. dpAv' \in [prepared : BOOLEAN, started : BOOLEAN]
      BY <1>3 DEF UndoStart, AvStopLink, AvCall, DpGo, DpReturn, DpFails, DpFailsLate, DpInv, DpTypeOK, DpStreams, DpChans, DpFaultCounts, NoStream, NoChan
    <3>4. dpFaults' \in DpFaultCounts
      <4>1. DpFails \/ DpFailsLate \/ UNCHANGED dpFaults
        BY <1>3 DEF UndoStart, AvStopLink, AvCall
      <4>2. QED
        BY <4>1, DpFaultsCount DEF DpInv
    <3>5. QED
      BY <3>1, <3>2, <3>3, <3>4 DEF DpTypeOK, DpStreams, DpChans, DpFaultCounts
  <2>2. RecordIsTrue'
    BY <1>3 DEF UndoStart, AvStopLink, AvCall, DpGo, DpReturn, DpFails, DpFailsLate, DpInv, DpTypeOK, DpStreams, DpChans, DpFaultCounts, RecordIsTrue, DpPlace, Empty, NoStream, NoChan, DpRest, DpAt
  <2>3. LinkIsBelieved'
    BY <1>3 DEF UndoStart, AvStopLink, AvCall, DpGo, DpReturn, DpFails, DpFailsLate, DpInv, DpTypeOK, DpStreams, DpChans, DpFaultCounts, RecordIsTrue, LinkIsBelieved, LinkOf, DpPlace, Empty, NoStream, NoChan, DpRest, DpAt
  <2>4. DpPlace' /\ (dpChan.running => bounce')
    BY <1>3 DEF UndoStart, AvStopLink, AvCall, DpGo, DpReturn, DpFails, DpFailsLate, DpInv, DpTypeOK, DpStreams, DpChans, DpFaultCounts, RecordIsTrue, DpPlace, Empty, Unprepared, NoStream, NoChan, DpRest, DpAt
  <2>5. QED
    BY <2>1, <2>2, <2>3, <2>4 DEF DpInv
<1>4. QED
  BY <1>1, <1>2, <1>3

LEMMA DpStopKeeps ==
  ASSUME DpInv, StopRing \/ StopLink \/ SilenceCallback \/ UnprepareLink \/ DropDpStream
  PROVE  DpInv' /\ (dpChan.running => bounce')
<1>1. CASE StopRing
  <2>1. DpTypeOK'
    <3>1. dpStream' \in DpStreams
      <4>1. dpStream' \in {dpStream, [dpStream EXCEPT !.dma = FALSE, !.inFlight = 0]}
        BY <1>1 DEF StopRing
      <4>2. QED
        BY <4>1, DpConstants, DpEdits DEF DpInv, DpTypeOK
    <3>2. dpChan' \in DpChans /\ bounce' \in BOOLEAN
      BY <1>1 DEF StopRing, DpGo, DpReturn, DpFails, DpInv, DpTypeOK, DpStreams, DpChans, DpFaultCounts, NoStream, NoChan
    <3>3. dpAv' \in [prepared : BOOLEAN, started : BOOLEAN]
      BY <1>1 DEF StopRing, DpGo, DpReturn, DpFails, DpInv, DpTypeOK, DpStreams, DpChans, DpFaultCounts, NoStream, NoChan
    <3>4. dpFaults' \in DpFaultCounts
      BY <1>1 DEF StopRing, DpGo, DpReturn, DpFails, DpInv, DpTypeOK, DpStreams, DpChans, DpFaultCounts, NoStream, NoChan
    <3>5. QED
      BY <3>1, <3>2, <3>3, <3>4 DEF DpTypeOK, DpStreams, DpChans, DpFaultCounts
  <2>2. dpStream.have /\ dpStream'.have /\ bounce /\ dpStream'.link = dpStream.link /\ UNCHANGED <<bounce, dpAv, dpLink>>
    <3>1. dpStream.have /\ UNCHANGED <<bounce, dpAv, dpLink>>
      BY <1>1 DEF StopRing, DpInv, DpPlace, DpAt, DpRest
    <3>2. dpStream' \in {dpStream, [dpStream EXCEPT !.dma = FALSE, !.inFlight = 0]}
      BY <1>1 DEF StopRing
    <3>3. QED
      BY <3>1, <3>2 DEF DpInv, DpTypeOK, DpStreams, RecordIsTrue
  <2>3. /\ dpStream'.dma = dpChan'.running /\ dpChan'.held = dpChan.held /\ dpChan'.prepared = dpChan.prepared
        /\ dpCall' = [dpCall EXCEPT !.at = "stopLink"] => ~dpStream'.dma
    <3>1. CASE UNCHANGED dpStream /\ UNCHANGED dpChan
      <4>1. dpCall' = [dpCall EXCEPT !.at = "stopLink"] => ~dpStream.dma
        <5>1. dpCall.at = "stop" /\ DpRest.at = "none" /\ [dpCall EXCEPT !.at = "stopLink"].at = "stopLink"
          BY <1>1 DEF StopRing, DpRest, DpInv, DpPlace, DpAt
        <5>2. ~dpStream.dma \/ dpStream' = [dpStream EXCEPT !.dma = FALSE, !.inFlight = 0] \/ dpCall' = DpRest
          BY <1>1 DEF StopRing, DpReturn
        <5>3. dpStream' = [dpStream EXCEPT !.dma = FALSE, !.inFlight = 0] => ~dpStream'.dma
          BY DEF DpInv, DpTypeOK, DpStreams
        <5>4. QED
          BY <3>1, <5>1, <5>2, <5>3
      <4>2. QED
        BY <3>1, <4>1 DEF DpInv, RecordIsTrue
    <3>2. CASE dpStream' = [dpStream EXCEPT !.dma = FALSE, !.inFlight = 0] /\ dpChan' = [dpChan EXCEPT !.running = FALSE]
      BY <3>2 DEF DpInv, DpTypeOK, DpStreams, DpChans
    <3>3. QED
      BY <1>1, <3>1, <3>2 DEF StopRing
  <2>4. RecordIsTrue' /\ LinkIsBelieved' /\ DpPlace' /\ (dpChan.running => bounce')
    <3>1. RecordIsTrue' /\ (dpChan.running => bounce')
      BY <2>2, <2>3 DEF DpInv, RecordIsTrue
    <3>2. LinkIsBelieved'
      BY <1>1, <2>2 DEF StopRing, DpFails, DpInv, DpTypeOK, DpFaultCounts, LinkIsBelieved, LinkOf
    <3>3. /\ dpCall' = DpRest \/ dpCall' = [dpCall EXCEPT !.at = "stopLink"]
          /\ \E op \in {"configure", "release", "stop"} : DpAt(op, "stop")
      BY <1>1 DEF StopRing, DpGo, DpReturn, DpInv, DpPlace, DpAt, DpRest
    <3>4. ASSUME dpCall' = DpRest PROVE DpPlace'
      BY <2>2, <3>4 DEF DpPlace, DpRest
    <3>5. ASSUME dpCall' = [dpCall EXCEPT !.at = "stopLink"] PROVE DpPlace'
      <4>1. PICK op \in {"configure", "release", "stop"} : dpCall = [op |-> op, at |-> "stop"]
        BY <3>3 DEF DpAt
      <4>2. dpCall' = [op |-> op, at |-> "stopLink"]
        BY <3>5, <4>1
      <4>3. QED
        BY <2>2, <2>3, <3>5, <4>2 DEF DpPlace, DpAt
    <3>6. QED
      BY <3>1, <3>2, <3>3, <3>4, <3>5
  <2>5. QED
    BY <2>1, <2>4 DEF DpInv
<1>2. CASE StopLink
  <2>1. DpTypeOK'
    <3>1. dpStream' \in DpStreams
      BY <1>2 DEF StopLink, Stopped, AvStopLink, AvCall, DpGo, DpReturn, DpFails, DpFailsLate, DpInv, DpTypeOK, DpStreams, DpChans, DpFaultCounts, NoStream, NoChan
    <3>2. dpChan' \in DpChans /\ bounce' \in BOOLEAN
      BY <1>2 DEF StopLink, Stopped, AvStopLink, AvCall, DpGo, DpReturn, DpFails, DpFailsLate, DpInv, DpTypeOK, DpStreams, DpChans, DpFaultCounts, NoStream, NoChan
    <3>3. dpAv' \in [prepared : BOOLEAN, started : BOOLEAN]
      BY <1>2 DEF StopLink, Stopped, AvStopLink, AvCall, DpGo, DpReturn, DpFails, DpFailsLate, DpInv, DpTypeOK, DpStreams, DpChans, DpFaultCounts, NoStream, NoChan
    <3>4. dpFaults' \in DpFaultCounts
      <4>1. DpFails \/ DpFailsLate \/ UNCHANGED dpFaults
        BY <1>2 DEF StopLink, AvStopLink, AvCall
      <4>2. QED
        BY <4>1, DpFaultsCount DEF DpInv
    <3>5. QED
      BY <3>1, <3>2, <3>3, <3>4 DEF DpTypeOK, DpStreams, DpChans, DpFaultCounts
  <2>2. RecordIsTrue'
    <3>1. dpStream.have /\ UNCHANGED <<dpChan, bounce>>
      BY <1>2 DEF StopLink, DpInv, DpPlace, DpAt, DpRest
    <3>2. \/ UNCHANGED <<dpStream, dpAv>>
          \/ dpStream' = [dpStream EXCEPT !.link = FALSE] /\ dpAv' \in {dpAv, [dpAv EXCEPT !.started = FALSE]} /\ dpAv'.started = FALSE
      BY <1>2 DEF StopLink, AvStopLink, AvCall, DpInv, DpTypeOK
    <3>3. CASE UNCHANGED <<dpStream, dpAv>>
      BY <3>1, <3>3 DEF DpInv, RecordIsTrue
    <3>4. CASE dpStream' = [dpStream EXCEPT !.link = FALSE] /\ dpAv' \in {dpAv, [dpAv EXCEPT !.started = FALSE]} /\ dpAv'.started = FALSE
      <4>1. dpStream'.have /\ dpStream'.dma = dpStream.dma /\ dpStream'.link = FALSE
        BY <3>1, <3>4 DEF DpInv, DpTypeOK, DpStreams
      <4>2. QED
        BY <3>1, <3>4, <4>1 DEF DpInv, RecordIsTrue
    <3>5. QED
      BY <3>2, <3>3, <3>4
  <2>3. LinkIsBelieved'
    BY <1>2 DEF StopLink, Stopped, AvStopLink, AvCall, DpGo, DpReturn, DpFails, DpFailsLate, DpInv, DpTypeOK, DpStreams, DpChans, DpFaultCounts, RecordIsTrue, LinkIsBelieved, LinkOf, DpPlace, Empty, NoStream, NoChan, DpRest, DpAt
  <2>4. DpPlace' /\ (dpChan.running => bounce')
    BY <1>2 DEF StopLink, Stopped, AvStopLink, AvCall, DpGo, DpReturn, DpFails, DpFailsLate, DpInv, DpTypeOK, DpStreams, DpChans, DpFaultCounts, RecordIsTrue, DpPlace, Empty, Unprepared, NoStream, NoChan, DpRest, DpAt
  <2>5. QED
    BY <2>1, <2>2, <2>3, <2>4 DEF DpInv
<1>3. CASE SilenceCallback
  <2>1. DpTypeOK'
    <3>1. dpStream' \in DpStreams
      BY <1>3 DEF SilenceCallback, DpGo, DpReturn, DpFails, DpInv, DpTypeOK, DpStreams, DpChans, DpFaultCounts, NoStream, NoChan
    <3>2. dpChan' \in DpChans /\ bounce' \in BOOLEAN
      BY <1>3 DEF SilenceCallback, DpGo, DpReturn, DpFails, DpInv, DpTypeOK, DpStreams, DpChans, DpFaultCounts, NoStream, NoChan
    <3>3. dpAv' \in [prepared : BOOLEAN, started : BOOLEAN]
      BY <1>3 DEF SilenceCallback, DpGo, DpReturn, DpFails, DpInv, DpTypeOK, DpStreams, DpChans, DpFaultCounts, NoStream, NoChan
    <3>4. dpFaults' \in DpFaultCounts
      BY <1>3 DEF SilenceCallback, DpGo, DpReturn, DpFails, DpInv, DpTypeOK, DpStreams, DpChans, DpFaultCounts, NoStream, NoChan
    <3>5. QED
      BY <3>1, <3>2, <3>3, <3>4 DEF DpTypeOK, DpStreams, DpChans, DpFaultCounts
  <2>2. RecordIsTrue'
    BY <1>3 DEF SilenceCallback, DpGo, DpReturn, DpFails, DpInv, DpTypeOK, DpStreams, DpChans, DpFaultCounts, RecordIsTrue, DpPlace, Empty, NoStream, NoChan, DpRest, DpAt
  <2>3. LinkIsBelieved'
    BY <1>3 DEF SilenceCallback, DpGo, DpReturn, DpFails, DpInv, DpTypeOK, DpStreams, DpChans, DpFaultCounts, RecordIsTrue, LinkIsBelieved, LinkOf, DpPlace, Empty, NoStream, NoChan, DpRest, DpAt
  <2>4. DpPlace' /\ (dpChan.running => bounce')
    BY <1>3 DEF SilenceCallback, DpGo, DpReturn, DpFails, DpInv, DpTypeOK, DpStreams, DpChans, DpFaultCounts, RecordIsTrue, DpPlace, Empty, Unprepared, NoStream, NoChan, DpRest, DpAt
  <2>5. QED
    BY <2>1, <2>2, <2>3, <2>4 DEF DpInv
<1>4. CASE UnprepareLink
  <2>1. DpTypeOK'
    <3>1. dpStream' \in DpStreams
      BY <1>4 DEF UnprepareLink, AvUnprepare, AvCall, DpGo, DpReturn, DpFails, DpFailsLate, DpInv, DpTypeOK, DpStreams, DpChans, DpFaultCounts, NoStream, NoChan
    <3>2. dpChan' \in DpChans /\ bounce' \in BOOLEAN
      BY <1>4 DEF UnprepareLink, AvUnprepare, AvCall, DpGo, DpReturn, DpFails, DpFailsLate, DpInv, DpTypeOK, DpStreams, DpChans, DpFaultCounts, NoStream, NoChan
    <3>3. dpAv' \in [prepared : BOOLEAN, started : BOOLEAN]
      BY <1>4 DEF UnprepareLink, AvUnprepare, AvCall, DpGo, DpReturn, DpFails, DpFailsLate, DpInv, DpTypeOK, DpStreams, DpChans, DpFaultCounts, NoStream, NoChan
    <3>4. dpFaults' \in DpFaultCounts
      <4>1. DpFails \/ DpFailsLate \/ UNCHANGED dpFaults
        BY <1>4 DEF UnprepareLink, AvUnprepare, AvCall
      <4>2. QED
        BY <4>1, DpFaultsCount DEF DpInv
    <3>5. QED
      BY <3>1, <3>2, <3>3, <3>4 DEF DpTypeOK, DpStreams, DpChans, DpFaultCounts
  <2>2. RecordIsTrue'
    BY <1>4 DEF UnprepareLink, AvUnprepare, AvCall, DpGo, DpReturn, DpFails, DpFailsLate, DpInv, DpTypeOK, DpStreams, DpChans, DpFaultCounts, RecordIsTrue, DpPlace, Empty, NoStream, NoChan, DpRest, DpAt
  <2>3. LinkIsBelieved'
    BY <1>4 DEF UnprepareLink, AvUnprepare, AvCall, DpGo, DpReturn, DpFails, DpFailsLate, DpInv, DpTypeOK, DpStreams, DpChans, DpFaultCounts, RecordIsTrue, LinkIsBelieved, LinkOf, DpPlace, Empty, NoStream, NoChan, DpRest, DpAt
  <2>4. DpPlace' /\ (dpChan.running => bounce')
    BY <1>4 DEF UnprepareLink, AvUnprepare, AvCall, DpGo, DpReturn, DpFails, DpFailsLate, DpInv, DpTypeOK, DpStreams, DpChans, DpFaultCounts, RecordIsTrue, DpPlace, Empty, Unprepared, NoStream, NoChan, DpRest, DpAt
  <2>5. QED
    BY <2>1, <2>2, <2>3, <2>4 DEF DpInv
<1>5. CASE DropDpStream
  <2>1. DpTypeOK'
    <3>1. dpStream' \in DpStreams
      BY <1>5 DEF DropDpStream, Abandons, DpGo, DpReturn, DpInv, DpTypeOK, DpStreams, DpChans, DpFaultCounts, NoStream, NoChan
    <3>2. dpChan' \in DpChans /\ bounce' \in BOOLEAN
      BY <1>5 DEF DropDpStream, Abandons, DpGo, DpReturn, DpInv, DpTypeOK, DpStreams, DpChans, DpFaultCounts, NoStream, NoChan
    <3>3. dpAv' \in [prepared : BOOLEAN, started : BOOLEAN]
      BY <1>5 DEF DropDpStream, Abandons, DpGo, DpReturn, DpInv, DpTypeOK, DpStreams, DpChans, DpFaultCounts, NoStream, NoChan
    <3>4. dpFaults' \in DpFaultCounts
      BY <1>5 DEF DropDpStream, Abandons, DpGo, DpReturn, DpInv, DpTypeOK, DpStreams, DpChans, DpFaultCounts, NoStream, NoChan
    <3>5. QED
      BY <3>1, <3>2, <3>3, <3>4 DEF DpTypeOK, DpStreams, DpChans, DpFaultCounts
  <2>2. RecordIsTrue'
    <3>1. ~dpAv.started /\ UNCHANGED dpAv /\ dpStream' = NoStream /\ dpChan' = NoChan
      BY <1>5 DEF DropDpStream, Abandons, DpInv, RecordIsTrue, DpPlace, DpAt, DpRest
    <3>2. QED
      BY <3>1 DEF RecordIsTrue, NoStream, NoChan, DpInv, DpTypeOK
  <2>3. LinkIsBelieved'
    BY <1>5 DEF DropDpStream, Abandons, DpGo, DpReturn, DpInv, DpTypeOK, DpStreams, DpChans, DpFaultCounts, RecordIsTrue, LinkIsBelieved, LinkOf, DpPlace, Empty, NoStream, NoChan, DpRest, DpAt
  <2>4. DpPlace' /\ (dpChan.running => bounce')
    BY <1>5 DEF DropDpStream, Abandons, DpGo, DpReturn, DpInv, DpTypeOK, DpStreams, DpChans, DpFaultCounts, RecordIsTrue, DpPlace, Empty, Unprepared, NoStream, NoChan, DpRest, DpAt
  <2>5. QED
    BY <2>1, <2>2, <2>3, <2>4 DEF DpInv
<1>6. QED
  BY <1>1, <1>2, <1>3, <1>4, <1>5

(* The record of the stream and the buffer are true between calls, and the     *)
(* buffer is not given back under a running ring.                              *)
THEOREM DpHalvesAreKnown == DpSpec => [](HalvesAreKnown /\ LinkFollowsStream) /\ BounceOutlivesDma
<1>1. DpInv => HalvesAreKnown /\ LinkFollowsStream
  <2>1. ASSUME DpInv, dpCall = DpRest PROVE dpStream.have \/ Empty
    BY <2>1 DEF DpInv, DpPlace, DpRest, DpAt
  <2>2. DpInv => HalvesAreKnown
    BY <2>1 DEF DpInv, RecordIsTrue, HalvesAreKnown, Empty
  <2>3. DpInv => LinkFollowsStream
    <3>1. SUFFICES ASSUME DpInv, dpCall = DpRest, ~dpFaults.lost PROVE (dpLink = "started" <=> dpStream.link) /\ (~dpStream.have /\ dpFaults.n <= 1 => dpLink = "off")
      BY DEF LinkFollowsStream
    <3>2. dpLink = LinkOf(dpAv) /\ dpStream.link = dpAv.started /\ (dpAv.started => dpAv.prepared)
      BY <3>1 DEF DpInv, LinkIsBelieved, RecordIsTrue
    <3>3. (dpLink = "started" <=> dpStream.link) /\ (~dpAv.prepared => dpLink = "off")
      BY <3>2 DEF LinkOf
    <3>4. ~dpStream.have /\ dpFaults.n <= 1 => ~dpAv.prepared
      BY <2>1, <3>1 DEF Empty, Unprepared
    <3>5. QED
      BY <3>3, <3>4
  <2>4. QED
    BY <2>2, <2>3
<1>2. DpInv /\ [DpNext]_dpVars => DpInv' /\ [dpChan.running => bounce']_dpVars
  <2>1. CASE UNCHANGED dpVars
    BY <2>1 DEF dpVars, DpInv, DpTypeOK, RecordIsTrue, LinkIsBelieved, LinkOf, DpPlace, Empty, Unprepared, DpAt
  <2>2. ASSUME DpInv, DpNext PROVE DpInv' /\ (dpChan.running => bounce')
    <3>1. ASSUME Configure \/ Release \/ StopStream \/ StartStream \/ SubmitPeriod \/ \E n \in 1 .. DpPeriods + 1 : ProcessCompletions(n)
          PROVE  dpChan.running => bounce'
      <4>1. UNCHANGED bounce
        BY <3>1 DEF Configure, Release, StopStream, StartStream, SubmitPeriod, ProcessCompletions
      <4>2. dpChan.running => bounce
        <5>1. dpStream.dma = dpChan.running /\ (dpStream.have => bounce) /\ (~dpStream.have => dpStream.dma = FALSE)
          BY <2>2 DEF DpInv, RecordIsTrue, NoStream
        <5>2. QED
          BY <5>1
      <4>3. QED
        BY <4>1, <4>2
    <3>2. QED
      BY <2>2, <3>1, DpBeginKeeps, DpConfigureKeeps, DpStartKeeps, DpStopKeeps DEF DpNext
  <2>3. QED
    BY <2>1, <2>2
<1>3. QED
  BY <1>1, <1>2, DpInitHolds, PTL DEF DpSpec, BounceOutlivesDma

------------------------------------------------------------------------------
(* The buses and the port together, each by itself: what is read of a device,   *)
(* or of a port, is what was asked for, whatever failed before.                 *)
THEOREM BusTransfersAreOwn ==
  SpiSpec /\ I2cSpec /\ SpiHidSpec /\ TcSpec => []TransfersAreOwn
<1>1. SpiReadIsOwn /\ WireIsTransfer /\ OkIsAcked /\ I2cReadIsOwn /\ WholeReports /\ AnswerIsOwn
        /\ LanesNegotiated /\ PortIsPowered => TransfersAreOwn
  BY DEF TransfersAreOwn
<1>2. QED
  BY <1>1, SpiTransfersAreOwn, I2cTransfersAreOwn, HidMessagesAreOwn, TcPortIsDescribed, PTL

(* Pins, keyboard and trackpad: no edge is lost, no report is left unheard, and *)
(* the events are those of the reports.                                         *)
THEOREM InputsAreHeard == PinSpec /\ SpiHidSpec /\ HidInputSpec => InputsHeard
<1>1. QED
  BY EdgesAreKept, HidMessagesAreOwn, HidEventsMirror, PTL DEF InputsHeard

(* The two ways sound leaves by DMA: no period is counted twice or lost, and no *)
(* ring runs over a buffer or a block that was given back.                      *)
THEOREM PeriodsStayCounted == AdmacSpec /\ DpSpec => PeriodsAreCounted
<1>1. QED
  BY AdmacCountsOnce, DpHalvesAreKnown, PTL DEF PeriodsAreCounted

==============================================================================
