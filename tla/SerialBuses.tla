----------------------------- MODULE SerialBuses ------------------------------
(* The two polled buses, SPI and I2C. *)
EXTENDS Naturals, Sequences, SequencesExt

(* The polled SPI controller (spi/apple-spi): a transfer selects the device,   *)
(* runs its segments one after the other through the two FIFOs, and lets go.   *)
(* The hardware shifts at its own pace and may stall until the driver gives up. *)

CONSTANTS
  FifoDepth,     \* FIFO_DEPTH
  SegmentLens,   \* lengths of segments; 0 is refused
  MaxSegments,   \* segments of a transfer
  MaxTransfers,  \* bound: transfers
  MaxStalls      \* bound: segments that time out

ASSUME SpiAssumption == FifoDepth \in Nat /\ SegmentLens \subseteq Nat /\ MaxSegments \in Nat

VARIABLES
  selected,  \* REG_PIN holds the chip select active
  txf, rxf,  \* the FIFOs: bytes of a segment, and the device's answers to them
  shifting,  \* CTRL_RUN, and how many bytes TXCNT still allows
  xfer,      \* the transfer: its number and its segments left
  segRun,       \* run_segment: none, or what was written and read
  wireSeen,      \* history: what the device saw since it was selected
  readBack,  \* what the last finished segment returned
  stalls

spiVars == <<selected, txf, rxf, shifting, xfer, segRun, wireSeen, readBack, stalls>>

NotRunning == [on |-> FALSE, left |-> 0]
NoTransfer == [n |-> 0, seg |-> 0, lens |-> <<>>]
NoRead == [t |-> 0, s |-> 0, got |-> <<>>]
NoRun == [at |-> "none", written |-> 0, got |-> <<>>]
SpiByte(i) == [t |-> xfer.n, s |-> xfer.seg, i |-> i]
SegLen == Head(xfer.lens)
SpiBusy == xfer.lens # <<>> \/ xfer.seg > 0

SpiInit ==
  /\ selected = FALSE /\ txf = <<>> /\ rxf = <<>> /\ shifting = NotRunning
  /\ xfer = NoTransfer /\ segRun = NoRun /\ wireSeen = <<>> /\ readBack = NoRead /\ stalls = 0
-----------------------------------------------------------------------------
(* transfer: under transfer_lock, the select goes active, and inactive again    *)
(* after the last segment or the first that failed.                            *)
BeginTransfer ==
  /\ ~SpiBusy /\ xfer.n < MaxTransfers
  /\ \E n \in 1..MaxSegments : \E lens \in [1..n -> SegmentLens] :
       xfer' = [n |-> xfer.n + 1, seg |-> 1, lens |-> lens]
  /\ selected' = TRUE /\ wireSeen' = <<>>
  /\ UNCHANGED <<txf, rxf, shifting, segRun, readBack, stalls>>
(* Mutant: a failure returns at once. *)
LeaveSelected == xfer' = [NoTransfer EXCEPT !.n = xfer.n] /\ UNCHANGED selected
Deselect == xfer' = [NoTransfer EXCEPT !.n = xfer.n] /\ selected' = FALSE
NextSegment ==
  IF Len(xfer.lens) = 1 THEN xfer' = [NoTransfer EXCEPT !.n = xfer.n] /\ selected' = FALSE
  ELSE xfer' = [xfer EXCEPT !.seg = @ + 1, !.lens = Tail(@)] /\ UNCHANGED selected

(* transfer_segment refuses an empty segment. *)
RefuseSegment ==
  /\ SpiBusy /\ segRun = NoRun /\ SegLen = 0
  /\ Deselect /\ UNCHANGED <<txf, rxf, shifting, segRun, wireSeen, readBack, stalls>>

(* fill_tx_fifo: as much as there is room for. *)
FifoRoom(f) == FifoDepth - Len(f)
Filled(f, from) == LET upTo == IF SegLen - from < FifoRoom(f) THEN SegLen ELSE from + FifoRoom(f)
                  IN  f \o [k \in 1..(upTo - from) |-> SpiByte(from + k)]
(* Mutant: the FIFOs keep what they hold. *)
KeepFifos == <<txf, rxf>>
ResetFifos == <<<<>>, <<>>>>
BeginSegment ==
  /\ SpiBusy /\ segRun = NoRun /\ SegLen > 0
  /\ LET f == Filled(ResetFifos[1], 0) IN
     /\ txf' = f /\ rxf' = ResetFifos[2]
     /\ segRun' = [at |-> "drain", written |-> Len(f) - Len(ResetFifos[1]), got |-> <<>>]
  /\ shifting' = [on |-> TRUE, left |-> SegLen]
  /\ UNCHANGED <<selected, xfer, wireSeen, readBack, stalls>>

(* drain_rx_fifo, a byte at a time; then fill_tx_fifo; then the two counts. *)
DrainRx ==
  /\ segRun.at = "drain" /\ UNCHANGED <<selected, txf, shifting, xfer, wireSeen, readBack, stalls>>
  /\ IF rxf # <<>> /\ Len(segRun.got) < SegLen
     THEN rxf' = Tail(rxf) /\ segRun' = [segRun EXCEPT !.got = Append(@, Head(rxf))]
     ELSE segRun' = [segRun EXCEPT !.at = "fill"] /\ UNCHANGED rxf
FillTx ==
  /\ segRun.at = "fill"
  /\ txf' = Filled(txf, segRun.written)
  /\ segRun' = [segRun EXCEPT !.at = "check", !.written = @ + Len(Filled(txf, segRun.written)) - Len(txf)]
  /\ UNCHANGED <<selected, rxf, shifting, xfer, wireSeen, readBack, stalls>>
SegmentDone ==
  /\ segRun.at = "check" /\ segRun.written = SegLen /\ Len(segRun.got) = SegLen
  /\ shifting' = NotRunning /\ readBack' = [t |-> xfer.n, s |-> xfer.seg, got |-> segRun.got] /\ segRun' = NoRun
  /\ NextSegment /\ UNCHANGED <<txf, rxf, wireSeen, stalls>>
CheckAgain ==
  /\ segRun.at = "check" /\ ~(segRun.written = SegLen /\ Len(segRun.got) = SegLen)
  /\ segRun' = [segRun EXCEPT !.at = "drain"]
  /\ UNCHANGED <<selected, txf, rxf, shifting, xfer, wireSeen, readBack, stalls>>
SegmentTimesOut ==
  /\ segRun.at = "check" /\ ~(segRun.written = SegLen /\ Len(segRun.got) = SegLen) /\ stalls < MaxStalls
  /\ stalls' = stalls + 1 /\ shifting' = NotRunning /\ segRun' = NoRun
  /\ Deselect /\ UNCHANGED <<txf, rxf, wireSeen, readBack>>

(* The hardware: a byte out, the device's answer in, lost when there is no room. *)
ShiftByte ==
  /\ shifting.on /\ shifting.left > 0 /\ txf # <<>>
  /\ txf' = Tail(txf) /\ wireSeen' = Append(wireSeen, Head(txf))
  /\ rxf' = IF FifoRoom(rxf) > 0 THEN Append(rxf, Head(txf)) ELSE rxf
  /\ shifting' = [shifting EXCEPT !.left = @ - 1]
  /\ UNCHANGED <<selected, xfer, segRun, readBack, stalls>>

SpiNext ==
  \/ BeginTransfer \/ RefuseSegment \/ BeginSegment
  \/ DrainRx \/ FillTx \/ SegmentDone \/ CheckAgain \/ SegmentTimesOut \/ ShiftByte

SpiSpec == SpiInit /\ [][SpiNext]_spiVars
-----------------------------------------------------------------------------
(* A segment that succeeds returns the device's answers to its own bytes, all  *)
(* of them in order, whatever an abandoned one left in the FIFOs and whatever  *)
(* the receive FIFO lost.                                                      *)
SpiReadIsOwn == \A k \in DOMAIN readBack.got : readBack.got[k] = [t |-> readBack.t, s |-> readBack.s, i |-> k]

(* The device sees, between being selected and let go, the bytes of one        *)
(* transfer in their order and no others.                                      *)
WireIsTransfer ==
  /\ \A k \in DOMAIN wireSeen : wireSeen[k].t = wireSeen[1].t /\ (k > 1 =>
        \/ wireSeen[k].s = wireSeen[k - 1].s /\ wireSeen[k].i = wireSeen[k - 1].i + 1
        \/ wireSeen[k].s = wireSeen[k - 1].s + 1 /\ wireSeen[k].i = 1)
  /\ wireSeen # <<>> => wireSeen[1].i = 1 /\ wireSeen[1].s = 1 /\ wireSeen[1].t = xfer.n
  /\ selected <=> SpiBusy

------------------------------------------------------------------------------
(* The polled I2C controller (i2c/apple-i2c): a transfer pushes commands into   *)
(* the transmit FIFO and polls the status register; what a read brings comes   *)
(* out of the receive FIFO.  The controller may take longer than the driver     *)
(* waits, and the device may refuse its address.                                *)

CONSTANTS
  I2cShapes,      \* transfers tried: sequences of messages
  MaxI2cTransfers,
  MaxI2cTimeouts  \* waits that run out

(* The last message of a transfer carries STOP, and what every driver of a      *)
(* device behind this bus sends reads with its last message, if at all.         *)
I2cMessages == [read : BOOLEAN, n : Nat, stop : BOOLEAN]
ASSUME I2cAssumption ==
  \A s \in I2cShapes : /\ s \in Seq(I2cMessages) /\ s # <<>> /\ s[Len(s)].stop
                       /\ \A i \in 1..Len(s) - 1 : ~s[i].read

VARIABLES
  mtx, mrx,   \* the FIFOs: commands, and bytes of a read
  smsta,      \* error flags latched in REG_SMSTA
  i2cMsgs,    \* the transfer: its number, its messages left and how many went before
  i2cAt,      \* where the driver is in it
  i2cGot,     \* bytes of the current read
  i2cOut,     \* history: the transfers that succeeded with what they read
  i2cDevice,  \* history: what the device took: addresses acknowledged, per transfer and message
  i2cWaits    \* waits that ran out, and whether a read was given up

i2cVars == <<mtx, mrx, smsta, i2cMsgs, i2cAt, i2cGot, i2cOut, i2cDevice, i2cWaits>>

I2cInit ==
  /\ mtx = <<>> /\ mrx = <<>> /\ smsta = {}
  /\ i2cMsgs = [t |-> 0, left |-> <<>>, k |-> 0] /\ i2cAt = "rest" /\ i2cGot = <<>>
  /\ i2cOut = <<>> /\ i2cDevice = {} /\ i2cWaits = [n |-> 0, lateRead |-> FALSE]

Message1 == Head(i2cMsgs.left)
-----------------------------------------------------------------------------
(* transfer: the flags are cleared, and a bus that stays busy is reset.        *)
BeginI2c ==
  /\ i2cAt = "rest" /\ i2cMsgs.t < MaxI2cTransfers
  /\ \E shape \in I2cShapes : i2cMsgs' = [t |-> i2cMsgs.t + 1, left |-> shape, k |-> 1]
  /\ smsta' = {} /\ i2cAt' = "idle" /\ i2cGot' = <<>>
  /\ UNCHANGED <<mtx, mrx, i2cOut, i2cDevice, i2cWaits>>
XferInProgress == mtx # <<>>
ResetController == mtx' = <<>> /\ mrx' = <<>> /\ smsta' = {}
EnsureBusIdle ==
  /\ i2cAt = "idle" /\ i2cAt' = "send"
  /\ \/ ~XferInProgress /\ "jam" \notin smsta /\ UNCHANGED <<mtx, mrx, smsta, i2cWaits>>
     \/ /\ XferInProgress \/ "jam" \in smsta
        /\ i2cWaits.n < MaxI2cTimeouts /\ i2cWaits' = [i2cWaits EXCEPT !.n = @ + 1] /\ ResetController
  /\ UNCHANGED <<i2cMsgs, i2cGot, i2cOut, i2cDevice>>

(* transfer_write and transfer_read: a write without STOP is not waited for. *)
I2cCommand(m) == [read |-> m.read, n |-> m.n, t |-> i2cMsgs.t, k |-> i2cMsgs.k]
(* Mutant: the flags are cleared for every message. *)
ClearAndPush(m) == mtx' = Append(mtx, I2cCommand(m)) /\ smsta' = {}
Push(m) == mtx' = Append(mtx, I2cCommand(m)) /\ UNCHANGED smsta
NextMessage == i2cMsgs' = [i2cMsgs EXCEPT !.left = Tail(@), !.k = @ + 1] /\ i2cAt' = "send"
SendMessage ==
  /\ i2cAt = "send" /\ i2cMsgs.left # <<>>
  /\ Push(Message1)
  /\ IF Message1.read \/ Message1.stop THEN i2cAt' = "poll" /\ UNCHANGED i2cMsgs ELSE NextMessage
  /\ UNCHANGED <<mrx, i2cGot, i2cOut, i2cDevice, i2cWaits>>

(* What fails leaves the FIFOs as they are, unless the controller is reset. *)
LeavesRead == mrx # <<>> \/ \E i \in DOMAIN mtx : mtx[i].read
I2cFails(reset, timeout) ==
  /\ i2cAt' = "rest" /\ UNCHANGED <<i2cMsgs, i2cGot, i2cOut, i2cDevice>>
  /\ IF reset THEN ResetController ELSE UNCHANGED <<mtx, mrx, smsta>>
  /\ i2cWaits' = [n |-> IF timeout THEN i2cWaits.n + 1 ELSE i2cWaits.n,
                  lateRead |-> i2cWaits.lateRead \/ (~reset /\ LeavesRead)]
PollFails == i2cAt = "poll" /\ smsta # {} /\ I2cFails("jam" \in smsta, FALSE)
PollDone ==
  /\ i2cAt = "poll" /\ smsta = {} /\ ~XferInProgress
  /\ IF Message1.read THEN i2cAt' = "rx" /\ UNCHANGED i2cMsgs ELSE NextMessage
  /\ UNCHANGED <<mtx, mrx, smsta, i2cGot, i2cOut, i2cDevice, i2cWaits>>
PollTimesOut == i2cAt = "poll" /\ smsta = {} /\ XferInProgress /\ i2cWaits.n < MaxI2cTimeouts /\ I2cFails(FALSE, TRUE)

(* Mutant: the last byte is left in the FIFO. *)
AllButOne(n) == n - 1
ToRead(n) == n
WaitRx ==
  /\ i2cAt = "rx" /\ UNCHANGED <<mtx, smsta, i2cDevice, i2cWaits, i2cOut>>
  /\ IF Len(i2cGot) = ToRead(Message1.n) THEN NextMessage /\ UNCHANGED <<mrx, i2cGot>>
     ELSE /\ mrx # <<>> /\ mrx' = Tail(mrx) /\ i2cGot' = Append(i2cGot, Head(mrx))
          /\ UNCHANGED <<i2cMsgs, i2cAt>>
RxFails ==
  /\ i2cAt = "rx" /\ mrx = <<>> /\ Len(i2cGot) < Message1.n
  /\ smsta # {} \/ i2cWaits.n < MaxI2cTimeouts
  /\ I2cFails(FALSE, smsta = {})
EndI2c ==
  /\ i2cAt = "send" /\ i2cMsgs.left = <<>>
  /\ IF smsta # {} THEN I2cFails(FALSE, FALSE)
     ELSE /\ i2cOut' = Append(i2cOut, [t |-> i2cMsgs.t, k |-> i2cMsgs.k - 1, got |-> i2cGot])
          /\ i2cAt' = "rest" /\ UNCHANGED <<mtx, mrx, smsta, i2cMsgs, i2cGot, i2cDevice, i2cWaits>>

(* The controller: the next command is acknowledged, refused, or jams the bus; *)
(* what follows a refused one may be dropped or go on.                         *)
I2cAcked ==
  /\ XferInProgress /\ mtx' = Tail(mtx)
  /\ i2cDevice' = i2cDevice \cup {<<Head(mtx).t, Head(mtx).k>>}
  /\ mrx' = IF Head(mtx).read THEN mrx \o [i \in 1..Head(mtx).n |-> <<Head(mtx).t, Head(mtx).k, i>>] ELSE mrx
  /\ UNCHANGED <<smsta, i2cMsgs, i2cAt, i2cGot, i2cOut, i2cWaits>>
I2cRefused ==
  /\ XferInProgress
  /\ \/ mtx' \in {Tail(mtx), <<>>} /\ smsta' = smsta \cup {"nack"}
     \/ mtx' = <<>> /\ smsta' = smsta \cup {"jam"}
  /\ UNCHANGED <<mrx, i2cMsgs, i2cAt, i2cGot, i2cOut, i2cDevice, i2cWaits>>

I2cNext ==
  \/ BeginI2c \/ EnsureBusIdle \/ SendMessage \/ PollFails \/ PollDone \/ PollTimesOut
  \/ WaitRx \/ RxFails \/ EndI2c \/ I2cAcked \/ I2cRefused

I2cSpec == I2cInit /\ [][I2cNext]_i2cVars
-----------------------------------------------------------------------------
(* A transfer that succeeds had every message acknowledged by the device, the  *)
(* writes that are not waited for included.                                    *)
OkIsAcked == \A i \in DOMAIN i2cOut : \A k \in 1..i2cOut[i].k : <<i2cOut[i].t, k>> \in i2cDevice

(* The bytes a transfer returns are those its own read asked for, all of them  *)
(* in order, as long as no failed transfer left a read to the controller.      *)
I2cReadIsOwn == ~i2cWaits.lateRead => \A i \in DOMAIN i2cOut :
  \A j \in DOMAIN i2cOut[i].got : i2cOut[i].got[j] = <<i2cOut[i].t, i2cOut[i].k, j>>
===============================================================================
