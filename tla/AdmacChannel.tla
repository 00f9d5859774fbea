------------------------------ MODULE AdmacChannel ------------------------------
(* The audio DMA controller (dma/apple-admac): channels with a descriptor and  *)
(* a report ring each, blocks of on-chip memory shared between them, and two   *)
(* readers of the reports: the interrupt handler and whoever asks for the      *)
(* completed periods.  The owner of a channel counts what it queued.           *)
EXTENDS Naturals, FiniteSets, FiniteSetsExt

CONSTANTS
  AdmacChannels,  \* channels of one direction
  Players,        \* those whose owners queue periods
  SramBlocks,     \* blocks of on-chip memory of that direction
  RingRoom,       \* periods an owner has in flight at most
  PeriodLen, Periods  \* of the transfer whose position is asked for

ASSUME AdmacAssumption ==
  /\ AdmacChannels # {} /\ SramBlocks \subseteq Nat \ {0} /\ RingRoom \in Nat
  /\ PeriodLen \in Nat \ {0} /\ Periods \in Nat \ {0}

VARIABLES
  chan,   \* per channel: what the driver and the hardware keep
  irq,    \* the interrupt handler: channel and reports it claimed and not counted
  taker,  \* per channel: a call of take_completed_periods, the count it swapped out
  pos     \* the position of a running transfer being read

admacVars == <<chan, irq, taker, pos>>

Idle == [at |-> "idle", n |-> 0]
Fresh == [inUse |-> FALSE, block |-> 0, transfer |-> FALSE, running |-> FALSE, completed |-> 0, error |-> FALSE,
          on |-> FALSE, mask |-> {}, status |-> {}, ringErr |-> FALSE, descs |-> 0, reports |-> 0,
          inFlight |-> 0, leaving |-> "no", torn |-> FALSE]
Sample0 == [at |-> "none", hw |-> 0, reclaimed |-> 0, moved |-> 0, ring1 |-> 0, res1 |-> 0, ring2 |-> 0, found |-> 0]

AdmacInit ==
  /\ chan = [c \in AdmacChannels |-> Fresh] /\ taker = [c \in AdmacChannels |-> Idle]
  /\ irq = [at |-> "idle", c |-> CHOOSE c \in AdmacChannels : TRUE, n |-> 0]
  /\ pos = Sample0

Step(c, new) == pos = Sample0 /\ chan' = [chan EXCEPT ![c] = new] /\ UNCHANGED pos
Free(c) == taker[c] = Idle /\ chan[c].leaving = "no"
Held == {chan[c].block : c \in AdmacChannels} \ {0}

(* stop_channel, then reset_rings. *)
Quiet(s) == [s EXCEPT !.on = FALSE, !.mask = {}, !.descs = 0, !.reports = 0]
(* Mutant: the rings keep their descriptors. *)
Paused(s) == [s EXCEPT !.on = FALSE, !.mask = {}]
(* A stop that comes between the handler's two steps leaves its count behind. *)
Torn(c) == irq.at = "count" /\ irq.c = c

(* Mutant: every channel gets the first block. *)
RequestFirst(c) ==
  /\ Free(c) /\ ~chan[c].inUse
  /\ Step(c, [chan[c] EXCEPT !.inUse = TRUE, !.block = Min(SramBlocks)])
  /\ UNCHANGED <<irq, taker>>
(* request_channel and alloc_sram_carveout; without a block nothing is kept. *)
RequestChannel(c) ==
  /\ Free(c) /\ ~chan[c].inUse /\ SramBlocks \ Held # {}
  /\ Step(c, [chan[c] EXCEPT !.inUse = TRUE, !.block = Min(SramBlocks \ Held)])
  /\ UNCHANGED <<irq, taker>>

(* prepare_cyclic: quiet, the old mapping goes, the new one is made.  A        *)
(* configuration that is refused leaves the channel without a transfer.        *)
PrepareCyclic(c, ok) ==
  /\ c \in Players /\ Free(c) /\ chan[c].inUse /\ ~chan[c].running
  /\ LET s == Quiet(chan[c])
     IN  Step(c, IF ok THEN [s EXCEPT !.transfer = TRUE, !.completed = 0, !.error = FALSE, !.inFlight = 0,
                                      !.torn = Torn(c)]
                 ELSE [s EXCEPT !.transfer = FALSE, !.inFlight = 0])
  /\ UNCHANGED <<irq, taker>>

(* queue_cyclic_period, and the owner's count. *)
QueuePeriod(c) ==
  /\ Free(c) /\ chan[c].inUse /\ chan[c].transfer
  /\ ~chan[c].error /\ chan[c].descs < 4 /\ chan[c].inFlight < RingRoom
  /\ Step(c, [chan[c] EXCEPT !.descs = @ + 1, !.inFlight = @ + 1])
  /\ UNCHANGED <<irq, taker>>

Runnable(c) == Free(c) /\ chan[c].inUse /\ chan[c].transfer /\ ~chan[c].error /\ chan[c].descs > 0
StartChannel(c) ==
  /\ Runnable(c) /\ ~chan[c].running /\ ~chan[c].on /\ chan[c].inFlight = chan[c].descs
  /\ Step(c, [chan[c] EXCEPT !.completed = 0, !.running = TRUE, !.on = TRUE,
                             !.mask = {"done", "err"}, !.status = {}])
  /\ UNCHANGED <<irq, taker>>
PauseChannel(c) ==
  /\ Free(c) /\ chan[c].running
  /\ Step(c, [Paused(chan[c]) EXCEPT !.running = FALSE])
  /\ UNCHANGED <<irq, taker>>
ResumeChannel(c) ==
  /\ Runnable(c) /\ ~chan[c].running
  /\ Step(c, [chan[c] EXCEPT !.running = TRUE, !.on = TRUE, !.mask = {"done", "err"}, !.status = {}])
  /\ UNCHANGED <<irq, taker>>

(* stop, and the owner forgets what it had in flight. *)
StopChannel(c) ==
  /\ Free(c) /\ chan[c].inUse /\ chan[c].transfer
  /\ Step(c, [Quiet(chan[c]) EXCEPT !.running = FALSE, !.completed = 0, !.error = FALSE, !.inFlight = 0,
                                    !.torn = Torn(c)])
  /\ UNCHANGED <<irq, taker>>

(* Drop: the channel is quiet before its buffer is unmapped, and everything is *)
(* given back before the channel is offered again.                             *)
(* Mutant: the mapping goes first. *)
DropUnmapsFirst(c) ==
  /\ Free(c) /\ chan[c].inUse
  /\ Step(c, [chan[c] EXCEPT !.transfer = FALSE, !.leaving = "quiet"])
  /\ UNCHANGED <<irq, taker>>
DropBegins(c) ==
  /\ Free(c) /\ chan[c].inUse
  /\ Step(c, [Quiet(chan[c]) EXCEPT !.leaving = "quiet", !.inFlight = 0, !.torn = Torn(c)])
  /\ UNCHANGED <<irq, taker>>
DropUnmaps(c) ==
  /\ chan[c].leaving = "quiet"
  /\ Step(c, [chan[c] EXCEPT !.transfer = FALSE, !.running = FALSE, !.completed = 0, !.error = FALSE,
                             !.torn = @ \/ Torn(c), !.leaving = "carveout"])
  /\ UNCHANGED <<irq, taker>>
DropReleases(c) ==
  /\ chan[c].leaving = "carveout"
  /\ Step(c, [chan[c] EXCEPT !.block = 0, !.inUse = FALSE, !.leaving = "no"])
  /\ UNCHANGED <<irq, taker>>
-----------------------------------------------------------------------------
(* The hardware plays a period and reports it, or fails. *)
HwPlays(c) ==
  /\ chan[c].on /\ chan[c].descs > 0 /\ chan[c].reports < 4
  /\ Step(c, [chan[c] EXCEPT !.descs = @ - 1, !.reports = @ + 1, !.status = @ \cup {"done"}])
  /\ UNCHANGED <<irq, taker>>
HwFails(c, ring) ==
  /\ chan[c].on /\ ~chan[c].error /\ "err" \notin chan[c].status
  /\ Step(c, [chan[c] EXCEPT !.status = @ \cup {"err"}, !.ringErr = ring])
  /\ UNCHANGED <<irq, taker>>

(* handle_status_err: an error of a ring is cleared there; any other is masked *)
(* so that it does not raise the line for ever.                                *)
AfterError(s) ==
  IF "err" \notin s.status THEN s
  ELSE IF s.ringErr THEN [s EXCEPT !.error = TRUE, !.ringErr = FALSE, !.status = @ \ {"err"}]
  ELSE [s EXCEPT !.error = TRUE, !.mask = @ \ {"err"}]
Acked(s) == [s EXCEPT !.status = @ \ {"done"}]
(* Mutant: the reports are counted and left in the ring. *)
PeekReports(s) == s
DrainReports(s) == [s EXCEPT !.reports = 0]

IrqClaims(c) ==
  /\ irq.at = "idle" /\ chan[c].status \cap chan[c].mask # {}
  /\ LET s == AfterError(chan[c])
         done == "done" \in s.status
     IN  /\ Step(c, IF done THEN DrainReports(Acked(s)) ELSE s)
         /\ irq' = IF done /\ s.reports > 0 THEN [at |-> "count", c |-> c, n |-> s.reports] ELSE irq
  /\ UNCHANGED taker
IrqCounts ==
  /\ irq.at = "count"
  /\ Step(irq.c, [chan[irq.c] EXCEPT !.completed = @ + irq.n])
  /\ irq' = [irq EXCEPT !.at = "idle", !.n = 0]
  /\ UNCHANGED taker

(* take_completed_periods: what the interrupt counted, then the ring itself.   *)
TakeSwaps(c) ==
  /\ Free(c) /\ chan[c].inUse /\ chan[c].transfer
  /\ Step(c, [chan[c] EXCEPT !.completed = 0])
  /\ taker' = [taker EXCEPT ![c] = [at |-> "poll", n |-> chan[c].completed]]
  /\ UNCHANGED irq
TakePolls(c) ==
  /\ taker[c].at = "poll"
  /\ LET s == AfterError(chan[c])
         n == Min({taker[c].n + s.reports, s.inFlight})
     IN  Step(c, [DrainReports(Acked(s)) EXCEPT !.inFlight = @ - n])
  /\ taker' = [taker EXCEPT ![c] = Idle]
  /\ UNCHANGED irq
-----------------------------------------------------------------------------
(* The position of a transfer (looked at by itself), from two readings of the report ring and two of *)
(* the residue.  The hardware plays on between them, less than a period.       *)
Done == pos.hw \div PeriodLen
Slots == [write |-> Done % 4, read |-> pos.reclaimed % 4, full |-> Done - pos.reclaimed = 4]
(* ring_occupied_slots *)
Occupied(r) == IF r.write # r.read THEN (r.write + 4 - r.read) % 4 ELSE IF r.full THEN 4 ELSE 0
HwResidue == PeriodLen - (pos.hw % PeriodLen)

(* Mutant: the last reading of the ring, whatever happened meanwhile. *)
LastReports(res2) == pos.ring2
Reports(res2) == IF res2 > pos.res1 THEN pos.ring1 + 1 ELSE pos.ring2
(* read_residue_locked *)
Found(res2) ==
  LET at == ((pos.reclaimed * PeriodLen) % (2 * Periods * PeriodLen)) + PeriodLen * (Reports(res2) + 1) - res2
  IN  Periods * PeriodLen - (at % (Periods * PeriodLen))

Sample(new) == pos' = new /\ UNCHANGED <<chan, irq, taker>>
SampleBegins(hw, reclaimed) ==
  /\ pos.at \in {"none", "found"} /\ \A c \in AdmacChannels : chan[c] = Fresh
  /\ reclaimed <= hw \div PeriodLen /\ hw \div PeriodLen - reclaimed < 4
  /\ Sample([Sample0 EXCEPT !.at = "ring1", !.hw = hw, !.reclaimed = reclaimed])
SampleAdvances ==
  /\ pos.at \notin {"none", "found"} /\ pos.moved < PeriodLen - 1
  /\ Sample([pos EXCEPT !.hw = @ + 1, !.moved = @ + 1])
ReadRing1 == pos.at = "ring1" /\ Sample([pos EXCEPT !.at = "res1", !.ring1 = Occupied(Slots)])
ReadResidue1 == pos.at = "res1" /\ Sample([pos EXCEPT !.at = "ring2", !.res1 = HwResidue])
ReadRing2 == pos.at = "ring2" /\ Sample([pos EXCEPT !.at = "res2", !.ring2 = Occupied(Slots)])
ReadResidue2 == pos.at = "res2" /\ Sample([pos EXCEPT !.at = "found", !.found = Found(HwResidue)])

AdmacNext ==
  \/ \E c \in AdmacChannels :
       \/ RequestChannel(c) \/ \E ok \in BOOLEAN : PrepareCyclic(c, ok)
       \/ QueuePeriod(c) \/ StartChannel(c) \/ PauseChannel(c) \/ ResumeChannel(c) \/ StopChannel(c)
       \/ DropBegins(c) \/ DropUnmaps(c) \/ DropReleases(c)
       \/ HwPlays(c) \/ \E ring \in BOOLEAN : HwFails(c, ring)
       \/ IrqClaims(c) \/ TakeSwaps(c) \/ TakePolls(c)
  \/ IrqCounts
  \/ \E hw \in 0..(5 * PeriodLen), n \in 0..5 : SampleBegins(hw, n)
  \/ SampleAdvances \/ ReadRing1 \/ ReadResidue1 \/ ReadRing2 \/ ReadResidue2

AdmacSpec == AdmacInit /\ [][AdmacNext]_admacVars
-----------------------------------------------------------------------------
(* The interrupt and the owner read the same reports, in any order: every      *)
(* period queued is played, reported, claimed or counted exactly once.  Not so *)
(* once a stop fell between the handler's claim and its count.                 *)
CountedOnce == \A c \in AdmacChannels :
  chan[c].transfer /\ chan[c].leaving = "no" /\ ~chan[c].torn =>
  chan[c].inFlight = chan[c].descs + chan[c].reports + chan[c].completed + taker[c].n
                       + (IF irq.at = "count" /\ irq.c = c THEN irq.n ELSE 0)

(* A channel whose hardware still has descriptors has its buffer mapped, on    *)
(* every path of stop, prepare and drop.                                       *)
PlaysMappedBuffer == \A c \in AdmacChannels : chan[c].on /\ chan[c].descs > 0 => chan[c].transfer

(* Two channels never use one block of on-chip memory. *)
BlocksDisjoint == \A c, d \in AdmacChannels : chan[c].block = chan[d].block /\ chan[c].block # 0 => c = d

(* Whatever was completed between the four readings, the residue is that of    *)
(* the position at the last one.                                               *)
ResidueIsCurrent == pos.at = "found" =>
  (Periods * PeriodLen - pos.found) % (Periods * PeriodLen) = pos.hw % (Periods * PeriodLen)
=============================================================================
