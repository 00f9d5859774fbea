------------------------------ MODULE AvdDecode -------------------------------
(* Sessions, the decode in flight and its recovery in the AVD backend,        *)
(* drivers/video/apple-avd/src/lib.rs.                                        *)
(*                                                                            *)
(* Every operation of the backend runs under process_lock, so one thread      *)
(* stands for all callers.  Beside it run the mailbox interrupt, the watchdog *)
(* timer, and the decoder with its firmware.  The IRQ-safe state lock is held *)
(* for one action at a time.  Faults (a failed reset, boot, output or         *)
(* mapping, a decode error) are bounded, as are submits and sessions opened.  *)
EXTENDS Naturals, Sequences

CONSTANTS
  Streams,      \* the session slots, AVD_MAX_SESSIONS of them
  QueueLen,     \* AVD_COMPLETED_FRAME_QUEUE_LEN
  MaxOwners, MaxSubmits, MaxFaults   \* bounds: sessions opened, decodes, faults

ASSUME AvdAssumption == /\ QueueLen \in Nat \ {0} /\ MaxOwners \in Nat
                        /\ MaxSubmits \in Nat /\ MaxFaults \in Nat

VARIABLES
  sess,         \* per slot: active, quarantined, its owner, and the memory mapped for it
  inflight,     \* AvdBackendState.pending, in a set
  irqDone,      \* irq_completion is set
  completed,    \* decoded frames nobody dequeued yet
  recovery,     \* recovery_reason is set
  gen, timers,  \* watchdog_generation, and generations a timer is armed for
  expired,      \* timer callbacks past their first look at the generation
  masked,       \* the mailbox interrupt is disabled in the decoder
  fw,           \* AvdFirmwareState
  job,          \* external: what the decoder works on, in a set
  mbox,         \* external: messages from the firmware, oldest first
  irqPc,        \* claim_interrupt: idle, or about to service or discard
  apc, aop,     \* where the thread with process_lock is, and what it does
  drained,      \* the decode drain_irq_completion took, in a set
  owners,       \* the stream each session's owner holds, 0 when closed
  ids, faults   \* decodes and faults so far

avdVars == <<sess, inflight, irqDone, completed, recovery, gen, timers, expired, masked, fw,
             job, mbox, irqPc, apc, aop, drained, owners, ids, faults>>
stateVars == <<sess, inflight, irqDone, completed, recovery>>
hwVars    == <<masked, fw, job, mbox>>
wdogVars  == <<gen, timers, expired>>
countVars == <<owners, ids, faults>>

FreshSession == [active |-> FALSE, quarantined |-> FALSE, owner |-> 0, work |-> 0, front |-> FALSE]

AvdInit ==
  /\ sess = [s \in Streams |-> FreshSession]
  /\ inflight = {} /\ irqDone = FALSE /\ completed = <<>> /\ recovery = FALSE
  /\ gen = 0 /\ timers = {} /\ expired = {}
  /\ masked = TRUE /\ fw = "missing" /\ job = {} /\ mbox = <<>>
  /\ irqPc = "idle" /\ apc = "idle" /\ aop = [kind |-> "none", s |-> 0] /\ drained = {}
  /\ owners = <<>> /\ ids = 0 /\ faults = 0

Fault == faults < MaxFaults /\ faults' = faults + 1
Usable(s) == sess[s].active /\ ~sess[s].quarantined
(* AvdCompletedQueue::retain: frames are moved up over those that go. *)
OfOthers(s, q) ==
  LET kept[i \in 0 .. Len(q)] == IF i = 0 THEN <<>>
                                 ELSE IF q[i].stream # s THEN Append(kept[i-1], q[i]) ELSE kept[i-1]
  IN  kept[Len(q)]
PendingOf(s) == \E d \in inflight : d.stream = s

(* defer_recovery *)
DeferRecovery == inflight' = {} /\ irqDone' = FALSE /\ recovery' = TRUE

(* cancel_watchdog: the timer may be past cancelling. *)
CancelWatchdog == gen' = gen + 1 /\ timers' \in {{}, timers} /\ UNCHANGED expired

------------------------------------------------------------------------------
(* The thread: entry of an operation, and recovery and drain before it.       *)
Return == apc' = "idle" /\ UNCHANGED <<aop, drained>>
Goto(l) == apc' = l /\ UNCHANGED <<aop, drained>>

BeginOp(kind, s) ==
  /\ apc = "idle"
  /\ kind = "create" => Len(owners) < MaxOwners \/ \A t \in Streams : sess[t].active \/ sess[t].quarantined
  /\ kind = "submit" => ids < MaxSubmits
  /\ aop' = [kind |-> kind, s |-> s]
  /\ apc' = IF kind = "destroy" THEN "relinquish" ELSE "recover"
  /\ UNCHANGED <<stateVars, wdogVars, hwVars, irqPc, drained, countVars>>

(* destroy_session's first half: give the session up under the state lock.    *)
Relinquish ==
  /\ apc = "relinquish"
  /\ LET s == aop.s
         had == sess[s].active /\ PendingOf(s)
     IN  /\ masked' = (masked \/ had)
         /\ IF ~sess[s].active
            THEN UNCHANGED stateVars /\ (IF recovery THEN Goto("recover") ELSE Return)
            ELSE /\ IF had THEN DeferRecovery ELSE UNCHANGED <<inflight, irqDone, recovery>>
                 /\ sess' = [sess EXCEPT ![s].active = FALSE, ![s].quarantined = TRUE]
                 /\ completed' = OfOthers(s, completed)
                 /\ Goto("recover")
         /\ owners' = [i \in DOMAIN owners |-> IF owners[i] = s THEN 0 ELSE owners[i]]
  /\ UNCHANGED <<wdogVars, fw, job, mbox, irqPc, ids, faults>>

TakeReason ==
  /\ apc = "recover"
  /\ recovery' = FALSE
  /\ Goto(IF recovery THEN "reset" ELSE IF aop.kind = "destroy" THEN "retire" ELSE "drain")
  /\ UNCHANGED <<sess, inflight, irqDone, completed, wdogVars, hwVars, irqPc, countVars>>

(* reset_hardware and boot_firmware: the decoder and the mailbox are cleared, *)
(* the firmware runs and the mailbox interrupt is on.                         *)
Rebooted == job' = {} /\ mbox' = <<>> /\ masked' = FALSE /\ fw' = "running"
BootFails == job' = {} /\ mbox' = <<>> /\ masked' = FALSE /\ fw' = "faulted" /\ Fault
ResetFails(m, f) == masked' = m /\ fw' = f /\ UNCHANGED <<job, mbox>> /\ Fault

RecoverFirmware ==
  /\ apc = "reset" /\ CancelWatchdog
  /\ Rebooted /\ Goto("quarantine")
  /\ UNCHANGED <<stateVars, irqPc, countVars>>

RecoverFails ==
  /\ apc = "reset" /\ CancelWatchdog
  /\ BootFails \/ ResetFails(TRUE, "missing")
  /\ recovery' = TRUE
  /\ IF aop.kind = "destroy" THEN Goto("retireFailed") ELSE Return
  /\ UNCHANGED <<sess, inflight, irqDone, completed, irqPc, owners, ids>>

(* Mutant: quarantined sessions become free while their owner still has them. *)
ForgetSessions ==
  /\ apc = "quarantine"
  /\ sess' = [s \in Streams |-> FreshSession]
  /\ inflight' = {} /\ irqDone' = FALSE /\ completed' = <<>>
  /\ Goto(IF aop.kind = "destroy" THEN "retire" ELSE "drain")
  /\ UNCHANGED <<recovery, wdogVars, hwVars, irqPc, countVars>>

QuarantineSessions ==
  /\ apc = "quarantine"
  /\ sess' = [s \in Streams |-> IF sess[s].active
                                THEN [FreshSession EXCEPT !.active = TRUE, !.quarantined = TRUE,
                                                          !.owner = sess[s].owner]
                                ELSE FreshSession]
  /\ inflight' = {} /\ irqDone' = FALSE /\ completed' = <<>>
  /\ Goto(IF aop.kind = "destroy" THEN "retire" ELSE "drain")
  /\ UNCHANGED <<recovery, wdogVars, hwVars, irqPc, countVars>>

(* drain_irq_completion, in two holds of the state lock. *)
DrainNothing ==
  /\ apc = "drain" /\ ~irqDone
  /\ Goto("work")
  /\ UNCHANGED <<stateVars, wdogVars, hwVars, irqPc, countVars>>

DrainTake ==
  /\ apc = "drain" /\ irqDone
  /\ irqDone' = FALSE /\ inflight' = {} /\ drained' = inflight
  /\ apc' = "output" /\ CancelWatchdog
  /\ UNCHANGED <<sess, completed, recovery, hwVars, irqPc, aop, countVars>>

(* prepare_pending_decode_output fails, or the queue is full: the frame is    *)
(* lost and the caller, whose own frame it may not be, gets the error.        *)
OutputFails ==
  /\ apc = "output"
  /\ IF Len(completed) = QueueLen THEN UNCHANGED faults ELSE Fault
  /\ apc' = "idle" /\ drained' = {}
  /\ UNCHANGED <<stateVars, wdogVars, hwVars, irqPc, aop, owners, ids>>

(* Mutant: the newest frame is dequeued first. *)
CommitInFront ==
  /\ apc = "output" /\ Len(completed) < QueueLen
  /\ \E d \in drained : completed' = <<[stream |-> d.stream, owner |-> d.owner, id |-> d.id]>> \o completed
  /\ apc' = "work" /\ drained' = {}
  /\ UNCHANGED <<sess, inflight, irqDone, recovery, wdogVars, hwVars, irqPc, aop, countVars>>

CommitDecode ==
  /\ apc = "output" /\ Len(completed) < QueueLen
  /\ \E d \in drained : completed' = Append(completed, [stream |-> d.stream, owner |-> d.owner, id |-> d.id])
  /\ apc' = "work" /\ drained' = {}
  /\ UNCHANGED <<sess, inflight, irqDone, recovery, wdogVars, hwVars, irqPc, aop, countVars>>

------------------------------------------------------------------------------
(* The operations themselves. *)

(* Mutant: a session given up but not yet recovered is handed out again. *)
AllocateInactive ==
  /\ apc = "work" /\ aop.kind = "create"
  /\ \E s \in Streams :
       /\ ~sess[s].active
       /\ sess' = [sess EXCEPT ![s] = [FreshSession EXCEPT !.active = TRUE, !.owner = Len(owners) + 1]]
       /\ completed' = OfOthers(s, completed)
       /\ owners' = Append(owners, s)
  /\ Return
  /\ UNCHANGED <<inflight, irqDone, recovery, wdogVars, hwVars, irqPc, ids, faults>>

AllocateSession ==
  /\ apc = "work" /\ aop.kind = "create"
  /\ \E s \in Streams :
       /\ ~sess[s].active /\ ~sess[s].quarantined
       /\ \A t \in Streams : t < s => sess[t].active \/ sess[t].quarantined
       /\ sess' = [sess EXCEPT ![s] = [FreshSession EXCEPT !.active = TRUE, !.owner = Len(owners) + 1]]
       /\ completed' = OfOthers(s, completed)
       /\ owners' = Append(owners, s)
  /\ Return
  /\ UNCHANGED <<inflight, irqDone, recovery, wdogVars, hwVars, irqPc, ids, faults>>

NoSession ==
  /\ apc = "work" /\ aop.kind = "create"
  /\ \A s \in Streams : sess[s].active \/ sess[s].quarantined
  /\ Return /\ UNCHANGED <<stateVars, wdogVars, hwVars, irqPc, countVars>>

(* submit_h264_stateless resets the decoder and boots the firmware first, and *)
(* only then looks whether a decode is pending.                               *)
SubmitReset ==
  /\ apc = "work" /\ aop.kind = "submit"
  /\ \/ Rebooted /\ Goto("map") /\ UNCHANGED faults
     \/ (BootFails \/ ResetFails(masked, fw)) /\ Return
  /\ UNCHANGED <<stateVars, wdogVars, irqPc, owners, ids>>

(* prepare_h264_session_resources: map what the session lacks or whose shape  *)
(* changed.  The mapping may fail after some of it is replaced.               *)
SubmitMap ==
  /\ apc = "map" /\ inflight = {} /\ Usable(aop.s)
  /\ \E replace \in BOOLEAN :
       sess' = [sess EXCEPT ![aop.s].front = TRUE,
                            ![aop.s].work = IF replace \/ @ = 0 THEN ids + 1 ELSE @]
  /\ Goto("start")
  /\ UNCHANGED <<inflight, irqDone, completed, recovery, wdogVars, hwVars, irqPc, countVars>>

SubmitRejected ==
  /\ \/ apc \in {"map", "start"} /\ (inflight # {} \/ ~Usable(aop.s)) /\ UNCHANGED faults
     \/ apc \in {"map", "start"} /\ Fault
  /\ Return
  /\ UNCHANGED <<stateVars, wdogVars, hwVars, irqPc, owners, ids>>

(* Mutant: the watchdog is not armed. *)
SubmitUnarmed ==
  /\ apc = "start" /\ inflight = {} /\ Usable(aop.s)
  /\ LET d == [stream |-> aop.s, owner |-> sess[aop.s].owner, id |-> ids + 1, phase |-> "video", gen |-> gen + 1]
     IN  /\ inflight' = {d}
         /\ job' = {[id |-> d.id, work |-> sess[d.stream].work, stage |-> "video"]}
  /\ gen' = gen + 1 /\ UNCHANGED <<timers, expired>>
  /\ ids' = ids + 1 /\ Return
  /\ UNCHANGED <<sess, irqDone, completed, recovery, masked, fw, mbox, irqPc, owners, faults>>

(* submit_h264_prepared_locked: arm the watchdog, publish the decode, start.  *)
SubmitStart ==
  /\ apc = "start" /\ inflight = {} /\ Usable(aop.s)
  /\ LET d == [stream |-> aop.s, owner |-> sess[aop.s].owner, id |-> ids + 1, phase |-> "video", gen |-> gen + 1]
     IN  /\ inflight' = {d}
         /\ job' = {[id |-> d.id, work |-> sess[d.stream].work, stage |-> "video"]}
  /\ gen' = gen + 1 /\ timers' \in {{gen + 1}, timers \cup {gen + 1}} /\ UNCHANGED expired
  /\ ids' = ids + 1 /\ Return
  /\ UNCHANGED <<sess, irqDone, completed, recovery, masked, fw, mbox, irqPc, owners, faults>>

(* dequeue_frame: the stream's oldest frame. *)
Dequeue ==
  /\ apc = "work" /\ aop.kind = "dequeue"
  /\ completed' = IF Usable(aop.s) /\ \E i \in DOMAIN completed : completed[i].stream = aop.s
                  THEN LET i == CHOOSE i \in DOMAIN completed :
                                  /\ completed[i].stream = aop.s
                                  /\ \A j \in 1..(i-1) : completed[j].stream # aop.s
                       IN  SubSeq(completed, 1, i - 1) \o SubSeq(completed, i + 1, Len(completed))
                  ELSE completed
  /\ Return
  /\ UNCHANGED <<sess, inflight, irqDone, recovery, wdogVars, hwVars, irqPc, countVars>>

(* Mutant: the session of an owner that is gone stays quarantined. *)
RetireKeepsSession ==
  /\ apc = "retire"
  /\ completed' = OfOthers(aop.s, completed)
  /\ IF \A s \in Streams : ~sess[s].active
     THEN masked' = TRUE /\ fw' = "missing" ELSE UNCHANGED <<masked, fw>>
  /\ Return
  /\ UNCHANGED <<sess, inflight, irqDone, recovery, wdogVars, job, mbox, irqPc, countVars>>

(* destroy_session's second half.  With the recovery done, or none needed,    *)
(* everything goes, and the firmware with the last session.                   *)
RetireSession ==
  /\ apc = "retire"
  /\ sess' = IF sess[aop.s].active THEN sess ELSE [sess EXCEPT ![aop.s] = FreshSession]
  /\ completed' = OfOthers(aop.s, completed)
  /\ IF \A s \in Streams : ~sess[s].active
     THEN masked' = TRUE /\ fw' = "missing" ELSE UNCHANGED <<masked, fw>>
  /\ Return
  /\ UNCHANGED <<inflight, irqDone, recovery, wdogVars, job, mbox, irqPc, countVars>>

(* Mutant: everything goes although the decoder was not stopped. *)
RetireAll ==
  /\ apc = "retireFailed"
  /\ sess' = [sess EXCEPT ![aop.s] = FreshSession]
  /\ Return
  /\ UNCHANGED <<inflight, irqDone, completed, recovery, wdogVars, hwVars, irqPc, countVars>>

(* Mutant: the frontend's buffers stay mapped after it is gone. *)
RetireNothing ==
  /\ apc = "retireFailed" /\ Return
  /\ UNCHANGED <<stateVars, wdogVars, hwVars, irqPc, countVars>>

(* With the recovery failed only the frontend's buffers go. *)
RetireMappings ==
  /\ apc = "retireFailed"
  /\ sess' = [sess EXCEPT ![aop.s].front = FALSE]
  /\ Return
  /\ UNCHANGED <<inflight, irqDone, completed, recovery, wdogVars, hwVars, irqPc, countVars>>

------------------------------------------------------------------------------
(* The mailbox interrupt: claim_interrupt looks for a pending decode, lets    *)
(* the lock go, and takes it again.                                           *)
IrqClaim ==
  /\ irqPc = "idle" /\ mbox # <<>> /\ ~masked
  /\ irqPc' = IF inflight # {} THEN "service" ELSE "discard"
  /\ UNCHANGED <<stateVars, wdogVars, hwVars, apc, aop, drained, countVars>>

IrqDiscard ==
  /\ irqPc = "discard"
  /\ mbox' = IF mbox = <<>> THEN mbox ELSE Tail(mbox)
  /\ irqPc' = "idle"
  /\ UNCHANGED <<stateVars, wdogVars, masked, fw, job, apc, aop, drained, countVars>>

(* An empty mailbox reads as zero, which decodes as an error. *)
Received == IF mbox = <<>> THEN "error" ELSE Head(mbox)

ServiceNothing ==
  /\ irqPc = "service" /\ inflight = {}
  /\ irqPc' = "idle"
  /\ UNCHANGED <<stateVars, wdogVars, hwVars, apc, aop, drained, countVars>>

ServiceVideoDone ==
  /\ irqPc = "service"
  /\ \E d \in inflight : /\ d.phase = "video" /\ Received = "video"
                         /\ inflight' = {[d EXCEPT !.phase = "post"]}
  /\ mbox' = Tail(mbox) /\ irqPc' = "idle"
  /\ UNCHANGED <<sess, irqDone, completed, recovery, wdogVars, masked, fw, job, apc, aop, drained, countVars>>

(* Mutant: a post-processor message ends the decode in either phase. *)
PostDoneAnyPhase ==
  /\ irqPc = "service"
  /\ inflight # {} /\ Received = "post" /\ ~irqDone
  /\ irqDone' = TRUE /\ gen' = gen + 1
  /\ mbox' = Tail(mbox) /\ irqPc' = "idle"
  /\ UNCHANGED <<sess, inflight, completed, recovery, timers, expired, masked, fw, job, apc, aop, drained, countVars>>

ServicePostDone ==
  /\ irqPc = "service"
  /\ \E d \in inflight : d.phase = "post" /\ Received = "post"
  /\ ~irqDone
  /\ irqDone' = TRUE /\ gen' = gen + 1
  /\ mbox' = Tail(mbox) /\ irqPc' = "idle"
  /\ UNCHANGED <<sess, inflight, completed, recovery, timers, expired, masked, fw, job, apc, aop, drained, countVars>>

(* Mutant: the interrupt is masked and nothing left for recovery. *)
FaultForgotten ==
  /\ irqPc = "service"
  /\ \E d \in inflight : Received = "error" \/ Received # d.phase
  /\ masked' = TRUE /\ gen' = gen + 1
  /\ mbox' = IF mbox = <<>> THEN mbox ELSE Tail(mbox)
  /\ irqPc' = "idle"
  /\ UNCHANGED <<sess, inflight, irqDone, recovery, completed, timers, expired, fw, job, apc, aop, drained, countVars>>

(* An error, a second completion, or a message out of its phase.              *)
ServiceFault ==
  /\ irqPc = "service"
  /\ \E d \in inflight : \/ Received = "error"
                         \/ Received # d.phase
                         \/ Received = "post" /\ irqDone
  /\ masked' = TRUE /\ DeferRecovery /\ gen' = gen + 1
  /\ mbox' = IF mbox = <<>> THEN mbox ELSE Tail(mbox)
  /\ irqPc' = "idle"
  /\ UNCHANGED <<sess, completed, timers, expired, fw, job, apc, aop, drained, countVars>>

(* The watchdog: on_timer_expired reads the generation, then the decoder's    *)
(* status, and looks again under the state lock.                              *)
TimerFires(g) ==
  /\ g \in timers
  /\ timers' = timers \ {g}
  /\ expired' = IF gen = g THEN expired \cup {g} ELSE expired
  /\ UNCHANGED <<stateVars, hwVars, gen, irqPc, apc, aop, drained, countVars>>

(* Mutant: no second look at the generation. *)
TimeoutUnchecked(g) ==
  /\ g \in expired
  /\ expired' = expired \ {g}
  /\ IF inflight # {} /\ ~irqDone
     THEN DeferRecovery /\ masked' = TRUE
     ELSE UNCHANGED <<inflight, irqDone, recovery, masked>>
  /\ UNCHANGED <<sess, completed, gen, timers, fw, job, mbox, irqPc, apc, aop, drained, countVars>>

TimerChecked(g) ==
  /\ g \in expired
  /\ expired' = expired \ {g}
  /\ IF gen = g /\ inflight # {} /\ ~irqDone
     THEN DeferRecovery /\ masked' = TRUE
     ELSE UNCHANGED <<inflight, irqDone, recovery, masked>>
  /\ UNCHANGED <<sess, completed, gen, timers, fw, job, mbox, irqPc, apc, aop, drained, countVars>>

(* External: the decoder finishes a stage, and the firmware's interrupt        *)
(* handler says so; the firmware tells of a failure, also with nothing to do.  *)
StageDone ==
  /\ \E j \in job : /\ mbox' = Append(mbox, j.stage)
                    /\ job' = IF j.stage = "video" THEN {[j EXCEPT !.stage = "post"]} ELSE {}
  /\ UNCHANGED <<stateVars, wdogVars, masked, fw, irqPc, apc, aop, drained, countVars>>

StageFails ==
  /\ fw = "running" /\ Fault
  /\ mbox' = Append(mbox, "error")
  /\ UNCHANGED <<stateVars, wdogVars, masked, fw, job, irqPc, apc, aop, drained, owners, ids>>

ThreadStep ==
  \/ Relinquish \/ TakeReason \/ RecoverFirmware \/ RecoverFails \/ QuarantineSessions
  \/ DrainNothing \/ DrainTake \/ OutputFails \/ CommitDecode
  \/ AllocateSession \/ NoSession \/ SubmitReset \/ SubmitMap \/ SubmitRejected \/ SubmitStart
  \/ Dequeue \/ RetireSession \/ RetireMappings
IrqStep == \/ IrqClaim \/ IrqDiscard \/ ServiceNothing
           \/ ServiceVideoDone \/ ServicePostDone \/ ServiceFault

AvdNext ==
  \/ \E kind \in {"create", "destroy", "submit", "dequeue"}, s \in Streams :
       (kind = "create" => \A t \in Streams : s <= t) /\ BeginOp(kind, s)
  \/ ThreadStep \/ IrqStep
  \/ \E g \in timers : TimerFires(g)
  \/ \E g \in expired : TimerChecked(g)
  \/ StageDone \/ StageFails

AvdSpec == AvdInit /\ [][AvdNext]_avdVars

(* A call that entered the backend runs on, interrupts are taken, and a timer *)
(* that is not cancelled expires.  Nothing is assumed of the decoder.         *)
AvdFairness == /\ WF_avdVars(ThreadStep) /\ WF_avdVars(IrqStep)
               /\ WF_avdVars(\E g \in timers : TimerFires(g))
               /\ WF_avdVars(\E g \in expired : TimerChecked(g))

------------------------------------------------------------------------------
(* The decoder never works in memory that was given back: a session's         *)
(* workspace outlives every decode started in it, through timeouts, failed    *)
(* resets and the close of the session.                                       *)
DecoderOwnsMemory == \A j \in job : \E s \in Streams : sess[s].work = j.work

(* Once a frontend has closed its session its pages are no longer mapped for  *)
(* the decoder, even when the firmware could not be reset: they go back to    *)
(* the system.                                                                *)
ClosedIsUnmapped == apc = "idle" => \A s \in Streams : sess[s].front => sess[s].active

(* A stream id never aliases another frontend's session: until it closes it,  *)
(* what the id names, what waits to be dequeued and what is decoded under it  *)
(* belong to the one who opened it.                                           *)
NoAlias ==
  /\ \A i \in DOMAIN owners : owners[i] # 0 => sess[owners[i]].active /\ sess[owners[i]].owner = i
  /\ \A i \in DOMAIN completed : /\ sess[completed[i].stream].owner = completed[i].owner
                                 /\ Usable(completed[i].stream)
  /\ \A d \in inflight : sess[d.stream].owner = d.owner /\ Usable(d.stream)

(* A completion is recorded only for a decode whose video stage was reported  *)
(* and that is still pending: drain_irq_completion finds it.                  *)
CompletionHasDecode == irqDone => \E d \in inflight : d.phase = "post"

(* A slot its owner gave up is kept from others only until the firmware is    *)
(* recovered: none leaks.                                                     *)
NoSlotLeak == apc = "idle" /\ ~recovery => \A s \in Streams : sess[s].quarantined => sess[s].active

(* A pending decode is heard: every path that masks the mailbox interrupt     *)
(* gives the decode up.  The exception is a submit that came while another    *)
(* decode was pending and timed out under it: it starts with the interrupt    *)
(* masked, and with the recovery set that the next call will run.             *)
PendingIsHeard == inflight # {} /\ ~irqDone /\ masked => recovery \/ apc = "reset"

(* The watchdog gives up only the decode it was armed for.                    *)
TimeoutIsOwn ==
  [][\A g \in expired : (g \notin expired' /\ recovery' # recovery) => \A d \in inflight : d.gen = g]_avdVars

(* Frames of a session leave in the order they were submitted.                *)
FramesInOrder == \A i, j \in DOMAIN completed :
  i < j /\ completed[i].stream = completed[j].stream => completed[i].id < completed[j].id

(* Every decode ends, also when its message is discarded, the decoder hangs,  *)
(* or another stream's submit resets it: in the end it is completed or given  *)
(* up for recovery.                                                           *)
DecodeEnds == []<>(inflight = {} \/ irqDone)

(* Memory through timeouts, failed resets, closes and reopens: the decoder     *)
(* works only in memory that is still the session's, a closed session is       *)
(* unmapped, and an id means one frontend's session.                           *)
MemoryIsKept == DecoderOwnsMemory /\ ClosedIsUnmapped /\ NoAlias

(* Every decode is accounted for: a completion has its decode, a given-up slot *)
(* comes back, a pending decode is heard of, frames leave in order, and a      *)
(* watchdog gives up its own decode only.                                      *)
DecodesAccounted ==
  /\ [](CompletionHasDecode /\ NoSlotLeak /\ PendingIsHeard /\ FramesInOrder)
  /\ TimeoutIsOwn

=============================================================================
