------------------------------ MODULE SioChannel ------------------------------
(* One cyclic channel of the SIO DMA controller, drivers/dma/apple-sio.      *)
(* The client commits periods of its buffer, a kernel worker issues them to  *)
(* the firmware one request at a time and in ring order, the firmware        *)
(* acknowledges a request and later reports the period done.  Client and     *)
(* worker both empty the mailbox (process_messages); its receive interrupt   *)
(* (apple-asc) moves messages to a queue in two steps, so one in the FIFO    *)
(* may be read before older ones, and wakes the worker.  Firmware and Waker  *)
(* are external.                                                             *)
EXTENDS Naturals, Sequences, FiniteSets

CONSTANTS
  NPeriods,     \* periods of the buffer
  MaxInflight,  \* SIO_MAX_INFLIGHT
  NTags,        \* request tags, SIO_FIRST_TAG .. SIO_TAGS - 1
  MayTimeout,   \* whether call and the wait for the last report may time out
  MayFail,      \* whether the firmware may refuse and a send may fail
  StickyWaker,  \* whether a wake of the running worker is remembered
  MaxQueues,    \* bound: periods the client commits
  MaxStops      \* bound: calls of stop

(* What an instance may choose; the modules that instantiate this one assume it. *)
SioAssumption ==
  /\ {NPeriods, MaxInflight, NTags} \subseteq Nat \ {0}
  /\ {MaxQueues, MaxStops} \subseteq Nat
  /\ {MayTimeout, MayFail, StickyWaker} \subseteq BOOLEAN

VARIABLES
  tx,          \* the SioTransfer
  running, error,
  completed,   \* completed_periods
  tags,        \* SioTags.entries
  last,        \* SioTags.last
  draining,    \* the flag process_messages holds
  issueLock,   \* holder of issue_lock: a set of at most one task
  wPending,    \* SIO_WORKER_PENDING
  wToken,      \* external: a remembered wake of the worker
  wgen,        \* the generation the worker issues for
  pc,          \* where client and worker are
  dpc,         \* where each is in process_messages
  ctag,        \* tag of the client's TERMINATE
  a2i, i2a,    \* the mailbox, each way, in the order sent; of i2a,
  queued,      \*   the first ones, in apple-asc's pending_messages,
  claimed,     \*   those after them, in the interrupt's hands (the rest: FIFO)
  irq,         \* where claim_interrupt is: "idle", "append" or "notify"
  fwq,         \* external: periods the firmware owns, in order
  queues, stops,
  earned,      \* history: visible reports since the counter was last reset
  overtook,    \* history: a message was read before an older one
  dropped      \* history: a report was thrown away

inbound == <<i2a, queued, claimed, irq>>
mail == <<a2i, inbound, fwq>>
flags == <<running, error>>
tagVars == <<tags, last>>
worker == <<wPending, wToken, wgen>>
bounds == <<queues, stops>>
hist == <<earned, overtook, dropped>>
sioVars == <<tx, flags, completed, tagVars, draining, issueLock, worker, pc, dpc,
             ctag, mail, bounds, hist>>

SioTasks == {"client", "worker"}
Periods == 0 .. NPeriods - 1
Tags == 1 .. NTags
Following(p) == (p + 1) % NPeriods

Fresh(g) ==
  [nextIssue |-> 0, nextReport |-> 0, inflight |-> 0, issuePending |-> FALSE,
   committed |-> {}, issued |-> {}, terminated |-> FALSE, gen |-> g]

FreeTag == [kind |-> "free", gen |-> 0, result |-> "none"]

(* Prepared, idle, the worker asleep: after prepare_cyclic. *)
SioInit ==
  /\ tx = Fresh(1) /\ running = FALSE /\ error = FALSE /\ completed = 0
  /\ tags = [t \in Tags |-> FreeTag] /\ last = 0
  /\ draining = FALSE /\ issueLock = {}
  /\ wPending = FALSE /\ wToken = FALSE /\ wgen = 0
  /\ pc = [client |-> "idle", worker |-> "sleep"]
  /\ dpc = [t \in SioTasks |-> "out"] /\ ctag = 0
  /\ a2i = <<>> /\ i2a = <<>> /\ queued = 0 /\ claimed = 0 /\ irq = "idle" /\ fwq = <<>>
  /\ queues = 0 /\ stops = 0 /\ earned = 0
  /\ overtook = FALSE /\ dropped = FALSE

------------------------------------------------------------------------------
(* queue_sio_worker; P says where the tasks go in the same step. *)
Kick(P) ==
  /\ wPending' = TRUE
  /\ IF wPending
       THEN pc' = P /\ UNCHANGED wToken
       ELSE IF P["worker"] = "sleep"
              THEN pc' = [P EXCEPT !["worker"] = "top"] /\ UNCHANGED wToken
              ELSE pc' = P /\ wToken' = StickyWaker

KickIf(b, P) == IF b THEN Kick(P) ELSE pc' = P /\ UNCHANGED <<wPending, wToken>>

Move(t, p) == [pc EXCEPT ![t] = p]

(* Periods can be issued: the test of the two reply handlers. *)
Wants(x) == ~x.terminated /\ running /\ ~error /\ x.inflight < MaxInflight

------------------------------------------------------------------------------
(* send_tagged: SioTags::allocate takes the next free tag after the last one. *)

TagAfter(t, k) == ((t + k - 1) % NTags) + 1
NextTag ==
  LET free == {k \in 1 .. NTags : tags[TagAfter(last, k)].kind = "free"}
  IN  {TagAfter(last, k) : k \in {k \in free : \A j \in free : k <= j}}

SendTagged(kind, gen, msg) ==
  \E t \in NextTag :
    /\ tags' = [tags EXCEPT ![t] = [kind |-> kind, gen |-> gen, result |-> "none"]]
    /\ last' = t
    /\ a2i' = Append(a2i, [msg EXCEPT !.tag = t])

SendMayFail == MayFail \/ NextTag = {}

------------------------------------------------------------------------------
(* AppleAsc::can_recv and recv.  A receiver looks at the queue and, when that  *)
(* is empty, reads the FIFO, under rx_lock; the interrupt takes the FIFO under *)
(* it and appends to the queue without.                                       *)

FifoHead == queued + claimed + 1
InFifo == FifoHead <= Len(i2a)
CanRecv == queued > 0 \/ InFifo

Without(k) == [i \in 1 .. Len(i2a) - 1 |-> IF i < k THEN i2a[i] ELSE i2a[i + 1]]

(* process_messages, for either task *)

(* Mutant: the flag is not looked at, so both tasks may be inside. *)
DrainEnterBoth(t) ==
  /\ dpc[t] = "enter"
  /\ draining' = TRUE /\ dpc' = [dpc EXCEPT ![t] = "take"]
  /\ UNCHANGED <<tx, flags, completed, tagVars, issueLock, worker, pc, ctag, mail, bounds, hist>>

DrainEnter(t) ==
  /\ dpc[t] = "enter"
  /\ IF draining
       THEN dpc' = [dpc EXCEPT ![t] = "out"] /\ UNCHANGED draining
       ELSE dpc' = [dpc EXCEPT ![t] = "take"] /\ draining' = TRUE
  /\ UNCHANGED <<tx, flags, completed, tagVars, issueLock, worker, pc, ctag, mail, bounds, hist>>

(* process_issue_reply *)
IssueReply(gen, ok) ==
  IF gen # tx.gen
    THEN UNCHANGED <<tx, flags, pc, wPending, wToken>>
    ELSE IF ok
      THEN /\ tx' = [tx EXCEPT !.issuePending = FALSE,
                               !.issued = @ \cup {tx.nextIssue},
                               !.nextIssue = Following(@),
                               !.inflight = @ + 1]
           /\ KickIf(Wants(tx'), pc)
           /\ UNCHANGED flags
      ELSE /\ tx' = [tx EXCEPT !.issuePending = FALSE, !.terminated = TRUE]
           /\ error' = TRUE /\ running' = FALSE
           /\ UNCHANGED <<pc, wPending, wToken>>

Reply(m) ==
  LET e == tags[m.tag]
      ok == m.type = "ack"
  IN  \/ /\ e.kind = "free"
         /\ UNCHANGED <<tx, flags, tags, pc, wPending, wToken>>
      \/ /\ e.kind = "sync"
         /\ tags' = [tags EXCEPT ![m.tag].result = m.type]
         /\ UNCHANGED <<tx, flags, pc, wPending, wToken>>
      \/ /\ e.kind = "issue"
         /\ tags' = [tags EXCEPT ![m.tag] = FreeTag]
         /\ IssueReply(e.gen, ok)

(* Mutant: a report counts for the period issued next. *)
ReportedNext == tx.nextIssue

Reported == tx.nextReport

(* process_report, under the transfer lock.  The counter and the worker come *)
(* after the lock is released, in DrainCount.  With nothing in flight the    *)
(* report is thrown away.                                                    *)
Report(t) ==
  LET p == Reported
      x == [tx EXCEPT !.inflight = @ - 1, !.nextReport = Following(@),
                      !.committed = @ \ {p}, !.issued = @ \ {p}]
  IN  \/ /\ tx.inflight = 0
         /\ dropped' = TRUE /\ dpc' = [dpc EXCEPT ![t] = "take"]
         /\ UNCHANGED <<tx, flags, earned>>
      \/ /\ tx.inflight # 0 /\ p \notin tx.committed \cap tx.issued
         /\ tx' = [tx EXCEPT !.terminated = TRUE]
         /\ error' = TRUE /\ running' = FALSE
         /\ dpc' = [dpc EXCEPT ![t] = "take"]
         /\ UNCHANGED <<earned, dropped>>
      \/ /\ tx.inflight # 0 /\ p \in tx.committed \cap tx.issued
         /\ tx' = x /\ UNCHANGED <<flags, dropped>>
         /\ earned' = IF tx.terminated THEN earned ELSE earned + 1
         /\ dpc' = [dpc EXCEPT ![t] =
              IF tx.terminated THEN "take"
              ELSE IF Wants(x) /\ ~x.issuePending THEN "countKick" ELSE "count"]

(* The message at k is taken and processed. *)
Process(t, k) ==
  /\ i2a' = Without(k)
  /\ LET m == i2a[k]
     IN  \/ m.type = "report" /\ Report(t) /\ UNCHANGED <<tags, pc, wPending, wToken>>
         \/ /\ m.type # "report" /\ Reply(m)
            /\ dpc' = [dpc EXCEPT ![t] = "take"] /\ UNCHANGED <<earned, dropped>>
  /\ UNCHANGED <<completed, last, draining, issueLock, wgen, ctag, a2i, claimed, irq, fwq, bounds>>

(* can_recv, which recv_endpoint asks before recv and the loop asks after it. *)
DrainLook(t) ==
  /\ dpc[t] = "take"
  /\ dpc' = [dpc EXCEPT ![t] = IF CanRecv THEN "recv" ELSE "clear"]
  /\ UNCHANGED <<tx, flags, completed, tagVars, draining, issueLock, worker, pc, ctag, mail, bounds, hist>>

(* recv pops the queue. *)
DrainQueued(t) ==
  /\ dpc[t] = "recv" /\ queued > 0
  /\ queued' = queued - 1
  /\ Process(t, 1)
  /\ UNCHANGED overtook

(* The queue is empty: recv goes on to the FIFO and keeps rx_lock. *)
DrainNoneQueued(t) ==
  /\ dpc[t] = "recv" /\ queued = 0
  /\ dpc' = [dpc EXCEPT ![t] = "fifo"]
  /\ UNCHANGED <<tx, flags, completed, tagVars, draining, issueLock, worker, pc, ctag, mail, bounds, hist>>

(* It reads the FIFO, ahead of all that the interrupt took and may have       *)
(* appended by now.                                                           *)
DrainFifo(t) ==
  /\ dpc[t] = "fifo" /\ InFifo
  /\ overtook' = (overtook \/ FifoHead > 1)
  /\ Process(t, FifoHead)
  /\ UNCHANGED queued

DrainMessage(t) == DrainQueued(t) \/ DrainFifo(t)

(* Mutant: a report does not wake the worker for the period it made room for. *)
DrainCountOnly(t) ==
  /\ dpc[t] \in {"count", "countKick"}
  /\ completed' = completed + 1
  /\ dpc' = [dpc EXCEPT ![t] = "take"]
  /\ UNCHANGED <<tx, flags, tagVars, draining, issueLock, worker, pc, ctag, mail, bounds, hist>>

(* completed_periods.fetch_add, then queue_sio_worker.  The callback that     *)
(* follows re-enters QueuePeriod and TakeCompleted, which any task may call.  *)
DrainCount(t) ==
  /\ dpc[t] \in {"count", "countKick"}
  /\ completed' = completed + 1
  /\ dpc' = [dpc EXCEPT ![t] = "take"]
  /\ KickIf(dpc[t] = "countKick", pc)
  /\ UNCHANGED <<tx, flags, tagVars, draining, issueLock, wgen, ctag, mail, bounds, hist>>

DrainClear(t) ==
  /\ dpc[t] = "clear"
  /\ draining' = FALSE /\ dpc' = [dpc EXCEPT ![t] = "recheck"]
  /\ UNCHANGED <<tx, flags, completed, tagVars, issueLock, worker, pc, ctag, mail, bounds, hist>>

(* The availability check after the flag is cleared. *)
DrainRecheck(t) ==
  /\ dpc[t] = "recheck"
  /\ IF CanRecv /\ ~draining
       THEN draining' = TRUE /\ dpc' = [dpc EXCEPT ![t] = "take"]
       ELSE dpc' = [dpc EXCEPT ![t] = "out"] /\ UNCHANGED draining
  /\ UNCHANGED <<tx, flags, completed, tagVars, issueLock, worker, pc, ctag, mail, bounds, hist>>

(* The interrupt took the message between can_recv and recv: an error, and no *)
(* second look.                                                               *)
DrainFails(t) ==
  /\ dpc[t] = "fifo" /\ ~InFifo
  /\ draining' = FALSE /\ dpc' = [dpc EXCEPT ![t] = "out"]
  /\ UNCHANGED <<tx, flags, completed, tagVars, issueLock, worker, pc, ctag, mail, bounds, hist>>

Drain(t) ==
  \/ DrainEnter(t) \/ DrainLook(t) \/ DrainNoneQueued(t) \/ DrainMessage(t)
  \/ DrainFails(t) \/ DrainCount(t) \/ DrainClear(t) \/ DrainRecheck(t)

------------------------------------------------------------------------------
(* send_issue_locked, for either task *)

Unlock(t) == issueLock' = issueLock \ {t}

(* Where a task goes on when send_issue_locked returns. *)
AfterIssue == [client |-> "idle", worker |-> "top"]

(* Mutant: the period after the next one may go first. *)
IssuableAny == tx.committed \ tx.issued # {}

(* Only the next period of the ring, committed, and not already out. *)
Issuable == tx.nextIssue \in tx.committed \ tx.issued

(* Mutant: an ISSUE whose answer is unread does not hold the next one back. *)
MayIssueTwice == Wants(tx)

MayIssue == Wants(tx) /\ ~tx.issuePending

(* The worker's generation may be old by now; start reads its own under the    *)
(* lock.                                                                      *)
IssueMark(t) ==
  /\ dpc[t] = "out" /\ pc[t] = "issueMark"
  /\ IF (t = "worker" => tx.gen = wgen) /\ MayIssue /\ Issuable
       THEN tx' = [tx EXCEPT !.issuePending = TRUE]
            /\ pc' = Move(t, "issueSend") /\ UNCHANGED issueLock
       ELSE pc' = Move(t, AfterIssue[t]) /\ Unlock(t) /\ UNCHANGED tx
  /\ UNCHANGED <<flags, completed, tagVars, draining, worker, dpc, ctag, mail, bounds, hist>>

IssueSend(t) ==
  /\ pc[t] = "issueSend"
  /\ SendTagged("issue", tx.gen, [type |-> "issue", tag |-> 0, period |-> tx.nextIssue])
  /\ pc' = Move(t, AfterIssue[t]) /\ Unlock(t)
  /\ UNCHANGED <<tx, flags, completed, draining, worker, dpc, ctag, inbound, fwq, bounds, hist>>

IssueSendFails(t) ==
  /\ pc[t] = "issueSend" /\ SendMayFail
  /\ tx' = [tx EXCEPT !.issuePending = FALSE, !.terminated = TRUE]
  /\ error' = TRUE /\ running' = FALSE
  /\ pc' = Move(t, AfterIssue[t]) /\ Unlock(t)
  /\ UNCHANGED <<completed, tagVars, draining, worker, dpc, ctag, mail, bounds, hist>>

Issue(t) == IssueMark(t) \/ IssueSend(t) \/ IssueSendFails(t)

------------------------------------------------------------------------------
(* The worker: sio_worker_entry and process_deferred_sio_work *)

WorkerTop ==
  /\ pc["worker"] = "top" /\ dpc["worker"] = "out"
  /\ wPending' = FALSE
  /\ IF wPending
       THEN pc' = Move("worker", "issueGen") /\ dpc' = [dpc EXCEPT !["worker"] = "enter"]
       ELSE pc' = Move("worker", "wait") /\ UNCHANGED dpc
  /\ UNCHANGED <<tx, flags, completed, tagVars, draining, issueLock, wToken, wgen, ctag, mail, bounds, hist>>

WorkerWait ==
  /\ pc["worker"] = "wait"
  /\ pc' = Move("worker", IF wToken THEN "top" ELSE "sleep")
  /\ wToken' = FALSE
  /\ UNCHANGED <<tx, flags, completed, tagVars, draining, issueLock, wPending, wgen, dpc, ctag, mail, bounds, hist>>

(* issue_ready_transfers reads the generation before send_issue locks. *)
WorkerGen ==
  /\ pc["worker"] = "issueGen" /\ dpc["worker"] = "out"
  /\ wgen' = tx.gen
  /\ pc' = Move("worker", "issueLock")
  /\ UNCHANGED <<tx, flags, completed, tagVars, draining, issueLock, wPending, wToken, dpc, ctag, mail, bounds, hist>>

WorkerLock ==
  /\ pc["worker"] = "issueLock" /\ issueLock = {}
  /\ issueLock' = {"worker"}
  /\ pc' = Move("worker", "issueMark")
  /\ UNCHANGED <<tx, flags, completed, tagVars, draining, worker, dpc, ctag, mail, bounds, hist>>

Worker == WorkerTop \/ WorkerWait \/ WorkerGen \/ WorkerLock

------------------------------------------------------------------------------
(* The client: start_channel, stop_channel, queue_cyclic_period and           *)
(* take_completed_periods                                                     *)

StartCall ==
  /\ pc["client"] = "idle" /\ issueLock = {}
  /\ issueLock' = {"client"}
  /\ pc' = Move("client", "start") /\ dpc' = [dpc EXCEPT !["client"] = "enter"]
  /\ UNCHANGED <<tx, flags, completed, tagVars, draining, worker, ctag, mail, bounds, hist>>

(* An error or a running channel ends the call. *)
Start ==
  /\ pc["client"] = "start" /\ dpc["client"] = "out"
  /\ IF error \/ running
       THEN pc' = Move("client", "idle") /\ Unlock("client") /\ UNCHANGED <<tx, running>>
       ELSE /\ tx' = [tx EXCEPT !.terminated = FALSE] /\ running' = TRUE
            /\ pc' = Move("client", "issueMark") /\ UNCHANGED issueLock
  /\ UNCHANGED <<error, completed, tagVars, draining, worker, dpc, ctag, mail, bounds, hist>>

StopCall ==
  /\ pc["client"] = "idle" /\ issueLock = {} /\ stops < MaxStops
  /\ issueLock' = {"client"} /\ stops' = stops + 1
  /\ pc' = Move("client", "stopMark") /\ dpc' = [dpc EXCEPT !["client"] = "enter"]
  /\ UNCHANGED <<tx, flags, completed, tagVars, draining, worker, ctag, mail, queues, hist>>

StopMark ==
  /\ pc["client"] = "stopMark" /\ dpc["client"] = "out"
  /\ LET needs == running \/ tx.terminated \/ tx.inflight # 0 \/ tx.issuePending
     IN  /\ tx' = [tx EXCEPT !.terminated = needs]
         /\ pc' = Move("client", IF needs THEN "termSend" ELSE "reset")
  /\ running' = FALSE
  /\ UNCHANGED <<error, completed, tagVars, draining, issueLock, worker, dpc, ctag, mail, bounds, hist>>

StopSend ==
  /\ pc["client"] = "termSend"
  /\ SendTagged("sync", 0, [type |-> "terminate", tag |-> 0, period |-> 0])
  /\ ctag' = last'
  /\ pc' = Move("client", "termWait") /\ dpc' = [dpc EXCEPT !["client"] = "enter"]
  /\ UNCHANGED <<tx, flags, completed, draining, issueLock, worker, inbound, fwq, bounds, hist>>

(* call's loop: process_messages, then a look at the tag. *)
StopAcked ==
  /\ pc["client"] = "termWait" /\ dpc["client"] = "out"
  /\ tags[ctag].result # "none"
  /\ tags' = [tags EXCEPT ![ctag] = FreeTag]
  /\ IF tags[ctag].result = "ack"
       THEN /\ pc' = Move("client", "stopWait") /\ dpc' = [dpc EXCEPT !["client"] = "enter"]
            /\ UNCHANGED issueLock
       ELSE pc' = Move("client", "idle") /\ Unlock("client") /\ UNCHANGED dpc
  /\ UNCHANGED <<tx, flags, completed, last, draining, worker, ctag, mail, bounds, hist>>

(* Mutant: the wait is for the reply and not for the reports. *)
QuietNoReports == ~tx.issuePending

Quiet == tx.inflight = 0 /\ ~tx.issuePending

StopQuiet ==
  /\ pc["client"] = "stopWait" /\ dpc["client"] = "out" /\ Quiet
  /\ pc' = Move("client", "reset")
  /\ UNCHANGED <<tx, flags, completed, tagVars, draining, issueLock, worker, dpc, ctag, mail, bounds, hist>>

StopAgain ==
  /\ dpc["client"] = "out"
  /\ \/ pc["client"] = "termWait" /\ tags[ctag].result = "none"
     \/ pc["client"] = "stopWait" /\ ~Quiet
  /\ dpc' = [dpc EXCEPT !["client"] = "enter"]
  /\ UNCHANGED <<tx, flags, completed, tagVars, draining, issueLock, worker, pc, ctag, mail, bounds, hist>>

(* stop returns an error: SIO_CALL_TIMEOUT_US, SIO_TERMINATE_TIMEOUT_US or a  *)
(* failed send.  The tag is given up, the transfer is kept.                   *)
StopFails ==
  /\ dpc["client"] = "out"
  /\ \/ /\ MayTimeout /\ pc["client"] = "termWait" /\ tags[ctag].result = "none"
        /\ tags' = [tags EXCEPT ![ctag] = FreeTag]
     \/ /\ MayTimeout /\ pc["client"] = "stopWait" /\ ~Quiet /\ UNCHANGED tags
     \/ /\ SendMayFail /\ pc["client"] = "termSend" /\ UNCHANGED tags
  /\ pc' = Move("client", "idle") /\ Unlock("client")
  /\ UNCHANGED <<tx, flags, completed, last, draining, worker, dpc, ctag, mail, bounds, hist>>

StopReset ==
  /\ pc["client"] = "reset"
  /\ tx' = Fresh(tx.gen + 1)
  /\ pc' = Move("client", "resetCount")
  /\ UNCHANGED <<flags, completed, tagVars, draining, issueLock, worker, dpc, ctag, mail, bounds, hist>>

StopDone ==
  /\ pc["client"] = "resetCount"
  /\ completed' = 0 /\ earned' = 0 /\ error' = FALSE
  /\ pc' = Move("client", "stopped") /\ Unlock("client")
  /\ UNCHANGED <<tx, running, tagVars, draining, worker, dpc, ctag, mail, bounds, overtook, dropped>>

(* stop has returned Ok; the client may free or reuse its buffer here. *)
Stopped ==
  /\ pc["client"] = "stopped" /\ pc' = Move("client", "idle")
  /\ UNCHANGED <<tx, flags, completed, tagVars, draining, issueLock, worker, dpc, ctag, mail, bounds, hist>>

QueuePeriod(p) ==
  /\ queues < MaxQueues /\ ~error /\ p \notin tx.committed
  /\ queues' = queues + 1
  /\ tx' = [tx EXCEPT !.committed = @ \cup {p}]
  /\ KickIf(Wants(tx) /\ ~tx.issuePending, pc)
  /\ UNCHANGED <<flags, completed, tagVars, draining, issueLock, wgen, dpc, ctag, mail, stops, hist>>

TakeCompleted ==
  /\ completed # 0 /\ completed' = 0
  /\ earned' = IF earned < completed THEN 0 ELSE earned - completed
  /\ UNCHANGED <<tx, flags, tagVars, draining, issueLock, worker, pc, dpc, ctag, mail, bounds, overtook, dropped>>

StopStep == StopMark \/ StopSend \/ StopAcked \/ StopQuiet \/ StopAgain \/ StopReset \/ StopDone \/ Stopped

------------------------------------------------------------------------------
(* The firmware and the receive interrupt *)

FwSend(m) == i2a' = Append(i2a, m) /\ UNCHANGED <<queued, claimed, irq>>
FwMsg(t, tag) == [type |-> t, tag |-> tag, period |-> 0]

FwAccept ==
  /\ a2i # <<>> /\ a2i' = Tail(a2i)
  /\ FwSend(FwMsg("ack", Head(a2i).tag))
  /\ fwq' = IF Head(a2i).type = "issue" THEN Append(fwq, Head(a2i).period) ELSE fwq
  /\ UNCHANGED <<tx, flags, completed, tagVars, draining, issueLock, worker, pc, dpc, ctag, bounds, hist>>

FwRefuse ==
  /\ MayFail /\ a2i # <<>> /\ a2i' = Tail(a2i)
  /\ FwSend(FwMsg("nack", Head(a2i).tag))
  /\ UNCHANGED <<fwq, tx, flags, completed, tagVars, draining, issueLock, worker, pc, dpc, ctag, bounds, hist>>

(* Played, or given up after TERMINATE: either way it is reported. *)
FwReport ==
  /\ fwq # <<>> /\ fwq' = Tail(fwq)
  /\ FwSend([type |-> "report", tag |-> 0, period |-> Head(fwq)])
  /\ UNCHANGED <<a2i, tx, flags, completed, tagVars, draining, issueLock, worker, pc, dpc, ctag, bounds, hist>>

(* claim_interrupt: the FIFO is taken under rx_lock, appended to the queue     *)
(* without it, and then the worker is woken (SioRxHandler::rx_ready).         *)
IrqDrain ==
  /\ irq = "idle" /\ InFifo /\ \A t \in SioTasks : dpc[t] # "fifo"
  /\ claimed' = Len(i2a) - queued /\ irq' = "append"
  /\ UNCHANGED <<tx, flags, completed, tagVars, draining, issueLock, worker, pc, dpc, ctag, a2i, i2a,
                 queued, fwq, bounds, hist>>

IrqAppend ==
  /\ irq = "append" /\ irq' = "notify"
  /\ queued' = queued + claimed /\ claimed' = 0
  /\ UNCHANGED <<tx, flags, completed, tagVars, draining, issueLock, worker, pc, dpc, ctag, a2i, i2a,
                 fwq, bounds, hist>>

RxReady ==
  /\ irq = "notify" /\ irq' = "idle"
  /\ Kick(pc)
  /\ UNCHANGED <<tx, flags, completed, tagVars, draining, issueLock, wgen, dpc, ctag, a2i, i2a,
                 queued, claimed, fwq, bounds, hist>>

Interrupt == IrqDrain \/ IrqAppend \/ RxReady
Firmware == FwAccept \/ FwReport

------------------------------------------------------------------------------
SioNext ==
  \/ \E t \in SioTasks : Drain(t) \/ Issue(t)
  \/ Worker
  \/ StartCall \/ Start \/ StopCall \/ StopStep \/ StopFails
  \/ \E p \in Periods : QueuePeriod(p)
  \/ TakeCompleted
  \/ Firmware \/ FwRefuse \/ Interrupt

SioSpec == SioInit /\ [][SioNext]_sioVars

(* Both tasks run, the interrupt is delivered and the firmware answers and    *)
(* plays what it accepted.  The worker gets issue_lock in the end: Mutex      *)
(* queues its waiters.  The client need not call anything.                    *)
SioFairSpec ==
  /\ SioSpec
  /\ \A t \in SioTasks : WF_sioVars(Drain(t)) /\ WF_sioVars(Issue(t))
  /\ WF_sioVars(WorkerTop \/ WorkerWait \/ WorkerGen) /\ SF_sioVars(WorkerLock)
  /\ WF_sioVars(Start) /\ WF_sioVars(StopStep)
  /\ WF_sioVars(Firmware) /\ WF_sioVars(Interrupt)

------------------------------------------------------------------------------
(* Types *)
Message ==
  [type : {"issue", "terminate", "ack", "nack", "report"}, tag : 0 .. NTags, period : Periods]
SioTypeOK ==
  /\ tx \in [nextIssue : Periods, nextReport : Periods, inflight : 0 .. MaxInflight,
             issuePending : BOOLEAN, committed : SUBSET Periods, issued : SUBSET Periods,
             terminated : BOOLEAN, gen : 1 .. MaxStops + 1]
  /\ {running, error, draining, wPending, wToken, overtook, dropped} \subseteq BOOLEAN
  /\ completed \in 0 .. MaxQueues /\ earned \in 0 .. MaxQueues
  /\ tags \in [Tags -> [kind : {"free", "sync", "issue"}, gen : 0 .. MaxStops + 1,
                        result : {"none", "ack", "nack"}]]
  /\ last \in 0 .. NTags /\ ctag \in 0 .. NTags /\ wgen \in 0 .. MaxStops + 1
  /\ issueLock \in {{}, {"client"}, {"worker"}}
  /\ pc \in [SioTasks -> {"idle", "start", "issueGen", "issueLock", "issueMark", "issueSend",
                       "stopMark", "termSend", "termWait", "stopWait", "reset", "resetCount",
                       "stopped", "top", "wait", "sleep"}]
  /\ dpc \in [SioTasks -> {"out", "enter", "take", "recv", "fifo", "count", "countKick", "clear", "recheck"}]
  /\ {a2i, i2a} \subseteq Seq(Message) /\ fwq \in Seq(Periods)
  /\ {queued, claimed} \subseteq Nat /\ queued + claimed <= Len(i2a)
  /\ irq \in {"idle", "append", "notify"} /\ (claimed > 0 <=> irq = "append")
  /\ queues \in 0 .. MaxQueues /\ stops \in 0 .. MaxStops

(* "the client cannot recycle the corresponding buffer while firmware still   *)
(* owns it": a period on its way to the firmware or owned by it is committed, *)
(* so queue_cyclic_period refuses it, through timeouts, refusals and stops.   *)
Outbound == {a2i[i].period : i \in {i \in DOMAIN a2i : a2i[i].type = "issue"}}
Owned == {fwq[i] : i \in DOMAIN fwq}
OwnedIsCommitted == Outbound \cup Owned \subseteq tx.committed

(* When stop has returned Ok the firmware owns nothing and is about to get    *)
(* nothing, so the client may unmap and free its buffer (the reason Drop pins *)
(* the transfer when stop fails).                                             *)
StopMeansQuiet == pc["client"] = "stopped" => Outbound \cup Owned = {}

(* As long as no message has been read before an older one the driver's        *)
(* next_report is the period the firmware's report is for; process_report     *)
(* throws a report away only after that, and then counts one too many in      *)
(* flight for good: stop cannot take the channel for quiet any more.          *)
ReportsMatch ==
  /\ (~overtook /\ i2a # <<>> /\ Head(i2a).type = "report")
       => (tx.inflight # 0 /\ Head(i2a).period = tx.nextReport)
  /\ dropped => overtook /\ (tx.inflight # 0 \/ tx.issuePending)

(* A completion the client takes was reported in the current session: one     *)
(* that process_report has not counted when stop resets the counter is not    *)
(* counted for the next session, though the counting is outside the lock.     *)
NoStaleCompletion == completed <= earned

(* "either this path reacquires ownership and drains it, or the IRQ callback  *)
(* wins the CAS and becomes the new drainer": no message waits in the queue   *)
(* while nobody is about to read it.  A receive that finds the message taken  *)
(* returns without the second look, so one may.                               *)
Forgotten ==
  /\ queued > 0 /\ irq = "idle" /\ ~wPending
  /\ pc = [client |-> "idle", worker |-> "sleep"] /\ \A t \in SioTasks : dpc[t] = "out"
NoMessageForgotten == ~Forgotten

(* Every committed period of a channel that keeps running is played and       *)
(* counted: no kick of the worker is lost between the client, the interrupt   *)
(* and the worker's own check.  Two things can keep a period: a report thrown *)
(* away, and a message forgotten as above.                                    *)
CommittedIsPlayed ==
  \A p \in Periods :
    (running /\ tx.nextIssue = p /\ p \in tx.committed)
      ~> (~running \/ p \notin tx.committed \/ dropped \/ Forgotten)

(* The driver's books agree with the firmware's through every stop, restart    *)
(* and late report, whatever the order in which its messages are read: what    *)
(* the firmware owns is committed, a report is counted for its own session,    *)
(* and after stop it owns nothing; the period expected is the one reported     *)
(* until a message overtakes an older one.                                     *)
BooksAgree == OwnedIsCommitted /\ StopMeansQuiet /\ ReportsMatch /\ NoStaleCompletion
=============================================================================
