------------------------------ MODULE AscMailbox ------------------------------
(* The Apple System Coprocessor mailbox driver, drivers/soc/apple-asc.       *)
(*                                                                           *)
(* Two hardware FIFOs join the application processor (AP) and a coprocessor  *)
(* (IOP).  AP tasks on several CPUs write the outbound one (a2i), a register *)
(* pair at a time, under tx_lock.  The inbound one (i2a) is emptied by two   *)
(* parties: tasks that call recv, and the receive interrupt, which drains it *)
(* into a software queue, wakes the sleepers and calls the notification      *)
(* handler.  The IOP, the interrupt controller and the kernel's Waker are    *)
(* external and modelled from how the driver uses them.                      *)
EXTENDS Naturals, Sequences

CONSTANTS
  Senders,      \* tasks that call AppleAsc::send
  Receivers,    \* tasks that call AppleAsc::recv_timeout
  Handler,      \* the AscRxReadyHandler; it too consumes with recv
  HasHandler,   \* whether set_rx_ready_handler is called with one
  Depth,        \* capacity of the outbound hardware FIFO
  MaxSends,     \* bound: messages each sender sends
  MaxProduced,  \* bound: messages the IOP sends
  StickyWaker   \* whether a wake_all that finds nobody waiting is remembered

ASSUME AscAssumption ==
  /\ Depth \in Nat \ {0} /\ MaxSends \in Nat /\ MaxProduced \in Nat
  /\ HasHandler \in BOOLEAN /\ StickyWaker \in BOOLEAN
  /\ Handler \notin Receivers

VARIABLES
  a2i,        \* outbound FIFO: pairs of register words
  send0,      \* last word written to ASC_MBOX_A2I_SEND0
  txHolder,   \* holder of tx_lock: a set of at most one sender
  spc,        \* where each sender is in send
  sends,      \* messages each sender has started to send
  accepted,   \* history: messages whose send returned Ok, in order
  taken,      \* history: pairs the IOP took from a2i, in order
  i2a,        \* inbound FIFO
  drained,    \* claim_interrupt's local queue
  pending,    \* pending_messages
  ipc,        \* where the receive interrupt is
  handlerSet, \* whether rx_ready_handler holds the handler
  rpc,        \* where each consumer is in recv_timeout
  wakeToken,  \* external: a remembered wake of recv_waker
  produced,   \* messages the IOP has sent: the numbers 1 .. produced
  delivered,  \* history: messages returned by recv, in order
  inFlight    \* history: what the interrupt held at recv's last empty look

txVars == <<a2i, send0, txHolder, spc, sends, accepted, taken>>
rxVars == <<i2a, drained, pending, ipc, handlerSet, rpc, wakeToken, produced, delivered, inFlight>>
history == <<produced, delivered, inFlight>>
vars == <<txVars, rxVars>>

Consumers == Receivers \cup {Handler}
Messages == Senders \X (1 .. MaxSends)
NoWord == <<>>

Init ==
  /\ a2i = <<>> /\ send0 = NoWord /\ txHolder = {}
  /\ spc = [s \in Senders |-> "idle"] /\ sends = [s \in Senders |-> 0]
  /\ accepted = <<>> /\ taken = <<>>
  /\ i2a = <<>> /\ drained = <<>> /\ pending = <<>>
  /\ ipc = "idle" /\ handlerSet = FALSE
  /\ rpc = [c \in Consumers |-> "idle"] /\ wakeToken = FALSE
  /\ produced = 0 /\ delivered = <<>> /\ inFlight = <<>>

------------------------------------------------------------------------------
(* AppleAsc::send *)

Current(s) == <<s, sends[s]>>

SendCall(s) ==
  /\ spc[s] = "idle" /\ sends[s] < MaxSends
  /\ spc' = [spc EXCEPT ![s] = "check"]
  /\ sends' = [sends EXCEPT ![s] = @ + 1]
  /\ UNCHANGED <<a2i, send0, txHolder, accepted, taken, rxVars>>

(* Mutant: the FIFO has room for one more than it holds. *)
SendLockFull(s) ==
  /\ spc[s] = "check" /\ txHolder = {}
  /\ Len(a2i) <= Depth
  /\ txHolder' = {s}
  /\ spc' = [spc EXCEPT ![s] = "word0"]
  /\ UNCHANGED <<a2i, send0, sends, accepted, taken, rxVars>>

(* Mutant: tx_lock covers the check of the FIFO and not the register pair. *)
SendLockDropped(s) ==
  /\ spc[s] = "check" /\ txHolder = {}
  /\ Len(a2i) < Depth
  /\ spc' = [spc EXCEPT ![s] = "word0"]
  /\ UNCHANGED <<a2i, send0, txHolder, sends, accepted, taken, rxVars>>

(* Take tx_lock and find room: the lock is kept for the register pair. *)
SendLock(s) ==
  /\ spc[s] = "check" /\ txHolder = {}
  /\ Len(a2i) < Depth
  /\ txHolder' = {s}
  /\ spc' = [spc EXCEPT ![s] = "word0"]
  /\ UNCHANGED <<a2i, send0, sends, accepted, taken, rxVars>>

(* Full for ASC_SEND_TIMEOUT_US: the lock is released between polls. *)
SendTimeout(s) ==
  /\ spc[s] = "check" /\ txHolder = {}
  /\ Len(a2i) >= Depth
  /\ spc' = [spc EXCEPT ![s] = "idle"]
  /\ UNCHANGED <<a2i, send0, txHolder, sends, accepted, taken, rxVars>>

SendWord0(s) ==
  /\ spc[s] = "word0"
  /\ send0' = Current(s)
  /\ spc' = [spc EXCEPT ![s] = "word1"]
  /\ UNCHANGED <<a2i, txHolder, sends, accepted, taken, rxVars>>

(* Writing SEND1 makes the hardware push the pair. *)
SendWord1(s) ==
  /\ spc[s] = "word1"
  /\ a2i' = Append(a2i, <<send0, Current(s)>>)
  /\ accepted' = Append(accepted, Current(s))
  /\ txHolder' = txHolder \ {s}
  /\ spc' = [spc EXCEPT ![s] = "idle"]
  /\ UNCHANGED <<send0, sends, taken, rxVars>>

IopTake ==
  /\ a2i # <<>>
  /\ taken' = Append(taken, Head(a2i)) /\ a2i' = Tail(a2i)
  /\ UNCHANGED <<send0, txHolder, spc, sends, accepted, rxVars>>

------------------------------------------------------------------------------
(* AppleAsc::recv and recv_timeout.  rx_lock is held for the whole of recv   *)
(* and for the interrupt's drain loop.  The guard of pending_messages is not: *)
(* recv drops it after its look there, and claim_interrupt appends under that *)
(* guard alone, so an append can fall between recv's two looks.               *)

InRecv == {c \in Consumers : rpc[c] = "fifo"}
RxLockFree == ipc # "drain" /\ InRecv = {}
Sleeping == {r \in Receivers : rpc[r] = "sleep"}
AfterMessage(c) == IF c = Handler THEN "recv" ELSE "idle"

RecvCall(r) ==
  /\ r \in Receivers /\ rpc[r] = "idle"
  /\ rpc' = [rpc EXCEPT ![r] = "recv"]
  /\ UNCHANGED <<i2a, drained, pending, ipc, wakeToken, handlerSet, history, txVars>>

(* Take rx_lock and the oldest message of the software queue. *)
RecvQueued(c) ==
  /\ rpc[c] = "recv" /\ RxLockFree
  /\ pending # <<>>
  /\ delivered' = Append(delivered, Head(pending)) /\ pending' = Tail(pending)
  /\ rpc' = [rpc EXCEPT ![c] = AfterMessage(c)]
  /\ UNCHANGED <<i2a, drained, ipc, wakeToken, handlerSet, produced, inFlight, txVars>>

(* Mutant: the hardware FIFO whatever the software queue holds. *)
RecvLookAnyway(c) ==
  /\ rpc[c] = "recv" /\ RxLockFree
  /\ rpc' = [rpc EXCEPT ![c] = "fifo"]
  /\ inFlight' = drained
  /\ UNCHANGED <<i2a, drained, pending, ipc, wakeToken, handlerSet, produced, delivered, txVars>>

(* The software queue is empty: its guard is dropped, rx_lock is kept. *)
RecvLook(c) ==
  /\ rpc[c] = "recv" /\ RxLockFree
  /\ pending = <<>>
  /\ rpc' = [rpc EXCEPT ![c] = "fifo"]
  /\ inFlight' = drained
  /\ UNCHANGED <<i2a, drained, pending, ipc, wakeToken, handlerSet, produced, delivered, txVars>>

(* recv_hardware_unlocked: the oldest message of the hardware FIFO. *)
RecvFifo(c) ==
  /\ rpc[c] = "fifo" /\ i2a # <<>>
  /\ delivered' = Append(delivered, Head(i2a)) /\ i2a' = Tail(i2a)
  /\ rpc' = [rpc EXCEPT ![c] = AfterMessage(c)]
  /\ UNCHANGED <<drained, pending, ipc, wakeToken, handlerSet, produced, inFlight, txVars>>

(* No message: the handler returns, a task goes on to wait. *)
RecvEmpty(c) ==
  /\ rpc[c] = "fifo" /\ i2a = <<>>
  /\ rpc' = [rpc EXCEPT ![c] = IF c = Handler THEN "idle" ELSE "empty"]
  /\ UNCHANGED <<i2a, drained, pending, ipc, wakeToken, handlerSet, history, txVars>>

(* recv_waker.wait_with_timeout; a remembered wake returns at once. *)
RecvWait(r) ==
  /\ rpc[r] = "empty"
  /\ rpc' = [rpc EXCEPT ![r] = IF wakeToken THEN "recv" ELSE "sleep"]
  /\ wakeToken' = FALSE
  /\ UNCHANGED <<i2a, drained, pending, ipc, handlerSet, history, txVars>>

(* timeout_us has passed, in the loop or in the wait: no further look at the queue. *)
RecvTimeout(r) ==
  /\ rpc[r] \in {"empty", "sleep"}
  /\ rpc' = [rpc EXCEPT ![r] = "idle"]
  /\ UNCHANGED <<i2a, drained, pending, ipc, wakeToken, handlerSet, history, txVars>>

------------------------------------------------------------------------------
(* InterruptSource::claim_interrupt, one instance at a time: the interrupt   *)
(* controller masks the line until the handler returns.                      *)

IrqRaise ==
  /\ ipc = "idle" /\ i2a # <<>>
  /\ ipc' = "claim"
  /\ UNCHANGED <<i2a, drained, pending, rpc, wakeToken, handlerSet, history, txVars>>

(* Take rx_lock; an empty FIFO means another consumer was faster. *)
IrqClaim ==
  /\ ipc = "claim" /\ InRecv = {}
  /\ ipc' = IF i2a = <<>> THEN "idle" ELSE "drain"
  /\ UNCHANGED <<i2a, drained, pending, rpc, wakeToken, handlerSet, history, txVars>>

IrqDrain ==
  /\ ipc = "drain" /\ i2a # <<>>
  /\ drained' = Append(drained, Head(i2a)) /\ i2a' = Tail(i2a)
  /\ UNCHANGED <<pending, ipc, rpc, wakeToken, handlerSet, history, txVars>>

(* The FIFO is empty: rx_lock is released before pending_messages is taken. *)
IrqUnlock ==
  /\ ipc = "drain" /\ i2a = <<>>
  /\ ipc' = "append"
  /\ UNCHANGED <<i2a, drained, pending, rpc, wakeToken, handlerSet, history, txVars>>

(* Mutants: the drained messages replace the queue, or go in front of it. *)
IrqReplace ==
  /\ ipc = "append"
  /\ pending' = drained /\ drained' = <<>>
  /\ ipc' = "wake"
  /\ UNCHANGED <<i2a, rpc, wakeToken, handlerSet, history, txVars>>

IrqPrepend ==
  /\ ipc = "append"
  /\ pending' = drained \o pending /\ drained' = <<>>
  /\ ipc' = "wake"
  /\ UNCHANGED <<i2a, rpc, wakeToken, handlerSet, history, txVars>>

IrqAppend ==
  /\ ipc = "append"
  /\ pending' = pending \o drained /\ drained' = <<>>
  /\ ipc' = "wake"
  /\ UNCHANGED <<i2a, rpc, wakeToken, handlerSet, history, txVars>>

(* Mutant: the handler is called and recv_waker is not. *)
IrqNoWake ==
  /\ ipc = "wake"
  /\ rpc' = [rpc EXCEPT ![Handler] = IF handlerSet THEN "recv" ELSE @]
  /\ ipc' = "handler"
  /\ UNCHANGED <<i2a, drained, pending, wakeToken, handlerSet, history, txVars>>

(* recv_waker.wake_all, then the handler, which runs in this interrupt. *)
IrqWake ==
  /\ ipc = "wake"
  /\ rpc' = [c \in Consumers |->
               IF c \in Sleeping THEN "recv"
               ELSE IF c = Handler /\ handlerSet THEN "recv" ELSE rpc[c]]
  /\ wakeToken' = (wakeToken \/ (StickyWaker /\ Sleeping = {}))
  /\ ipc' = "handler"
  /\ UNCHANGED <<i2a, drained, pending, handlerSet, history, txVars>>

(* set_rx_ready_handler, while messages may already be arriving. *)
SetHandler ==
  /\ HasHandler /\ ~handlerSet
  /\ handlerSet' = TRUE
  /\ UNCHANGED <<i2a, drained, pending, ipc, rpc, wakeToken, history, txVars>>

IrqReturn ==
  /\ ipc = "handler" /\ rpc[Handler] = "idle"
  /\ ipc' = "idle"
  /\ UNCHANGED <<i2a, drained, pending, rpc, wakeToken, handlerSet, history, txVars>>

IopSend ==
  /\ produced < MaxProduced
  /\ produced' = produced + 1
  /\ i2a' = Append(i2a, produced + 1)
  /\ UNCHANGED <<drained, pending, ipc, handlerSet, rpc, wakeToken, delivered, inFlight, txVars>>

------------------------------------------------------------------------------
Irq == IrqRaise \/ IrqClaim \/ IrqDrain \/ IrqUnlock \/ IrqAppend \/ IrqWake \/ IrqReturn

Recv(c) == RecvQueued(c) \/ RecvLook(c) \/ RecvFifo(c) \/ RecvEmpty(c)

Send(s) == SendCall(s) \/ SendLock(s) \/ SendTimeout(s) \/ SendWord0(s) \/ SendWord1(s)

Next ==
  \/ \E s \in Senders : Send(s)
  \/ \E r \in Receivers : RecvCall(r) \/ RecvWait(r) \/ RecvTimeout(r)
  \/ \E c \in Consumers : Recv(c)
  \/ Irq \/ SetHandler \/ IopTake \/ IopSend

Spec == Init /\ [][Next]_vars

(* The interrupt is delivered and its handler runs; a task inside recv keeps *)
(* running until it sleeps.  No fairness for the IOP, for new calls or for   *)
(* timeouts: nothing promised below may lean on a timeout.                   *)
FairSpec ==
  /\ Spec /\ WF_vars(Irq)
  /\ \A c \in Consumers : WF_vars(Recv(c))
  /\ \A r \in Receivers : WF_vars(RecvWait(r))

------------------------------------------------------------------------------
(* Types *)
TypeOK ==
  /\ a2i \in Seq(Messages \X Messages) /\ Len(a2i) <= Depth
  /\ send0 \in Messages \cup {NoWord}
  /\ txHolder \in SUBSET Senders
  /\ spc \in [Senders -> {"idle", "check", "word0", "word1"}]
  /\ sends \in [Senders -> 0 .. MaxSends]
  /\ accepted \in Seq(Messages) /\ taken \in Seq(Messages \X Messages)
  /\ i2a \in Seq(1 .. MaxProduced) /\ drained \in Seq(1 .. MaxProduced)
  /\ pending \in Seq(1 .. MaxProduced) /\ delivered \in Seq(1 .. MaxProduced)
  /\ inFlight \in Seq(1 .. MaxProduced)
  /\ ipc \in {"idle", "claim", "drain", "append", "wake", "handler"}
  /\ rpc \in [Consumers -> {"idle", "recv", "fifo", "empty", "sleep"}]
  /\ {wakeToken, handlerSet} \subseteq BOOLEAN /\ produced \in 0 .. MaxProduced

(* Outbound: whatever the CPUs do at once, the IOP sees exactly the messages *)
(* whose send returned Ok, whole (SEND0 and SEND1 of one message), in the    *)
(* order they were accepted, and none is dropped by a full FIFO.             *)
TxIsFifo ==
  taken \o a2i = [i \in 1 .. Len(accepted) |-> <<accepted[i], accepted[i]>>]

(* Inbound: a message is in exactly one place.  The interrupt and the tasks  *)
(* that empty the same FIFO neither lose a message nor hand it out twice.    *)
Stored == pending \o drained \o i2a
ExactlyOnce ==
  LET all == delivered \o Stored
  IN  /\ Len(all) = produced
      /\ {all[i] : i \in 1 .. Len(all)} = 1 .. produced

(* Inbound: what is stored is in the order the IOP sent it, across the two   *)
(* queues and the interrupt's local one.                                     *)
StoredInOrder ==
  \A i, j \in 1 .. Len(Stored) : i < j => Stored[i] < Stored[j]

(* A message is overtaken only by one that recv reads from the FIFO, and     *)
(* only a message that the interrupt had drained and not yet appended when   *)
(* that recv found pending_messages empty: it may be queued by now, but      *)
(* nothing that came out of the FIFO later is ever passed over.              *)
Overtaken == {i \in 1 .. Len(Stored) : Stored[i] < delivered'[Len(delivered')]}
OvertakesNow == delivered' # delivered /\ Overtaken # {}
OvertakeOnlyInFlight ==
  [][OvertakesNow =>
       /\ InRecv # {}
       /\ \A i \in Overtaken : \E j \in 1 .. Len(inFlight) : Stored[i] = inFlight[j]]_vars

(* What set_rx_ready_handler's comment promises: a consumer calling recv     *)
(* does not race the interrupt's drain, so it gets messages in FIFO order.   *)
DeliveredInOrder ==
  \A i, j \in 1 .. Len(delivered) : i < j => delivered[i] < delivered[j]

(* A queued message never leaves a receiver asleep: the interrupt's wake_all *)
(* reaches it, without the help of its timeout.                              *)
NoSleepOverMessage ==
  \A r \in Receivers :
    (rpc[r] = "sleep" /\ pending # <<>>) ~> (rpc[r] # "sleep" \/ pending = <<>>)

(* Inbound as a whole: nothing the IOP sent is lost or handed out twice, the *)
(* queues keep its order, and a receiver overtakes only by the FIFO, and     *)
(* only what an interrupt held when the receiver looked.                     *)
InboundIntact == [](ExactlyOnce /\ StoredInOrder) /\ OvertakeOnlyInFlight

=============================================================================
