------------------------------ MODULE RtkitDemux ------------------------------
(* RTKit's receive side, drivers/soc/apple-rtkit: many endpoints, one        *)
(* mailbox.  Each task polls (recv_endpoint) or waits (recv_endpoint_timeout)*)
(* for the endpoint it serves, and whoever takes a message for another one   *)
(* leaves it in pending_messages.  Messages of the system endpoints are      *)
(* answered by whoever takes them.  The mailbox is the one of AscMailbox, its *)
(* interrupt's drain loop taken in one step, and so are recv's two looks: it  *)
(* holds rx_lock over both, so that only the interrupt's append can fall      *)
(* between them, and one that does may as well follow the second look, which  *)
(* reads the FIFO alone.                                                      *)
EXTENDS Naturals, Sequences, SequencesExt, FiniteSets

CONSTANTS
  Tasks,      \* tasks that receive from one AppleRtkit
  AppEps,     \* application endpoints
  SysEp,      \* stands for the endpoints handle_internal_message answers
  Serves,     \* the endpoints each task receives for
  IrqDriven,  \* whether the ASC's receive interrupt is registered
  MaxMsgs     \* bound: how many messages the firmware sends on each endpoint

(* What an instance may choose; the modules that instantiate this one assume it. *)
DemuxAssumption ==
  /\ SysEp \notin AppEps /\ IrqDriven \in BOOLEAN
  /\ Serves \in [Tasks -> SUBSET AppEps]
  /\ MaxMsgs \in [AppEps \cup {SysEp} -> Nat]

VARIABLES
  fifo,       \* the ASC's hardware FIFO
  drained,    \* what the receive interrupt has taken and not yet queued
  queue,      \* the ASC's software queue, read before the FIFO
  pending,    \* pending_messages
  sent,       \* external: messages the firmware has sent, per endpoint
  answered,   \* system messages the driver has answered
  pc,         \* where each task is
  want,       \* the endpoint of each task's call
  held,       \* the foreign message a task has taken and not yet put away
  got,        \* messages returned to callers, per endpoint, in order
  result      \* what each task's last call returned

asc == <<fifo, drained, queue>>
vars == <<asc, pending, sent, answered, pc, want, held, got, result>>

Endpoints == AppEps \cup {SysEp}
Message == UNION {[ep : {e}, id : 1 .. MaxMsgs[e]] : e \in Endpoints}
None == "none"

Init ==
  /\ fifo = <<>> /\ drained = <<>> /\ queue = <<>> /\ pending = <<>>
  /\ sent = [e \in Endpoints |-> 0] /\ answered = 0
  /\ pc = [t \in Tasks |-> "idle"]
  /\ want = [t \in Tasks |-> None] /\ held = [t \in Tasks |-> {}]
  /\ got = [e \in AppEps |-> <<>>]
  /\ result = [t \in Tasks |-> None]

FirmwareSend(e) ==
  /\ sent[e] < MaxMsgs[e]
  /\ sent' = [sent EXCEPT ![e] = @ + 1]
  /\ fifo' = Append(fifo, [ep |-> e, id |-> sent[e] + 1])
  /\ UNCHANGED <<drained, queue, pending, answered, pc, want, held, got, result>>

(* AppleAsc::claim_interrupt *)
IrqDrain ==
  /\ IrqDriven /\ drained = <<>> /\ fifo # <<>>
  /\ drained' = fifo /\ fifo' = <<>>
  /\ UNCHANGED <<queue, pending, sent, answered, pc, want, held, got, result>>

IrqAppend ==
  /\ drained # <<>>
  /\ queue' = queue \o drained /\ drained' = <<>>
  /\ UNCHANGED <<fifo, pending, sent, answered, pc, want, held, got, result>>

(* What can_recv and recv see. *)
Visible == queue \o fifo

Return(t, r) ==
  /\ pc' = [pc EXCEPT ![t] = "idle"]
  /\ want' = [want EXCEPT ![t] = None]
  /\ result' = [result EXCEPT ![t] = r]

Deliver(t, m) ==
  /\ got' = [got EXCEPT ![m.ep] = Append(@, m.id)]
  /\ Return(t, "message")

------------------------------------------------------------------------------
(* The head of both functions: the first pending message of the endpoint,    *)
(* under the lock; without one, on to the mailbox, the lock released.        *)

PendingAt(e) == {i \in DOMAIN pending : pending[i].ep = e}
FirstOf(I) == CHOOSE i \in I : \A j \in I : i <= j

(* Mutant: the newest pending message of the endpoint. *)
TakeLastPending(t, e) ==
  LET i == CHOOSE i \in PendingAt(e) : \A j \in PendingAt(e) : i >= j
  IN  /\ Deliver(t, pending[i])
      /\ pending' = RemoveAt(pending, i)

TakePending(t, e) ==
  LET i == FirstOf(PendingAt(e))
  IN  /\ Deliver(t, pending[i])
      /\ pending' = RemoveAt(pending, i)

(* Mutant: straight to the mailbox, without a look at pending_messages. *)
CallSkipsPending(t, e, next) ==
  /\ pc[t] = "idle" /\ e \in Serves[t]
  /\ pc' = [pc EXCEPT ![t] = next]
  /\ want' = [want EXCEPT ![t] = e]
  /\ UNCHANGED <<asc, pending, sent, answered, held, got, result>>

Call(t, e, next) ==
  /\ pc[t] = "idle" /\ e \in Serves[t]
  /\ \/ /\ PendingAt(e) # {}
        /\ TakePending(t, e)
     \/ /\ PendingAt(e) = {}
        /\ pc' = [pc EXCEPT ![t] = next]
        /\ want' = [want EXCEPT ![t] = e]
        /\ UNCHANGED <<pending, got, result>>
  /\ UNCHANGED <<asc, sent, answered, held>>

PollCall(t, e) == Call(t, e, "check")
WaitCall(t, e) == Call(t, e, "wait")

------------------------------------------------------------------------------
(* A message taken from the mailbox.  "stash" is between taking a foreign    *)
(* message and putting it into pending_messages.                             *)

(* Mutant: a foreign message is dropped, as wait_any_mgmt_msg does in boot. *)
DropForeign(t, m) ==
  /\ pc' = [pc EXCEPT ![t] = IF pc[t] = "wait" THEN "wait" ELSE "check"]
  /\ UNCHANGED <<answered, want, held, got, result>>

KeepForeign(t, m) ==
  /\ held' = [held EXCEPT ![t] = {m}]
  /\ pc' = [pc EXCEPT ![t] = IF pc[t] = "wait" THEN "stashWait" ELSE "stashPoll"]
  /\ UNCHANGED <<answered, want, got, result>>

(* A system message ends a poll with false; a wait goes on. *)
AnswerSystem(t) ==
  /\ answered' = answered + 1
  /\ IF pc[t] = "wait"
       THEN UNCHANGED <<pc, want, result>>
       ELSE Return(t, "false")
  /\ UNCHANGED <<held, got>>

Take(t) ==
  LET m == Head(Visible)
  IN  /\ Visible # <<>>
      /\ IF queue # <<>>
           THEN queue' = Tail(queue) /\ UNCHANGED fifo
           ELSE fifo' = Tail(fifo) /\ UNCHANGED queue
      /\ CASE m.ep = SysEp   -> AnswerSystem(t)
           [] m.ep = want[t] -> Deliver(t, m) /\ UNCHANGED <<answered, held>>
           [] OTHER          -> KeepForeign(t, m)
      /\ UNCHANGED <<drained, pending, sent>>

------------------------------------------------------------------------------
(* recv_endpoint: recv asks can_recv and then receives, two looks at the     *)
(* mailbox with no lock across them.                                         *)

CanRecv(t) ==
  /\ pc[t] = "check"
  /\ IF Visible = <<>>
       THEN Return(t, "false")
       ELSE pc' = [pc EXCEPT ![t] = "take"] /\ UNCHANGED <<want, result>>
  /\ UNCHANGED <<asc, pending, sent, answered, held, got>>

PollTake(t) == pc[t] = "take" /\ Take(t)

(* Another consumer or the interrupt was faster: the error is returned. *)
PollStolen(t) ==
  /\ pc[t] = "take" /\ Visible = <<>>
  /\ Return(t, "error")
  /\ UNCHANGED <<asc, pending, sent, answered, held, got>>

(* recv_endpoint_timeout: asc.recv_timeout returns a message or times out. *)
WaitTake(t) == pc[t] = "wait" /\ Take(t)

WaitTimeout(t) ==
  /\ pc[t] = "wait"
  /\ Return(t, "timeout")
  /\ UNCHANGED <<asc, pending, sent, answered, held, got>>

(* Mutant: foreign messages are pushed on the wrong end. *)
StashFront(t) ==
  /\ pc[t] \in {"stashPoll", "stashWait"}
  /\ \E m \in held[t] : pending' = <<m>> \o pending
  /\ held' = [held EXCEPT ![t] = {}]
  /\ pc' = [pc EXCEPT ![t] = IF @ = "stashWait" THEN "wait" ELSE "check"]
  /\ UNCHANGED <<asc, sent, answered, want, got, result>>

(* Mutant: the copy is not given up. *)
StashCopies(t) ==
  /\ pc[t] \in {"stashPoll", "stashWait"}
  /\ \E m \in held[t] : pending' = Append(pending, m)
  /\ pc' = [pc EXCEPT ![t] = IF @ = "stashWait" THEN "wait" ELSE "check"]
  /\ UNCHANGED <<asc, sent, answered, want, held, got, result>>

(* pending_messages.push_back, then round the loop; pending is not looked at *)
(* again.                                                                    *)
Stash(t) ==
  /\ pc[t] \in {"stashPoll", "stashWait"}
  /\ \E m \in held[t] : pending' = Append(pending, m)
  /\ held' = [held EXCEPT ![t] = {}]
  /\ pc' = [pc EXCEPT ![t] = IF @ = "stashWait" THEN "wait" ELSE "check"]
  /\ UNCHANGED <<asc, sent, answered, want, got, result>>

------------------------------------------------------------------------------
Finish(t) == CanRecv(t) \/ PollTake(t) \/ PollStolen(t) \/ WaitTake(t) \/ Stash(t)

Next ==
  \/ \E e \in Endpoints : FirmwareSend(e)
  \/ IrqDrain \/ IrqAppend
  \/ \E t \in Tasks : \E e \in AppEps : PollCall(t, e) \/ WaitCall(t, e)
  \/ \E t \in Tasks : Finish(t) \/ WaitTimeout(t)

Spec == Init /\ [][Next]_vars

(* A task inside a call keeps running, a wait ends, and a task polls each    *)
(* endpoint it serves again and again (the drivers poll in a loop).          *)
FairSpec ==
  /\ Spec
  /\ WF_vars(IrqDrain) /\ WF_vars(IrqAppend)
  /\ \A t \in Tasks : WF_vars(Finish(t)) /\ WF_vars(WaitTimeout(t))
  /\ \A t \in Tasks : \A e \in Serves[t] : SF_vars(PollCall(t, e))

------------------------------------------------------------------------------
(* Types *)
TypeOK ==
  /\ {fifo, drained, queue} \subseteq Seq(Message) /\ pending \in Seq(Message)
  /\ \A e \in Endpoints : sent[e] \in 0 .. MaxMsgs[e]
  /\ answered \in 0 .. MaxMsgs[SysEp]
  /\ pc \in [Tasks -> {"idle", "check", "take", "wait", "stashPoll", "stashWait"}]
  /\ want \in [Tasks -> AppEps \cup {None}]
  /\ held \in [Tasks -> SUBSET Message]
  /\ \A t \in Tasks :
       Cardinality(held[t]) = IF pc[t] \in {"stashPoll", "stashWait"} THEN 1 ELSE 0
  /\ \A e \in AppEps : got[e] \in Seq(1 .. MaxMsgs[e])
  /\ result \in [Tasks -> {None, "message", "false", "error", "timeout"}]

Count(s, m) == Cardinality({i \in DOMAIN s : s[i] = m})
Places(m) ==
  Count(drained \o Visible, m) + Count(pending, m) + Count(got[m.ep], m.id)
    + Cardinality({t \in Tasks : m \in held[t]})

(* Whatever tasks take from the shared mailbox, a message of an application  *)
(* endpoint is at every moment in exactly one place: not lost to a task that *)
(* did not want it, not returned twice, and not returned for another one.    *)
NothingLost ==
  \A m \in Message : (m.ep \in AppEps /\ m.id <= sent[m.ep]) => Places(m) = 1

(* With no task inside a call, what a task finds pending and then in the     *)
(* mailbox is older than all that follows it: put-away messages do not change*)
(* the order of their endpoint, and they are older than the mailbox's.       *)
InLine == pending \o Visible
Waiting(e) == {i \in DOMAIN InLine : InLine[i].ep = e}
OrderAtRest ==
  (\A t \in Tasks : pc[t] = "idle") =>
     \A e \in AppEps : \A i, j \in Waiting(e) : i < j => InLine[i].id < InLine[j].id

(* "RTKit endpoint whose next message should be returned": an endpoint's     *)
(* messages are returned in the order the firmware sent them.                *)
ReturnsNext ==
  \A e \in AppEps : \A i, j \in DOMAIN got[e] : i < j => got[e][i] < got[e][j]

(* Every message of an endpoint that some task polls is returned in the end, *)
(* whoever takes it first and however often polls fail.                      *)
EveryMessageReturned ==
  \A e \in AppEps : \A n \in 1 .. MaxMsgs[e] :
    []<>(sent[e] >= n => \E i \in DOMAIN got[e] : got[e][i] = n)
=============================================================================
