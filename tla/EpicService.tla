----------------------------- MODULE EpicService ------------------------------
(* An EPIC endpoint, drivers/soc/apple-epic/src/lib.rs: commands and their     *)
(* replies through one pair of shared buffers, service announcements, the      *)
(* callbacks of the coprocessor answered while a command waits, and the life   *)
(* of the buffers.  It runs over an AFK endpoint (AfkHandshake), whose rings    *)
(* are two bounded queues here (AfkRing).                                      *)
EXTENDS AfkHandshake

CONSTANTS
  EpicChannels,   \* channels of the endpoint
  TxRoom,         \* entries the ring to the coprocessor holds
  RxRoom,         \* entries the ring from it holds
  MaxCalls,       \* bound: commands issued
  MaxCallbacks,   \* bound: callbacks and announcements of the coprocessor
  CallShapes      \* bytes available, declared and carried by a callback

ASSUME EpicAssumption ==
  /\ {TxRoom, RxRoom, MaxCalls, MaxCallbacks} \subseteq Nat
  /\ CallShapes \subseteq Nat \X Nat \X Nat

VARIABLES
  epicBuf,     \* the DMA pair: step, pages owned, pages mapped
  services,    \* registered services: sequence of [channel, name]
  call,        \* the command being waited for, or NoCall
  calls,       \* commands issued
  gaveUp,      \* commands left without their reply
  returned,    \* results given to callers
  acked,       \* callbacks answered
  refused,     \* callbacks left unanswered by an error
  toFw, toAp,  \* the two rings
  txBuf, rxBuf, \* commands the shared buffers hold
  epicFw       \* coprocessor: command at work, its callbacks, announced channels

epicVars == <<epicBuf, services, call, calls, gaveUp, returned, acked, refused, toFw, toAp, txBuf, rxBuf, epicFw>>
queueVars == <<toFw, toAp>>
resultVars == <<returned, gaveUp>>

NoCall == [n |-> 0]
NoCommand == [n |-> 0, cmd |-> "none"]
Subtypes == {"std", "raw"}

EpicInit ==
  /\ epicBuf = [step |-> "allocTx", owned |-> {}, mapped |-> {}]
  /\ services = <<>> /\ call = NoCall /\ calls = 0 /\ gaveUp = {} /\ returned = {}
  /\ acked = {} /\ refused = {} /\ toFw = <<>> /\ toAp = <<>>
  /\ txBuf = NoCommand /\ rxBuf = NoCommand
  /\ epicFw = [job |-> NoCommand, waits |-> {}, callbacks |-> 0, announced |-> <<>>]

------------------------------------------------------------------------------
(* EpicDmaBuffer::alloc: two runs of pages, then two mappings; a failure      *)
(* gives back what was taken.                                                 *)
AllocAfter == [allocTx |-> "allocRx", allocRx |-> "mapTx", mapTx |-> "mapRx", mapRx |-> "ready"]
Side(step) == IF step \in {"allocTx", "mapTx"} THEN "tx" ELSE "rx"

BufferStep ==
  /\ epicBuf.step \in DOMAIN AllocAfter
  /\ epicBuf' = [step   |-> AllocAfter[epicBuf.step],
                 owned  |-> IF epicBuf.step \in {"allocTx", "allocRx"}
                            THEN epicBuf.owned \cup {Side(epicBuf.step)} ELSE epicBuf.owned,
                 mapped |-> IF epicBuf.step \in {"mapTx", "mapRx"}
                            THEN epicBuf.mapped \cup {Side(epicBuf.step)} ELSE epicBuf.mapped]
  /\ UNCHANGED <<services, call, calls, resultVars, acked, refused, queueVars, txBuf, rxBuf, epicFw>>

(* Mutant: the second mapping fails and the first one stays. *)
FailKeepsMapping ==
  /\ epicBuf.step \in DOMAIN AllocAfter
  /\ epicBuf' = [step |-> "failed", owned |-> {}, mapped |-> epicBuf.mapped]
  /\ UNCHANGED <<services, call, calls, resultVars, acked, refused, queueVars, txBuf, rxBuf, epicFw>>

BufferFails ==
  /\ epicBuf.step \in DOMAIN AllocAfter
  /\ epicBuf' = [step |-> "failed", owned |-> {}, mapped |-> {}]
  /\ UNCHANGED <<services, call, calls, resultVars, acked, refused, queueVars, txBuf, rxBuf, epicFw>>

(* Drop: both mappings go before the pages do.                                *)
DropUnmaps ==
  /\ epicBuf.step = "ready" /\ call = NoCall
  /\ epicBuf' = [epicBuf EXCEPT !.step = "dropping", !.mapped = {}]
  /\ UNCHANGED <<services, call, calls, resultVars, acked, refused, queueVars, txBuf, rxBuf, epicFw>>

DropFrees ==
  /\ epicBuf.step = "dropping"
  /\ epicBuf' = [epicBuf EXCEPT !.step = "dropped", !.owned = {}]
  /\ UNCHANGED <<services, call, calls, resultVars, acked, refused, queueVars, txBuf, rxBuf, epicFw>>

------------------------------------------------------------------------------
(* send_command and send_raw_command write the shared request buffer and      *)
(* queue the command; a full ring refuses it with the buffer already written. *)
SendCommand(ch, subtype, cmd) ==
  /\ epicBuf.step = "ready" /\ call = NoCall /\ calls < MaxCalls
  /\ calls' = calls + 1
  /\ txBuf' = [n |-> calls + 1, cmd |-> cmd]
  /\ IF Len(toFw) < TxRoom
     THEN /\ toFw' = Append(toFw, [type |-> "command", ch |-> ch, sub |-> subtype, seq |-> calls + 1])
          /\ call' = [n |-> calls + 1, ch |-> ch, sub |-> subtype, cmd |-> cmd, at |-> "top"]
     ELSE UNCHANGED <<toFw, call>>
  /\ UNCHANGED <<epicBuf, services, resultVars, acked, refused, toAp, rxBuf, epicFw>>

(* wait_reply: the clock is looked at between two drains of the ring; the     *)
(* progress callback runs there too and may fail.                             *)
WaitGivesUp ==
  /\ call # NoCall /\ call.at = "top"
  /\ call' = NoCall /\ gaveUp' = gaveUp \cup {[n |-> call.n, ch |-> call.ch, sub |-> call.sub]}
  /\ UNCHANGED <<epicBuf, services, calls, returned, acked, refused, queueVars, txBuf, rxBuf, epicFw>>

WaitDrains ==
  /\ call # NoCall /\ call.at = "top" /\ toAp # <<>>
  /\ call' = [call EXCEPT !.at = "drain"]
  /\ UNCHANGED <<epicBuf, services, calls, resultVars, acked, refused, queueVars, txBuf, rxBuf, epicFw>>

WaitDrained ==
  /\ call # NoCall /\ call.at = "drain" /\ toAp = <<>>
  /\ call' = [call EXCEPT !.at = "top"]
  /\ UNCHANGED <<epicBuf, services, calls, resultVars, acked, refused, queueVars, txBuf, rxBuf, epicFw>>

(* handle_announce: the first name a channel gives stays.                     *)
Announced(e) ==
  services' = IF \E i \in DOMAIN services : services[i].channel = e.ch THEN services
              ELSE Append(services, [channel |-> e.ch, name |-> e.seq])

(* handle_service_call: an inline call whose parts do not fit, or whose       *)
(* handler fails, gets no answer; the answer may find the ring full.          *)
HeaderUnits == 2
CallFits(e) ==
  LET size == IF e.declared < e.available THEN e.declared ELSE e.available
  IN  size >= HeaderUnits /\ HeaderUnits + e.length <= size

ServiceCall(e) ==
  \/ /\ CallFits(e) /\ Len(toFw) < TxRoom
     /\ toFw' = Append(toFw, [type |-> "ack", ch |-> e.ch, sub |-> "std", seq |-> e.seq])
     /\ acked' = acked \cup {e.seq} /\ UNCHANGED refused
  \/ /\ refused' = refused \cup {e.seq} /\ UNCHANGED <<toFw, acked>>

HandleNotify(e) ==
  IF e.kind = "announce" THEN Announced(e) /\ UNCHANGED <<toFw, acked, refused>>
  ELSE ServiceCall(e) /\ UNCHANGED services

IsAnnounce(e) == e.kind = "announce"
(* Mutant: any reply of the subtype will do. *)
AnyChannelReply(e) == e.type = "reply" /\ e.kind = "answer" /\ e.sub = call.sub
(* is_command_reply *)
IsReply(e) == e.ch = call.ch /\ e.type = "reply" /\ e.kind = "answer" /\ e.sub = call.sub

(* parse_reply and parse_service_reply: the response is whatever the shared   *)
(* buffer holds; a standard one must repeat the group and command asked for.  *)
Parsed(e) ==
  IF ~e.ok \/ (call.sub = "std" /\ rxBuf.cmd # call.cmd) THEN {}
  ELSE {[n |-> call.n, ch |-> call.ch, sub |-> call.sub, cmd |-> call.cmd, got |-> rxBuf,
         late |-> \E g \in gaveUp : g.ch = call.ch /\ g.sub = call.sub]}

(* Mutant: what is not the reply is dropped. *)
ConsumeOnlyReply ==
  /\ call # NoCall /\ call.at = "drain" /\ toAp # <<>>
  /\ toAp' = Tail(toAp)
  /\ IF IsReply(Head(toAp)) THEN returned' = returned \cup Parsed(Head(toAp)) /\ call' = NoCall ELSE UNCHANGED <<returned, call>>
  /\ UNCHANGED <<epicBuf, services, calls, gaveUp, acked, refused, toFw, txBuf, rxBuf, epicFw>>

WaitConsumes ==
  /\ call # NoCall /\ call.at = "drain" /\ toAp # <<>>
  /\ LET e == Head(toAp)
     IN  /\ toAp' = Tail(toAp)
         /\ IF IsReply(e)
            THEN /\ returned' = returned \cup Parsed(e) /\ call' = NoCall
                 /\ UNCHANGED <<services, toFw, acked, refused>>
            ELSE /\ UNCHANGED <<returned, call>>
                 /\ IF e.type = "notify" \/ IsAnnounce(e) THEN HandleNotify(e)
                    ELSE UNCHANGED <<services, toFw, acked, refused>>
  /\ UNCHANGED <<epicBuf, calls, gaveUp, txBuf, rxBuf, epicFw>>

(* poll, outside a call: a late reply is acknowledged like a notification.    *)
Poll ==
  /\ epicBuf.step = "ready" /\ call = NoCall /\ toAp # <<>>
  /\ LET e == Head(toAp)
     IN  /\ toAp' = Tail(toAp)
         /\ IF e.type = "notify" \/ IsAnnounce(e) THEN HandleNotify(e)
            ELSE /\ toFw' = IF Len(toFw) < TxRoom
                            THEN Append(toFw, [type |-> "ack", ch |-> e.ch, sub |-> e.sub, seq |-> 0]) ELSE toFw
                 /\ UNCHANGED <<services, acked, refused>>
  /\ UNCHANGED <<epicBuf, call, calls, resultVars, txBuf, rxBuf, epicFw>>

------------------------------------------------------------------------------
(* External: the coprocessor takes entries in order, works on one command at  *)
(* a time from the buffer as it is then, and may ask for callbacks first.     *)
Entry(type, kind, ch, sub, seq) ==
  [type |-> type, kind |-> kind, ch |-> ch, sub |-> sub, seq |-> seq, ok |-> TRUE,
   available |-> 3, declared |-> 3, length |-> 1]

FwAnnounces(ch, type) ==
  /\ Len(toAp) < RxRoom /\ epicFw.callbacks < MaxCallbacks
  /\ toAp' = Append(toAp, Entry(type, "announce", ch, "none", epicFw.callbacks + 1))
  /\ epicFw' = [epicFw EXCEPT !.callbacks = @ + 1, !.announced = Append(@, [channel |-> ch, name |-> epicFw.callbacks + 1])]
  /\ UNCHANGED <<epicBuf, services, call, calls, resultVars, acked, refused, toFw, txBuf, rxBuf>>

FwCallsBack(ch, shape) ==
  /\ epicBuf.step = "ready" /\ Len(toAp) < RxRoom /\ epicFw.callbacks < MaxCallbacks
  /\ toAp' = Append(toAp, [Entry("notify", "service", ch, "std", epicFw.callbacks + 1)
                           EXCEPT !.available = shape[1], !.declared = shape[2], !.length = shape[3]])
  /\ epicFw' = [epicFw EXCEPT !.callbacks = @ + 1, !.waits = @ \cup {epicFw.callbacks + 1}]
  /\ UNCHANGED <<epicBuf, services, call, calls, resultVars, acked, refused, toFw, txBuf, rxBuf>>

FwTakes ==
  /\ toFw # <<>>
  /\ LET e == Head(toFw)
     IN  \/ /\ e.type = "ack" /\ toFw' = Tail(toFw)
            /\ epicFw' = [epicFw EXCEPT !.waits = @ \ {e.seq}]
         \/ /\ e.type = "command" /\ epicFw.job = NoCommand /\ epicBuf.step = "ready"
            /\ toFw' = Tail(toFw)
            /\ epicFw' = [epicFw EXCEPT !.job = [n |-> e.seq, cmd |-> txBuf.cmd, of |-> txBuf.n, ch |-> e.ch, sub |-> e.sub]]
  /\ UNCHANGED <<epicBuf, services, call, calls, resultVars, acked, refused, toAp, txBuf, rxBuf>>

FwReplies(ok) ==
  /\ epicFw.job # NoCommand /\ epicFw.waits = {} /\ Len(toAp) < RxRoom /\ epicBuf.step = "ready"
  /\ rxBuf' = [n |-> epicFw.job.of, cmd |-> epicFw.job.cmd]
  /\ toAp' = Append(toAp, [Entry("reply", "answer", epicFw.job.ch, epicFw.job.sub, epicFw.job.n) EXCEPT !.ok = ok])
  /\ epicFw' = [epicFw EXCEPT !.job = NoCommand]
  /\ UNCHANGED <<epicBuf, services, call, calls, resultVars, acked, refused, toFw, txBuf>>

EpicNext ==
  \/ BufferStep \/ BufferFails \/ DropUnmaps \/ DropFrees
  \/ WaitGivesUp \/ WaitDrains \/ WaitDrained \/ WaitConsumes \/ Poll \/ FwTakes
  \/ \E ch \in EpicChannels, s \in Subtypes, c \in {"get", "set"} : SendCommand(ch, s, c)
  \/ \E ch \in EpicChannels, t \in {"notify", "reply"} : FwAnnounces(ch, t)
  \/ \E ch \in EpicChannels, shape \in CallShapes : FwCallsBack(ch, shape)
  \/ \E ok \in BOOLEAN : FwReplies(ok)

EpicSpec == EpicInit /\ [][EpicNext]_epicVars

------------------------------------------------------------------------------
(* A call gets the answer of its own request, unless an earlier one on the    *)
(* same channel and of the same kind was given up; a standard call never gets *)
(* the answer of another command.                                             *)
OwnAnswer ==
  \A r \in returned : /\ r.got.n > 0
                      /\ ~r.late => r.got.n = r.n
                      /\ r.sub = "std" => r.got.cmd = r.cmd

(* The coprocessor waits only for callbacks that are on their way to the      *)
(* driver, answered, or refused: one that arrives while a command is awaited  *)
(* is answered from within the wait, or both sides would wait for ever.       *)
CallbacksAnswered ==
  epicFw.waits \subseteq acked \cup refused
    \cup {toAp[i].seq : i \in {j \in DOMAIN toAp : toAp[j].kind = "service"}}

(* A channel is registered once, with its first announcement, whichever       *)
(* message type and loop brought it.                                          *)
AnnouncedIsKnown ==
  /\ \A i, j \in DOMAIN services : services[i].channel = services[j].channel => i = j
  /\ \A i \in DOMAIN epicFw.announced :
       LET a == epicFw.announced[i]
       IN  \/ \E j \in DOMAIN services : services[j].channel = a.channel /\ services[j].name <= a.name
           \/ \E j \in DOMAIN toAp : toAp[j].kind = "announce" /\ toAp[j].seq = a.name

(* The device never maps pages that were given back, and a failed or dropped  *)
(* endpoint keeps neither.                                                    *)
MappedIsOwned ==
  /\ epicBuf.mapped \subseteq epicBuf.owned
  /\ epicBuf.step \in {"failed", "dropped"} => epicBuf.owned = {}

(* The services over one AFK ring: an answer belongs to its call, both sides   *)
(* never wait for each other, announcements reach the table once, and the      *)
(* device keeps no page of an endpoint that is gone.                           *)
EpicSound == OwnAnswer /\ CallbacksAnswered /\ AnnouncedIsKnown /\ MappedIsOwned

(* The way to a service: an endpoint is started on rings that both sides know, *)
(* its buffers are the device's only while they are the driver's, and commands *)
(* and callbacks over it are answered.                                         *)
ServicesAnswered == EndpointSound /\ EpicSound

=============================================================================
