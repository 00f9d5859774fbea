-------------------------------- MODULE SpiHid --------------------------------
(* The keyboard and trackpad of a laptop behind SPI (spi/apple-spi-hid): the    *)
(* boot packet, the requests of the initialisation, then reports announced by  *)
(* a level-triggered line and read by a worker.  A message is cut into packets *)
(* that carry their offset; packets are lost or damaged.                       *)
EXTENDS Integers, Sequences, FiniteSets, SequencesExt

CONSTANTS
  HidRequests,    \* requests of the initialisation; only the first must succeed
  MaxHidReports,  \* reports the device sends
  MaxHidDrain,    \* messages read per interrupt
  MaxHidFaults    \* packets lost or damaged

ASSUME HidAssumption == MaxHidDrain \in Nat \ {0}

VARIABLES
  phase,    \* off, boot, request, up, failed
  request,  \* the request being made, and whether it was sent
  asm,      \* packets of the message being received
  gpio,     \* the interrupt line is enabled
  workQueued,  \* interrupt work was queued
  worker,   \* idle, or how many messages this round may still read
  device,   \* what the device sent and has to answer
  handled,  \* reports handed on; what the requests got
  hidFaults

spiHidVars == <<phase, request, asm, gpio, workQueued, worker, device, handled, hidFaults>>

SpiHidInit ==
  /\ phase = "off" /\ request = [n |-> 0, sent |-> FALSE] /\ asm = <<>>
  /\ gpio = FALSE /\ workQueued = FALSE /\ worker = 0
  /\ device = [line |-> <<>>, asked |-> {}, booted |-> FALSE, reports |-> 0]
  /\ handled = [reports |-> <<>>, answers |-> <<>>] /\ hidFaults = 0

LineActive == device.line # <<>>
Packets(kind, id, n) == [i \in 1..n |-> [kind |-> kind, id |-> id, i |-> i - 1, n |-> n]]
Whole(m) == \A p \in ToSet(m) : p.id = m[1].id /\ p.kind = m[1].kind

(* The device. *)
Sends(packets) == device' = [device EXCEPT !.line = @ \o packets]
DeviceBoots ==
  /\ phase = "boot" /\ ~device.booted
  /\ device' = [device EXCEPT !.line = @ \o Packets("boot", 0, 1), !.booted = TRUE]
  /\ UNCHANGED <<phase, request, asm, gpio, workQueued, worker, handled, hidFaults>>
DeviceReports ==
  /\ device.booted /\ device.reports < MaxHidReports
  /\ device' = [device EXCEPT !.line = @ \o Packets("report", device.reports + 1, 2), !.reports = @ + 1]
  /\ UNCHANGED <<phase, request, asm, gpio, workQueued, worker, handled, hidFaults>>
DeviceAnswers(r) ==
  /\ r \in device.asked
  /\ device' = [device EXCEPT !.line = @ \o Packets("answer", r, 2), !.asked = @ \ {r}]
  /\ UNCHANGED <<phase, request, asm, gpio, workQueued, worker, handled, hidFaults>>
LosePacket ==
  /\ hidFaults < MaxHidFaults /\ LineActive
  /\ device' = [device EXCEPT !.line = Tail(@)] /\ hidFaults' = hidFaults + 1
  /\ UNCHANGED <<phase, request, asm, gpio, workQueued, worker, handled>>
-----------------------------------------------------------------------------
(* Receiving one packet of recv_packet_message: the rest of a message is read  *)
(* without asking the line.                                                    *)
Received(p) == Append(asm, p)
(* The message's own checksum covers all its packets. *)
(* Mutant: it is not looked at. *)
AnyMessage(m) == TRUE
VerifyMessage(m) == Whole(m)

Reading == phase \in {"boot", "request"} \/ worker > 0
FitsMessage(p) == \A q \in ToSet(asm) : q.kind = p.kind
Damaged == hidFaults < MaxHidFaults /\ hidFaults' = hidFaults + 1
ReadFails ==
  \/ asm # <<>> /\ ~LineActive /\ UNCHANGED <<device, hidFaults>>
  \/ /\ LineActive /\ device' = [device EXCEPT !.line = Tail(@)]
     /\ \/ Damaged
        \/ /\ ~FitsMessage(Head(device.line)) \/ Head(device.line).i # Len(asm)
           /\ UNCHANGED hidFaults
ReadsPacket ==
  /\ LineActive /\ FitsMessage(Head(device.line)) /\ Head(device.line).i = Len(asm)
  /\ device' = [device EXCEPT !.line = Tail(@)] /\ UNCHANGED hidFaults

ReadsPart ==
  /\ Reading /\ ReadsPacket /\ Head(device.line).i + 1 < Head(device.line).n
  /\ asm' = Received(Head(device.line))
  /\ UNCHANGED <<phase, request, gpio, workQueued, worker, handled>>
Message == Received(Head(device.line))
ReadsLast == ReadsPacket /\ Head(device.line).i + 1 = Head(device.line).n /\ asm' = <<>>
-----------------------------------------------------------------------------
(* probe_fn: the interrupt is requested and disabled, power_on, then the wait  *)
(* for the boot packet.  A probe that fails frees the interrupt.               *)
ProbeBegins ==
  /\ phase = "off" /\ phase' = "boot"
  /\ UNCHANGED <<request, asm, gpio, workQueued, worker, device, handled, hidFaults>>
ProbeFails == phase' = "failed" /\ asm' = <<>> /\ UNCHANGED <<request, gpio, workQueued, worker, handled>>
BootRead ==
  /\ phase = "boot" /\ ReadsLast
  /\ phase' = IF Message[1].kind = "boot" THEN "request" ELSE "boot"
  /\ request' = IF Message[1].kind = "boot" THEN [n |-> 1, sent |-> FALSE] ELSE request
  /\ UNCHANGED <<gpio, workQueued, worker, handled>>
NothingToRead == ~LineActive /\ UNCHANGED <<device, hidFaults>>
BootFails == phase = "boot" /\ (ReadFails \/ NothingToRead) /\ ProbeFails

(* send_request and finish_initialization_requests *)
SendHidRequest ==
  /\ phase = "request" /\ ~request.sent
  /\ request' = [request EXCEPT !.sent = TRUE]
  /\ device' = [device EXCEPT !.asked = @ \cup {request.n}]
  /\ UNCHANGED <<phase, asm, gpio, workQueued, worker, handled, hidFaults>>
(* The last request done, the driver is ready and lets interrupts in. *)
NextHidRequest(answer) ==
  /\ handled' = [handled EXCEPT !.answers = Append(@, answer)]
  /\ request' = [n |-> request.n + 1, sent |-> FALSE]
  /\ IF request.n = HidRequests THEN phase' = "up" /\ gpio' = TRUE ELSE UNCHANGED <<phase, gpio>>
  /\ UNCHANGED <<workQueued, worker>>
(* Mutant: any answer of the device will do. *)
AnyAnswer(m) == m[1].kind = "answer"
AnswersRequest(m) == m[1].kind = "answer" /\ m[1].id = request.n
RequestRead ==
  /\ phase = "request" /\ request.sent /\ ReadsLast
  /\ IF Message[1].kind = "answer" /\ ~VerifyMessage(Message)
     THEN IF request.n = 1 THEN phase' = "failed" /\ UNCHANGED <<request, gpio, workQueued, worker, handled>>
          ELSE NextHidRequest(0)
     ELSE IF AnswersRequest(Message) THEN NextHidRequest(Message[1].id)
     ELSE UNCHANGED <<phase, request, gpio, workQueued, worker, handled>>
(* It failed or ran out of attempts: fatal for the first request only. *)
HidRequestFails ==
  /\ phase = "request" /\ request.sent
  /\ ReadFails \/ NothingToRead
  /\ asm' = <<>>
  /\ IF request.n = 1 THEN phase' = "failed" /\ UNCHANGED <<request, gpio, workQueued, worker, handled>>
     ELSE NextHidRequest(0)
-----------------------------------------------------------------------------
(* handle_interrupt and queue_interrupt_work; the worker is woken. *)
LineInterrupt ==
  /\ gpio /\ LineActive /\ phase = "up"
  /\ gpio' = FALSE /\ workQueued' = TRUE
  /\ UNCHANGED <<phase, request, asm, worker, device, handled, hidFaults>>

(* process_deferred_interrupt_work: service_pending_reads, then the line again *)
WorkBegins ==
  /\ worker = 0 /\ workQueued
  /\ workQueued' = FALSE /\ worker' = MaxHidDrain
  /\ UNCHANGED <<phase, request, asm, gpio, device, handled, hidFaults>>
(* recv_report: what is no report is dropped. *)
WorkReads ==
  /\ worker > 0 /\ ReadsLast
  /\ IF Message[1].kind = "report" /\ ~VerifyMessage(Message)
     THEN worker' = 0 /\ gpio' = TRUE /\ UNCHANGED handled
     ELSE /\ handled' = [handled EXCEPT !.reports =
                           IF Message[1].kind = "report" THEN Append(@, Message) ELSE @]
          /\ worker' = worker - 1 /\ gpio' = (worker = 1)
  /\ UNCHANGED <<phase, request, workQueued>>
(* Mutant: after an error the line stays disabled. *)
WorkGivesUp ==
  /\ worker > 0 /\ ReadFails
  /\ asm' = <<>> /\ worker' = 0
  /\ UNCHANGED <<phase, request, gpio, workQueued, handled>>
WorkFails ==
  /\ worker > 0 /\ ReadFails
  /\ asm' = <<>> /\ worker' = 0 /\ gpio' = TRUE
  /\ UNCHANGED <<phase, request, workQueued, handled>>
WorkDone ==
  /\ worker > 0 /\ asm = <<>> /\ ~LineActive
  /\ worker' = 0 /\ gpio' = TRUE
  /\ UNCHANGED <<phase, request, asm, workQueued, device, handled, hidFaults>>

SpiHidNext ==
  \/ DeviceBoots \/ DeviceReports \/ (\E r \in 1..HidRequests : DeviceAnswers(r)) \/ LosePacket
  \/ ReadsPart \/ ProbeBegins \/ BootRead \/ BootFails
  \/ SendHidRequest \/ RequestRead \/ HidRequestFails
  \/ LineInterrupt \/ WorkBegins \/ WorkReads \/ WorkFails \/ WorkDone

SpiHidSpec == SpiHidInit /\ [][SpiHidNext]_spiHidVars
-----------------------------------------------------------------------------
(* Once up, the driver always has a way to hear of a report: the line is       *)
(* enabled, or work is queued, or the worker reads and will enable it.         *)
NeverDeaf == phase = "up" => gpio \/ workQueued \/ worker > 0

(* A report that is handed on is one the device sent, with all its packets,    *)
(* and reports come in the order in which they were sent, whatever was lost.   *)
WholeReports ==
  /\ \A m \in ToSet(handled.reports) : Whole(m) /\ Len(m) = m[1].n
  /\ \A i, j \in DOMAIN handled.reports : i < j => handled.reports[i][1].id < handled.reports[j][1].id

(* What a request returns is the answer to it, although answers of requests    *)
(* that were given up come later.                                              *)
AnswerIsOwn == \A i \in DOMAIN handled.answers : handled.answers[i] \in {0, i}

-----------------------------------------------------------------------------
(* From keyboard and trackpad reports to input events (spi/apple-spi-hid):     *)
(* changes against the last report, repeats from a task of their own, motion   *)
(* against the last touch.  A key is a usage; those without a code make no     *)
(* event (an overflowing keyboard sends such usages only).                     *)

CONSTANTS
  Modifiers, Keys,   \* usages with a code
  Codeless,          \* usages without one
  NoKey, KeyLists,   \* the six keys of a report, as sequences of usages and NoKey
  RepeatDelay, RepeatPeriod, MaxHidTime,
  Touches            \* finger positions; the empty sequence when none touches

InKeys(list) == {list[i] : i \in DOMAIN list} \ {NoKey}

(* A list names the usages of keys; the modifiers have a byte of their own.     *)
ASSUME HidInputAssumption ==
  RepeatDelay \in Nat \ {0} /\ \A list \in KeyLists : InKeys(list) \cap Modifiers = {}

VARIABLES
  lastKeys,      \* last report: modifiers, keys, press time, last repeat
  events,    \* what the listener believes: pressed keys and the button
  emitting,  \* a report being turned into events: "no" or the new report
  repeater,  \* the repeat task: the modifiers it read, or "idle"
  clock,     \* time
  lastOut,   \* the event of the last step, for the properties
  touch      \* last touch, and the motion the last report made

hidInputVars == <<lastKeys, events, emitting, repeater, clock, lastOut, touch>>

NoOut == [kind |-> "none", keys |-> {}]
Coded(S) == S \ Codeless

HidInputInit ==
  /\ lastKeys = [mods |-> {}, keys |-> {}, pressed |-> 0, repeated |-> 0]
  /\ events = [keys |-> {}, button |-> FALSE] /\ emitting = [at |-> "no"] /\ repeater = [at |-> "idle"]
  /\ clock = 1 /\ lastOut = NoOut
  /\ touch = [last |-> <<>>, moved |-> <<0, 0>>, touched |-> TRUE]

(* The repeat task is not kept from a lock for as long as a first delay. *)
HidTicks ==
  /\ clock < MaxHidTime
  /\ repeater.at = "waits" => clock + 1 < repeater.since + RepeatDelay
  /\ clock' = clock + 1 /\ lastOut' = NoOut
  /\ UNCHANGED <<lastKeys, events, emitting, repeater, touch>>

(* emit_key_changes holds both locks from its beginning to its end: first the  *)
(* releases and presses ...                                                    *)
(* Mutant: a keyboard that overflows releases nothing. *)
KeyEventsNoClear(mods, list) ==
  /\ emitting.at = "no"
  /\ LET gone == IF InKeys(list) \cap Codeless # {} THEN {} ELSE (lastKeys.mods \ mods) \cup Coded(lastKeys.keys \ InKeys(list))
         new == (mods \ lastKeys.mods) \cup Coded(InKeys(list) \ lastKeys.keys)
     IN  events' = [events EXCEPT !.keys = (@ \ gone) \cup new]
  /\ emitting' = [at |-> "record", mods |-> mods, keys |-> InKeys(list)]
  /\ lastOut' = NoOut
  /\ UNCHANGED <<lastKeys, repeater, clock, touch>>
KeyEvents(mods, list) ==
  /\ emitting.at = "no"
  /\ LET gone == (lastKeys.mods \ mods) \cup Coded(lastKeys.keys \ InKeys(list))
         new == (mods \ lastKeys.mods) \cup Coded(InKeys(list) \ lastKeys.keys)
     IN  events' = [events EXCEPT !.keys = (@ \ gone) \cup new]
  /\ emitting' = [at |-> "record", mods |-> mods, keys |-> InKeys(list)]
  /\ lastOut' = NoOut
  /\ UNCHANGED <<lastKeys, repeater, clock, touch>>
(* ... then the record of what is held, and since when. *)
(* Mutant: the time of the first press counts. *)
RecordKeepsTime ==
  /\ emitting.at = "record"
  /\ lastKeys' = [lastKeys EXCEPT !.mods = emitting.mods, !.keys = emitting.keys, !.repeated = 0]
  /\ emitting' = [at |-> "no"] /\ lastOut' = NoOut
  /\ UNCHANGED <<events, repeater, clock, touch>>
RecordKeys ==
  /\ emitting.at = "record"
  /\ lastKeys' = [mods |-> emitting.mods, keys |-> emitting.keys, pressed |-> clock, repeated |-> 0]
  /\ emitting' = [at |-> "no"] /\ lastOut' = NoOut
  /\ UNCHANGED <<events, repeater, clock, touch>>

(* maybe_repeat_keys reads the modifiers, and only then takes the keys' lock.  *)
RepeatReads ==
  /\ repeater.at = "idle" /\ emitting.at = "no"
  /\ repeater' = [at |-> "waits", mods |-> lastKeys.mods, since |-> clock] /\ lastOut' = NoOut
  /\ UNCHANGED <<lastKeys, events, emitting, clock, touch>>
NextRepeat == IF lastKeys.repeated = 0 THEN lastKeys.pressed + RepeatDelay ELSE lastKeys.repeated + RepeatPeriod
RepeatKeys ==
  /\ repeater.at = "waits" /\ emitting.at = "no"
  /\ IF repeater.mods \cup lastKeys.keys = {} \/ clock < NextRepeat
     THEN lastOut' = NoOut /\ UNCHANGED lastKeys
     ELSE /\ lastOut' = [kind |-> "repeat", keys |-> repeater.mods \cup Coded(lastKeys.keys)]
          /\ lastKeys' = [lastKeys EXCEPT !.repeated = clock]
  /\ repeater' = [at |-> "idle"]
  /\ UNCHANGED <<events, emitting, clock, touch>>

(* handle_trackpad_report: motion is the difference of two touches of one      *)
(* stroke; a report without a finger ends it.                                  *)
Apart(a, b) == IF a >= b THEN (a - b) \div 12 ELSE -((b - a) \div 12)
(* Mutant: a lifted finger leaves its last position. *)
KeepTouch(at) == IF at = <<>> THEN touch.last ELSE at
EndTouch(at) == at
TrackpadReport(at, clicked) ==
  /\ touch' = [last |-> EndTouch(at), touched |-> at # <<>>,
               moved |-> IF at = <<>> \/ touch.last = <<>> THEN <<0, 0>>
                         ELSE <<Apart(at[1], touch.last[1]), Apart(at[2], touch.last[2])>>]
  /\ events' = [events EXCEPT !.button = clicked] /\ lastOut' = NoOut
  /\ UNCHANGED <<lastKeys, emitting, repeater, clock>>

HidInputNext ==
  \/ HidTicks
  \/ \E mods \in SUBSET Modifiers, list \in KeyLists : KeyEvents(mods, list)
  \/ RecordKeys \/ RepeatReads \/ RepeatKeys
  \/ \E at \in Touches, clicked \in BOOLEAN : TrackpadReport(at, clicked)

HidInputSpec == HidInputInit /\ [][HidInputNext]_hidInputVars
-----------------------------------------------------------------------------
(* A key that was released is not repeated, although the modifiers are read    *)
(* before the lock of the keys is taken, and a report may come in between.     *)
RepeatsAreHeld == lastOut.kind = "repeat" => lastOut.keys \subseteq events.keys

(* What the listener takes for pressed is what the last report said, whatever  *)
(* came before: no key sticks and none is lost.                                *)
EventsMirrorReports == emitting.at = "no" => events.keys = lastKeys.mods \cup Coded(lastKeys.keys)

(* A finger put down anew does not move the pointer: only a report that        *)
(* follows a touch does.                                                       *)
NoJumpAfterLift == [][touch'.moved # <<0, 0>> => touch.touched \/ touch'.moved = touch.moved]_hidInputVars
=============================================================================
