----------------------------- MODULE AfkHandshake ------------------------------
(* The life of an AFK endpoint, drivers/soc/apple-afk/src/lib.rs: the handshake *)
(* that agrees on a shared buffer and two rings in it, shutdown, and drop.  The *)
(* endpoint of a failed probe is dropped while its coprocessor runs on; the     *)
(* next one shares the mailbox, with what the first one left in it.             *)
EXTENDS Naturals, Sequences, FiniteSets

CONSTANTS
  MaxEndpoints,  \* bound: endpoints created, one after another
  AfkFaults,     \* bound: failed sends, allocations, mappings, and timeouts
  RingLayouts,   \* what firmware asks for: blocks of the buffer, [off, size] of both rings
  BufferTags     \* tags of firmware's buffers

ASSUME AfkAssumption ==
  /\ RingLayouts # {} /\ RingLayouts \subseteq [blocks : Nat, tx : Nat \X Nat, rx : Nat \X Nat]
  /\ MaxEndpoints \in Nat /\ AfkFaults \in Nat

VARIABLES
  afk,         \* AfkEndpoint and the point its handshake is at; what others left for it
  afkPages,    \* buffers by endpoint: pages owned, mappings of the device
  afkHeaders,  \* headers firmware wrote: [buffer, off, size]
  rbepIn,      \* RBEP messages to the driver
  rbepOut,     \* RBEP messages to the firmware
  afkFw,       \* firmware: phase, buffer it was given, layout and tag it chose
  afkFaults    \* faults so far

afkVars == <<afk, afkPages, afkHeaders, rbepIn, rbepOut, afkFw, afkFaults>>
rbepVars == <<rbepIn, rbepOut>>

HeaderBlocks == 3   \* a ring's header: 0xC0 bytes
NoShared == [blocks |-> 0]
NoRing == [ready |-> FALSE]
RingNames == {"tx", "rx"}

AfkInit ==
  /\ afk = [at |-> "none", n |-> 0, shared |-> NoShared, rings |-> [r \in RingNames |-> NoRing],
            done |-> {}, started |-> FALSE, mixed |-> FALSE]
  /\ afkPages = [owned |-> {}, mapped |-> {}]
  /\ afkHeaders = {} /\ rbepIn = <<>> /\ rbepOut = <<>> /\ afkFaults = 0
  /\ afkFw = [phase |-> "idle", buffer |-> 0, layout |-> CHOOSE l \in RingLayouts : TRUE, tag |-> 0]

------------------------------------------------------------------------------
(* What endpoints before this one left: requests for a buffer that nobody has  *)
(* read, and rings announced, or about to be, in answer to another request.    *)
Left(ms, types) == \E i \in DOMAIN ms : ms[i].type \in types
RequestLeft == Left(rbepIn, {"GETBUF"}) \/ Left(rbepOut, {"INIT"})
RingsLeft == Left(rbepIn, {"INIT_TX", "INIT_RX"}) \/ Left(rbepOut, {"GETBUF_ACK"}) \/ afkFw.phase = "rings"

NewEndpoint ==
  /\ afk.at = "none" /\ afk.n < MaxEndpoints
  /\ afk' = [at |-> "init", n |-> afk.n + 1, shared |-> NoShared, rings |-> [r \in RingNames |-> NoRing],
             done |-> {}, started |-> FALSE, mixed |-> RequestLeft /\ RingsLeft]
  /\ UNCHANGED <<afkPages, afkHeaders, rbepVars, afkFw, afkFaults>>

(* Every error of the handshake leaves start; its caller drops the endpoint.   *)
FailStart(a) == afk' = [a EXCEPT !.at = "failed"]
Fault == afkFaults < AfkFaults /\ afkFaults' = afkFaults + 1

(* send_rbep, for the messages without a payload.                              *)
Sends == [init |-> "INIT", start |-> "START"]
WaitsFor == [init |-> "INIT_ACK", start |-> "START_ACK"]

SendMessage ==
  /\ afk.at \in DOMAIN Sends
  /\ \/ /\ rbepOut' = Append(rbepOut, [type |-> Sends[afk.at]])
        /\ afk' = [afk EXCEPT !.at = WaitsFor[afk.at]] /\ UNCHANGED afkFaults
     \/ Fault /\ FailStart(afk) /\ UNCHANGED rbepOut
  /\ UNCHANGED <<afkPages, afkHeaders, rbepIn, afkFw>>

(* wait_rbep_type: what was not waited for is logged and dropped.              *)
After == [INIT_ACK |-> "GETBUF", START_ACK |-> "up"]
Expected(m) == m.type = afk.at

WaitStep ==
  /\ afk.at \in DOMAIN After /\ rbepIn # <<>>
  /\ rbepIn' = Tail(rbepIn)
  /\ afk' = IF Expected(Head(rbepIn))
            THEN [afk EXCEPT !.at = After[afk.at], !.started = afk.at = "START_ACK"] ELSE afk
  /\ UNCHANGED <<afkPages, afkHeaders, rbepOut, afkFw, afkFaults>>

WaitTimesOut ==
  /\ afk.at \in DOMAIN After \cup {"GETBUF", "rings"} /\ Fault
  /\ FailStart(afk)
  /\ UNCHANGED <<afkPages, afkHeaders, rbepVars, afkFw>>

(* handle_getbuf: pages, then their mapping, then the answer with its address. *)
ReceiveGetbuf ==
  /\ afk.at = "GETBUF" /\ rbepIn # <<>>
  /\ rbepIn' = Tail(rbepIn)
  /\ LET m == Head(rbepIn)
     IN  IF m.type # "GETBUF" THEN UNCHANGED <<afk, afkPages, afkFaults>>
         ELSE \/ /\ afk' = [afk EXCEPT !.at = "map", !.shared = [blocks |-> m.blocks, tag |-> m.tag]]
                 /\ afkPages' = [afkPages EXCEPT !.owned = @ \cup {afk.n}] /\ UNCHANGED afkFaults
              \/ Fault /\ FailStart(afk) /\ UNCHANGED afkPages
  /\ UNCHANGED <<afkHeaders, rbepOut, afkFw>>

(* Mutant: the pages that could not be mapped are forgotten. *)
ForgetsPages ==
  /\ afk.at = "map"
  /\ \/ /\ afkPages' = [afkPages EXCEPT !.mapped = @ \cup {afk.n}]
        /\ afk' = [afk EXCEPT !.at = "answer"] /\ UNCHANGED afkFaults
     \/ Fault /\ FailStart([afk EXCEPT !.shared = NoShared]) /\ UNCHANGED afkPages
  /\ UNCHANGED <<afkHeaders, rbepVars, afkFw>>
MapShared ==
  /\ afk.at = "map"
  /\ \/ /\ afkPages' = [afkPages EXCEPT !.mapped = @ \cup {afk.n}]
        /\ afk' = [afk EXCEPT !.at = "answer"] /\ UNCHANGED afkFaults
     \/ /\ Fault /\ FailStart([afk EXCEPT !.shared = NoShared])
        /\ afkPages' = [afkPages EXCEPT !.owned = @ \ {afk.n}]
  /\ UNCHANGED <<afkHeaders, rbepVars, afkFw>>

AnswerGetbuf ==
  /\ afk.at = "answer"
  /\ \/ /\ rbepOut' = Append(rbepOut, [type |-> "GETBUF_ACK", buffer |-> afk.n])
        /\ afk' = [afk EXCEPT !.at = "rings"] /\ UNCHANGED afkFaults
     \/ Fault /\ FailStart(afk) /\ UNCHANGED rbepOut
  /\ UNCHANGED <<afkPages, afkHeaders, rbepIn, afkFw>>

(* init_ring_buffer: the ring must be of this buffer, lie in it, and carry a   *)
(* header that firmware wrote with the size it announces.                      *)
(* Mutant: the end of the ring is not looked at. *)
StartFits(m) == m.tag = afk.shared.tag /\ m.off <= afk.shared.blocks
RingFits(m) ==
  /\ m.tag = afk.shared.tag /\ m.off + m.size <= afk.shared.blocks
  /\ \E h \in afkHeaders : h.buffer = afk.n /\ h.off = m.off /\ h.size + HeaderBlocks = m.size

(* wait_init_ringbuffers: both, in any order; the last one of a name stays.    *)
RingOf == [INIT_TX |-> "tx", INIT_RX |-> "rx"]

ReceiveRing ==
  /\ afk.at = "rings" /\ rbepIn # <<>>
  /\ rbepIn' = Tail(rbepIn)
  /\ LET m == Head(rbepIn)
     IN  IF m.type \notin DOMAIN RingOf THEN UNCHANGED afk
         ELSE IF ~RingFits(m) THEN FailStart(afk)
         ELSE LET done == afk.done \cup {RingOf[m.type]}
              IN  afk' = [afk EXCEPT !.rings[RingOf[m.type]] = [ready |-> TRUE, off |-> m.off, size |-> m.size],
                                     !.done = done, !.at = IF done = RingNames THEN "start" ELSE @]
  /\ UNCHANGED <<afkPages, afkHeaders, rbepOut, afkFw, afkFaults>>

(* drain_rbep, while the endpoint is in use.                                   *)
DrainRbep ==
  /\ afk.at = "up" /\ rbepIn # <<>> /\ rbepIn' = <<>>
  /\ UNCHANGED <<afk, afkPages, afkHeaders, rbepOut, afkFw, afkFaults>>

(* shutdown: an acknowledgement that does not come is not an error.            *)
Shutdown ==
  /\ afk.at = "up"
  /\ \/ /\ rbepOut' = Append(rbepOut, [type |-> "SHUTDOWN"])
        /\ afk' = [afk EXCEPT !.at = "SHUTDOWN_ACK"] /\ UNCHANGED afkFaults
     \/ Fault /\ UNCHANGED <<afk, rbepOut>>
  /\ UNCHANGED <<afkPages, afkHeaders, rbepIn, afkFw>>

ShutdownWait ==
  /\ afk.at = "SHUTDOWN_ACK"
  /\ \/ /\ rbepIn # <<>> /\ rbepIn' = Tail(rbepIn) /\ UNCHANGED afkFaults
        /\ afk' = IF Expected(Head(rbepIn)) THEN [afk EXCEPT !.at = "down", !.started = FALSE] ELSE afk
     \/ /\ Fault /\ afk' = [afk EXCEPT !.at = "down", !.started = FALSE] /\ UNCHANGED rbepIn
  /\ UNCHANGED <<afkPages, afkHeaders, rbepOut, afkFw>>

(* Drop: the device loses the buffer before the kernel gets it back.           *)
(* Mutant: the pages are freed first. *)
FreesFirst ==
  /\ afk.at \in {"failed", "up", "down"}
  /\ afk' = [afk EXCEPT !.at = "dropping", !.started = FALSE]
  /\ afkPages' = IF afk.shared = NoShared THEN afkPages ELSE [afkPages EXCEPT !.owned = @ \ {afk.n}]
  /\ UNCHANGED <<afkHeaders, rbepVars, afkFw, afkFaults>>
DropUnmapsBuffer ==
  /\ afk.at \in {"failed", "up", "down"}
  /\ afk' = [afk EXCEPT !.at = "dropping", !.started = FALSE]
  /\ afkPages' = IF afk.shared = NoShared THEN afkPages ELSE [afkPages EXCEPT !.mapped = @ \ {afk.n}]
  /\ UNCHANGED <<afkHeaders, rbepVars, afkFw, afkFaults>>

DropFreesBuffer ==
  /\ afk.at = "dropping"
  /\ afk' = [afk EXCEPT !.at = "none", !.shared = NoShared, !.rings = [r \in RingNames |-> NoRing]]
  /\ afkPages' = IF afk.shared = NoShared THEN afkPages ELSE [afkPages EXCEPT !.owned = @ \ {afk.n}]
  /\ afkHeaders' = {h \in afkHeaders : h.buffer # afk.n}
  /\ UNCHANGED <<rbepVars, afkFw, afkFaults>>

------------------------------------------------------------------------------
(* External: the firmware, in the order the driver's comments give.  INIT      *)
(* begins anew at any time; a write to memory that is no longer mapped is lost *)
(* and firmware does not notice.                                               *)
FwInit(l, t) ==
  /\ rbepOut # <<>> /\ Head(rbepOut).type = "INIT"
  /\ rbepOut' = Tail(rbepOut)
  /\ rbepIn' = rbepIn \o <<[type |-> "INIT_ACK"], [type |-> "GETBUF", blocks |-> l.blocks, tag |-> t]>>
  /\ afkFw' = [phase |-> "getbuf", buffer |-> 0, layout |-> l, tag |-> t]
  /\ UNCHANGED <<afk, afkPages, afkHeaders, afkFaults>>

FwGetsBuffer ==
  /\ rbepOut # <<>> /\ Head(rbepOut).type = "GETBUF_ACK"
  /\ rbepOut' = Tail(rbepOut)
  /\ IF afkFw.phase = "getbuf"
     THEN LET b == Head(rbepOut).buffer
          IN  /\ afkFw' = [afkFw EXCEPT !.phase = "rings", !.buffer = b]
              /\ afkHeaders' = afkHeaders \cup
                   IF b \notin afkPages.mapped THEN {}
                   ELSE {[buffer |-> b, off |-> afkFw.layout[r][1], size |-> afkFw.layout[r][2] - HeaderBlocks]
                          : r \in RingNames}
     ELSE UNCHANGED <<afkFw, afkHeaders>>
  /\ UNCHANGED <<afk, afkPages, rbepIn, afkFaults>>

RingMessage(r) ==
  [type |-> IF r = "tx" THEN "INIT_TX" ELSE "INIT_RX",
   off |-> afkFw.layout[r][1], size |-> afkFw.layout[r][2], tag |-> afkFw.tag]

FwTellsRings(first) ==
  /\ afkFw.phase = "rings"
  /\ rbepIn' = rbepIn \o <<RingMessage(first), RingMessage(IF first = "tx" THEN "rx" ELSE "tx")>>
  /\ afkFw' = [afkFw EXCEPT !.phase = "told"]
  /\ UNCHANGED <<afk, afkPages, afkHeaders, rbepOut, afkFaults>>

FwStarts ==
  /\ rbepOut # <<>> /\ Head(rbepOut).type = "START"
  /\ rbepOut' = Tail(rbepOut)
  /\ IF afkFw.phase = "told"
     THEN /\ afkFw' = [afkFw EXCEPT !.phase = "running"] /\ rbepIn' = Append(rbepIn, [type |-> "START_ACK"])
     ELSE UNCHANGED <<afkFw, rbepIn>>
  /\ UNCHANGED <<afk, afkPages, afkHeaders, afkFaults>>

FwShutsDown ==
  /\ rbepOut # <<>> /\ Head(rbepOut).type = "SHUTDOWN"
  /\ rbepOut' = Tail(rbepOut) /\ rbepIn' = Append(rbepIn, [type |-> "SHUTDOWN_ACK"])
  /\ afkFw' = [afkFw EXCEPT !.phase = "idle"]
  /\ UNCHANGED <<afk, afkPages, afkHeaders, afkFaults>>

(* Entries firmware queued, also before the driver has seen START_ACK.         *)
FwNotifies ==
  /\ afkFw.phase = "running" /\ rbepIn = <<>>
  /\ rbepIn' = Append(rbepIn, [type |-> "RECV"])
  /\ UNCHANGED <<afk, afkPages, afkHeaders, rbepOut, afkFw, afkFaults>>

AfkNext ==
  \/ NewEndpoint \/ SendMessage \/ WaitStep \/ WaitTimesOut
  \/ ReceiveGetbuf \/ MapShared \/ AnswerGetbuf \/ ReceiveRing
  \/ DrainRbep \/ Shutdown \/ ShutdownWait \/ DropUnmapsBuffer \/ DropFreesBuffer
  \/ \E l \in RingLayouts, t \in BufferTags : FwInit(l, t)
  \/ FwGetsBuffer \/ (\E r \in RingNames : FwTellsRings(r)) \/ FwStarts \/ FwShutsDown \/ FwNotifies

AfkSpec == AfkInit /\ [][AfkNext]_afkVars

------------------------------------------------------------------------------
(* A started endpoint and the firmware use the same two rings of the same      *)
(* buffer, whatever an endpoint before it left in the mailbox.  Two at once    *)
(* are too many: a request nobody has read is taken for the answer to this     *)
(* endpoint's INIT, and rings announced to yet another one, equal in tag, for  *)
(* its own.  Nothing in a message tells whose handshake it is of.              *)
StartedMeansAgreed ==
  afk.started /\ ~afk.mixed =>
    /\ afkFw.phase = "running" \/ afk.at = "SHUTDOWN_ACK"
    /\ afkFw.buffer = afk.n
    /\ \A r \in RingNames : <<afk.rings[r].off, afk.rings[r].size>> = afkFw.layout[r]

(* A ring that is ready lies in the buffer the endpoint still owns.            *)
RingsInBuffer ==
  \A r \in RingNames : afk.rings[r].ready =>
    /\ afk.rings[r].off + afk.rings[r].size <= afk.shared.blocks
    /\ afk.at # "dropping" => afk.n \in afkPages.owned \cap afkPages.mapped

(* The firmware, which goes on after the endpoint is gone, reaches no page     *)
(* that was given back; nothing is kept of an endpoint that is gone.           *)
BufferLeavesDeviceFirst ==
  /\ afkPages.mapped \subseteq afkPages.owned
  /\ afk.at = "none" => afkPages.owned = {}

EndpointSound == StartedMeansAgreed /\ RingsInBuffer /\ BufferLeavesDeviceFirst

=============================================================================
