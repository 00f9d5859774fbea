-------------------------------- MODULE Dpxbar --------------------------------
(* The display crossbar, drivers/display/dpxbar/src/lib.rs: the order in which *)
(* set() writes the registers that connect an output port to a display         *)
(* controller (dispext).  A route is changed with the registry's lock held, so  *)
(* the writes of two routes do not mix.  The probe is the exception: it         *)
(* disconnects every port of a crossbar, which another driver may have mapped   *)
(* and routed before, without that lock, and takes it only to put a fresh       *)
(* record in the registry.  Every register is read and written back in two      *)
(* steps, so the writes of a route and of a probe at the same time undo each    *)
(* other.  The tunable register is left out.                                   *)
EXTENDS Naturals, Sequences, SequencesExt

CONSTANTS
  Dispexts,     \* display controllers, 0 .. n_ufp - 1
  BootClocks,   \* what the boot firmware may have left clocked
  MaxRoutes     \* bound on routes, probes and removals together

ASSUME XbarAssumption ==
  /\ Dispexts \subseteq Nat /\ 0 \in Dispexts
  /\ \A s \in BootClocks : s \subseteq Dispexts
  /\ MaxRoutes \in Nat

VARIABLES
  xreg,      \* register -> the bits that are set
  xmux,      \* port -> the dispext its multiplexer selects, 15 for none
  entry,     \* the registry has a record of the crossbar
  selected,  \* port -> selected_dispext of that record
  todo,      \* "route", "probe" -> what it has left to write
  seen,      \* "route", "probe" -> the register it has read and not written back
  probing,   \* a probe has begun and has not put its record in the registry
  mixed,     \* a route and a probe ran at the same time: nothing is promised
  routes     \* routes, probes and removals so far

xbarVars == <<xreg, xmux, entry, selected, todo, seen, probing, mixed, routes>>

Ports == {"dpphy", "dpin0", "dpin1"}
NoDispext == 15
Writers == {"route", "probe"}
FifoRegs == {"wrNClk", "rdNClk", "wrUnk", "rdUnk", "wrDptx", "rdPclk1", "dispextEn"}
PortRegs == {"outNClk", "outUnk", "outPclk1", "atcEn"}

SetBit(reg, bit) == [op |-> "set", reg |-> reg, bit |-> bit]
ClearBit(reg, bit) == [op |-> "clear", reg |-> reg, bit |-> bit]
SetMux(port, d) == [op |-> "mux", reg |-> port, bit |-> d]
Select(port, d) == [op |-> "select", reg |-> port, bit |-> d]

(* The writes of set(): the output of the port is stopped, the dispext it had  *)
(* is released, the multiplexer is changed and the new dispext is started.     *)
StopOutput(p) ==
  <<SetBit("outNClk", p), ClearBit("outUnk", p), ClearBit("outPclk1", p), ClearBit("atcEn", p)>>
Release(p, d) ==
  IF d = NoDispext THEN <<>>
  ELSE <<SetBit("wrNClk", d), SetBit("rdNClk", d), ClearBit("wrUnk", d), ClearBit("rdUnk", d),
         ClearBit("wrDptx", d), ClearBit("rdPclk1", d), ClearBit("dispextEn", d),
         Select(p, NoDispext)>>
Start(p, d) ==
  IF d = NoDispext THEN <<>>
  ELSE <<ClearBit("wrNClk", d), ClearBit("rdNClk", d), ClearBit("outNClk", p),
         SetBit("wrUnk", d), SetBit("rdUnk", d), SetBit("outUnk", p),
         SetBit("wrDptx", d), SetBit("rdPclk1", d), SetBit("outPclk1", p),
         SetBit("atcEn", p), SetBit("dispextEn", d),
         ClearBit("rdPclk1", d), SetBit("rdPclk1", d), Select(p, d)>>

(* Mutant: the output is stopped after the multiplexer has changed. *)
MuxFirst(p, old, new) == <<SetMux(p, new)>> \o StopOutput(p) \o Release(p, old) \o Start(p, new)
(* Mutant: the dispext the port had is left running. *)
KeepsOld(p, old, new) == StopOutput(p) \o <<SetMux(p, new)>> \o Start(p, new)
Writes(p, old, new) == StopOutput(p) \o Release(p, old) \o <<SetMux(p, new)>> \o Start(p, new)

(* disconnect_all on a fresh crossbar: nothing is on record, so the clocks the *)
(* boot firmware left on stay on.                                              *)
DisconnectAll ==
  Writes("dpphy", NoDispext, NoDispext) \o Writes("dpin0", NoDispext, NoDispext) \o Writes("dpin1", NoDispext, NoDispext)

NoRoute == [p \in Ports |-> NoDispext]
Unlocked == todo["route"] = <<>>

(* The registry is empty at boot. *)
XbarInit ==
  /\ \E clocks \in BootClocks, live \in SUBSET {"dpphy"} :
       /\ xreg = [r \in FifoRegs \cup PortRegs |->
                    IF r \in {"wrNClk", "rdNClk"} THEN Dispexts \ clocks
                    ELSE IF r = "outNClk" THEN Ports \ live
                    ELSE IF r \in FifoRegs THEN clocks ELSE live]
       /\ xmux \in [Ports -> {NoDispext}] \cup [Ports -> {0}]
  /\ selected = NoRoute
  /\ entry = FALSE /\ probing = FALSE /\ mixed = FALSE
  /\ todo = [w \in Writers |-> <<>>]
  /\ seen = [w \in Writers |-> <<>>]
  /\ routes = 0

Counted ==
  /\ routes < MaxRoutes
  /\ routes' = routes + 1

(* The lock is free and taken for a route: what the probe does meanwhile is    *)
(* not kept out by it.                                                         *)
BeginRoute(writes) ==
  /\ Unlocked
  /\ Counted
  /\ todo' = [todo EXCEPT !["route"] = writes]
  /\ mixed' = (mixed \/ probing)
  /\ UNCHANGED <<xreg, xmux, seen, probing>>

(* set_port of a crossbar in the registry, which is what route_t8103_dpphy     *)
(* calls then; two ports never ask for the same dispext.                       *)
SetPort(p, d) ==
  /\ entry
  /\ d # NoDispext => \A q \in Ports \ {p} : selected[q] # d
  /\ BeginRoute(Writes(p, selected[p], d))
  /\ UNCHANGED <<entry, selected>>

(* route_t8103_dpphy of a crossbar no probe has found: it is mapped and        *)
(* disconnected first, all under the lock.                                     *)
RouteUnmapped ==
  /\ ~entry
  /\ BeginRoute(DisconnectAll \o Writes("dpphy", NoDispext, 0))
  /\ entry' = TRUE
  /\ UNCHANGED selected

(* probe_fn: the fresh record has no port routed, so a dispext that a route of *)
(* the old record started is forgotten with its clocks on.                     *)
ProbeXbar ==
  /\ ~probing
  /\ Counted
  /\ probing' = TRUE
  /\ todo' = [todo EXCEPT !["probe"] = DisconnectAll]
  /\ mixed' = (mixed \/ ~Unlocked)
  /\ UNCHANGED <<xreg, xmux, entry, selected, seen>>

ProbeInsert ==
  /\ probing /\ todo["probe"] = <<>> /\ Unlocked
  /\ probing' = FALSE
  /\ entry' = TRUE
  /\ selected' = NoRoute
  /\ UNCHANGED <<xreg, xmux, todo, seen, mixed, routes>>

(* remove_fn drops the record and leaves the registers as they are.            *)
RemoveXbar ==
  /\ entry /\ ~probing /\ Unlocked
  /\ Counted
  /\ entry' = FALSE
  /\ selected' = NoRoute
  /\ UNCHANGED <<xreg, xmux, todo, seen, probing, mixed>>

ReadRegister(w) ==
  /\ todo[w] # <<>> /\ seen[w] = <<>> /\ Head(todo[w]).op # "select"
  /\ seen' = [seen EXCEPT ![w] =
                <<IF Head(todo[w]).op = "mux" THEN xmux ELSE xreg[Head(todo[w]).reg]>>]
  /\ UNCHANGED <<xreg, xmux, entry, selected, todo, probing, mixed, routes>>

WriteRegister(w) ==
  /\ seen[w] # <<>>
  /\ LET o == Head(todo[w])  value == seen[w][1] IN
       /\ xreg' = CASE o.op = "set" -> [xreg EXCEPT ![o.reg] = value \cup {o.bit}]
                    [] o.op = "clear" -> [xreg EXCEPT ![o.reg] = value \ {o.bit}]
                    [] OTHER -> xreg
       /\ xmux' = IF o.op = "mux" THEN [value EXCEPT ![o.reg] = o.bit] ELSE xmux
  /\ seen' = [seen EXCEPT ![w] = <<>>]
  /\ todo' = [todo EXCEPT ![w] = Tail(@)]
  /\ UNCHANGED <<entry, selected, probing, mixed, routes>>

(* A set() under the lock notes the route in the record.                       *)
RecordRoute ==
  /\ todo["route"] # <<>> /\ Head(todo["route"]).op = "select"
  /\ selected' = [selected EXCEPT ![Head(todo["route"]).reg] = Head(todo["route"]).bit]
  /\ todo' = [todo EXCEPT !["route"] = Tail(@)]
  /\ UNCHANGED <<xreg, xmux, entry, seen, probing, mixed, routes>>

XbarNext ==
  \/ \E p \in Ports, d \in Dispexts \cup {NoDispext} : SetPort(p, d)
  \/ RouteUnmapped \/ RecordRoute
  \/ ProbeXbar \/ ProbeInsert \/ RemoveXbar
  \/ \E w \in Writers : ReadRegister(w) \/ WriteRegister(w)

XbarSpec == XbarInit /\ [][XbarNext]_xbarVars
-----------------------------------------------------------------------------
(* An output port is never switched to another source while it drives its PHY, *)
(* by set() or by the probe, unless the two run at the same time.              *)
MuxWhileOff ==
  [][~mixed => \A p \in Ports :
       xmux'[p] # xmux[p] => p \notin xreg["atcEn"] \cup xreg["outPclk1"]]_xbarVars

(* While the registry has a record and neither a route nor a probe is under    *)
(* way, the hardware is what the record says: a port drives its PHY when it    *)
(* has a dispext, which its multiplexer selects and whose FIFOs are clocked.   *)
(* A probe that disconnects a live route brings the record down with it,       *)
(* unless a route ran at the same time.                                        *)
Clocked(d) == \A r \in FifoRegs \ {"wrNClk", "rdNClk"} : d \in xreg[r]
RoutesAreReal ==
  entry /\ Unlocked /\ ~probing /\ ~mixed =>
    /\ xreg["atcEn"] = {p \in Ports : selected[p] # NoDispext}
    /\ xreg["outNClk"] = {p \in Ports : selected[p] = NoDispext}
    /\ \A p \in Ports : xmux[p] = selected[p] /\ (selected[p] # NoDispext => Clocked(selected[p]))

(* A dispext that set() takes from a port runs no more.  A record that is      *)
(* replaced or dropped is not a set(): its dispext keeps its clocks.           *)
ReleasedIsStopped ==
  [][~Unlocked /\ ~mixed => \A p \in Ports, d \in Dispexts :
       selected[p] = d /\ selected'[p] # d => \A r \in FifoRegs \ {"wrNClk", "rdNClk"} : d \notin xreg[r]]_xbarVars
=============================================================================
