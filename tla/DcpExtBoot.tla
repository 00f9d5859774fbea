------------------------------ MODULE DcpExtBoot ------------------------------
(* The probe of the external display, drivers/display/dcpext/src/lib.rs: the    *)
(* choice of the Type-C port, the services of the coprocessor started one after *)
(* the other, the DisplayPort link negotiated by the firmware through calls it  *)
(* makes to this driver, and the choice of a mode.                             *)
(*                                                                             *)
(* The firmware is external: its work items wait for one another and for what   *)
(* the driver did, as the comments of the code describe, and each of them gets  *)
(* on only while the driver polls the endpoint it runs on.                     *)
EXTENDS Naturals, Sequences, SequencesExt, FiniteSets

CONSTANTS
  PortStates,    \* what a Type-C port may report: [seen, dp, hpd, sid]
  ExtTimings,    \* lists of timing modes: [valid, width, height, fps]
  ExtColors,     \* lists of color modes: [valid, bpp]
  FullWidth, FullHeight,   \* 1920 and 1080
  MaxFps,        \* 60
  MayBeLate,     \* whether the firmware may keep a wait past its end
  MaxDeferrals   \* bound on probes put off

ASSUME ExtAssumption ==
  /\ PortStates \subseteq [seen : {"none", "error", "status"}, dp : BOOLEAN, hpd : BOOLEAN, sid : {"none", "error", "status"}]
  /\ {FullWidth, FullHeight, MaxFps, MaxDeferrals} \subseteq Nat
  /\ MayBeLate \in BOOLEAN

VARIABLES
  ports,     \* port -> what it reports; port 0 is the preferred one
  xprobe,    \* the probe: step, port, callbacks armed, cause of a failure
  fwDone,    \* milestones of the driver and of the firmware
  shownMode, \* the mode published, and the modes the sink offered
  deferrals

extVars == <<ports, xprobe, fwDone, shownMode, deferrals>>

NoMode == [valid |-> FALSE, width |-> 0, height |-> 0, fps |-> 0]

(* The route: the preferred port first, then the other; a port that cannot be  *)
(* read is passed over and only reported when no port will do.                 *)
Live(s) == s.seen = "status" /\ s.dp /\ s.hpd /\ s.sid = "status"
(* Mutant: the first port that carries DisplayPort is taken. *)
RouteFirst(ps) ==
  IF \E i \in {0, 1} : ps[i].seen = "status" /\ ps[i].dp
  THEN CHOOSE i \in {0, 1} : ps[i].seen = "status" /\ ps[i].dp /\ \A j \in {0, 1} : ps[j].seen = "status" /\ ps[j].dp => i <= j
  ELSE IF \A i \in {0, 1} : ps[i].seen = "none" THEN 3 ELSE 2
(* 0 or 1 for a port, 2 for an error, 3 for a deferral *)
Route(ps) ==
  IF Live(ps[0]) THEN 0
  ELSE IF Live(ps[1]) THEN 1
  ELSE IF \A i \in {0, 1} : ps[i].seen = "none" THEN 3 ELSE 2

(* choose_timing and choose_color: max_by_key takes the last of equals. *)
Usable(m) == m.valid /\ m.width # 0 /\ m.height # 0 /\ m.fps <= MaxFps
LastBest(ms, Atleast(_, _)) ==
  IF ms = <<>> THEN NoMode
  ELSE ms[CHOOSE i \in DOMAIN ms :
            \A j \in DOMAIN ms : Atleast(ms[i], ms[j]) /\ (j > i => ~Atleast(ms[j], ms[i]))]
Faster(m, n) == m.fps >= n.fps
Bigger(m, n) ==
  \/ m.width * m.height > n.width * n.height
  \/ m.width * m.height = n.width * n.height /\ m.fps >= n.fps
(* Mutant: the largest usable mode. *)
BiggestTiming(ms) == LastBest(SelectSeq(ms, Usable), Bigger)
ChooseTiming60(ms) ==
  LET usable == SelectSeq(ms, Usable)
      full == SelectSeq(usable, LAMBDA m : m.width = FullWidth /\ m.height = FullHeight)
      within == SelectSeq(usable, LAMBDA m : m.width <= FullWidth /\ m.height <= FullHeight)
  IN  IF full # <<>> THEN LastBest(full, Faster)
      ELSE IF within # <<>> THEN LastBest(within, Bigger)
      ELSE LastBest(usable, Bigger)
Deeper(c, d) ==
  \/ c.bpp <= 32 /\ d.bpp > 32
  \/ (c.bpp <= 32 <=> d.bpp <= 32) /\ c.bpp >= d.bpp
ChooseColor(cs) == LET valid == SelectSeq(cs, LAMBDA c : c.valid)
                   IN  IF valid = <<>> THEN [valid |-> FALSE, bpp |-> 0] ELSE LastBest(valid, Deeper)
-----------------------------------------------------------------------------
(* The steps of the probe after the wake: what each asks the firmware, what it *)
(* waits for, which endpoints it polls meanwhile.  DcpProgress polls the        *)
(* system, port and IOMFB endpoints inside every call to the iBoot endpoint.   *)
Endpoints == {"system", "iboot", "dptx", "iomfb"}
Ask(a, until, polls) == [ask |-> a, until |-> until, polls |-> polls]

(* Mutant: the sink's presence is reported after the lanes are there. *)
LanesBeforeHpd == <<
  Ask("startSystem", "system", {"system"}), Ask("startIboot", "disp0", {"iboot"}),
  Ask("startDptx", "ports", {"dptx"}), Ask("startIomfb", "booted", {"iomfb"}),
  Ask("connect", "connected", {"dptx"}), Ask("wait", "lanes", Endpoints),
  Ask("hpd", "sink", {"dptx"}), Ask("status", "counts", Endpoints),
  Ask("powerOn", "powered", {"iomfb"}), Ask("modes", "timings", Endpoints)>>
(* Mutant: a call to the iBoot endpoint polls only that endpoint. *)
CallsPollThemselves == <<
  Ask("startSystem", "system", {"system"}), Ask("startIboot", "disp0", {"iboot"}),
  Ask("startDptx", "ports", {"dptx"}), Ask("startIomfb", "booted", {"iomfb"}),
  Ask("connect", "connected", {"dptx"}), Ask("hpd", "sink", {"dptx"}),
  Ask("wait", "lanes", Endpoints), Ask("status", "counts", {"iboot"}),
  Ask("powerOn", "powered", {"iomfb"}), Ask("modes", "timings", {"iboot"})>>
ProbeSteps == <<
  Ask("startSystem", "system", {"system"}), Ask("startIboot", "disp0", {"iboot"}),
  Ask("startDptx", "ports", {"dptx"}), Ask("startIomfb", "booted", {"iomfb"}),
  Ask("connect", "connected", {"dptx"}), Ask("hpd", "sink", {"dptx"}),
  Ask("wait", "lanes", Endpoints), Ask("status", "counts", Endpoints),
  Ask("powerOn", "powered", {"iomfb"}), Ask("modes", "timings", Endpoints)>>

(* Firmware: what an item waits for, the endpoint it runs on, whether it is a  *)
(* call to this driver.                                                        *)
Item(done, needs, on, calls) == [done |-> done, needs |-> needs, on |-> on, calls |-> calls]
FirmwareItems == {
  Item("system", {"startSystem"}, "system", FALSE),
  Item("disp0", {"startIboot", "system"}, "iboot", FALSE),
  Item("ports", {"startDptx", "system"}, "dptx", FALSE),
  Item("booted", {"startIomfb"}, "iomfb", FALSE),
  Item("connected", {"connect", "ports"}, "dptx", FALSE),
  Item("active", {"connect", "ports", "booted"}, "dptx", TRUE),
  Item("sink", {"hpd", "connected"}, "dptx", FALSE),
  Item("rate", {"active", "sink", "disp0"}, "dptx", TRUE),
  Item("lanes", {"rate"}, "dptx", TRUE),
  Item("settled", {"lanes"}, "dptx", TRUE),
  Item("published", {"settled"}, "system", FALSE),
  Item("swapReady", {"published"}, "iomfb", FALSE),
  Item("counts", {"status", "swapReady"}, "iboot", FALSE),
  Item("powered", {"powerOn", "booted"}, "iomfb", FALSE),
  Item("timings", {"modes", "powered"}, "iboot", FALSE)}

Running == xprobe.at \in 1 .. Len(ProbeSteps)
Polled == IF Running THEN ProbeSteps[xprobe.at].polls ELSE {}
Ready(i) == i.done \notin fwDone /\ i.needs \subseteq fwDone /\ i.on \in Polled

ExtInit ==
  /\ ports \in [{0, 1} -> PortStates]
  /\ xprobe = [at |-> 0, port |-> 2, armed |-> FALSE, cause |-> "none"]
  /\ fwDone = {}
  /\ shownMode = [mode |-> NoMode, offered |-> {}]
  /\ deferrals = 0

Fail(cause) == xprobe' = [xprobe EXCEPT !.at = 99, !.cause = cause]

(* probe_fn up to the wake of the coprocessor.  The PHY, the crossbar and the  *)
(* two DARTs may not be there yet: the probe is put off, after the PHY and the *)
(* crossbar were programmed in the latter case, and runs again from the start. *)
ChooseRoute ==
  /\ xprobe.at = 0
  /\ \/ /\ Route(ports) \in {0, 1}
        /\ xprobe' = [xprobe EXCEPT !.at = 1, !.port = Route(ports)]
        /\ fwDone' = {ProbeSteps[1].ask}
        /\ UNCHANGED deferrals
     \/ /\ Route(ports) \in {0, 1}
        /\ Fail("phy, crossbar or wake")
        /\ UNCHANGED <<fwDone, deferrals>>
     \/ /\ Route(ports) = 2
        /\ Fail("port")
        /\ UNCHANGED <<fwDone, deferrals>>
     \/ /\ Route(ports) # 2
        /\ deferrals < MaxDeferrals
        /\ deferrals' = deferrals + 1
        /\ UNCHANGED <<xprobe, fwDone>>
  /\ UNCHANGED <<ports, shownMode>>

(* A port may come to report something else before the probe runs again. *)
PortChanges ==
  /\ xprobe.at = 0
  /\ deferrals > 0
  /\ \E i \in {0, 1}, s \in PortStates : ports' = [ports EXCEPT ![i] = s]
  /\ UNCHANGED <<xprobe, fwDone, shownMode, deferrals>>

(* dptx_service_call: without the callback state the call ends in an error and *)
(* the firmware's call is never answered.                                      *)
FirmwareWorks(i) ==
  /\ Ready(i)
  /\ i.calls => xprobe.armed
  /\ fwDone' = fwDone \cup {i.done}
  /\ UNCHANGED <<ports, xprobe, shownMode, deferrals>>

(* The step's wait is over; the callback state is armed before the firmware is *)
(* asked to connect the port.                                                  *)
(* Mutant: the callback state is armed when the port is connected. *)
ArmAfterConnect ==
  /\ Running
  /\ ProbeSteps[xprobe.at].until \in fwDone
  /\ xprobe.at < Len(ProbeSteps)
  /\ xprobe' = [xprobe EXCEPT !.at = @ + 1,
                  !.armed = @ \/ (ProbeSteps[xprobe.at].ask = "connect" /\ "active" \in fwDone)]
  /\ fwDone' = fwDone \cup {ProbeSteps[xprobe.at + 1].ask}
  /\ UNCHANGED <<ports, shownMode, deferrals>>
NextStep ==
  /\ Running
  /\ ProbeSteps[xprobe.at].until \in fwDone
  /\ xprobe.at < Len(ProbeSteps)
  /\ xprobe' = [xprobe EXCEPT !.at = @ + 1, !.armed = @ \/ ProbeSteps[xprobe.at + 1].ask = "connect"]
  /\ fwDone' = fwDone \cup {ProbeSteps[xprobe.at + 1].ask}
  /\ UNCHANGED <<ports, shownMode, deferrals>>

(* The wait ends without what it was for: the firmware is late, or it has      *)
(* nothing left that it can do while the driver polls what it polls.           *)
GiveUp ==
  /\ Running
  /\ ProbeSteps[xprobe.at].until \notin fwDone
  /\ \/ /\ \A i \in FirmwareItems : ~Ready(i) \/ (i.calls /\ ~xprobe.armed)
        /\ Fail("stuck")
     \/ /\ MayBeLate
        /\ Fail("late")
  /\ UNCHANGED <<ports, fwDone, shownMode, deferrals>>

(* The mode is chosen and set; audio is optional; the display is published. *)
Publish ==
  /\ Running
  /\ xprobe.at = Len(ProbeSteps)
  /\ "timings" \in fwDone
  /\ \E ms \in ExtTimings, cs \in ExtColors :
       IF ChooseTiming60(ms) = NoMode \/ ~ChooseColor(cs).valid
       THEN Fail("modes") /\ UNCHANGED shownMode
       ELSE /\ xprobe' = [xprobe EXCEPT !.at = 50]
            /\ shownMode' = [mode |-> ChooseTiming60(ms), offered |-> ToSet(ms)]
  /\ UNCHANGED <<ports, fwDone, deferrals>>

ExtNext ==
  \/ ChooseRoute \/ PortChanges \/ NextStep \/ GiveUp \/ Publish
  \/ \E i \in FirmwareItems : FirmwareWorks(i)

ExtSpec == ExtInit /\ [][ExtNext]_extVars
-----------------------------------------------------------------------------
(* The probe never waits for something the firmware cannot do before the       *)
(* driver has done something that comes later: it gives up only for a port, a  *)
(* PHY or a firmware that fails it.                                            *)
NeverStuck == xprobe.cause # "stuck"

(* The probe goes on with a port only if that port carries DisplayPort with a  *)
(* sink present, and with the other port only if the preferred one does not.   *)
RouteIsLive ==
  xprobe.at = 1 =>
    /\ Live(ports[xprobe.port])
    /\ xprobe.port = 1 => ~Live(ports[0])

(* The published mode is one the sink offered, at 60 Hz or less, and exceeds   *)
(* 1080p only when the sink offers nothing up to 1080p.                        *)
ModeFits ==
  xprobe.at = 50 =>
    LET mode == shownMode.mode
    IN  /\ mode \in shownMode.offered /\ Usable(mode)
        /\ mode.width > FullWidth \/ mode.height > FullHeight =>
             ~\E m \in shownMode.offered : Usable(m) /\ m.width <= FullWidth /\ m.height <= FullHeight
=============================================================================
