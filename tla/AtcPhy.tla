-------------------------------- MODULE AtcPhy --------------------------------
(* The Type-C PHY, drivers/phy/apple-atcphy/src/lib.rs, between the two       *)
(* drivers that program it: the probe of the USB controller                    *)
(* (drivers/usb/dwc3/apple-dwc3/src/lib.rs) and the external display's probe   *)
(* and link callbacks (drivers/display/dcpext/src/lib.rs).                      *)
(*                                                                             *)
(* Every operation holds the PHY's lock, so it is one step; the polls in it    *)
(* may run out (slow names the poll that does).  Registers that nobody tells   *)
(* apart are left out: what a step writes is kept as the layout of the lanes,  *)
(* the rate of the PLL and of each lane, the PIPE multiplexer and the power.   *)
EXTENDS Naturals, FiniteSets

CONSTANTS
  CableModes,   \* what a cable may carry: "usb3", "usb3dp" or "dp"
  LinkRates,    \* link rates the display firmware may ask for
  MaxSlow,      \* bound on polls that run out
  MaxProbes,    \* bound on probes of the USB controller
  MaxRequests   \* bound on link requests of the firmware

ASSUME AtcAssumption ==
  /\ CableModes \subseteq {"usb3", "usb3dp", "dp"}
  /\ LinkRates \subseteq Nat \ {0}
  /\ {MaxSlow, MaxProbes, MaxRequests} \subseteq Nat

VARIABLES
  phy,       \* the PHY: registers and the driver's fields
  lane3,     \* the mode kept by the USB3 lane's handle
  usb,       \* the USB controller's probe: step, probes left
  ext,       \* the external display: step, rate and lanes it believes in
  cable,     \* the cable, which stays, and whether its alternate mode is reported yet
  slowLeft,  \* polls that may still run out
  asked      \* link requests made

atcVars == <<phy, lane3, usb, ext, cable, slowLeft, asked>>

AtcLanes == {0, 1}
Polls == {"none", "core", "sleep", "lock", "unlock", "pll", "ready"}

(* prepare_bootloader_state *)
BootPhy ==
  [core |-> "off", usb2 |-> FALSE, running |-> FALSE, layout |-> "none", aux |-> FALSE,
   pll |-> 0, laneRate |-> [l \in AtcLanes |-> 0], halfway |-> FALSE,
   mux |-> "dummy", lockReq |-> FALSE, lockAck |-> FALSE, override |-> FALSE, up |-> FALSE,
   inReset |-> TRUE, swap |-> FALSE, mode |-> "none", rate |-> 0, lanes |-> 0,
   torn |-> FALSE, stuck |-> FALSE]

Answer(p, ok) == [phy |-> p, ok |-> ok]
Spent(slow) == IF slow = "none" THEN slowLeft ELSE slowLeft - 1
MaySlow(slow) == slow = "none" \/ slowLeft > 0

(* pipehandler_check, pipehandler_lock and pipehandler_unlock.  "stuck"        *)
(* remembers that the multiplexer never answered.                              *)
PipeUnlock(p, slow) ==
  IF slow = "unlock" THEN Answer([p EXCEPT !.lockReq = FALSE, !.stuck = TRUE], FALSE)
                     ELSE Answer([p EXCEPT !.lockReq = FALSE, !.lockAck = FALSE], TRUE)
PipeCheck(p, slow) == IF p.lockAck THEN PipeUnlock(p, slow) ELSE Answer(p, TRUE)
PipeLock(p, slow) ==
  IF p.lockReq THEN Answer(p, TRUE)
  ELSE IF slow = "lock" THEN Answer([p EXCEPT !.stuck = TRUE], FALSE)
  ELSE Answer([p EXCEPT !.lockReq = TRUE, !.lockAck = TRUE], TRUE)

(* configure_pipehandler_usb3: a lock that is not granted ends it with the     *)
(* overrides still set; an unlock that is not is only reported.                *)
PipeToUsb3(p, host, slow) ==
  LET checked == PipeCheck(p, slow)
      held == PipeLock([checked.phy EXCEPT !.override = TRUE], slow)
      locked == IF host THEN held ELSE checked
      muxed == [locked.phy EXCEPT !.mux = "usb3", !.override = FALSE]
      released == IF host THEN PipeUnlock(muxed, slow).phy ELSE muxed
  IN  IF p.up THEN Answer(p, TRUE)
      ELSE IF ~checked.ok THEN checked
      ELSE IF ~locked.ok THEN locked
      ELSE Answer([released EXCEPT !.up = TRUE], TRUE)

(* configure_pipehandler_dummy *)
PipeToDummy(p, slow) ==
  LET checked == PipeCheck(p, slow)
      locked == PipeLock([checked.phy EXCEPT !.override = TRUE], slow).phy
      released == PipeUnlock([locked EXCEPT !.mux = "dummy"], slow).phy
  IN  IF checked.ok THEN Answer([released EXCEPT !.up = FALSE], TRUE) ELSE checked

(* core_power_on: registers written while the core is off are lost. *)
CorePowerOn(p, slow) ==
  IF slow = "core" /\ p.core # "on" THEN Answer([p EXCEPT !.core = "partial"], FALSE)
                                   ELSE Answer([p EXCEPT !.core = "on"], TRUE)

(* disable_dp_aux and core_power_off *)
CorePowerOff(p, slow) ==
  Answer([p EXCEPT !.core = IF slow = "sleep" THEN "partial" ELSE "off", !.running = FALSE,
                   !.aux = FALSE, !.layout = "none", !.pll = 0,
                   !.laneRate = [l \in AtcLanes |-> 0]], slow # "sleep")

(* configure_lanes.  "torn" remembers a change under a live PIPE interface.    *)
Layout(mode, swap) ==
  IF mode = "dp" THEN "dp" ELSE IF swap THEN "dp-usb3" ELSE "usb3-dp"
ConfigureLanes(p, mode) ==
  IF p.core # "on" THEN p
  ELSE [p EXCEPT !.layout = Layout(mode, p.swap), !.torn = p.torn \/ (p.mux = "usb3" /\ p.layout # Layout(mode, p.swap))]
ConfigureCrossbar(p) == ConfigureLanes(p, IF p.mode = "none" THEN "usb3" ELSE p.mode)
DpLanes(mode, swap) == IF mode = "dp" THEN AtcLanes ELSE IF swap THEN {0} ELSE {1}

(* init: USB3 *)
InitUsb3(p, slow) ==
  LET on == CorePowerOn([p EXCEPT !.mode = "none", !.rate = 0, !.lanes = 0, !.usb2 = TRUE], slow)
  IN  IF on.ok THEN Answer([ConfigureCrossbar(on.phy) EXCEPT !.running = TRUE], TRUE) ELSE on

(* Mutant: the PIPE interface is not put to rest for the change. *)
InitDpLive(p, mode, slow) ==
  LET on == CorePowerOn([p EXCEPT !.mode = mode, !.rate = 0, !.lanes = 0, !.usb2 = TRUE], slow)
  IN  IF ~on.ok THEN on
      ELSE Answer([ConfigureLanes([on.phy EXCEPT !.aux = TRUE], mode) EXCEPT !.running = TRUE], TRUE)
(* init_dp and enable_dp_aux *)
InitDp(p, mode, slow) ==
  LET on == CorePowerOn([p EXCEPT !.mode = mode, !.rate = 0, !.lanes = 0, !.usb2 = TRUE], slow)
      quiet == IF p.up THEN PipeToDummy(on.phy, slow) ELSE on
      set == [ConfigureLanes([quiet.phy EXCEPT !.aux = TRUE], mode) EXCEPT !.running = TRUE]
  IN  IF ~on.ok THEN on
      ELSE IF ~quiet.ok THEN quiet
      ELSE IF p.up /\ mode = "usb3dp" THEN PipeToUsb3(set, TRUE, slow)
      ELSE Answer(set, TRUE)

(* configure_displayport: an unchanged mode is taken to be in place. *)
ConfigureDisplayport(p, mode, reverse, slow) ==
  IF p.mode = mode /\ p.swap = reverse THEN Answer(p, TRUE)
  ELSE InitDp([p EXCEPT !.swap = reverse], mode, slow)

(* configure_dp_lane, for every lane that carries DisplayPort. *)
ConfigureDpLanes(p, r) ==
  [p EXCEPT !.laneRate = [l \in AtcLanes |-> IF l \in DpLanes(p.mode, p.swap) THEN r ELSE @[l]]]

(* Mutant: only the second lane is set up. *)
OneLaneRate(p, r, slow) ==
  IF r = 0 THEN Answer([p EXCEPT !.rate = 0], TRUE)
  ELSE IF p.mode = "none" THEN Answer(p, FALSE)
  ELSE IF p.rate = r THEN Answer(p, TRUE)
  ELSE IF slow = "ready" \/ p.core # "on" THEN Answer(p, FALSE)
  ELSE IF slow = "pll" THEN Answer([p EXCEPT !.pll = r, !.halfway = TRUE], FALSE)
  ELSE Answer([p EXCEPT !.pll = r, !.laneRate[1] = r, !.rate = r, !.halfway = FALSE], TRUE)
(* configure_dp_link_rate and auspll_apb_command: a PLL that does not take one *)
(* of its two commands, or does not lock between them, keeps the new           *)
(* programming, the lanes and the record the old rate: "halfway" remembers it. *)
ConfigureDpLinkRate(p, r, slow) ==
  IF r = 0 THEN Answer([p EXCEPT !.rate = 0], TRUE)
  ELSE IF p.mode = "none" THEN Answer(p, FALSE)
  ELSE IF p.rate = r THEN Answer(p, TRUE)
  ELSE IF slow = "ready" \/ p.core # "on" THEN Answer(p, FALSE)
  ELSE IF slow = "pll" THEN Answer([p EXCEPT !.pll = r, !.halfway = TRUE], FALSE)
  ELSE Answer([ConfigureDpLanes([p EXCEPT !.pll = r], r) EXCEPT !.rate = r, !.halfway = FALSE], TRUE)

MaxDpLanes(p) == IF p.mode = "dp" THEN 4 ELSE IF p.mode = "usb3dp" THEN 2 ELSE 0
SetActiveDpLanes(p, n) ==
  IF n = 3 \/ n > MaxDpLanes(p) THEN Answer(p, FALSE) ELSE Answer([p EXCEPT !.lanes = n], TRUE)

(* dwc3_reset_assert and dwc3_reset_deassert *)
ResetAssert(p, slow) ==
  LET quiet == IF p.up THEN PipeToDummy(p, slow).phy ELSE p
  IN  [quiet EXCEPT !.inReset = TRUE, !.usb2 = FALSE]
ResetDeassert(p) == [p EXCEPT !.inReset = FALSE]
-----------------------------------------------------------------------------
AtcInit ==
  /\ cable \in [mode : CableModes, reverse : BOOLEAN, told : BOOLEAN]
  /\ phy = BootPhy
  /\ lane3 = "none"
  /\ usb = [at |-> "idle", probes |-> 0]
  /\ ext = [at |-> "idle", rate |-> 0, lanes |-> 0]
  /\ slowLeft = MaxSlow
  /\ asked = 0

UsbAt(a) == usb.at = a
UsbTo(a) == usb' = [usb EXCEPT !.at = a]
Took(answer, slow) == phy' = answer.phy /\ slowLeft' = Spent(slow)

(* probe_fn of the controller: the clock, the port and the PHY may not be      *)
(* there yet, then the probe is put off before it touched anything.            *)
ProbeUsb ==
  /\ UsbAt("idle")
  /\ usb.probes < MaxProbes
  /\ usb' = [at |-> "reset", probes |-> usb.probes + 1]
  /\ UNCHANGED <<phy, lane3, ext, cable, slowLeft, asked>>

(* The reset, then the orientation, which moves the lanes only when the lane's *)
(* handle has a mode from an earlier probe, then the mode of the lane: the     *)
(* port may not have reported the alternate mode of the cable yet.             *)
AssertUsbReset(slow) ==
  /\ UsbAt("reset")
  /\ phy' = ResetAssert(phy, slow)
  /\ slowLeft' = Spent(slow)
  /\ UsbTo("orient")
  /\ UNCHANGED <<lane3, ext, cable, asked>>

SetOrientation ==
  /\ UsbAt("orient")
  /\ LET turned == [phy EXCEPT !.swap = cable.reverse]
     IN  phy' = IF lane3 = "none" THEN turned ELSE ConfigureCrossbar(turned)
  /\ \E t \in {cable.told, TRUE} :
       /\ cable' = [cable EXCEPT !.told = t]
       /\ lane3' = IF t /\ cable.mode # "usb3" THEN cable.mode ELSE lane3
  /\ UsbTo("power")
  /\ UNCHANGED <<ext, slowLeft, asked>>

(* atc_mode and power_on_current_mode of the USB3 lane. *)
AtcMode == IF phy.mode # "none" THEN phy.mode ELSE IF lane3 \in {"none", "host"} THEN "usb3" ELSE lane3
PowerOnUsb(slow) ==
  /\ UsbAt("power")
  /\ LET a == IF AtcMode = "usb3" THEN InitUsb3(phy, slow) ELSE InitDp(phy, AtcMode, slow)
     IN  Took(a, slow) /\ UsbTo(IF a.ok THEN "release" ELSE "idle")
  /\ UNCHANGED <<lane3, ext, cable, asked>>

ReleaseUsb ==
  /\ UsbAt("release")
  /\ phy' = ResetDeassert(phy)
  /\ UsbTo("host")
  /\ UNCHANGED <<lane3, ext, cable, slowLeft, asked>>

(* enable_usb3_host_phy: set_mode of the USB3 lane. *)
EnableUsb3Host(slow) ==
  /\ UsbAt("host")
  /\ lane3' = "host"
  /\ LET a == IF phy.mode = "dp" THEN PipeToDummy(phy, slow) ELSE PipeToUsb3(phy, TRUE, slow)
     IN  Took(a, slow) /\ UsbTo(IF a.ok THEN "bind" ELSE "drop")
  /\ UNCHANGED <<ext, cable, asked>>

(* The DMA context or the host controller may be refused: the controller's     *)
(* value is dropped, which powers the PHY off and asserts the reset.           *)
BindUsb ==
  /\ UsbAt("bind")
  /\ \E a \in {"running", "drop"} : UsbTo(a)
  /\ UNCHANGED <<phy, lane3, ext, cable, slowLeft, asked>>

(* Mutant: the controller is not put back in reset. *)
DropFree(slow) ==
  /\ UsbAt("drop")
  /\ phy' = CorePowerOff([PipeToDummy(phy, slow).phy EXCEPT !.up = FALSE], slow).phy
  /\ slowLeft' = Spent(slow)
  /\ UsbTo("idle")
  /\ UNCHANGED <<lane3, ext, cable, asked>>
DropUsb(slow) ==
  /\ UsbAt("drop")
  /\ LET off == CorePowerOff([PipeToDummy(phy, slow).phy EXCEPT !.up = FALSE], slow).phy
     IN  phy' = [ResetAssert(off, "none") EXCEPT !.usb2 = FALSE]
  /\ slowLeft' = Spent(slow)
  /\ UsbTo("idle")
  /\ UNCHANGED <<lane3, ext, cable, asked>>
-----------------------------------------------------------------------------
(* The external display's probe configures the PHY; its probe does not run     *)
(* inside that of the controller.                                              *)
ExtConfigures(slow) ==
  /\ ext.at = "idle"
  /\ usb.at \in {"idle", "running"}
  /\ cable.mode # "usb3"
  /\ cable' = [cable EXCEPT !.told = TRUE]
  /\ LET a == ConfigureDisplayport(phy, cable.mode, cable.reverse, slow)
     IN  /\ Took(a, slow)
         /\ ext' = IF a.ok THEN [at |-> "configured", rate |-> 0, lanes |-> 0] ELSE ext
  /\ UNCHANGED <<lane3, usb, asked>>

(* dptx_service_call: the firmware picks a link rate and lanes, at any time    *)
(* the display driver polls.                                                   *)
SetLinkRate(r, slow) ==
  /\ ext.at # "idle"
  /\ asked < MaxRequests
  /\ asked' = asked + 1
  /\ LET a == ConfigureDpLinkRate(phy, r, slow)
     IN  /\ Took(a, slow)
         /\ ext' = [ext EXCEPT !.rate = IF a.ok THEN r ELSE 0]
  /\ UNCHANGED <<lane3, usb, cable>>

SetActiveLanes(n) ==
  /\ ext.at # "idle"
  /\ asked < MaxRequests
  /\ asked' = asked + 1
  /\ LET a == SetActiveDpLanes(phy, n)
     IN  /\ phy' = a.phy
         /\ ext' = [ext EXCEPT !.lanes = IF a.ok THEN n ELSE 0]
  /\ UNCHANGED <<lane3, usb, cable, slowLeft>>

(* The probe waits for lanes and goes on when there are some, or gives up. *)
LinkSelected ==
  /\ ext.at = "configured"
  /\ ext' = IF ext.lanes # 0 THEN [ext EXCEPT !.at = "up"] ELSE [ext EXCEPT !.at = "idle"]
  /\ UNCHANGED <<phy, lane3, usb, cable, slowLeft, asked>>

AtcNext ==
  \/ ProbeUsb \/ SetOrientation \/ ReleaseUsb \/ BindUsb
  \/ \E s \in Polls \cap {"none", "lock", "unlock"} : MaySlow(s) /\ (AssertUsbReset(s) \/ EnableUsb3Host(s))
  \/ \E s \in {"none", "core", "lock", "unlock"} : MaySlow(s) /\ (PowerOnUsb(s) \/ ExtConfigures(s))
  \/ \E s \in {"none", "lock", "unlock", "sleep"} : MaySlow(s) /\ DropUsb(s)
  \/ \E s \in {"none", "ready", "pll"}, r \in LinkRates \cup {0} : MaySlow(s) /\ SetLinkRate(r, s)
  \/ \E n \in {0, 1, 2, 4} : SetActiveLanes(n)
  \/ LinkSelected

AtcSpec == AtcInit /\ [][AtcNext]_atcVars
-----------------------------------------------------------------------------
(* The PIPE interface is never live on USB3 while the lanes under it change,   *)
(* whichever of the two drivers comes first and however often the controller's *)
(* probe is repeated (but for a multiplexer that stopped answering).           *)
PipeQuietOnLaneChange == phy.torn => phy.stuck

(* No USB3 interface is routed to a PHY whose lanes all carry DisplayPort. *)
NoPipeUnderDisplay == phy.layout = "dp" /\ phy.mux = "usb3" => phy.stuck

(* While the core is powered the rate on record is that of every lane          *)
(* DisplayPort uses, and of the PLL, unless the last programming of the PLL    *)
(* ended halfway: then the record, and a request for that rate, which is       *)
(* answered without programming anything, are wrong about the PLL.             *)
RecordedRateIsReal ==
  phy.rate # 0 /\ phy.core = "on" =>
    /\ phy.pll = phy.rate \/ phy.halfway
    /\ \A l \in DpLanes(phy.mode, phy.swap) : phy.laneRate[l] = phy.rate

(* The controller is out of reset only on a PHY that is powered and running. *)
ControllerHasPhy ==
  ~phy.inReset /\ usb.at # "drop" => phy.core = "on" /\ phy.running /\ phy.usb2

(* What configure_displayport promises: the PHY is in a mode that can carry    *)
(* DisplayPort when it returns Ok.  It is not, when the controller's probe     *)
(* failed after it had powered the PHY on in that mode: dropping it powers     *)
(* the PHY off and leaves the mode on record.                                  *)
DisplayModeIsEntered ==
  [][ext.at = "idle" /\ ext'.at = "configured" => phy'.core = "on" /\ phy'.layout = Layout(cable.mode, cable.reverse)]_atcVars

(* The shared PHY through requests of both drivers: lanes change only under a  *)
(* quiet PIPE while the multiplexer answers, the rate on record is the lanes'  *)
(* and, unless its programming ended halfway, the PLL's, and the USB controller*)
(* runs only on a running PHY.                                                 *)
PhyIsHonest == PipeQuietOnLaneChange /\ NoPipeUnderDisplay /\ RecordedRateIsReal /\ ControllerHasPhy

=============================================================================
