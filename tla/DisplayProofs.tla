----------------------------- MODULE DisplayProofs -----------------------------
(* Proofs about the displays: the PHY between the USB controller and the probe  *)
(* of the external display (AtcPhy), the handshake of an AFK endpoint           *)
(* (AfkHandshake) and the services over it (EpicService), the remote calls of   *)
(* the frame buffer service (IomfbCalls) and the memory it hands out            *)
(* (DcpBuffers), for any cables, link rates, layouts of the rings, callbacks,   *)
(* operations and bounds.                                                       *)
EXTENDS MCDisplay, Integers, SequenceTheorems, TLAPS

------------------------------------------------------------------------------
(* The PHY (AtcPhy).                                                           *)
Layouts == {"none", "dp", "dp-usb3", "usb3-dp"}
DpModes == {"usb3dp", "dp"}
Phys ==
  [core : {"off", "partial", "on"}, usb2 : BOOLEAN, running : BOOLEAN, layout : Layouts, aux : BOOLEAN,
   pll : Nat, laneRate : [AtcLanes -> Nat], halfway : BOOLEAN,
   mux : {"dummy", "usb3"}, lockReq : BOOLEAN, lockAck : BOOLEAN, override : BOOLEAN, up : BOOLEAN,
   inReset : BOOLEAN, swap : BOOLEAN, mode : DpModes \cup {"none"}, rate : Nat, lanes : {0, 1, 2, 4},
   torn : BOOLEAN, stuck : BOOLEAN]
PhyTypes ==
  /\ phy \in Phys
  /\ lane3 \in DpModes \cup {"none", "host"}
  /\ usb \in [at : {"idle", "reset", "orient", "power", "release", "host", "bind", "drop", "running"}, probes : Nat]
  /\ ext \in [at : {"idle", "configured", "up"}, rate : Nat, lanes : Nat]
  /\ cable \in [mode : CableModes, reverse : BOOLEAN, told : BOOLEAN]

(* What is on record about the lanes: a PIPE interface on USB3 is known to be  *)
(* up, a layout for DisplayPort alone is of its mode, a core that is off has   *)
(* none, and the rate on record is the lanes', and the PLL's but for a         *)
(* programming that ended halfway.                                             *)
Routed(p) ==
  /\ p.torn => p.stuck
  /\ p.mux = "usb3" => p.up \/ p.stuck
  /\ p.core # "on" => p.layout = "none"
  /\ p.layout = "dp" => p.mode = "dp" \/ p.stuck
  /\ p.layout = "dp" /\ p.mux = "usb3" => p.stuck
Rated(p) ==
  /\ p.rate # 0 => p.mode # "none"
  /\ p.rate # 0 /\ p.core = "on" =>
       /\ p.pll = p.rate \/ p.halfway
       /\ \A l \in DpLanes(p.mode, p.swap) : p.laneRate[l] = p.rate

(* While the controller's probe turns the lanes the PIPE interface rests, the  *)
(* orientation on record is the cable's in every mode of the display, and the  *)
(* controller is in reset until the PHY runs.                                  *)
Turned(p) == p.mode # "none" \/ usb.at = "power" => p.swap = cable.reverse
Rests(p) == usb.at \in {"orient", "power"} => ~p.up \/ p.stuck
Serves(p) ==
  /\ usb.at \in {"idle", "reset", "orient", "power", "release"} => p.inReset
  /\ usb.at \in {"release", "host", "bind", "running"} => p.core = "on" /\ p.running /\ p.usb2

PhyInv == PhyTypes /\ Routed(phy) /\ Rated(phy) /\ Turned(phy) /\ Rests(phy) /\ Serves(phy)

LEMMA PhyInitInv ==
  ASSUME AtcAssumption, AtcInit
  PROVE  PhyInv
<1>1. phy \in Phys
  BY DEF AtcInit, BootPhy, Phys, Layouts, DpModes, AtcLanes
<1>2. QED
  BY <1>1 DEF AtcInit, BootPhy, PhyInv, PhyTypes, Routed, Rated, Turned, Rests, Serves

(* The multiplexer's operations touch nothing of the lanes. *)
Kept(p, q) ==
  /\ q \in Phys
  /\ q.core = p.core /\ q.usb2 = p.usb2 /\ q.running = p.running /\ q.layout = p.layout
  /\ q.pll = p.pll /\ q.laneRate = p.laneRate /\ q.rate = p.rate /\ q.halfway = p.halfway
  /\ q.inReset = p.inReset /\ q.swap = p.swap /\ q.mode = p.mode /\ q.torn = p.torn
  /\ p.stuck => q.stuck
SamePipe(p, q) == q.mux = p.mux /\ q.up = p.up

LEMMA KeptTransitive ==
  ASSUME NEW p, NEW q, NEW r, Kept(p, q), Kept(q, r)
  PROVE  Kept(p, r)
BY DEF Kept

LEMMA UnlockKeeps ==
  ASSUME NEW p \in Phys, NEW slow
  PROVE  /\ Kept(p, PipeUnlock(p, slow).phy) /\ SamePipe(p, PipeUnlock(p, slow).phy)
         /\ PipeUnlock(p, slow).ok \/ PipeUnlock(p, slow).phy.stuck
<1>1. CASE slow = "unlock"
  <2>1. PICK q : q = [p EXCEPT !.lockReq = FALSE, !.stuck = TRUE]
    OBVIOUS
  <2>2. Kept(p, q) /\ SamePipe(p, q) /\ q.stuck
    BY <2>1 DEF Phys, Kept, SamePipe
  <2>3. PipeUnlock(p, slow).phy = q
    BY <1>1, <2>1 DEF PipeUnlock, Answer
  <2>4. QED
    BY <2>2, <2>3
<1>2. CASE slow # "unlock"
  <2>1. PICK q : q = [p EXCEPT !.lockReq = FALSE, !.lockAck = FALSE]
    OBVIOUS
  <2>2. Kept(p, q) /\ SamePipe(p, q)
    BY <2>1 DEF Phys, Kept, SamePipe
  <2>3. PipeUnlock(p, slow).phy = q /\ PipeUnlock(p, slow).ok
    BY <1>2, <2>1 DEF PipeUnlock, Answer
  <2>4. QED
    BY <2>2, <2>3
<1>3. QED
  BY <1>1, <1>2

LEMMA CheckKeeps ==
  ASSUME NEW p \in Phys, NEW slow
  PROVE  /\ Kept(p, PipeCheck(p, slow).phy) /\ SamePipe(p, PipeCheck(p, slow).phy)
         /\ PipeCheck(p, slow).ok \/ PipeCheck(p, slow).phy.stuck
<1>1. Kept(p, p) /\ SamePipe(p, p)
  BY DEF Kept, SamePipe
<1>2. CASE p.lockAck
  BY <1>2, UnlockKeeps DEF PipeCheck
<1>3. CASE ~p.lockAck
  BY <1>1, <1>3 DEF PipeCheck, Answer
<1>4. QED
  BY <1>2, <1>3

LEMMA LockKeeps ==
  ASSUME NEW p \in Phys, NEW slow
  PROVE  /\ Kept(p, PipeLock(p, slow).phy) /\ SamePipe(p, PipeLock(p, slow).phy)
         /\ PipeLock(p, slow).ok \/ PipeLock(p, slow).phy.stuck
<1>1. CASE p.lockReq
  BY <1>1 DEF PipeLock, Answer, Kept, SamePipe
<1>2. CASE ~p.lockReq /\ slow = "lock"
  <2>1. PICK q : q = [p EXCEPT !.stuck = TRUE]
    OBVIOUS
  <2>2. Kept(p, q) /\ SamePipe(p, q) /\ q.stuck
    BY <2>1 DEF Phys, Kept, SamePipe
  <2>3. PipeLock(p, slow).phy = q
    BY <1>2, <2>1 DEF PipeLock, Answer
  <2>4. QED
    BY <2>2, <2>3
<1>3. CASE ~p.lockReq /\ slow # "lock"
  <2>1. PICK q : q = [p EXCEPT !.lockReq = TRUE, !.lockAck = TRUE]
    OBVIOUS
  <2>2. Kept(p, q) /\ SamePipe(p, q)
    BY <2>1 DEF Phys, Kept, SamePipe
  <2>3. PipeLock(p, slow).phy = q /\ PipeLock(p, slow).ok
    BY <1>3, <2>1 DEF PipeLock, Answer
  <2>4. QED
    BY <2>2, <2>3
<1>4. QED
  BY <1>1, <1>2, <1>3

(* Nor do the four writes between them. *)
LEMMA WritesKeep ==
  ASSUME NEW p \in Phys
  PROVE  /\ Kept(p, [p EXCEPT !.override = TRUE]) /\ SamePipe(p, [p EXCEPT !.override = TRUE])
         /\ Kept(p, [p EXCEPT !.mux = "usb3", !.override = FALSE])
         /\ [p EXCEPT !.mux = "usb3", !.override = FALSE].mux = "usb3"
         /\ Kept(p, [p EXCEPT !.mux = "dummy"]) /\ [p EXCEPT !.mux = "dummy"].mux = "dummy"
         /\ \A b \in BOOLEAN : /\ Kept(p, [p EXCEPT !.up = b]) /\ [p EXCEPT !.up = b].mux = p.mux
                               /\ [p EXCEPT !.up = b].up = b
<1>1. ASSUME NEW q, q = [p EXCEPT !.override = TRUE] PROVE Kept(p, q) /\ SamePipe(p, q)
  BY <1>1 DEF Phys, Kept, SamePipe
<1>2. ASSUME NEW q, q = [p EXCEPT !.mux = "usb3", !.override = FALSE] PROVE Kept(p, q) /\ q.mux = "usb3"
  BY <1>2 DEF Phys, Kept
<1>3. ASSUME NEW q, q = [p EXCEPT !.mux = "dummy"] PROVE Kept(p, q) /\ q.mux = "dummy"
  BY <1>3 DEF Phys, Kept
<1>4. ASSUME NEW b \in BOOLEAN, NEW q, q = [p EXCEPT !.up = b] PROVE Kept(p, q) /\ q.mux = p.mux /\ q.up = b
  BY <1>4 DEF Phys, Kept
<1>5. QED
  BY <1>1, <1>2, <1>3, <1>4, Zenon

LEMMA Usb3Pipe ==
  ASSUME NEW p \in Phys, NEW slow
  PROVE  LET a == PipeToUsb3(p, TRUE, slow)
         IN  Kept(p, a.phy) /\ (SamePipe(p, a.phy) \/ (a.phy.mux = "usb3" /\ a.phy.up))
<1> DEFINE checked == PipeCheck(p, slow)
           over == [checked.phy EXCEPT !.override = TRUE]
           held == PipeLock(over, slow)
           muxed == [held.phy EXCEPT !.mux = "usb3", !.override = FALSE]
           released == PipeUnlock(muxed, slow).phy
           done == [released EXCEPT !.up = TRUE]
<1>1. Kept(p, checked.phy) /\ SamePipe(p, checked.phy) /\ checked.phy \in Phys
  BY CheckKeeps DEF Kept
<1>2. Kept(p, over) /\ SamePipe(p, over) /\ over \in Phys
  <2>1. Kept(checked.phy, over) /\ SamePipe(checked.phy, over)
    BY <1>1, WritesKeep
  <2>2. QED
    BY <1>1, <2>1, KeptTransitive DEF Kept, SamePipe
<1>3. Kept(p, held.phy) /\ SamePipe(p, held.phy) /\ held.phy \in Phys
  <2>1. Kept(over, held.phy) /\ SamePipe(over, held.phy)
    BY <1>2, LockKeeps
  <2>2. QED
    BY <1>2, <2>1, KeptTransitive DEF Kept, SamePipe
<1>4. Kept(p, muxed) /\ muxed.mux = "usb3" /\ muxed \in Phys
  <2>1. Kept(held.phy, muxed) /\ muxed.mux = "usb3"
    BY <1>3, WritesKeep
  <2>2. QED
    BY <1>3, <2>1, KeptTransitive DEF Kept
<1>5. Kept(p, released) /\ released.mux = "usb3" /\ released \in Phys
  <2>1. Kept(muxed, released) /\ released.mux = muxed.mux
    BY <1>4, UnlockKeeps DEF SamePipe
  <2>2. QED
    BY <1>4, <2>1, KeptTransitive DEF Kept
<1>6. Kept(p, done) /\ done.mux = "usb3" /\ done.up
  <2>1. Kept(released, done) /\ done.mux = released.mux /\ done.up
    BY <1>5, WritesKeep
  <2>2. QED
    BY <1>5, <2>1, KeptTransitive
<1>7. PipeToUsb3(p, TRUE, slow) \in {Answer(p, TRUE), checked, held, Answer(done, TRUE)}
  <2>1. PipeToUsb3(p, TRUE, slow) = IF p.up THEN Answer(p, TRUE) ELSE IF ~checked.ok THEN checked
                                    ELSE IF ~held.ok THEN held ELSE Answer(done, TRUE)
    BY DEF PipeToUsb3
  <2> HIDE DEF checked, held, done
  <2>2. QED
    BY <2>1
<1>8. Kept(p, p) /\ SamePipe(p, p)
  BY DEF Kept, SamePipe
<1>9. Answer(p, TRUE).phy = p /\ Answer(done, TRUE).phy = done
  BY DEF Answer
<1> HIDE DEF checked, held, done
<1>10. PICK a : a = PipeToUsb3(p, TRUE, slow)
  OBVIOUS
<1>11. Kept(p, a.phy) /\ (SamePipe(p, a.phy) \/ (a.phy.mux = "usb3" /\ a.phy.up))
  BY <1>1, <1>3, <1>6, <1>7, <1>8, <1>9, <1>10
<1>12. QED
  BY <1>10, <1>11

LEMMA DummyPipe ==
  ASSUME NEW p \in Phys, NEW slow
  PROVE  LET a == PipeToDummy(p, slow)
         IN  /\ Kept(p, a.phy)
             /\ \/ a.phy.mux = "dummy" /\ ~a.phy.up
                \/ SamePipe(p, a.phy) /\ a.phy.stuck
             /\ a.ok \/ a.phy.stuck
<1> DEFINE checked == PipeCheck(p, slow)
           over == [checked.phy EXCEPT !.override = TRUE]
           held == PipeLock(over, slow).phy
           muxed == [held EXCEPT !.mux = "dummy"]
           released == PipeUnlock(muxed, slow).phy
           done == [released EXCEPT !.up = FALSE]
<1>1. Kept(p, checked.phy) /\ SamePipe(p, checked.phy) /\ checked.phy \in Phys /\ (checked.ok \/ checked.phy.stuck)
  BY CheckKeeps DEF Kept
<1>2. Kept(p, over) /\ over \in Phys
  <2>1. Kept(checked.phy, over)
    BY <1>1, WritesKeep
  <2>2. QED
    BY <1>1, <2>1, KeptTransitive DEF Kept
<1>3. Kept(p, held) /\ held \in Phys
  <2>1. Kept(over, held)
    BY <1>2, LockKeeps
  <2>2. QED
    BY <1>2, <2>1, KeptTransitive DEF Kept
<1>4. Kept(p, muxed) /\ muxed.mux = "dummy" /\ muxed \in Phys
  <2>1. Kept(held, muxed) /\ muxed.mux = "dummy"
    BY <1>3, WritesKeep
  <2>2. QED
    BY <1>3, <2>1, KeptTransitive DEF Kept
<1>5. Kept(p, released) /\ released.mux = "dummy" /\ released \in Phys
  <2>1. Kept(muxed, released) /\ released.mux = muxed.mux
    BY <1>4, UnlockKeeps DEF SamePipe
  <2>2. QED
    BY <1>4, <2>1, KeptTransitive DEF Kept
<1>6. Kept(p, done) /\ done.mux = "dummy" /\ ~done.up
  <2>1. Kept(released, done) /\ done.mux = released.mux /\ ~done.up
    BY <1>5, WritesKeep
  <2>2. QED
    BY <1>5, <2>1, KeptTransitive
<1>7. PipeToDummy(p, slow) = IF checked.ok THEN Answer(done, TRUE) ELSE checked
  BY Zenon DEF PipeToDummy
<1> HIDE DEF checked, done
<1>8. QED
  BY <1>1, <1>6, <1>7 DEF Answer

------------------------------------------------------------------------------
(* Powering the core on: what an initialisation has done before the lanes.     *)
Powered(p, q, mode) ==
  /\ q \in Phys /\ q.mode = mode /\ q.rate = 0 /\ q.usb2
  /\ q.inReset = p.inReset /\ q.swap = p.swap /\ q.running = p.running /\ q.layout = p.layout
  /\ q.mux = p.mux /\ q.up = p.up /\ q.stuck = p.stuck /\ q.torn = p.torn
  /\ q.core = "on" \/ (q.core = "partial" /\ p.core # "on")
Reset(p, mode) == [p EXCEPT !.mode = mode, !.rate = 0, !.lanes = 0, !.usb2 = TRUE]

LEMMA CorePowers ==
  ASSUME NEW p \in Phys, NEW mode \in DpModes \cup {"none"}, NEW slow
  PROVE  LET a == CorePowerOn(Reset(p, mode), slow)
         IN  Powered(p, a.phy, mode) /\ a.ok \in BOOLEAN /\ (a.ok <=> a.phy.core = "on")
<1>1. PICK b : b = Reset(p, mode)
  OBVIOUS
<1>2. /\ b \in Phys /\ b.core = p.core /\ b.mode = mode /\ b.rate = 0 /\ b.usb2
      /\ b.inReset = p.inReset /\ b.swap = p.swap /\ b.running = p.running /\ b.layout = p.layout
      /\ b.mux = p.mux /\ b.up = p.up /\ b.stuck = p.stuck /\ b.torn = p.torn
  BY <1>1 DEF Phys, Reset
<1>3. CASE slow = "core" /\ b.core # "on"
  <2>1. PICK q : q = [b EXCEPT !.core = "partial"]
    OBVIOUS
  <2>2. Powered(p, q, mode) /\ q.core = "partial"
    BY <1>2, <1>3, <2>1 DEF Phys, Powered
  <2>3. CorePowerOn(b, slow) = [phy |-> q, ok |-> FALSE]
    BY <1>3, <2>1 DEF CorePowerOn, Answer
  <2>4. QED
    BY <1>1, <2>2, <2>3
<1>4. CASE ~(slow = "core" /\ b.core # "on")
  <2>1. PICK q : q = [b EXCEPT !.core = "on"]
    OBVIOUS
  <2>2. Powered(p, q, mode) /\ q.core = "on"
    BY <1>2, <2>1 DEF Phys, Powered
  <2>3. CorePowerOn(b, slow) = [phy |-> q, ok |-> TRUE]
    BY <1>4, <2>1 DEF CorePowerOn, Answer
  <2>4. QED
    BY <1>1, <2>2, <2>3
<1>5. QED
  BY <1>3, <1>4

(* Turning the lanes of a powered core. *)
LaneModes == DpModes \cup {"usb3"}
Lanes(p, q, mode) ==
  /\ q \in Phys /\ q.layout = Layout(mode, p.swap)
  /\ q.torn => p.torn \/ p.mux = "usb3"
  /\ q.core = p.core /\ q.usb2 = p.usb2 /\ q.mode = p.mode /\ q.rate = p.rate /\ q.pll = p.pll
  /\ q.laneRate = p.laneRate /\ q.inReset = p.inReset /\ q.swap = p.swap
  /\ q.mux = p.mux /\ q.up = p.up /\ q.stuck = p.stuck /\ q.halfway = p.halfway

LEMMA LayoutIs ==
  ASSUME NEW mode \in LaneModes, NEW turned \in BOOLEAN
  PROVE  Layout(mode, turned) \in Layouts \ {"none"} /\ (Layout(mode, turned) = "dp" <=> mode = "dp")
BY DEF Layout, Layouts, LaneModes, DpModes

LEMMA LanesTurn ==
  ASSUME NEW p \in Phys, p.core = "on", NEW mode \in LaneModes
  PROVE  Lanes(p, ConfigureLanes(p, mode), mode) /\ ConfigureLanes(p, mode).running = p.running
<1>1. PICK t : t = (p.torn \/ (p.mux = "usb3" /\ p.layout # Layout(mode, p.swap)))
  OBVIOUS
<1>2. PICK q : q = [p EXCEPT !.layout = Layout(mode, p.swap), !.torn = t]
  OBVIOUS
<1>3. t \in BOOLEAN /\ p.swap \in BOOLEAN
  BY <1>1 DEF Phys
<1>4. Layout(mode, p.swap) \in Layouts
  BY <1>3, LayoutIs
<1>5. Lanes(p, q, mode) /\ q.running = p.running
  <2>1. q \in Phys /\ q.layout = Layout(mode, p.swap) /\ q.torn = t /\ q.running = p.running
    BY <1>2, <1>3, <1>4 DEF Phys
  <2>2. q.core = p.core /\ q.usb2 = p.usb2 /\ q.mode = p.mode /\ q.rate = p.rate /\ q.pll = p.pll /\ q.laneRate = p.laneRate
    BY <1>2 DEF Phys
  <2>3. /\ q.inReset = p.inReset /\ q.swap = p.swap /\ q.mux = p.mux /\ q.up = p.up /\ q.stuck = p.stuck
        /\ q.halfway = p.halfway
    BY <1>2 DEF Phys
  <2>4. QED
    BY ONLY <1>1, <2>1, <2>2, <2>3 DEF Lanes
<1>6. ConfigureLanes(p, mode) = q
  BY <1>1, <1>2 DEF ConfigureLanes
<1>7. QED
  BY <1>5, <1>6

LEMMA LanesRun ==
  ASSUME NEW p \in Phys, p.core = "on", NEW mode \in LaneModes
  PROVE  LET q == [ConfigureLanes([p EXCEPT !.aux = TRUE], mode) EXCEPT !.running = TRUE]
         IN  Lanes(p, q, mode) /\ q.running
<1>1. PICK b : b = [p EXCEPT !.aux = TRUE]
  OBVIOUS
<1>2. /\ b \in Phys /\ b.core = "on" /\ b.swap = p.swap /\ b.torn = p.torn /\ b.mux = p.mux /\ b.up = p.up
      /\ b.usb2 = p.usb2 /\ b.mode = p.mode /\ b.rate = p.rate /\ b.pll = p.pll /\ b.laneRate = p.laneRate
      /\ b.inReset = p.inReset /\ b.stuck = p.stuck /\ b.halfway = p.halfway
  BY <1>1 DEF Phys
<1>3. PICK c : c = ConfigureLanes(b, mode)
  OBVIOUS
<1>4. Lanes(b, c, mode)
  BY <1>2, <1>3, LanesTurn
<1>5. PICK q : q = [c EXCEPT !.running = TRUE]
  OBVIOUS
<1>6. /\ q \in Phys /\ q.running /\ q.layout = c.layout /\ q.torn = c.torn /\ q.core = c.core /\ q.usb2 = c.usb2
      /\ q.mode = c.mode /\ q.rate = c.rate /\ q.pll = c.pll /\ q.laneRate = c.laneRate /\ q.inReset = c.inReset
      /\ q.swap = c.swap /\ q.mux = c.mux /\ q.up = c.up /\ q.stuck = c.stuck /\ q.halfway = c.halfway
  BY <1>4, <1>5 DEF Phys, Lanes
<1>7. Lanes(p, q, mode)
  BY <1>2, <1>4, <1>6 DEF Lanes
<1>8. QED
  BY <1>1, <1>3, <1>5, <1>6, <1>7

(* What an initialisation leaves, whether it got to its end or not. *)
Begun(p, q, mode) ==
  /\ q \in Phys /\ q.mode = mode /\ q.rate = 0 /\ q.usb2
  /\ q.inReset = p.inReset /\ q.swap = p.swap
  /\ p.core = "on" => q.core = "on"
  /\ p.running => q.running
  /\ ~p.up \/ p.stuck => ~q.up \/ q.stuck
  /\ Routed(q)

LEMMA InitUsb3Begins ==
  ASSUME NEW p \in Phys, NEW slow, Routed(p), ~p.up \/ p.stuck
  PROVE  LET a == InitUsb3(p, slow)
         IN  Begun(p, a.phy, "none") /\ (a.ok => a.phy.core = "on" /\ a.phy.running)
<1> DEFINE on == CorePowerOn(Reset(p, "none"), slow)
<1>1. Powered(p, on.phy, "none") /\ on.ok \in BOOLEAN /\ (on.ok <=> on.phy.core = "on")
  BY CorePowers
<1>2. InitUsb3(p, slow) = IF on.ok THEN Answer([ConfigureCrossbar(on.phy) EXCEPT !.running = TRUE], TRUE) ELSE on
  BY DEF InitUsb3, Reset
<1> HIDE DEF on
<1>3. CASE ~on.ok
  <2>1. Begun(p, on.phy, "none")
    BY <1>1, <1>3 DEF Powered, Begun, Routed
  <2>2. QED
    BY <1>2, <1>3, <2>1
<1>4. CASE on.ok
  <2>1. PICK o : o = on.phy
    OBVIOUS
  <2>2. o \in Phys /\ o.core = "on" /\ o.mode = "none"
    BY <1>1, <1>4, <2>1 DEF Powered
  <2>3. PICK c : c = ConfigureCrossbar(o)
    OBVIOUS
  <2>4. c = ConfigureLanes(o, "usb3")
    BY <2>2, <2>3 DEF ConfigureCrossbar
  <2>5. Lanes(o, c, "usb3") /\ c.layout # "dp"
    BY <2>2, <2>4, LanesTurn, LayoutIs DEF LaneModes, DpModes, Lanes, Phys
  <2>6. PICK q : q = [c EXCEPT !.running = TRUE]
    OBVIOUS
  <2>7. /\ q \in Phys /\ q.running /\ q.layout = c.layout /\ q.torn = c.torn /\ q.core = c.core /\ q.usb2 = c.usb2
        /\ q.mode = c.mode /\ q.rate = c.rate /\ q.inReset = c.inReset
        /\ q.swap = c.swap /\ q.mux = c.mux /\ q.up = c.up /\ q.stuck = c.stuck
    BY <2>5, <2>6 DEF Phys, Lanes
  <2>8. Begun(p, q, "none") /\ q.core = "on"
    BY <1>1, <2>1, <2>2, <2>5, <2>7 DEF Powered, Begun, Routed, Lanes
  <2>9. InitUsb3(p, slow) = [phy |-> q, ok |-> TRUE]
    BY <1>2, <1>4, <2>1, <2>3, <2>6 DEF Answer
  <2>10. QED
    BY <2>7, <2>8, <2>9
<1>5. QED
  BY <1>1, <1>3, <1>4

LEMMA InitDpBegins ==
  ASSUME NEW p \in Phys, NEW mode \in DpModes, NEW slow, Routed(p)
  PROVE  LET a == InitDp(p, mode, slow)
         IN  Begun(p, a.phy, mode) /\ (a.ok => a.phy.core = "on" /\ a.phy.running)
<1> DEFINE on == CorePowerOn(Reset(p, mode), slow)
           quiet == IF p.up THEN PipeToDummy(on.phy, slow) ELSE on
           set == [ConfigureLanes([quiet.phy EXCEPT !.aux = TRUE], mode) EXCEPT !.running = TRUE]
           live == PipeToUsb3(set, TRUE, slow)
<1>1. Powered(p, on.phy, mode) /\ on.ok \in BOOLEAN /\ (on.ok <=> on.phy.core = "on")
  BY CorePowers
<1>2. InitDp(p, mode, slow) = IF ~on.ok THEN on ELSE IF ~quiet.ok THEN quiet
                              ELSE IF p.up /\ mode = "usb3dp" THEN live ELSE Answer(set, TRUE)
  BY DEF InitDp, Reset
<1>3. /\ Kept(on.phy, quiet.phy)
      /\ \/ quiet.phy.mux = "dummy" /\ ~quiet.phy.up
         \/ SamePipe(on.phy, quiet.phy) /\ (quiet.phy.stuck \/ ~p.up)
  <2>1. on.phy \in Phys
    BY <1>1 DEF Powered
  <2>2. CASE p.up
    BY <2>1, <2>2, DummyPipe
  <2>3. CASE ~p.up
    BY <2>1, <2>3 DEF Kept, SamePipe
  <2>4. QED
    BY <2>2, <2>3
<1> HIDE DEF on
<1>4. CASE ~on.ok
  <2>1. Begun(p, on.phy, mode)
    BY <1>1, <1>4 DEF Powered, Begun, Routed
  <2>2. QED
    BY <1>2, <1>4, <2>1
<1>5. CASE on.ok /\ ~quiet.ok
  <2>1. p.up
    BY <1>5
  <2>2. Kept(on.phy, quiet.phy) /\ (quiet.phy.stuck \/ (quiet.phy.mux = "dummy" /\ ~quiet.phy.up))
    BY <1>3, <2>1
  <2>3. PICK q : q = quiet.phy
    OBVIOUS
  <2>4. InitDp(p, mode, slow) = quiet
    BY <1>2, <1>5
  <2>5. quiet.phy.stuck
    BY <1>1, <1>5, <2>1, DummyPipe DEF Powered
  <2>6. Begun(p, q, mode)
    BY <1>1, <1>3, <1>5, <2>1, <2>3, <2>5 DEF Powered, Begun, Routed, Kept, SamePipe
  <2>7. QED
    BY <1>5, <2>3, <2>4, <2>6
<1>6. CASE on.ok /\ quiet.ok
  <2>1. PICK k : k = quiet.phy
    OBVIOUS
  <2>2. /\ k \in Phys /\ k.core = "on" /\ k.mode = mode /\ k.rate = 0 /\ k.usb2 /\ k.inReset = p.inReset /\ k.swap = p.swap
        /\ p.stuck => k.stuck
        /\ k.torn => k.stuck
        /\ k.mux = "usb3" => k.stuck
        /\ ~k.up \/ k.stuck
    BY <1>1, <1>3, <1>6, <2>1 DEF Powered, Kept, SamePipe, Routed
  <2>3. PICK s : s = set
    OBVIOUS
  <2>4. Lanes(k, s, mode) /\ s.running
    BY <2>1, <2>2, <2>3, LanesRun DEF LaneModes
  <2>5. s.layout = "dp" <=> mode = "dp"
    BY <2>2, <2>4, LayoutIs DEF Lanes, LaneModes, Phys
  <2>6. Begun(p, s, mode) /\ s.core = "on"
    BY <2>2, <2>4, <2>5 DEF Lanes, Begun, Routed
  <2>7. CASE p.up /\ mode = "usb3dp"
    <3>1. PICK a : a = live
      OBVIOUS
    <3>2. Kept(s, a.phy) /\ (SamePipe(s, a.phy) \/ (a.phy.mux = "usb3" /\ a.phy.up))
      BY <2>3, <2>6, <3>1, Usb3Pipe DEF Begun
    <3>3. PICK q : q = a.phy
      OBVIOUS
    <3>4. /\ q \in Phys /\ q.mode = mode /\ q.rate = 0 /\ q.usb2 /\ q.core = "on" /\ q.running
          /\ q.inReset = p.inReset /\ q.swap = p.swap
      BY <2>4, <2>6, <3>2, <3>3 DEF Begun, Kept
    <3>5. /\ p.stuck => q.stuck
          /\ q.torn => q.stuck
          /\ q.mux = "usb3" => q.up \/ q.stuck
          /\ q.layout # "dp"
      BY <2>2, <2>4, <2>5, <2>6, <2>7, <3>2, <3>3 DEF Lanes, Begun, Routed, Kept, SamePipe
    <3>6. Begun(p, q, mode)
      BY <2>7, <3>4, <3>5 DEF Begun, Routed
    <3>7. InitDp(p, mode, slow) = a
      BY <1>2, <1>6, <2>7, <3>1
    <3>8. QED
      BY <3>3, <3>4, <3>6, <3>7
  <2>8. CASE ~(p.up /\ mode = "usb3dp")
    <3>1. InitDp(p, mode, slow) = [phy |-> s, ok |-> TRUE]
      BY <1>2, <1>6, <2>3, <2>8 DEF Answer
    <3>2. QED
      BY <2>4, <2>6, <3>1
  <2>9. QED
    BY <2>7, <2>8
<1>7. QED
  BY <1>4, <1>5, <1>6

------------------------------------------------------------------------------
(* The link rate: a programming of the PLL that ends halfway is remembered.    *)
LEMMA RateIsSet ==
  ASSUME NEW p \in Phys, NEW r \in Nat, NEW slow, Routed(p), Rated(p)
  PROVE  LET q == ConfigureDpLinkRate(p, r, slow).phy
         IN  /\ q \in Phys /\ Routed(q) /\ Rated(q)
             /\ q.mode = p.mode /\ q.swap = p.swap /\ q.up = p.up /\ (p.stuck => q.stuck)
             /\ q.inReset = p.inReset /\ q.core = p.core /\ q.running = p.running /\ q.usb2 = p.usb2
<1> DEFINE Goal(q) == /\ q \in Phys /\ Routed(q) /\ Rated(q)
                      /\ q.mode = p.mode /\ q.swap = p.swap /\ q.up = p.up /\ (p.stuck => q.stuck)
                      /\ q.inReset = p.inReset /\ q.core = p.core /\ q.running = p.running /\ q.usb2 = p.usb2
<1>1. Goal(p)
  OBVIOUS
<1>2. ASSUME NEW q, q = [p EXCEPT !.rate = 0] PROVE Goal(q)
  BY <1>2 DEF Phys, Routed, Rated
<1>3. ASSUME NEW q, q = [p EXCEPT !.pll = r, !.halfway = TRUE] PROVE Goal(q)
  BY <1>3 DEF Phys, Routed, Rated
<1>4. ASSUME NEW q, q = [ConfigureDpLanes([p EXCEPT !.pll = r], r) EXCEPT !.rate = r, !.halfway = FALSE], p.mode # "none" PROVE Goal(q)
  <2>1. PICK f : f = [l \in AtcLanes |-> IF l \in DpLanes(p.mode, p.swap) THEN r ELSE p.laneRate[l]]
    OBVIOUS
  <2>2. f \in [AtcLanes -> Nat]
    BY <2>1 DEF Phys
  <2>3. PICK b : b = [p EXCEPT !.pll = r]
    OBVIOUS
  <2>4. b \in Phys /\ b.mode = p.mode /\ b.swap = p.swap /\ b.laneRate = p.laneRate
    BY <2>3 DEF Phys
  <2>5. PICK c : c = ConfigureDpLanes(b, r)
    OBVIOUS
  <2>6. c = [b EXCEPT !.laneRate = f]
    BY <2>1, <2>4, <2>5, Zenon DEF ConfigureDpLanes
  <2>7. q = [c EXCEPT !.rate = r, !.halfway = FALSE]
    BY <1>4, <2>3, <2>5
  <2>8. /\ q \in Phys /\ q.laneRate = f /\ q.pll = r /\ q.rate = r
        /\ q.mode = p.mode /\ q.swap = p.swap /\ q.up = p.up /\ q.stuck = p.stuck /\ q.torn = p.torn
        /\ q.inReset = p.inReset /\ q.core = p.core /\ q.running = p.running /\ q.usb2 = p.usb2
        /\ q.mux = p.mux /\ q.layout = p.layout
    BY <2>2, <2>3, <2>6, <2>7 DEF Phys
  <2>9. \A l \in DpLanes(q.mode, q.swap) : q.laneRate[l] = q.rate
    BY <2>1, <2>8 DEF DpLanes, AtcLanes
  <2>10. QED
    BY <1>4, <2>8, <2>9 DEF Routed, Rated
<1>5. PICK a : a = ConfigureDpLinkRate(p, r, slow)
  OBVIOUS
<1>6. \/ a.phy = p
      \/ a.phy = [p EXCEPT !.rate = 0]
      \/ a.phy = [p EXCEPT !.pll = r, !.halfway = TRUE]
      \/ a.phy = [ConfigureDpLanes([p EXCEPT !.pll = r], r) EXCEPT !.rate = r, !.halfway = FALSE] /\ p.mode # "none"
  BY <1>5 DEF ConfigureDpLinkRate, Answer
<1>7. Goal(a.phy)
  <2> HIDE DEF Goal
  <2>1. QED
    BY <1>1, <1>2, <1>3, <1>4, <1>6
<1>8. QED
  BY <1>5, <1>7

(* A core that is powered off has no lanes. *)
LEMMA CoreRests ==
  ASSUME NEW p \in Phys, NEW slow, p.torn => p.stuck, Rated(p)
  PROVE  LET q == CorePowerOff(p, slow).phy
         IN  /\ q \in Phys /\ q.core # "on" /\ q.layout = "none" /\ q.torn = p.torn /\ q.stuck = p.stuck
             /\ q.mux = p.mux /\ q.up = p.up /\ q.mode = p.mode /\ q.swap = p.swap /\ q.rate = p.rate /\ Rated(q)
<1>1. PICK c : c = IF slow = "sleep" THEN "partial" ELSE "off"
  OBVIOUS
<1>2. PICK z : z = [l \in AtcLanes |-> 0]
  OBVIOUS
<1>3. PICK q : q = [p EXCEPT !.core = c, !.running = FALSE, !.aux = FALSE, !.layout = "none", !.pll = 0, !.laneRate = z]
  OBVIOUS
<1>4. /\ q \in Phys /\ q.core # "on" /\ q.layout = "none" /\ q.torn = p.torn /\ q.stuck = p.stuck
      /\ q.mux = p.mux /\ q.up = p.up /\ q.mode = p.mode /\ q.swap = p.swap /\ q.rate = p.rate
  <2>1. c \in {"off", "partial"} /\ z \in [AtcLanes -> Nat]
    BY <1>1, <1>2
  <2>2. q \in Phys /\ q.core = c /\ q.layout = "none"
    BY <1>3, <2>1 DEF Phys, Layouts
  <2>3. /\ q.torn = p.torn /\ q.stuck = p.stuck /\ q.mux = p.mux /\ q.up = p.up
        /\ q.mode = p.mode /\ q.swap = p.swap /\ q.rate = p.rate
    BY <1>3 DEF Phys
  <2>4. QED
    BY <2>1, <2>2, <2>3
<1>5. CorePowerOff(p, slow).phy = q
  BY <1>1, <1>2, <1>3 DEF CorePowerOff, Answer
<1>6. QED
  BY <1>4, <1>5 DEF Rated

(* dwc3_reset_assert leaves the interface at rest, or stuck. *)
LEMMA ResetRests ==
  ASSUME NEW p \in Phys, NEW slow, Routed(p), Rated(p)
  PROVE  LET q == ResetAssert(p, slow)
         IN  /\ q \in Phys /\ q.inReset /\ ~q.usb2 /\ (~q.up \/ q.stuck) /\ Routed(q) /\ Rated(q)
             /\ q.mode = p.mode /\ q.swap = p.swap
<1> DEFINE quiet == IF p.up THEN PipeToDummy(p, slow).phy ELSE p
<1>1. /\ Kept(p, quiet) /\ (~quiet.up \/ quiet.stuck)
      /\ quiet.mux = "usb3" => quiet.stuck
  <2>1. CASE p.up
    BY <2>1, DummyPipe
  <2>2. CASE ~p.up
    BY <2>2 DEF Kept, Routed
  <2>3. QED
    BY <2>1, <2>2
<1>2. PICK k : k = quiet
  OBVIOUS
<1>3. PICK q : q = [k EXCEPT !.inReset = TRUE, !.usb2 = FALSE]
  OBVIOUS
<1>4. /\ q \in Phys /\ q.inReset /\ ~q.usb2 /\ q.up = k.up /\ q.stuck = k.stuck /\ q.mux = k.mux
      /\ q.mode = p.mode /\ q.swap = p.swap /\ q.core = p.core /\ q.layout = p.layout /\ q.torn = p.torn
      /\ q.rate = p.rate /\ q.pll = p.pll /\ q.laneRate = p.laneRate /\ (p.stuck => q.stuck)
      /\ q.halfway = p.halfway
  <2>1. k \in Phys /\ Kept(p, k)
    BY <1>1, <1>2 DEF Kept
  <2>2. /\ k.mode = p.mode /\ k.swap = p.swap /\ k.core = p.core /\ k.layout = p.layout /\ k.torn = p.torn
        /\ k.rate = p.rate /\ k.pll = p.pll /\ k.laneRate = p.laneRate /\ (p.stuck => k.stuck)
        /\ k.halfway = p.halfway
    BY ONLY <2>1 DEF Kept
  <2>3. q \in Phys /\ q.inReset /\ ~q.usb2 /\ q.up = k.up /\ q.stuck = k.stuck /\ q.mux = k.mux
    BY ONLY <1>3, <2>1 DEF Phys
  <2>4. /\ q.mode = k.mode /\ q.swap = k.swap /\ q.core = k.core /\ q.layout = k.layout /\ q.torn = k.torn
        /\ q.rate = k.rate /\ q.pll = k.pll /\ q.laneRate = k.laneRate /\ q.halfway = k.halfway
    BY ONLY <1>3, <2>1 DEF Phys
  <2>5. QED
    BY ONLY <2>2, <2>3, <2>4
<1>5. Routed(q) /\ Rated(q)
  BY <1>1, <1>2, <1>4 DEF Routed, Rated
<1>6. ResetAssert(p, slow) = q
  BY <1>2, <1>3 DEF ResetAssert
<1>7. QED
  BY <1>1, <1>2, <1>4, <1>5, <1>6

------------------------------------------------------------------------------
(* The controller's probe. *)
LEMMA ProbeUsbOK ==
  ASSUME PhyInv, ProbeUsb
  PROVE  PhyInv'
<1>1. usb'.at = "reset" /\ usb' \in [at : {"reset"}, probes : Nat]
  BY DEF ProbeUsb, PhyInv, PhyTypes
<1>2. PhyTypes'
  BY <1>1 DEF ProbeUsb, PhyInv, PhyTypes
<1>3. QED
  BY <1>1, <1>2 DEF ProbeUsb, UsbAt, PhyInv, Routed, Rated, Turned, Rests, Serves

LEMMA AssertUsbResetOK ==
  ASSUME PhyInv, NEW slow, AssertUsbReset(slow)
  PROVE  PhyInv'
<1>1. usb'.at = "orient" /\ usb' \in [at : {"orient"}, probes : Nat] /\ phy' = ResetAssert(phy, slow)
      /\ lane3' = lane3 /\ ext' = ext /\ cable' = cable
  BY DEF AssertUsbReset, UsbTo, PhyInv, PhyTypes
<1>2. /\ phy' \in Phys /\ phy'.inReset /\ (~phy'.up \/ phy'.stuck) /\ Routed(phy') /\ Rated(phy')
      /\ phy'.mode = phy.mode /\ phy'.swap = phy.swap
  BY <1>1, ResetRests DEF PhyInv, PhyTypes
<1>3. PhyTypes'
  BY <1>1, <1>2 DEF PhyInv, PhyTypes
<1>4. Turned(phy)' /\ Rests(phy)' /\ Serves(phy)'
  BY <1>1, <1>2 DEF PhyInv, Turned, Rests, Serves
<1>5. Routed(phy)' /\ Rated(phy)'
  BY <1>2 DEF Routed, Rated
<1>6. QED
  BY <1>3, <1>4, <1>5 DEF PhyInv

LEMMA SetOrientationOK ==
  ASSUME AtcAssumption, PhyInv, SetOrientation
  PROVE  PhyInv'
<1>1. /\ usb.at = "orient" /\ usb'.at = "power" /\ usb' \in [at : {"power"}, probes : Nat] /\ ext' = ext
      /\ cable.reverse \in BOOLEAN /\ phy \in Phys
  BY DEF SetOrientation, UsbAt, UsbTo, PhyInv, PhyTypes
<1>2. PICK t \in {cable.told, TRUE} :
        /\ cable' = [cable EXCEPT !.told = t]
        /\ lane3' = IF t /\ cable.mode # "usb3" THEN cable.mode ELSE lane3
  BY DEF SetOrientation
<1>3. /\ cable' \in [mode : CableModes, reverse : BOOLEAN, told : BOOLEAN] /\ cable'.reverse = cable.reverse
      /\ lane3' \in DpModes \cup {"none", "host"}
  BY <1>2 DEF PhyInv, PhyTypes, AtcAssumption, DpModes
<1>4. PICK p : p = [phy EXCEPT !.swap = cable.reverse]
  OBVIOUS
<1>5. /\ p \in Phys /\ p.swap = cable.reverse /\ p.mode = phy.mode /\ p.layout = phy.layout /\ p.torn = phy.torn
      /\ p.mux = phy.mux /\ p.up = phy.up /\ p.stuck = phy.stuck /\ p.rate = phy.rate /\ p.pll = phy.pll
      /\ p.laneRate = phy.laneRate /\ p.core = phy.core /\ p.inReset = phy.inReset /\ p.halfway = phy.halfway
  BY <1>1, <1>4 DEF Phys
<1>6. Routed(p) /\ Rated(p) /\ (~p.up \/ p.stuck) /\ p.inReset
  <2>1. p.mode # "none" => p.swap = phy.swap
    BY <1>5 DEF PhyInv, Turned
  <2>2. Routed(p) /\ (~p.up \/ p.stuck) /\ p.inReset
    BY <1>1, <1>5 DEF PhyInv, Rests, Serves, Routed
  <2>3. Rated(p)
    BY <1>5, <2>1 DEF PhyInv, Rated
  <2>4. QED
    BY <2>2, <2>3
<1>7. /\ phy' \in Phys /\ Routed(phy') /\ Rated(phy') /\ (~phy'.up \/ phy'.stuck) /\ phy'.inReset
      /\ phy'.swap = cable.reverse
  <2>1. CASE phy' = p
    BY <1>5, <1>6, <2>1
  <2>2. CASE phy' = ConfigureCrossbar(p)
    <3>1. PICK m : m = IF p.mode = "none" THEN "usb3" ELSE p.mode
      OBVIOUS
    <3>2. m \in LaneModes /\ (m = "dp" <=> p.mode = "dp")
      BY <1>5, <3>1 DEF Phys, LaneModes, DpModes
    <3>3. phy' = ConfigureLanes(p, m)
      BY <2>2, <3>1 DEF ConfigureCrossbar
    <3>4. CASE p.core # "on"
      BY <1>5, <1>6, <3>3, <3>4 DEF ConfigureLanes
    <3>5. CASE p.core = "on"
      <4>1. Lanes(p, phy', m)
        BY <1>5, <3>2, <3>3, <3>5, LanesTurn
      <4>2. phy'.layout = "dp" <=> p.mode = "dp"
        BY <1>1, <1>5, <3>2, <4>1, LayoutIs DEF Lanes
      <4>3. Routed(phy')
        BY <1>6, <3>5, <4>1, <4>2 DEF Lanes, Routed
      <4>4. Rated(phy')
        BY <1>6, <4>1 DEF Lanes, Rated
      <4>5. QED
        BY <1>5, <1>6, <4>1, <4>3, <4>4 DEF Lanes
    <3>6. QED
      BY <3>4, <3>5
  <2>3. QED
    BY <1>4, <2>1, <2>2 DEF SetOrientation
<1>8. PhyTypes'
  BY <1>1, <1>3, <1>7 DEF PhyInv, PhyTypes
<1>9. Turned(phy)' /\ Rests(phy)' /\ Serves(phy)'
  BY <1>1, <1>3, <1>7 DEF Turned, Rests, Serves
<1>10. Routed(phy)' /\ Rated(phy)'
  BY <1>7 DEF Routed, Rated
<1>11. QED
  BY <1>8, <1>9, <1>10 DEF PhyInv

(* A step that began an initialisation in a mode and goes to the next state. *)
LEMMA BegunRates ==
  ASSUME NEW p, NEW q, NEW mode, Begun(p, q, mode)
  PROVE  Rated(q)
BY DEF Begun, Rated

LEMMA PowerOnUsbOK ==
  ASSUME AtcAssumption, PhyInv, NEW slow, PowerOnUsb(slow)
  PROVE  PhyInv'
<1>1. /\ usb.at = "power" /\ lane3' = lane3 /\ ext' = ext /\ cable' = cable
      /\ phy \in Phys /\ Routed(phy) /\ (~phy.up \/ phy.stuck) /\ phy.inReset
  BY DEF PowerOnUsb, UsbAt, PhyInv, PhyTypes, Rests, Serves
<1>2. PICK m : m = AtcMode
  OBVIOUS
<1>3. m \in LaneModes
  BY <1>1, <1>2 DEF AtcMode, PhyInv, PhyTypes, Phys, LaneModes, DpModes
<1>4. PICK a : a = IF m = "usb3" THEN InitUsb3(phy, slow) ELSE InitDp(phy, m, slow)
  OBVIOUS
<1>5. phy' = a.phy /\ UsbTo(IF a.ok THEN "release" ELSE "idle")
  BY <1>2, <1>4 DEF PowerOnUsb, Took
<1>6. /\ Begun(phy, a.phy, IF m = "usb3" THEN "none" ELSE m)
      /\ a.ok => a.phy.core = "on" /\ a.phy.running
  <2>1. CASE m = "usb3"
    BY <1>1, <1>4, <2>1, InitUsb3Begins
  <2>2. CASE m # "usb3"
    BY <1>1, <1>3, <1>4, <2>2, InitDpBegins DEF LaneModes
  <2>3. QED
    BY <2>1, <2>2
<1>7. usb'.at = (IF a.ok THEN "release" ELSE "idle") /\ usb' \in [at : {"release", "idle"}, probes : Nat]
  BY <1>5 DEF PhyInv, PhyTypes, UsbTo
<1>8. PhyTypes'
  BY <1>1, <1>5, <1>6, <1>7 DEF PhyInv, PhyTypes, Begun
<1>9. Rests(phy)' /\ Serves(phy)'
  BY <1>1, <1>5, <1>6, <1>7 DEF Rests, Serves, Begun
<1>10. Routed(phy)' /\ Rated(phy)'
  <2>1. Routed(phy') /\ Rated(phy')
    BY <1>5, <1>6, BegunRates DEF Begun
  <2>2. QED
    BY <2>1 DEF Routed, Rated
<1>11. Turned(phy)'
  BY <1>1, <1>5, <1>6 DEF Turned, Begun, PhyInv
<1>12. QED
  BY <1>8, <1>9, <1>10, <1>11 DEF PhyInv

LEMMA ReleaseUsbOK ==
  ASSUME PhyInv, ReleaseUsb
  PROVE  PhyInv'
<1>1. PICK q : q = [phy EXCEPT !.inReset = FALSE]
  OBVIOUS
<1>2. /\ usb.at = "release" /\ usb' \in [at : {"host"}, probes : Nat] /\ usb'.at = "host" /\ phy' = q
      /\ lane3' = lane3 /\ ext' = ext /\ cable' = cable /\ phy \in Phys
  BY <1>1 DEF ReleaseUsb, UsbAt, UsbTo, ResetDeassert, PhyInv, PhyTypes
<1>3. /\ q \in Phys /\ q.core = phy.core /\ q.running = phy.running /\ q.usb2 = phy.usb2 /\ q.mode = phy.mode
      /\ q.swap = phy.swap /\ q.layout = phy.layout /\ q.mux = phy.mux /\ q.up = phy.up /\ q.stuck = phy.stuck
      /\ q.torn = phy.torn /\ q.rate = phy.rate /\ q.pll = phy.pll /\ q.laneRate = phy.laneRate
      /\ q.halfway = phy.halfway
  BY <1>1, <1>2 DEF Phys
<1>4. PhyTypes'
  BY <1>2, <1>3 DEF PhyInv, PhyTypes
<1>5. Turned(phy)' /\ Rests(phy)' /\ Serves(phy)'
  BY <1>2, <1>3 DEF PhyInv, Turned, Rests, Serves
<1>6. Routed(phy)' /\ Rated(phy)'
  BY <1>2, <1>3 DEF PhyInv, Routed, Rated
<1>7. QED
  BY <1>4, <1>5, <1>6 DEF PhyInv

LEMMA KeptRates ==
  ASSUME NEW p, NEW q, Kept(p, q), Rated(p)
  PROVE  Rated(q)
BY DEF Kept, Rated

LEMMA EnableUsb3HostOK ==
  ASSUME PhyInv, NEW slow, EnableUsb3Host(slow)
  PROVE  PhyInv'
<1>1. PICK a : a = IF phy.mode = "dp" THEN PipeToDummy(phy, slow) ELSE PipeToUsb3(phy, TRUE, slow)
  OBVIOUS
<1>2. phy' = a.phy /\ UsbTo(IF a.ok THEN "bind" ELSE "drop")
  BY <1>1 DEF EnableUsb3Host, Took
<1>3. /\ usb.at = "host" /\ lane3' = "host" /\ ext' = ext /\ cable' = cable /\ phy \in Phys
      /\ usb' \in [at : {"bind", "drop"}, probes : Nat] /\ usb'.at \in {"bind", "drop"}
  BY <1>2 DEF EnableUsb3Host, UsbAt, UsbTo, PhyInv, PhyTypes
<1>4. /\ Kept(phy, phy')
      /\ \/ phy'.mux = "dummy"
         \/ SamePipe(phy, phy')
         \/ phy'.mux = "usb3" /\ phy'.up /\ phy.mode # "dp"
  <2>1. CASE phy.mode = "dp"
    BY <1>1, <1>2, <1>3, <2>1, DummyPipe
  <2>2. CASE phy.mode # "dp"
    BY <1>1, <1>2, <1>3, <2>2, Usb3Pipe
  <2>3. QED
    BY <2>1, <2>2
<1>5. PhyTypes'
  BY <1>3, <1>4 DEF PhyInv, PhyTypes, Kept
<1>6. Turned(phy)' /\ Rests(phy)' /\ Serves(phy)'
  BY <1>3, <1>4 DEF PhyInv, Turned, Rests, Serves, Kept
<1>7. Routed(phy') /\ Rated(phy')
  <2>1. Rated(phy')
    BY <1>4, KeptRates DEF PhyInv
  <2>2. Routed(phy')
    BY <1>4 DEF PhyInv, Routed, Kept, SamePipe
  <2>3. QED
    BY <2>1, <2>2
<1>8. Routed(phy)' /\ Rated(phy)'
  BY <1>7 DEF Routed, Rated
<1>9. QED
  BY <1>5, <1>6, <1>8 DEF PhyInv

LEMMA BindUsbOK ==
  ASSUME PhyInv, BindUsb
  PROVE  PhyInv'
<1>1. /\ usb.at = "bind" /\ usb' \in [at : {"running", "drop"}, probes : Nat] /\ usb'.at \in {"running", "drop"}
      /\ phy' = phy /\ lane3' = lane3 /\ ext' = ext /\ cable' = cable
  BY DEF BindUsb, UsbAt, UsbTo, PhyInv, PhyTypes
<1>2. PhyTypes'
  BY <1>1 DEF PhyInv, PhyTypes
<1>3. QED
  BY <1>1, <1>2 DEF PhyInv, Routed, Rated, Turned, Rests, Serves

(* Dropping the controller: the interface is put to rest, or it is stuck; the  *)
(* core goes off with its lanes, and the controller back into reset.           *)
LEMMA DropUsbOK ==
  ASSUME PhyInv, NEW slow, DropUsb(slow)
  PROVE  PhyInv'
<1>1. PICK d : d = PipeToDummy(phy, slow).phy
  OBVIOUS
<1>2. PICK u : u = [d EXCEPT !.up = FALSE]
  OBVIOUS
<1>3. PICK o : o = CorePowerOff(u, slow).phy
  OBVIOUS
<1>4. PICK r : r = ResetAssert(o, "none")
  OBVIOUS
<1>5. /\ usb.at = "drop" /\ usb' \in [at : {"idle"}, probes : Nat] /\ usb'.at = "idle"
      /\ lane3' = lane3 /\ ext' = ext /\ cable' = cable /\ phy \in Phys
      /\ phy' = [r EXCEPT !.usb2 = FALSE]
  BY <1>1, <1>2, <1>3, <1>4 DEF DropUsb, UsbAt, UsbTo, PhyInv, PhyTypes
<1>6. Kept(phy, d) /\ (d.mux = "dummy" \/ d.stuck)
  BY <1>1, <1>5, DummyPipe
<1>7. Kept(phy, u) /\ u.mux = d.mux /\ ~u.up /\ u \in Phys /\ (u.mux = "usb3" => u.stuck)
  <2>1. d \in Phys
    BY <1>6 DEF Kept
  <2>2. Kept(d, u) /\ u.mux = d.mux /\ ~u.up
    BY <1>2, <2>1, WritesKeep
  <2>3. QED
    BY <1>6, <2>2, KeptTransitive DEF Kept
<1>8. /\ o \in Phys /\ Routed(o) /\ Rated(o) /\ o.mode = phy.mode /\ o.swap = phy.swap
  <2>1. (u.torn => u.stuck) /\ Rated(u) /\ u.mode = phy.mode /\ u.swap = phy.swap
    BY <1>7, KeptRates DEF PhyInv, Routed, Kept
  <2>2. /\ o \in Phys /\ o.core # "on" /\ o.layout = "none" /\ o.torn = u.torn /\ o.stuck = u.stuck
        /\ o.mux = u.mux /\ o.up = u.up /\ o.mode = u.mode /\ o.swap = u.swap /\ Rated(o)
    BY <1>3, <1>7, <2>1, CoreRests
  <2>3. QED
    BY <1>7, <2>1, <2>2 DEF Routed
<1>9. /\ r \in Phys /\ r.inReset /\ Routed(r) /\ Rated(r) /\ r.mode = phy.mode /\ r.swap = phy.swap
  BY <1>4, <1>8, ResetRests
<1>10. PICK q : q = phy'
  OBVIOUS
<1>11. /\ q \in Phys /\ q.inReset /\ q.core = r.core /\ q.mode = r.mode
       /\ q.swap = r.swap /\ q.layout = r.layout /\ q.mux = r.mux /\ q.up = r.up /\ q.stuck = r.stuck
       /\ q.torn = r.torn /\ q.rate = r.rate /\ q.pll = r.pll /\ q.laneRate = r.laneRate /\ q.halfway = r.halfway
  BY <1>5, <1>9, <1>10 DEF Phys
<1>12. PhyTypes'
  BY <1>5, <1>10, <1>11 DEF PhyInv, PhyTypes
<1>13. Turned(phy)' /\ Rests(phy)' /\ Serves(phy)'
  BY <1>5, <1>9, <1>10, <1>11 DEF PhyInv, Turned, Rests, Serves
<1>14. Routed(phy)' /\ Rated(phy)'
  BY <1>9, <1>10, <1>11 DEF Routed, Rated
<1>15. QED
  BY <1>12, <1>13, <1>14 DEF PhyInv

------------------------------------------------------------------------------
(* The external display. *)
LEMMA ExtConfiguresOK ==
  ASSUME AtcAssumption, PhyInv, NEW slow, ExtConfigures(slow)
  PROVE  PhyInv'
<1>1. PICK a : a = ConfigureDisplayport(phy, cable.mode, cable.reverse, slow)
  OBVIOUS
<1>2. /\ usb.at \in {"idle", "running"} /\ usb' = usb /\ lane3' = lane3 /\ phy' = a.phy
      /\ cable' = [cable EXCEPT !.told = TRUE] /\ cable.mode # "usb3"
      /\ ext' = IF a.ok THEN [at |-> "configured", rate |-> 0, lanes |-> 0] ELSE ext
  BY <1>1 DEF ExtConfigures, Took
<1>3. /\ cable' \in [mode : CableModes, reverse : BOOLEAN, told : BOOLEAN] /\ cable'.reverse = cable.reverse
      /\ cable.mode \in DpModes /\ cable.reverse \in BOOLEAN /\ phy \in Phys
  BY <1>2 DEF PhyInv, PhyTypes, AtcAssumption, DpModes
<1>4. ext' \in [at : {"idle", "configured", "up"}, rate : Nat, lanes : Nat]
  BY <1>2 DEF PhyInv, PhyTypes
<1>5. CASE phy.mode = cable.mode /\ phy.swap = cable.reverse
  <2>1. phy' = phy
    BY <1>1, <1>2, <1>5 DEF ConfigureDisplayport, Answer
  <2>2. PhyTypes'
    BY <1>2, <1>3, <1>4, <2>1 DEF PhyInv, PhyTypes
  <2>3. QED
    BY <1>2, <1>3, <2>1, <2>2 DEF PhyInv, Routed, Rated, Turned, Rests, Serves
<1>6. CASE ~(phy.mode = cable.mode /\ phy.swap = cable.reverse)
  <2>1. PICK p : p = [phy EXCEPT !.swap = cable.reverse]
    OBVIOUS
  <2>2. /\ p \in Phys /\ p.swap = cable.reverse /\ p.mode = phy.mode /\ p.layout = phy.layout /\ p.torn = phy.torn
        /\ p.mux = phy.mux /\ p.up = phy.up /\ p.stuck = phy.stuck /\ p.core = phy.core /\ p.inReset = phy.inReset
        /\ p.running = phy.running
    BY <1>3, <2>1 DEF Phys
  <2>3. Routed(p)
    BY <2>2 DEF PhyInv, Routed
  <2>4. a = InitDp(p, cable.mode, slow)
    BY <1>1, <1>6, <2>1 DEF ConfigureDisplayport
  <2>5. Begun(p, phy', cable.mode)
    BY <1>2, <1>3, <2>2, <2>3, <2>4, InitDpBegins
  <2>6. PhyTypes'
    BY <1>2, <1>3, <1>4, <2>5 DEF PhyInv, PhyTypes, Begun
  <2>7. Turned(phy)' /\ Rests(phy)' /\ Serves(phy)'
    BY <1>2, <1>3, <2>2, <2>5 DEF PhyInv, Turned, Rests, Serves, Begun
  <2>8. Routed(phy') /\ Rated(phy')
    BY <2>5, BegunRates DEF Begun
  <2>9. Routed(phy)' /\ Rated(phy)'
    BY <2>8 DEF Routed, Rated
  <2>10. QED
    BY <2>6, <2>7, <2>9 DEF PhyInv
<1>7. QED
  BY <1>5, <1>6

LEMMA SetLinkRateOK ==
  ASSUME AtcAssumption, PhyInv, NEW r \in LinkRates \cup {0}, NEW slow, SetLinkRate(r, slow)
  PROVE  PhyInv'
<1>1. PICK a : a = ConfigureDpLinkRate(phy, r, slow)
  OBVIOUS
<1>2. /\ phy' = a.phy /\ usb' = usb /\ lane3' = lane3 /\ cable' = cable /\ phy \in Phys /\ r \in Nat
      /\ ext' = [ext EXCEPT !.rate = IF a.ok THEN r ELSE 0]
  BY <1>1 DEF SetLinkRate, Took, PhyInv, PhyTypes, AtcAssumption
<1>3. /\ phy' \in Phys /\ Routed(phy') /\ Rated(phy')
      /\ phy'.mode = phy.mode /\ phy'.swap = phy.swap /\ phy'.up = phy.up /\ (phy.stuck => phy'.stuck)
      /\ phy'.inReset = phy.inReset /\ phy'.core = phy.core /\ phy'.running = phy.running /\ phy'.usb2 = phy.usb2
  BY <1>1, <1>2, RateIsSet DEF PhyInv
<1>4. ext' \in [at : {"idle", "configured", "up"}, rate : Nat, lanes : Nat]
  BY <1>2 DEF PhyInv, PhyTypes
<1>5. PhyTypes'
  BY <1>2, <1>3, <1>4 DEF PhyInv, PhyTypes
<1>6. Turned(phy)' /\ Rests(phy)' /\ Serves(phy)'
  BY <1>2, <1>3 DEF PhyInv, Turned, Rests, Serves
<1>7. Routed(phy)' /\ Rated(phy)'
  BY <1>3 DEF Routed, Rated
<1>8. QED
  BY <1>5, <1>6, <1>7 DEF PhyInv

LEMMA SetActiveLanesOK ==
  ASSUME PhyInv, NEW n \in {0, 1, 2, 4}, SetActiveLanes(n)
  PROVE  PhyInv'
<1>1. PICK a : a = SetActiveDpLanes(phy, n)
  OBVIOUS
<1>2. /\ phy' = a.phy /\ usb' = usb /\ lane3' = lane3 /\ cable' = cable /\ phy \in Phys
      /\ ext' = [ext EXCEPT !.lanes = IF a.ok THEN n ELSE 0]
  BY <1>1 DEF SetActiveLanes, PhyInv, PhyTypes
<1>3. phy' = phy \/ phy' = [phy EXCEPT !.lanes = n]
  BY <1>1, <1>2 DEF SetActiveDpLanes, Answer
<1>4. PICK q : q = phy'
  OBVIOUS
<1>5. /\ q \in Phys /\ q.inReset = phy.inReset /\ q.core = phy.core /\ q.mode = phy.mode /\ q.running = phy.running
      /\ q.swap = phy.swap /\ q.layout = phy.layout /\ q.mux = phy.mux /\ q.up = phy.up /\ q.stuck = phy.stuck
      /\ q.torn = phy.torn /\ q.rate = phy.rate /\ q.pll = phy.pll /\ q.laneRate = phy.laneRate /\ q.usb2 = phy.usb2
      /\ q.halfway = phy.halfway
  BY <1>2, <1>3, <1>4 DEF Phys
<1>6. ext' \in [at : {"idle", "configured", "up"}, rate : Nat, lanes : Nat]
  BY <1>2 DEF PhyInv, PhyTypes
<1>7. PhyTypes'
  BY <1>2, <1>4, <1>5, <1>6 DEF PhyInv, PhyTypes
<1>8. Turned(phy)' /\ Rests(phy)' /\ Serves(phy)'
  BY <1>2, <1>4, <1>5 DEF PhyInv, Turned, Rests, Serves
<1>9. Routed(phy)' /\ Rated(phy)'
  BY <1>4, <1>5 DEF PhyInv, Routed, Rated
<1>10. QED
  BY <1>7, <1>8, <1>9 DEF PhyInv

LEMMA LinkSelectedOK ==
  ASSUME PhyInv, LinkSelected
  PROVE  PhyInv'
<1>1. phy' = phy /\ usb' = usb /\ lane3' = lane3 /\ cable' = cable
  BY DEF LinkSelected
<1>2. ext' \in [at : {"idle", "configured", "up"}, rate : Nat, lanes : Nat]
  BY DEF LinkSelected, PhyInv, PhyTypes
<1>3. QED
  BY <1>1, <1>2 DEF PhyInv, PhyTypes, Routed, Rated, Turned, Rests, Serves

LEMMA PhyStep ==
  ASSUME AtcAssumption, PhyInv, [AtcNext]_atcVars
  PROVE  PhyInv'
<1>1. CASE UNCHANGED atcVars
  BY <1>1 DEF atcVars, PhyInv, PhyTypes, Routed, Rated, Turned, Rests, Serves
<1>2. CASE AtcNext
  BY <1>2, ProbeUsbOK, SetOrientationOK, ReleaseUsbOK, BindUsbOK, AssertUsbResetOK, EnableUsb3HostOK, PowerOnUsbOK,
     ExtConfiguresOK, DropUsbOK, SetLinkRateOK, SetActiveLanesOK, LinkSelectedOK DEF AtcNext
<1>3. QED
  BY <1>1, <1>2

(* The shared PHY stays honest through any order of the requests of its two    *)
(* drivers, with polls that run out at any of them: lanes change only under a  *)
(* quiet interface while the multiplexer answers, the rate on record is that   *)
(* of the lanes and, unless its programming ended halfway, of the PLL, and the *)
(* controller is out of reset only on a PHY that runs.                         *)
THEOREM PhyStaysHonest == AtcSpec => []PhyIsHonest
<1>1. AtcInit => PhyInv
  BY AtcAssumption, PhyInitInv
<1>2. PhyInv /\ [AtcNext]_atcVars => PhyInv'
  BY AtcAssumption, PhyStep
<1>3. PhyInv => PhyIsHonest
  BY DEF PhyInv, PhyTypes, Routed, Rated, Serves, PhyIsHonest, PipeQuietOnLaneChange, NoPipeUnderDisplay,
         RecordedRateIsReal, ControllerHasPhy
<1>4. QED
  BY <1>1, <1>2, <1>3, PTL DEF AtcSpec

------------------------------------------------------------------------------
(* A sequence longer by an element, and shorter by its first.                  *)
LEMMA EntryAppended ==
  ASSUME NEW S, NEW s \in Seq(S), NEW x \in S, NEW t, t = Append(s, x)
  PROVE  /\ t \in Seq(S) /\ Len(t) = Len(s) + 1 /\ Len(s) \in Nat /\ Len(s) + 1 \in Nat /\ Len(s) + 1 \in DOMAIN t /\ t[Len(s) + 1] = x
         /\ \A i \in DOMAIN s : i \in DOMAIN t /\ t[i] = s[i] /\ i < Len(s) + 1
         /\ \A i \in DOMAIN t : i \in Nat /\ (i = Len(s) + 1 \/ i \in DOMAIN s)
OBVIOUS

LEMMA EntryTaken ==
  ASSUME NEW S, NEW s \in Seq(S), s # <<>>, NEW t, t = Tail(s)
  PROVE  /\ t \in Seq(S) /\ Len(t) = Len(s) - 1 /\ Len(s) \in Nat \ {0} /\ 1 \in DOMAIN s /\ Head(s) = s[1] /\ s[1] \in S
         /\ \A i \in DOMAIN t : i \in Nat /\ i + 1 \in DOMAIN s /\ t[i] = s[i + 1] /\ 1 < i + 1
         /\ \A i \in DOMAIN s : i \in Nat /\ (i = 1 \/ (i - 1 \in DOMAIN t /\ s[i] = t[i - 1]))
<1>1. t \in Seq(S) /\ Len(t) = Len(s) - 1 /\ Len(s) \in Nat /\ Len(s) > 0 /\ Head(s) = s[1]
  OBVIOUS
<1>2. DOMAIN t = 1 .. Len(t) /\ DOMAIN s = 1 .. Len(s)
  BY <1>1
<1>3. \A i \in 1 .. Len(t) : t[i] = s[i + 1]
  OBVIOUS
<1>4. 1 \in DOMAIN s /\ s[1] \in S
  BY <1>1, <1>2
<1>5. ASSUME NEW i \in DOMAIN t
      PROVE  i \in Nat /\ i + 1 \in DOMAIN s /\ t[i] = s[i + 1] /\ 1 < i + 1
  <2>1. Len(t) \in Nat /\ i \in 1 .. Len(t)
    BY <1>1, <1>2
  <2>2. QED
    BY <1>1, <1>2, <1>3, <2>1
<1>6. ASSUME NEW i \in DOMAIN s, i # 1
      PROVE  i - 1 \in DOMAIN t /\ s[i] = t[i - 1]
  <2>1. i \in Nat /\ i - 1 \in 1 .. Len(t) /\ (i - 1) + 1 = i
    BY <1>1, <1>2, <1>6
  <2>2. QED
    BY <1>2, <1>3, <2>1
<1>7. QED
  BY <1>1, <1>2, <1>4, <1>5, <1>6

------------------------------------------------------------------------------
(* The handshake (AfkHandshake).                                               *)
TagsOfBuffers == BufferTags \cup {0}
MessagesIn ==
  [type : {"INIT_ACK", "START_ACK", "SHUTDOWN_ACK", "RECV"}]
    \cup [type : {"GETBUF"}, blocks : Nat, tag : TagsOfBuffers]
    \cup [type : {"INIT_TX", "INIT_RX"}, off : Nat, size : Nat, tag : TagsOfBuffers]
MessagesOut == [type : {"INIT", "START", "SHUTDOWN"}] \cup [type : {"GETBUF_ACK"}, buffer : Nat]
Points == {"none", "init", "INIT_ACK", "GETBUF", "map", "answer", "rings", "start", "START_ACK", "up", "SHUTDOWN_ACK", "down",
           "failed", "dropping"}
Rings == [ready : {TRUE}, off : Nat, size : Nat]
AfkBuffers == [blocks : Nat, tag : TagsOfBuffers]
EndpointStates == [at : Points, n : Nat, shared : {NoShared} \cup AfkBuffers, rings : [RingNames -> {NoRing} \cup Rings],
              done : SUBSET RingNames, started : BOOLEAN, mixed : BOOLEAN]
AfkTypes ==
  /\ afk \in EndpointStates
  /\ rbepIn \in Seq(MessagesIn) /\ rbepOut \in Seq(MessagesOut)
  /\ afkFw \in [phase : {"idle", "getbuf", "rings", "told", "running"}, buffer : Nat, layout : RingLayouts, tag : TagsOfBuffers]

(* The pages are this endpoint's, from their allocation to the end of drop.    *)
Mapped == {"answer", "rings", "start", "START_ACK", "up", "SHUTDOWN_ACK", "down"}
PagesOK ==
  /\ afk.at \in {"none", "init", "INIT_ACK", "GETBUF"} => afk.shared = NoShared
  /\ afk.at \in {"map"} \cup Mapped => afk.shared \in AfkBuffers
  /\ afk.shared = NoShared => afkPages = [owned |-> {}, mapped |-> {}]
  /\ afk.shared # NoShared =>
       afkPages = [owned |-> {afk.n}, mapped |-> IF afk.at \in {"map", "dropping"} THEN {} ELSE {afk.n}]
ReadyOK ==
  \A r \in RingNames : afk.rings[r].ready =>
    /\ afk.at \in (Mapped \ {"answer"}) \cup {"failed", "dropping"}
    /\ afk.shared \in AfkBuffers /\ afk.rings[r].off + afk.rings[r].size <= afk.shared.blocks

(* Where the endpoint and the firmware are in one handshake.                   *)
RingTypes == {"INIT_TX", "INIT_RX"}
NoRings == ~RingsLeft
LastIsInit(out) == out # <<>> /\ out[Len(out)].type = "INIT"
(* INIT is on its way, the newest message; or firmware answered it.            *)
Asked == LastIsInit(rbepOut)
Answered == rbepOut = <<>> /\ afkFw.phase = "getbuf"
(* With rings left there is one request only, this endpoint's.                 *)
OneRequest ==
  /\ Asked => ~Left(rbepIn, {"GETBUF"}) /\ \A i \in DOMAIN rbepOut : rbepOut[i].type = "INIT" => i = Len(rbepOut)
  /\ Answered => \A i \in DOMAIN rbepIn : rbepIn[i].type = "GETBUF" => i = Len(rbepIn)
AskedOrAnswered == (Asked \/ Answered) /\ (NoRings \/ OneRequest)

Agrees(r) == afk.rings[r].ready /\ <<afk.rings[r].off, afk.rings[r].size>> = afkFw.layout[r]
Agreed == afkFw.buffer = afk.n /\ \A r \in RingNames : Agrees(r)
NoRingsIn == ~Left(rbepIn, RingTypes)
Ack == [type |-> "GETBUF_ACK", buffer |-> afk.n]
BufferSent ==
  /\ Len(rbepOut) >= 2 /\ rbepOut[Len(rbepOut) - 1].type = "INIT" /\ rbepOut[Len(rbepOut)] = Ack
  /\ \A i \in DOMAIN rbepOut : rbepOut[i].type = "GETBUF_ACK" => i = Len(rbepOut)
  /\ NoRingsIn /\ afkFw.phase # "rings" /\ afk.done = {}
BufferNext == rbepOut = <<Ack>> /\ afkFw.phase = "getbuf" /\ NoRingsIn /\ afk.done = {}
BufferTaken == rbepOut = <<>> /\ afkFw.phase = "rings" /\ afkFw.buffer = afk.n /\ NoRingsIn /\ afk.done = {}
IsRing(m, r) == m.type \in RingTypes /\ RingOf[m.type] = r /\ <<m.off, m.size>> = afkFw.layout[r]
BothTold ==
  /\ afk.done = {} /\ Len(rbepIn) >= 2
  /\ \E r, s \in RingNames : r # s /\ IsRing(rbepIn[Len(rbepIn) - 1], r) /\ IsRing(rbepIn[Len(rbepIn)], s)
  /\ \A i \in DOMAIN rbepIn : rbepIn[i].type \in RingTypes => i >= Len(rbepIn) - 1
OneTold ==
  /\ Len(rbepIn) >= 1
  /\ \E r, s \in RingNames : r # s /\ afk.done = {r} /\ Agrees(r) /\ IsRing(rbepIn[Len(rbepIn)], s)
  /\ \A i \in DOMAIN rbepIn : rbepIn[i].type \in RingTypes => i = Len(rbepIn)
RingsTold == rbepOut = <<>> /\ afkFw.phase = "told" /\ afkFw.buffer = afk.n /\ (BothTold \/ OneTold)

AtStart == [type |-> "START"]
InitOK == afk.at = "init" => ~RequestLeft \/ ~RingsLeft
AskOK == afk.at \in {"INIT_ACK", "GETBUF"} => AskedOrAnswered
MapOK == afk.at \in {"map", "answer"} => (Asked \/ Answered) /\ NoRings
RingsOK == afk.at = "rings" => BufferSent \/ BufferNext \/ BufferTaken \/ RingsTold
UseOK ==
  /\ afk.at = "start" => Agreed /\ afkFw.phase = "told" /\ rbepIn = <<>> /\ rbepOut = <<>>
  /\ afk.at = "START_ACK" =>
       Agreed /\ \/ rbepOut = <<AtStart>> /\ afkFw.phase = "told" /\ rbepIn = <<>>
                 \/ rbepOut = <<>> /\ afkFw.phase = "running"
  /\ afk.at = "up" => Agreed /\ afkFw.phase = "running" /\ rbepOut = <<>>
  /\ afk.at = "SHUTDOWN_ACK" => Agreed /\ (rbepOut = <<>> \/ rbepOut = <<[type |-> "SHUTDOWN"]>>)
PhaseOK == InitOK /\ AskOK /\ MapOK /\ RingsOK /\ UseOK

StartedOK ==
  /\ afk.started => afk.at \in {"up", "SHUTDOWN_ACK"}
  /\ afk.at \in {"init", "INIT_ACK", "GETBUF", "map", "answer"} => afk.done = {}

AfkInv == AfkTypes /\ PagesOK /\ ReadyOK /\ StartedOK /\ (~afk.mixed => PhaseOK)

LEMMA AfkInitInv ==
  ASSUME AfkAssumption, AfkInit
  PROVE  AfkInv
<1>1. (CHOOSE l \in RingLayouts : TRUE) \in RingLayouts
  BY DEF AfkAssumption
<1>2. AfkTypes
  BY <1>1 DEF AfkInit, AfkTypes, EndpointStates, Points, TagsOfBuffers
<1>3. QED
  BY <1>2 DEF AfkInit, AfkInv, PagesOK, ReadyOK, StartedOK, PhaseOK, InitOK, AskOK, MapOK, RingsOK, UseOK, Mapped, NoRing

(* What a record of each kind says of itself. *)
LEMMA AfkFacts ==
  ASSUME AfkTypes, AfkAssumption
  PROVE  /\ rbepIn \in Seq(MessagesIn) /\ rbepOut \in Seq(MessagesOut)
         /\ \A i \in DOMAIN rbepIn : i \in Nat /\ rbepIn[i] \in MessagesIn
         /\ \A i \in DOMAIN rbepOut : i \in Nat /\ rbepOut[i] \in MessagesOut
         /\ \A m \in MessagesIn : m.type = "GETBUF" => m.blocks \in Nat /\ m.tag \in TagsOfBuffers
         /\ \A m \in MessagesIn : m.type \in RingTypes => m.off \in Nat /\ m.size \in Nat
         /\ \A m \in MessagesOut : m.type = "GETBUF_ACK" => m.buffer \in Nat
         /\ \A r \in RingNames : afkFw.layout[r][1] \in Nat /\ afkFw.layout[r][2] \in Nat
                                 /\ afkFw.layout[r] = <<afkFw.layout[r][1], afkFw.layout[r][2]>>
<1>1. rbepIn \in Seq(MessagesIn) /\ rbepOut \in Seq(MessagesOut)
  BY DEF AfkTypes
<1>2. \A i \in DOMAIN rbepIn : i \in Nat /\ rbepIn[i] \in MessagesIn
  BY <1>1
<1>3. \A i \in DOMAIN rbepOut : i \in Nat /\ rbepOut[i] \in MessagesOut
  BY <1>1
<1>4. \A m \in MessagesIn : m.type = "GETBUF" => m.blocks \in Nat /\ m.tag \in TagsOfBuffers
  BY DEF MessagesIn
<1>5. \A m \in MessagesIn : m.type \in RingTypes => m.off \in Nat /\ m.size \in Nat
  BY DEF MessagesIn, RingTypes
<1>6. \A m \in MessagesOut : m.type = "GETBUF_ACK" => m.buffer \in Nat
  BY DEF MessagesOut
<1>7. ASSUME NEW r \in RingNames
      PROVE  /\ afkFw.layout[r][1] \in Nat /\ afkFw.layout[r][2] \in Nat
             /\ afkFw.layout[r] = <<afkFw.layout[r][1], afkFw.layout[r][2]>>
  <2>1. afkFw.layout \in [blocks : Nat, tx : Nat \X Nat, rx : Nat \X Nat]
    BY DEF AfkTypes, AfkAssumption
  <2>2. afkFw.layout[r] \in Nat \X Nat
    BY <2>1 DEF RingNames
  <2>3. QED
    BY <2>2
<1>8. QED
  BY <1>1, <1>2, <1>3, <1>4, <1>5, <1>6, <1>7

LEMMA SharedIsBuffer ==
  ASSUME NEW b \in AfkBuffers
  PROVE  b # NoShared
<1>1. DOMAIN b = {"blocks", "tag"} /\ DOMAIN NoShared = {"blocks"}
  BY DEF AfkBuffers, NoShared
<1>2. QED
  BY <1>1

LEMMA TwoAppended ==
  ASSUME rbepIn \in Seq(MessagesIn), NEW x \in MessagesIn, NEW y \in MessagesIn, rbepIn' = rbepIn \o <<x, y>>
  PROVE  /\ rbepIn' \in Seq(MessagesIn) /\ Len(rbepIn') = Len(rbepIn) + 2 /\ Len(rbepIn) \in Nat
         /\ rbepIn'[Len(rbepIn') - 1] = x /\ rbepIn'[Len(rbepIn')] = y
         /\ \A i \in DOMAIN rbepIn : i \in DOMAIN rbepIn' /\ rbepIn'[i] = rbepIn[i]
         /\ \A i \in DOMAIN rbepIn' : i \in Nat /\ (i \in DOMAIN rbepIn \/ i = Len(rbepIn') - 1 \/ i = Len(rbepIn')) /\ i <= Len(rbepIn')
<1>1. PICK s \in Seq(MessagesIn) : s = rbepIn
  OBVIOUS
<1>2. PICK u : u = <<x, y>>
  OBVIOUS
<1>3. u \in Seq(MessagesIn) /\ Len(u) = 2 /\ u[1] = x /\ u[2] = y
  BY <1>2
<1>4. PICK t : t = s \o u
  OBVIOUS
<1>5. t \in Seq(MessagesIn) /\ Len(t) = Len(s) + 2 /\ Len(s) \in Nat
  <2>1. s \in Seq(MessagesIn) /\ Len(s) \in Nat
    BY <1>1
  <2>2. t \in Seq(MessagesIn) /\ Len(t) = Len(s) + Len(u)
    BY <1>2, <1>3, <1>4, <2>1
  <2>3. QED
    BY ONLY <1>3, <2>1, <2>2
<1>6. \A i \in 1 .. Len(t) : t[i] = IF i <= Len(s) THEN s[i] ELSE u[i - Len(s)]
  <2>1. s \in Seq(MessagesIn)
    BY <1>1
  <2>2. QED
    BY ONLY <1>3, <1>4, <1>5, <2>1
<1>7. DOMAIN s = 1 .. Len(s) /\ DOMAIN t = 1 .. Len(t)
  BY <1>5
<1>8. t[Len(t) - 1] = x /\ t[Len(t)] = y
  <2>1. Len(t) - 1 \in 1 .. Len(t) /\ Len(t) \in 1 .. Len(t) /\ ~(Len(t) - 1 <= Len(s)) /\ ~(Len(t) <= Len(s))
        /\ (Len(t) - 1) - Len(s) = 1 /\ Len(t) - Len(s) = 2
    BY <1>5
  <2>2. t[Len(t) - 1] = u[1] /\ t[Len(t)] = u[2]
    BY ONLY <2>1, <1>6
  <2>3. QED
    BY ONLY <2>2, <1>3
<1>9. \A i \in DOMAIN s : i \in DOMAIN t /\ t[i] = s[i]
  BY ONLY <1>5, <1>6, <1>7
<1>10. \A i \in DOMAIN t : i \in Nat /\ (i \in DOMAIN s \/ i = Len(t) - 1 \/ i = Len(t)) /\ i <= Len(t)
  BY ONLY <1>5, <1>7
<1>11. t = rbepIn' /\ s = rbepIn
  BY <1>1, <1>2, <1>4
<1>12. QED
  BY ONLY <1>5, <1>8, <1>9, <1>10, <1>11

------------------------------------------------------------------------------
(* A message read takes nothing away but itself. *)
LEMMA MessageRead ==
  ASSUME AfkTypes, rbepIn # <<>>, rbepIn' = Tail(rbepIn)
  PROVE  /\ rbepIn' \in Seq(MessagesIn) /\ Len(rbepIn') = Len(rbepIn) - 1 /\ Len(rbepIn) \in Nat \ {0}
         /\ 1 \in DOMAIN rbepIn /\ Head(rbepIn) = rbepIn[1] /\ rbepIn[1] \in MessagesIn
         /\ \A i \in DOMAIN rbepIn' : i \in Nat /\ i + 1 \in DOMAIN rbepIn /\ rbepIn'[i] = rbepIn[i + 1] /\ 1 < i + 1
         /\ \A i \in DOMAIN rbepIn : i \in Nat
         /\ \A T : Left(rbepIn', T) => Left(rbepIn, T)
<1>1. /\ rbepIn' \in Seq(MessagesIn) /\ Len(rbepIn') = Len(rbepIn) - 1 /\ Len(rbepIn) \in Nat \ {0}
      /\ 1 \in DOMAIN rbepIn /\ Head(rbepIn) = rbepIn[1] /\ rbepIn[1] \in MessagesIn
      /\ \A i \in DOMAIN rbepIn' : i \in Nat /\ i + 1 \in DOMAIN rbepIn /\ rbepIn'[i] = rbepIn[i + 1] /\ 1 < i + 1
      /\ \A i \in DOMAIN rbepIn : i \in Nat
  BY EntryTaken DEF AfkTypes
<1>2. \A T : Left(rbepIn', T) => Left(rbepIn, T)
  BY <1>1 DEF Left
<1>3. QED
  BY <1>1, <1>2

LEMMA AskedStays ==
  ASSUME AfkTypes, rbepIn # <<>>, rbepIn' = Tail(rbepIn), UNCHANGED <<rbepOut, afkFw>>
  PROVE  (NoRings => NoRings') /\ (Asked \/ Answered => (Asked \/ Answered)') /\ (AskedOrAnswered => AskedOrAnswered')
<1>1. NoRings => NoRings'
  BY MessageRead DEF NoRings, RingsLeft
<1>2. Asked' = Asked /\ Answered' = Answered
  BY DEF Asked, Answered, LastIsInit
<1>3. ASSUME OneRequest
      PROVE  OneRequest'
  <2>1. Asked => ~Left(rbepIn', {"GETBUF"})
    BY <1>3, MessageRead DEF OneRequest
  <2>2. ASSUME Answered, NEW i \in DOMAIN rbepIn', rbepIn'[i].type = "GETBUF"
        PROVE  i = Len(rbepIn')
    <3>1. i + 1 = Len(rbepIn) /\ i \in Nat
      BY <1>3, <2>2, MessageRead DEF OneRequest
    <3>2. QED
      BY <3>1, MessageRead
  <2>3. QED
    BY <2>1, <2>2, <1>2, <1>3 DEF OneRequest
<1>4. QED
  BY <1>1, <1>2, <1>3 DEF AskedOrAnswered

LEMMA NewEndpointOK ==
  ASSUME AfkAssumption, AfkInv, NewEndpoint
  PROVE  AfkInv'
<1>1. PICK a : a = [at |-> "init", n |-> afk.n + 1, shared |-> NoShared, rings |-> [r \in RingNames |-> NoRing],
                    done |-> {}, started |-> FALSE, mixed |-> RequestLeft /\ RingsLeft]
  OBVIOUS
<1>2. afk' = a /\ UNCHANGED <<afkPages, rbepIn, rbepOut, afkFw>> /\ afk.at = "none"
  BY <1>1 DEF NewEndpoint, rbepVars
<1>3. a.at = "init" /\ a.shared = NoShared /\ a.done = {} /\ ~a.started /\ (\A r \in RingNames : ~a.rings[r].ready)
      /\ (a.mixed <=> RequestLeft /\ RingsLeft)
  BY <1>1 DEF NoRing
<1>4. a \in EndpointStates
  <2>1. (RequestLeft /\ RingsLeft) \in BOOLEAN
    BY DEF RequestLeft, RingsLeft, Left
  <2>2. afk.n \in Nat
    BY DEF AfkInv, AfkTypes, EndpointStates
  <2>3. QED
    BY <1>1, <2>1, <2>2 DEF EndpointStates, Points
<1>5. AfkTypes'
  BY <1>2, <1>4 DEF AfkInv, AfkTypes
<1>6. PagesOK' /\ ReadyOK' /\ StartedOK'
  BY <1>2, <1>3 DEF AfkInv, PagesOK, ReadyOK, StartedOK, Mapped
<1>7. ~afk'.mixed => PhaseOK'
  BY <1>2, <1>3 DEF PhaseOK, InitOK, AskOK, MapOK, RingsOK, UseOK, RequestLeft, RingsLeft
<1>8. QED
  BY <1>5, <1>6, <1>7 DEF AfkInv

(* Every error of the handshake. *)
LEMMA FailStartOK ==
  ASSUME AfkInv, FailStart(afk), UNCHANGED <<afkPages, afkFw, rbepOut>>, rbepIn' \in Seq(MessagesIn),
         afk.at \in {"init", "INIT_ACK", "GETBUF", "answer", "rings", "start", "START_ACK"}
  PROVE  AfkInv'
<1>1. PICK a : a = [afk EXCEPT !.at = "failed"]
  OBVIOUS
<1>2. afk' = a
  BY <1>1 DEF FailStart
<1>3. /\ a \in EndpointStates /\ a.at = "failed" /\ a.n = afk.n /\ a.shared = afk.shared /\ a.rings = afk.rings
      /\ a.started = afk.started /\ a.done = afk.done /\ a.mixed = afk.mixed
  BY <1>1 DEF AfkInv, AfkTypes, EndpointStates, Points
<1>4. AfkTypes'
  BY <1>2, <1>3 DEF AfkInv, AfkTypes
<1>5. PagesOK'
  BY <1>2, <1>3 DEF AfkInv, PagesOK, Mapped
<1>6. ReadyOK' /\ StartedOK'
  BY <1>2, <1>3 DEF AfkInv, ReadyOK, StartedOK, Mapped
<1>7. PhaseOK'
  BY <1>2, <1>3 DEF PhaseOK, InitOK, AskOK, MapOK, RingsOK, UseOK
<1>8. QED
  BY <1>4, <1>5, <1>6, <1>7 DEF AfkInv

(* A step of the endpoint that leaves its buffer and rings alone. *)
SameBut(a, p) == /\ a \in EndpointStates /\ a.at = p /\ a.n = afk.n /\ a.shared = afk.shared /\ a.rings = afk.rings
                 /\ a.done = afk.done /\ a.mixed = afk.mixed
LEMMA Moved ==
  ASSUME AfkTypes, NEW p \in Points
  PROVE  /\ SameBut([afk EXCEPT !.at = p], p) /\ [afk EXCEPT !.at = p].started = afk.started
         /\ \A b \in BOOLEAN : /\ SameBut([afk EXCEPT !.at = p, !.started = b], p)
                               /\ [afk EXCEPT !.at = p, !.started = b].started = b
<1>1. PICK a : a = [afk EXCEPT !.at = p]
  OBVIOUS
<1>2. SameBut(a, p) /\ a.started = afk.started
  BY <1>1 DEF AfkTypes, EndpointStates, SameBut
<1>3. ASSUME NEW b \in BOOLEAN
      PROVE  /\ SameBut([afk EXCEPT !.at = p, !.started = b], p)
             /\ [afk EXCEPT !.at = p, !.started = b].started = b
  <2>1. PICK c : c = [afk EXCEPT !.at = p, !.started = b]
    OBVIOUS
  <2>2. SameBut(c, p) /\ c.started = b
    BY <2>1 DEF AfkTypes, EndpointStates, SameBut
  <2>3. QED
    BY <2>1, <2>2
<1>4. QED
  BY <1>1, <1>2, <1>3

LEMMA MovedRecord ==
  ASSUME AfkTypes, NEW p \in Points, NEW a, a = [afk EXCEPT !.at = p]
  PROVE  SameBut(a, p) /\ a.started = afk.started
BY DEF AfkTypes, EndpointStates, SameBut

LEMMA MovedTo ==
  ASSUME AfkTypes, NEW p \in Points, afk' = [afk EXCEPT !.at = p]
  PROVE  SameBut(afk', p) /\ afk'.started = afk.started
BY MovedRecord


LEMMA MovesTo ==
  ASSUME AfkInv, NEW p \in Points \ {"none", "map", "dropping"}, SameBut(afk', p), UNCHANGED afkPages,
         afk.at \in {"init", "INIT_ACK"} => p \in {"INIT_ACK", "GETBUF"},
         afk.at \in {"answer", "start"} => p \in {"rings", "start", "START_ACK"},
         afk.at \in {"START_ACK", "up", "SHUTDOWN_ACK"} => p \in {"START_ACK", "up", "SHUTDOWN_ACK", "down"},
         afk.at \in {"init", "INIT_ACK", "answer", "start", "START_ACK", "up", "SHUTDOWN_ACK"},
         afk'.started => p \in {"up", "SHUTDOWN_ACK"}
  PROVE  PagesOK' /\ ReadyOK' /\ StartedOK'
<1>1. PagesOK'
  BY DEF AfkInv, PagesOK, Mapped, SameBut
<1>2. ReadyOK'
  BY DEF AfkInv, ReadyOK, Mapped, SameBut
<1>3. StartedOK'
  BY DEF AfkInv, StartedOK, SameBut
<1>4. QED
  BY <1>1, <1>2, <1>3

------------------------------------------------------------------------------
(* The endpoint. *)
LEMMA SendMessageOK ==
  ASSUME AfkAssumption, AfkInv, SendMessage
  PROVE  AfkInv'
<1>1. CASE FailStart(afk) /\ UNCHANGED rbepOut
  <2>1. afk.at \in {"init", "start"} /\ UNCHANGED <<afkPages, afkFw, rbepIn>>
    BY DEF SendMessage, Sends
  <2>2. rbepIn' \in Seq(MessagesIn)
    BY <2>1 DEF AfkInv, AfkTypes
  <2>3. QED
    BY <1>1, <2>1, <2>2, FailStartOK
<1>2. CASE rbepOut' = Append(rbepOut, [type |-> Sends[afk.at]]) /\ afk' = [afk EXCEPT !.at = WaitsFor[afk.at]]
  <2>1. UNCHANGED <<afkPages, afkFw, rbepIn>> /\ afk.at \in {"init", "start"} /\ afk.started = FALSE
    BY DEF SendMessage, Sends, AfkInv, AfkTypes, StartedOK, EndpointStates
  <2>2. CASE afk.at = "init"
    <3> DEFINE m == [type |-> "INIT"]
    <3>1. rbepOut' = Append(rbepOut, m) /\ afk' = [afk EXCEPT !.at = "INIT_ACK"]
      BY <1>2, <2>2 DEF Sends, WaitsFor
    <3>2. SameBut(afk', "INIT_ACK") /\ ~afk'.started
      <4>1. AfkTypes /\ "INIT_ACK" \in Points
        BY DEF AfkInv, Points
      <4>2. SameBut(afk', "INIT_ACK") /\ afk'.started = afk.started
        BY ONLY <3>1, <4>1, MovedTo
      <4>3. QED
        BY ONLY <2>1, <4>2
    <3>3. m \in MessagesOut /\ m.type = "INIT"
      BY DEF MessagesOut
    <3> HIDE DEF m
    <3>4. /\ rbepOut' \in Seq(MessagesOut) /\ Len(rbepOut') = Len(rbepOut) + 1 /\ Len(rbepOut) \in Nat
          /\ rbepOut'[Len(rbepOut) + 1] = m
          /\ \A i \in DOMAIN rbepOut' : i \in Nat /\ (i = Len(rbepOut) + 1 \/ (i \in DOMAIN rbepOut /\ rbepOut'[i] = rbepOut[i]))
      <4>1. rbepOut \in Seq(MessagesOut)
        BY DEF AfkInv, AfkTypes
      <4>2. QED
        BY ONLY <3>1, <3>3, <4>1, EntryAppended
    <3>5. AfkTypes'
      BY <2>1, <3>2, <3>4 DEF AfkInv, AfkTypes, SameBut
    <3>6. PagesOK' /\ ReadyOK' /\ StartedOK'
      BY <2>1, <2>2, <3>2, MovesTo DEF Points
    <3>7. ASSUME ~afk.mixed
          PROVE  PhaseOK'
      <4>1. Asked' /\ ~Answered'
        BY <3>3, <3>4 DEF Asked, LastIsInit, Answered
      <4>2. ~RequestLeft \/ ~RingsLeft
        BY <2>2, <3>7 DEF AfkInv, PhaseOK, InitOK
      <4>3. CASE ~RingsLeft
        <5>1. NoRings'
          BY <4>3, <2>1, <3>3, <3>4 DEF NoRings, RingsLeft, Left
        <5>2. QED
          BY <4>1, <5>1, <3>2 DEF PhaseOK, InitOK, AskOK, MapOK, RingsOK, UseOK, AskedOrAnswered, SameBut
      <4>4. CASE ~RequestLeft
        <5>1. OneRequest'
          BY <4>1, <4>4, <2>1, <3>3, <3>4 DEF OneRequest, RequestLeft, Left
        <5>2. QED
          BY <4>1, <5>1, <3>2 DEF PhaseOK, InitOK, AskOK, MapOK, RingsOK, UseOK, AskedOrAnswered, SameBut
      <4>5. QED
        BY <4>2, <4>3, <4>4
    <3>8. QED
      BY <3>2, <3>5, <3>6, <3>7 DEF AfkInv, SameBut
  <2>3. CASE afk.at = "start"
    <3> DEFINE m == [type |-> "START"]
    <3>1. rbepOut' = Append(rbepOut, m) /\ afk' = [afk EXCEPT !.at = "START_ACK"]
      BY <1>2, <2>3 DEF Sends, WaitsFor
    <3>2. SameBut(afk', "START_ACK") /\ ~afk'.started
      <4>1. AfkTypes /\ "START_ACK" \in Points
        BY DEF AfkInv, Points
      <4>2. SameBut(afk', "START_ACK") /\ afk'.started = afk.started
        BY ONLY <3>1, <4>1, MovedTo
      <4>3. QED
        BY ONLY <2>1, <4>2
    <3>3. m \in MessagesOut /\ m = AtStart
      BY DEF MessagesOut, AtStart
    <3> HIDE DEF m
    <3>4. rbepOut' \in Seq(MessagesOut) /\ (rbepOut = <<>> => rbepOut' = <<AtStart>>)
      <4>1. rbepOut' \in Seq(MessagesOut)
        BY <3>1, <3>3, EntryAppended DEF AfkInv, AfkTypes
      <4>2. Append(<<>>, m) = <<m>>
        OBVIOUS
      <4>3. QED
        BY <4>1, <4>2, <3>1, <3>3
    <3>5. AfkTypes'
      BY <2>1, <3>2, <3>4 DEF AfkInv, AfkTypes, SameBut
    <3>6. PagesOK' /\ ReadyOK' /\ StartedOK'
      BY <2>1, <2>3, <3>2, MovesTo DEF Points
    <3>7. ASSUME ~afk.mixed
          PROVE  PhaseOK'
      <4>1. Agreed /\ afkFw.phase = "told" /\ rbepIn = <<>> /\ rbepOut = <<>>
        BY <2>3, <3>7 DEF AfkInv, PhaseOK, UseOK
      <4>2. Agreed'
        BY <4>1, <2>1, <3>2 DEF Agreed, Agrees, SameBut
      <4>3. QED
        BY <4>1, <4>2, <2>1, <3>2, <3>4 DEF PhaseOK, InitOK, AskOK, MapOK, RingsOK, UseOK, SameBut
    <3>8. QED
      BY <3>2, <3>5, <3>6, <3>7 DEF AfkInv, SameBut
  <2>4. QED
    BY <2>1, <2>2, <2>3
<1>3. QED
  BY <1>1, <1>2 DEF SendMessage

LEMMA WaitStepOK ==
  ASSUME AfkAssumption, AfkInv, WaitStep
  PROVE  AfkInv'
<1>1. /\ UNCHANGED <<afkPages, rbepOut, afkFw>> /\ rbepIn # <<>> /\ rbepIn' = Tail(rbepIn)
      /\ afk.at \in {"INIT_ACK", "START_ACK"} /\ afk.started = FALSE
  BY DEF WaitStep, After, AfkInv, AfkTypes, EndpointStates, StartedOK
<1>2. rbepIn' \in Seq(MessagesIn)
  BY <1>1, MessageRead DEF AfkInv
<1>3. PICK p \in {"INIT_ACK", "GETBUF", "START_ACK", "up"} :
        /\ SameBut(afk', p)
        /\ afk.at = "INIT_ACK" => p \in {"INIT_ACK", "GETBUF"}
        /\ afk.at = "START_ACK" => p \in {"START_ACK", "up"}
        /\ afk'.started => p = "up"
  <2>1. CASE Expected(Head(rbepIn)) /\ afk.at = "INIT_ACK"
    <3>1. afk' = [afk EXCEPT !.at = "GETBUF", !.started = FALSE]
      <4>1. afk' = [afk EXCEPT !.at = After[afk.at], !.started = (afk.at = "START_ACK")]
        BY <2>1 DEF WaitStep
      <4>2. After[afk.at] = "GETBUF"
        BY <2>1 DEF After
      <4>3. (afk.at = "START_ACK") = FALSE
        BY <2>1
      <4>4. QED
        BY <4>1, <4>2, <4>3
    <3>2. QED
      BY <3>1, <2>1, Moved DEF AfkInv, Points
  <2>2. CASE Expected(Head(rbepIn)) /\ afk.at = "START_ACK"
    <3>1. afk' = [afk EXCEPT !.at = "up", !.started = TRUE]
      <4>1. afk' = [afk EXCEPT !.at = After[afk.at], !.started = (afk.at = "START_ACK")]
        BY <2>2 DEF WaitStep
      <4>2. After[afk.at] = "up"
        BY <2>2 DEF After
      <4>3. (afk.at = "START_ACK") = TRUE
        BY <2>2
      <4>4. QED
        BY <4>1, <4>2, <4>3
    <3>2. QED
      BY <3>1, <2>2, Moved DEF AfkInv, Points
  <2>3. CASE ~Expected(Head(rbepIn))
    <3>1. afk' = afk
      BY <2>3 DEF WaitStep
    <3>2. SameBut(afk', afk.at)
      BY <3>1 DEF SameBut, AfkInv, AfkTypes
    <3>3. QED
      BY <3>1, <3>2, <1>1
  <2>4. QED
    BY <2>1, <2>2, <2>3, <1>1
<1>4. AfkTypes'
  BY <1>1, <1>2, <1>3 DEF AfkInv, AfkTypes, SameBut
<1>5. PagesOK' /\ ReadyOK' /\ StartedOK'
  BY <1>1, <1>3, MovesTo DEF Points
<1>6. ASSUME ~afk.mixed
      PROVE  PhaseOK'
  <2>1. CASE afk.at = "INIT_ACK"
    <3>1. AskedOrAnswered'
      BY <2>1, <1>1, <1>6, AskedStays DEF AfkInv, PhaseOK, AskOK
    <3>2. QED
      BY <2>1, <3>1, <1>3 DEF PhaseOK, InitOK, AskOK, MapOK, RingsOK, UseOK, SameBut
  <2>2. CASE afk.at = "START_ACK"
    <3>1. Agreed /\ rbepOut = <<>> /\ afkFw.phase = "running"
      BY <2>2, <1>1, <1>6 DEF AfkInv, PhaseOK, UseOK
    <3>2. Agreed'
      BY <3>1, <1>1, <1>3 DEF Agreed, Agrees, SameBut
    <3>3. QED
      BY <2>2, <3>1, <3>2, <1>1, <1>3 DEF PhaseOK, InitOK, AskOK, MapOK, RingsOK, UseOK, SameBut
  <2>3. QED
    BY <1>1, <2>1, <2>2
<1>7. QED
  BY <1>3, <1>4, <1>5, <1>6 DEF AfkInv, SameBut

LEMMA WaitTimesOutOK ==
  ASSUME AfkInv, WaitTimesOut
  PROVE  AfkInv'
<1>1. /\ FailStart(afk) /\ UNCHANGED <<afkPages, afkFw, rbepOut, rbepIn>>
      /\ afk.at \in {"INIT_ACK", "START_ACK", "GETBUF", "rings"}
  BY DEF WaitTimesOut, After, rbepVars
<1>2. rbepIn' \in Seq(MessagesIn)
  BY <1>1 DEF AfkInv, AfkTypes
<1>3. QED
  BY <1>1, <1>2, FailStartOK

LEMMA ReceiveGetbufOK ==
  ASSUME AfkAssumption, AfkInv, ReceiveGetbuf
  PROVE  AfkInv'
<1> DEFINE m == Head(rbepIn)
<1>1. UNCHANGED <<afkHeaders, rbepOut, afkFw>> /\ afk.at = "GETBUF" /\ rbepIn # <<>> /\ rbepIn' = Tail(rbepIn)
  BY DEF ReceiveGetbuf
<1>2. rbepIn' \in Seq(MessagesIn) /\ m = rbepIn[1] /\ m \in MessagesIn /\ 1 \in DOMAIN rbepIn
  BY <1>1, MessageRead DEF AfkInv
<1>3. /\ afk.shared = NoShared /\ afkPages = [owned |-> {}, mapped |-> {}]
      /\ \A r \in RingNames : ~afk.rings[r].ready
      /\ ~afk.started /\ afk.done = {} /\ afk.n \in Nat
  BY <1>1 DEF AfkInv, PagesOK, ReadyOK, StartedOK, AfkTypes, EndpointStates, Mapped, Rings
<1>4. CASE m.type # "GETBUF"
  <2>1. afk' = afk /\ afkPages' = afkPages
    BY <1>4 DEF ReceiveGetbuf
  <2>2. AfkTypes' /\ PagesOK' /\ ReadyOK' /\ StartedOK'
    BY <1>1, <1>2, <2>1 DEF AfkInv, AfkTypes, PagesOK, ReadyOK, StartedOK
  <2>3. ASSUME ~afk.mixed
        PROVE  PhaseOK'
    <3>1. AskedOrAnswered'
      BY <1>1, <2>3, AskedStays DEF AfkInv, PhaseOK, AskOK
    <3>2. QED
      BY <1>1, <2>1, <3>1 DEF PhaseOK, InitOK, AskOK, MapOK, RingsOK, UseOK
  <2>4. QED
    BY <2>1, <2>2, <2>3 DEF AfkInv
<1>5. CASE m.type = "GETBUF" /\ FailStart(afk) /\ UNCHANGED afkPages
  BY <1>1, <1>2, <1>5, FailStartOK
<1>6. CASE /\ m.type = "GETBUF"
           /\ afk' = [afk EXCEPT !.at = "map", !.shared = [blocks |-> m.blocks, tag |-> m.tag]]
           /\ afkPages' = [afkPages EXCEPT !.owned = @ \cup {afk.n}]
  <2>1. [blocks |-> m.blocks, tag |-> m.tag] \in AfkBuffers
    BY <1>2, <1>6, AfkFacts DEF AfkInv, AfkBuffers
  <2>2. PICK b \in AfkBuffers : b = [blocks |-> m.blocks, tag |-> m.tag]
    BY <2>1
  <2>3. PICK a : a = [afk EXCEPT !.at = "map", !.shared = b]
    OBVIOUS
  <2>4. afk' = a
    BY <1>6, <2>2, <2>3
  <2>5. /\ a \in EndpointStates /\ a.at = "map" /\ a.n = afk.n /\ a.shared = b /\ a.rings = afk.rings
        /\ a.started = afk.started /\ a.done = afk.done /\ a.mixed = afk.mixed
    BY <2>3 DEF AfkInv, AfkTypes, EndpointStates, Points
  <2>6. afkPages' = [owned |-> {afk.n}, mapped |-> {}]
    BY <1>3, <1>6
  <2>7. AfkTypes'
    BY <1>1, <1>2, <2>4, <2>5 DEF AfkInv, AfkTypes
  <2>8. PagesOK'
    BY <2>4, <2>5, <2>6, SharedIsBuffer DEF PagesOK
  <2>9. ReadyOK' /\ StartedOK'
    BY <1>3, <2>4, <2>5 DEF ReadyOK, StartedOK
  <2>10. ASSUME ~afk.mixed
         PROVE  PhaseOK'
    <3>1. AskedOrAnswered
      BY <1>1, <2>10 DEF AfkInv, PhaseOK, AskOK
    <3>2. (Asked \/ Answered)'
      BY <1>1, <3>1, AskedStays DEF AfkInv, AskedOrAnswered
    <3>3. NoRings'
      <4>1. CASE NoRings
        BY <1>1, <4>1, AskedStays DEF AfkInv
      <4>2. CASE OneRequest
        <5>1. Left(rbepIn, {"GETBUF"})
          BY <1>2, <1>6 DEF Left
        <5>2. Answered /\ Len(rbepIn) = 1
          BY <1>2, <1>6, <3>1, <4>2, <5>1 DEF OneRequest, AskedOrAnswered
        <5>3. rbepIn' = <<>>
          BY <1>1, <5>2, MessageRead DEF AfkInv
        <5>4. QED
          BY <1>1, <5>2, <5>3 DEF NoRings, RingsLeft, Left, Answered
      <4>3. QED
        BY <3>1, <4>1, <4>2 DEF AskedOrAnswered
    <3>4. QED
      BY <2>4, <2>5, <3>2, <3>3 DEF PhaseOK, InitOK, AskOK, MapOK, RingsOK, UseOK
  <2>11. QED
    BY <2>4, <2>5, <2>7, <2>8, <2>9, <2>10 DEF AfkInv
<1>7. QED
  BY <1>4, <1>5, <1>6 DEF ReceiveGetbuf

LEMMA MapSharedOK ==
  ASSUME AfkAssumption, AfkInv, MapShared
  PROVE  AfkInv'
<1>1. UNCHANGED <<rbepOut, rbepIn, afkFw>> /\ afk.at = "map"
  BY DEF MapShared, rbepVars
<1>2. /\ afk.shared \in AfkBuffers /\ afk.shared # NoShared /\ afkPages = [owned |-> {afk.n}, mapped |-> {}]
      /\ \A r \in RingNames : ~afk.rings[r].ready
      /\ ~afk.started /\ afk.done = {}
  BY SMTT(20), <1>1, SharedIsBuffer DEF AfkInv, PagesOK, ReadyOK, StartedOK, AfkTypes, EndpointStates, Mapped
<1>3. CASE afkPages' = [afkPages EXCEPT !.mapped = @ \cup {afk.n}] /\ afk' = [afk EXCEPT !.at = "answer"]
  <2>1. SameBut(afk', "answer") /\ afk'.started = afk.started
    BY <1>3, Moved DEF AfkInv, Points
  <2>2. afkPages' = [owned |-> {afk.n}, mapped |-> {afk.n}]
    BY <1>2, <1>3
  <2>3. AfkTypes'
    BY <1>1, <2>1 DEF AfkInv, AfkTypes, SameBut
  <2>4. PagesOK' /\ ReadyOK' /\ StartedOK'
    BY <1>2, <2>1, <2>2 DEF PagesOK, ReadyOK, StartedOK, Mapped, SameBut
  <2>5. ASSUME ~afk.mixed
        PROVE  PhaseOK'
    <3>1. (Asked \/ Answered) /\ NoRings
      BY <1>1, <2>5 DEF AfkInv, PhaseOK, MapOK
    <3>2. (Asked \/ Answered)' /\ NoRings'
      BY <1>1, <3>1 DEF Asked, Answered, LastIsInit, NoRings, RingsLeft
    <3>3. QED
      BY <2>1, <3>2 DEF PhaseOK, InitOK, AskOK, MapOK, RingsOK, UseOK, SameBut
  <2>6. QED
    BY <2>1, <2>3, <2>4, <2>5 DEF AfkInv, SameBut
<1>4. CASE FailStart([afk EXCEPT !.shared = NoShared]) /\ afkPages' = [afkPages EXCEPT !.owned = @ \ {afk.n}]
  <2>1. PICK a : a = [afk EXCEPT !.at = "failed", !.shared = NoShared]
    OBVIOUS
  <2>2. afk' = a
    BY <1>4, <2>1 DEF FailStart, AfkInv, AfkTypes, EndpointStates
  <2>3. /\ a \in EndpointStates /\ a.at = "failed" /\ a.n = afk.n /\ a.shared = NoShared /\ a.rings = afk.rings
        /\ a.started = afk.started /\ a.done = afk.done /\ a.mixed = afk.mixed
    BY <2>1 DEF AfkInv, AfkTypes, EndpointStates, Points
  <2>4. afkPages' = [owned |-> {}, mapped |-> {}]
    BY <1>2, <1>4
  <2>5. AfkTypes'
    BY <1>1, <2>2, <2>3 DEF AfkInv, AfkTypes
  <2>6. PagesOK' /\ ReadyOK' /\ StartedOK'
    BY <1>2, <2>2, <2>3, <2>4 DEF PagesOK, ReadyOK, StartedOK, Mapped
  <2>7. PhaseOK'
    BY <2>2, <2>3 DEF PhaseOK, InitOK, AskOK, MapOK, RingsOK, UseOK
  <2>8. QED
    BY <2>5, <2>6, <2>7 DEF AfkInv
<1>5. QED
  BY <1>3, <1>4 DEF MapShared

LEMMA AnswerGetbufOK ==
  ASSUME AfkAssumption, AfkInv, AnswerGetbuf
  PROVE  AfkInv'
<1>1. UNCHANGED <<afkPages, rbepIn, afkFw>> /\ afk.at = "answer" /\ afk.started = FALSE /\ afk.done = {}
  BY DEF AnswerGetbuf, AfkInv, AfkTypes, EndpointStates, StartedOK
<1>2. CASE FailStart(afk) /\ UNCHANGED rbepOut
  BY <1>1, <1>2, FailStartOK DEF AfkInv, AfkTypes
<1>3. CASE rbepOut' = Append(rbepOut, Ack) /\ afk' = [afk EXCEPT !.at = "rings"]
  <2>1. SameBut(afk', "rings") /\ ~afk'.started
    BY <1>1, <1>3, Moved DEF AfkInv, Points
  <2>2. Ack \in MessagesOut /\ Ack' = Ack /\ Ack.type = "GETBUF_ACK"
    BY <2>1 DEF Ack, MessagesOut, SameBut, AfkInv, AfkTypes, EndpointStates
  <2>3. /\ rbepOut' \in Seq(MessagesOut) /\ Len(rbepOut') = Len(rbepOut) + 1 /\ Len(rbepOut) \in Nat
        /\ rbepOut'[Len(rbepOut) + 1] = Ack /\ (\A i \in DOMAIN rbepOut : rbepOut'[i] = rbepOut[i])
        /\ \A i \in DOMAIN rbepOut' : i \in Nat /\ (i = Len(rbepOut) + 1 \/ i \in DOMAIN rbepOut)
    <3>1. PICK x \in MessagesOut : x = Ack
      BY <2>2
    <3>2. rbepOut \in Seq(MessagesOut) /\ rbepOut' = Append(rbepOut, x)
      BY <1>3, <3>1 DEF AfkInv, AfkTypes
    <3>3. QED
      BY <3>1, <3>2, EntryAppended
  <2>4. AfkTypes'
    BY <1>1, <2>1, <2>3 DEF AfkInv, AfkTypes, SameBut
  <2>5. PagesOK' /\ ReadyOK' /\ StartedOK'
    BY <1>1, <2>1, MovesTo DEF Points
  <2>6. ASSUME ~afk.mixed
        PROVE  PhaseOK'
    <3>1. (Asked \/ Answered) /\ NoRings
      BY <1>1, <2>6 DEF AfkInv, PhaseOK, MapOK
    <3>2. NoRingsIn' /\ afkFw'.phase # "rings" /\ afk'.done = {} /\ ~Left(rbepOut, {"GETBUF_ACK"})
      BY <1>1, <2>1, <3>1 DEF NoRings, NoRingsIn, RingsLeft, RingTypes, Left, SameBut
    <3>3. CASE Asked
      <4>1. Len(rbepOut) >= 1 /\ rbepOut[Len(rbepOut)].type = "INIT" /\ Len(rbepOut) \in DOMAIN rbepOut
        BY <3>3 DEF Asked, LastIsInit, AfkInv, AfkTypes
      <4>2. Len(rbepOut') - 1 = Len(rbepOut)
        BY <2>3
      <4>3. rbepOut'[Len(rbepOut') - 1].type = "INIT" /\ rbepOut'[Len(rbepOut')] = Ack' /\ Len(rbepOut') >= 2
        BY <4>1, <4>2, <2>2, <2>3
      <4>4. \A i \in DOMAIN rbepOut' : rbepOut'[i].type = "GETBUF_ACK" => i = Len(rbepOut')
        BY <2>3, <3>2 DEF Left
      <4>5. BufferSent'
        BY <3>2, <4>3, <4>4 DEF BufferSent
      <4>6. QED
        BY <2>1, <4>5 DEF PhaseOK, InitOK, AskOK, MapOK, RingsOK, UseOK, SameBut
    <3>4. CASE Answered
      <4>1. Append(<<>>, Ack) = <<Ack>>
        OBVIOUS
      <4>2. BufferNext'
        BY <1>1, <1>3, <2>2, <3>2, <3>4, <4>1 DEF BufferNext, Answered
      <4>3. QED
        BY <2>1, <4>2 DEF PhaseOK, InitOK, AskOK, MapOK, RingsOK, UseOK, SameBut
    <3>5. QED
      BY <3>1, <3>3, <3>4
  <2>7. QED
    BY SMTT(20), <2>1, <2>4, <2>5, <2>6 DEF AfkInv, SameBut
<1>4. QED
  BY <1>2, <1>3 DEF AnswerGetbuf, Ack

(* A command taken by the firmware leaves the later ones in their order. *)
LEMMA CommandTaken ==
  ASSUME AfkTypes, rbepOut # <<>>, rbepOut' = Tail(rbepOut)
  PROVE  /\ rbepOut' \in Seq(MessagesOut) /\ Len(rbepOut') = Len(rbepOut) - 1 /\ Len(rbepOut) \in Nat \ {0}
         /\ 1 \in DOMAIN rbepOut /\ Head(rbepOut) = rbepOut[1] /\ rbepOut[1] \in MessagesOut
         /\ \A i \in DOMAIN rbepOut' : i \in Nat /\ i + 1 \in DOMAIN rbepOut /\ rbepOut'[i] = rbepOut[i + 1] /\ 1 < i + 1
         /\ \A T : Left(rbepOut', T) => Left(rbepOut, T)
         /\ \A i \in 1 .. Len(rbepOut) - 1 : i \in DOMAIN rbepOut' /\ rbepOut'[i] = rbepOut[i + 1]
<1>1. /\ rbepOut' \in Seq(MessagesOut) /\ Len(rbepOut') = Len(rbepOut) - 1 /\ Len(rbepOut) \in Nat \ {0}
      /\ 1 \in DOMAIN rbepOut /\ Head(rbepOut) = rbepOut[1] /\ rbepOut[1] \in MessagesOut
      /\ \A i \in DOMAIN rbepOut' : i \in Nat /\ i + 1 \in DOMAIN rbepOut /\ rbepOut'[i] = rbepOut[i + 1] /\ 1 < i + 1
  BY EntryTaken DEF AfkTypes
<1>2. \A T : Left(rbepOut', T) => Left(rbepOut, T)
  BY <1>1 DEF Left
<1>3. DOMAIN rbepOut' = 1 .. Len(rbepOut')
  BY <1>1
<1>4. QED
  BY <1>1, <1>2, <1>3

LEMMA ReceiveRingOK ==
  ASSUME AfkAssumption, AfkInv, ReceiveRing
  PROVE  AfkInv'
<1> DEFINE m == Head(rbepIn)
<1>1. UNCHANGED <<afkPages, rbepOut, afkFw>> /\ afk.at = "rings" /\ rbepIn # <<>> /\ rbepIn' = Tail(rbepIn)
  BY DEF ReceiveRing
<1>2. rbepIn' \in Seq(MessagesIn) /\ m = rbepIn[1] /\ m \in MessagesIn /\ 1 \in DOMAIN rbepIn
  BY <1>1, MessageRead DEF AfkInv
<1>3. DOMAIN RingOf = RingTypes /\ RingOf["INIT_TX"] = "tx" /\ RingOf["INIT_RX"] = "rx"
  BY DEF RingOf, RingTypes
<1>4. \A i \in 1 .. Len(rbepIn) - 1 : i \in DOMAIN rbepIn' /\ rbepIn'[i] = rbepIn[i + 1]
  <2>1. DOMAIN rbepIn' = 1 .. Len(rbepIn')
    BY <1>2
  <2>2. QED
    BY <1>1, <2>1, MessageRead DEF AfkInv
<1>5. CASE m.type \notin RingTypes
  <2>1. afk' = afk
    BY <1>3, <1>5 DEF ReceiveRing
  <2>2. AfkTypes' /\ PagesOK' /\ ReadyOK' /\ StartedOK'
    BY <1>1, <1>2, <2>1 DEF AfkInv, AfkTypes, PagesOK, ReadyOK, StartedOK
  <2>3. ASSUME ~afk.mixed
        PROVE  PhaseOK'
    <3>1. BufferSent \/ BufferNext \/ BufferTaken \/ RingsTold
      BY <1>1, <2>3 DEF AfkInv, PhaseOK, RingsOK
    <3>2. NoRingsIn => NoRingsIn'
      BY <1>1, MessageRead DEF NoRingsIn, AfkInv
    <3>3. Ack' = Ack
      BY <2>1 DEF Ack
    <3>4. BufferSent => BufferSent'
      BY <1>1, <2>1, <3>2, <3>3 DEF BufferSent
    <3>5. (BufferNext => BufferNext') /\ (BufferTaken => BufferTaken')
      BY <1>1, <2>1, <3>2, <3>3 DEF BufferNext, BufferTaken
    <3>6. Len(rbepIn') = Len(rbepIn) - 1 /\ Len(rbepIn) \in Nat
      BY <1>1, MessageRead DEF AfkInv
    <3>7. \A x, r : IsRing(x, r)' = IsRing(x, r)
      BY <1>1 DEF IsRing
    <3>8. ASSUME BothTold
          PROVE  BothTold'
      <4>1. PICK r \in RingNames, s \in RingNames :
              r # s /\ IsRing(rbepIn[Len(rbepIn) - 1], r) /\ IsRing(rbepIn[Len(rbepIn)], s)
        BY <3>8 DEF BothTold
      <4>2. Len(rbepIn) > 2
        BY <1>2, <1>5, <3>6, <3>8, <4>1 DEF BothTold, IsRing
      <4>3. rbepIn'[Len(rbepIn) - 2] = rbepIn[Len(rbepIn) - 1] /\ rbepIn'[Len(rbepIn) - 1] = rbepIn[Len(rbepIn)]
        <5>1. Len(rbepIn) - 2 \in 1 .. Len(rbepIn) - 1 /\ Len(rbepIn) - 1 \in 1 .. Len(rbepIn) - 1
              /\ (Len(rbepIn) - 2) + 1 = Len(rbepIn) - 1 /\ (Len(rbepIn) - 1) + 1 = Len(rbepIn)
          BY <3>6, <4>2
        <5>2. QED
          BY <1>4, <5>1
      <4>4. Len(rbepIn') - 1 = Len(rbepIn) - 2 /\ Len(rbepIn') >= 2
        BY <3>6, <4>2
      <4>5. IsRing(rbepIn[Len(rbepIn) - 1], r)' /\ IsRing(rbepIn[Len(rbepIn)], s)'
        BY <1>1, <3>6, <4>1, <4>3, <4>4 DEF IsRing
      <4>6. ASSUME NEW i \in DOMAIN rbepIn', rbepIn'[i].type \in RingTypes
            PROVE  i >= Len(rbepIn') - 1
        <5>1. i \in Nat /\ i + 1 \in DOMAIN rbepIn /\ rbepIn'[i] = rbepIn[i + 1]
          BY <1>1, MessageRead DEF AfkInv
        <5>2. i + 1 >= Len(rbepIn) - 1
          BY <3>8, <4>6, <5>1 DEF BothTold
        <5>3. QED
          BY <3>6, <5>1, <5>2
      <4>7. QED
        BY <2>1, <3>8, <4>1, <4>4, <4>5, <4>6 DEF BothTold
    <3>9. ASSUME OneTold
          PROVE  OneTold'
      <4>1. PICK r \in RingNames, s \in RingNames :
              r # s /\ afk.done = {r} /\ Agrees(r) /\ IsRing(rbepIn[Len(rbepIn)], s)
        BY <3>9 DEF OneTold
      <4>2. Len(rbepIn) > 1
        BY <1>2, <1>5, <3>6, <3>9, <4>1 DEF OneTold, IsRing
      <4>3. rbepIn'[Len(rbepIn) - 1] = rbepIn[Len(rbepIn)]
        <5>1. Len(rbepIn) - 1 \in 1 .. Len(rbepIn) - 1 /\ (Len(rbepIn) - 1) + 1 = Len(rbepIn)
          BY <3>6, <4>2
        <5>2. QED
          BY <1>4, <5>1
      <4>4. IsRing(rbepIn[Len(rbepIn)], s)' /\ Agrees(r)'
        BY <1>1, <2>1, <3>6, <4>1, <4>3 DEF IsRing, Agrees
      <4>5. ASSUME NEW i \in DOMAIN rbepIn', rbepIn'[i].type \in RingTypes
            PROVE  i = Len(rbepIn')
        <5>1. i \in Nat /\ i + 1 \in DOMAIN rbepIn /\ rbepIn'[i] = rbepIn[i + 1]
          BY <1>1, MessageRead DEF AfkInv
        <5>2. i + 1 = Len(rbepIn)
          BY <3>9, <4>5, <5>1 DEF OneTold
        <5>3. QED
          BY SMTT(20), <3>6, <5>1, <5>2
      <4>6. Len(rbepIn') >= 1
        BY <3>6, <4>2
      <4>7. QED
        BY <2>1, <4>1, <4>4, <4>5, <4>6 DEF OneTold
    <3>10. RingsTold => RingsTold'
      BY <1>1, <2>1, <3>8, <3>9 DEF RingsTold
    <3>11. RingsOK'
      BY <3>1, <3>4, <3>5, <3>10 DEF RingsOK
    <3>12. QED
      BY <1>1, <2>1, <3>11 DEF PhaseOK, InitOK, AskOK, MapOK, UseOK
  <2>4. QED
    BY <2>1, <2>2, <2>3 DEF AfkInv
<1>6. CASE m.type \in RingTypes /\ ~RingFits(m)
  <2>1. FailStart(afk)
    BY <1>3, <1>6 DEF ReceiveRing
  <2>2. QED
    BY <1>1, <1>2, <2>1, FailStartOK
<1>7. CASE m.type \in RingTypes /\ RingFits(m)
  <2> DEFINE k == RingOf[m.type]
             done == afk.done \cup {k}
  <2>1. k \in RingNames
    BY <1>3, <1>7 DEF RingTypes, RingNames
  <2>2. /\ m.off \in Nat /\ m.size \in Nat /\ m.off + m.size <= afk.shared.blocks
        /\ [ready |-> TRUE, off |-> m.off, size |-> m.size] \in Rings
    BY <1>2, <1>7, AfkFacts DEF RingFits, AfkInv, Rings
  <2>3. PICK v \in Rings : v = [ready |-> TRUE, off |-> m.off, size |-> m.size]
    BY <2>2
  <2>4. PICK p : p = IF done = RingNames THEN "start" ELSE afk.at
    OBVIOUS
  <2>5. afk' = [afk EXCEPT !.rings[k] = v, !.done = done, !.at = p]
    BY <1>3, <1>7, <2>3, <2>4 DEF ReceiveRing
  <2>6. p \in {"start", "rings"} /\ done \in SUBSET RingNames
    BY <1>1, <2>1, <2>4 DEF AfkInv, AfkTypes, EndpointStates
  <2> HIDE DEF k, done
  <2>7. PICK a : a = [afk EXCEPT !.rings[k] = v, !.done = done, !.at = p]
    OBVIOUS
  <2>8. /\ a \in EndpointStates /\ a.at = p /\ a.n = afk.n /\ a.shared = afk.shared /\ a.done = done
        /\ a.rings = [afk.rings EXCEPT ![k] = v] /\ a.started = afk.started /\ a.mixed = afk.mixed
    BY <2>1, <2>6, <2>7 DEF AfkInv, AfkTypes, EndpointStates, Points
  <2>9. /\ a.rings[k] = v /\ v.ready /\ v.off = m.off /\ v.size = m.size
        /\ \A r \in RingNames : r # k => a.rings[r] = afk.rings[r]
    <3>1. afk.rings \in [RingNames -> {NoRing} \cup Rings]
      BY DEF AfkInv, AfkTypes, EndpointStates
    <3>2. v.ready /\ v.off = m.off /\ v.size = m.size
      BY <2>3
    <3>3. a.rings = [afk.rings EXCEPT ![k] = v]
      BY ONLY <2>8
    <3>4. a.rings[k] = v
      BY ONLY <2>1, <3>1, <3>3
    <3>5. \A r \in RingNames : r # k => a.rings[r] = afk.rings[r]
      BY ONLY <3>1, <3>3
    <3>6. QED
      BY ONLY <3>2, <3>4, <3>5
  <2>10. AfkTypes' /\ afk' = a
    BY <1>1, <1>2, <2>5, <2>7, <2>8 DEF AfkInv, AfkTypes
  <2>11. PagesOK' /\ ~afk'.started
    BY <1>1, <2>6, <2>8, <2>10 DEF AfkInv, PagesOK, Mapped, StartedOK
  <2>12. ReadyOK'
    <3>1. afk.shared \in AfkBuffers
      BY <1>1 DEF AfkInv, PagesOK, Mapped
    <3>2. \A r \in RingNames \ {k} : afk.rings[r].ready => afk.rings[r].off + afk.rings[r].size <= afk.shared.blocks
      BY DEF AfkInv, ReadyOK
    <3>3. \A r \in RingNames : a.rings[r].ready => a.rings[r].off + a.rings[r].size <= afk.shared.blocks
      BY ONLY <2>2, <2>9, <3>2
    <3>4. afk'.at \in (Mapped \ {"answer"}) \cup {"failed", "dropping"}
      BY ONLY <2>6, <2>8, <2>10 DEF Mapped
    <3>5. afk' = a /\ a.shared = afk.shared
      BY ONLY <2>8, <2>10
    <3>6. QED
      BY ONLY <3>1, <3>3, <3>4, <3>5 DEF ReadyOK
  <2>13. StartedOK'
    BY <2>6, <2>8, <2>10, <2>11 DEF StartedOK
  <2>14. ASSUME ~afk.mixed
         PROVE  PhaseOK'
    <3>1. BufferSent \/ BufferNext \/ BufferTaken \/ RingsTold
      BY <1>1, <2>14 DEF AfkInv, PhaseOK, RingsOK
    <3>2. ~NoRingsIn
      BY <1>2, <1>7 DEF NoRingsIn, Left
    <3>3. RingsTold
      BY <3>1, <3>2 DEF BufferSent, BufferNext, BufferTaken
    <3>4. Len(rbepIn') = Len(rbepIn) - 1 /\ Len(rbepIn) \in Nat
      BY <1>1, MessageRead DEF AfkInv
    <3>5. afkFw.phase = "told" /\ rbepOut = <<>> /\ afkFw.buffer = a.n
      BY <3>3, <2>8 DEF RingsTold
    <3>6. CASE BothTold
      <4>1. Len(rbepIn) = 2
        <5>1. 1 >= Len(rbepIn) - 1 /\ Len(rbepIn) >= 2
          BY <1>2, <1>7, <3>6 DEF BothTold
        <5>2. QED
          BY <3>4, <5>1
      <4>2. PICK r \in RingNames, s \in RingNames : r # s /\ IsRing(m, r) /\ IsRing(rbepIn[2], s)
        BY <1>2, <3>6, <4>1 DEF BothTold
      <4>3. rbepIn'[1] = rbepIn[2] /\ Len(rbepIn') = 1 /\ DOMAIN rbepIn' = {1}
        <5>1. Len(rbepIn') = 1 /\ DOMAIN rbepIn' = 1 .. Len(rbepIn')
          BY <1>2, <3>4, <4>1
        <5>2. 1 \in 1 .. Len(rbepIn) - 1
          BY <4>1
        <5>3. QED
          BY <1>4, <5>1, <5>2
      <4>4. k = r /\ done = {r} /\ <<v.off, v.size>> = afkFw.layout[r]
        BY <2>9, <3>6, <4>2 DEF IsRing, k, done, BothTold
      <4>5. Agrees(r)' /\ IsRing(rbepIn[Len(rbepIn)], s)' /\ afk'.done = {r}
        BY <1>1, <2>8, <2>9, <2>10, <4>2, <4>3, <4>4 DEF Agrees, IsRing
      <4>6. OneTold'
        BY <4>2, <4>3, <4>5 DEF OneTold
      <4>7. p = "rings"
        BY <1>1, <2>4, <4>2, <4>4
      <4>8. RingsTold'
        BY <1>1, <2>10, <3>5, <4>6 DEF RingsTold
      <4>9. QED
        BY <2>8, <2>10, <4>7, <4>8 DEF PhaseOK, InitOK, AskOK, MapOK, RingsOK, UseOK
    <3>7. CASE OneTold
      <4>1. Len(rbepIn) = 1
        BY <1>2, <1>7, <3>7 DEF OneTold
      <4>2. PICK r \in RingNames, s \in RingNames : r # s /\ afk.done = {r} /\ Agrees(r) /\ IsRing(m, s)
        BY <1>2, <3>7, <4>1 DEF OneTold
      <4>3. rbepIn' = <<>>
        BY <1>2, <3>4, <4>1
      <4>4. k = s /\ done = RingNames /\ <<v.off, v.size>> = afkFw.layout[s] /\ RingNames = {r, s}
        BY <2>9, <4>2 DEF IsRing, k, done, RingNames
      <4>5. Agrees(r)' /\ Agrees(s)'
        BY <1>1, <2>9, <2>10, <4>2, <4>4 DEF Agrees
      <4>6. Agreed'
        BY <1>1, <2>10, <3>5, <4>4, <4>5 DEF Agreed
      <4>7. p = "start"
        BY <2>4, <4>4
      <4>8. QED
        BY <1>1, <2>8, <2>10, <3>5, <4>3, <4>6, <4>7 DEF PhaseOK, InitOK, AskOK, MapOK, RingsOK, UseOK
    <3>8. QED
      BY <3>3, <3>6, <3>7 DEF RingsTold
  <2>15. QED
    BY <2>8, <2>10, <2>11, <2>12, <2>13, <2>14 DEF AfkInv
<1>8. QED
  BY <1>5, <1>6, <1>7

LEMMA DrainRbepOK ==
  ASSUME AfkInv, DrainRbep
  PROVE  AfkInv'
<1>1. UNCHANGED <<afk, afkPages, rbepOut, afkFw>> /\ afk.at = "up" /\ rbepIn' = <<>>
  BY DEF DrainRbep
<1>2. AfkTypes' /\ PagesOK' /\ ReadyOK' /\ StartedOK'
  BY <1>1 DEF AfkInv, AfkTypes, PagesOK, ReadyOK, StartedOK
<1>3. ~afk.mixed => PhaseOK'
  BY <1>1 DEF AfkInv, PhaseOK, InitOK, AskOK, MapOK, RingsOK, UseOK, Agreed, Agrees
<1>4. QED
  BY <1>1, <1>2, <1>3 DEF AfkInv

LEMMA ShutdownOK ==
  ASSUME AfkInv, Shutdown
  PROVE  AfkInv'
<1>1. UNCHANGED <<afkPages, rbepIn, afkFw>> /\ afk.at = "up"
  BY DEF Shutdown
<1>2. CASE UNCHANGED <<afk, rbepOut>>
  <2>1. AfkTypes' /\ PagesOK' /\ ReadyOK' /\ StartedOK'
    BY <1>1, <1>2 DEF AfkInv, AfkTypes, PagesOK, ReadyOK, StartedOK
  <2>2. ~afk.mixed => PhaseOK'
    BY <1>1, <1>2 DEF AfkInv, PhaseOK, InitOK, AskOK, MapOK, RingsOK, UseOK, Agreed, Agrees
  <2>3. QED
    BY <1>1, <1>2, <2>1, <2>2 DEF AfkInv
<1>3. CASE rbepOut' = Append(rbepOut, [type |-> "SHUTDOWN"]) /\ afk' = [afk EXCEPT !.at = "SHUTDOWN_ACK"]
  <2>1. SameBut(afk', "SHUTDOWN_ACK")
    BY <1>3, Moved DEF AfkInv, Points
  <2>2. rbepOut' \in Seq(MessagesOut) /\ (rbepOut = <<>> => rbepOut' = <<[type |-> "SHUTDOWN"]>>)
    <3>1. PICK x \in MessagesOut : x = [type |-> "SHUTDOWN"]
      BY DEF MessagesOut
    <3>2. rbepOut' = Append(rbepOut, x) /\ rbepOut \in Seq(MessagesOut)
      BY <1>3, <3>1 DEF AfkInv, AfkTypes
    <3>3. rbepOut' \in Seq(MessagesOut)
      BY <3>2, EntryAppended
    <3>4. Append(<<>>, x) = <<x>>
      OBVIOUS
    <3>5. QED
      BY <3>1, <3>2, <3>3, <3>4
  <2>3. AfkTypes'
    BY <1>1, <2>1, <2>2 DEF AfkInv, AfkTypes, SameBut
  <2>4. PagesOK' /\ ReadyOK' /\ StartedOK'
    BY <1>1, <2>1, MovesTo DEF Points
  <2>5. ASSUME ~afk.mixed
        PROVE  PhaseOK'
    <3>1. Agreed /\ rbepOut = <<>>
      BY <1>1, <2>5 DEF AfkInv, PhaseOK, UseOK
    <3>2. Agreed'
      BY <1>1, <2>1, <3>1 DEF Agreed, Agrees, SameBut
    <3>3. QED
      BY <2>1, <2>2, <3>1, <3>2 DEF PhaseOK, InitOK, AskOK, MapOK, RingsOK, UseOK, SameBut
  <2>6. QED
    BY SMTT(20), <2>1, <2>3, <2>4, <2>5 DEF AfkInv, SameBut
<1>4. QED
  BY <1>2, <1>3 DEF Shutdown

LEMMA ShutdownWaitOK ==
  ASSUME AfkInv, ShutdownWait
  PROVE  AfkInv'
<1>1. UNCHANGED <<afkPages, rbepOut, afkFw>> /\ afk.at = "SHUTDOWN_ACK"
  BY DEF ShutdownWait
<1>2. rbepIn' \in Seq(MessagesIn)
  BY MessageRead DEF ShutdownWait, AfkInv, AfkTypes
<1>3. CASE afk' = [afk EXCEPT !.at = "down", !.started = FALSE]
  <2>1. SameBut(afk', "down") /\ ~afk'.started
    BY <1>3, Moved DEF AfkInv, Points
  <2>2. AfkTypes'
    BY <1>1, <1>2, <2>1 DEF AfkInv, AfkTypes, SameBut
  <2>3. PagesOK' /\ ReadyOK' /\ StartedOK'
    BY <1>1, <2>1, MovesTo DEF Points
  <2>4. PhaseOK'
    BY <2>1 DEF PhaseOK, InitOK, AskOK, MapOK, RingsOK, UseOK, SameBut
  <2>5. QED
    BY SMTT(20), <2>2, <2>3, <2>4 DEF AfkInv
<1>4. CASE afk' = afk
  <2>1. AfkTypes' /\ PagesOK' /\ ReadyOK' /\ StartedOK'
    BY <1>1, <1>2, <1>4 DEF AfkInv, AfkTypes, PagesOK, ReadyOK, StartedOK
  <2>2. ~afk.mixed => PhaseOK'
    BY <1>1, <1>4 DEF AfkInv, PhaseOK, InitOK, AskOK, MapOK, RingsOK, UseOK, Agreed, Agrees
  <2>3. QED
    BY <1>4, <2>1, <2>2 DEF AfkInv
<1>5. QED
  BY <1>3, <1>4 DEF ShutdownWait

LEMMA DropUnmapsBufferOK ==
  ASSUME AfkInv, DropUnmapsBuffer
  PROVE  AfkInv'
<1>1. UNCHANGED <<rbepIn, rbepOut, afkFw>> /\ afk.at \in {"failed", "up", "down"}
  BY DEF DropUnmapsBuffer, rbepVars
<1>2. afk' = [afk EXCEPT !.at = "dropping", !.started = FALSE]
  BY SMTT(20) DEF DropUnmapsBuffer
<1>3. SameBut(afk', "dropping") /\ ~afk'.started
  BY <1>2, Moved DEF AfkInv, Points
<1>4. /\ afk.shared = NoShared => afkPages' = [owned |-> {}, mapped |-> {}]
      /\ afk.shared # NoShared => afkPages' = [owned |-> {afk.n}, mapped |-> {}]
  BY <1>1 DEF DropUnmapsBuffer, AfkInv, PagesOK
<1>5. AfkTypes'
  BY <1>1, <1>3 DEF AfkInv, AfkTypes, SameBut
<1>6. PagesOK' /\ ReadyOK' /\ StartedOK'
  BY <1>1, <1>3, <1>4 DEF AfkInv, PagesOK, ReadyOK, StartedOK, Mapped, SameBut
<1>7. PhaseOK'
  BY <1>3 DEF PhaseOK, InitOK, AskOK, MapOK, RingsOK, UseOK, SameBut
<1>8. QED
  BY <1>5, <1>6, <1>7 DEF AfkInv

LEMMA DropFreesBufferOK ==
  ASSUME AfkInv, DropFreesBuffer
  PROVE  AfkInv'
<1>1. UNCHANGED <<rbepIn, rbepOut, afkFw>> /\ afk.at = "dropping"
  BY DEF DropFreesBuffer, rbepVars
<1>2. PICK a : a = [afk EXCEPT !.at = "none", !.shared = NoShared, !.rings = [r \in RingNames |-> NoRing]]
  OBVIOUS
<1>3. afk' = a
  BY <1>2 DEF DropFreesBuffer
<1>4. /\ a \in EndpointStates /\ a.at = "none" /\ a.shared = NoShared /\ ~a.started
      /\ \A r \in RingNames : ~a.rings[r].ready
  <2>1. ~afk.started
    BY <1>1 DEF AfkInv, StartedOK
  <2>2. QED
    BY <1>2, <2>1 DEF AfkInv, AfkTypes, EndpointStates, Points, NoRing
<1>5. afkPages' = [owned |-> {}, mapped |-> {}]
  <2>1. CASE afk.shared = NoShared
    BY <2>1 DEF DropFreesBuffer, AfkInv, PagesOK
  <2>2. CASE afk.shared # NoShared
    <3>1. afkPages = [owned |-> {afk.n}, mapped |-> {}]
      BY <1>1, <2>2 DEF AfkInv, PagesOK
    <3>2. afkPages' = [afkPages EXCEPT !.owned = @ \ {afk.n}]
      BY <2>2 DEF DropFreesBuffer
    <3>3. QED
      BY <3>1, <3>2
  <2>3. QED
    BY <2>1, <2>2
<1>6. AfkTypes'
  BY <1>1, <1>3, <1>4 DEF AfkInv, AfkTypes
<1>7. PagesOK' /\ ReadyOK' /\ StartedOK' /\ PhaseOK'
  BY <1>3, <1>4, <1>5 DEF PagesOK, ReadyOK, StartedOK, Mapped, PhaseOK, InitOK, AskOK, MapOK, RingsOK, UseOK
<1>8. QED
  BY <1>6, <1>7 DEF AfkInv

------------------------------------------------------------------------------
(* The firmware: its steps touch neither the endpoint nor the pages. *)
Firmwares == [phase : {"idle", "getbuf", "rings", "told", "running"}, buffer : Nat, layout : RingLayouts, tag : TagsOfBuffers]
LEMMA FirmwareOK ==
  ASSUME AfkInv, UNCHANGED <<afk, afkPages>>, rbepIn' \in Seq(MessagesIn), rbepOut' \in Seq(MessagesOut),
         afkFw' \in Firmwares, ~afk.mixed => PhaseOK'
  PROVE  AfkInv'
<1>1. AfkTypes'
  BY DEF AfkInv, AfkTypes, Firmwares
<1>2. PagesOK' /\ ReadyOK' /\ StartedOK'
  BY DEF AfkInv, PagesOK, ReadyOK, StartedOK
<1>3. QED
  BY <1>1, <1>2 DEF AfkInv

(* A command other than INIT is taken while INIT waits: INIT comes later.      *)
LEMMA AskedTaken ==
  ASSUME AfkTypes, rbepOut # <<>>, rbepOut' = Tail(rbepOut), Head(rbepOut).type # "INIT",
         Left(rbepIn', {"GETBUF"}) => Left(rbepIn, {"GETBUF"})
  PROVE  /\ ~Answered
         /\ Asked => Asked' /\ ~Answered'
         /\ OneRequest /\ Asked => OneRequest'
<1>1. ~Answered
  BY DEF Answered
<1>2. ASSUME Asked
      PROVE  Asked' /\ ~Answered'
  <2>1. Len(rbepOut) > 1
    BY <1>2, CommandTaken DEF Asked, LastIsInit
  <2>2. Len(rbepOut) - 1 \in 1 .. Len(rbepOut) - 1 /\ (Len(rbepOut) - 1) + 1 = Len(rbepOut)
    BY <2>1, CommandTaken
  <2>3. rbepOut'[Len(rbepOut) - 1] = rbepOut[Len(rbepOut)] /\ Len(rbepOut') = Len(rbepOut) - 1
    BY <2>2, CommandTaken
  <2>4. rbepOut' # <<>>
    <3>1. Len(<<>>) = 0
      OBVIOUS
    <3>2. Len(rbepOut') # 0
      BY <2>1, <2>3, CommandTaken
    <3>3. QED
      BY <3>1, <3>2
  <2>5. rbepOut'[Len(rbepOut')].type = "INIT"
    BY <1>2, <2>3 DEF Asked, LastIsInit
  <2>6. QED
    BY <2>4, <2>5 DEF Asked, LastIsInit, Answered
<1>3. ASSUME OneRequest, Asked
      PROVE  OneRequest'
  <2>1. ~Left(rbepIn', {"GETBUF"}) /\ \A i \in DOMAIN rbepOut : rbepOut[i].type = "INIT" => i = Len(rbepOut)
    BY <1>3 DEF OneRequest
  <2>2. ASSUME NEW i \in DOMAIN rbepOut', rbepOut'[i].type = "INIT"
        PROVE  i = Len(rbepOut')
    <3>1. i + 1 = Len(rbepOut) /\ i \in Nat
      BY <2>1, <2>2, CommandTaken
    <3>2. QED
      BY <3>1, CommandTaken
  <2>3. QED
    BY <1>2, <1>3, <2>1, <2>2 DEF OneRequest
<1>4. QED
  BY <1>1, <1>2, <1>3

LEMMA OneEntry ==
  ASSUME NEW S, NEW s \in Seq(S), Len(s) = 1
  PROVE  s = <<s[1]>>
<1>1. s = [i \in 1 .. 1 |-> s[i]]
  OBVIOUS
<1>2. <<s[1]>> = [i \in 1 .. 1 |-> s[1]]
  OBVIOUS
<1>3. QED
  BY <1>1, <1>2

LEMMA BufferSentTaken ==
  ASSUME AfkTypes, BufferSent, rbepOut' = Tail(rbepOut), UNCHANGED afk, afkFw'.phase # "rings", NoRingsIn'
  PROVE  /\ rbepOut # <<>> /\ Head(rbepOut) # Ack /\ Head(rbepOut).type # "GETBUF_ACK"
         /\ Head(rbepOut).type # "INIT" => BufferSent'
         /\ BufferSent' \/ rbepOut' = <<Ack>>
         /\ Ack' = Ack
<1>1. /\ Len(rbepOut) >= 2 /\ rbepOut[Len(rbepOut) - 1].type = "INIT" /\ rbepOut[Len(rbepOut)] = Ack
      /\ \A i \in DOMAIN rbepOut : rbepOut[i].type = "GETBUF_ACK" => i = Len(rbepOut)
      /\ afk.done = {}
  BY DEF BufferSent
<1>2. rbepOut # <<>>
  <2>1. Len(<<>>) = 0
    OBVIOUS
  <2>2. QED
    BY <1>1, <2>1
<1>3. Ack' = Ack /\ Ack.type = "GETBUF_ACK"
  BY DEF Ack
<1>4. Len(rbepOut') = Len(rbepOut) - 1 /\ Len(rbepOut) \in Nat /\ rbepOut' \in Seq(MessagesOut)
  BY <1>2, CommandTaken
<1>5. Len(rbepOut) - 1 \in 1 .. Len(rbepOut) - 1 /\ (Len(rbepOut) - 1) + 1 = Len(rbepOut)
  BY <1>1, <1>4
<1>6. rbepOut'[Len(rbepOut')] = Ack
  BY <1>1, <1>2, <1>4, <1>5, CommandTaken
<1>7. Head(rbepOut).type # "GETBUF_ACK"
  BY <1>1, <1>2, <1>4, CommandTaken
<1>8. ASSUME Len(rbepOut) # 2
      PROVE  BufferSent'
  <2>1. Len(rbepOut) - 2 \in 1 .. Len(rbepOut) - 1 /\ (Len(rbepOut) - 2) + 1 = Len(rbepOut) - 1
        /\ Len(rbepOut') - 1 = Len(rbepOut) - 2 /\ Len(rbepOut') >= 2
    BY <1>1, <1>4, <1>8
  <2>2. rbepOut'[Len(rbepOut') - 1].type = "INIT"
    BY <1>1, <1>2, <2>1, CommandTaken
  <2>3. ASSUME NEW i \in DOMAIN rbepOut', rbepOut'[i].type = "GETBUF_ACK"
        PROVE  i = Len(rbepOut')
    <3>1. i + 1 = Len(rbepOut) /\ i \in Nat
      BY <1>1, <1>2, <2>3, CommandTaken
    <3>2. QED
      BY <1>4, <3>1
  <2>4. QED
    BY <1>1, <1>3, <1>6, <2>1, <2>2, <2>3 DEF BufferSent
<1>9. ASSUME Len(rbepOut) = 2
      PROVE  rbepOut' = <<Ack>> /\ Head(rbepOut).type = "INIT"
  <2>1. Len(rbepOut') = 1
    BY ONLY <1>4, <1>9
  <2>1a. rbepOut'[1] = Ack
    BY ONLY <1>6, <2>1
  <2>2. rbepOut' = <<rbepOut'[1]>>
    BY ONLY <1>4, <2>1, OneEntry
  <2>3. Head(rbepOut).type = "INIT"
    BY <1>1, <1>2, <1>9, CommandTaken
  <2>4. QED
    BY <2>1a, <2>2, <2>3
<1>10. QED
  BY <1>2, <1>3, <1>7, <1>8, <1>9

LEMMA FwInitOK ==
  ASSUME AfkAssumption, AfkInv, NEW l \in RingLayouts, NEW t \in BufferTags, FwInit(l, t)
  PROVE  AfkInv'
<1> DEFINE x == [type |-> "INIT_ACK"]
           y == [type |-> "GETBUF", blocks |-> l.blocks, tag |-> t]
<1>1. /\ UNCHANGED <<afk, afkPages>> /\ rbepOut # <<>> /\ Head(rbepOut).type = "INIT" /\ rbepOut' = Tail(rbepOut)
      /\ rbepIn' = rbepIn \o <<x, y>> /\ afkFw' = [phase |-> "getbuf", buffer |-> 0, layout |-> l, tag |-> t]
  BY DEF FwInit
<1>2. x \in MessagesIn /\ y \in MessagesIn /\ x.type = "INIT_ACK" /\ y.type = "GETBUF"
  BY DEF MessagesIn, TagsOfBuffers, AfkAssumption
<1> HIDE DEF x, y
<1>3. /\ rbepIn' \in Seq(MessagesIn) /\ Len(rbepIn') = Len(rbepIn) + 2 /\ rbepIn'[Len(rbepIn') - 1] = x /\ rbepIn'[Len(rbepIn')] = y
      /\ \A i \in DOMAIN rbepIn : i \in DOMAIN rbepIn' /\ rbepIn'[i] = rbepIn[i]
      /\ \A i \in DOMAIN rbepIn' : i \in Nat /\ (i \in DOMAIN rbepIn \/ i = Len(rbepIn') - 1 \/ i = Len(rbepIn')) /\ i <= Len(rbepIn')
  <2>1. rbepIn \in Seq(MessagesIn)
    BY DEF AfkInv, AfkTypes
  <2>2. QED
    BY ONLY <1>1, <1>2, <2>1, TwoAppended
<1>2a. AfkTypes
  BY DEF AfkInv
<1>2b. /\ Len(rbepOut') = Len(rbepOut) - 1 /\ Len(rbepOut) \in Nat \ {0} /\ Head(rbepOut) = rbepOut[1]
       /\ \A i \in 1 .. Len(rbepOut) - 1 : i \in DOMAIN rbepOut' /\ rbepOut'[i] = rbepOut[i + 1]
  BY <1>1, <1>2a, CommandTaken
<1>4. afkFw' \in Firmwares /\ afkFw'.phase = "getbuf"
  BY <1>1 DEF Firmwares, TagsOfBuffers
<1>5. rbepOut' \in Seq(MessagesOut)
  BY <1>1, CommandTaken DEF AfkInv
<1>6. ~Left(rbepIn, RingTypes) => ~Left(rbepIn', RingTypes)
  BY <1>2, <1>3 DEF Left, RingTypes
<1>8. NoRings => NoRings'
  BY <1>1, <1>4, <1>6, CommandTaken DEF NoRings, RingsLeft, AfkInv, RingTypes
<1>9. ~Answered /\ (Asked => Asked' \/ Answered')
  <2>1. ~Answered
    BY <1>1 DEF Answered
  <2>2. ASSUME Asked, Len(rbepOut) # 1
        PROVE  Asked'
    <3>1. Len(rbepOut) - 1 \in 1 .. Len(rbepOut) - 1 /\ (Len(rbepOut) - 1) + 1 = Len(rbepOut)
      BY ONLY <1>2b, <2>2
    <3>2. rbepOut'[Len(rbepOut')] = rbepOut[Len(rbepOut)] /\ Len(rbepOut') # 0
      BY ONLY <1>2b, <2>2, <3>1
    <3>3. Len(<<>>) = 0
      OBVIOUS
    <3>4. QED
      BY <2>2, <3>2, <3>3 DEF Asked, LastIsInit
  <2>3. ASSUME Len(rbepOut) = 1
        PROVE  Answered'
    <3>1. Len(rbepOut') = 0
      BY ONLY <1>2b, <2>3
    <3>2. QED
      BY <1>4, <1>5, <3>1 DEF Answered
  <2>4. QED
    BY <2>1, <2>2, <2>3
<1>10. OneRequest /\ Asked => OneRequest'
  <2>1. ASSUME OneRequest, Asked
        PROVE  OneRequest'
    <3>1. ~Left(rbepIn, {"GETBUF"}) /\ Len(rbepOut) = 1
      BY <1>1, <2>1, CommandTaken DEF OneRequest, AfkInv
    <3>2. rbepOut' = <<>>
      <4>1. Len(rbepOut') = 0
        BY ONLY <1>2b, <3>1
      <4>2. QED
        BY <1>5, <4>1
    <3>3. ~Asked'
      BY <3>2 DEF Asked, LastIsInit
    <3>4. \A i \in DOMAIN rbepIn' : rbepIn'[i].type = "GETBUF" => i = Len(rbepIn')
      BY <1>2, <1>3, <3>1 DEF Left
    <3>5. QED
      BY <3>3, <3>4 DEF OneRequest
  <2>2. QED
    BY <2>1
<1>11. ASSUME ~afk.mixed
       PROVE  PhaseOK'
  <2>1. InitOK'
    <3>1. ASSUME afk.at = "init"
          PROVE  ~RingsLeft'
      <4>1. RequestLeft
        BY <1>1, CommandTaken DEF RequestLeft, Left, AfkInv
      <4>2. NoRings
        BY <3>1, <4>1, <1>11 DEF AfkInv, PhaseOK, InitOK, NoRings
      <4>3. QED
        BY <4>2, <1>8 DEF NoRings
    <3>2. QED
      BY <3>1, <1>1 DEF InitOK
  <2>2. AskOK' /\ MapOK'
    BY <1>1, <1>8, <1>9, <1>10, <1>11 DEF AfkInv, PhaseOK, AskOK, MapOK, AskedOrAnswered
  <2>3. RingsOK'
    <3>1. ASSUME afk.at = "rings"
          PROVE  BufferSent' \/ BufferNext'
      <4>1. BufferSent \/ BufferNext
        BY <1>1, <1>11, <3>1 DEF AfkInv, PhaseOK, RingsOK, BufferTaken, RingsTold
      <4>2. ~BufferNext
        <5>1. Head(<<Ack>>).type = "GETBUF_ACK"
          BY DEF Ack
        <5>2. QED
          BY <1>1, <5>1 DEF BufferNext
      <4>3. BufferSent
        BY <4>1, <4>2
      <4>4. NoRingsIn'
        BY <4>3, <1>6 DEF BufferSent, NoRingsIn
      <4>5. Ack' = Ack /\ (BufferSent' \/ rbepOut' = <<Ack>>)
        BY <1>1, <1>4, <4>3, <4>4, BufferSentTaken DEF AfkInv
      <4>6. afk'.done = {}
        BY <1>1, <4>3 DEF BufferSent
      <4>7. QED
        BY <1>4, <4>4, <4>5, <4>6 DEF BufferNext
    <3>2. QED
      BY <3>1, <1>1 DEF RingsOK
  <2>4. UseOK'
    <3>1. Head(<<AtStart>>).type = "START" /\ Head(<<[type |-> "SHUTDOWN"]>>).type = "SHUTDOWN"
      BY DEF AtStart
    <3>2. afk.at \notin {"start", "START_ACK", "up", "SHUTDOWN_ACK"}
      BY <1>1, <1>11, <3>1 DEF AfkInv, PhaseOK, UseOK
    <3>3. QED
      BY <1>1, <3>2 DEF UseOK
  <2>5. QED
    BY <2>1, <2>2, <2>3, <2>4 DEF PhaseOK
<1>12. QED
  BY <1>1, <1>3, <1>4, <1>5, <1>11, FirmwareOK

LEMMA FwGetsBufferOK ==
  ASSUME AfkAssumption, AfkInv, FwGetsBuffer
  PROVE  AfkInv'
<1>1. /\ UNCHANGED <<afk, afkPages, rbepIn>> /\ rbepOut # <<>> /\ rbepOut' = Tail(rbepOut)
      /\ Head(rbepOut).type = "GETBUF_ACK"
  BY DEF FwGetsBuffer
<1>2. PICK b \in Nat : b = Head(rbepOut).buffer
  BY <1>1, CommandTaken, AfkFacts DEF AfkInv
<1>3. /\ afkFw.phase = "getbuf" => afkFw' = [afkFw EXCEPT !.phase = "rings", !.buffer = b]
      /\ afkFw.phase # "getbuf" => afkFw' = afkFw
  BY <1>2 DEF FwGetsBuffer
<1>4. afkFw \in Firmwares
  BY DEF AfkInv, AfkTypes, Firmwares
<1>5. /\ afkFw' \in Firmwares
      /\ afkFw.phase = "getbuf" => afkFw'.phase = "rings" /\ afkFw'.buffer = b
  BY <1>3, <1>4 DEF Firmwares
<1>6. rbepOut' \in Seq(MessagesOut) /\ rbepIn' \in Seq(MessagesIn)
  BY <1>1, CommandTaken DEF AfkInv, AfkTypes
<1>7. ~NoRings
  BY <1>1, CommandTaken DEF NoRings, RingsLeft, Left, AfkInv
<1>8. ASSUME ~afk.mixed
      PROVE  PhaseOK'
  <2>1. InitOK'
    <3>1. ASSUME afk.at = "init"
          PROVE  ~RequestLeft'
      <4>1. ~RequestLeft
        BY <1>7, <1>8, <3>1 DEF AfkInv, PhaseOK, InitOK, NoRings
      <4>2. QED
        BY <4>1, <1>1, CommandTaken DEF RequestLeft, AfkInv
    <3>2. QED
      BY <1>1, <3>1 DEF InitOK
  <2>2. AskOK'
    <3>1. ASSUME afk.at \in {"INIT_ACK", "GETBUF"}
          PROVE  AskedOrAnswered'
      <4>1. (Asked \/ Answered) /\ OneRequest
        BY <1>7, <1>8, <3>1 DEF AfkInv, PhaseOK, AskOK, AskedOrAnswered
      <4>2. Left(rbepIn', {"GETBUF"}) => Left(rbepIn, {"GETBUF"})
        BY <1>1
      <4>3. Asked' /\ OneRequest'
        BY <1>1, <4>1, <4>2, AskedTaken DEF AfkInv
      <4>4. QED
        BY <4>3 DEF AskedOrAnswered
    <3>2. QED
      BY <1>1, <3>1 DEF AskOK
  <2>3. MapOK'
    BY <1>1, <1>7, <1>8 DEF AfkInv, PhaseOK, MapOK
  <2>4. RingsOK'
    <3>1. ASSUME afk.at = "rings"
          PROVE  BufferTaken'
      <4>1. BufferSent \/ BufferNext
        BY <1>1, <1>8, <3>1 DEF AfkInv, PhaseOK, RingsOK, BufferTaken, RingsTold
      <4>2. ~BufferSent
        <5>1. SUFFICES ASSUME BufferSent
                       PROVE  FALSE
          OBVIOUS
        <5>2. Len(rbepOut) # 1
          BY <5>1 DEF BufferSent
        <5>3. \A i \in DOMAIN rbepOut : rbepOut[i].type = "GETBUF_ACK" => i = Len(rbepOut)
          BY <5>1 DEF BufferSent
        <5>4. Len(rbepOut) = 1
          BY <1>1, <5>3, CommandTaken DEF AfkInv
        <5>5. QED
          BY <5>2, <5>4
      <4>3. rbepOut = <<Ack>> /\ afkFw.phase = "getbuf" /\ NoRingsIn /\ afk.done = {}
        BY <4>1, <4>2 DEF BufferNext
      <4>4. rbepOut' = <<>> /\ b = afk.n
        BY <1>1, <1>2, <4>3 DEF Ack
      <4>5. NoRingsIn'
        BY <1>1, <4>3 DEF NoRingsIn
      <4>6. QED
        BY <1>1, <1>5, <4>3, <4>4, <4>5 DEF BufferTaken
    <3>2. QED
      BY <1>1, <3>1 DEF RingsOK
  <2>5. UseOK'
    <3>1. Head(<<AtStart>>).type = "START" /\ Head(<<[type |-> "SHUTDOWN"]>>).type = "SHUTDOWN"
      BY DEF AtStart
    <3>2. afk.at \notin {"start", "START_ACK", "up", "SHUTDOWN_ACK"}
      BY <1>1, <1>8, <3>1 DEF AfkInv, PhaseOK, UseOK
    <3>3. QED
      BY <1>1, <3>2 DEF UseOK
  <2>6. QED
    BY <2>1, <2>2, <2>3, <2>4, <2>5 DEF PhaseOK
<1>9. QED
  BY <1>1, <1>5, <1>6, <1>8, FirmwareOK

LEMMA FwTellsRingsOK ==
  ASSUME AfkAssumption, AfkInv, NEW r \in RingNames, FwTellsRings(r)
  PROVE  AfkInv'
<1> DEFINE s == IF r = "tx" THEN "rx" ELSE "tx"
           x == RingMessage(r)
           y == RingMessage(s)
<1>1. /\ UNCHANGED <<afk, afkPages, rbepOut>> /\ afkFw.phase = "rings" /\ rbepIn' = rbepIn \o <<x, y>>
      /\ afkFw' = [afkFw EXCEPT !.phase = "told"]
  BY DEF FwTellsRings
<1>2. s \in RingNames /\ s # r
  BY DEF RingNames
<1>3. afkFw \in Firmwares
  BY DEF AfkInv, AfkTypes, Firmwares
<1>4. afkFw' \in Firmwares /\ afkFw'.phase = "told" /\ afkFw'.buffer = afkFw.buffer /\ afkFw'.layout = afkFw.layout
  BY <1>1, <1>3 DEF Firmwares
<1>5. \A k \in RingNames : RingMessage(k) \in MessagesIn /\ IsRing(RingMessage(k), k) /\ RingMessage(k).type \in RingTypes
  <2>1. ASSUME NEW k \in RingNames
        PROVE  RingMessage(k) \in MessagesIn /\ IsRing(RingMessage(k), k) /\ RingMessage(k).type \in RingTypes
    <3>1. afkFw.layout[k][1] \in Nat /\ afkFw.layout[k][2] \in Nat /\ afkFw.layout[k] = <<afkFw.layout[k][1], afkFw.layout[k][2]>>
      BY <2>1, AfkFacts DEF AfkInv
    <3>2. afkFw.tag \in TagsOfBuffers
      BY <1>3 DEF Firmwares
    <3>3. QED
      BY <2>1, <3>1, <3>2 DEF RingMessage, MessagesIn, IsRing, RingTypes, RingOf, RingNames
  <2>2. QED
    BY <2>1
<1>6. x \in MessagesIn /\ y \in MessagesIn /\ IsRing(x, r) /\ IsRing(y, s) /\ x.type \in RingTypes /\ y.type \in RingTypes
  BY <1>2, <1>5
<1> HIDE DEF x, y, s
<1>7. /\ rbepIn' \in Seq(MessagesIn) /\ Len(rbepIn') = Len(rbepIn) + 2 /\ Len(rbepIn) \in Nat
      /\ rbepIn'[Len(rbepIn') - 1] = x /\ rbepIn'[Len(rbepIn')] = y
      /\ \A i \in DOMAIN rbepIn : i \in DOMAIN rbepIn' /\ rbepIn'[i] = rbepIn[i]
      /\ \A i \in DOMAIN rbepIn' : i \in Nat /\ (i \in DOMAIN rbepIn \/ i = Len(rbepIn') - 1 \/ i = Len(rbepIn')) /\ i <= Len(rbepIn')
  <2>1. rbepIn \in Seq(MessagesIn)
    BY DEF AfkInv, AfkTypes
  <2>2. QED
    BY ONLY <1>1, <1>6, <2>1, TwoAppended
<1>8. rbepOut' \in Seq(MessagesOut)
  BY <1>1 DEF AfkInv, AfkTypes
<1>9. ~NoRings /\ ~Answered /\ ~Answered' /\ Asked' = Asked
  BY <1>1, <1>4 DEF NoRings, RingsLeft, Answered, Asked, LastIsInit
<1>10. Left(rbepIn', {"GETBUF"}) => Left(rbepIn, {"GETBUF"})
  BY <1>6, <1>7 DEF Left, RingTypes
<1>11. ASSUME ~afk.mixed
       PROVE  PhaseOK'
  <2>1. InitOK'
    BY <1>1, <1>9, <1>10, <1>11 DEF AfkInv, PhaseOK, InitOK, NoRings, RequestLeft
  <2>2. AskOK'
    <3>1. ASSUME afk.at \in {"INIT_ACK", "GETBUF"}
          PROVE  Asked' /\ OneRequest'
      <4>1. Asked /\ OneRequest
        BY <1>9, <1>11, <3>1 DEF AfkInv, PhaseOK, AskOK, AskedOrAnswered
      <4>2. QED
        BY <1>1, <1>9, <1>10, <4>1 DEF OneRequest
    <3>2. QED
      BY <1>1, <3>1 DEF AskOK, AskedOrAnswered
  <2>3. MapOK'
    BY <1>1, <1>9, <1>11 DEF AfkInv, PhaseOK, MapOK
  <2>4. RingsOK'
    <3>1. ASSUME afk.at = "rings"
          PROVE  RingsTold'
      <4>1. BufferTaken
        BY <1>1, <1>11, <3>1 DEF AfkInv, PhaseOK, RingsOK, BufferSent, BufferNext, RingsTold
      <4>2. IsRing(rbepIn[Len(rbepIn) - 1], r)' /\ IsRing(rbepIn[Len(rbepIn)], s)'
        BY <1>4, <1>6, <1>7 DEF IsRing
      <4>3. \A i \in DOMAIN rbepIn' : rbepIn'[i].type \in RingTypes => i >= Len(rbepIn') - 1
        <5>1. ASSUME NEW i \in DOMAIN rbepIn', rbepIn'[i].type \in RingTypes
              PROVE  i >= Len(rbepIn') - 1
          <6>1. i \notin DOMAIN rbepIn
            BY <4>1, <1>7, <5>1 DEF BufferTaken, NoRingsIn, Left
          <6>2. QED
            BY <1>7, <5>1, <6>1
        <5>2. QED
          BY <5>1
      <4>4. Len(rbepIn') >= 2 /\ afk'.done = {}
        BY <1>1, <1>7, <4>1 DEF BufferTaken
      <4>5. BothTold'
        BY <1>2, <4>2, <4>3, <4>4 DEF BothTold
      <4>6. QED
        BY <1>1, <1>4, <4>1, <4>5 DEF RingsTold, BufferTaken
    <3>2. QED
      BY <1>1, <3>1 DEF RingsOK
  <2>5. UseOK'
    <3>1. afk.at \notin {"start", "START_ACK", "up"}
      BY <1>1, <1>11 DEF AfkInv, PhaseOK, UseOK
    <3>2. afk.at = "SHUTDOWN_ACK" => Agreed' /\ (rbepOut = <<>> \/ rbepOut = <<[type |-> "SHUTDOWN"]>>)
      BY <1>1, <1>4, <1>11 DEF AfkInv, PhaseOK, UseOK, Agreed, Agrees
    <3>3. QED
      BY <1>1, <3>1, <3>2 DEF UseOK
  <2>6. QED
    BY <2>1, <2>2, <2>3, <2>4, <2>5 DEF PhaseOK
<1>12. QED
  BY <1>1, <1>4, <1>7, <1>8, <1>11, FirmwareOK

(* Firmware starts or shuts down: it takes the command and acknowledges it.    *)
LEMMA CommandAnsweredOK ==
  ASSUME AfkAssumption, AfkInv, UNCHANGED <<afk, afkPages>>, rbepOut # <<>>, rbepOut' = Tail(rbepOut),
         Head(rbepOut).type \in {"START", "SHUTDOWN"}, afkFw' \in Firmwares,
         afkFw'.buffer = afkFw.buffer, afkFw'.layout = afkFw.layout,
         NEW x \in MessagesIn, x.type \in {"START_ACK", "SHUTDOWN_ACK"},
         rbepIn' \in {rbepIn, Append(rbepIn, x)}, afkFw'.phase \in {afkFw.phase, "running", "idle"},
         Head(rbepOut).type = "START" /\ afkFw.phase = "told" => afkFw'.phase = "running"
  PROVE  AfkInv'
<1>1. /\ rbepIn' \in Seq(MessagesIn)
      /\ \A T : x.type \notin T => (Left(rbepIn', T) => Left(rbepIn, T))
  <2>1. CASE rbepIn' = rbepIn
    BY <2>1 DEF AfkInv, AfkTypes
  <2>2. CASE rbepIn' = Append(rbepIn, x)
    <3>1. rbepIn \in Seq(MessagesIn)
      BY DEF AfkInv, AfkTypes
    <3>2. /\ rbepIn' \in Seq(MessagesIn) /\ rbepIn'[Len(rbepIn) + 1] = x
          /\ \A i \in DOMAIN rbepIn : rbepIn'[i] = rbepIn[i]
          /\ \A i \in DOMAIN rbepIn' : i = Len(rbepIn) + 1 \/ i \in DOMAIN rbepIn
      BY <2>2, <3>1, EntryAppended
    <3>3. QED
      BY <3>2 DEF Left
  <2>3. QED
    BY <2>1, <2>2
<1>2. rbepOut' \in Seq(MessagesOut) /\ (\A T : Left(rbepOut', T) => Left(rbepOut, T))
  BY CommandTaken DEF AfkInv
<1>3. /\ Left(rbepIn', {"GETBUF"}) => Left(rbepIn, {"GETBUF"})
      /\ Left(rbepIn', RingTypes) => Left(rbepIn, RingTypes)
  BY <1>1 DEF RingTypes
<1>4. NoRings => NoRings'
  BY <1>2, <1>3 DEF NoRings, RingsLeft, RingTypes
<1>5. Head(rbepOut).type # "INIT"
  OBVIOUS
<1>6. ~Answered /\ (Asked => Asked') /\ (OneRequest /\ Asked => OneRequest')
  BY <1>3, <1>5, AskedTaken DEF AfkInv
<1>7. ASSUME ~afk.mixed
      PROVE  PhaseOK'
  <2>1. InitOK'
    <3>1. RequestLeft' => RequestLeft
      BY <1>2, <1>3 DEF RequestLeft
    <3>2. QED
      BY <1>4, <1>7, <3>1 DEF AfkInv, PhaseOK, InitOK, NoRings
  <2>2. AskOK' /\ MapOK'
    BY <1>4, <1>6, <1>7 DEF AfkInv, PhaseOK, AskOK, MapOK, AskedOrAnswered
  <2>3. RingsOK'
    <3>1. ASSUME afk.at = "rings"
          PROVE  BufferSent'
      <4>1. BufferSent \/ BufferNext
        BY <1>7, <3>1 DEF AfkInv, PhaseOK, RingsOK, BufferTaken, RingsTold
      <4>2. ~BufferNext
        <5>1. Head(<<Ack>>).type = "GETBUF_ACK"
          BY DEF Ack
        <5>2. QED
          BY <5>1 DEF BufferNext
      <4>3. BufferSent /\ NoRingsIn' /\ afkFw'.phase # "rings"
        BY <1>3, <4>1, <4>2 DEF BufferSent, NoRingsIn
      <4>4. QED
        BY <1>5, <4>3, BufferSentTaken DEF AfkInv
    <3>2. QED
      BY <3>1 DEF RingsOK
  <2>4. UseOK'
    <3>1. afk.at \notin {"start", "up"}
      BY <1>7 DEF AfkInv, PhaseOK, UseOK
    <3>2. Agreed => Agreed'
      BY DEF Agreed, Agrees
    <3>3. Tail(<<AtStart>>) = <<>> /\ Tail(<<[type |-> "SHUTDOWN"]>>) = <<>> /\ Head(<<AtStart>>).type = "START"
      BY DEF AtStart
    <3>4. afk.at = "START_ACK" => Agreed' /\ rbepOut' = <<>> /\ afkFw'.phase = "running"
      BY <1>7, <3>2, <3>3 DEF AfkInv, PhaseOK, UseOK
    <3>5. afk.at = "SHUTDOWN_ACK" => Agreed' /\ rbepOut' = <<>>
      BY <1>7, <3>2, <3>3 DEF AfkInv, PhaseOK, UseOK
    <3>6. QED
      BY <3>1, <3>4, <3>5 DEF UseOK
  <2>5. QED
    BY <2>1, <2>2, <2>3, <2>4 DEF PhaseOK
<1>8. QED
  BY <1>1, <1>2, <1>7, FirmwareOK

LEMMA FwStartsOK ==
  ASSUME AfkAssumption, AfkInv, FwStarts
  PROVE  AfkInv'
<1>1. /\ UNCHANGED <<afk, afkPages>> /\ rbepOut # <<>> /\ rbepOut' = Tail(rbepOut) /\ Head(rbepOut).type = "START"
      /\ IF afkFw.phase = "told"
         THEN /\ afkFw' = [afkFw EXCEPT !.phase = "running"] /\ rbepIn' = Append(rbepIn, [type |-> "START_ACK"])
         ELSE UNCHANGED <<afkFw, rbepIn>>
  BY DEF FwStarts
<1>2. afkFw \in Firmwares
  BY DEF AfkInv, AfkTypes, Firmwares
<1>3. afkFw' \in Firmwares /\ afkFw'.buffer = afkFw.buffer /\ afkFw'.layout = afkFw.layout
  BY <1>1, <1>2 DEF Firmwares
<1>4. afkFw'.phase \in {afkFw.phase, "running"} /\ (afkFw.phase = "told" => afkFw'.phase = "running")
  BY <1>1, <1>2 DEF Firmwares
<1>5. PICK x \in MessagesIn : x = [type |-> "START_ACK"]
  BY DEF MessagesIn
<1>6. x.type = "START_ACK" /\ rbepIn' \in {rbepIn, Append(rbepIn, x)}
  BY <1>1, <1>5
<1>7. QED
  BY <1>1, <1>3, <1>4, <1>6, CommandAnsweredOK

LEMMA FwShutsDownOK ==
  ASSUME AfkAssumption, AfkInv, FwShutsDown
  PROVE  AfkInv'
<1>1. /\ UNCHANGED <<afk, afkPages>> /\ rbepOut # <<>> /\ rbepOut' = Tail(rbepOut) /\ Head(rbepOut).type = "SHUTDOWN"
      /\ rbepIn' = Append(rbepIn, [type |-> "SHUTDOWN_ACK"]) /\ afkFw' = [afkFw EXCEPT !.phase = "idle"]
  BY DEF FwShutsDown
<1>2. afkFw \in Firmwares
  BY DEF AfkInv, AfkTypes, Firmwares
<1>3. afkFw' \in Firmwares /\ afkFw'.buffer = afkFw.buffer /\ afkFw'.layout = afkFw.layout /\ afkFw'.phase = "idle"
  BY <1>1, <1>2 DEF Firmwares
<1>4. PICK x \in MessagesIn : x = [type |-> "SHUTDOWN_ACK"]
  BY DEF MessagesIn
<1>5. x.type = "SHUTDOWN_ACK" /\ rbepIn' \in {rbepIn, Append(rbepIn, x)}
  BY <1>1, <1>4
<1>6. QED
  BY <1>1, <1>3, <1>5, CommandAnsweredOK

LEMMA FwNotifiesOK ==
  ASSUME AfkInv, FwNotifies
  PROVE  AfkInv'
<1>1. /\ UNCHANGED <<afk, afkPages, rbepOut, afkFw>> /\ afkFw.phase = "running" /\ rbepIn = <<>>
      /\ rbepIn' = Append(rbepIn, [type |-> "RECV"])
  BY DEF FwNotifies
<1>2. PICK x \in MessagesIn : x = [type |-> "RECV"]
  BY DEF MessagesIn
<1>3. rbepIn' \in Seq(MessagesIn) /\ DOMAIN rbepIn' = {1} /\ rbepIn'[1].type = "RECV"
  <2>1. rbepIn' = <<x>>
    BY <1>1, <1>2
  <2>2. QED
    BY <1>2, <2>1
<1>4. ~Left(rbepIn', {"GETBUF"}) /\ ~Left(rbepIn', RingTypes)
  BY <1>3 DEF Left, RingTypes
<1>5. NoRings => NoRings'
  BY <1>1, <1>4 DEF NoRings, RingsLeft, RingTypes
<1>6. Asked' = Asked /\ ~Answered /\ ~Answered'
  BY <1>1 DEF Asked, Answered, LastIsInit
<1>7. OneRequest /\ Asked => OneRequest'
  BY <1>1, <1>4, <1>6 DEF OneRequest
<1>8. ASSUME ~afk.mixed
      PROVE  PhaseOK'
  <2>1. InitOK'
    BY <1>1, <1>4, <1>5, <1>8 DEF AfkInv, PhaseOK, InitOK, NoRings, RequestLeft
  <2>2. AskOK' /\ MapOK'
    BY <1>1, <1>5, <1>6, <1>7, <1>8 DEF AfkInv, PhaseOK, AskOK, MapOK, AskedOrAnswered
  <2>3. RingsOK'
    <3>1. ASSUME afk.at = "rings"
          PROVE  BufferSent'
      <4>1. BufferSent
        BY <1>1, <1>8, <3>1 DEF AfkInv, PhaseOK, RingsOK, BufferNext, BufferTaken, RingsTold
      <4>2. Ack' = Ack /\ NoRingsIn'
        BY <1>1, <1>4 DEF Ack, NoRingsIn
      <4>3. QED
        BY <1>1, <4>1, <4>2 DEF BufferSent
    <3>2. QED
      BY <1>1, <3>1 DEF RingsOK
  <2>4. UseOK'
    BY <1>1, <1>8 DEF AfkInv, PhaseOK, UseOK, Agreed, Agrees
  <2>5. QED
    BY <2>1, <2>2, <2>3, <2>4 DEF PhaseOK
<1>9. rbepOut' \in Seq(MessagesOut) /\ afkFw' \in Firmwares
  BY <1>1 DEF AfkInv, AfkTypes, Firmwares
<1>10. QED
  BY <1>1, <1>3, <1>8, <1>9, FirmwareOK

LEMMA AfkStep ==
  ASSUME AfkAssumption, AfkInv, [AfkNext]_afkVars
  PROVE  AfkInv'
<1>1. CASE UNCHANGED afkVars
  <2>1. UNCHANGED <<afk, afkPages, rbepIn, rbepOut, afkFw>>
    BY <1>1 DEF afkVars
  <2>2. AfkTypes' /\ PagesOK' /\ ReadyOK' /\ StartedOK'
    BY <2>1 DEF AfkInv, AfkTypes, PagesOK, ReadyOK, StartedOK
  <2>3. InitOK' = InitOK /\ AskOK' = AskOK /\ MapOK' = MapOK
    BY <2>1 DEF InitOK, AskOK, MapOK, RequestLeft, RingsLeft, AskedOrAnswered, Asked, LastIsInit, Answered, NoRings, OneRequest
  <2>4. RingsOK' = RingsOK /\ UseOK' = UseOK
    BY <2>1 DEF RingsOK, UseOK, BufferSent, BufferNext, BufferTaken, RingsTold, BothTold, OneTold, NoRingsIn, Ack, IsRing, Agrees, Agreed
  <2>5. QED
    BY <2>1, <2>2, <2>3, <2>4 DEF AfkInv, PhaseOK
<1>2. CASE AfkNext
  <2>1. CASE NewEndpoint
    BY <2>1, NewEndpointOK
  <2>2. CASE SendMessage
    BY <2>2, SendMessageOK
  <2>3. CASE WaitStep
    BY <2>3, WaitStepOK
  <2>4. CASE WaitTimesOut
    BY <2>4, WaitTimesOutOK
  <2>5. CASE ReceiveGetbuf
    BY <2>5, ReceiveGetbufOK
  <2>6. CASE MapShared
    BY <2>6, MapSharedOK
  <2>7. CASE AnswerGetbuf
    BY <2>7, AnswerGetbufOK
  <2>8. CASE ReceiveRing
    BY <2>8, ReceiveRingOK
  <2>9. CASE DrainRbep
    BY <2>9, DrainRbepOK
  <2>10. CASE Shutdown
    BY <2>10, ShutdownOK
  <2>11. CASE ShutdownWait
    BY <2>11, ShutdownWaitOK
  <2>12. CASE DropUnmapsBuffer
    BY <2>12, DropUnmapsBufferOK
  <2>13. CASE DropFreesBuffer
    BY <2>13, DropFreesBufferOK
  <2>14. ASSUME NEW l \in RingLayouts, NEW t \in BufferTags, FwInit(l, t)
         PROVE  AfkInv'
    BY <2>14, FwInitOK
  <2>15. CASE FwGetsBuffer
    BY <2>15, FwGetsBufferOK
  <2>16. ASSUME NEW r \in RingNames, FwTellsRings(r)
         PROVE  AfkInv'
    BY <2>16, FwTellsRingsOK
  <2>17. CASE FwStarts
    BY <2>17, FwStartsOK
  <2>18. CASE FwShutsDown
    BY <2>18, FwShutsDownOK
  <2>19. CASE FwNotifies
    BY <2>19, FwNotifiesOK
  <2>20. QED
    BY <1>2, <2>1, <2>2, <2>3, <2>4, <2>5, <2>6, <2>7, <2>8, <2>9, <2>10, <2>11, <2>12, <2>13, <2>14, <2>15, <2>16, <2>17,
       <2>18, <2>19 DEF AfkNext
<1>3. QED
  BY <1>1, <1>2

LEMMA AfkInvSound ==
  ASSUME AfkInv
  PROVE  EndpointSound
<1>1. StartedMeansAgreed
  <2>1. ASSUME afk.started, ~afk.mixed
        PROVE  (afkFw.phase = "running" \/ afk.at = "SHUTDOWN_ACK") /\ Agreed
    BY <2>1 DEF AfkInv, StartedOK, PhaseOK, UseOK
  <2>2. QED
    BY <2>1 DEF StartedMeansAgreed, Agreed, Agrees
<1>2. RingsInBuffer
  <2>1. ASSUME NEW r \in RingNames, afk.rings[r].ready
        PROVE  /\ afk.rings[r].off + afk.rings[r].size <= afk.shared.blocks
               /\ afk.at # "dropping" => afk.n \in afkPages.owned \cap afkPages.mapped
    <3>1. /\ afk.at \in (Mapped \ {"answer"}) \cup {"failed", "dropping"}
          /\ afk.shared \in AfkBuffers /\ afk.rings[r].off + afk.rings[r].size <= afk.shared.blocks
      BY <2>1 DEF AfkInv, ReadyOK
    <3>2. afk.at # "dropping" => afkPages = [owned |-> {afk.n}, mapped |-> {afk.n}]
      BY <3>1, SharedIsBuffer DEF AfkInv, PagesOK, Mapped
    <3>3. QED
      BY <3>1, <3>2
  <2>2. QED
    BY <2>1 DEF RingsInBuffer
<1>3. BufferLeavesDeviceFirst
  BY DEF AfkInv, PagesOK, BufferLeavesDeviceFirst
<1>4. QED
  BY <1>1, <1>2, <1>3 DEF EndpointSound

(* The handshake of an AFK endpoint, for any layouts of the rings and any      *)
(* faults: a started endpoint and the firmware use the same rings of the same  *)
(* buffer, unless endpoints before it left both a request and rings behind; a  *)
(* ready ring lies in a buffer that is owned and mapped; and the device loses  *)
(* the buffer before the kernel gets its pages back.                           *)
THEOREM EndpointStaysSound == AfkSpec => []EndpointSound
<1>1. AfkInit => AfkInv
  BY AfkAssumption, AfkInitInv
<1>2. AfkInv /\ [AfkNext]_afkVars => AfkInv'
  BY AfkAssumption, AfkStep
<1>3. AfkInv => EndpointSound
  BY AfkInvSound
<1>4. QED
  BY <1>1, <1>2, <1>3, PTL DEF AfkSpec

------------------------------------------------------------------------------
(* The services over the rings (EpicService).                                  *)
Commands == {"get", "set"}
Requests == [n : Nat \ {0}, ch : EpicChannels, sub : Subtypes]
Calls == [n : Nat \ {0}, ch : EpicChannels, sub : Subtypes, cmd : Commands, at : {"top", "drain"}]
Jobs == [n : Nat \ {0}, cmd : Commands \cup {"none"}, of : Nat, ch : EpicChannels, sub : Subtypes]
Entries == [type : {"notify", "reply"}, kind : {"announce", "service", "answer"}, ch : EpicChannels,
            sub : Subtypes \cup {"none"}, seq : Nat, ok : BOOLEAN, available : Nat, declared : Nat, length : Nat]
Sent == [type : {"ack", "command"}, ch : EpicChannels, sub : Subtypes, seq : Nat]
Contents == [n : Nat, cmd : Commands \cup {"none"}]
Names == [channel : EpicChannels, name : Nat]
EpicTypes ==
  /\ services \in Seq(Names) /\ calls \in Nat /\ gaveUp \in SUBSET Requests
  /\ call = NoCall \/ call \in Calls
  /\ toFw \in Seq(Sent) /\ toAp \in Seq(Entries)
  /\ txBuf \in Contents /\ rxBuf \in Contents
  /\ epicFw \in [job : {NoCommand} \cup Jobs, waits : SUBSET Nat, callbacks : Nat, announced : Seq(Names)]

Both == {"tx", "rx"}
BufferOK ==
  \/ epicBuf = [step |-> "allocTx", owned |-> {}, mapped |-> {}]
  \/ epicBuf = [step |-> "allocRx", owned |-> {"tx"}, mapped |-> {}]
  \/ epicBuf = [step |-> "mapTx", owned |-> Both, mapped |-> {}]
  \/ epicBuf = [step |-> "mapRx", owned |-> Both, mapped |-> {"tx"}]
  \/ epicBuf = [step |-> "ready", owned |-> Both, mapped |-> Both]
  \/ epicBuf = [step |-> "dropping", owned |-> Both, mapped |-> {}]
  \/ epicBuf = [step |-> "dropped", owned |-> {}, mapped |-> {}]
  \/ epicBuf = [step |-> "failed", owned |-> {}, mapped |-> {}]

(* What an entry of the coprocessor may be. *)
KindsOK ==
  \A i \in DOMAIN toAp :
    /\ toAp[i].kind = "service" => toAp[i].type = "notify"
    /\ toAp[i].kind = "answer" => toAp[i].type = "reply" /\ toAp[i].sub \in Subtypes
    /\ toAp[i].type = "reply" => toAp[i].kind # "service"

(* Announcements are numbered as they were made, and the table is behind what  *)
(* is still queued: a name in it is older than one that comes.                 *)
Queued(a) == \E j \in DOMAIN toAp : toAp[j].kind = "announce" /\ toAp[j].seq = a.name /\ toAp[j].ch = a.channel
Registered(a) == \E j \in DOMAIN services : services[j].channel = a.channel /\ services[j].name <= a.name
TableOK ==
  /\ \A i, j \in DOMAIN services : services[i].channel = services[j].channel => i = j
  /\ \A i \in DOMAIN epicFw.announced : Registered(epicFw.announced[i]) \/ Queued(epicFw.announced[i])
NamesOK ==
  /\ \A j \in DOMAIN toAp : toAp[j].kind = "announce" =>
       /\ toAp[j].seq <= epicFw.callbacks
       /\ \A i \in DOMAIN services : services[i].name < toAp[j].seq
       /\ \A i \in DOMAIN toAp : i < j /\ toAp[i].kind = "announce" => toAp[i].seq < toAp[j].seq
  /\ \A i \in DOMAIN services : services[i].name <= epicFw.callbacks

(* A request is in the ring, at work or answered, in this order of numbers,    *)
(* and is the one awaited or of a kind that one was given up of.               *)
IsCommand(i) == i \in DOMAIN toFw /\ toFw[i].type = "command"
IsAnswer(j) == j \in DOMAIN toAp /\ toAp[j].kind = "answer"
Working == epicFw.job # NoCommand
Known(c, G, r) ==
  \/ c # NoCall /\ c.n = r.seq /\ c.ch = r.ch /\ c.sub = r.sub
  \/ \E g \in G : g.ch = r.ch /\ g.sub = r.sub
JobRequest == [seq |-> epicFw.job.n, ch |-> epicFw.job.ch, sub |-> epicFw.job.sub]
CommandsOK ==
  \A i \in DOMAIN toFw : IsCommand(i) =>
    /\ toFw[i].seq \in 1 .. calls /\ Known(call, gaveUp, toFw[i])
    /\ Working => epicFw.job.n < toFw[i].seq
    /\ \A j \in DOMAIN toFw : IsCommand(j) /\ i < j => toFw[i].seq < toFw[j].seq
    /\ \A j \in DOMAIN toAp : IsAnswer(j) => toAp[j].seq < toFw[i].seq
JobOK ==
  Working =>
    /\ epicFw.job.n <= calls /\ epicFw.job.of > 0 /\ Known(call, gaveUp, JobRequest)
    /\ \A j \in DOMAIN toAp : IsAnswer(j) => toAp[j].seq < epicFw.job.n
AnswersOK ==
  \A j \in DOMAIN toAp : IsAnswer(j) =>
    /\ toAp[j].seq \in 1 .. calls /\ Known(call, gaveUp, toAp[j]) /\ rxBuf.n > 0
    /\ \A i \in DOMAIN toAp : IsAnswer(i) /\ i < j => toAp[i].seq < toAp[j].seq

(* Whose command the shared buffers hold. *)
ContentsOK ==
  /\ txBuf.n = calls
  /\ call # NoCall =>
       /\ call.n = calls
       /\ Working /\ epicFw.job.n = call.n => epicFw.job.of = call.n
       /\ \A j \in DOMAIN toAp : IsAnswer(j) /\ toAp[j].seq = call.n => rxBuf.n = call.n

EpicInv == /\ EpicTypes /\ BufferOK /\ KindsOK /\ TableOK /\ NamesOK /\ CommandsOK /\ JobOK /\ AnswersOK
           /\ ContentsOK /\ CallbacksAnswered /\ OwnAnswer

LEMMA EpicInitInv ==
  ASSUME EpicInit
  PROVE  EpicInv
<1>1. EpicTypes
  BY DEF EpicInit, EpicTypes, NoCommand, Contents
<1>2. QED
  BY <1>1 DEF EpicInit, EpicInv, BufferOK, KindsOK, TableOK, NamesOK, CommandsOK, JobOK, AnswersOK, ContentsOK,
     CallbacksAnswered, OwnAnswer, IsAnswer, IsCommand, Working, NoCommand

(* What a record of each kind says of itself. *)
LEMMA EpicFacts ==
  ASSUME EpicTypes
  PROVE  /\ call # NoCall => call \in Calls /\ call.n \in Nat \ {0}
         /\ Working => epicFw.job \in Jobs /\ epicFw.job.n \in Nat \ {0} /\ epicFw.job.of \in Nat
         /\ epicFw.callbacks \in Nat /\ epicFw.waits \in SUBSET Nat /\ epicFw.announced \in Seq(Names)
         /\ \A i \in DOMAIN toFw : i \in Nat /\ toFw[i] \in Sent /\ toFw[i].seq \in Nat
         /\ \A i \in DOMAIN toAp : i \in Nat /\ toAp[i] \in Entries /\ toAp[i].seq \in Nat
         /\ \A i \in DOMAIN services : i \in Nat /\ services[i] \in Names /\ services[i].name \in Nat
         /\ txBuf.n \in Nat /\ rxBuf.n \in Nat
<1>1. call # NoCall => call \in Calls /\ call.n \in Nat \ {0}
  BY DEF EpicTypes, Calls
<1>2. Working => epicFw.job \in Jobs /\ epicFw.job.n \in Nat \ {0} /\ epicFw.job.of \in Nat
  BY DEF EpicTypes, Working, Jobs
<1>3. epicFw.callbacks \in Nat /\ epicFw.waits \in SUBSET Nat /\ epicFw.announced \in Seq(Names)
  BY DEF EpicTypes
<1>4. \A i \in DOMAIN toFw : i \in Nat /\ toFw[i] \in Sent /\ toFw[i].seq \in Nat
  <2>1. \A x \in Sent : x.seq \in Nat
    BY DEF Sent
  <2>2. toFw \in Seq(Sent)
    BY DEF EpicTypes
  <2>3. QED
    BY <2>1, <2>2
<1>5. \A i \in DOMAIN toAp : i \in Nat /\ toAp[i] \in Entries /\ toAp[i].seq \in Nat
  <2>1. \A x \in Entries : x.seq \in Nat
    BY DEF Entries
  <2>2. toAp \in Seq(Entries)
    BY DEF EpicTypes
  <2>3. QED
    BY <2>1, <2>2
<1>6. \A i \in DOMAIN services : i \in Nat /\ services[i] \in Names /\ services[i].name \in Nat
  <2>1. \A x \in Names : x.name \in Nat
    BY DEF Names
  <2>2. services \in Seq(Names)
    BY DEF EpicTypes
  <2>3. QED
    BY <2>1, <2>2
<1>7. txBuf.n \in Nat /\ rxBuf.n \in Nat
  BY DEF EpicTypes, Contents
<1>8. QED
  BY <1>1, <1>2, <1>3, <1>4, <1>5, <1>6, <1>7

------------------------------------------------------------------------------
(* The buffers. *)
LEMMA BuffersStep ==
  ASSUME EpicInv, BufferStep \/ BufferFails \/ DropUnmaps \/ DropFrees
  PROVE  EpicInv'
<1>1. BufferOK'
  <2>1. CASE BufferStep
    <3>1. CASE epicBuf = [step |-> "allocTx", owned |-> {}, mapped |-> {}]
      BY <2>1, <3>1 DEF BufferOK, BufferStep, AllocAfter, Side
    <3>2. CASE epicBuf = [step |-> "allocRx", owned |-> {"tx"}, mapped |-> {}]
      BY <2>1, <3>2 DEF BufferOK, BufferStep, AllocAfter, Side, Both
    <3>3. CASE epicBuf = [step |-> "mapTx", owned |-> Both, mapped |-> {}]
      BY <2>1, <3>3 DEF BufferOK, BufferStep, AllocAfter, Side
    <3>4. CASE epicBuf = [step |-> "mapRx", owned |-> Both, mapped |-> {"tx"}]
      BY <2>1, <3>4 DEF BufferOK, BufferStep, AllocAfter, Side, Both
    <3>5. epicBuf.step \in {"allocTx", "allocRx", "mapTx", "mapRx"}
      BY <2>1 DEF BufferStep, AllocAfter
    <3>6. QED
      BY <3>1, <3>2, <3>3, <3>4, <3>5 DEF EpicInv, BufferOK
  <2>2. CASE BufferFails
    BY <2>2 DEF BufferFails, BufferOK
  <2>3. CASE DropUnmaps
    <3>1. epicBuf = [step |-> "ready", owned |-> Both, mapped |-> Both]
      BY <2>3 DEF DropUnmaps, EpicInv, BufferOK
    <3>2. QED
      BY <2>3, <3>1 DEF DropUnmaps, BufferOK
  <2>4. CASE DropFrees
    <3>1. epicBuf = [step |-> "dropping", owned |-> Both, mapped |-> {}]
      BY <2>4 DEF DropFrees, EpicInv, BufferOK
    <3>2. QED
      BY <2>4, <3>1 DEF DropFrees, BufferOK
  <2>5. QED
    BY <2>1, <2>2, <2>3, <2>4
<1>2. UNCHANGED <<services, call, calls, resultVars, acked, refused, queueVars, txBuf, rxBuf, epicFw>>
  BY DEF BufferStep, BufferFails, DropUnmaps, DropFrees
<1>3. QED
  BY <1>1, <1>2 DEF resultVars, queueVars, EpicInv, EpicTypes, KindsOK, TableOK, NamesOK, CommandsOK, JobOK, AnswersOK,
     ContentsOK, CallbacksAnswered, OwnAnswer, IsAnswer, IsCommand, Working, Known, JobRequest, Queued, Registered

(* A command is sent: it is the newest. *)
LEMMA SendCommandOK ==
  ASSUME EpicInv, EpicAssumption, NEW ch \in EpicChannels, NEW s \in Subtypes, NEW c \in Commands, SendCommand(ch, s, c)
  PROVE  EpicInv'
<1>1. /\ epicBuf' = epicBuf /\ services' = services /\ returned' = returned /\ gaveUp' = gaveUp /\ acked' = acked
      /\ refused' = refused /\ toAp' = toAp /\ rxBuf' = rxBuf /\ epicFw' = epicFw
      /\ call = NoCall /\ calls' = calls + 1 /\ txBuf' = [n |-> calls + 1, cmd |-> c] /\ calls \in Nat
  BY DEF SendCommand, resultVars, EpicInv, EpicTypes
<1>2. BufferOK' /\ KindsOK' /\ TableOK' /\ NamesOK' /\ CallbacksAnswered' /\ OwnAnswer'
  BY <1>1 DEF EpicInv, BufferOK, KindsOK, TableOK, NamesOK, CallbacksAnswered, OwnAnswer, Queued, Registered
<1>3. txBuf' \in Contents /\ txBuf'.n = calls'
  BY <1>1 DEF Contents
<1>4. /\ \A i \in DOMAIN toFw : IsCommand(i) => toFw[i].seq \in 1 .. calls
      /\ \A j \in DOMAIN toAp : IsAnswer(j) => toAp[j].seq \in 1 .. calls
      /\ Working => epicFw.job.n <= calls /\ epicFw.job.n \in Nat
  BY EpicFacts DEF EpicInv, CommandsOK, AnswersOK, JobOK
<1>5. \A r : Known(call, gaveUp, r) => \E g \in gaveUp : g.ch = r.ch /\ g.sub = r.sub
  BY <1>1 DEF Known
<1>6. \A r : (\E g \in gaveUp : g.ch = r.ch /\ g.sub = r.sub) => (\E g \in gaveUp' : g.ch = r.ch /\ g.sub = r.sub)
  BY <1>1
<1>7. CASE UNCHANGED <<toFw, call>>
  <2>1. EpicTypes'
    BY <1>1, <1>3, <1>7 DEF EpicInv, EpicTypes
  <2>2. CommandsOK'
    BY <1>1, <1>4, <1>7 DEF EpicInv, CommandsOK, IsCommand, IsAnswer, Working, Known
  <2>3. JobOK' /\ AnswersOK'
    BY <1>1, <1>4, <1>7 DEF EpicInv, JobOK, AnswersOK, IsAnswer, Working, Known, JobRequest
  <2>4. ContentsOK'
    BY <1>1, <1>3, <1>7 DEF ContentsOK
  <2>5. QED
    BY <1>2, <2>1, <2>2, <2>3, <2>4 DEF EpicInv
<1>8. CASE /\ toFw' = Append(toFw, [type |-> "command", ch |-> ch, sub |-> s, seq |-> calls + 1])
           /\ call' = [n |-> calls + 1, ch |-> ch, sub |-> s, cmd |-> c, at |-> "top"]
  <2> DEFINE x == [type |-> "command", ch |-> ch, sub |-> s, seq |-> calls + 1]
  <2>1. x \in Sent /\ x.seq = calls + 1 /\ x.ch = ch /\ x.sub = s /\ toFw \in Seq(Sent) /\ toFw' = Append(toFw, x)
    BY <1>1, <1>8 DEF Sent, EpicInv, EpicTypes
  <2>2. call' \in Calls /\ call'.n = calls + 1 /\ call'.ch = ch /\ call'.sub = s /\ call' # NoCall
    BY <1>1, <1>8 DEF Calls, NoCall
  <2> HIDE DEF x
  <2>3. EpicTypes'
    BY <1>1, <1>3, <2>1, <2>2, EntryAppended DEF EpicInv, EpicTypes
  <2>4. \A i \in DOMAIN toFw' : i = Len(toFw) + 1 \/ (i \in DOMAIN toFw /\ toFw'[i] = toFw[i] /\ i < Len(toFw) + 1)
    BY <2>1, EntryAppended
  <2>5. toFw'[Len(toFw) + 1] = x /\ Len(toFw) + 1 \in Nat /\ \A i \in DOMAIN toFw : i \in Nat
    BY <2>1, EntryAppended
  <2>6. CommandsOK'
    <3> SUFFICES ASSUME NEW i \in DOMAIN toFw', IsCommand(i)'
                 PROVE  /\ toFw'[i].seq \in 1 .. calls' /\ Known(call', gaveUp', toFw'[i])
                        /\ Working => epicFw.job.n < toFw'[i].seq
                        /\ \A j \in DOMAIN toFw' : IsCommand(j)' /\ i < j => toFw'[i].seq < toFw'[j].seq
                        /\ \A j \in DOMAIN toAp : IsAnswer(j) => toAp[j].seq < toFw'[i].seq
      BY <1>1 DEF CommandsOK, Working, IsAnswer
    <3>1. CASE i = Len(toFw) + 1
      <4>1. toFw'[i].seq \in 1 .. calls' /\ Known(call', gaveUp', toFw'[i])
        BY <1>1, <2>1, <2>2, <2>5, <3>1 DEF Known
      <4>2. Working => epicFw.job.n < toFw'[i].seq
        BY <1>1, <1>4, <2>1, <2>5, <3>1
      <4>3. \A j \in DOMAIN toFw' : ~(i < j)
        BY <2>4, <2>5, <3>1
      <4>4. \A j \in DOMAIN toAp : IsAnswer(j) => toAp[j].seq < toFw'[i].seq
        BY <1>1, <1>4, <2>1, <2>5, <3>1
      <4>5. QED
        BY <4>1, <4>2, <4>3, <4>4
    <3>2. CASE i \in DOMAIN toFw /\ toFw'[i] = toFw[i]
      <4>1. IsCommand(i)
        BY <3>2 DEF IsCommand
      <4>2. toFw[i].seq \in 1 .. calls /\ Known(call, gaveUp, toFw[i])
        BY <4>1, <3>2 DEF EpicInv, CommandsOK
      <4>3. toFw'[i].seq \in 1 .. calls' /\ Known(call', gaveUp', toFw'[i])
        BY <4>2, <3>2, <1>1, <1>5 DEF Known
      <4>4. ASSUME NEW j \in DOMAIN toFw', IsCommand(j)', i < j
            PROVE  toFw'[i].seq < toFw'[j].seq
        <5>1. CASE j = Len(toFw) + 1
          BY <5>1, <2>1, <2>5, <4>2, <3>2, <1>1
        <5>2. CASE j \in DOMAIN toFw /\ toFw'[j] = toFw[j]
          BY <5>2, <4>1, <4>4, <3>2 DEF EpicInv, CommandsOK, IsCommand
        <5>3. QED
          BY <5>1, <5>2, <2>4
      <4>5. QED
        BY <4>1, <4>3, <4>4, <3>2 DEF EpicInv, CommandsOK
    <3>3. QED
      BY <3>1, <3>2, <2>4
  <2>7. JobOK' /\ AnswersOK'
    <3>1. \A r : Known(call, gaveUp, r) => Known(call', gaveUp', r)
      BY <1>5, <1>6 DEF Known
    <3>2. JobOK'
      BY <3>1, <1>1, <1>4 DEF EpicInv, JobOK, IsAnswer, Working, JobRequest, Known
    <3>3. AnswersOK'
      BY <3>1, <1>1, <1>4 DEF EpicInv, AnswersOK, IsAnswer, Known
    <3>4. QED
      BY <3>2, <3>3
  <2>8. ContentsOK'
    BY <1>1, <1>3, <1>4, <2>2 DEF ContentsOK, Working, IsAnswer
  <2>9. QED
    BY <1>2, <2>3, <2>6, <2>7, <2>8 DEF EpicInv
<1>9. QED
  BY <1>7, <1>8 DEF SendCommand

------------------------------------------------------------------------------
(* What was asked for stays in order and known while nothing new is asked,     *)
(* answered or taken.                                                          *)
LEMMA RequestsStay ==
  ASSUME EpicInv, calls' = calls, epicFw'.job = epicFw.job, rxBuf' = rxBuf,
         \/ toAp' = toAp
         \/ toAp # <<>> /\ toAp' = Tail(toAp)
         \/ \E x \in Entries : x.kind # "answer" /\ toAp' = Append(toAp, x),
         \/ toFw' = toFw
         \/ \E x \in Sent : x.type = "ack" /\ toFw' = Append(toFw, x),
         \A i \in DOMAIN toFw : IsCommand(i) => Known(call', gaveUp', toFw[i]),
         Working => Known(call', gaveUp', JobRequest),
         \A j \in DOMAIN toAp : IsAnswer(j) /\ (toAp' # Tail(toAp) \/ j # 1) => Known(call', gaveUp', toAp[j])
  PROVE  CommandsOK' /\ JobOK' /\ AnswersOK'
<1>1. toAp \in Seq(Entries) /\ toFw \in Seq(Sent)
  BY DEF EpicInv, EpicTypes
<1>2. \A i \in DOMAIN toFw' : IsCommand(i)' => i \in DOMAIN toFw /\ IsCommand(i) /\ toFw'[i] = toFw[i]
  <2>1. CASE toFw' = toFw
    BY <2>1 DEF IsCommand
  <2>2. ASSUME NEW x \in Sent, x.type = "ack", toFw' = Append(toFw, x)
        PROVE  \A i \in DOMAIN toFw' : IsCommand(i)' => i \in DOMAIN toFw /\ IsCommand(i) /\ toFw'[i] = toFw[i]
    BY <1>1, <2>2, EntryAppended DEF IsCommand
  <2>3. QED
    BY <2>1, <2>2
<1> DEFINE shift == IF toAp' = Tail(toAp) /\ toAp # <<>> THEN 1 ELSE 0
<1>3. \A j \in DOMAIN toAp' : IsAnswer(j)' =>
        /\ j \in Nat /\ j + shift \in DOMAIN toAp /\ IsAnswer(j + shift) /\ toAp'[j] = toAp[j + shift]
        /\ shift = 1 => j + shift # 1
  <2>1. CASE toAp # <<>> /\ toAp' = Tail(toAp)
    <3>1. shift = 1
      BY <2>1
    <3>2. \A j \in DOMAIN toAp' : j \in Nat /\ j + 1 \in DOMAIN toAp /\ toAp'[j] = toAp[j + 1] /\ 1 < j + 1
      BY <1>1, <2>1, EntryTaken
    <3>3. QED
      BY <3>1, <3>2 DEF IsAnswer
  <2>2. CASE toAp' = toAp /\ ~(toAp # <<>> /\ toAp' = Tail(toAp))
    <3>1. shift = 0
      BY <2>2
    <3>2. \A j \in DOMAIN toAp : j \in Nat /\ j + 0 = j
      BY <1>1
    <3>3. QED
      BY <2>2, <3>1, <3>2 DEF IsAnswer
  <2>3. ASSUME NEW x \in Entries, x.kind # "answer", toAp' = Append(toAp, x), ~(toAp # <<>> /\ toAp' = Tail(toAp))
        PROVE  \A j \in DOMAIN toAp' : IsAnswer(j)' =>
                 /\ j \in Nat /\ j + shift \in DOMAIN toAp /\ IsAnswer(j + shift) /\ toAp'[j] = toAp[j + shift]
                 /\ shift = 1 => j + shift # 1
    <3>1. shift = 0
      BY <2>3
    <3>2. \A j \in DOMAIN toAp' : IsAnswer(j)' => j \in Nat /\ j \in DOMAIN toAp /\ IsAnswer(j) /\ toAp'[j] = toAp[j]
      BY <1>1, <2>3, EntryAppended DEF IsAnswer
    <3>3. \A j \in Nat : j + 0 = j
      OBVIOUS
    <3>4. QED
      BY <3>1, <3>2, <3>3
  <2>4. QED
    BY <2>1, <2>2, <2>3
<1>4. shift \in {0, 1} /\ (shift = 0 => toAp' # Tail(toAp) \/ toAp = <<>>)
  OBVIOUS
<1> HIDE DEF shift
<1>5. \A j \in DOMAIN toAp' : IsAnswer(j)' => Known(call', gaveUp', toAp'[j])
  <2> SUFFICES ASSUME NEW j \in DOMAIN toAp', IsAnswer(j)' PROVE Known(call', gaveUp', toAp'[j])
    OBVIOUS
  <2>1. j + shift \in DOMAIN toAp /\ IsAnswer(j + shift) /\ toAp'[j] = toAp[j + shift]
    BY <1>3
  <2>2. toAp' # Tail(toAp) \/ j + shift # 1
    BY <1>3, <1>4, <2>1
  <2>3. QED
    BY <2>1, <2>2
<1>6. Working' = Working /\ JobRequest' = JobRequest
  BY DEF Working, JobRequest
<1>7. CommandsOK'
  <2> SUFFICES ASSUME NEW i \in DOMAIN toFw', IsCommand(i)'
               PROVE  /\ toFw'[i].seq \in 1 .. calls' /\ Known(call', gaveUp', toFw'[i])
                      /\ Working' => epicFw'.job.n < toFw'[i].seq
                      /\ \A j \in DOMAIN toFw' : IsCommand(j)' /\ i < j => toFw'[i].seq < toFw'[j].seq
                      /\ \A j \in DOMAIN toAp' : IsAnswer(j)' => toAp'[j].seq < toFw'[i].seq
    BY DEF CommandsOK
  <2>1. i \in DOMAIN toFw /\ IsCommand(i) /\ toFw'[i] = toFw[i]
    BY <1>2
  <2>2. /\ toFw[i].seq \in 1 .. calls
        /\ Working => epicFw.job.n < toFw[i].seq
        /\ \A j \in DOMAIN toFw : IsCommand(j) /\ i < j => toFw[i].seq < toFw[j].seq
        /\ \A j \in DOMAIN toAp : IsAnswer(j) => toAp[j].seq < toFw[i].seq
    BY <2>1 DEF EpicInv, CommandsOK
  <2>3. \A j \in DOMAIN toFw' : IsCommand(j)' /\ i < j => toFw'[i].seq < toFw'[j].seq
    BY <2>1, <2>2, <1>2
  <2>4. \A j \in DOMAIN toAp' : IsAnswer(j)' => toAp'[j].seq < toFw'[i].seq
    BY <2>1, <2>2, <1>3
  <2>5. QED
    BY <2>1, <2>2, <2>3, <2>4, <1>6
<1>8. JobOK'
  <2> SUFFICES ASSUME Working'
               PROVE  /\ epicFw'.job.n <= calls' /\ epicFw'.job.of > 0 /\ Known(call', gaveUp', JobRequest')
                      /\ \A j \in DOMAIN toAp' : IsAnswer(j)' => toAp'[j].seq < epicFw'.job.n
    BY DEF JobOK
  <2>1. /\ epicFw.job.n <= calls /\ epicFw.job.of > 0
        /\ \A j \in DOMAIN toAp : IsAnswer(j) => toAp[j].seq < epicFw.job.n
    BY <1>6 DEF EpicInv, JobOK
  <2>2. \A j \in DOMAIN toAp' : IsAnswer(j)' => toAp'[j].seq < epicFw'.job.n
    BY <2>1, <1>3
  <2>3. QED
    BY <2>1, <2>2, <1>6
<1>9. AnswersOK'
  <2> SUFFICES ASSUME NEW j \in DOMAIN toAp', IsAnswer(j)'
               PROVE  /\ toAp'[j].seq \in 1 .. calls' /\ Known(call', gaveUp', toAp'[j]) /\ rxBuf'.n > 0
                      /\ \A i \in DOMAIN toAp' : IsAnswer(i)' /\ i < j => toAp'[i].seq < toAp'[j].seq
    BY DEF AnswersOK
  <2>1. j \in Nat /\ j + shift \in DOMAIN toAp /\ IsAnswer(j + shift) /\ toAp'[j] = toAp[j + shift]
    BY <1>3
  <2>2. /\ toAp[j + shift].seq \in 1 .. calls /\ rxBuf.n > 0
        /\ \A i \in DOMAIN toAp : IsAnswer(i) /\ i < j + shift => toAp[i].seq < toAp[j + shift].seq
    BY <2>1 DEF EpicInv, AnswersOK
  <2>3. ASSUME NEW i \in DOMAIN toAp', IsAnswer(i)', i < j
        PROVE  toAp'[i].seq < toAp'[j].seq
    <3>1. i \in Nat /\ i + shift \in DOMAIN toAp /\ IsAnswer(i + shift) /\ toAp'[i] = toAp[i + shift]
      BY <1>3, <2>3
    <3>2. i + shift < j + shift
      BY <2>1, <2>3, <3>1, <1>4
    <3>3. QED
      BY <2>1, <2>2, <3>1, <3>2
  <2>4. QED
    BY <1>5, <2>1, <2>2, <2>3
<1>10. QED
  BY <1>7, <1>8, <1>9

(* The first entry is taken: an announcement enters the table, if its channel  *)
(* is not there yet, with a name that is younger than all in it.               *)
LEMMA NamesTaken ==
  ASSUME EpicInv, toAp # <<>>, toAp' = Tail(toAp), epicFw' = epicFw,
         \/ toAp[1].kind # "announce" /\ services' = services
         \/ toAp[1].kind = "announce" /\ Announced(toAp[1])
  PROVE  services' \in Seq(Names) /\ KindsOK' /\ TableOK' /\ NamesOK'
<1> DEFINE e == toAp[1]
<1>1. /\ 1 \in DOMAIN toAp /\ e \in Entries
      /\ \A j \in DOMAIN toAp' : j \in Nat /\ j + 1 \in DOMAIN toAp /\ toAp'[j] = toAp[j + 1] /\ 1 < j + 1
      /\ \A j \in DOMAIN toAp : j \in Nat /\ (j = 1 \/ (j - 1 \in DOMAIN toAp' /\ toAp[j] = toAp'[j - 1]))
  <2>1. toAp \in Seq(Entries)
    BY DEF EpicInv, EpicTypes
  <2>2. QED
    BY <2>1, EntryTaken
<1>2. services \in Seq(Names) /\ [channel |-> e.ch, name |-> e.seq] \in Names
  BY <1>1 DEF EpicInv, EpicTypes, Names, Entries
<1> DEFINE n == [channel |-> e.ch, name |-> e.seq]
<1>3. KindsOK'
  BY <1>1 DEF EpicInv, KindsOK
<1>4. \A a : Queued(a) => Queued(a)' \/ (e.kind = "announce" /\ e.seq = a.name /\ e.ch = a.channel)
  <2> SUFFICES ASSUME NEW a, NEW j \in DOMAIN toAp, toAp[j].kind = "announce", toAp[j].seq = a.name, toAp[j].ch = a.channel,
                      j # 1
               PROVE  \E k \in DOMAIN toAp' : toAp'[k].kind = "announce" /\ toAp'[k].seq = a.name /\ toAp'[k].ch = a.channel
    BY DEF Queued
  <2>1. QED
    BY SMTT(20), <1>1
<1>5. CASE services' = services /\ (e.kind = "announce" => \E i \in DOMAIN services : services[i].channel = e.ch)
  <2>1. NamesOK'
    <3>1. \A j \in DOMAIN toAp' : toAp'[j].kind = "announce" =>
            /\ toAp'[j].seq <= epicFw.callbacks
            /\ \A i \in DOMAIN services : services[i].name < toAp'[j].seq
      BY <1>1 DEF EpicInv, NamesOK
    <3>2. ASSUME NEW j \in DOMAIN toAp', toAp'[j].kind = "announce",
                 NEW i \in DOMAIN toAp', i < j, toAp'[i].kind = "announce"
          PROVE  toAp'[i].seq < toAp'[j].seq
      <4>1. i + 1 < j + 1 /\ toAp'[i] = toAp[i + 1] /\ toAp'[j] = toAp[j + 1] /\ i + 1 \in DOMAIN toAp /\ j + 1 \in DOMAIN toAp
        BY <1>1, <3>2
      <4>2. QED
        BY <4>1, <3>2 DEF EpicInv, NamesOK
    <3>3. QED
      BY <3>1, <3>2, <1>5 DEF EpicInv, NamesOK
  <2>2. \A a : Registered(a)' = Registered(a)
    BY <1>5 DEF Registered
  <2>3. ASSUME e.kind = "announce", NEW a, e.seq = a.name, e.ch = a.channel
        PROVE  Registered(a)
    <3>1. PICK i \in DOMAIN services : services[i].channel = e.ch
      BY <1>5, <2>3
    <3>2. services[i].name < e.seq /\ services[i].name \in Nat /\ e.seq \in Nat
      BY <1>1, <2>3, EpicFacts DEF EpicInv, NamesOK
    <3>3. QED
      BY <3>1, <3>2, <2>3 DEF Registered
  <2>4. TableOK'
    <3>1. \A i \in DOMAIN epicFw.announced : Registered(epicFw.announced[i])' \/ Queued(epicFw.announced[i])'
      <4> SUFFICES ASSUME NEW i \in DOMAIN epicFw.announced, NEW a, a = epicFw.announced[i]
                   PROVE  Registered(a) \/ (\E k \in DOMAIN toAp' : toAp'[k].kind = "announce" /\ toAp'[k].seq = a.name
                                                                     /\ toAp'[k].ch = a.channel)
        BY <1>5 DEF Registered, Queued
      <4>1. Registered(a) \/ Queued(a)
        BY DEF EpicInv, TableOK
      <4>2. QED
        BY <4>1, <1>4, <2>3 DEF Queued
    <3>2. QED
      BY <3>1, <1>5 DEF EpicInv, TableOK, Registered, Queued
  <2>5. QED
    BY <1>2, <1>3, <1>5, <2>1, <2>4
<1>6. CASE e.kind = "announce" /\ services' = Append(services, n) /\ ~(\E i \in DOMAIN services : services[i].channel = e.ch)
  <2>1. n \in Names /\ n.channel = e.ch /\ n.name = e.seq
    BY <1>2
  <2> HIDE DEF n
  <2>2. /\ services' \in Seq(Names) /\ Len(services) + 1 \in DOMAIN services' /\ services'[Len(services) + 1] = n
        /\ \A i \in DOMAIN services : i \in DOMAIN services' /\ services'[i] = services[i]
        /\ \A i \in DOMAIN services' : i = Len(services) + 1 \/ i \in DOMAIN services
    BY <1>2, <1>6, <2>1, EntryAppended
  <2>3. \A i \in DOMAIN services' : services'[i].name <= e.seq /\ services'[i].name \in Nat
    BY <1>1, <1>6, <2>1, <2>2, EpicFacts DEF EpicInv, NamesOK
  <2>4. \A j \in DOMAIN toAp' : toAp'[j].kind = "announce" => e.seq < toAp'[j].seq /\ toAp'[j].seq \in Nat
    BY <1>1, <1>6, EpicFacts DEF EpicInv, NamesOK
  <2>5. e.seq \in Nat /\ e.seq <= epicFw.callbacks /\ epicFw.callbacks \in Nat
    BY <1>1, <1>6, EpicFacts DEF EpicInv, NamesOK
  <2>6. NamesOK'
    <3>1. \A j \in DOMAIN toAp' : toAp'[j].kind = "announce" =>
            /\ toAp'[j].seq <= epicFw.callbacks
            /\ \A i \in DOMAIN services' : services'[i].name < toAp'[j].seq
      BY <1>1, <2>3, <2>4, <2>5 DEF EpicInv, NamesOK
    <3>2. ASSUME NEW j \in DOMAIN toAp', toAp'[j].kind = "announce",
                 NEW i \in DOMAIN toAp', i < j, toAp'[i].kind = "announce"
          PROVE  toAp'[i].seq < toAp'[j].seq
      <4>1. i + 1 < j + 1 /\ toAp'[i] = toAp[i + 1] /\ toAp'[j] = toAp[j + 1] /\ i + 1 \in DOMAIN toAp /\ j + 1 \in DOMAIN toAp
        BY <1>1, <3>2
      <4>2. QED
        BY <4>1, <3>2 DEF EpicInv, NamesOK
    <3>3. \A i \in DOMAIN services' : services'[i].name <= epicFw.callbacks
      BY <2>3, <2>5
    <3>4. QED
      BY <3>1, <3>2, <3>3 DEF NamesOK
  <2>7. \A i, j \in DOMAIN services' : services'[i].channel = services'[j].channel => i = j
    BY <1>6, <2>1, <2>2 DEF EpicInv, TableOK
  <2>8. ASSUME NEW i \in DOMAIN epicFw.announced, NEW a, a = epicFw.announced[i]
        PROVE  \/ \E k \in DOMAIN services' : services'[k].channel = a.channel /\ services'[k].name <= a.name
               \/ \E k \in DOMAIN toAp' : toAp'[k].kind = "announce" /\ toAp'[k].seq = a.name /\ toAp'[k].ch = a.channel
    <3>1. CASE Registered(a)
      BY <3>1, <2>2 DEF Registered
    <3>2. CASE Queued(a)
      <4>1. CASE e.seq = a.name /\ e.ch = a.channel
        BY <4>1, <2>1, <2>2, <2>5
      <4>2. CASE ~(e.seq = a.name /\ e.ch = a.channel)
        BY <4>2, <3>2, <1>4 DEF Queued
      <4>3. QED
        BY <4>1, <4>2
    <3>3. QED
      BY <3>1, <3>2, <2>8 DEF EpicInv, TableOK
  <2>9. TableOK'
    BY <2>7, <2>8 DEF TableOK, Registered, Queued
  <2>10. QED
    BY <1>3, <2>2, <2>6, <2>9
<1>7. QED
  BY <1>5, <1>6 DEF Announced

(* The first entry is handled: a callback it may be is answered or refused.    *)
LEMMA CallbackHandled ==
  ASSUME EpicInv, toAp # <<>>, toAp' = Tail(toAp), epicFw' = epicFw, acked \subseteq acked', refused \subseteq refused',
         toAp[1].kind = "service" => toAp[1].seq \in acked' \cup refused'
  PROVE  CallbacksAnswered'
<1>1. \A j \in DOMAIN toAp : j \in Nat /\ (j = 1 \/ (j - 1 \in DOMAIN toAp' /\ toAp[j] = toAp'[j - 1]))
  BY EntryTaken DEF EpicInv, EpicTypes
<1>2. ASSUME NEW w \in epicFw.waits
      PROVE  \/ w \in acked' \cup refused'
             \/ \E j \in DOMAIN toAp' : toAp'[j].kind = "service" /\ w = toAp'[j].seq
  <2>1. w \in acked \cup refused \/ \E j \in DOMAIN toAp : toAp[j].kind = "service" /\ w = toAp[j].seq
    BY DEF EpicInv, CallbacksAnswered
  <2>2. QED
    BY <1>1, <2>1
<1>3. QED
  BY <1>2 DEF CallbacksAnswered

(* Both loops that take entries do so with HandleNotify.                       *)
LEMMA Handled ==
  ASSUME EpicInv, toAp # <<>>, HandleNotify(toAp[1]), toAp[1].type = "notify" \/ IsAnnounce(toAp[1])
  PROVE  /\ acked \subseteq acked' /\ refused \subseteq refused'
         /\ toAp[1].kind = "service" => toAp[1].seq \in acked' \cup refused'
         /\ \/ toAp[1].kind # "announce" /\ services' = services
            \/ toAp[1].kind = "announce" /\ Announced(toAp[1])
         /\ toFw' = toFw \/ \E x \in Sent : x.type = "ack" /\ toFw' = Append(toFw, x)
<1> DEFINE e == toAp[1]
           x == [type |-> "ack", ch |-> e.ch, sub |-> "std", seq |-> e.seq]
<1>1. e \in Entries
  BY EntryTaken DEF EpicInv, EpicTypes
<1>2. x \in Sent /\ x.type = "ack"
  BY <1>1 DEF Entries, Sent, Subtypes
<1> HIDE DEF x
<1>3. CASE e.kind = "announce"
  BY <1>3 DEF HandleNotify
<1>4. CASE e.kind # "announce"
  <2>1. services' = services /\ ServiceCall(e)
    BY <1>4 DEF HandleNotify
  <2>2. CASE toFw' = Append(toFw, x) /\ acked' = acked \cup {e.seq} /\ UNCHANGED refused
    BY <1>2, <1>4, <2>1, <2>2
  <2>3. CASE refused' = refused \cup {e.seq} /\ UNCHANGED <<toFw, acked>>
    BY <1>4, <2>1, <2>3
  <2>4. QED
    BY <2>1, <2>2, <2>3 DEF ServiceCall, x
<1>5. QED
  BY <1>3, <1>4

------------------------------------------------------------------------------
(* The wait. *)
LEMMA WaitGivesUpOK ==
  ASSUME EpicInv, WaitGivesUp
  PROVE  EpicInv'
<1> DEFINE g == [n |-> call.n, ch |-> call.ch, sub |-> call.sub]
<1>1. /\ epicBuf' = epicBuf /\ services' = services /\ calls' = calls /\ returned' = returned /\ acked' = acked
      /\ refused' = refused /\ toFw' = toFw /\ toAp' = toAp /\ txBuf' = txBuf /\ rxBuf' = rxBuf /\ epicFw' = epicFw
      /\ call' = NoCall /\ call # NoCall /\ gaveUp' = gaveUp \cup {g}
  BY DEF WaitGivesUp, queueVars
<1>2. g \in Requests /\ g.ch = call.ch /\ g.sub = call.sub
  BY <1>1 DEF EpicInv, EpicTypes, Calls, Requests
<1> HIDE DEF g
<1>3. \A r : Known(call, gaveUp, r) => Known(call', gaveUp', r)
  BY <1>1, <1>2 DEF Known
<1>4. EpicTypes'
  BY <1>1, <1>2 DEF EpicInv, EpicTypes
<1>5. CommandsOK' /\ JobOK' /\ AnswersOK'
  <2>1. \A i \in DOMAIN toFw : IsCommand(i) => Known(call', gaveUp', toFw[i])
    BY <1>3 DEF EpicInv, CommandsOK
  <2>2. Working => Known(call', gaveUp', JobRequest)
    BY <1>3 DEF EpicInv, JobOK
  <2>3. \A j \in DOMAIN toAp : IsAnswer(j) => Known(call', gaveUp', toAp[j])
    BY <1>3 DEF EpicInv, AnswersOK
  <2>4. QED
    BY <1>1, <2>1, <2>2, <2>3, RequestsStay
<1>6. ContentsOK'
  BY <1>1 DEF EpicInv, ContentsOK
<1>7. QED
  BY <1>1, <1>4, <1>5, <1>6 DEF EpicInv, BufferOK, KindsOK, TableOK, NamesOK, Registered, Queued, CallbacksAnswered, OwnAnswer

LEMMA WaitLooksOK ==
  ASSUME EpicInv, WaitDrains \/ WaitDrained
  PROVE  EpicInv'
<1>1. /\ UNCHANGED <<epicBuf, services, calls, gaveUp, returned, acked, refused, toFw, toAp, txBuf, rxBuf, epicFw>>
      /\ call # NoCall /\ call' \in {[call EXCEPT !.at = "drain"], [call EXCEPT !.at = "top"]}
  BY DEF WaitDrains, WaitDrained, queueVars, resultVars
<1>2. call' \in Calls /\ call' # NoCall /\ call'.n = call.n /\ call'.ch = call.ch /\ call'.sub = call.sub
  BY <1>1 DEF EpicInv, EpicTypes, Calls, NoCall
<1>3. \A r : Known(call, gaveUp, r) => Known(call', gaveUp', r)
  BY <1>1, <1>2 DEF Known
<1>4. EpicTypes'
  BY <1>1, <1>2 DEF EpicInv, EpicTypes
<1>5. CommandsOK' /\ JobOK' /\ AnswersOK'
  <2>1. \A i \in DOMAIN toFw : IsCommand(i) => Known(call', gaveUp', toFw[i])
    BY <1>3 DEF EpicInv, CommandsOK
  <2>2. Working => Known(call', gaveUp', JobRequest)
    BY <1>3 DEF EpicInv, JobOK
  <2>3. \A j \in DOMAIN toAp : IsAnswer(j) => Known(call', gaveUp', toAp[j])
    BY <1>3 DEF EpicInv, AnswersOK
  <2>4. QED
    BY <1>1, <2>1, <2>2, <2>3, RequestsStay
<1>6. ContentsOK'
  BY <1>1, <1>2 DEF EpicInv, ContentsOK, Working, IsAnswer
<1>7. QED
  BY <1>1, <1>4, <1>5, <1>6 DEF EpicInv, BufferOK, KindsOK, TableOK, NamesOK, Registered, Queued, CallbacksAnswered, OwnAnswer

(* The result of a call: the numbers of requests say whose answer it is.       *)
LEMMA ResultIsOwn ==
  ASSUME EpicInv, call # NoCall, toAp # <<>>, IsReply(toAp[1]), NEW r \in Parsed(toAp[1])
  PROVE  r.got.n > 0 /\ (~r.late => r.got.n = r.n) /\ (r.sub = "std" => r.got.cmd = r.cmd)
<1> DEFINE e == toAp[1]
           late == \E g \in gaveUp : g.ch = call.ch /\ g.sub = call.sub
<1>1. 1 \in DOMAIN toAp /\ IsAnswer(1)
  BY EntryTaken DEF EpicInv, EpicTypes, IsReply, IsAnswer
<1>2. Known(call, gaveUp, e) /\ rxBuf.n > 0 /\ (e.seq = call.n => rxBuf.n = call.n)
  BY <1>1 DEF EpicInv, AnswersOK, ContentsOK
<1>3. r = [n |-> call.n, ch |-> call.ch, sub |-> call.sub, cmd |-> call.cmd, got |-> rxBuf, late |-> late]
      /\ (call.sub = "std" => rxBuf.cmd = call.cmd)
  BY DEF Parsed
<1>4. ~late => e.seq = call.n
  BY <1>2 DEF Known, IsReply
<1>5. QED
  BY <1>2, <1>3, <1>4

LEMMA WaitConsumesOK ==
  ASSUME EpicInv, WaitConsumes
  PROVE  EpicInv'
<1> DEFINE e == toAp[1]
<1>1. /\ UNCHANGED <<epicBuf, calls, gaveUp, txBuf, rxBuf, epicFw>> /\ call # NoCall /\ toAp # <<>> /\ toAp' = Tail(toAp)
      /\ Head(toAp) = e /\ 1 \in DOMAIN toAp /\ e \in Entries /\ toAp' \in Seq(Entries)
  BY EntryTaken DEF WaitConsumes, EpicInv, EpicTypes
<1>2. /\ 1 \in DOMAIN toAp
      /\ \A j \in DOMAIN toAp' : j \in Nat /\ j + 1 \in DOMAIN toAp /\ toAp'[j] = toAp[j + 1] /\ 1 < j + 1
      /\ \A j \in DOMAIN toAp : j \in Nat
  BY <1>1, EntryTaken DEF EpicInv, EpicTypes
<1>3. CASE IsReply(e)
  <2>1. returned' = returned \cup Parsed(e) /\ call' = NoCall /\ UNCHANGED <<services, toFw, acked, refused>>
    BY <1>1, <1>3 DEF WaitConsumes
  <2>2. IsAnswer(1) /\ e.ch = call.ch /\ e.sub = call.sub /\ e.kind = "answer"
    BY <1>1, <1>3 DEF IsReply, IsAnswer
  <2>3. Known(call, gaveUp, e)
    BY <2>2, <1>1 DEF EpicInv, AnswersOK
  (* What is left is of another number, or of a kind given up. *)
  <2>4. ASSUME NEW r, Known(call, gaveUp, r), r.seq # e.seq
        PROVE  Known(call', gaveUp', r)
    <3>1. CASE \E g \in gaveUp : g.ch = call.ch /\ g.sub = call.sub
      BY <3>1, <2>4, <1>1 DEF Known
    <3>2. CASE ~(\E g \in gaveUp : g.ch = call.ch /\ g.sub = call.sub)
      <4>1. e.seq = call.n
        BY <3>2, <2>2, <2>3 DEF Known
      <4>2. QED
        BY <4>1, <2>4, <1>1 DEF Known
    <3>3. QED
      BY <3>1, <3>2
  <2>5. /\ \A i \in DOMAIN toFw : IsCommand(i) => toFw[i].seq > e.seq
        /\ Working => epicFw.job.n > e.seq
        /\ \A j \in DOMAIN toAp : IsAnswer(j) /\ j # 1 => toAp[j].seq > e.seq
    <3>1. \A i \in DOMAIN toFw : IsCommand(i) => toFw[i].seq > e.seq
      BY <2>2, <1>1, EpicFacts DEF EpicInv, CommandsOK
    <3>2. Working => epicFw.job.n > e.seq
      BY <2>2, <1>1, EpicFacts DEF EpicInv, JobOK
    <3>3. ASSUME NEW j \in DOMAIN toAp, IsAnswer(j), j # 1
          PROVE  toAp[j].seq > e.seq
      <4>1. 1 < j
        BY <3>3, <1>1 DEF EpicInv, EpicTypes
      <4>2. QED
        BY <4>1, <3>3, <2>2, <1>1, EpicFacts DEF EpicInv, AnswersOK
    <3>4. QED
      BY <3>1, <3>2, <3>3
  <2>6. CommandsOK' /\ JobOK' /\ AnswersOK'
    <3>1. \A i \in DOMAIN toFw : IsCommand(i) => Known(call', gaveUp', toFw[i])
      <4> SUFFICES ASSUME NEW i \in DOMAIN toFw, IsCommand(i) PROVE Known(call', gaveUp', toFw[i])
        OBVIOUS
      <4>1. Known(call, gaveUp, toFw[i]) /\ toFw[i].seq # e.seq
        BY <2>5, <1>1, EpicFacts DEF EpicInv, CommandsOK
      <4>2. QED
        BY <4>1, <2>4
    <3>2. Working => Known(call', gaveUp', JobRequest)
      <4> SUFFICES ASSUME Working PROVE Known(call', gaveUp', JobRequest)
        OBVIOUS
      <4>1. Known(call, gaveUp, JobRequest) /\ JobRequest.seq # e.seq
        BY <2>5, <1>1, EpicFacts DEF EpicInv, JobOK, JobRequest
      <4>2. QED
        BY <4>1, <2>4
    <3>3. \A j \in DOMAIN toAp : IsAnswer(j) /\ j # 1 => Known(call', gaveUp', toAp[j])
      <4> SUFFICES ASSUME NEW j \in DOMAIN toAp, IsAnswer(j), j # 1 PROVE Known(call', gaveUp', toAp[j])
        OBVIOUS
      <4>1. Known(call, gaveUp, toAp[j]) /\ toAp[j].seq # e.seq
        BY <2>5, <1>1, EpicFacts DEF EpicInv, AnswersOK
      <4>2. QED
        BY <4>1, <2>4
    <3>4. QED
      BY <1>1, <2>1, <3>1, <3>2, <3>3, RequestsStay
  <2>7. KindsOK' /\ TableOK' /\ NamesOK' /\ services' \in Seq(Names)
    BY <1>1, <2>1, <2>2, NamesTaken
  <2>8. CallbacksAnswered'
    BY <1>1, <2>1, <2>2, CallbackHandled
  <2>9. OwnAnswer'
    BY <1>1, <1>3, <2>1, ResultIsOwn DEF EpicInv, OwnAnswer
  <2>10. EpicTypes' /\ BufferOK' /\ ContentsOK'
    BY <1>1, <2>1, <2>7 DEF EpicInv, EpicTypes, BufferOK, ContentsOK
  <2>11. QED
    BY <2>6, <2>7, <2>8, <2>9, <2>10 DEF EpicInv
<1>4. CASE ~IsReply(e)
  <2>1. /\ returned' = returned /\ call' = call
        /\ IF e.type = "notify" \/ IsAnnounce(e) THEN HandleNotify(e) ELSE UNCHANGED <<services, toFw, acked, refused>>
    BY <1>1, <1>4 DEF WaitConsumes
  <2>2. /\ acked \subseteq acked' /\ refused \subseteq refused'
        /\ e.kind = "service" => e.seq \in acked' \cup refused'
        /\ \/ e.kind # "announce" /\ services' = services
           \/ e.kind = "announce" /\ Announced(e)
        /\ toFw' = toFw \/ \E x \in Sent : x.type = "ack" /\ toFw' = Append(toFw, x)
    <3>1. CASE e.type = "notify" \/ IsAnnounce(e)
      BY <3>1, <2>1, <1>1, Handled
    <3>2. CASE ~(e.type = "notify" \/ IsAnnounce(e))
      BY <3>2, <2>1, <1>1 DEF EpicInv, KindsOK, IsAnnounce
    <3>3. QED
      BY <3>1, <3>2
  <2>3. KindsOK' /\ TableOK' /\ NamesOK' /\ services' \in Seq(Names)
    BY <1>1, <2>2, NamesTaken
  <2>4. CallbacksAnswered'
    BY <1>1, <2>2, CallbackHandled
  <2>5. CommandsOK' /\ JobOK' /\ AnswersOK'
    <3>1. /\ \A i \in DOMAIN toFw : IsCommand(i) => Known(call', gaveUp', toFw[i])
          /\ Working => Known(call', gaveUp', JobRequest)
          /\ \A j \in DOMAIN toAp : IsAnswer(j) => Known(call', gaveUp', toAp[j])
      BY <1>1, <2>1 DEF EpicInv, CommandsOK, JobOK, AnswersOK
    <3>2. QED
      BY <1>1, <2>2, <3>1, RequestsStay
  <2>6. toFw' \in Seq(Sent)
    <3>1. toFw \in Seq(Sent)
      BY DEF EpicInv, EpicTypes
    <3>2. \A x \in Sent : Append(toFw, x) \in Seq(Sent)
      BY <3>1, EntryAppended
    <3>3. QED
      BY <2>2, <3>1, <3>2
  <2>7. EpicTypes' /\ BufferOK' /\ OwnAnswer'
    BY <1>1, <2>1, <2>3, <2>6 DEF EpicInv, EpicTypes, BufferOK, OwnAnswer
  <2>8. ContentsOK'
    BY <1>1, <1>2, <2>1 DEF EpicInv, ContentsOK, Working, IsAnswer
  <2>9. QED
    BY <2>3, <2>4, <2>5, <2>7, <2>8 DEF EpicInv
<1>5. QED
  BY <1>3, <1>4

LEMMA PollOK ==
  ASSUME EpicInv, Poll
  PROVE  EpicInv'
<1> DEFINE e == toAp[1]
<1>1. /\ UNCHANGED <<epicBuf, call, calls, returned, gaveUp, txBuf, rxBuf, epicFw>> /\ call = NoCall
      /\ toAp # <<>> /\ toAp' = Tail(toAp) /\ Head(toAp) = e /\ e \in Entries /\ toAp' \in Seq(Entries) /\ 1 \in DOMAIN toAp
  BY EntryTaken DEF Poll, EpicInv, EpicTypes, resultVars
<1>2. /\ acked \subseteq acked' /\ refused \subseteq refused'
      /\ e.kind = "service" => e.seq \in acked' \cup refused'
      /\ \/ e.kind # "announce" /\ services' = services
         \/ e.kind = "announce" /\ Announced(e)
      /\ toFw' = toFw \/ \E x \in Sent : x.type = "ack" /\ toFw' = Append(toFw, x)
  <2>1. CASE e.type = "notify" \/ IsAnnounce(e)
    BY <2>1, <1>1, Handled DEF Poll
  <2>2. CASE ~(e.type = "notify" \/ IsAnnounce(e))
    <3> DEFINE x == [type |-> "ack", ch |-> e.ch, sub |-> e.sub, seq |-> 0]
    <3>1. UNCHANGED <<services, acked, refused>> /\ (toFw' = toFw \/ toFw' = Append(toFw, x))
      BY <2>2, <1>1 DEF Poll
    <3>2. e.kind = "answer" /\ e.sub \in Subtypes
      BY <2>2, <1>1 DEF EpicInv, KindsOK, IsAnnounce, Entries
    <3>3. x \in Sent /\ x.type = "ack"
      BY <1>1, <3>2 DEF Entries, Sent
    <3> HIDE DEF x
    <3>4. QED
      BY <3>1, <3>2, <3>3
  <2>3. QED
    BY <2>1, <2>2
<1>3. KindsOK' /\ TableOK' /\ NamesOK' /\ services' \in Seq(Names)
  BY <1>1, <1>2, NamesTaken
<1>4. CallbacksAnswered'
  BY <1>1, <1>2, CallbackHandled
<1>5. CommandsOK' /\ JobOK' /\ AnswersOK'
  <2>1. /\ \A i \in DOMAIN toFw : IsCommand(i) => Known(call', gaveUp', toFw[i])
        /\ Working => Known(call', gaveUp', JobRequest)
        /\ \A j \in DOMAIN toAp : IsAnswer(j) => Known(call', gaveUp', toAp[j])
    BY <1>1 DEF EpicInv, CommandsOK, JobOK, AnswersOK
  <2>2. QED
    BY <1>1, <1>2, <2>1, RequestsStay
<1>6. toFw' \in Seq(Sent)
  <2>1. toFw \in Seq(Sent)
    BY DEF EpicInv, EpicTypes
  <2>2. \A x \in Sent : Append(toFw, x) \in Seq(Sent)
    BY <2>1, EntryAppended
  <2>3. QED
    BY <1>2, <2>1, <2>2
<1>7. EpicTypes' /\ BufferOK' /\ OwnAnswer' /\ ContentsOK'
  BY <1>1, <1>3, <1>6 DEF EpicInv, EpicTypes, BufferOK, OwnAnswer, ContentsOK
<1>8. QED
  BY <1>3, <1>4, <1>5, <1>7 DEF EpicInv

------------------------------------------------------------------------------
(* The coprocessor. *)
LEMMA EntryQueued ==
  ASSUME EpicInv, NEW x \in Entries, toAp' = Append(toAp, x), x.kind # "answer",
         x.kind = "service" <=> x.type = "notify" /\ x.kind # "announce", x.seq = epicFw.callbacks + 1,
         UNCHANGED <<services, call, calls, gaveUp, toFw, txBuf, rxBuf>>,
         epicFw'.job = epicFw.job, epicFw'.callbacks = epicFw.callbacks + 1,
         \/ x.kind # "announce" /\ epicFw'.announced = epicFw.announced
         \/ x.kind = "announce" /\ epicFw'.announced = Append(epicFw.announced, [channel |-> x.ch, name |-> x.seq])
  PROVE  /\ toAp' \in Seq(Entries) /\ epicFw'.announced \in Seq(Names)
         /\ KindsOK' /\ TableOK' /\ NamesOK' /\ CommandsOK' /\ JobOK' /\ AnswersOK' /\ ContentsOK'
<1>1. /\ toAp' \in Seq(Entries) /\ Len(toAp) + 1 \in DOMAIN toAp' /\ toAp'[Len(toAp) + 1] = x /\ Len(toAp) + 1 \in Nat
      /\ \A i \in DOMAIN toAp : i \in DOMAIN toAp' /\ toAp'[i] = toAp[i] /\ i < Len(toAp) + 1 /\ i \in Nat
      /\ \A i \in DOMAIN toAp' : i = Len(toAp) + 1 \/ i \in DOMAIN toAp
  BY EntryAppended DEF EpicInv, EpicTypes
<1>2. epicFw.callbacks \in Nat /\ epicFw.announced \in Seq(Names)
  BY EpicFacts DEF EpicInv
<1>3. KindsOK'
  <2>1. x.kind = "service" => x.type = "notify"
    OBVIOUS
  <2>2. x.type = "reply" => x.kind # "service"
    OBVIOUS
  <2>3. QED
    BY <1>1, <2>1, <2>2 DEF EpicInv, KindsOK
<1>4. NamesOK'
  <2>1. \A j \in DOMAIN toAp' : toAp'[j].kind = "announce" => toAp'[j].seq <= epicFw'.callbacks
    BY <1>1, <1>2, EpicFacts DEF EpicInv, NamesOK
  <2>2. \A i \in DOMAIN services : services[i].name <= epicFw.callbacks /\ services[i].name < epicFw.callbacks + 1
    BY <1>2, EpicFacts DEF EpicInv, NamesOK
  <2>3. \A j \in DOMAIN toAp' : toAp'[j].kind = "announce" => \A i \in DOMAIN services : services[i].name < toAp'[j].seq
    BY <1>1, <2>2 DEF EpicInv, NamesOK
  <2>4. ASSUME NEW j \in DOMAIN toAp', toAp'[j].kind = "announce",
               NEW i \in DOMAIN toAp', i < j, toAp'[i].kind = "announce"
        PROVE  toAp'[i].seq < toAp'[j].seq
    <3>1. i \in DOMAIN toAp /\ toAp'[i] = toAp[i]
      BY <1>1, <2>4
    <3>2. CASE j \in DOMAIN toAp
      BY <1>1, <3>1, <3>2, <2>4 DEF EpicInv, NamesOK
    <3>3. CASE j = Len(toAp) + 1
      BY <1>1, <1>2, <3>1, <3>3, <2>4, EpicFacts DEF EpicInv, NamesOK
    <3>4. QED
      BY <1>1, <3>2, <3>3
  <2>5. \A i \in DOMAIN services' : services'[i].name <= epicFw'.callbacks
    BY <2>2, <1>2, EpicFacts DEF EpicInv
  <2>6. QED
    BY <2>1, <2>3, <2>4, <2>5 DEF NamesOK
<1>5. \A a : Queued(a) => Queued(a)'
  BY <1>1 DEF Queued
<1>6. \A a : Registered(a)' = Registered(a)
  BY DEF Registered
<1>7. epicFw'.announced \in Seq(Names) /\ TableOK'
  <2>1. CASE x.kind # "announce" /\ epicFw'.announced = epicFw.announced
    <3>1. \A i \in DOMAIN epicFw.announced :
            \/ \E j \in DOMAIN services : services[j].channel = epicFw.announced[i].channel
                                          /\ services[j].name <= epicFw.announced[i].name
            \/ \E j \in DOMAIN toAp' : toAp'[j].kind = "announce" /\ toAp'[j].seq = epicFw.announced[i].name
                                       /\ toAp'[j].ch = epicFw.announced[i].channel
      BY SMTT(20), <1>1 DEF EpicInv, TableOK, Registered, Queued
    <3>2. QED
      BY <1>2, <2>1, <3>1 DEF EpicInv, TableOK, Registered, Queued
  <2>2. CASE x.kind = "announce" /\ epicFw'.announced = Append(epicFw.announced, [channel |-> x.ch, name |-> x.seq])
    <3> DEFINE n == [channel |-> x.ch, name |-> x.seq]
    <3>1. n \in Names /\ n.channel = x.ch /\ n.name = x.seq
      BY DEF Entries, Names
    <3> HIDE DEF n
    <3>2. /\ epicFw'.announced \in Seq(Names)
          /\ \A i \in DOMAIN epicFw'.announced :
               \/ epicFw'.announced[i] = n
               \/ i \in DOMAIN epicFw.announced /\ epicFw'.announced[i] = epicFw.announced[i]
      BY <1>2, <2>2, <3>1, EntryAppended DEF n
    <3>3. \A i \in DOMAIN epicFw'.announced :
            \/ \E j \in DOMAIN services : services[j].channel = epicFw'.announced[i].channel
                                          /\ services[j].name <= epicFw'.announced[i].name
            \/ \E j \in DOMAIN toAp' : toAp'[j].kind = "announce" /\ toAp'[j].seq = epicFw'.announced[i].name
                                       /\ toAp'[j].ch = epicFw'.announced[i].channel
      <4> SUFFICES ASSUME NEW i \in DOMAIN epicFw'.announced, NEW a, a = epicFw'.announced[i]
                   PROVE  \/ \E j \in DOMAIN services : services[j].channel = a.channel /\ services[j].name <= a.name
                          \/ \E j \in DOMAIN toAp' : toAp'[j].kind = "announce" /\ toAp'[j].seq = a.name /\ toAp'[j].ch = a.channel
        OBVIOUS
      <4>1. CASE a = n
        BY <4>1, <3>1, <1>1, <2>2
      <4>2. CASE i \in DOMAIN epicFw.announced /\ a = epicFw.announced[i]
        <5>1. Registered(a) \/ Queued(a)
          BY <4>2 DEF EpicInv, TableOK
        <5>2. QED
          BY <5>1, <1>1 DEF Registered, Queued
      <4>3. QED
        BY <3>2, <4>1, <4>2
    <3>4. QED
      BY <3>2, <3>3 DEF EpicInv, TableOK, Registered, Queued
  <2>3. QED
    BY <2>1, <2>2
<1>8. CommandsOK' /\ JobOK' /\ AnswersOK'
  <2>1. /\ \A i \in DOMAIN toFw : IsCommand(i) => Known(call', gaveUp', toFw[i])
        /\ Working => Known(call', gaveUp', JobRequest)
        /\ \A j \in DOMAIN toAp : IsAnswer(j) => Known(call', gaveUp', toAp[j])
    BY DEF EpicInv, CommandsOK, JobOK, AnswersOK
  <2>2. QED
    BY <2>1, RequestsStay
<1>9. ContentsOK'
  BY <1>1 DEF EpicInv, ContentsOK, Working, IsAnswer
<1>10. QED
  BY <1>1, <1>3, <1>4, <1>7, <1>8, <1>9

LEMMA FwAnnouncesOK ==
  ASSUME EpicInv, NEW ch \in EpicChannels, NEW t \in {"notify", "reply"}, FwAnnounces(ch, t)
  PROVE  EpicInv'
<1> DEFINE x == Entry(t, "announce", ch, "none", epicFw.callbacks + 1)
<1>1. PICK f : f = [epicFw EXCEPT !.callbacks = @ + 1,
                                  !.announced = Append(@, [channel |-> ch, name |-> epicFw.callbacks + 1])]
  OBVIOUS
<1>2. /\ toAp' = Append(toAp, x) /\ epicFw' = f
      /\ UNCHANGED <<epicBuf, services, call, calls, returned, gaveUp, acked, refused, toFw, txBuf, rxBuf>>
  BY <1>1 DEF FwAnnounces, resultVars
<1>3. epicFw.callbacks \in Nat /\ epicFw.waits \in SUBSET Nat
  BY EpicFacts DEF EpicInv
<1>4. x \in Entries /\ x.kind = "announce" /\ x.type = t /\ x.ch = ch /\ x.seq = epicFw.callbacks + 1
  BY <1>3 DEF Entry, Entries
<1>5. /\ f.job = epicFw.job /\ f.callbacks = epicFw.callbacks + 1 /\ f.waits = epicFw.waits
      /\ f.announced = Append(epicFw.announced, [channel |-> ch, name |-> epicFw.callbacks + 1])
      /\ f = [job |-> f.job, waits |-> f.waits, callbacks |-> f.callbacks, announced |-> f.announced]
  BY <1>1 DEF EpicInv, EpicTypes
<1> HIDE DEF x
<1>6. /\ toAp' \in Seq(Entries) /\ epicFw'.announced \in Seq(Names)
      /\ KindsOK' /\ TableOK' /\ NamesOK' /\ CommandsOK' /\ JobOK' /\ AnswersOK' /\ ContentsOK'
  BY <1>2, <1>4, <1>5, EntryQueued
<1>7. epicFw' \in [job : {NoCommand} \cup Jobs, waits : SUBSET Nat, callbacks : Nat, announced : Seq(Names)]
  <2>1. epicFw.job \in {NoCommand} \cup Jobs
    BY DEF EpicInv, EpicTypes
  <2>2. epicFw'.waits \in SUBSET Nat /\ epicFw'.callbacks \in Nat
    BY <1>2, <1>3, <1>5, <1>6
  <2>3. QED
    BY <1>2, <1>3, <1>5, <1>6, <2>1, <2>2
<1>8. EpicTypes' /\ BufferOK' /\ OwnAnswer'
  BY <1>2, <1>6, <1>7 DEF EpicInv, EpicTypes, BufferOK, OwnAnswer
<1>9. CallbacksAnswered'
  <2>1. \A i \in DOMAIN toAp : i \in DOMAIN toAp' /\ toAp'[i] = toAp[i]
    BY <1>2, <1>4, EntryAppended DEF EpicInv, EpicTypes
  <2>2. QED
    BY <1>2, <1>5, <2>1 DEF EpicInv, CallbacksAnswered
<1>10. QED
  BY <1>6, <1>8, <1>9 DEF EpicInv

LEMMA FwCallsBackOK ==
  ASSUME EpicInv, EpicAssumption, NEW ch \in EpicChannels, NEW shape \in CallShapes, FwCallsBack(ch, shape)
  PROVE  EpicInv'
<1>1. PICK x : x = [Entry("notify", "service", ch, "std", epicFw.callbacks + 1)
                      EXCEPT !.available = shape[1], !.declared = shape[2], !.length = shape[3]]
  OBVIOUS
<1>2. PICK f : f = [epicFw EXCEPT !.callbacks = @ + 1, !.waits = @ \cup {epicFw.callbacks + 1}]
  OBVIOUS
<1>3. /\ toAp' = Append(toAp, x) /\ epicFw' = f
      /\ UNCHANGED <<epicBuf, services, call, calls, returned, gaveUp, acked, refused, toFw, txBuf, rxBuf>>
  BY <1>1, <1>2 DEF FwCallsBack, resultVars
<1>4. epicFw.callbacks \in Nat /\ epicFw.waits \in SUBSET Nat
  BY EpicFacts DEF EpicInv
<1>5. shape[1] \in Nat /\ shape[2] \in Nat /\ shape[3] \in Nat
  BY DEF EpicAssumption
<1>6. x \in Entries /\ x.kind = "service" /\ x.type = "notify" /\ x.ch = ch /\ x.seq = epicFw.callbacks + 1
  <2>1. x = [type |-> "notify", kind |-> "service", ch |-> ch, sub |-> "std", seq |-> epicFw.callbacks + 1, ok |-> TRUE,
             available |-> shape[1], declared |-> shape[2], length |-> shape[3]]
    BY <1>1 DEF Entry
  <2>2. x.kind = "service" /\ x.type = "notify" /\ x.ch = ch /\ x.seq = epicFw.callbacks + 1
    BY ONLY <2>1
  <2>3. x \in Entries
    <3>1. ch \in EpicChannels /\ epicFw.callbacks + 1 \in Nat
      BY <1>4
    <3>2. QED
      BY ONLY <1>5, <2>1, <3>1 DEF Entries, Subtypes
  <2>4. QED
    BY ONLY <2>2, <2>3
<1>7. /\ f.job = epicFw.job /\ f.callbacks = epicFw.callbacks + 1 /\ f.waits = epicFw.waits \cup {epicFw.callbacks + 1}
      /\ f.announced = epicFw.announced
      /\ f = [job |-> f.job, waits |-> f.waits, callbacks |-> f.callbacks, announced |-> f.announced]
  BY <1>2 DEF EpicInv, EpicTypes
<1>8. /\ toAp' \in Seq(Entries) /\ epicFw'.announced \in Seq(Names)
      /\ KindsOK' /\ TableOK' /\ NamesOK' /\ CommandsOK' /\ JobOK' /\ AnswersOK' /\ ContentsOK'
  BY <1>3, <1>6, <1>7, EntryQueued
<1>9. epicFw' \in [job : {NoCommand} \cup Jobs, waits : SUBSET Nat, callbacks : Nat, announced : Seq(Names)]
  <2>1. epicFw.job \in {NoCommand} \cup Jobs
    BY DEF EpicInv, EpicTypes
  <2>2. epicFw'.waits \in SUBSET Nat /\ epicFw'.callbacks \in Nat
    BY ONLY <1>3, <1>4, <1>7
  <2>3. f.job \in {NoCommand} \cup Jobs /\ f.waits \in SUBSET Nat /\ f.callbacks \in Nat /\ f.announced \in Seq(Names)
    BY ONLY <1>3, <1>7, <1>8, <2>1, <2>2
  <2>4. [job |-> f.job, waits |-> f.waits, callbacks |-> f.callbacks, announced |-> f.announced]
          \in [job : {NoCommand} \cup Jobs, waits : SUBSET Nat, callbacks : Nat, announced : Seq(Names)]
    BY ONLY <2>3
  <2>5. epicFw' = [job |-> f.job, waits |-> f.waits, callbacks |-> f.callbacks, announced |-> f.announced]
    BY ONLY <1>3, <1>7
  <2>6. QED
    BY ONLY <2>4, <2>5
<1>10. EpicTypes' /\ BufferOK' /\ OwnAnswer'
  BY <1>3, <1>8, <1>9 DEF EpicInv, EpicTypes, BufferOK, OwnAnswer
<1>11. CallbacksAnswered'
  <2>1. /\ \A i \in DOMAIN toAp : i \in DOMAIN toAp' /\ toAp'[i] = toAp[i]
        /\ Len(toAp) + 1 \in DOMAIN toAp' /\ toAp'[Len(toAp) + 1] = x
    <3>1. toAp \in Seq(Entries)
      BY DEF EpicInv, EpicTypes
    <3>2. toAp' = Append(toAp, x)
      BY ONLY <1>3
    <3>3. x \in Entries
      BY ONLY <1>6
    <3>4. QED
      BY ONLY <3>1, <3>2, <3>3, EntryAppended
  <2>2. UNCHANGED <<acked, refused>> /\ epicFw'.waits = epicFw.waits \cup {epicFw.callbacks + 1}
    BY ONLY <1>3, <1>7
  <2>3. x.kind = "service" /\ x.seq = epicFw.callbacks + 1
    BY ONLY <1>6
  <2>4. CallbacksAnswered
    BY DEF EpicInv
  <2>5. \A w \in epicFw.waits : w \in acked \cup refused \/ \E i \in DOMAIN toAp : toAp[i].kind = "service" /\ toAp[i].seq = w
    BY ONLY <2>4 DEF CallbacksAnswered
  <2>6. \A w \in epicFw'.waits :
          w \in acked \cup refused \/ \E i \in DOMAIN toAp' : toAp'[i].kind = "service" /\ toAp'[i].seq = w
    BY ONLY <2>1, <2>2, <2>3, <2>5
  <2>7. QED
    BY ONLY <2>2, <2>6 DEF CallbacksAnswered
<1>12. QED
  BY <1>8, <1>10, <1>11 DEF EpicInv

LEMMA FwTakesOK ==
  ASSUME EpicInv, FwTakes
  PROVE  EpicInv'
<1> DEFINE e == toFw[1]
<1>1. /\ UNCHANGED <<epicBuf, services, call, calls, returned, gaveUp, acked, refused, toAp, txBuf, rxBuf>>
      /\ toFw # <<>> /\ toFw' = Tail(toFw) /\ Head(toFw) = e /\ e \in Sent /\ toFw' \in Seq(Sent) /\ 1 \in DOMAIN toFw
  BY EntryTaken DEF FwTakes, EpicInv, EpicTypes, resultVars
<1>2. \A i \in DOMAIN toFw' : i \in Nat /\ i + 1 \in DOMAIN toFw /\ toFw'[i] = toFw[i + 1] /\ 1 < i + 1
  BY <1>1, EntryTaken DEF EpicInv, EpicTypes
<1>3. BufferOK' /\ KindsOK' /\ OwnAnswer'
  BY <1>1 DEF EpicInv, BufferOK, KindsOK, OwnAnswer
<1>4. ASSUME NEW i \in DOMAIN toFw', IsCommand(i)'
      PROVE  /\ toFw'[i].seq \in 1 .. calls /\ Known(call, gaveUp, toFw'[i])
             /\ \A j \in DOMAIN toFw' : IsCommand(j)' /\ i < j => toFw'[i].seq < toFw'[j].seq
             /\ \A j \in DOMAIN toAp : IsAnswer(j) => toAp[j].seq < toFw'[i].seq
             /\ Working => epicFw.job.n < toFw'[i].seq
             /\ IsCommand(1) => e.seq < toFw'[i].seq
  <2>1. i + 1 \in DOMAIN toFw /\ IsCommand(i + 1) /\ toFw'[i] = toFw[i + 1] /\ i \in Nat /\ 1 < i + 1
    BY <1>2, <1>4 DEF IsCommand
  <2>2. /\ toFw[i + 1].seq \in 1 .. calls /\ Known(call, gaveUp, toFw[i + 1])
        /\ Working => epicFw.job.n < toFw[i + 1].seq
        /\ \A j \in DOMAIN toFw : IsCommand(j) /\ i + 1 < j => toFw[i + 1].seq < toFw[j].seq
        /\ \A j \in DOMAIN toAp : IsAnswer(j) => toAp[j].seq < toFw[i + 1].seq
    BY <2>1 DEF EpicInv, CommandsOK
  <2>3. ASSUME NEW j \in DOMAIN toFw', IsCommand(j)', i < j
        PROVE  toFw'[i].seq < toFw'[j].seq
    <3>1. j + 1 \in DOMAIN toFw /\ IsCommand(j + 1) /\ toFw'[j] = toFw[j + 1] /\ i + 1 < j + 1
      BY <1>2, <2>1, <2>3 DEF IsCommand
    <3>2. QED
      BY <2>1, <2>2, <3>1
  <2>4. IsCommand(1) => e.seq < toFw[i + 1].seq
    BY <2>1, <1>1 DEF EpicInv, CommandsOK
  <2>5. QED
    BY <2>1, <2>2, <2>3, <2>4
<1>5. CASE e.type = "ack" /\ epicFw' = [epicFw EXCEPT !.waits = @ \ {e.seq}]
  <2>1. /\ epicFw'.job = epicFw.job /\ epicFw'.callbacks = epicFw.callbacks /\ epicFw'.announced = epicFw.announced
        /\ epicFw'.waits \subseteq epicFw.waits
        /\ epicFw' \in [job : {NoCommand} \cup Jobs, waits : SUBSET Nat, callbacks : Nat, announced : Seq(Names)]
    BY <1>5 DEF EpicInv, EpicTypes
  <2>2. EpicTypes'
    BY <1>1, <2>1 DEF EpicInv, EpicTypes
  <2>3. TableOK' /\ NamesOK' /\ CallbacksAnswered'
    BY <1>1, <2>1 DEF EpicInv, TableOK, NamesOK, CallbacksAnswered, Registered, Queued
  <2>4. CommandsOK'
    BY <1>1, <1>4, <2>1 DEF CommandsOK, Working, IsAnswer
  <2>5. JobOK' /\ AnswersOK' /\ ContentsOK'
    BY <1>1, <2>1 DEF EpicInv, JobOK, AnswersOK, ContentsOK, Working, IsAnswer, JobRequest
  <2>6. QED
    BY <1>3, <2>2, <2>3, <2>4, <2>5 DEF EpicInv
<1>6. CASE /\ e.type = "command" /\ epicFw.job = NoCommand
           /\ epicFw' = [epicFw EXCEPT !.job = [n |-> e.seq, cmd |-> txBuf.cmd, of |-> txBuf.n, ch |-> e.ch, sub |-> e.sub]]
  <2>1. PICK q : q = [n |-> e.seq, cmd |-> txBuf.cmd, of |-> txBuf.n, ch |-> e.ch, sub |-> e.sub]
    OBVIOUS
  <2>2. IsCommand(1)
    BY <1>1, <1>6 DEF IsCommand
  <2>3. /\ e.seq \in 1 .. calls /\ calls \in Nat /\ Known(call, gaveUp, e)
        /\ \A j \in DOMAIN toAp : IsAnswer(j) => toAp[j].seq < e.seq
    BY <1>1, <2>2 DEF EpicInv, EpicTypes, CommandsOK
  <2>4. q \in Jobs /\ q.n = e.seq /\ q.of = txBuf.n /\ q.ch = e.ch /\ q.sub = e.sub /\ q # NoCommand
    <3>1. txBuf.cmd \in Commands \cup {"none"} /\ txBuf.n \in Nat /\ e.ch \in EpicChannels /\ e.sub \in Subtypes
      BY <1>1 DEF EpicInv, EpicTypes, Contents, Sent
    <3>2. QED
      BY <2>1, <2>3, <3>1 DEF Jobs, NoCommand
  <2>5. /\ epicFw'.job = q /\ epicFw'.callbacks = epicFw.callbacks /\ epicFw'.announced = epicFw.announced
        /\ epicFw'.waits = epicFw.waits
    BY <1>6, <2>1 DEF EpicInv, EpicTypes
  <2>6. epicFw' \in [job : {NoCommand} \cup Jobs, waits : SUBSET Nat, callbacks : Nat, announced : Seq(Names)]
    BY <1>6, <2>1, <2>4 DEF EpicInv, EpicTypes
  <2>7. EpicTypes'
    BY <1>1, <2>6 DEF EpicInv, EpicTypes
  <2>8. TableOK' /\ NamesOK' /\ CallbacksAnswered'
    BY <1>1, <2>5 DEF EpicInv, TableOK, NamesOK, CallbacksAnswered, Registered, Queued
  <2>9. CommandsOK'
    BY <1>1, <1>4, <2>2, <2>4, <2>5 DEF CommandsOK, Working, IsAnswer
  <2>10. txBuf.n = calls
    BY DEF EpicInv, ContentsOK
  <2>11. JobOK'
    <3>1. JobRequest'.seq = e.seq /\ JobRequest'.ch = e.ch /\ JobRequest'.sub = e.sub
      BY <2>4, <2>5 DEF JobRequest
    <3>2. Known(call, gaveUp, JobRequest')
      BY <2>3, <3>1 DEF Known
    <3>3. QED
      BY <1>1, <2>3, <2>4, <2>5, <2>10, <3>2 DEF JobOK, IsAnswer
  <2>12. AnswersOK'
    BY <1>1 DEF EpicInv, AnswersOK, IsAnswer
  <2>13. ContentsOK'
    BY <1>1, <2>4, <2>5, <2>10 DEF EpicInv, ContentsOK, IsAnswer
  <2>14. QED
    BY <1>3, <2>7, <2>8, <2>9, <2>11, <2>12, <2>13 DEF EpicInv
<1>7. QED
  BY <1>1, <1>5, <1>6 DEF FwTakes

LEMMA FwRepliesOK ==
  ASSUME EpicInv, NEW ok \in BOOLEAN, FwReplies(ok)
  PROVE  EpicInv'
<1> DEFINE job == epicFw.job
<1>1. PICK x : x = [Entry("reply", "answer", job.ch, job.sub, job.n) EXCEPT !.ok = ok]
  OBVIOUS
<1>2. /\ UNCHANGED <<epicBuf, services, call, calls, returned, gaveUp, acked, refused, toFw, txBuf>> /\ Working
      /\ toAp' = Append(toAp, x) /\ rxBuf' = [n |-> job.of, cmd |-> job.cmd] /\ epicFw' = [epicFw EXCEPT !.job = NoCommand]
  BY <1>1 DEF FwReplies, Working, resultVars
<1>3. job \in Jobs /\ job.n \in Nat \ {0} /\ job.of \in Nat
  BY <1>2, EpicFacts DEF EpicInv
<1>4. x \in Entries /\ x.kind = "answer" /\ x.type = "reply" /\ x.ch = job.ch /\ x.sub = job.sub /\ x.seq = job.n
      /\ job.sub \in Subtypes
  BY <1>1, <1>3 DEF Entry, Entries, Jobs
<1>5. /\ toAp' \in Seq(Entries) /\ Len(toAp) + 1 \in DOMAIN toAp' /\ toAp'[Len(toAp) + 1] = x /\ Len(toAp) + 1 \in Nat
      /\ \A i \in DOMAIN toAp : i \in DOMAIN toAp' /\ toAp'[i] = toAp[i] /\ i < Len(toAp) + 1 /\ i \in Nat
      /\ \A i \in DOMAIN toAp' : i = Len(toAp) + 1 \/ i \in DOMAIN toAp
  BY <1>2, <1>4, EntryAppended DEF EpicInv, EpicTypes
<1>6. /\ epicFw'.job = NoCommand /\ epicFw'.callbacks = epicFw.callbacks /\ epicFw'.announced = epicFw.announced
      /\ epicFw'.waits = epicFw.waits
      /\ epicFw' \in [job : {NoCommand} \cup Jobs, waits : SUBSET Nat, callbacks : Nat, announced : Seq(Names)]
  BY <1>2 DEF EpicInv, EpicTypes
<1>7. rxBuf' \in Contents /\ rxBuf'.n = job.of
  BY <1>2, <1>3 DEF Jobs, Contents
<1>8. EpicTypes' /\ BufferOK' /\ OwnAnswer'
  BY <1>2, <1>5, <1>6, <1>7 DEF EpicInv, EpicTypes, BufferOK, OwnAnswer
<1>9. KindsOK'
  BY <1>4, <1>5 DEF EpicInv, KindsOK
<1>10. TableOK' /\ NamesOK'
  <2>1. \A a : Queued(a) => Queued(a)'
    BY <1>5 DEF Queued
  <2>2. \A i \in DOMAIN epicFw.announced :
            \/ \E j \in DOMAIN services : services[j].channel = epicFw.announced[i].channel
                                          /\ services[j].name <= epicFw.announced[i].name
            \/ \E j \in DOMAIN toAp' : toAp'[j].kind = "announce" /\ toAp'[j].seq = epicFw.announced[i].name
                                       /\ toAp'[j].ch = epicFw.announced[i].channel
    BY <1>5 DEF EpicInv, TableOK, Registered, Queued
  <2>3. TableOK'
    BY <1>2, <1>6, <2>2 DEF EpicInv, TableOK, Registered, Queued
  <2>4. NamesOK'
    BY <1>2, <1>4, <1>5, <1>6 DEF EpicInv, NamesOK
  <2>5. QED
    BY <2>3, <2>4
<1>11. CallbacksAnswered'
  BY <1>2, <1>5, <1>6 DEF EpicInv, CallbacksAnswered
<1>12. /\ job.n <= calls /\ job.of > 0 /\ Known(call, gaveUp, JobRequest)
       /\ \A j \in DOMAIN toAp : IsAnswer(j) => toAp[j].seq < job.n
       /\ calls \in Nat
  BY <1>2 DEF EpicInv, EpicTypes, JobOK
<1>13. CommandsOK'
  <2> SUFFICES ASSUME NEW i \in DOMAIN toFw, IsCommand(i)
               PROVE  /\ toFw[i].seq \in 1 .. calls /\ Known(call, gaveUp, toFw[i])
                      /\ \A j \in DOMAIN toFw : IsCommand(j) /\ i < j => toFw[i].seq < toFw[j].seq
                      /\ \A j \in DOMAIN toAp' : toAp'[j].kind = "answer" => toAp'[j].seq < toFw[i].seq
    BY <1>2, <1>6 DEF CommandsOK, Working, IsAnswer, IsCommand
  <2>1. /\ toFw[i].seq \in 1 .. calls /\ Known(call, gaveUp, toFw[i]) /\ job.n < toFw[i].seq
        /\ \A j \in DOMAIN toFw : IsCommand(j) /\ i < j => toFw[i].seq < toFw[j].seq
        /\ \A j \in DOMAIN toAp : toAp[j].kind = "answer" => toAp[j].seq < toFw[i].seq
    BY <1>2 DEF EpicInv, CommandsOK, IsAnswer
  <2>2. QED
    BY <2>1, <1>4, <1>5
<1>14. JobOK'
  BY <1>6 DEF JobOK, Working
<1>15. AnswersOK'
  <2> SUFFICES ASSUME NEW j \in DOMAIN toAp', toAp'[j].kind = "answer"
               PROVE  /\ toAp'[j].seq \in 1 .. calls /\ Known(call, gaveUp, toAp'[j])
                      /\ \A i \in DOMAIN toAp' : toAp'[i].kind = "answer" /\ i < j => toAp'[i].seq < toAp'[j].seq
    BY <1>2, <1>7, <1>12 DEF AnswersOK, IsAnswer
  <2>1. CASE j = Len(toAp) + 1
    <3>1. x.seq \in 1 .. calls
      BY <1>3, <1>4, <1>12
    <3>2. Known(call, gaveUp, x)
      BY <1>4, <1>12 DEF Known, JobRequest
    <3>3. \A i \in DOMAIN toAp' : toAp'[i].kind = "answer" /\ i < j => toAp'[i].seq < x.seq
      BY <2>1, <1>4, <1>5, <1>12 DEF IsAnswer
    <3>4. QED
      BY <3>1, <3>2, <3>3, <2>1, <1>5
  <2>2. CASE j \in DOMAIN toAp
    <3>1. toAp'[j] = toAp[j] /\ IsAnswer(j)
      BY <1>5, <2>2 DEF IsAnswer
    <3>2. \A i \in DOMAIN toAp' : i < j => i \in DOMAIN toAp /\ toAp'[i] = toAp[i]
      BY <1>5, <2>2
    <3>3. QED
      BY <3>1, <3>2, <2>2 DEF EpicInv, AnswersOK, IsAnswer
  <2>3. QED
    BY <2>1, <2>2, <1>5
<1>16. ContentsOK'
  <2> SUFFICES ASSUME call # NoCall
               PROVE  /\ call.n = calls
                      /\ \A j \in DOMAIN toAp' : toAp'[j].kind = "answer" /\ toAp'[j].seq = call.n => job.of = call.n
    BY <1>2, <1>6, <1>7 DEF EpicInv, ContentsOK, Working, IsAnswer
  <2>1. call.n = calls /\ (job.n = call.n => job.of = call.n)
    BY <1>2 DEF EpicInv, ContentsOK
  <2>2. \A j \in DOMAIN toAp : toAp[j].kind = "answer" => toAp[j].seq < calls /\ toAp[j].seq \in Nat
    BY <1>3, <1>12, EpicFacts DEF EpicInv, IsAnswer
  <2>3. QED
    BY <2>1, <2>2, <1>4, <1>5, <1>12
<1>17. QED
  BY <1>8, <1>9, <1>10, <1>11, <1>13, <1>14, <1>15, <1>16 DEF EpicInv

------------------------------------------------------------------------------
LEMMA EpicStep ==
  ASSUME EpicAssumption, EpicInv, [EpicNext]_epicVars
  PROVE  EpicInv'
<1>1. CASE UNCHANGED epicVars
  BY <1>1 DEF epicVars, resultVars, queueVars, EpicInv, EpicTypes, BufferOK, KindsOK, TableOK, NamesOK, CommandsOK, JobOK,
     AnswersOK, ContentsOK, CallbacksAnswered, OwnAnswer, IsAnswer, IsCommand, Working, JobRequest, Queued, Registered
<1>2. CASE EpicNext
  BY <1>2, BuffersStep, SendCommandOK, WaitGivesUpOK, WaitLooksOK, WaitConsumesOK, PollOK, FwAnnouncesOK, FwCallsBackOK,
     FwTakesOK, FwRepliesOK DEF EpicNext, Commands
<1>3. QED
  BY <1>1, <1>2

(* Services over AFK stay sound for any channels, rooms of the rings, commands *)
(* and callbacks: an answer is its own command's unless one of its kind was    *)
(* given up before, no callback waits for a driver that has already read it,   *)
(* every announced channel is registered once or still on its way, and the     *)
(* device maps no buffer that was given back.                                  *)
THEOREM ServicesStaySound == EpicSpec => []EpicSound
<1>1. EpicInit => EpicInv
  BY EpicInitInv
<1>2. EpicInv /\ [EpicNext]_epicVars => EpicInv'
  BY EpicAssumption, EpicStep
<1>3. EpicInv => EpicSound
  <2> SUFFICES ASSUME EpicInv PROVE EpicSound
    OBVIOUS
  <2>1. AnnouncedIsKnown
    BY DEF EpicInv, TableOK, Registered, Queued, AnnouncedIsKnown
  <2>2. MappedIsOwned
    BY DEF EpicInv, BufferOK, MappedIsOwned, Both
  <2>3. QED
    BY <2>1, <2>2 DEF EpicInv, EpicSound
<1>4. QED
  BY <1>1, <1>2, <1>3, PTL DEF EpicSpec

(* Together: the endpoint, and the services over one.                          *)
THEOREM ServicesStayAnswered == AfkSpec /\ EpicSpec => []ServicesAnswered
<1>1. EndpointSound /\ EpicSound => ServicesAnswered
  BY DEF ServicesAnswered
<1>2. QED
  BY <1>1, EndpointStaysSound, ServicesStaySound, PTL

------------------------------------------------------------------------------
(* Remote calls (IomfbCalls): types of the frames, of the coprocessor's jobs  *)
(* and of the messages.                                                       *)
CallNames == {"colour", "open", "display", "power", "begin", "submit", "wait", "nested"}
CallFrames == [kind : {"call"}, id : Nat, name : CallNames, ctx : {"command", "callback"}, off : Nat, len : {1, 2}]
SyncFrames ==
  [kind : {"callback"}, id : Nat, tag : Tags, ctx : {"callback"}, off : Nat, todo : Int, swap : Nat]
Completion(s) == [kind |-> "callback", id |-> s, tag |-> "D589", ctx |-> "async", off |-> 0, todo |-> 0, swap |-> s]
WaitFrame == [kind |-> "wait", id |-> swap]
DcpJobs ==
  [kind : {"run"}, id : Nat, ctx : {"command", "callback"}, off : Nat, len : {1, 2}, name : CallNames, swap : Nat]
    \cup [kind : {"wait"}, id : Nat, ctx : {"callback"}, off : Nat, len : {1}, name : Tags, swap : {0}]
Outward ==
  [type : {"call"}, ctx : {"command", "callback"}, off : Nat, len : {1, 2}, id : Nat, name : CallNames, swap : Nat]
    \cup [type : {"ack"}, ctx : {"callback", "async"}]
Swapped(s) == [type |-> "callback", ctx |-> "async", off |-> 0, id |-> s, tag |-> "D589", swap |-> s]
Inward ==
  [type : {"callback"}, ctx : {"callback"}, off : Nat, id : Nat, tag : Tags, swap : {0}]
    \cup {Swapped(s) : s \in Nat} \cup [type : {"ack"}, ctx : {"command", "callback"}]
Scripts ==
  {<<>>, <<"colour", "open">>, <<"open">>, <<"display", "power">>, <<"power">>,
   <<"begin", "submit", "wait">>, <<"submit", "wait">>, <<"wait">>}

Typed ==
  /\ stack \in Seq(CallFrames \cup SyncFrames \cup {WaitFrame, Completion(swap)})
  /\ callbackEnds \in Seq([ctx : {"callback", "async"}, off : Nat, end : Nat])
  /\ script \in Scripts /\ {ids, swap, lastSwap} \subseteq Nat
  /\ toDcp \in Seq(Outward) /\ fromDcp \in Seq(Inward) /\ dcp \in Seq(DcpJobs)

(* Until an error has left a frame behind, n frames of calls and of           *)
(* synchronous callbacks lie on the kernel's thread; above them may be the    *)
(* completion of a swap, below which the thread waits or works.               *)
ShapeOK(n) ==
  \/ Len(stack) = n
  \/ Len(stack) = n + 1 /\ stack[n + 1] = Completion(swap)
  \/ n = 0 /\ Len(stack) \in {1, 2} /\ stack[1] = WaitFrame /\ (Len(stack) = 2 => stack[2] = Completion(swap))

(* The frames of the kernel and the jobs of the coprocessor alternate: a call,*)
(* its callback, the call the callback makes.  The i-th lies at its depth, and*)
(* as deep as both stacks go they name the same calls and callbacks.          *)
Placed(f, i) == IF i = 1 THEN f.ctx = "command" /\ f.off = 0 ELSE f.ctx = "callback" /\ f.off = i - 2
ChainOK(n) ==
  /\ n <= Len(stack)
  /\ \A i \in 1 .. n :
       /\ stack[i] \in CallFrames \cup SyncFrames
       /\ Placed(stack[i], i) /\ (i = 1 => stack[i].kind = "call")
       /\ i > 1 /\ stack[i].kind = "call" => stack[i].len = 1 /\ stack[i].name = "nested"
       /\ i < n => (stack[i].kind = "call" <=> stack[i + 1].kind = "callback")
  /\ \A i \in DOMAIN dcp :
       /\ Placed(dcp[i], i) /\ (i = 1 => dcp[i].kind = "run") /\ (i > 1 => dcp[i].len = 1)
       /\ i < Len(dcp) => (dcp[i].kind = "run" <=> dcp[i + 1].kind = "wait")
       /\ i <= n => /\ stack[i].id = dcp[i].id
                    /\ stack[i].kind = "call" <=> dcp[i].kind = "run"
                    /\ stack[i].kind = "call" => stack[i].len = dcp[i].len /\ stack[i].name = dcp[i].name

(* What a channel holds: the asynchronous context has one message, and all    *)
(* others are one message in flight.                                          *)
Lone(s) == \A j, k \in DOMAIN s : s[j].ctx # "async" /\ s[k].ctx # "async" => j = k
Has(s, m) == \E j \in DOMAIN s : s[j] = m
Silent(s) == \A j \in DOMAIN s : s[j].ctx = "async"
Calm(s) == \A j \in DOMAIN s : s[j].ctx # "async"
Acked(c) == [type |-> "ack", ctx |-> c]

(* Who has the word: the kernel at work (the stacks are equally deep), a call *)
(* on its way, its answer on its way, a callback on its way, its answer on its*)
(* way.  The message in flight is that of the innermost frame, and the blocks *)
(* it points to hold what its sender wrote.                                   *)
CallMessage(f) ==
  [type |-> "call", ctx |-> f.ctx, off |-> f.off, len |-> f.len, id |-> f.id, name |-> f.name, swap |-> swap]
CallbackMessage(w) ==
  [type |-> "callback", ctx |-> "callback", off |-> w.off, id |-> w.id, tag |-> w.name, swap |-> 0]
Output(w) == Intact(Blocks("callback", w.off, 1), <<"output", w.id>>)
IsReplied(f) == RepliedWith(f, "reply") \/ RepliedWith(f, "refused")
TokenOK(n) ==
  /\ Lone(toDcp) /\ Lone(fromDcp)
  /\ \/ Len(dcp) = n /\ Silent(toDcp) /\ Silent(fromDcp)
     \/ /\ n = Len(dcp) + 1 /\ stack[n].kind = "call" /\ Silent(fromDcp)
        /\ Has(toDcp, CallMessage(stack[n]))
     \/ /\ n = Len(dcp) + 1 /\ stack[n].kind = "call" /\ Silent(toDcp)
        /\ Has(fromDcp, Acked(stack[n].ctx)) /\ IsReplied(stack[n])
     \/ /\ Len(dcp) = n + 1 /\ dcp[n + 1].kind = "wait" /\ Silent(toDcp)
        /\ Has(fromDcp, CallbackMessage(dcp[n + 1]))
     \/ /\ Len(dcp) = n + 1 /\ dcp[n + 1].kind = "wait" /\ Silent(fromDcp)
        /\ Has(toDcp, Acked("callback")) /\ Output(dcp[n + 1])

(* A callback that is being handled, and those below it, keep their blocks.   *)
OutputsOK(n) == \A i \in DOMAIN dcp : dcp[i].kind = "wait" /\ i <= n => Output(dcp[i])

(* Swaps: the one begun last is accepted at most once, completed at most once,*)
(* and its completion is in the channel or handled until it has been seen; the*)
(* operation that began it waits until then.                                  *)
Handling == stack # <<>> /\ stack[Len(stack)] = Completion(swap)
Unseen == ~Calm(fromDcp) \/ Handling
Submit == <<"submit", "wait">>
ScriptOK(n) ==
  /\ n > 0 => script # <<>> /\ stack[1].name = Head(script) /\ Head(script) # "wait"
  /\ stack # <<>> /\ stack[1] = WaitFrame => script = <<"wait">>
SwapsOK(n) ==
  /\ {swap, lastSwap} \cup queuedSwaps \cup doneSwaps \subseteq 0 .. ids
  /\ queuedSwaps \subseteq {swap} /\ (queuedSwaps # {} => swap \notin doneSwaps)
  /\ Unseen => swap \in doneSwaps /\ queuedSwaps = {}
  /\ swap \in doneSwaps => lastSwap = swap \/ Unseen
  /\ \A j, k \in DOMAIN fromDcp : fromDcp[j].ctx = "async" /\ fromDcp[k].ctx = "async" => j = k
  /\ \A j \in DOMAIN fromDcp : fromDcp[j].ctx = "async" => fromDcp[j] = Swapped(swap)
  /\ Handling => Calm(fromDcp)
  /\ queuedSwaps # {} \/ Unseen => lastSwap # swap /\ script \in {Submit, <<"wait">>}
  /\ script = Submit =>
       \/ swap \notin doneSwaps /\ queuedSwaps = {} /\ lastSwap # swap
       \/ n = 1 /\ dcp = <<>> /\ Silent(toDcp) /\ RepliedWith(stack[1], "reply")
  /\ n > 0 /\ stack[1].name = "begin" =>
       /\ stack[1].id \in (1 .. ids) \ (doneSwaps \cup {lastSwap})
  /\ dcp # <<>> /\ dcp[1].name = "submit" => dcp[1].swap = swap

(* callback_ends holds the ends of the callbacks on the stack, in their order.*)
Mirrored ==
  \E at \in [DOMAIN callbackEnds -> DOMAIN stack] :
      /\ \A i \in DOMAIN stack : stack[i].kind = "callback" <=> \E k \in DOMAIN at : at[k] = i
      /\ \A k \in DOMAIN at :
           /\ \A l \in DOMAIN at : k < l => at[k] < at[l]
           /\ callbackEnds[k].ctx = stack[at[k]].ctx /\ callbackEnds[k].end = stack[at[k]].off + 1

(* The inductive invariant.  The calls of an error are abandoned with their   *)
(* frames, and nothing is promised of the connection afterwards.              *)
SoundAt(n) == ShapeOK(n) /\ ChainOK(n) /\ TokenOK(n) /\ OutputsOK(n) /\ ScriptOK(n) /\ SwapsOK(n)
Sound == ~torn /\ (\E n \in Nat : SoundAt(n)) /\ Mirrored /\ Typed
NestInv == abandoned = {} => Sound


LEMMA NestAppend ==
  ASSUME NEW S, NEW s \in Seq(S), NEW x \in S
  PROVE  /\ Append(s, x) \in Seq(S) /\ Len(s) \in Nat /\ Len(Append(s, x)) = Len(s) + 1
         /\ DOMAIN s = 1 .. Len(s) /\ DOMAIN Append(s, x) = 1 .. Len(s) + 1
         /\ Append(s, x)[Len(s) + 1] = x /\ \A i \in 1 .. Len(s) : Append(s, x)[i] = s[i]
  BY AppendProperties, LenProperties

LEMMA NestTail ==
  ASSUME NEW S, NEW s \in Seq(S), s # <<>>
  PROVE  /\ Tail(s) \in Seq(S) /\ Len(s) \in Nat \ {0} /\ DOMAIN s = 1 .. Len(s) /\ Head(s) = s[1] /\ Head(s) \in S
         /\ Len(Tail(s)) = Len(s) - 1 /\ DOMAIN Tail(s) = 1 .. Len(s) - 1
         /\ \A i \in 1 .. Len(s) - 1 : Tail(s)[i] = s[i + 1]
  BY HeadTailProperties, EmptySeq, LenProperties, ElementOfSeq

LEMMA NestFront ==
  ASSUME NEW S, NEW s \in Seq(S), s # <<>>
  PROVE  /\ Front(s) \in Seq(S) /\ Len(s) \in Nat \ {0} /\ DOMAIN s = 1 .. Len(s) /\ Last(s) = s[Len(s)] /\ Last(s) \in S
         /\ Len(Front(s)) = Len(s) - 1 /\ DOMAIN Front(s) = 1 .. Len(s) - 1
         /\ \A i \in 1 .. Len(s) - 1 : Front(s)[i] = s[i]
<1>1. Len(s) \in Nat \ {0} /\ DOMAIN s = 1 .. Len(s) /\ s[Len(s)] \in S
  BY EmptySeq, LenProperties, ElementOfSeq
<1>2. Front(s) = SubSeq(s, 1, Len(s) - 1)
  BY DEF Front
<1>3. QED
  BY <1>1, <1>2, SubSeqProperties DEF Last

(* A message joins a channel, or leaves it. *)
LEMMA Joins ==
  ASSUME NEW S, NEW s \in Seq(S), NEW x \in S
  PROVE  /\ Has(Append(s, x), x) /\ \A y : Has(s, y) => Has(Append(s, x), y)
         /\ x.ctx # "async" /\ Silent(s) => Lone(Append(s, x))
         /\ x.ctx = "async" => (Silent(s) => Silent(Append(s, x))) /\ (Lone(s) => Lone(Append(s, x)))
<1>1. PICK t : t = Append(s, x)
  OBVIOUS
<1>2. /\ Len(s) \in Nat /\ DOMAIN s = 1 .. Len(s) /\ DOMAIN t = 1 .. Len(s) + 1
      /\ t[Len(s) + 1] = x /\ \A i \in 1 .. Len(s) : t[i] = s[i]
  BY <1>1, NestAppend
<1>3. Has(t, x) /\ \A y : Has(s, y) => Has(t, y)
  BY <1>2 DEF Has
<1>4. x.ctx # "async" /\ Silent(s) => Lone(t)
  BY <1>2 DEF Silent, Lone
<1>5. x.ctx = "async" => (Silent(s) => Silent(t)) /\ (Lone(s) => Lone(t))
  BY <1>2 DEF Silent, Lone
<1>6. QED
  BY <1>1, <1>3, <1>4, <1>5

LEMMA Leaves ==
  ASSUME NEW S, NEW s \in Seq(S), s # <<>>
  PROVE  /\ Lone(s) => Lone(Tail(s))
         /\ Head(s).ctx # "async" /\ Lone(s) => Silent(Tail(s)) /\ \A y : Has(s, y) /\ y.ctx # "async" => y = Head(s)
         /\ Silent(s) => Silent(Tail(s)) /\ Head(s).ctx = "async"
         /\ Head(s).ctx = "async" => \A y : y.ctx # "async" /\ Has(s, y) => Has(Tail(s), y)
<1>1. PICK t : t = Tail(s)
  OBVIOUS
<1>2. /\ Len(s) \in Nat \ {0} /\ DOMAIN s = 1 .. Len(s) /\ Head(s) = s[1] /\ 1 \in DOMAIN s
      /\ DOMAIN t = 1 .. Len(s) - 1 /\ \A i \in DOMAIN t : t[i] = s[i + 1] /\ i + 1 \in DOMAIN s /\ i + 1 # 1
  BY <1>1, NestTail
<1>3. Lone(s) => Lone(t)
  BY <1>2 DEF Lone
<1>4. Head(s).ctx # "async" /\ Lone(s) => Silent(t) /\ \A y : Has(s, y) /\ y.ctx # "async" => y = Head(s)
  BY <1>2 DEF Lone, Silent, Has
<1>5. Silent(s) => Silent(t) /\ Head(s).ctx = "async"
  BY <1>2 DEF Silent
<1>6. ASSUME Head(s).ctx = "async", NEW y, y.ctx # "async", Has(s, y)
      PROVE  Has(t, y)
  <2>1. PICK j \in DOMAIN s : s[j] = y
    BY <1>6 DEF Has
  <2>2. j # 1 /\ j - 1 \in DOMAIN t /\ t[j - 1] = y
    BY <2>1, <1>2, <1>6
  <2>3. QED
    BY <2>2 DEF Has
<1>7. QED
  BY <1>1, <1>3, <1>4, <1>5, <1>6

(* What is written is there, and what lies elsewhere stays. *)
LEMMA WritesThere ==
  ASSUME NEW B, NEW w, shmem' = Written(B, w)
  PROVE  /\ Intact(B, w)'
         /\ \A C, x : C \cap B = {} /\ Intact(C, x) => Intact(C, x)'
<1>1. DOMAIN shmem' = DOMAIN shmem \cup B
  BY DEF Written
<1>2. \A c \in DOMAIN shmem \cup B : shmem'[c] = IF c \in B THEN w ELSE shmem[c]
  BY DEF Written
<1>3. Intact(B, w)'
  BY <1>1, <1>2 DEF Intact
<1>4. ASSUME NEW C, NEW x, C \cap B = {}, Intact(C, x)
      PROVE  Intact(C, x)'
  BY <1>1, <1>2, <1>4 DEF Intact
<1>5. QED
  BY <1>3, <1>4

LEMMA Apart ==
  ASSUME NEW a, NEW b, NEW i \in Nat, NEW j \in Nat, NEW k \in Nat, NEW l \in Nat, a # b \/ i + k <= j \/ j + l <= i
  PROVE  Blocks(a, i, k) \cap Blocks(b, j, l) = {}
<1>1. ASSUME NEW c \in Blocks(a, i, k), c \in Blocks(b, j, l) PROVE FALSE
  <2>1. PICK x \in i .. (i + k - 1) : c = <<a, x>>
    BY <1>1 DEF Blocks
  <2>2. PICK y \in j .. (j + l - 1) : c = <<b, y>>
    BY <1>1 DEF Blocks
  <2>3. a = b /\ x = y
    BY <2>1, <2>2
  <2>4. QED
    BY <2>3
<1>2. QED
  BY <1>1

LEMMA OneBlock == \A a : \A i \in Nat : Blocks(a, i, 1) = {<<a, i>>}
  BY DEF Blocks
------------------------------------------------------------------------------
(* Where the two stacks stand. *)
LEMMA FrameKinds ==
  /\ \A f \in CallFrames : f.kind = "call" /\ f.len \in {1, 2} /\ f.off \in Nat /\ f.id \in Nat /\ f.ctx \in {"command", "callback"}
  /\ \A f \in SyncFrames : f.kind = "callback" /\ f.ctx = "callback" /\ f.tag \in Tags /\ f.off \in Nat /\ f.id \in Nat /\ f.todo \in Int
  /\ WaitFrame.kind = "wait" /\ Completion(swap).kind = "callback" /\ Completion(swap).todo = 0
  /\ Completion(swap).ctx = "async" /\ Completion(swap).tag = "D589"
  BY DEF CallFrames, SyncFrames, WaitFrame, Completion

LEMMA NestLens ==
  ASSUME Typed
  PROVE  /\ Len(stack) \in Nat /\ DOMAIN stack = 1 .. Len(stack) /\ (stack = <<>> <=> Len(stack) = 0)
         /\ Len(dcp) \in Nat /\ DOMAIN dcp = 1 .. Len(dcp) /\ (dcp = <<>> <=> Len(dcp) = 0)
         /\ Len(callbackEnds) \in Nat /\ DOMAIN callbackEnds = 1 .. Len(callbackEnds)
         /\ \A i \in 1 .. Len(dcp) : dcp[i] \in DcpJobs
         /\ \A i \in 1 .. Len(stack) : stack[i] \in CallFrames \cup SyncFrames \cup {WaitFrame, Completion(swap)}
<1>1. Len(stack) \in Nat /\ DOMAIN stack = 1 .. Len(stack) /\ (stack = <<>> <=> Len(stack) = 0)
  BY LenProperties, EmptySeq DEF Typed
<1>2. Len(dcp) \in Nat /\ DOMAIN dcp = 1 .. Len(dcp) /\ (dcp = <<>> <=> Len(dcp) = 0)
  BY LenProperties, EmptySeq DEF Typed
<1>3. Len(callbackEnds) \in Nat /\ DOMAIN callbackEnds = 1 .. Len(callbackEnds)
  BY LenProperties DEF Typed
<1>4. /\ \A i \in 1 .. Len(dcp) : dcp[i] \in DcpJobs
      /\ \A i \in 1 .. Len(stack) : stack[i] \in CallFrames \cup SyncFrames \cup {WaitFrame, Completion(swap)}
  BY ElementOfSeq DEF Typed
<1>5. QED
  BY <1>1, <1>2, <1>3, <1>4

LEMMA ChainShorter ==
  ASSUME Typed, NEW n \in Nat, NEW m \in Nat, m <= n, ChainOK(n), dcp' = dcp, Len(stack') \in Nat, m <= Len(stack'),
         \A i \in 1 .. m : stack'[i] = stack[i]
  PROVE  ChainOK(m)'
<1>1. DOMAIN dcp = 1 .. Len(dcp) /\ Len(dcp) \in Nat
  BY NestLens
<1>2. \A i \in 1 .. m : i \in 1 .. n /\ (i < m => i < n /\ i + 1 \in 1 .. m)
  OBVIOUS
<1>3. ASSUME NEW i \in 1 .. m
      PROVE  /\ stack'[i] \in CallFrames \cup SyncFrames
             /\ Placed(stack'[i], i) /\ (i = 1 => stack'[i].kind = "call")
             /\ i > 1 /\ stack'[i].kind = "call" => stack'[i].len = 1 /\ stack'[i].name = "nested"
             /\ i < m => (stack'[i].kind = "call" <=> stack'[i + 1].kind = "callback")
  BY SMTT(20), <1>2, <1>3 DEF ChainOK
<1>4. ASSUME NEW i \in DOMAIN dcp
      PROVE  /\ Placed(dcp[i], i) /\ (i = 1 => dcp[i].kind = "run") /\ (i > 1 => dcp[i].len = 1)
             /\ i < Len(dcp) => (dcp[i].kind = "run" <=> dcp[i + 1].kind = "wait")
             /\ i <= m => /\ stack'[i].id = dcp[i].id
                          /\ stack'[i].kind = "call" <=> dcp[i].kind = "run"
                          /\ stack'[i].kind = "call" => stack'[i].len = dcp[i].len /\ stack'[i].name = dcp[i].name
  <2>1. /\ Placed(dcp[i], i) /\ (i = 1 => dcp[i].kind = "run") /\ (i > 1 => dcp[i].len = 1)
        /\ i < Len(dcp) => (dcp[i].kind = "run" <=> dcp[i + 1].kind = "wait")
    BY <1>4 DEF ChainOK
  <2>2. CASE i <= m
    <3>1. i \in 1 .. m /\ i <= n
      BY <1>1, <1>4, <2>2
    <3>2. stack'[i] = stack[i]
      BY <3>1
    <3>3. /\ stack[i].id = dcp[i].id /\ (stack[i].kind = "call" <=> dcp[i].kind = "run")
          /\ stack[i].kind = "call" => stack[i].len = dcp[i].len /\ stack[i].name = dcp[i].name
      BY <3>1, <1>4 DEF ChainOK
    <3>4. QED
      BY <2>1, <3>2, <3>3
  <2>3. CASE ~(i <= m)
    BY <2>1, <2>3
  <2>4. QED
    BY <2>2, <2>3
<1>5. QED
  BY <1>3, <1>4 DEF ChainOK

(* A frame is pushed on the stack of calls and callbacks. *)
LEMMA FramePushed ==
  ASSUME Typed, NEW f \in CallFrames \cup SyncFrames \cup {WaitFrame, Completion(swap)}, stack' = Append(stack, f)
  PROVE  /\ Len(stack) \in Nat /\ Len(stack') = Len(stack) + 1 /\ DOMAIN stack' = 1 .. Len(stack) + 1
         /\ stack'[Len(stack) + 1] = f /\ \A i \in 1 .. Len(stack) : stack'[i] = stack[i]
         /\ stack' \in Seq(CallFrames \cup SyncFrames \cup {WaitFrame, Completion(swap)})
<1>1. PICK S : S = CallFrames \cup SyncFrames \cup {WaitFrame, Completion(swap)}
  OBVIOUS
<1>2. stack \in Seq(S) /\ f \in S
  BY <1>1 DEF Typed
<1>3. /\ Len(stack) \in Nat /\ Len(stack') = Len(stack) + 1 /\ DOMAIN stack' = 1 .. Len(stack) + 1
      /\ stack'[Len(stack) + 1] = f /\ \A i \in 1 .. Len(stack) : stack'[i] = stack[i]
  BY <1>2, NestAppend
<1>4. stack' \in Seq(S)
  BY <1>2, NestAppend
<1>5. QED
  BY <1>1, <1>3, <1>4

LEMMA TopsMatch ==
  ASSUME NEW n \in Nat, ChainOK(n), Typed
  PROVE  /\ n = Len(dcp) + 1 /\ stack[n].kind = "call" => Len(dcp) = 0 \/ dcp[Len(dcp)].kind # "run"
         /\ Len(dcp) = n + 1 /\ dcp[n + 1].kind = "wait" => n > 0 /\ stack[n].kind = "call" /\ dcp[n].kind = "run"
<1>1. Len(dcp) \in Nat /\ DOMAIN dcp = 1 .. Len(dcp) /\ \A i \in 1 .. Len(dcp) : dcp[i] \in DcpJobs
  BY NestLens
<1>2. ASSUME n = Len(dcp) + 1, stack[n].kind = "call", Len(dcp) # 0
      PROVE  dcp[Len(dcp)].kind # "run"
  <2>1. Len(dcp) \in 1 .. n /\ Len(dcp) < n /\ Len(dcp) \in DOMAIN dcp /\ Len(dcp) + 1 = n
    BY <1>1, <1>2
  <2>2. ~(stack[Len(dcp)].kind = "call")
    BY <2>1, <1>2 DEF ChainOK
  <2>3. QED
    BY <2>1, <2>2 DEF ChainOK
<1>3. ASSUME Len(dcp) = n + 1, dcp[n + 1].kind = "wait"
      PROVE  n > 0 /\ stack[n].kind = "call" /\ dcp[n].kind = "run"
  <2>1. n # 0
    BY <1>1, <1>3 DEF ChainOK
  <2>2. n \in DOMAIN dcp /\ n < Len(dcp) /\ n + 1 = Len(dcp)
    BY <1>1, <1>3, <2>1
  <2>3. dcp[n].kind = "run"
    BY <2>2, <1>3 DEF ChainOK
  <2>4. QED
    BY <2>1, <2>2, <2>3 DEF ChainOK
<1>4. QED
  BY <1>2, <1>3

LEMMA AtRest ==
  ASSUME NEW n \in Nat, SoundAt(n), Typed, stack = <<>> \/ stack[1].kind = "wait" \/ n = 0
  PROVE  n = 0 /\ dcp = <<>> /\ Silent(toDcp) /\ Silent(fromDcp)
<1>1. n = 0
  <2> SUFFICES ASSUME n # 0 PROVE FALSE
    OBVIOUS
  <2>1. Len(stack) >= n /\ 1 \in 1 .. n /\ stack # <<>>
    BY NestLens DEF SoundAt, ChainOK
  <2>2. stack[1].kind = "call"
    BY <2>1 DEF SoundAt, ChainOK
  <2>3. QED
    BY <2>1, <2>2
<1>2. ~(Len(dcp) = n + 1 /\ dcp[n + 1].kind = "wait")
  <2>1. ChainOK(n)
    BY DEF SoundAt
  <2>2. Len(dcp) = n + 1 /\ dcp[n + 1].kind = "wait" => n > 0
    BY ONLY <2>1, TopsMatch, n \in Nat, Typed
  <2>3. QED
    BY <1>1, <2>2
<1>3. Len(dcp) = n /\ Silent(toDcp) /\ Silent(fromDcp)
  BY <1>1, <1>2, NestLens DEF SoundAt, TokenOK
<1>4. QED
  BY <1>1, <1>3, NestLens

LEMMA InCall ==
  ASSUME NEW n \in Nat, SoundAt(n), Typed, stack # <<>>, Last(stack).kind = "call"
  PROVE  Len(stack) = n /\ n > 0 /\ stack[n] = Last(stack) /\ stack[n] \in CallFrames
<1>1. Last(stack) = stack[Len(stack)] /\ Len(stack) \in Nat \ {0}
  BY NestLens DEF Last
<1>2. Len(stack) = n
  BY <1>1, FrameKinds DEF SoundAt, ShapeOK
<1>3. n \in 1 .. n /\ stack[n] \in CallFrames \cup SyncFrames
  BY <1>1, <1>2 DEF SoundAt, ChainOK
<1>4. QED
  BY <1>1, <1>2, <1>3, FrameKinds

LEMMA InHandler ==
  ASSUME NEW n \in Nat, SoundAt(n), Typed, stack # <<>>, Last(stack).kind = "callback", Last(stack) # Completion(swap)
  PROVE  /\ Len(stack) = n /\ n > 1 /\ stack[n] = Last(stack) /\ stack[n] \in SyncFrames
         /\ Len(dcp) = n /\ Silent(toDcp) /\ Silent(fromDcp) /\ dcp[n].kind = "wait" /\ stack[n].off = n - 2
<1>1. Last(stack) = stack[Len(stack)] /\ Len(stack) \in Nat \ {0}
  BY NestLens DEF Last
<1>2. Len(stack) = n
  BY <1>1, FrameKinds DEF SoundAt, ShapeOK
<1>3. n \in 1 .. n /\ stack[n] \in CallFrames \cup SyncFrames
  BY <1>1, <1>2 DEF SoundAt, ChainOK
<1>4. stack[n] = Last(stack) /\ stack[n] \in SyncFrames /\ stack[n].kind # "call"
  BY <1>1, <1>2, <1>3, FrameKinds
<1>5. n > 1 /\ stack[n].off = n - 2
  BY <1>3, <1>4 DEF SoundAt, ChainOK, Placed
<1>6. ~(Len(dcp) = n + 1 /\ dcp[n + 1].kind = "wait")
  BY <1>4, TopsMatch DEF SoundAt
<1>7. Len(dcp) = n /\ Silent(toDcp) /\ Silent(fromDcp)
  BY <1>4, <1>6 DEF SoundAt, TokenOK
<1>8. dcp[n].kind # "run" /\ dcp[n] \in DcpJobs
  BY <1>4, <1>7, <1>3, NestLens DEF SoundAt, ChainOK
<1>9. dcp[n].kind = "wait"
  BY <1>8 DEF DcpJobs
<1>10. QED
  BY <1>2, <1>4, <1>5, <1>7, <1>9

LEMMA AtJob ==
  ASSUME NEW n \in Nat, SoundAt(n), Typed, DcpRuns
  PROVE  /\ Len(dcp) = n /\ n > 0 /\ Silent(toDcp) /\ Silent(fromDcp) /\ Last(dcp) = dcp[n] /\ dcp[n].kind = "run"
         /\ stack[n].kind = "call" /\ stack[n] \in CallFrames
<1>1. Last(dcp) = dcp[Len(dcp)] /\ Len(dcp) \in Nat \ {0} /\ dcp[Len(dcp)].kind = "run"
  BY NestLens DEF Last, DcpRuns
<1>2. Len(dcp) = n /\ Silent(toDcp) /\ Silent(fromDcp)
  <2>1. ~(n = Len(dcp) + 1 /\ stack[n].kind = "call")
    BY <1>1, TopsMatch DEF SoundAt
  <2>2. ~(Len(dcp) = n + 1 /\ dcp[n + 1].kind = "wait")
    BY <1>1
  <2>3. QED
    BY <2>1, <2>2 DEF SoundAt, TokenOK
<1>3. n \in DOMAIN dcp /\ n \in 1 .. n
  BY <1>1, <1>2, NestLens
<1>4. stack[n].kind = "call" /\ stack[n] \in CallFrames \cup SyncFrames
  BY <1>1, <1>2, <1>3 DEF SoundAt, ChainOK
<1>5. QED
  BY <1>1, <1>2, <1>4, FrameKinds
------------------------------------------------------------------------------
(* The ends follow the callbacks. *)
LEMMA MirrorKeeps ==
  ASSUME Typed, Mirrored, NEW f, DOMAIN stack' = 1 .. Len(stack) + 1, stack'[Len(stack) + 1] = f,
         \A i \in 1 .. Len(stack) : stack'[i] = stack[i], f.kind # "callback", callbackEnds' = callbackEnds
  PROVE  Mirrored'
<1>1. PICK at \in [DOMAIN callbackEnds -> DOMAIN stack] :
        /\ \A i \in DOMAIN stack : stack[i].kind = "callback" <=> \E k \in DOMAIN at : at[k] = i
        /\ \A k \in DOMAIN at :
           /\ \A l \in DOMAIN at : k < l => at[k] < at[l]
           /\ callbackEnds[k].ctx = stack[at[k]].ctx /\ callbackEnds[k].end = stack[at[k]].off + 1
  BY DEF Mirrored
<1>2. Len(stack) \in Nat /\ DOMAIN stack = 1 .. Len(stack) /\ \A i \in DOMAIN stack : i \in DOMAIN stack' /\ stack'[i] = stack[i]
  BY NestLens
<1>3. at \in [DOMAIN callbackEnds' -> DOMAIN stack']
  BY <1>1, <1>2
<1>4. \A i \in DOMAIN stack' : stack'[i].kind = "callback" <=> \E k \in DOMAIN at : at[k] = i
  BY <1>1, <1>2
<1>5. \A k \in DOMAIN at : callbackEnds'[k].ctx = stack'[at[k]].ctx /\ callbackEnds'[k].end = stack'[at[k]].off + 1
  BY <1>1, <1>2
<1>6. QED
  BY <1>1, <1>3, <1>4, <1>5 DEF Mirrored

LEMMA MirrorGrows ==
  ASSUME Typed, Mirrored, NEW f, DOMAIN stack' = 1 .. Len(stack) + 1, stack'[Len(stack) + 1] = f,
         \A i \in 1 .. Len(stack) : stack'[i] = stack[i], f.kind = "callback",
         NEW e, DOMAIN callbackEnds' = 1 .. Len(callbackEnds) + 1, callbackEnds'[Len(callbackEnds) + 1] = e,
         \A i \in 1 .. Len(callbackEnds) : callbackEnds'[i] = callbackEnds[i], e.ctx = f.ctx, e.end = f.off + 1
  PROVE  Mirrored'
<1>1. PICK at \in [DOMAIN callbackEnds -> DOMAIN stack] :
        /\ \A i \in DOMAIN stack : stack[i].kind = "callback" <=> \E k \in DOMAIN at : at[k] = i
        /\ \A k \in DOMAIN at :
           /\ \A l \in DOMAIN at : k < l => at[k] < at[l]
           /\ callbackEnds[k].ctx = stack[at[k]].ctx /\ callbackEnds[k].end = stack[at[k]].off + 1
  BY DEF Mirrored
<1>2. Len(stack) \in Nat /\ DOMAIN stack = 1 .. Len(stack)
  BY NestLens
<1>3. Len(callbackEnds) \in Nat /\ DOMAIN callbackEnds = 1 .. Len(callbackEnds)
  BY NestLens
<1>4. PICK up : up = [k \in 1 .. Len(callbackEnds) + 1 |-> IF k = Len(callbackEnds) + 1 THEN Len(stack) + 1 ELSE at[k]]
  OBVIOUS
<1>5. /\ up \in [DOMAIN callbackEnds' -> DOMAIN stack'] /\ DOMAIN up = 1 .. Len(callbackEnds) + 1
      /\ up[Len(callbackEnds) + 1] = Len(stack) + 1
      /\ \A k \in 1 .. Len(callbackEnds) : up[k] = at[k] /\ at[k] \in 1 .. Len(stack)
  <2>1. \A k \in 1 .. Len(callbackEnds) : at[k] \in 1 .. Len(stack)
    BY <1>1, <1>2, <1>3
  <2>2. DOMAIN up = 1 .. Len(callbackEnds) + 1 /\ up[Len(callbackEnds) + 1] = Len(stack) + 1
    BY <1>3, <1>4
  <2>3. \A k \in 1 .. Len(callbackEnds) : up[k] = at[k]
    BY <1>3, <1>4
  <2>4. \A k \in 1 .. Len(callbackEnds) + 1 : up[k] \in 1 .. Len(stack) + 1
    BY <2>1, <2>2, <2>3, <1>2, <1>3
  <2>5. up \in [1 .. Len(callbackEnds) + 1 -> 1 .. Len(stack) + 1]
    BY <2>2, <2>4, <1>4
  <2>6. QED
    BY <2>1, <2>2, <2>3, <2>5
<1>6. \A i \in DOMAIN stack' : stack'[i].kind = "callback" <=> \E k \in DOMAIN up : up[k] = i
  <2> SUFFICES ASSUME NEW i \in DOMAIN stack' PROVE stack'[i].kind = "callback" <=> \E k \in DOMAIN up : up[k] = i
    OBVIOUS
  <2>1. CASE i = Len(stack) + 1
    BY <2>1, <1>3, <1>5
  <2>2. CASE i \in 1 .. Len(stack)
    <3>1. \A k \in DOMAIN up : up[k] = i => k \in 1 .. Len(callbackEnds)
      BY <2>2, <1>2, <1>3, <1>5
    <3>2. QED
      BY <3>1, <2>2, <1>1, <1>2, <1>3, <1>5
  <2>3. QED
    BY <2>1, <2>2, <1>2
<1>7. ASSUME NEW k \in DOMAIN up
      PROVE  /\ \A l \in DOMAIN up : k < l => up[k] < up[l]
             /\ callbackEnds'[k].ctx = stack'[up[k]].ctx /\ callbackEnds'[k].end = stack'[up[k]].off + 1
  <2>1. CASE k = Len(callbackEnds) + 1
    <3>1. callbackEnds'[k] = e /\ stack'[up[k]] = f
      BY <2>1, <1>5
    <3>2. \A l \in DOMAIN up : ~(k < l)
      BY <2>1, <1>3, <1>5
    <3>3. QED
      BY <3>1, <3>2
  <2>2. CASE k \in 1 .. Len(callbackEnds)
    <3>1. callbackEnds'[k] = callbackEnds[k] /\ up[k] = at[k] /\ stack'[up[k]] = stack[at[k]] /\ k \in DOMAIN at
      BY <2>2, <1>1, <1>3, <1>5
    <3>2. callbackEnds'[k].ctx = stack'[up[k]].ctx /\ callbackEnds'[k].end = stack'[up[k]].off + 1
      BY <3>1, <1>1
    <3>3. \A l \in DOMAIN up : k < l => up[k] < up[l]
      <4> SUFFICES ASSUME NEW l \in DOMAIN up, k < l PROVE up[k] < up[l]
        OBVIOUS
      <4>1. CASE l = Len(callbackEnds) + 1
        BY <4>1, <2>2, <1>2, <1>5
      <4>2. CASE l \in 1 .. Len(callbackEnds)
        BY <4>2, <2>2, <1>1, <1>3, <1>5
      <4>3. QED
        BY <4>1, <4>2, <1>3, <1>5
    <3>4. QED
      BY <3>2, <3>3
  <2>3. QED
    BY <2>1, <2>2, <1>3, <1>5
<1>8. QED
  BY <1>5, <1>6, <1>7 DEF Mirrored

LEMMA MirrorTop ==
  ASSUME Typed, Mirrored
  PROVE  /\ stack = <<>> => callbackEnds = <<>>
         /\ stack # <<>> /\ Last(stack).kind = "callback" =>
              /\ callbackEnds # <<>> /\ Last(callbackEnds).ctx = Last(stack).ctx /\ Last(callbackEnds).end = Last(stack).off + 1
              /\ Len(callbackEnds) > 0
<1>1. PICK at \in [DOMAIN callbackEnds -> DOMAIN stack] :
        /\ \A i \in DOMAIN stack : stack[i].kind = "callback" <=> \E k \in DOMAIN at : at[k] = i
        /\ \A k \in DOMAIN at :
           /\ \A l \in DOMAIN at : k < l => at[k] < at[l]
           /\ callbackEnds[k].ctx = stack[at[k]].ctx /\ callbackEnds[k].end = stack[at[k]].off + 1
  BY DEF Mirrored
<1>2. Len(stack) \in Nat /\ DOMAIN stack = 1 .. Len(stack) /\ (stack = <<>> <=> Len(stack) = 0)
  BY NestLens
<1>3. Len(callbackEnds) \in Nat /\ DOMAIN callbackEnds = 1 .. Len(callbackEnds) /\ (Len(callbackEnds) = 0 => callbackEnds = <<>>)
  BY NestLens, EmptySeq DEF Typed
<1>4. ASSUME stack = <<>> PROVE callbackEnds = <<>>
  <2>1. \A k \in DOMAIN callbackEnds : at[k] \in {}
    BY <1>1, <1>2, <1>4
  <2>2. QED
    BY <2>1, <1>3
<1>5. ASSUME stack # <<>>, Last(stack).kind = "callback"
      PROVE  /\ callbackEnds # <<>> /\ Last(callbackEnds).ctx = Last(stack).ctx /\ Last(callbackEnds).end = Last(stack).off + 1
             /\ Len(callbackEnds) > 0
  <2>1. Last(stack) = stack[Len(stack)] /\ Len(stack) \in DOMAIN stack
    BY <1>2, <1>5 DEF Last
  <2>2. PICK k \in DOMAIN at : at[k] = Len(stack)
    BY <1>1, <1>5, <2>1
  <2>3. Len(callbackEnds) \in DOMAIN at /\ k \in 1 .. Len(callbackEnds) /\ DOMAIN at = 1 .. Len(callbackEnds)
    BY <1>1, <1>3, <2>2
  <2>4. k = Len(callbackEnds)
    BY <1>1, <1>2, <2>2, <2>3
  <2>5. callbackEnds # <<>> /\ Last(callbackEnds) = callbackEnds[k]
    BY <1>3, <2>3, <2>4, EmptySeq DEF Last, Typed
  <2>6. QED
    BY <2>5, <2>1, <2>2, <2>3, <1>1, <1>3
<1>6. QED
  BY <1>4, <1>5

LEMMA MirrorShrinks ==
  ASSUME Typed, Mirrored, stack # <<>>, DOMAIN stack' = 1 .. Len(stack) - 1,
         \A i \in 1 .. Len(stack) - 1 : stack'[i].kind = stack[i].kind /\ stack'[i].ctx = stack[i].ctx /\ stack'[i].off = stack[i].off,
         callbackEnds' = IF Last(stack).kind = "callback" THEN Front(callbackEnds) ELSE callbackEnds
  PROVE  Mirrored'
<1>1. PICK at \in [DOMAIN callbackEnds -> DOMAIN stack] :
        /\ \A i \in DOMAIN stack : stack[i].kind = "callback" <=> \E k \in DOMAIN at : at[k] = i
        /\ \A k \in DOMAIN at :
           /\ \A l \in DOMAIN at : k < l => at[k] < at[l]
           /\ callbackEnds[k].ctx = stack[at[k]].ctx /\ callbackEnds[k].end = stack[at[k]].off + 1
  BY DEF Mirrored
<1>2. Len(stack) \in Nat \ {0} /\ DOMAIN stack = 1 .. Len(stack) /\ Last(stack) = stack[Len(stack)]
  BY NestLens DEF Last
<1>3. Len(callbackEnds) \in Nat /\ DOMAIN callbackEnds = 1 .. Len(callbackEnds) /\ DOMAIN at = 1 .. Len(callbackEnds)
  BY <1>1, NestLens
<1>4. PICK m : m = IF Last(stack).kind = "callback" THEN Len(callbackEnds) - 1 ELSE Len(callbackEnds)
  OBVIOUS
<1>5. m \in Nat /\ m <= Len(callbackEnds) /\ DOMAIN callbackEnds' = 1 .. m
      /\ \A k \in 1 .. m : k \in DOMAIN at /\ callbackEnds'[k] = callbackEnds[k]
  <2>1. CASE Last(stack).kind = "callback"
    <3>1. Len(callbackEnds) > 0 /\ callbackEnds # <<>>
      BY <2>1, MirrorTop
    <3>2. DOMAIN callbackEnds' = 1 .. Len(callbackEnds) - 1 /\ \A k \in 1 .. Len(callbackEnds) - 1 : callbackEnds'[k] = callbackEnds[k]
      BY <2>1, <3>1, NestFront DEF Typed
    <3>3. QED
      BY <3>1, <3>2, <2>1, <1>3, <1>4
  <2>2. CASE Last(stack).kind # "callback"
    BY <2>2, <1>3, <1>4
  <2>3. QED
    BY <2>1, <2>2
<1>6. \A k \in 1 .. m : at[k] # Len(stack)
  <2> SUFFICES ASSUME NEW k \in 1 .. m, at[k] = Len(stack) PROVE FALSE
    OBVIOUS
  <2>1. Last(stack).kind = "callback"
    BY <1>1, <1>2, <1>5
  <2>2. k < Len(callbackEnds) /\ Len(callbackEnds) \in DOMAIN at
    BY <2>1, <1>3, <1>4, <1>5
  <2>3. k \in DOMAIN at /\ at[k] < at[Len(callbackEnds)]
    BY <2>2, <1>1, <1>5
  <2>4. at[Len(callbackEnds)] \in 1 .. Len(stack)
    BY <2>2, <1>1, <1>2
  <2>5. QED
    BY <2>3, <2>4, <1>2
<1>7. \A i \in 1 .. Len(stack) - 1 : \A k \in DOMAIN at : at[k] = i => k \in 1 .. m
  <2> SUFFICES ASSUME NEW i \in 1 .. Len(stack) - 1, NEW k \in DOMAIN at, at[k] = i, k \notin 1 .. m PROVE FALSE
    OBVIOUS
  <2>0. m # Len(callbackEnds) /\ k \in 1 .. Len(callbackEnds)
    BY <1>3
  <2>A. Last(stack).kind = "callback" /\ m = Len(callbackEnds) - 1
    BY <2>0, <1>4
  <2>B. k = Len(callbackEnds)
    BY <2>0, <2>A, <1>3
  <2>1. Last(stack).kind = "callback" /\ k = Len(callbackEnds)
    BY <2>A, <2>B
  <2>2. PICK l \in DOMAIN at : at[l] = Len(stack)
    BY <2>1, <1>1, <1>2
  <2>3. l \in 1 .. Len(callbackEnds) /\ l # k
    BY <2>2, <1>2, <1>3
  <2>4. QED
    BY <2>1, <2>2, <2>3, <1>1, <1>2, <1>3
<1>8. PICK down : down = [k \in 1 .. m |-> at[k]]
  OBVIOUS
<1>9. DOMAIN down = 1 .. m /\ \A k \in 1 .. m : down[k] = at[k] /\ at[k] \in 1 .. Len(stack) - 1
  BY <1>1, <1>2, <1>5, <1>6, <1>8
<1>10. down \in [DOMAIN callbackEnds' -> DOMAIN stack']
  BY <1>5, <1>8, <1>9
<1>11. \A i \in DOMAIN stack' : stack'[i].kind = "callback" <=> \E k \in DOMAIN down : down[k] = i
  <2> SUFFICES ASSUME NEW i \in 1 .. Len(stack) - 1 PROVE stack[i].kind = "callback" <=> \E k \in DOMAIN down : down[k] = i
    OBVIOUS
  <2>1. stack[i].kind = "callback" <=> \E k \in DOMAIN at : at[k] = i
    BY <1>1, <1>2
  <2>2. QED
    BY <2>1, <1>5, <1>7, <1>9
<1>12. ASSUME NEW k \in DOMAIN down
       PROVE  /\ \A l \in DOMAIN down : k < l => down[k] < down[l]
              /\ callbackEnds'[k].ctx = stack'[down[k]].ctx /\ callbackEnds'[k].end = stack'[down[k]].off + 1
  <2>1. k \in 1 .. m /\ k \in DOMAIN at /\ down[k] = at[k] /\ callbackEnds'[k] = callbackEnds[k] /\ at[k] \in 1 .. Len(stack) - 1
    BY <1>5, <1>9
  <2>2. callbackEnds[k].ctx = stack[at[k]].ctx /\ callbackEnds[k].end = stack[at[k]].off + 1
    BY <2>1, <1>1
  <2>3. stack'[at[k]].ctx = stack[at[k]].ctx /\ stack'[at[k]].off = stack[at[k]].off
    BY <2>1
  <2>4. \A l \in DOMAIN down : k < l => down[k] < down[l]
    BY <2>1, <1>1, <1>5, <1>9
  <2>5. QED
    BY <2>1, <2>2, <2>3, <2>4
<1>13. QED
  BY <1>10, <1>11, <1>12 DEF Mirrored
------------------------------------------------------------------------------
(* A call is pushed, by an operation or by the handler on top. *)
LEMMA CallPushed ==
  ASSUME NEW n \in Nat, SoundAt(n), Typed, Mirrored, ~torn, Len(stack) = n, Len(dcp) = n, Silent(toDcp), Silent(fromDcp),
         NEW name \in CallNames, PushCall(name),
         n = 0 => callbackEnds = <<>> /\ script # <<>> /\ name = Head(script) /\ name # "wait",
         n # 0 => /\ callbackEnds # <<>> /\ Last(callbackEnds).ctx = "callback" /\ Last(callbackEnds).end = n - 1
                  /\ name = "nested" /\ stack[n].kind = "callback" /\ dcp[n].kind = "wait"
  PROVE  Sound'
<1>1. PICK c, o : c = (IF n = 0 THEN "command" ELSE "callback") /\ o = (IF n = 0 THEN 0 ELSE n - 1)
  OBVIOUS
<1>2. CommandPlace(callbackEnds) = <<c, o>> /\ c \in {"command", "callback"} /\ o \in Nat
  BY <1>1 DEF CommandPlace
<1>3. PICK f : f = [kind |-> "call", id |-> ids + 1, name |-> name, ctx |-> c, off |-> o, len |-> Length(name)]
  OBVIOUS
<1>4. /\ ids \in Nat /\ swap \in Nat /\ Length(name) \in {1, 2} /\ (name = "nested" => Length(name) = 1)
      /\ {swap, lastSwap} \cup queuedSwaps \cup doneSwaps \subseteq 0 .. ids
  BY DEF Typed, Length, SoundAt, SwapsOK
<1>5. /\ f \in CallFrames /\ CallMessage(f) \in Outward /\ f.kind = "call" /\ f.id = ids + 1 /\ f.ctx = c /\ f.off = o
      /\ f.name = name /\ f.len = Length(name) /\ CallMessage(f).ctx = c
  BY <1>2, <1>3, <1>4 DEF CallFrames, CallMessage, Outward
<1>6. /\ stack' = Append(stack, f) /\ toDcp' = Append(toDcp, CallMessage(f)) /\ ids' = ids + 1
      /\ shmem' = Written(Blocks("tx", o, Length(name)), <<"request", ids + 1>>)
      /\ callbackEnds' = callbackEnds /\ script' = script /\ swap' = swap /\ lastSwap' = lastSwap /\ fromDcp' = fromDcp
      /\ torn' = torn /\ dcp' = dcp /\ queuedSwaps' = queuedSwaps /\ doneSwaps' = doneSwaps
  BY <1>2, <1>3, <1>5 DEF PushCall, TxArea, CallMessage, swapVars, fwVars
<1>7. /\ Len(stack') = n + 1 /\ DOMAIN stack' = 1 .. n + 1 /\ stack'[n + 1] = f /\ \A i \in 1 .. n : stack'[i] = stack[i]
      /\ DOMAIN stack = 1 .. n /\ stack' \in Seq(CallFrames \cup SyncFrames \cup {WaitFrame, Completion(swap)})
  <2>1. PICK S : S = CallFrames \cup SyncFrames \cup {WaitFrame, Completion(swap)}
    OBVIOUS
  <2>2. stack \in Seq(S) /\ f \in S
    BY <2>1, <1>5 DEF Typed
  <2>3. QED
    BY <2>1, <2>2, <1>6, NestAppend
<1>8. Typed'
  BY <1>4, <1>5, <1>6, <1>7, NestAppend DEF Typed, WaitFrame, Completion
<1>9. Mirrored'
  BY <1>5, <1>6, <1>7, MirrorKeeps
<1>10. ShapeOK(n + 1)'
  BY <1>7 DEF ShapeOK
<1>11. ChainOK(n + 1)'
  <2>1. \A i \in 1 .. n + 1 : Placed(stack'[i], i)
    <3>1. Placed(f, n + 1)
      BY <1>1, <1>5 DEF Placed
    <3>2. \A i \in 1 .. n : Placed(stack[i], i)
      BY DEF SoundAt, ChainOK
    <3>3. QED
      BY <3>1, <3>2, <1>7
  <2>2. \A i \in 1 .. n + 1 : stack'[i] \in CallFrames \cup SyncFrames
    BY <1>5, <1>7 DEF SoundAt, ChainOK
  <2>3. \A i \in 1 .. n + 1 : i = 1 => stack'[i].kind = "call"
    BY <1>5, <1>7 DEF SoundAt, ChainOK
  <2>4. \A i \in 1 .. n + 1 : i > 1 /\ stack'[i].kind = "call" => stack'[i].len = 1 /\ stack'[i].name = "nested"
    BY <1>4, <1>5, <1>7 DEF SoundAt, ChainOK
  <2>5. \A i \in 1 .. n + 1 : i < n + 1 => (stack'[i].kind = "call" <=> stack'[i + 1].kind = "callback")
    <3> TAKE i \in 1 .. n + 1
    <3> HAVE i < n + 1
    <3>1. i \in 1 .. n
      OBVIOUS
    <3>2. CASE i = n
      BY <3>2, <1>5, <1>7
    <3>3. CASE i < n
      <4>1. i + 1 \in 1 .. n /\ stack'[i] = stack[i] /\ stack'[i + 1] = stack[i + 1]
        BY <3>1, <3>3, <1>7
      <4>2. stack[i].kind = "call" <=> stack[i + 1].kind = "callback"
        BY <3>1, <3>3 DEF SoundAt, ChainOK
      <4>3. QED
        BY <4>1, <4>2
    <3>4. QED
      BY <3>1, <3>2, <3>3
  <2>6. \A i \in DOMAIN dcp : i \in 1 .. n /\ i <= n /\ stack'[i] = stack[i]
    BY <1>7, NestLens
  <2>7. n + 1 <= Len(stack')
    BY <1>7
  <2>8. QED
    BY SMTT(20), <2>1, <2>2, <2>3, <2>4, <2>5, <2>6, <2>7, <1>6 DEF SoundAt, ChainOK
<1>12. TokenOK(n + 1)'
  <2>1. Lone(toDcp') /\ Has(toDcp', CallMessage(f))
    BY <1>2, <1>5, <1>6, Joins DEF Typed
  <2>2. Lone(fromDcp)
    BY DEF Silent, Lone
  <2>3. CallMessage(f)' = CallMessage(f)
    BY <1>6 DEF CallMessage
  <2>4. Has(toDcp, CallMessage(stack[n + 1]))'
    BY <2>1, <1>6, <1>7 DEF CallMessage
  <2>5. QED
    BY <2>1, <2>2, <2>4, <1>5, <1>6, <1>7 DEF TokenOK
<1>13. OutputsOK(n + 1)'
  <2> SUFFICES ASSUME NEW i \in DOMAIN dcp, dcp[i].kind = "wait" PROVE Output(dcp[i])'
    BY <1>6 DEF OutputsOK
  <2>1. i \in 1 .. n /\ dcp[i] \in DcpJobs /\ dcp[i].off \in Nat
    BY NestLens DEF DcpJobs
  <2>2. Output(dcp[i])
    BY <2>1 DEF SoundAt, OutputsOK
  <2>3. Blocks("callback", dcp[i].off, 1) \cap Blocks("tx", o, Length(name)) = {}
    BY <2>1, <1>2, <1>4, Apart
  <2>4. QED
    BY <2>2, <2>3, <1>6, WritesThere DEF Output
<1>14. ScriptOK(n + 1)'
  <2>1. stack'[1] # WaitFrame
    <3>1. stack'[1] \in CallFrames \cup SyncFrames
      BY <1>5, <1>7 DEF SoundAt, ChainOK
    <3>2. QED
      BY <3>1, FrameKinds
  <2>2. CASE n = 0
    BY <2>1, <2>2, <1>5, <1>6, <1>7 DEF ScriptOK, WaitFrame
  <2>3. CASE n # 0
    BY <2>1, <2>3, <1>6, <1>7 DEF SoundAt, ScriptOK, WaitFrame
  <2>4. QED
    BY <2>2, <2>3
<1>15. SwapsOK(n + 1)'
  <2>1. ~Handling
    <3>1. n # 0 => stack[n] \in CallFrames \cup SyncFrames
      BY DEF SoundAt, ChainOK
    <3>2. QED
      BY <3>1, FrameKinds, NestLens DEF Handling
  <2>2. ~Handling'
    <3>1. f # Completion(swap)
      BY <1>5, FrameKinds
    <3>2. QED
      BY <3>1, <1>6, <1>7 DEF Handling, Completion
  <2>3. Unseen' <=> Unseen
    BY <2>1, <2>2, <1>6 DEF Unseen, Calm
  <2>4. script = Submit => swap \notin doneSwaps /\ queuedSwaps = {} /\ lastSwap # swap
    BY NestLens DEF SoundAt, SwapsOK
  <2>5. stack'[1].name = "begin" => stack'[1].id \in (1 .. ids') \ (doneSwaps \cup {lastSwap})
    <3>1. CASE n = 0
      BY <3>1, <1>4, <1>5, <1>6, <1>7
    <3>2. CASE n # 0
      BY <3>2, <1>4, <1>6, <1>7 DEF SoundAt, SwapsOK
    <3>3. QED
      BY <3>1, <3>2
  <2>6. {swap, lastSwap} \cup queuedSwaps \cup doneSwaps \subseteq 0 .. ids'
    BY <1>4, <1>6
  <2>7. QED
    BY <2>1, <2>2, <2>3, <2>4, <2>5, <2>6, <1>6 DEF SoundAt, SwapsOK, Swapped, Calm
<1>16. QED
  BY <1>6, <1>8, <1>9, <1>10, <1>11, <1>12, <1>13, <1>14, <1>15 DEF Sound, SoundAt

LEMMA ScriptParts ==
  /\ \A s \in Scripts : s # <<>> =>
       /\ Head(s) \in CallNames /\ Tail(s) \in Scripts
       /\ Head(s) = "begin" => Tail(s) = Submit
       /\ Head(s) = "wait" => s = <<"wait">>
       /\ s = Submit => Tail(s) = <<"wait">> /\ Head(s) = "submit"
       /\ s # Submit /\ Head(s) # "begin" => Tail(s) # Submit /\ Head(s) # "submit"
       /\ s # Submit => Tail(s) # <<"wait">>
       /\ Head(s) \in {"submit", "wait"} => s \in {Submit, <<"wait">>}
  /\ Submit # <<"wait">> /\ Submit # <<>> /\ <<"wait">> # <<>>
<1>1. \A s \in Scripts : s # <<>> => Head(s) = s[1]
  BY DEF Scripts, Submit
<1>2. /\ Tail(<<"colour", "open">>) = <<"open">> /\ Tail(<<"open">>) = <<>>
      /\ Tail(<<"display", "power">>) = <<"power">> /\ Tail(<<"power">>) = <<>>
      /\ Tail(<<"begin", "submit", "wait">>) = Submit /\ Tail(Submit) = <<"wait">> /\ Tail(<<"wait">>) = <<>>
  BY DEF Submit
<1>3. QED
  BY <1>1, <1>2 DEF Scripts, Submit, CallNames

LEMMA CallNextSound == ASSUME Sound, CallNext PROVE Sound'
<1>1. PICK n \in Nat : SoundAt(n)
  BY DEF Sound
<1>2. Typed /\ Mirrored /\ ~torn /\ stack = <<>>
  BY DEF Sound, CallNext
<1>3. n = 0 /\ dcp = <<>> /\ Silent(toDcp) /\ Silent(fromDcp)
  BY <1>1, <1>2, AtRest
<1>4. Len(stack) = n /\ Len(dcp) = n /\ callbackEnds = <<>>
  BY <1>2, <1>3, NestLens, MirrorTop
<1>5. Head(script) \in CallNames
  BY <1>2, ScriptParts DEF CallNext, Typed
<1>6. QED
  BY <1>1, <1>2, <1>3, <1>4, <1>5, CallPushed DEF CallNext

LEMMA CallFromCallbackSound == ASSUME Sound, CallFromCallback PROVE Sound'
<1>1. PICK n \in Nat : SoundAt(n)
  BY DEF Sound
<1>2. Typed /\ Mirrored /\ ~torn /\ stack # <<>> /\ Last(stack).kind = "callback" /\ Last(stack).todo > 0
  BY DEF Sound, CallFromCallback
<1>3. Last(stack) # Completion(swap)
  BY <1>2, FrameKinds
<1>4. /\ Len(stack) = n /\ n > 1 /\ stack[n] = Last(stack) /\ stack[n] \in SyncFrames
      /\ Len(dcp) = n /\ Silent(toDcp) /\ Silent(fromDcp) /\ dcp[n].kind = "wait" /\ stack[n].off = n - 2
  BY <1>1, <1>2, <1>3, InHandler
<1>5. callbackEnds # <<>> /\ Last(callbackEnds).ctx = "callback" /\ Last(callbackEnds).end = n - 1
  BY <1>2, <1>4, MirrorTop, FrameKinds
<1>6. "nested" \in CallNames /\ n # 0 /\ PushCall("nested") /\ stack[n].kind = "callback"
  <2>1. PushCall("nested")
    BY DEF CallFromCallback
  <2>2. n # 0
    BY <1>4
  <2>3. "nested" \in CallNames
    BY DEF CallNames
  <2>4. QED
    BY <2>1, <2>2, <2>3, <1>2, <1>4
<1>7. QED
  BY <1>1, <1>2, <1>4, <1>5, <1>6, CallPushed

------------------------------------------------------------------------------
(* Between calls: an operation begins, the wait for its swap begins and ends. *)
LEMMA InWait ==
  ASSUME NEW n \in Nat, SoundAt(n), Typed, stack # <<>>, Last(stack).kind = "wait"
  PROVE  n = 0 /\ Len(stack) = 1 /\ stack[1] = WaitFrame /\ dcp = <<>> /\ Silent(toDcp) /\ Silent(fromDcp)
<1>1. Last(stack) = stack[Len(stack)] /\ Len(stack) \in Nat \ {0}
  BY NestLens DEF Last
<1>2. Len(stack) # n
  <2> SUFFICES ASSUME Len(stack) = n PROVE FALSE
    OBVIOUS
  <2>1. n \in 1 .. n
    BY <1>1
  <2>2. stack[n] \in CallFrames \cup SyncFrames
    BY <2>1 DEF SoundAt, ChainOK
  <2>3. QED
    BY <2>2, <1>1, FrameKinds
<1>3. ~(Len(stack) = n + 1 /\ stack[n + 1] = Completion(swap))
  BY <1>1, FrameKinds
<1>4. n = 0 /\ Len(stack) = 1 /\ stack[1] = WaitFrame
  BY <1>1, <1>2, <1>3, FrameKinds DEF SoundAt, ShapeOK
<1>5. QED
  BY <1>4, AtRest

LEMMA NoChain ==
  ASSUME Typed', dcp' = <<>>
  PROVE  ChainOK(0)' /\ OutputsOK(0)'
<1>1. DOMAIN dcp' = {} /\ Len(stack') \in Nat
  BY LenProperties, EmptySeq DEF Typed
<1>2. QED
  BY <1>1 DEF ChainOK, OutputsOK

LEMMA BeginSound == ASSUME Sound, NEW op \in Operations, Begin(op) PROVE Sound'
<1>1. PICK n \in Nat : SoundAt(n)
  BY DEF Sound
<1>2. Typed /\ Mirrored /\ ~torn /\ stack = <<>> /\ script = <<>>
  BY DEF Sound, Begin
<1>3. n = 0 /\ dcp = <<>> /\ Silent(toDcp) /\ Silent(fromDcp)
  BY <1>1, <1>2, AtRest
<1>4. /\ stack' = stack /\ callbackEnds' = callbackEnds /\ swap' = swap /\ lastSwap' = lastSwap /\ ids' = ids /\ toDcp' = toDcp
      /\ fromDcp' = fromDcp /\ torn' = torn /\ dcp' = dcp /\ queuedSwaps' = queuedSwaps /\ doneSwaps' = doneSwaps /\ script' = Script(op)
  BY DEF Begin, memVars, fwVars
<1>5. script' \in Scripts /\ script' # Submit
  BY <1>4, IomfbAssumption DEF Script, Scripts, Submit
<1>6. Typed'
  BY <1>2, <1>4, <1>5 DEF Typed, WaitFrame, Completion
<1>7. Mirrored'
  BY <1>2, <1>4 DEF Mirrored
<1>8. ShapeOK(0)' /\ TokenOK(0)' /\ ScriptOK(0)'
  BY <1>1, <1>2, <1>3, <1>4 DEF SoundAt, ShapeOK, TokenOK, ScriptOK, Silent, Lone
<1>9. ChainOK(0)' /\ OutputsOK(0)'
  BY <1>3, <1>4, <1>6, NoChain
<1>10. SwapsOK(0)'
  <2>1. Unseen' <=> Unseen
    BY <1>4 DEF Unseen, Handling, Completion, Calm
  <2>2. queuedSwaps = {} /\ ~Unseen
    BY <1>1, <1>2 DEF SoundAt, SwapsOK, Submit
  <2>3. Handling' <=> Handling
    BY <1>4 DEF Handling, Completion
  <2>4. QED
    BY <1>1, <1>3, <1>4, <1>5, <2>1, <2>2, <2>3 DEF SoundAt, SwapsOK, Calm, Swapped
<1>11. QED
  BY <1>2, <1>4, <1>6, <1>7, <1>8, <1>9, <1>10 DEF Sound, SoundAt

LEMMA WaitSwapSound == ASSUME Sound, WaitSwap PROVE Sound'
<1>1. PICK n \in Nat : SoundAt(n)
  BY DEF Sound
<1>2. Typed /\ Mirrored /\ ~torn /\ stack = <<>> /\ script # <<>> /\ Head(script) = "wait"
  BY DEF Sound, WaitSwap
<1>3. n = 0 /\ dcp = <<>> /\ Silent(toDcp) /\ Silent(fromDcp)
  BY <1>1, <1>2, AtRest
<1>4. /\ callbackEnds' = callbackEnds /\ swap' = swap /\ lastSwap' = lastSwap /\ ids' = ids /\ toDcp' = toDcp
      /\ fromDcp' = fromDcp /\ torn' = torn /\ dcp' = dcp /\ queuedSwaps' = queuedSwaps /\ doneSwaps' = doneSwaps /\ script' = script
      /\ stack' = <<WaitFrame>>
  BY DEF WaitSwap, memVars, fwVars, swapVars, WaitFrame
<1>5. /\ Len(stack') = 1 /\ stack'[1] = WaitFrame /\ WaitFrame' = WaitFrame /\ stack' # <<>> /\ DOMAIN stack' = 1 .. 1
      /\ stack' \in Seq(CallFrames \cup SyncFrames \cup {WaitFrame, Completion(swap)})
  BY <1>4 DEF WaitFrame
<1>6. Typed'
  BY <1>2, <1>4, <1>5 DEF Typed, WaitFrame, Completion
<1>7. Mirrored'
  <2>1. Len(stack) = 0 /\ WaitFrame.kind # "callback"
    BY <1>2, NestLens, FrameKinds
  <2>2. QED
    BY <2>1, <1>2, <1>4, <1>5, MirrorKeeps
<1>8. ShapeOK(0)' /\ TokenOK(0)' /\ ScriptOK(0)'
  <2>1. script = <<"wait">>
    BY <1>2, ScriptParts DEF Typed
  <2>2. QED
    BY <2>1, <1>1, <1>3, <1>4, <1>5 DEF SoundAt, ShapeOK, TokenOK, ScriptOK, Silent, Lone
<1>9. ChainOK(0)' /\ OutputsOK(0)'
  BY <1>3, <1>4, <1>6, NoChain
<1>10. SwapsOK(0)'
  <2>1. ~Handling /\ ~Handling'
    BY <1>2, <1>5, FrameKinds DEF Handling, Completion, WaitFrame
  <2>2. Unseen' <=> Unseen
    BY <1>4, <2>1 DEF Unseen, Calm
  <2>3. script # Submit
    BY <1>2, ScriptParts DEF Typed
  <2>4. QED
    BY <1>1, <1>3, <1>4, <2>1, <2>2, <2>3 DEF SoundAt, SwapsOK, Calm, Swapped
<1>11. QED
  BY <1>2, <1>4, <1>6, <1>7, <1>8, <1>9, <1>10 DEF Sound, SoundAt

LEMMA SwapSeenSound == ASSUME Sound, SwapSeen PROVE Sound'
<1>1. PICK n \in Nat : SoundAt(n)
  BY DEF Sound
<1>2. Typed /\ Mirrored /\ ~torn /\ stack # <<>> /\ Last(stack).kind = "wait" /\ lastSwap = swap
  BY DEF Sound, SwapSeen
<1>3. n = 0 /\ Len(stack) = 1 /\ stack[1] = WaitFrame /\ dcp = <<>> /\ Silent(toDcp) /\ Silent(fromDcp)
  BY <1>1, <1>2, InWait
<1>4. /\ callbackEnds' = callbackEnds /\ swap' = swap /\ lastSwap' = lastSwap /\ ids' = ids /\ toDcp' = toDcp
      /\ fromDcp' = fromDcp /\ torn' = torn /\ dcp' = dcp /\ queuedSwaps' = queuedSwaps /\ doneSwaps' = doneSwaps /\ script' = <<>>
      /\ stack' = <<>>
  BY DEF SwapSeen, memVars, fwVars
<1>5. Len(stack') = 0 /\ DOMAIN stack' = 1 .. 0 /\ stack' \in Seq(CallFrames \cup SyncFrames \cup {WaitFrame, Completion(swap)})
  BY <1>4
<1>6. Typed'
  BY <1>2, <1>4, <1>5 DEF Typed, WaitFrame, Completion, Scripts
<1>7. Mirrored'
  BY <1>2, <1>3, <1>4, <1>5, MirrorShrinks
<1>8. ShapeOK(0)' /\ TokenOK(0)' /\ ScriptOK(0)'
  BY <1>1, <1>3, <1>4, <1>5 DEF SoundAt, ShapeOK, TokenOK, ScriptOK, Silent, Lone
<1>9. ChainOK(0)' /\ OutputsOK(0)'
  BY <1>3, <1>4, <1>6, NoChain
<1>10. SwapsOK(0)'
  <2>1. ~Handling /\ ~Handling'
    BY <1>3, <1>4, FrameKinds DEF Handling, Completion, WaitFrame
  <2>2. Unseen' <=> Unseen
    BY <1>4, <2>1 DEF Unseen, Calm
  <2>3. queuedSwaps = {} /\ ~Unseen
    BY <1>1, <1>2 DEF SoundAt, SwapsOK
  <2>4. script' # Submit
    BY <1>4 DEF Submit
  <2>5. QED
    BY <1>1, <1>3, <1>4, <2>1, <2>2, <2>3, <2>4 DEF SoundAt, SwapsOK, Calm, Swapped
<1>11. QED
  BY <1>2, <1>4, <1>6, <1>7, <1>8, <1>9, <1>10 DEF Sound, SoundAt

(* A late acknowledgement is of a call left by an error. *)
LEMMA NoLateAck == ASSUME Sound, DropAck PROVE FALSE
<1>1. PICK n \in Nat : SoundAt(n)
  BY DEF Sound
<1>2. Typed /\ Mirrored /\ ~torn /\ Listening /\ fromDcp # <<>> /\ Message.type = "ack" /\ ~Awaited
  BY DEF Sound, DropAck
<1>3. Message \in Inward /\ ~Silent(fromDcp) /\ Message = Head(fromDcp)
  <2>1. Message = Head(fromDcp) /\ Message \in Inward
    BY <1>2, NestTail DEF Typed, Message
  <2>2. Message.ctx # "async"
    BY <2>1, <1>2 DEF Inward, Swapped
  <2>3. QED
    BY <2>1, <2>2, <1>2, Leaves DEF Typed
<1>4. stack # <<>> /\ Last(stack).kind = "call"
  BY <1>1, <1>2, <1>3, AtRest, InWait DEF Listening, Waiting
<1>5. Len(stack) = n /\ n > 0 /\ stack[n] = Last(stack) /\ stack[n].kind = "call" /\ stack[n].ctx # "async"
  BY <1>1, <1>2, <1>4, InCall, FrameKinds
<1>6. ~(Len(dcp) = n + 1 /\ dcp[n + 1].kind = "wait" /\ Has(fromDcp, CallbackMessage(dcp[n + 1])))
  <2> SUFFICES ASSUME Has(fromDcp, CallbackMessage(dcp[n + 1])) PROVE FALSE
    OBVIOUS
  <2>1. CallbackMessage(dcp[n + 1]).ctx # "async" /\ CallbackMessage(dcp[n + 1]).type # "ack"
    BY DEF CallbackMessage
  <2>2. Message.ctx # "async"
    BY <1>2, <1>3 DEF Inward, Swapped
  <2>3. CallbackMessage(dcp[n + 1]) = Message
    BY <2>1, <2>2, <1>1, <1>2, <1>3, Leaves DEF Typed, SoundAt, TokenOK
  <2>4. QED
    BY <2>1, <2>3, <1>2
<1>7. Has(fromDcp, Acked(stack[n].ctx))
  BY <1>1, <1>3, <1>6 DEF SoundAt, TokenOK
<1>8. Message = Acked(stack[n].ctx)
  <2>1. Acked(stack[n].ctx).ctx # "async" /\ Message.ctx # "async"
    BY <1>2, <1>3, <1>5 DEF Acked, Inward, Swapped
  <2>2. QED
    BY <2>1, <1>7, <1>1, <1>2, <1>3, Leaves DEF Typed, SoundAt, TokenOK
<1>9. QED
  BY <1>2, <1>4, <1>5, <1>8 DEF Awaited, Acked
------------------------------------------------------------------------------
(* A handler is done. *)
LEMMA SyncFinishSound ==
  ASSUME Sound, FinishCallback, Last(stack) # Completion(swap)
  PROVE  Sound'
<1>1. PICK n \in Nat : SoundAt(n)
  BY DEF Sound
<1>2. Typed /\ Mirrored /\ ~torn /\ stack # <<>> /\ Last(stack).kind = "callback"
  BY DEF Sound, FinishCallback
<1>3. /\ Len(stack) = n /\ n > 1 /\ stack[n] = Last(stack) /\ stack[n] \in SyncFrames
      /\ Len(dcp) = n /\ Silent(toDcp) /\ Silent(fromDcp) /\ dcp[n].kind = "wait" /\ stack[n].off = n - 2
  BY <1>1, <1>2, InHandler
<1>4. PICK m \in Nat \ {0} : m = n - 1 /\ m + 1 = n
  <2>1. n - 1 \in Nat \ {0} /\ (n - 1) + 1 = n
    BY <1>3
  <2>2. QED
    BY <2>1
<1>5. /\ callbackEnds' = Front(callbackEnds) /\ swap' = swap /\ ids' = ids /\ script' = script /\ lastSwap' = lastSwap
      /\ fromDcp' = fromDcp /\ torn' = torn /\ shmem' = shmem /\ dcp' = dcp /\ queuedSwaps' = queuedSwaps /\ doneSwaps' = doneSwaps
      /\ stack' = Front(stack) /\ toDcp' = Append(toDcp, Acked("callback")) /\ callbackEnds # <<>>
  <2>1. Last(stack).ctx = "callback" /\ Last(stack).tag # "D589"
    BY <1>3, FrameKinds, IomfbAssumption
  <2>2. callbackEnds # <<>>
    BY <1>2, MirrorTop
  <2>3. QED
    BY <2>1, <2>2 DEF FinishCallback, memVars, fwVars, Acked
<1>6. /\ Len(stack') = m /\ DOMAIN stack' = 1 .. m /\ \A i \in 1 .. m : stack'[i] = stack[i] /\ i \in 1 .. n
      /\ stack' \in Seq(CallFrames \cup SyncFrames \cup {WaitFrame, Completion(swap)})
  <2>1. PICK S : S = CallFrames \cup SyncFrames \cup {WaitFrame, Completion(swap)}
    OBVIOUS
  <2>2. stack \in Seq(S)
    BY <2>1, <1>2 DEF Typed
  <2>3. QED
    BY <2>1, <2>2, <1>2, <1>3, <1>4, <1>5, NestFront
<1>7. Typed'
  <2>1. callbackEnds' \in Seq([ctx : {"callback", "async"}, off : Nat, end : Nat])
    BY <1>2, <1>5, NestFront DEF Typed
  <2>2. Acked("callback") \in Outward
    BY DEF Acked, Outward
  <2>3. toDcp' \in Seq(Outward)
    BY <2>2, <1>2, <1>5, NestAppend DEF Typed
  <2>4. QED
    BY <2>1, <2>3, <1>2, <1>5, <1>6 DEF Typed, WaitFrame, Completion
<1>8. Mirrored'
  BY <1>2, <1>3, <1>4, <1>5, <1>6, MirrorShrinks
<1>9. ShapeOK(m)'
  BY <1>6 DEF ShapeOK
<1>10. ChainOK(m)'
  BY <1>1, <1>2, <1>4, <1>5, <1>6, ChainShorter DEF SoundAt
<1>11. TokenOK(m)'
  <2>1. Lone(toDcp') /\ Has(toDcp', Acked("callback"))
    <3>1. Acked("callback") \in Outward /\ Acked("callback").ctx # "async"
      BY DEF Acked, Outward
    <3>2. QED
      BY <3>1, <1>2, <1>3, <1>5, Joins DEF Typed
  <2>2. Lone(fromDcp)
    BY <1>3 DEF Silent, Lone
  <2>3. Output(dcp[n])
    BY <1>1, <1>3, NestLens, <1>2 DEF SoundAt, OutputsOK
  <2>4. QED
    BY <2>1, <2>2, <2>3, <1>3, <1>4, <1>5 DEF TokenOK, Output, Intact, Acked
<1>12. OutputsOK(m)'
  BY <1>1, <1>4, <1>5, NestLens, <1>2 DEF SoundAt, OutputsOK, Output, Intact
<1>13. ~Handling /\ ~Handling'
  <2>1. stack[m] \in CallFrames \cup SyncFrames
    BY <1>1, <1>6 DEF SoundAt, ChainOK
  <2>2. QED
    BY <2>1, <1>3, <1>4, <1>5, <1>6, FrameKinds DEF Handling, Completion
<1>14. ScriptOK(m)' /\ stack'[1] = stack[1]
  BY <1>1, <1>3, <1>4, <1>5, <1>6, EmptySeq DEF SoundAt, ScriptOK, WaitFrame
<1>15. SwapsOK(m)'
  <2>1. Unseen' <=> Unseen
    BY <1>5, <1>13 DEF Unseen, Calm
  <2>2. script = Submit => swap \notin doneSwaps /\ queuedSwaps = {} /\ lastSwap # swap
    BY <1>1, <1>3 DEF SoundAt, SwapsOK
  <2>3. QED
    BY <2>1, <2>2, <1>1, <1>4, <1>3, <1>5, <1>13, <1>14 DEF SoundAt, SwapsOK, Calm, Swapped
<1>16. QED
  BY <1>2, <1>5, <1>7, <1>8, <1>9, <1>10, <1>11, <1>12, <1>14, <1>15 DEF Sound, SoundAt

LEMMA CompletionFinishSound ==
  ASSUME Sound, FinishCallback, Last(stack) = Completion(swap)
  PROVE  Sound'
<1>1. PICK n \in Nat : SoundAt(n)
  BY DEF Sound
<1>2. Typed /\ Mirrored /\ ~torn /\ stack # <<>> /\ Last(stack) = Completion(swap)
  BY DEF Sound, FinishCallback
<1>3. Len(stack) \in Nat \ {0} /\ Last(stack) = stack[Len(stack)] /\ Handling
  BY <1>2, NestLens DEF Last, Handling
<1>4. PICK m \in Nat : m = Len(stack) - 1 /\ m + 1 = Len(stack)
  <2>1. PICK l \in Nat \ {0} : l = Len(stack)
    BY <1>3
  <2>2. l - 1 \in Nat /\ (l - 1) + 1 = l
    BY <2>1
  <2>3. QED
    BY <2>1, <2>2
<1>5. n <= m
  <2>1. Len(stack) = n => n \in 1 .. n /\ stack[n] \in CallFrames \cup SyncFrames
    BY <1>1, <1>3 DEF SoundAt, ChainOK
  <2>2. Len(stack) # n
    BY <2>1, <1>2, <1>3, FrameKinds
  <2>3. QED
    BY <2>2, <1>1, <1>3, <1>4 DEF SoundAt, ChainOK
<1>6. /\ callbackEnds' = Front(callbackEnds) /\ swap' = swap /\ ids' = ids /\ script' = script /\ lastSwap' = swap
      /\ fromDcp' = fromDcp /\ torn' = torn /\ shmem' = shmem /\ dcp' = dcp /\ queuedSwaps' = queuedSwaps /\ doneSwaps' = doneSwaps
      /\ stack' = Front(stack) /\ toDcp' = Append(toDcp, Acked("async")) /\ callbackEnds # <<>>
  <2>1. Last(stack).ctx = "async" /\ Last(stack).tag = "D589" /\ Last(stack).swap = swap
    BY <1>2 DEF Completion
  <2>2. callbackEnds # <<>>
    BY <1>2, MirrorTop, FrameKinds
  <2>3. QED
    BY <2>1, <2>2 DEF FinishCallback, memVars, fwVars, Acked
<1>7. /\ Len(stack') = m /\ DOMAIN stack' = 1 .. m /\ \A i \in 1 .. m : stack'[i] = stack[i]
      /\ stack' \in Seq(CallFrames \cup SyncFrames \cup {WaitFrame, Completion(swap)})
  <2>1. PICK S : S = CallFrames \cup SyncFrames \cup {WaitFrame, Completion(swap)}
    OBVIOUS
  <2>2. stack \in Seq(S)
    BY <2>1, <1>2 DEF Typed
  <2>3. QED
    BY <2>1, <2>2, <1>2, <1>4, <1>6, NestFront
<1>8. Acked("async") \in Outward /\ Acked("async").ctx = "async"
  BY DEF Acked, Outward
<1>9. Typed'
  <2>1. callbackEnds' \in Seq([ctx : {"callback", "async"}, off : Nat, end : Nat])
    BY <1>2, <1>6, NestFront DEF Typed
  <2>2. toDcp' \in Seq(Outward)
    BY <1>8, <1>2, <1>6, NestAppend DEF Typed
  <2>3. QED
    BY <2>1, <2>2, <1>2, <1>6, <1>7 DEF Typed, WaitFrame, Completion
<1>10. Mirrored'
  BY <1>2, <1>4, <1>6, <1>7, MirrorShrinks, FrameKinds
<1>11. ShapeOK(n)' /\ ~Handling' /\ (stack' # <<>> /\ stack'[1] = WaitFrame <=> stack[1] = WaitFrame)
  <2>1. CASE Len(stack) = n + 1
    <3>1. m = n
      BY <2>1, <1>4
    <3>2. n > 0 => stack'[n] = stack[n] /\ stack[n] \in CallFrames \cup SyncFrames
      BY <3>1, <1>1, <1>7 DEF SoundAt, ChainOK
    <3>3. ~Handling'
      BY <3>1, <3>2, <1>6, <1>7, FrameKinds, EmptySeq DEF Handling, Completion
    <3>4. stack' # <<>> <=> n > 0
      BY <3>1, <1>7, EmptySeq
    <3>5. n > 0 => stack'[1] = stack[1]
      BY <3>1, <1>7
    <3>6. n = 0 => stack[1] # WaitFrame
      <4>1. n = 0 => Len(stack) = 1
        BY <2>1
      <4>2. n = 0 => stack[1] = Completion(swap)
        BY <4>1, <1>3, <1>2
      <4>3. QED
        BY <4>2, FrameKinds
    <3>7. QED
      BY <3>1, <3>3, <3>4, <3>5, <3>6, <1>6, <1>7 DEF ShapeOK, WaitFrame
  <2>2. CASE Len(stack) # n + 1
    <3>1. n = 0 /\ Len(stack) = 2 /\ stack[1] = WaitFrame
      BY <2>2, <1>1, <1>2, <1>3, <1>4, <1>5, FrameKinds DEF SoundAt, ShapeOK
    <3>2. m = 1 /\ stack'[1] = WaitFrame /\ stack' # <<>>
      BY <3>1, <1>4, <1>7, EmptySeq
    <3>3. QED
      BY <3>1, <3>2, <1>6, <1>7, FrameKinds DEF ShapeOK, WaitFrame, Handling, Completion
  <2>3. QED
    BY <2>1, <2>2
<1>12. ChainOK(n)'
  BY <1>1, <1>2, <1>5, <1>6, <1>7, ChainShorter DEF SoundAt
<1>13. TokenOK(n)'
  <2>1. Lone(toDcp') /\ (Silent(toDcp) => Silent(toDcp')) /\ \A y : Has(toDcp, y) => Has(toDcp', y)
    BY <1>8, <1>1, <1>2, <1>6, Joins DEF Typed, SoundAt, TokenOK
  <2>2. n > 0 => stack'[n] = stack[n]
    BY <1>5, <1>7
  <2>3. n = Len(dcp) + 1 => n > 0
    BY <1>2, NestLens
  <2>4. \A f : CallMessage(f)' = CallMessage(f')
    BY <1>6 DEF CallMessage
  <2>5. n > 0 => (CallMessage(stack[n]))' = CallMessage(stack[n])
    BY <2>2, <1>6 DEF CallMessage
  <2>6. QED
    BY SMTT(20), <2>1, <2>2, <2>3, <2>5, <1>1, <1>6 DEF SoundAt, TokenOK, IsReplied, RepliedWith, Output, Intact, Silent, Has
<1>14. OutputsOK(n)'
  BY <1>1, <1>6 DEF SoundAt, OutputsOK, Output, Intact
<1>15. ScriptOK(n)' /\ (n > 0 => stack'[1] = stack[1])
  BY <1>1, <1>2, <1>5, <1>6, <1>7, <1>11 DEF SoundAt, ScriptOK, WaitFrame
<1>16. SwapsOK(n)'
  <2>1. Calm(fromDcp) /\ ~Unseen' /\ Unseen /\ swap \in doneSwaps /\ queuedSwaps = {}
    BY <1>1, <1>3, <1>6, <1>11 DEF Unseen, SoundAt, SwapsOK, Calm
  <2>2. script \in {Submit, <<"wait">>}
    BY <2>1, <1>1 DEF SoundAt, SwapsOK
  <2>3. script = Submit => n = 1 /\ dcp = <<>> /\ Silent(toDcp) /\ RepliedWith(stack[1], "reply")
    BY <2>1, <1>1 DEF SoundAt, SwapsOK
  <2>4. script = Submit => (n = 1 /\ dcp = <<>> /\ Silent(toDcp) /\ RepliedWith(stack[1], "reply"))'
    <3> SUFFICES ASSUME script = Submit PROVE (n = 1 /\ dcp = <<>> /\ Silent(toDcp) /\ RepliedWith(stack[1], "reply"))'
      OBVIOUS
    <3>1. Silent(toDcp')
      BY <2>3, <1>8, <1>2, <1>6, Joins DEF Typed
    <3>2. QED
      BY <3>1, <2>3, <1>6, <1>15 DEF RepliedWith, Intact
  <2>5. n > 0 /\ stack'[1].name = "begin" => FALSE
    BY <2>2, <1>15, <1>6, ScriptParts DEF ScriptOK, Submit
  <2>6. QED
    BY <2>1, <2>4, <2>5, <1>1, <1>6, <1>11, <1>15 DEF SoundAt, SwapsOK, Calm, Swapped
<1>17. QED
  BY <1>2, <1>6, <1>9, <1>10, <1>11, <1>12, <1>13, <1>14, <1>15, <1>16 DEF Sound, SoundAt
LEMMA FinishCallbackSound == ASSUME Sound, FinishCallback PROVE Sound'
  BY SyncFinishSound, CompletionFinishSound
------------------------------------------------------------------------------
(* A message of the coprocessor is taken. *)
LEMMA AfterHead ==
  ASSUME NEW S, NEW s \in Seq(S), s # <<>>,
         \A j, k \in DOMAIN s : s[j].ctx = "async" /\ s[k].ctx = "async" => j = k
  PROVE  /\ Head(s).ctx # "async" => (Calm(Tail(s)) <=> Calm(s))
         /\ Head(s).ctx = "async" => Calm(Tail(s)) /\ ~Calm(s)
         /\ \A j, k \in DOMAIN Tail(s) : Tail(s)[j].ctx = "async" /\ Tail(s)[k].ctx = "async" => j = k
         /\ \A j \in DOMAIN Tail(s) : \E k \in DOMAIN s : Tail(s)[j] = s[k]
<1>1. PICK t : t = Tail(s)
  OBVIOUS
<1>2. /\ Len(s) \in Nat \ {0} /\ DOMAIN s = 1 .. Len(s) /\ Head(s) = s[1] /\ 1 \in DOMAIN s
      /\ DOMAIN t = 1 .. Len(s) - 1 /\ \A i \in DOMAIN t : t[i] = s[i + 1] /\ i + 1 \in DOMAIN s /\ i + 1 # 1
  BY <1>1, NestTail
<1>3. Calm(s) => Calm(t)
  BY <1>2 DEF Calm
<1>4. ASSUME Head(s).ctx # "async", Calm(t) PROVE Calm(s)
  <2> SUFFICES ASSUME NEW j \in DOMAIN s, j # 1 PROVE s[j].ctx # "async"
    BY <1>2, <1>4 DEF Calm
  <2>1. j - 1 \in DOMAIN t /\ (j - 1) + 1 = j
    BY <1>2
  <2>2. t[j - 1] = s[j]
    BY <2>1, <1>2
  <2>3. QED
    BY <2>1, <2>2, <1>4 DEF Calm
<1>5. ASSUME Head(s).ctx = "async" PROVE Calm(t) /\ ~Calm(s)
  BY <1>2, <1>5 DEF Calm
<1>6. \A j, k \in DOMAIN t : t[j].ctx = "async" /\ t[k].ctx = "async" => j = k
  <2> SUFFICES ASSUME NEW j \in DOMAIN t, NEW k \in DOMAIN t, t[j].ctx = "async", t[k].ctx = "async" PROVE j = k
    OBVIOUS
  <2>1. j + 1 = k + 1
    BY <1>2
  <2>2. QED
    BY <2>1, <1>2
<1>7. \A j \in DOMAIN t : \E k \in DOMAIN s : t[j] = s[k]
  BY <1>2
<1>8. QED
  BY <1>1, <1>3, <1>4, <1>5, <1>6, <1>7

LEMMA SyncMessage ==
  ASSUME NEW n \in Nat, SoundAt(n), Typed, fromDcp # <<>>, Head(fromDcp).ctx # "async"
  PROVE  /\ Silent(toDcp) /\ Silent(Tail(fromDcp))
         /\ \/ /\ n = Len(dcp) + 1 /\ stack[n].kind = "call" /\ n > 0
               /\ Head(fromDcp) = Acked(stack[n].ctx) /\ IsReplied(stack[n])
            \/ /\ Len(dcp) = n + 1 /\ dcp[n + 1].kind = "wait" /\ n > 0 /\ stack[n].kind = "call"
               /\ Head(fromDcp) = CallbackMessage(dcp[n + 1])
<1>1. ~Silent(fromDcp) /\ Silent(Tail(fromDcp)) /\ \A y : Has(fromDcp, y) /\ y.ctx # "async" => y = Head(fromDcp)
  BY Leaves DEF Typed, SoundAt, TokenOK
<1>2. CASE n = Len(dcp) + 1 /\ stack[n].kind = "call" /\ Silent(toDcp) /\ Has(fromDcp, Acked(stack[n].ctx)) /\ IsReplied(stack[n])
  <2>1. n > 0 /\ n \in 1 .. n
    BY <1>2, NestLens
  <2>2. stack[n] \in CallFrames \cup SyncFrames
    BY <2>1 DEF SoundAt, ChainOK
  <2>3. Acked(stack[n].ctx).ctx # "async"
    BY <2>2, FrameKinds DEF Acked
  <2>4. QED
    BY <2>1, <2>3, <1>1, <1>2
<1>3. CASE Len(dcp) = n + 1 /\ dcp[n + 1].kind = "wait" /\ Silent(toDcp) /\ Has(fromDcp, CallbackMessage(dcp[n + 1]))
  <2>1. CallbackMessage(dcp[n + 1]).ctx # "async"
    BY DEF CallbackMessage
  <2>2. n > 0 /\ stack[n].kind = "call"
    BY <1>3, TopsMatch DEF SoundAt
  <2>3. QED
    BY <2>1, <2>2, <1>1, <1>3
<1>4. QED
  BY <1>1, <1>2, <1>3 DEF SoundAt, TokenOK

LEMMA SyncTakeSound ==
  ASSUME Sound, TakeCallback, Message.ctx # "async"
  PROVE  Sound'
<1>1. PICK n \in Nat : SoundAt(n)
  BY DEF Sound
<1>2. Typed /\ Mirrored /\ ~torn /\ fromDcp # <<>> /\ Message.type = "callback" /\ Message = Head(fromDcp) /\ Listening
  BY DEF Sound, TakeCallback, Message
<1>3. PICK w : w = dcp[n + 1]
  OBVIOUS
<1>4. /\ Silent(toDcp) /\ Silent(Tail(fromDcp)) /\ Len(dcp) = n + 1 /\ w.kind = "wait" /\ n > 0 /\ stack[n].kind = "call"
      /\ Message = CallbackMessage(w)
  BY <1>1, <1>2, <1>3, SyncMessage DEF Acked
<1>5. n + 1 \in DOMAIN dcp /\ w \in DcpJobs /\ w.id \in Nat /\ w.name \in Tags /\ w.off = n - 1 /\ n - 1 \in Nat /\ w.ctx = "callback"
  <2>1. n + 1 \in DOMAIN dcp /\ w \in DcpJobs /\ n - 1 \in Nat
    BY <1>2, <1>3, <1>4, NestLens
  <2>2. Placed(w, n + 1)
    BY <1>1, <1>3, <2>1 DEF SoundAt, ChainOK
  <2>3. w.off = n - 1 /\ w.ctx = "callback"
    BY <1>4, <2>2 DEF Placed
  <2>4. QED
    BY <2>1, <2>3, <1>4 DEF DcpJobs
<1>6. Len(stack) = n
  <2>1. stack # <<>>
    BY <1>1, <1>2, <1>4, NestLens DEF SoundAt, ChainOK
  <2>2. Last(stack).kind # "wait"
    BY <2>1, <1>1, <1>2, <1>4, InWait
  <2>3. Last(stack).kind = "call"
    BY <2>1, <2>2, <1>2 DEF Listening, Waiting
  <2>4. QED
    BY <2>1, <2>3, <1>1, <1>2, InCall
<1>7. PICK f, e : /\ f = [kind |-> "callback", id |-> w.id, tag |-> w.name, ctx |-> "callback", off |-> w.off, todo |-> Nested(w.name), swap |-> 0]
                  /\ e = [ctx |-> "callback", off |-> w.off, end |-> w.off + 1]
  OBVIOUS
<1>8. /\ f \in SyncFrames /\ e \in [ctx : {"callback", "async"}, off : Nat, end : Nat]
      /\ f.kind = "callback" /\ f.id = w.id /\ f.off = w.off /\ f.ctx = "callback" /\ e.ctx = f.ctx /\ e.end = f.off + 1
  BY <1>5, <1>7 DEF SyncFrames, Nested
<1>9. /\ stack' = Append(stack, f) /\ callbackEnds' = Append(callbackEnds, e) /\ swap' = swap /\ ids' = ids /\ script' = script
      /\ lastSwap' = lastSwap /\ fromDcp' = Tail(fromDcp) /\ toDcp' = toDcp /\ torn' = torn /\ dcp' = dcp
      /\ queuedSwaps' = queuedSwaps /\ doneSwaps' = doneSwaps /\ shmem' = Written(Blocks("callback", n - 1, 1), <<"output", w.id>>)
  BY <1>4, <1>5, <1>7 DEF TakeCallback, Handle, CallbackMessage, ChannelArea, swapVars, fwVars
<1>10. /\ Len(stack') = n + 1 /\ DOMAIN stack' = 1 .. n + 1 /\ stack'[n + 1] = f /\ \A i \in 1 .. n : stack'[i] = stack[i]
       /\ stack' \in Seq(CallFrames \cup SyncFrames \cup {WaitFrame, Completion(swap)})
  BY <1>2, <1>6, <1>8, <1>9, FramePushed
<1>11. /\ callbackEnds' \in Seq([ctx : {"callback", "async"}, off : Nat, end : Nat]) /\ DOMAIN callbackEnds' = 1 .. Len(callbackEnds) + 1
       /\ callbackEnds'[Len(callbackEnds) + 1] = e /\ \A i \in 1 .. Len(callbackEnds) : callbackEnds'[i] = callbackEnds[i]
  BY <1>2, <1>8, <1>9, NestAppend DEF Typed
<1>12. Typed'
  <2>1. fromDcp' \in Seq(Inward)
    BY <1>2, <1>9, NestTail DEF Typed
  <2>2. QED
    BY <2>1, <1>2, <1>9, <1>10, <1>11 DEF Typed, WaitFrame, Completion
<1>13. Mirrored'
  BY <1>2, <1>6, <1>8, <1>10, <1>11, MirrorGrows
<1>14. ShapeOK(n + 1)' /\ TokenOK(n + 1)' /\ ScriptOK(n + 1)'
  <2>1. stack'[1] = stack[1] /\ stack[1] # WaitFrame
    <3>1. 1 \in 1 .. n
      BY <1>4
    <3>2. stack[1] \in CallFrames \cup SyncFrames
      BY <3>1, <1>1 DEF SoundAt, ChainOK
    <3>3. QED
      BY <3>1, <3>2, <1>10, FrameKinds
  <2>2. ShapeOK(n + 1)'
    BY <1>10 DEF ShapeOK
  <2>3. TokenOK(n + 1)'
    BY <1>4, <1>9 DEF TokenOK, Silent, Lone
  <2>4. ScriptOK(n + 1)'
    BY <2>1, <1>1, <1>4, <1>9 DEF SoundAt, ScriptOK, WaitFrame
  <2>5. QED
    BY <2>2, <2>3, <2>4
<1>15. ChainOK(n + 1)'
  <2>1. DOMAIN dcp = 1 .. n + 1 /\ n + 1 <= Len(stack')
    BY <1>2, <1>4, <1>10, NestLens
  <2>2. Placed(f, n + 1)
    BY <1>4, <1>5, <1>8 DEF Placed
  <2>3. ASSUME NEW i \in 1 .. n
        PROVE  /\ stack'[i] \in CallFrames \cup SyncFrames
               /\ Placed(stack'[i], i) /\ (i = 1 => stack'[i].kind = "call")
               /\ i > 1 /\ stack'[i].kind = "call" => stack'[i].len = 1 /\ stack'[i].name = "nested"
    BY <1>1, <1>10 DEF SoundAt, ChainOK
  <2>4. ASSUME NEW i \in 1 .. n
        PROVE  stack'[i].kind = "call" <=> stack'[i + 1].kind = "callback"
    <3>1. CASE i = n
      BY <3>1, <1>4, <1>8, <1>10
    <3>2. CASE i < n
      <4>1. i + 1 \in 1 .. n
        BY <3>2
      <4>2. QED
        BY <4>1, <3>2, <1>1, <1>10 DEF SoundAt, ChainOK
    <3>3. QED
      BY <3>1, <3>2
  <2>5. ASSUME NEW i \in 1 .. n + 1
        PROVE  /\ stack'[i].id = dcp[i].id
               /\ stack'[i].kind = "call" <=> dcp[i].kind = "run"
               /\ stack'[i].kind = "call" => stack'[i].len = dcp[i].len /\ stack'[i].name = dcp[i].name
    <3>1. CASE i = n + 1
      BY <3>1, <1>3, <1>4, <1>8, <1>10
    <3>2. CASE i # n + 1
      <4>1. i \in 1 .. n /\ i \in DOMAIN dcp /\ i <= n
        BY <3>2, <2>1
      <4>2. stack'[i] = stack[i]
        BY <4>1, <1>10
      <4>3. QED
        BY <4>1, <4>2, <1>1 DEF SoundAt, ChainOK
    <3>3. QED
      BY <3>1, <3>2
  <2>6. ASSUME NEW i \in 1 .. n + 1
        PROVE  /\ stack'[i] \in CallFrames \cup SyncFrames
               /\ Placed(stack'[i], i) /\ (i = 1 => stack'[i].kind = "call")
               /\ i > 1 /\ stack'[i].kind = "call" => stack'[i].len = 1 /\ stack'[i].name = "nested"
               /\ i < n + 1 => (stack'[i].kind = "call" <=> stack'[i + 1].kind = "callback")
    <3>1. CASE i = n + 1
      BY <3>1, <2>2, <1>4, <1>8, <1>10
    <3>2. CASE i # n + 1
      <4>1. i \in 1 .. n
        BY <3>2
      <4>2. QED
        BY <4>1, <2>3, <2>4
    <3>3. QED
      BY <3>1, <3>2
  <2>7. \A i \in DOMAIN dcp :
       /\ Placed(dcp[i], i) /\ (i = 1 => dcp[i].kind = "run") /\ (i > 1 => dcp[i].len = 1)
       /\ i < Len(dcp) => (dcp[i].kind = "run" <=> dcp[i + 1].kind = "wait")
    BY <1>1 DEF SoundAt, ChainOK
  <2>8. ASSUME NEW i \in DOMAIN dcp
        PROVE  /\ Placed(dcp[i], i) /\ (i = 1 => dcp[i].kind = "run") /\ (i > 1 => dcp[i].len = 1)
               /\ i < Len(dcp) => (dcp[i].kind = "run" <=> dcp[i + 1].kind = "wait")
               /\ i <= n + 1 => /\ stack'[i].id = dcp[i].id
                                /\ stack'[i].kind = "call" <=> dcp[i].kind = "run"
                                /\ stack'[i].kind = "call" => stack'[i].len = dcp[i].len /\ stack'[i].name = dcp[i].name
    <3>1. i \in 1 .. n + 1
      BY <2>1, <2>8
    <3>2. QED
      BY <3>1, <2>5, <2>7, <2>8
  <2>9. dcp' = dcp
    BY <1>9
  <2>10. QED
    BY <2>1, <2>6, <2>8, <2>9 DEF ChainOK
<1>16. OutputsOK(n + 1)'
  <2> SUFFICES ASSUME NEW i \in DOMAIN dcp, dcp[i].kind = "wait" PROVE Output(dcp[i])'
    BY <1>9 DEF OutputsOK
  <2>1. i \in 1 .. n + 1 /\ dcp[i] \in DcpJobs /\ dcp[i].off \in Nat
    BY <1>2, <1>4, NestLens DEF DcpJobs
  <2>2. i > 1 /\ dcp[i].off = i - 2
    BY <2>1, <1>1 DEF SoundAt, ChainOK, Placed
  <2>3. CASE i = n + 1
    BY <2>3, <1>3, <1>5, <1>9, WritesThere DEF Output
  <2>4. CASE i # n + 1
    <3>1. Output(dcp[i])
      BY <2>1, <2>4, <1>1 DEF SoundAt, OutputsOK
    <3>2. Blocks("callback", dcp[i].off, 1) \cap Blocks("callback", n - 1, 1) = {}
      BY <2>1, <2>2, <2>4, <1>5, Apart
    <3>3. QED
      BY <3>1, <3>2, <1>9, WritesThere DEF Output
  <2>5. QED
    BY <2>3, <2>4
<1>17. SwapsOK(n + 1)'
  <2>1. ~Handling /\ ~Handling' /\ stack'[1] = stack[1]
    BY <1>4, <1>6, <1>8, <1>9, <1>10, FrameKinds DEF Handling, Completion
  <2>2. /\ Calm(Tail(fromDcp)) <=> Calm(fromDcp)
        /\ \A j, k \in DOMAIN fromDcp' : fromDcp'[j].ctx = "async" /\ fromDcp'[k].ctx = "async" => j = k
        /\ \A j \in DOMAIN fromDcp' : \E k \in DOMAIN fromDcp : fromDcp'[j] = fromDcp[k]
    BY <1>1, <1>2, <1>9, AfterHead DEF SoundAt, SwapsOK, Typed
  <2>3. Unseen' <=> Unseen
    BY <2>1, <2>2, <1>9 DEF Unseen, Calm
  <2>4. script = Submit => swap \notin doneSwaps /\ queuedSwaps = {} /\ lastSwap # swap
    BY <1>1, <1>2, <1>4, NestLens DEF SoundAt, SwapsOK
  <2>5. \A j \in DOMAIN fromDcp' : fromDcp'[j].ctx = "async" => fromDcp'[j] = Swapped(swap)
    BY <2>2, <1>1 DEF SoundAt, SwapsOK
  <2>6. QED
    BY <2>1, <2>2, <2>3, <2>4, <2>5, <1>1, <1>4, <1>9 DEF SoundAt, SwapsOK, Calm, Swapped
<1>18. QED
  BY <1>2, <1>9, <1>12, <1>13, <1>14, <1>15, <1>16, <1>17 DEF Sound, SoundAt

(* What a call's reply area and a callback's output area share with the asynchronous channel: nothing. *)
LEMMA OutOfTheWay ==
  ASSUME NEW b \in Nat, NEW w, shmem' = Written(Blocks("async", b, 1), w)
  PROVE  /\ \A f \in CallFrames : \A how : RepliedWith(f, how) => RepliedWith(f, how)'
         /\ \A j \in DcpJobs : Output(j) => Output(j)'
<1>1. ASSUME NEW f \in CallFrames, NEW how, RepliedWith(f, how) PROVE RepliedWith(f, how)'
  <2>1. ChannelArea(f.ctx) # "async" /\ f.off \in Nat /\ f.len \in Nat
    BY DEF CallFrames, ChannelArea
  <2>2. Blocks(ChannelArea(f.ctx), f.off, f.len) \cap Blocks("async", b, 1) = {}
    BY <2>1, Apart
  <2>3. QED
    BY <2>2, <1>1, WritesThere DEF RepliedWith
<1>2. ASSUME NEW j \in DcpJobs, Output(j) PROVE Output(j)'
  <2>1. j.off \in Nat
    BY DEF DcpJobs
  <2>2. Blocks("callback", j.off, 1) \cap Blocks("async", b, 1) = {}
    BY <2>1, Apart
  <2>3. QED
    BY <2>2, <1>2, WritesThere DEF Output
<1>3. QED
  BY <1>1, <1>2

LEMMA CompletionTakeSound ==
  ASSUME Sound, TakeCallback, Message.ctx = "async"
  PROVE  Sound'
<1>1. PICK n \in Nat : SoundAt(n)
  BY DEF Sound
<1>2. Typed /\ Mirrored /\ ~torn /\ fromDcp # <<>> /\ Message = Head(fromDcp) /\ Message = fromDcp[1] /\ 1 \in DOMAIN fromDcp /\ Listening
  BY NestTail DEF Sound, TakeCallback, Message, Typed
<1>3. Message = Swapped(swap)
  BY <1>1, <1>2 DEF SoundAt, SwapsOK
<1>4. /\ Unseen /\ ~Calm(fromDcp) /\ ~Handling /\ swap \in doneSwaps /\ queuedSwaps = {} /\ lastSwap # swap
      /\ script \in {Submit, <<"wait">>} /\ Calm(Tail(fromDcp))
  <2>1. ~Calm(fromDcp) /\ Calm(Tail(fromDcp))
    BY <1>1, <1>2, AfterHead DEF SoundAt, SwapsOK, Typed
  <2>2. Unseen
    BY <2>1 DEF Unseen
  <2>3. QED
    BY <1>1, <2>1, <2>2 DEF SoundAt, SwapsOK
<1>5. PICK f, e : f = Completion(swap) /\ e = [ctx |-> "async", off |-> 0, end |-> 1]
  OBVIOUS
<1>6. /\ e \in [ctx : {"callback", "async"}, off : Nat, end : Nat] /\ f.kind = "callback" /\ f.off = 0
      /\ f.ctx = "async" /\ e.ctx = f.ctx /\ e.end = f.off + 1
  BY <1>5 DEF Completion
<1>7. /\ stack' = Append(stack, f) /\ callbackEnds' = Append(callbackEnds, e) /\ swap' = swap /\ ids' = ids /\ script' = script
      /\ lastSwap' = lastSwap /\ fromDcp' = Tail(fromDcp) /\ toDcp' = toDcp /\ torn' = torn /\ dcp' = dcp
      /\ queuedSwaps' = queuedSwaps /\ doneSwaps' = doneSwaps /\ shmem' = Written(Blocks("async", 0, 1), <<"output", swap>>)
  BY <1>3, <1>5 DEF TakeCallback, Handle, Swapped, Completion, Nested, ChannelArea, swapVars, fwVars
<1>8. /\ Len(stack) \in Nat /\ Len(stack') = Len(stack) + 1 /\ DOMAIN stack' = 1 .. Len(stack) + 1
      /\ stack'[Len(stack) + 1] = f /\ \A i \in 1 .. Len(stack) : stack'[i] = stack[i]
      /\ stack' \in Seq(CallFrames \cup SyncFrames \cup {WaitFrame, Completion(swap)}) /\ stack' # <<>>
  <2>1. f \in CallFrames \cup SyncFrames \cup {WaitFrame, Completion(swap)} /\ stack' = Append(stack, f)
    BY <1>5, <1>7
  <2>2. /\ Len(stack) \in Nat /\ Len(stack') = Len(stack) + 1 /\ DOMAIN stack' = 1 .. Len(stack) + 1
        /\ stack'[Len(stack) + 1] = f /\ \A i \in 1 .. Len(stack) : stack'[i] = stack[i]
    BY <2>1, <1>2, FramePushed
  <2>3. stack' \in Seq(CallFrames \cup SyncFrames \cup {WaitFrame, Completion(swap)})
    BY <2>1, <1>2, FramePushed
  <2>4. stack' # <<>>
    BY <2>2, EmptySeq
  <2>5. QED
    BY <2>2, <2>3, <2>4
<1>9. /\ callbackEnds' \in Seq([ctx : {"callback", "async"}, off : Nat, end : Nat]) /\ DOMAIN callbackEnds' = 1 .. Len(callbackEnds) + 1
      /\ callbackEnds'[Len(callbackEnds) + 1] = e /\ \A i \in 1 .. Len(callbackEnds) : callbackEnds'[i] = callbackEnds[i]
  BY <1>2, <1>6, <1>7, NestAppend DEF Typed
<1>10. Typed'
  <2>1. fromDcp' \in Seq(Inward)
    BY <1>2, <1>7, NestTail DEF Typed
  <2>2. QED
    BY <2>1, <1>2, <1>7, <1>8, <1>9 DEF Typed, WaitFrame, Completion
<1>11. Mirrored'
  BY <1>2, <1>6, <1>8, <1>9, MirrorGrows
<1>12. /\ ShapeOK(n)' /\ Handling' /\ n <= Len(stack) /\ (n > 0 => stack'[1] = stack[1] /\ stack'[n] = stack[n])
       /\ stack'[1] = WaitFrame => stack # <<>> /\ stack[1] = WaitFrame
  <2>1. stack'[Len(stack')] = Completion(swap) /\ stack'[Len(stack')] # WaitFrame
    BY <1>5, <1>8, FrameKinds
  <2>2. Handling'
    BY <2>1, <1>7, <1>8 DEF Handling, Completion
  <2>3. n <= Len(stack)
    BY <1>1 DEF SoundAt, ChainOK
  <2>4. n > 0 => stack'[1] = stack[1] /\ stack'[n] = stack[n]
    BY <2>3, <1>8
  <2>5. ShapeOK(n)'
    <3>1. CASE Len(stack) = n
      BY <3>1, <2>1, <1>7, <1>8 DEF ShapeOK, Completion
    <3>2. CASE Len(stack) # n
      <4>1. stack # <<>> /\ Last(stack) = stack[Len(stack)]
        <5>1. Len(stack) # 0
          BY <3>2, <2>3, <1>8
        <5>2. QED
          BY <5>1, <1>2, NestLens DEF Last
      <4>2. Last(stack).kind # "call"
        BY <4>1, <3>2, <1>1, <1>2, InCall
      <4>3. Last(stack).kind = "wait"
        BY <4>1, <4>2, <1>2 DEF Listening, Waiting
      <4>4. n = 0 /\ Len(stack) = 1 /\ stack[1] = WaitFrame
        BY <4>1, <4>3, <1>1, <1>2, InWait
      <4>5. Len(stack') = 2 /\ stack'[1] = WaitFrame /\ stack'[2] = Completion(swap)
        BY <4>4, <2>1, <1>8
      <4>6. QED
        BY <4>4, <4>5, <1>7 DEF ShapeOK, WaitFrame, Completion
    <3>3. QED
      BY <3>1, <3>2
  <2>6. stack'[1] = WaitFrame => stack # <<>> /\ stack[1] = WaitFrame
    <3>1. Len(stack) = 0 => stack'[1] # WaitFrame
      BY <2>1, <1>8
    <3>2. Len(stack) # 0 => stack # <<>> /\ stack'[1] = stack[1]
      BY <1>2, <1>8, NestLens
    <3>3. QED
      BY <3>1, <3>2
  <2>7. QED
    BY <2>2, <2>3, <2>4, <2>5, <2>6
<1>13. ChainOK(n)'
  <2>1. \A i \in 1 .. n : stack'[i] = stack[i]
    BY <1>8, <1>12
  <2>2. QED
    BY <2>1, <1>1, <1>2, <1>7, <1>8, <1>12, ChainShorter DEF SoundAt
<1>14. n > 0 /\ stack[n].kind = "call" => stack[n] \in CallFrames
  BY <1>1, FrameKinds DEF SoundAt, ChainOK
<1>15. Len(dcp) = n + 1 => dcp[n + 1] \in DcpJobs
  BY <1>2, NestLens
<1>16. /\ \A f1 \in CallFrames : \A how : RepliedWith(f1, how) => RepliedWith(f1, how)'
       /\ \A j \in DcpJobs : Output(j) => Output(j)'
  BY <1>7, OutOfTheWay
<1>17. TokenOK(n)'
  <2>1. Lone(fromDcp') /\ (Silent(fromDcp) => Silent(fromDcp')) /\ \A y : y.ctx # "async" /\ Has(fromDcp, y) => Has(fromDcp', y)
    BY <1>1, <1>2, <1>7, Leaves DEF Typed, SoundAt, TokenOK
  <2>2. n = Len(dcp) + 1 => n > 0
    BY <1>2, NestLens
  <2>3. CASE Len(dcp) = n /\ Silent(toDcp) /\ Silent(fromDcp)
    BY <2>1, <2>3, <1>1, <1>7 DEF SoundAt, TokenOK
  <2>4. CASE n = Len(dcp) + 1 /\ stack[n].kind = "call" /\ Silent(fromDcp) /\ Has(toDcp, CallMessage(stack[n]))
    <3>1. Has(toDcp, CallMessage(stack[n]))'
      BY <2>2, <2>4, <1>7, <1>12 DEF CallMessage, Has
    <3>2. QED
      BY <3>1, <2>1, <2>2, <2>4, <1>1, <1>7, <1>12 DEF SoundAt, TokenOK
  <2>5. CASE n = Len(dcp) + 1 /\ stack[n].kind = "call" /\ Silent(toDcp) /\ Has(fromDcp, Acked(stack[n].ctx)) /\ IsReplied(stack[n])
    <3>1. Acked(stack[n].ctx).ctx # "async" /\ stack'[n] = stack[n] /\ stack[n] \in CallFrames
      BY <2>2, <2>5, <1>12, <1>14, FrameKinds DEF Acked
    <3>2. Has(fromDcp', Acked(stack[n].ctx))
      BY <3>1, <2>1, <2>5
    <3>3. IsReplied(stack[n])'
      BY <3>1, <2>5, <1>16, <1>12 DEF IsReplied
    <3>4. QED
      BY <3>1, <3>2, <3>3, <2>1, <2>5, <1>1, <1>7 DEF SoundAt, TokenOK
  <2>6. CASE Len(dcp) = n + 1 /\ dcp[n + 1].kind = "wait" /\ Silent(toDcp) /\ Has(fromDcp, CallbackMessage(dcp[n + 1]))
    <3>1. CallbackMessage(dcp[n + 1]).ctx # "async"
      BY DEF CallbackMessage
    <3>2. QED
      BY <3>1, <2>1, <2>6, <1>1, <1>7 DEF SoundAt, TokenOK
  <2>7. CASE Len(dcp) = n + 1 /\ dcp[n + 1].kind = "wait" /\ Silent(fromDcp) /\ Has(toDcp, Acked("callback")) /\ Output(dcp[n + 1])
    <3>1. Output(dcp[n + 1])'
      BY <2>7, <1>15, <1>16, <1>7 DEF Output
    <3>2. QED
      BY <3>1, <2>1, <2>7, <1>1, <1>7 DEF SoundAt, TokenOK
  <2>8. QED
    BY <2>3, <2>4, <2>5, <2>6, <2>7, <1>1 DEF SoundAt, TokenOK
<1>18. OutputsOK(n)'
  <2> SUFFICES ASSUME NEW i \in DOMAIN dcp, dcp[i].kind = "wait", i <= n PROVE Output(dcp[i])'
    BY <1>7 DEF OutputsOK
  <2>1. dcp[i] \in DcpJobs /\ Output(dcp[i])
    BY <1>1, <1>2, NestLens DEF SoundAt, OutputsOK
  <2>2. QED
    BY <2>1, <1>16, <1>7 DEF Output
<1>19. ScriptOK(n)'
  BY <1>1, <1>7, <1>12 DEF SoundAt, ScriptOK, WaitFrame
<1>20. SwapsOK(n)'
  <2>1. /\ \A j, k \in DOMAIN fromDcp' : fromDcp'[j].ctx = "async" /\ fromDcp'[k].ctx = "async" => j = k
        /\ \A j \in DOMAIN fromDcp' : \E k \in DOMAIN fromDcp : fromDcp'[j] = fromDcp[k]
    BY <1>1, <1>2, <1>7, AfterHead DEF SoundAt, SwapsOK, Typed
  <2>2. Unseen' /\ Calm(fromDcp')
    BY <1>4, <1>7, <1>12 DEF Unseen
  <2>3. script = Submit => (n = 1 /\ dcp = <<>> /\ Silent(toDcp) /\ RepliedWith(stack[1], "reply"))'
    <3> SUFFICES ASSUME script = Submit PROVE (n = 1 /\ dcp = <<>> /\ Silent(toDcp) /\ RepliedWith(stack[1], "reply"))'
      OBVIOUS
    <3>1. n = 1 /\ dcp = <<>> /\ Silent(toDcp) /\ RepliedWith(stack[1], "reply")
      BY <1>1, <1>4 DEF SoundAt, SwapsOK
    <3>2. stack[1] \in CallFrames
      BY <3>1, <1>1, FrameKinds DEF SoundAt, ChainOK
    <3>3. stack'[1] = stack[1]
      BY <3>1, <1>12
    <3>4. RepliedWith(stack[1], "reply")'
      BY <3>1, <3>2, <3>3, <1>16
    <3>5. QED
      BY <3>1, <3>4, <1>7 DEF Silent
  <2>4. \A j \in DOMAIN fromDcp' : fromDcp'[j].ctx = "async" => fromDcp'[j] = Swapped(swap)
    BY <2>1, <1>1 DEF SoundAt, SwapsOK
  <2>5. QED
    BY <2>1, <2>2, <2>3, <2>4, <1>1, <1>4, <1>7, <1>12 DEF SoundAt, SwapsOK, Swapped
<1>21. QED
  BY <1>2, <1>7, <1>10, <1>11, <1>12, <1>13, <1>17, <1>18, <1>19, <1>20 DEF Sound, SoundAt

LEMMA TakeCallbackSound == ASSUME Sound, TakeCallback PROVE Sound'
  BY SyncTakeSound, CompletionTakeSound

(* An acknowledgement ends the call on top. *)
LEMMA AckTaken ==
  ASSUME NEW n \in Nat, SoundAt(n), Typed, ~torn, TakeAck
  PROVE  /\ stack # <<>> /\ Len(stack) = n /\ n > 0 /\ stack[n] = Last(stack) /\ stack[n] \in CallFrames /\ stack[n].kind = "call"
         /\ fromDcp # <<>> /\ Head(fromDcp).ctx # "async"
         /\ Silent(toDcp) /\ Silent(Tail(fromDcp)) /\ Len(dcp) + 1 = n /\ IsReplied(stack[n]) /\ ~torn'
<1>1. fromDcp # <<>> /\ Message = Head(fromDcp) /\ Message.type = "ack" /\ stack # <<>> /\ Last(stack).kind = "call" /\ Message.ctx = Last(stack).ctx
  BY DEF TakeAck, Awaited, Message
<1>2. Len(stack) = n /\ n > 0 /\ stack[n] = Last(stack) /\ stack[n] \in CallFrames
  BY <1>1, InCall
<1>3. Head(fromDcp).ctx # "async"
  BY <1>1, <1>2, FrameKinds
<1>4. CallbackMessage(dcp[n + 1]).type # "ack"
  BY DEF CallbackMessage
<1>5. Silent(toDcp) /\ Silent(Tail(fromDcp)) /\ n = Len(dcp) + 1 /\ IsReplied(stack[n])
  BY <1>1, <1>3, <1>4, SyncMessage
<1>6. torn' = (torn \/ ~(RepliedWith(Last(stack), "reply") \/ RepliedWith(Last(stack), "refused")))
  BY DEF TakeAck
<1>7. ~torn'
  <2>1. RepliedWith(Last(stack), "reply") \/ RepliedWith(Last(stack), "refused")
    BY <1>2, <1>5 DEF IsReplied
  <2>2. QED
    BY <2>1, <1>6, Zenon
<1>8. QED
  BY <1>1, <1>2, <1>3, <1>5, <1>7

LEMMA OneAnswer == \A f \in CallFrames : ~(RepliedWith(f, "reply") /\ RepliedWith(f, "refused"))
<1> SUFFICES ASSUME NEW f \in CallFrames, RepliedWith(f, "reply"), RepliedWith(f, "refused") PROVE FALSE
  OBVIOUS
<1>1. f.off \in f.off .. (f.off + f.len - 1)
  BY DEF CallFrames
<1>2. <<ChannelArea(f.ctx), f.off>> \in Blocks(ChannelArea(f.ctx), f.off, f.len)
  BY <1>1 DEF Blocks
<1>3. <<"reply", f.id>> = <<"refused", f.id>>
  BY <1>2 DEF RepliedWith, Intact
<1>4. QED
  BY <1>3

LEMMA OuterAckSound ==
  ASSUME Sound, TakeAck, Len(stack) = 1
  PROVE  Sound'
<1>1. PICK n \in Nat : SoundAt(n)
  BY DEF Sound
<1>2. Typed /\ Mirrored /\ ~torn
  BY DEF Sound
<1>3. PICK f : f = stack[1]
  OBVIOUS
<1>4. /\ n = 1 /\ f = Last(stack) /\ f \in CallFrames /\ f.kind = "call" /\ stack # <<>> /\ fromDcp # <<>> /\ Head(fromDcp).ctx # "async"
      /\ Silent(toDcp) /\ Silent(Tail(fromDcp)) /\ dcp = <<>> /\ IsReplied(f) /\ ~torn'
  BY <1>1, <1>2, <1>3, AckTaken, NestLens
<1>5. /\ callbackEnds' = callbackEnds /\ lastSwap' = lastSwap /\ ids' = ids /\ toDcp' = toDcp /\ fromDcp' = Tail(fromDcp)
      /\ shmem' = shmem /\ dcp' = dcp /\ queuedSwaps' = queuedSwaps /\ doneSwaps' = doneSwaps /\ stack' = <<>>
      /\ script' = (IF RepliedWith(f, "refused") THEN <<>> ELSE Tail(script))
      /\ swap' = (IF f.name # "begin" \/ RepliedWith(f, "refused") THEN swap ELSE IF RepliedWith(f, "reply") THEN f.id ELSE 0)
  BY <1>4 DEF TakeAck, fwVars
<1>6. script \in Scripts /\ script # <<>> /\ f.name = Head(script) /\ Head(script) # "wait"
  BY <1>1, <1>2, <1>3, <1>4 DEF SoundAt, ScriptOK, Typed
<1>7. /\ Calm(Tail(fromDcp)) <=> Calm(fromDcp)
      /\ \A j, k \in DOMAIN fromDcp' : fromDcp'[j].ctx = "async" /\ fromDcp'[k].ctx = "async" => j = k
      /\ \A j \in DOMAIN fromDcp' : \E k \in DOMAIN fromDcp : fromDcp'[j] = fromDcp[k]
  BY <1>1, <1>2, <1>4, <1>5, AfterHead DEF SoundAt, SwapsOK, Typed
<1>8. ~Handling /\ ~Handling'
  <2>1. stack[Len(stack)] = f /\ f # Completion(swap)
    BY <1>3, <1>4, FrameKinds
  <2>2. QED
    BY <2>1, <1>5 DEF Handling
<1>9. Unseen' <=> Unseen
  BY <1>5, <1>7, <1>8 DEF Unseen, Calm
<1>10. \A j \in DOMAIN fromDcp' : fromDcp'[j].ctx = "async" => fromDcp'[j] = Swapped(swap)
  BY <1>7, <1>1 DEF SoundAt, SwapsOK
<1>11. {swap, lastSwap} \cup queuedSwaps \cup doneSwaps \subseteq 0 .. ids /\ queuedSwaps \subseteq {swap}
  BY <1>1 DEF SoundAt, SwapsOK
<1>12. Len(stack') = 0 /\ DOMAIN stack' = 1 .. 0
  BY <1>5
<1>13. /\ SwapsOK(0)' /\ script' \in Scripts /\ swap' \in Nat
  <2>1. CASE RepliedWith(f, "refused")
    <3>1. script' = <<>> /\ swap' = swap /\ ~RepliedWith(f, "reply") /\ script' # Submit /\ <<>> \in Scripts
      BY <2>1, <1>4, <1>5, OneAnswer, ScriptParts DEF Scripts
    <3>2. queuedSwaps = {} /\ ~Unseen
      <4>1. script = Submit => swap \notin doneSwaps /\ queuedSwaps = {}
        BY <3>1, <1>1, <1>3 DEF SoundAt, SwapsOK
      <4>2. queuedSwaps # {} \/ Unseen => script \in {Submit, <<"wait">>}
        BY <1>1 DEF SoundAt, SwapsOK
      <4>3. script # <<"wait">>
        BY <1>6
      <4>4. Unseen => swap \in doneSwaps
        BY <1>1 DEF SoundAt, SwapsOK
      <4>5. QED
        BY <4>1, <4>2, <4>3, <4>4
    <3>3. QED
      BY SMTT(20), <3>1, <3>2, <1>1, <1>2, <1>5, <1>7, <1>8, <1>9, <1>10, <1>11 DEF SoundAt, SwapsOK, Calm, Swapped, Typed
  <2>2. CASE ~RepliedWith(f, "refused") /\ f.name = "begin"
    <3>1. swap' = f.id /\ script' = Submit /\ Submit \in Scripts /\ script # Submit /\ script # <<"wait">>
      <4>1. RepliedWith(f, "reply")
        BY <2>2, <1>4 DEF IsReplied
      <4>2. Head(script) = "begin" /\ Tail(script) = Submit /\ script # Submit /\ script # <<"wait">>
        BY <2>2, <1>6, ScriptParts
      <4>3. Submit \in Scripts
        BY DEF Submit, Scripts
      <4>4. QED
        BY <4>1, <4>2, <4>3, <2>2, <1>5
    <3>2. f.id \in (1 .. ids) \ (doneSwaps \cup {lastSwap}) /\ ids \in Nat
      BY <2>2, <1>1, <1>2, <1>3, <1>4 DEF SoundAt, SwapsOK, Typed
    <3>3. queuedSwaps = {} /\ ~Unseen
      BY <3>1, <1>1 DEF SoundAt, SwapsOK
    <3>4. Calm(fromDcp') /\ ~Unseen'
      BY <3>3, <1>5, <1>7, <1>9 DEF Unseen
    <3>5. {swap', lastSwap'} \cup queuedSwaps' \cup doneSwaps' \subseteq 0 .. ids'
      BY <3>1, <3>2, <1>5, <1>11
    <3>6. \A j \in DOMAIN fromDcp' : fromDcp'[j].ctx # "async"
      BY <3>4 DEF Calm
    <3>7. SwapsOK(0)'
      BY <3>1, <3>2, <3>3, <3>4, <3>5, <3>6, <1>4, <1>5, <1>8 DEF SwapsOK
    <3>8. QED
      BY <3>1, <3>2, <3>7
  <2>3. CASE ~RepliedWith(f, "refused") /\ f.name # "begin"
    <3>1. swap' = swap /\ script' = Tail(script)
      BY <2>3, <1>5
    <3>2. script' \in Scripts /\ script' # Submit /\ (script = Submit => script' = <<"wait">>)
      BY <3>1, <2>3, <1>6, ScriptParts
    <3>3. queuedSwaps # {} \/ Unseen => script' = <<"wait">> /\ lastSwap # swap
      <4>1. queuedSwaps # {} \/ Unseen => script \in {Submit, <<"wait">>} /\ lastSwap # swap
        BY <1>1 DEF SoundAt, SwapsOK
      <4>2. script # <<"wait">>
        BY <1>6
      <4>3. QED
        BY <4>1, <4>2, <3>2
    <3>4. /\ queuedSwaps # {} => swap \notin doneSwaps
          /\ Unseen => swap \in doneSwaps /\ queuedSwaps = {}
          /\ swap \in doneSwaps => lastSwap = swap \/ Unseen
      BY <1>1 DEF SoundAt, SwapsOK
    <3>5. {swap', lastSwap'} \cup queuedSwaps' \cup doneSwaps' \subseteq 0 .. ids' /\ queuedSwaps' \subseteq {swap'}
      BY <3>1, <1>5, <1>11
    <3>6. \A j \in DOMAIN fromDcp' : fromDcp'[j].ctx = "async" => fromDcp'[j] = Swapped(swap')
      BY <3>1, <1>10
    <3>7. SwapsOK(0)'
      BY <3>1, <3>2, <3>3, <3>4, <3>5, <3>6, <1>4, <1>5, <1>7, <1>8, <1>9 DEF SwapsOK
    <3>8. QED
      BY <3>1, <3>2, <3>7, <1>2 DEF Typed
  <2>4. QED
    BY <2>1, <2>2, <2>3
<1>14. Typed'
  <2>1. stack' \in Seq((CallFrames \cup SyncFrames \cup {WaitFrame, Completion(swap)})')
    BY <1>5
  <2>2. fromDcp' \in Seq(Inward)
    BY <1>2, <1>4, <1>5, NestTail DEF Typed
  <2>3. QED
    BY <2>1, <2>2, <1>2, <1>5, <1>13 DEF Typed
<1>15. Mirrored'
  BY <1>2, <1>4, <1>5, <1>12, MirrorShrinks
<1>16. ShapeOK(0)' /\ TokenOK(0)' /\ ScriptOK(0)'
  BY <1>4, <1>5, <1>12 DEF ShapeOK, TokenOK, ScriptOK, Silent, Lone
<1>17. ChainOK(0)' /\ OutputsOK(0)'
  BY <1>4, <1>5, <1>14, NoChain
<1>18. QED
  BY <1>4, <1>13, <1>14, <1>15, <1>16, <1>17 DEF Sound, SoundAt

LEMMA InnerAckSound ==
  ASSUME Sound, TakeAck, Len(stack) # 1
  PROVE  Sound'
<1>1. PICK n \in Nat : SoundAt(n)
  BY DEF Sound
<1>2. Typed /\ Mirrored /\ ~torn
  BY DEF Sound
<1>3. /\ Len(stack) = n /\ stack[n] = Last(stack) /\ stack[n] \in CallFrames /\ stack[n].kind = "call" /\ stack # <<>>
      /\ fromDcp # <<>> /\ Head(fromDcp).ctx # "async" /\ n > 0
      /\ Silent(toDcp) /\ Silent(Tail(fromDcp)) /\ Len(dcp) + 1 = n /\ IsReplied(stack[n]) /\ ~torn'
  BY <1>1, <1>2, AckTaken
<1>4. PICK m \in Nat \ {0} : m = n - 1 /\ m + 1 = n
  <2>1. n - 1 \in Nat \ {0} /\ (n - 1) + 1 = n
    BY <1>3
  <2>2. QED
    BY <2>1
<1>5. Len(dcp) = m /\ m <= n /\ m \in 1 .. n /\ n \in 1 .. n /\ m < n
  BY <1>2, <1>3, <1>4, NestLens
<1>6. stack[m] \in SyncFrames /\ stack[m].kind = "callback"
  <2>1. stack[m] \in CallFrames \cup SyncFrames /\ (stack[m].kind = "call" <=> stack[m + 1].kind = "callback")
    BY <1>1, <1>5 DEF SoundAt, ChainOK
  <2>2. QED
    BY <2>1, <1>3, <1>4, FrameKinds
<1>7. PICK g : g = [stack[m] EXCEPT !.todo = stack[m].todo - 1]
  OBVIOUS
<1>8. g \in SyncFrames /\ g.kind = "callback" /\ g.id = stack[m].id /\ g.ctx = stack[m].ctx /\ g.off = stack[m].off /\ m # 1
  <2>1. g \in SyncFrames /\ g.kind = "callback" /\ g.id = stack[m].id /\ g.ctx = stack[m].ctx /\ g.off = stack[m].off
    BY <1>6, <1>7 DEF SyncFrames
  <2>2. m # 1
    BY <1>1, <1>5, <1>6 DEF SoundAt, ChainOK
  <2>3. QED
    BY <2>1, <2>2
<1>9. /\ callbackEnds' = callbackEnds /\ lastSwap' = lastSwap /\ ids' = ids /\ toDcp' = toDcp /\ fromDcp' = Tail(fromDcp)
      /\ shmem' = shmem /\ dcp' = dcp /\ queuedSwaps' = queuedSwaps /\ doneSwaps' = doneSwaps /\ script' = script /\ swap' = swap
      /\ stack' = [Front(stack) EXCEPT ![Len(stack) - 1].todo = @ - 1]
  BY DEF TakeAck, fwVars
<1>10. /\ Front(stack) \in Seq(CallFrames \cup SyncFrames \cup {WaitFrame, Completion(swap)})
       /\ Len(Front(stack)) = m /\ DOMAIN Front(stack) = 1 .. m /\ \A i \in 1 .. m : Front(stack)[i] = stack[i]
  <2>1. PICK S : S = CallFrames \cup SyncFrames \cup {WaitFrame, Completion(swap)}
    OBVIOUS
  <2>2. stack \in Seq(S)
    BY <2>1, <1>2 DEF Typed
  <2>3. Front(stack) \in Seq(S) /\ Len(Front(stack)) = m /\ DOMAIN Front(stack) = 1 .. m /\ \A i \in 1 .. m : Front(stack)[i] = stack[i]
    BY <2>2, <1>3, <1>4, NestFront
  <2>4. QED
    BY <2>1, <2>3
<1>11. PICK t : t = Front(stack)
  OBVIOUS
<1>12. stack' = [t EXCEPT ![m] = g]
  <2>1. Len(stack) - 1 = m /\ t[m] = stack[m]
    BY <1>3, <1>4, <1>10, <1>11
  <2>2. stack' = [t EXCEPT ![m].todo = @ - 1]
    BY <2>1, <1>9, <1>11
  <2>3. QED
    BY <2>1, <2>2, <1>7
<1>13. /\ Len(stack') = m /\ DOMAIN stack' = 1 .. m /\ stack'[m] = g /\ \A i \in 1 .. m : i # m => stack'[i] = stack[i]
       /\ stack' \in Seq(CallFrames \cup SyncFrames \cup {WaitFrame, Completion(swap)})
  <2>1. PICK S : S = CallFrames \cup SyncFrames \cup {WaitFrame, Completion(swap)}
    OBVIOUS
  <2>2. t \in Seq(S) /\ Len(t) = m /\ DOMAIN t = 1 .. m /\ g \in S /\ m \in 1 .. m
    BY <2>1, <1>8, <1>10, <1>11
  <2>3. [t EXCEPT ![m] = g] \in Seq(S) /\ Len([t EXCEPT ![m] = g]) = m
    BY <2>2, ExceptSeq
  <2>4. DOMAIN stack' = 1 .. m /\ stack'[m] = g /\ \A i \in 1 .. m : i # m => stack'[i] = stack[i]
    BY <2>2, <1>10, <1>11, <1>12
  <2>5. QED
    BY <2>1, <2>3, <2>4, <1>12
<1>14. Typed'
  <2>1. fromDcp' \in Seq(Inward)
    BY <1>2, <1>3, <1>9, NestTail DEF Typed
  <2>2. QED
    BY <2>1, <1>2, <1>9, <1>13 DEF Typed, WaitFrame, Completion
<1>15. Mirrored'
  <2>1. \A i \in 1 .. m : stack'[i].kind = stack[i].kind /\ stack'[i].ctx = stack[i].ctx /\ stack'[i].off = stack[i].off
    BY <1>6, <1>8, <1>13
  <2>2. QED
    BY <2>1, <1>2, <1>3, <1>4, <1>9, <1>13, MirrorShrinks
<1>16. ShapeOK(m)' /\ TokenOK(m)'
  BY <1>3, <1>5, <1>9, <1>13 DEF ShapeOK, TokenOK, Silent, Lone
<1>17. ChainOK(m)'
  <2>1. DOMAIN dcp = 1 .. m /\ m <= Len(stack')
    BY <1>2, <1>5, <1>13, NestLens
  <2>2. \A i \in 1 .. m : /\ stack'[i].kind = stack[i].kind /\ stack'[i].ctx = stack[i].ctx /\ stack'[i].off = stack[i].off
                          /\ stack'[i].id = stack[i].id /\ (i # m => stack'[i] = stack[i]) /\ i \in 1 .. n /\ i <= n
    BY <1>5, <1>6, <1>8, <1>13
  <2>3. ASSUME NEW i \in 1 .. m
        PROVE  /\ stack'[i] \in CallFrames \cup SyncFrames
               /\ Placed(stack'[i], i) /\ (i = 1 => stack'[i].kind = "call")
               /\ i > 1 /\ stack'[i].kind = "call" => stack'[i].len = 1 /\ stack'[i].name = "nested"
    <3>1. i \in 1 .. n
      BY <2>2
    <3>2. Placed(stack'[i], i) /\ (i = 1 => stack'[i].kind = "call")
      <4>1. Placed(stack[i], i) /\ (i = 1 => stack[i].kind = "call")
        BY <3>1, <1>1 DEF SoundAt, ChainOK
      <4>2. stack'[i].ctx = stack[i].ctx /\ stack'[i].off = stack[i].off /\ stack'[i].kind = stack[i].kind
        BY <2>2
      <4>3. QED
        BY <4>1, <4>2 DEF Placed
    <3>3. CASE i = m
      BY <3>2, <3>3, <1>8, <1>13
    <3>4. CASE i # m
      <4>1. /\ stack[i] \in CallFrames \cup SyncFrames
            /\ i > 1 /\ stack[i].kind = "call" => stack[i].len = 1 /\ stack[i].name = "nested"
        BY <3>1, <1>1 DEF SoundAt, ChainOK
      <4>2. stack'[i] = stack[i]
        BY <2>2, <3>4
      <4>3. QED
        BY <3>2, <4>1, <4>2
    <3>5. QED
      BY <3>3, <3>4
  <2>4. ASSUME NEW i \in 1 .. m, i < m
        PROVE  stack'[i].kind = "call" <=> stack'[i + 1].kind = "callback"
    <3>1. i + 1 \in 1 .. m /\ i \in 1 .. n /\ i < n
      BY <2>4, <1>5
    <3>2. stack[i].kind = "call" <=> stack[i + 1].kind = "callback"
      BY <3>1, <1>1 DEF SoundAt, ChainOK
    <3>3. stack'[i].kind = stack[i].kind
      BY <2>2, <2>4
    <3>4. stack'[i + 1].kind = stack[i + 1].kind
      BY <2>2, <3>1
    <3>5. QED
      BY <3>2, <3>3, <3>4
  <2>5. ASSUME NEW i \in DOMAIN dcp
        PROVE  /\ Placed(dcp[i], i) /\ (i = 1 => dcp[i].kind = "run") /\ (i > 1 => dcp[i].len = 1)
               /\ i < Len(dcp) => (dcp[i].kind = "run" <=> dcp[i + 1].kind = "wait")
               /\ i <= m => /\ stack'[i].id = dcp[i].id
                            /\ stack'[i].kind = "call" <=> dcp[i].kind = "run"
                            /\ stack'[i].kind = "call" => stack'[i].len = dcp[i].len /\ stack'[i].name = dcp[i].name
    <3>1. i \in 1 .. m /\ i <= n
      BY <2>1, <2>2, <2>5
    <3>2. /\ Placed(dcp[i], i) /\ (i = 1 => dcp[i].kind = "run") /\ (i > 1 => dcp[i].len = 1)
          /\ i < Len(dcp) => (dcp[i].kind = "run" <=> dcp[i + 1].kind = "wait")
          /\ stack[i].id = dcp[i].id
          /\ stack[i].kind = "call" <=> dcp[i].kind = "run"
          /\ stack[i].kind = "call" => stack[i].len = dcp[i].len /\ stack[i].name = dcp[i].name
      BY <3>1, <2>5, <1>1 DEF SoundAt, ChainOK
    <3>3. QED
      BY <3>1, <3>2, <2>2, <1>6, <1>8, <1>13
  <2>6. dcp' = dcp
    BY <1>9
  <2>7. QED
    BY <2>1, <2>3, <2>4, <2>5, <2>6 DEF ChainOK
<1>18. OutputsOK(m)'
  BY <1>1, <1>2, <1>4, <1>9, NestLens DEF SoundAt, OutputsOK, Output, Intact
<1>19. ScriptOK(m)' /\ stack'[1] = stack[1]
  <2>1. stack'[1] = stack[1]
    BY <1>8, <1>13
  <2>2. stack[1] # WaitFrame
    <3>1. stack[1] \in CallFrames \cup SyncFrames
      BY <1>1, <1>3 DEF SoundAt, ChainOK
    <3>2. QED
      BY <3>1, FrameKinds
  <2>3. QED
    BY <2>1, <2>2, <1>1, <1>3, <1>9 DEF SoundAt, ScriptOK, WaitFrame
<1>20. SwapsOK(m)'
  <2>1. /\ Calm(Tail(fromDcp)) <=> Calm(fromDcp)
        /\ \A j, k \in DOMAIN fromDcp' : fromDcp'[j].ctx = "async" /\ fromDcp'[k].ctx = "async" => j = k
        /\ \A j \in DOMAIN fromDcp' : \E k \in DOMAIN fromDcp : fromDcp'[j] = fromDcp[k]
    BY <1>1, <1>2, <1>3, <1>9, AfterHead DEF SoundAt, SwapsOK, Typed
  <2>2. ~Handling /\ ~Handling'
    BY <1>3, <1>8, <1>9, <1>13, FrameKinds DEF Handling, Completion
  <2>3. Unseen' <=> Unseen
    BY <2>1, <2>2, <1>9 DEF Unseen, Calm
  <2>4. \A j \in DOMAIN fromDcp' : fromDcp'[j].ctx = "async" => fromDcp'[j] = Swapped(swap)
    BY <2>1, <1>1 DEF SoundAt, SwapsOK
  <2>5. script = Submit => swap \notin doneSwaps /\ queuedSwaps = {} /\ lastSwap # swap
    BY <1>1, <1>3 DEF SoundAt, SwapsOK
  <2>6. QED
    BY <2>1, <2>2, <2>3, <2>4, <2>5, <1>1, <1>3, <1>9, <1>19 DEF SoundAt, SwapsOK, Calm, Swapped
<1>21. QED
  BY <1>3, <1>14, <1>15, <1>16, <1>17, <1>18, <1>19, <1>20 DEF Sound, SoundAt

LEMMA TakeAckSound == ASSUME Sound, TakeAck PROVE Sound'
  BY OuterAckSound, InnerAckSound
------------------------------------------------------------------------------
(* The coprocessor takes a message. *)
LEMMA SyncOutward ==
  ASSUME NEW n \in Nat, SoundAt(n), Typed, toDcp # <<>>, Head(toDcp).ctx # "async"
  PROVE  /\ Silent(fromDcp) /\ Silent(Tail(toDcp)) /\ ~Silent(toDcp)
         /\ \/ /\ n = Len(dcp) + 1 /\ stack[n].kind = "call" /\ n > 0 /\ Head(toDcp) = CallMessage(stack[n])
            \/ /\ Len(dcp) = n + 1 /\ dcp[n + 1].kind = "wait" /\ Head(toDcp) = Acked("callback") /\ Output(dcp[n + 1])
<1>1. ~Silent(toDcp) /\ Silent(Tail(toDcp)) /\ \A y : Has(toDcp, y) /\ y.ctx # "async" => y = Head(toDcp)
  BY Leaves DEF Typed, SoundAt, TokenOK
<1>2. CASE n = Len(dcp) + 1 /\ stack[n].kind = "call" /\ Silent(fromDcp) /\ Has(toDcp, CallMessage(stack[n]))
  <2>1. n > 0 /\ n \in 1 .. n
    BY <1>2, NestLens
  <2>2. stack[n] \in CallFrames \cup SyncFrames
    BY <2>1 DEF SoundAt, ChainOK
  <2>3. stack[n].ctx # "async"
    BY <2>2, FrameKinds
  <2>4. CallMessage(stack[n]).ctx # "async"
    BY <2>3 DEF CallMessage
  <2>5. QED
    BY <2>1, <2>4, <1>1, <1>2
<1>3. CASE Len(dcp) = n + 1 /\ dcp[n + 1].kind = "wait" /\ Silent(fromDcp) /\ Has(toDcp, Acked("callback")) /\ Output(dcp[n + 1])
  <2>1. Acked("callback").ctx # "async"
    BY DEF Acked
  <2>2. QED
    BY <2>1, <1>1, <1>3
<1>4. QED
  BY <1>1, <1>2, <1>3 DEF SoundAt, TokenOK

LEMMA CallTakenSound ==
  ASSUME Sound, DcpTakes, Head(toDcp).type = "call"
  PROVE  Sound'
<1>1. PICK n \in Nat : SoundAt(n)
  BY DEF Sound
<1>2. Typed /\ Mirrored /\ ~torn /\ toDcp # <<>> /\ Head(toDcp) \in Outward
  BY NestTail DEF Sound, DcpTakes, Typed
<1>3. Head(toDcp).ctx # "async"
  BY <1>2 DEF Outward
<1>4. PICK f : f = stack[n]
  OBVIOUS
<1>5. Silent(fromDcp) /\ Silent(Tail(toDcp)) /\ ~Silent(toDcp) /\ n = Len(dcp) + 1 /\ f.kind = "call" /\ n > 0 /\ Head(toDcp) = CallMessage(f)
  <2>1. Acked("callback").type # "call"
    BY DEF Acked
  <2>2. QED
    BY <2>1, <1>1, <1>2, <1>3, <1>4, SyncOutward
<1>6. f \in CallFrames /\ n \in 1 .. n /\ f.name \in CallNames /\ (n > 1 => f.len = 1) /\ Placed(f, n)
  <2>1. n \in 1 .. n
    BY <1>5
  <2>2. f \in CallFrames
    BY <2>1, <1>1, <1>4, <1>5, FrameKinds DEF SoundAt, ChainOK
  <2>3. QED
    BY <2>1, <2>2, <1>1, <1>4, <1>5 DEF SoundAt, ChainOK, CallFrames
<1>7. PICK r : r = [kind |-> "run", id |-> f.id, ctx |-> f.ctx, off |-> f.off, len |-> f.len, name |-> f.name, swap |-> swap]
  OBVIOUS
<1>8. /\ r \in DcpJobs /\ r.kind = "run" /\ r.id = f.id /\ r.ctx = f.ctx /\ r.off = f.off /\ r.len = f.len /\ r.name = f.name /\ r.swap = swap
  BY <1>2, <1>6, <1>7 DEF DcpJobs, CallFrames, Typed
<1>9. /\ dcp' = Append(dcp, r) /\ toDcp' = Tail(toDcp) /\ torn' = torn /\ stack' = stack /\ callbackEnds' = callbackEnds
      /\ script' = script /\ swap' = swap /\ lastSwap' = lastSwap /\ ids' = ids /\ fromDcp' = fromDcp /\ shmem' = shmem
      /\ queuedSwaps' = queuedSwaps /\ doneSwaps' = doneSwaps
  <2>1. CallMessage(f).type = "call" /\ CallMessage(f).ctx = f.ctx /\ CallMessage(f).off = f.off /\ CallMessage(f).len = f.len
        /\ CallMessage(f).id = f.id /\ CallMessage(f).name = f.name /\ CallMessage(f).swap = swap
    BY DEF CallMessage
  <2>2. QED
    BY <2>1, <1>5, <1>7 DEF DcpTakes, swapVars
<1>10. /\ dcp' \in Seq(DcpJobs) /\ Len(dcp') = n /\ DOMAIN dcp' = 1 .. n /\ dcp'[n] = r /\ DOMAIN dcp = 1 .. Len(dcp)
       /\ \A i \in 1 .. Len(dcp) : dcp'[i] = dcp[i]
  BY <1>2, <1>5, <1>8, <1>9, NestAppend DEF Typed
<1>11. Typed'
  <2>1. toDcp' \in Seq(Outward)
    BY <1>2, <1>9, NestTail DEF Typed
  <2>2. QED
    BY <2>1, <1>2, <1>9, <1>10 DEF Typed, WaitFrame, Completion
<1>12. Mirrored' /\ ShapeOK(n)' /\ ScriptOK(n)'
  BY <1>1, <1>2, <1>9 DEF SoundAt, Mirrored, ShapeOK, ScriptOK, WaitFrame, Completion
<1>13. TokenOK(n)'
  BY <1>5, <1>9, <1>10 DEF TokenOK, Silent, Lone
<1>14. ChainOK(n)'
  <2>1. Len(dcp) \in Nat /\ (n = Len(dcp) + 1 /\ stack[n].kind = "call" => Len(dcp) = 0 \/ dcp[Len(dcp)].kind # "run")
    BY <1>1, <1>2, TopsMatch, NestLens DEF SoundAt
  <2>2. Placed(r, n)
    BY <1>6, <1>8 DEF Placed
  <2>3. ASSUME NEW i \in 1 .. n
        PROVE  /\ Placed(dcp'[i], i) /\ (i = 1 => dcp'[i].kind = "run") /\ (i > 1 => dcp'[i].len = 1)
               /\ i < n => (dcp'[i].kind = "run" <=> dcp'[i + 1].kind = "wait")
               /\ stack[i].id = dcp'[i].id
               /\ stack[i].kind = "call" <=> dcp'[i].kind = "run"
               /\ stack[i].kind = "call" => stack[i].len = dcp'[i].len /\ stack[i].name = dcp'[i].name
    <3>1. CASE i = n
      BY <3>1, <2>2, <1>4, <1>5, <1>6, <1>8, <1>10
    <3>2. CASE i # n
      <4>1. i \in 1 .. Len(dcp) /\ i \in DOMAIN dcp /\ i <= n /\ i < n
        BY <3>2, <1>5, <1>10, <2>1
      <4>2. dcp'[i] = dcp[i]
        BY <4>1, <1>10
      <4>3. dcp'[i].kind = "run" <=> dcp'[i + 1].kind = "wait"
        <5>1. CASE i = Len(dcp)
          BY <5>1, <4>2, <2>1, <1>4, <1>5, <1>8, <1>10
        <5>2. CASE i < Len(dcp)
          <6>1. i + 1 \in 1 .. Len(dcp)
            BY <5>2, <4>1, <2>1
          <6>2. dcp'[i + 1] = dcp[i + 1]
            BY <6>1, <1>10
          <6>3. QED
            BY <6>2, <5>2, <4>1, <4>2, <1>1 DEF SoundAt, ChainOK
        <5>3. QED
          BY <5>1, <5>2, <4>1, <2>1
      <4>4. QED
        BY <4>1, <4>2, <4>3, <1>1 DEF SoundAt, ChainOK
    <3>3. QED
      BY <3>1, <3>2
  <2>4. /\ n <= Len(stack)
        /\ \A i \in 1 .. n :
             /\ stack[i] \in CallFrames \cup SyncFrames
             /\ Placed(stack[i], i) /\ (i = 1 => stack[i].kind = "call")
             /\ i > 1 /\ stack[i].kind = "call" => stack[i].len = 1 /\ stack[i].name = "nested"
             /\ i < n => (stack[i].kind = "call" <=> stack[i + 1].kind = "callback")
    BY <1>1 DEF SoundAt, ChainOK
  <2>5. stack' = stack
    BY <1>9
  <2>6. QED
    BY SMTT(20), <2>3, <2>4, <2>5, <1>10 DEF ChainOK
<1>15. OutputsOK(n)'
  <2> SUFFICES ASSUME NEW i \in DOMAIN dcp', dcp'[i].kind = "wait" PROVE Output(dcp[i])'
    BY DEF OutputsOK
  <2>1. i \in 1 .. Len(dcp) /\ i \in DOMAIN dcp /\ i <= n /\ Len(dcp) \in Nat
    <3>1. i # n
      BY <1>8, <1>10
    <3>2. QED
      BY <3>1, <1>2, <1>5, <1>10, NestLens
  <2>2. dcp'[i] = dcp[i] /\ Output(dcp[i])
    BY <2>1, <1>1, <1>10 DEF SoundAt, OutputsOK
  <2>3. QED
    BY <2>2, <1>9 DEF Output, Intact
<1>16. SwapsOK(n)'
  <2>1. (Unseen' <=> Unseen) /\ (Handling' <=> Handling)
    BY <1>9 DEF Unseen, Calm, Handling, Completion
  <2>2. script = Submit => swap \notin doneSwaps /\ queuedSwaps = {} /\ lastSwap # swap
    BY <1>1, <1>5 DEF SoundAt, SwapsOK
  <2>3. dcp' # <<>> /\ dcp'[1].name = "submit" => dcp'[1].swap = swap
    <3>1. CASE n = 1
      BY <3>1, <1>8, <1>10
    <3>2. CASE n # 1
      <4>1. 1 \in 1 .. Len(dcp) /\ dcp # <<>>
        BY <3>2, <1>2, <1>5, NestLens
      <4>2. dcp'[1] = dcp[1]
        BY <4>1, <1>10
      <4>3. QED
        BY <4>1, <4>2, <1>1 DEF SoundAt, SwapsOK
    <3>3. QED
      BY <3>1, <3>2
  <2>4. QED
    BY <2>1, <2>2, <2>3, <1>1, <1>9 DEF SoundAt, SwapsOK, Calm, Swapped
<1>17. QED
  BY <1>2, <1>9, <1>11, <1>12, <1>13, <1>14, <1>15, <1>16 DEF Sound, SoundAt

LEMMA AsyncAckSound ==
  ASSUME Sound, DcpTakes, Head(toDcp).type = "ack", Head(toDcp).ctx = "async"
  PROVE  Sound'
<1>1. PICK n \in Nat : SoundAt(n)
  BY DEF Sound
<1>2. Typed /\ Mirrored /\ ~torn /\ toDcp # <<>>
  BY DEF Sound, DcpTakes
<1>3. /\ dcp' = dcp /\ toDcp' = Tail(toDcp) /\ torn' = torn /\ stack' = stack /\ callbackEnds' = callbackEnds
      /\ script' = script /\ swap' = swap /\ lastSwap' = lastSwap /\ ids' = ids /\ fromDcp' = fromDcp /\ shmem' = shmem
      /\ queuedSwaps' = queuedSwaps /\ doneSwaps' = doneSwaps
  BY DEF DcpTakes, swapVars
<1>4. Typed'
  <2>1. toDcp' \in Seq(Outward)
    BY <1>2, <1>3, NestTail DEF Typed
  <2>2. QED
    BY <2>1, <1>2, <1>3 DEF Typed, WaitFrame, Completion
<1>5. Mirrored' /\ ShapeOK(n)' /\ ScriptOK(n)' /\ ChainOK(n)' /\ OutputsOK(n)'
  BY <1>1, <1>2, <1>3 DEF SoundAt, Mirrored, ShapeOK, ScriptOK, ChainOK, OutputsOK, Output, Intact, WaitFrame, Completion
<1>6. /\ Lone(toDcp') /\ (Silent(toDcp) => Silent(toDcp'))
      /\ \A y : y.ctx # "async" /\ Has(toDcp, y) => Has(toDcp', y)
  BY <1>1, <1>2, <1>3, Leaves DEF Typed, SoundAt, TokenOK
<1>7. TokenOK(n)'
  <2>1. n = Len(dcp) + 1 /\ Has(toDcp, CallMessage(stack[n])) => Has(toDcp, CallMessage(stack[n]))'
    <3> SUFFICES ASSUME n = Len(dcp) + 1, Has(toDcp, CallMessage(stack[n])) PROVE Has(toDcp, CallMessage(stack[n]))'
      OBVIOUS
    <3>1. n \in 1 .. n
      BY <1>2, NestLens
    <3>2. stack[n] \in CallFrames \cup SyncFrames
      BY <3>1, <1>1 DEF SoundAt, ChainOK
    <3>3. CallMessage(stack[n]).ctx # "async"
      BY <3>2, FrameKinds DEF CallMessage
    <3>4. Has(toDcp', CallMessage(stack[n]))
      BY <3>3, <1>6
    <3>5. QED
      BY <3>4, <1>3 DEF CallMessage
  <2>2. Has(toDcp, Acked("callback")) => Has(toDcp', Acked("callback"))
    BY <1>6 DEF Acked
  <2>3. QED
    BY <2>1, <2>2, <1>1, <1>3, <1>6 DEF SoundAt, TokenOK, IsReplied, RepliedWith, Output, Intact
<1>8. SwapsOK(n)'
  <2>1. (Unseen' <=> Unseen) /\ (Handling' <=> Handling)
    BY <1>3 DEF Unseen, Calm, Handling, Completion
  <2>2. QED
    BY <2>1, <1>1, <1>3, <1>6 DEF SoundAt, SwapsOK, Calm, Swapped, RepliedWith, Intact
<1>9. QED
  BY <1>2, <1>3, <1>4, <1>5, <1>7, <1>8 DEF Sound, SoundAt

LEMMA CallbackAckSound ==
  ASSUME Sound, DcpTakes, Head(toDcp).type = "ack", Head(toDcp).ctx # "async"
  PROVE  Sound'
<1>1. PICK n \in Nat : SoundAt(n)
  BY DEF Sound
<1>2. Typed /\ Mirrored /\ ~torn /\ toDcp # <<>>
  BY DEF Sound, DcpTakes
<1>3. Silent(fromDcp) /\ Silent(Tail(toDcp)) /\ ~Silent(toDcp) /\ Len(dcp) = n + 1 /\ dcp[n + 1].kind = "wait" /\ Output(dcp[n + 1])
      /\ dcp # <<>>
  <2>1. CallMessage(stack[n]).type # "ack"
    BY DEF CallMessage
  <2>2. Silent(fromDcp) /\ Silent(Tail(toDcp)) /\ ~Silent(toDcp) /\ Len(dcp) = n + 1 /\ dcp[n + 1].kind = "wait" /\ Output(dcp[n + 1])
    BY <2>1, <1>1, <1>2, SyncOutward
  <2>3. QED
    BY <2>2, <1>2, NestLens
<1>4. /\ dcp' \in Seq(DcpJobs) /\ Len(dcp') = n /\ DOMAIN dcp' = 1 .. n /\ Last(dcp) = dcp[n + 1]
      /\ \A i \in 1 .. n : dcp'[i] = dcp[i] /\ i \in DOMAIN dcp /\ i < Len(dcp)
  <2>1. dcp' = Front(dcp) /\ dcp \in Seq(DcpJobs)
    BY <1>2 DEF DcpTakes, Typed
  <2>2. /\ dcp' \in Seq(DcpJobs) /\ Len(dcp') = Len(dcp) - 1 /\ DOMAIN dcp' = 1 .. Len(dcp) - 1 /\ Last(dcp) = dcp[Len(dcp)]
        /\ DOMAIN dcp = 1 .. Len(dcp) /\ \A i \in 1 .. Len(dcp) - 1 : dcp'[i] = dcp[i]
    BY <2>1, <1>3, NestFront
  <2>3. Len(dcp) - 1 = n
    BY <1>3
  <2>4. QED
    BY <2>2, <2>3, <1>3
<1>5. /\ toDcp' = Tail(toDcp) /\ ~torn' /\ stack' = stack /\ callbackEnds' = callbackEnds
      /\ script' = script /\ swap' = swap /\ lastSwap' = lastSwap /\ ids' = ids /\ fromDcp' = fromDcp /\ shmem' = shmem
      /\ queuedSwaps' = queuedSwaps /\ doneSwaps' = doneSwaps
  <2>1. torn' = (torn \/ ~Intact(Blocks("callback", Last(dcp).off, 1), <<"output", Last(dcp).id>>))
    BY DEF DcpTakes
  <2>2. ~torn'
    BY <2>1, <1>2, <1>3, <1>4 DEF Output
  <2>3. QED
    BY <2>2 DEF DcpTakes, swapVars
<1>6. Typed'
  <2>1. toDcp' \in Seq(Outward)
    BY <1>2, <1>5, NestTail DEF Typed
  <2>2. QED
    BY <2>1, <1>2, <1>4, <1>5 DEF Typed, WaitFrame, Completion
<1>7. Mirrored' /\ ShapeOK(n)' /\ ScriptOK(n)'
  BY <1>1, <1>2, <1>5 DEF SoundAt, Mirrored, ShapeOK, ScriptOK, WaitFrame, Completion
<1>8. TokenOK(n)'
  BY <1>3, <1>4, <1>5 DEF TokenOK, Silent, Lone
<1>9. ChainOK(n)'
  <2>1. ASSUME NEW i \in 1 .. n
        PROVE  /\ Placed(dcp'[i], i) /\ (i = 1 => dcp'[i].kind = "run") /\ (i > 1 => dcp'[i].len = 1)
               /\ i < n => (dcp'[i].kind = "run" <=> dcp'[i + 1].kind = "wait")
               /\ stack[i].id = dcp'[i].id
               /\ stack[i].kind = "call" <=> dcp'[i].kind = "run"
               /\ stack[i].kind = "call" => stack[i].len = dcp'[i].len /\ stack[i].name = dcp'[i].name
    <3>1. i \in DOMAIN dcp /\ i <= n /\ i < Len(dcp) /\ dcp'[i] = dcp[i]
      BY <1>4
    <3>2. i < n => dcp'[i + 1] = dcp[i + 1]
      BY <1>4
    <3>3. QED
      BY <3>1, <3>2, <1>1 DEF SoundAt, ChainOK
  <2>2. /\ n <= Len(stack)
        /\ \A i \in 1 .. n :
             /\ stack[i] \in CallFrames \cup SyncFrames
             /\ Placed(stack[i], i) /\ (i = 1 => stack[i].kind = "call")
             /\ i > 1 /\ stack[i].kind = "call" => stack[i].len = 1 /\ stack[i].name = "nested"
             /\ i < n => (stack[i].kind = "call" <=> stack[i + 1].kind = "callback")
    BY <1>1 DEF SoundAt, ChainOK
  <2>3. stack' = stack
    BY <1>5
  <2>4. QED
    BY <2>1, <2>2, <2>3, <1>4 DEF ChainOK
<1>10. OutputsOK(n)'
  BY <1>1, <1>4, <1>5 DEF SoundAt, OutputsOK, Output, Intact
<1>11. SwapsOK(n)'
  <2>1. (Unseen' <=> Unseen) /\ (Handling' <=> Handling)
    BY <1>5 DEF Unseen, Calm, Handling, Completion
  <2>2. script = Submit => swap \notin doneSwaps /\ queuedSwaps = {} /\ lastSwap # swap
    BY <1>1, <1>3 DEF SoundAt, SwapsOK
  <2>3. dcp' # <<>> => dcp'[1] = dcp[1]
    BY <1>4, EmptySeq
  <2>4. QED
    BY <2>1, <2>2, <2>3, <1>1, <1>3, <1>5 DEF SoundAt, SwapsOK, Calm, Swapped
<1>12. QED
  BY <1>2, <1>5, <1>6, <1>7, <1>8, <1>9, <1>10, <1>11 DEF Sound, SoundAt

LEMMA DcpTakesSound == ASSUME Sound, DcpTakes PROVE Sound'
<1>1. Head(toDcp).type \in {"call", "ack"}
  BY DEF DcpTakes
<1>2. QED
  BY <1>1, CallTakenSound, AsyncAckSound, CallbackAckSound
------------------------------------------------------------------------------
(* The coprocessor works on the call on top of its stack. *)
LEMMA AfterAppend ==
  ASSUME NEW S, NEW s \in Seq(S), NEW x \in S,
         \A j, k \in DOMAIN s : s[j].ctx = "async" /\ s[k].ctx = "async" => j = k
  PROVE  /\ x.ctx # "async" => (Calm(Append(s, x)) <=> Calm(s))
         /\ x.ctx # "async" \/ Calm(s) =>
              /\ \A j, k \in DOMAIN Append(s, x) : Append(s, x)[j].ctx = "async" /\ Append(s, x)[k].ctx = "async" => j = k
              /\ \A j \in DOMAIN Append(s, x) : Append(s, x)[j].ctx = "async" =>
                   Append(s, x)[j] = x \/ \E k \in DOMAIN s : Append(s, x)[j] = s[k] /\ s[k].ctx = "async"
         /\ x.ctx = "async" => ~Calm(Append(s, x))
<1>1. PICK t : t = Append(s, x)
  OBVIOUS
<1>2. /\ Len(s) \in Nat /\ DOMAIN s = 1 .. Len(s) /\ DOMAIN t = 1 .. Len(s) + 1
      /\ t[Len(s) + 1] = x /\ \A i \in 1 .. Len(s) : t[i] = s[i]
  BY <1>1, NestAppend
<1>3. x.ctx # "async" => (Calm(t) <=> Calm(s))
  BY <1>2 DEF Calm
<1>4. x.ctx # "async" \/ Calm(s) =>
        /\ \A j, k \in DOMAIN t : t[j].ctx = "async" /\ t[k].ctx = "async" => j = k
        /\ \A j \in DOMAIN t : t[j].ctx = "async" => t[j] = x \/ \E k \in DOMAIN s : t[j] = s[k] /\ s[k].ctx = "async"
  BY <1>2 DEF Calm
<1>5. x.ctx = "async" => ~Calm(t)
  BY <1>2 DEF Calm
<1>6. QED
  BY <1>1, <1>3, <1>4, <1>5

LEMMA TopIs ==
  ASSUME NEW n \in Nat, SoundAt(n), Typed, DcpRuns
  PROVE  Top = n - 1 /\ n - 1 \in Nat
<1>1. Len(dcp) = n /\ n > 0 /\ DOMAIN dcp = 1 .. n /\ n - 1 \in Nat
  <2>1. Len(dcp) = n /\ n > 0
    BY AtJob
  <2>2. DOMAIN dcp = 1 .. Len(dcp)
    BY NestLens
  <2>3. QED
    BY <2>1, <2>2
<1>2. \A i \in 1 .. n : Placed(dcp[i], i) /\ (i > 1 => dcp[i].len = 1)
  BY <1>1 DEF SoundAt, ChainOK
<1>3. CASE n = 1
  <2>1. InChannel = {}
    BY <1>1, <1>2, <1>3 DEF InChannel, Placed
  <2>2. QED
    BY <2>1, <1>1, <1>3 DEF Top
<1>4. CASE n # 1
  <2>1. InChannel = 2 .. n
    BY <1>1, <1>2, <1>4 DEF InChannel, Placed
  <2>2. n \in InChannel /\ \A j \in InChannel : j <= n
    BY <2>1, <1>1, <1>4
  <2>3. PICK i : i = CHOOSE k \in InChannel : \A j \in InChannel : j <= k
    OBVIOUS
  <2>4. i \in InChannel /\ \A j \in InChannel : j <= i
    BY <2>2, <2>3
  <2>5. i = n
    BY <2>1, <2>2, <2>4
  <2>6. Top = dcp[n].off + dcp[n].len
    BY <2>2, <2>3, <2>5 DEF Top
  <2>7. dcp[n].off = n - 2 /\ dcp[n].len = 1
    BY <1>1, <1>2, <1>4 DEF Placed
  <2>8. QED
    BY <2>6, <2>7, <1>1
<1>5. QED
  BY <1>3, <1>4

LEMMA DcpCallsBackSound == ASSUME Sound, NEW tag \in Tags, DcpCallsBack(tag) PROVE Sound'
<1>1. PICK n \in Nat : SoundAt(n)
  BY DEF Sound
<1>2. Typed /\ Mirrored /\ ~torn /\ DcpRuns
  BY DEF Sound, DcpCallsBack
<1>3. /\ Len(dcp) = n /\ n > 0 /\ Silent(toDcp) /\ Silent(fromDcp) /\ dcp[n].kind = "run" /\ stack[n].kind = "call"
      /\ Top = n - 1 /\ n - 1 \in Nat
  BY <1>1, <1>2, AtJob, TopIs
<1>4. PICK w : w = [kind |-> "wait", id |-> ids + 1, ctx |-> "callback", off |-> n - 1, len |-> 1, name |-> tag, swap |-> 0]
  OBVIOUS
<1>5. ids \in Nat /\ {swap, lastSwap} \cup queuedSwaps \cup doneSwaps \subseteq 0 .. ids
  BY <1>1, <1>2 DEF Typed, SoundAt, SwapsOK
<1>6. /\ w \in DcpJobs /\ CallbackMessage(w) \in Inward /\ CallbackMessage(w).ctx = "callback"
      /\ w.kind = "wait" /\ w.ctx = "callback" /\ w.off = n - 1 /\ w.len = 1
  BY <1>3, <1>4, <1>5 DEF DcpJobs, CallbackMessage, Inward
<1>7. /\ dcp' = Append(dcp, w) /\ toDcp' = toDcp /\ torn' = torn /\ stack' = stack /\ callbackEnds' = callbackEnds
      /\ script' = script /\ swap' = swap /\ lastSwap' = lastSwap /\ ids' = ids + 1 /\ fromDcp' = Append(fromDcp, CallbackMessage(w))
      /\ shmem' = Written(Blocks("callback", n - 1, 1), <<"callback", ids + 1>>) /\ queuedSwaps' = queuedSwaps /\ doneSwaps' = doneSwaps
  BY <1>3, <1>4 DEF DcpCallsBack, CallbackMessage, swapVars
<1>8. /\ dcp' \in Seq(DcpJobs) /\ Len(dcp') = n + 1 /\ DOMAIN dcp' = 1 .. n + 1 /\ dcp'[n + 1] = w /\ DOMAIN dcp = 1 .. n
      /\ \A i \in 1 .. n : dcp'[i] = dcp[i]
  <2>1. dcp \in Seq(DcpJobs)
    BY <1>2 DEF Typed
  <2>2. /\ dcp' \in Seq(DcpJobs) /\ Len(dcp') = Len(dcp) + 1 /\ DOMAIN dcp' = 1 .. Len(dcp) + 1 /\ dcp'[Len(dcp) + 1] = w
        /\ DOMAIN dcp = 1 .. Len(dcp) /\ \A i \in 1 .. Len(dcp) : dcp'[i] = dcp[i]
    BY <2>1, <1>6, <1>7, NestAppend
  <2>3. QED
    BY <2>2, <1>3
<1>9. Typed'
  <2>1. fromDcp' \in Seq(Inward)
    BY <1>2, <1>6, <1>7, NestAppend DEF Typed
  <2>2. QED
    BY <2>1, <1>2, <1>5, <1>7, <1>8 DEF Typed, WaitFrame, Completion
<1>10. Mirrored' /\ ShapeOK(n)' /\ ScriptOK(n)'
  BY <1>1, <1>2, <1>7 DEF SoundAt, Mirrored, ShapeOK, ScriptOK, WaitFrame, Completion
<1>11. TokenOK(n)'
  <2>1. Lone(fromDcp') /\ Has(fromDcp', CallbackMessage(w))
    BY <1>2, <1>3, <1>6, <1>7, Joins DEF Typed
  <2>2. Has(fromDcp, CallbackMessage(dcp[n + 1]))'
    BY <2>1, <1>7, <1>8 DEF CallbackMessage
  <2>3. QED
    BY <2>1, <2>2, <1>3, <1>6, <1>7, <1>8 DEF TokenOK, Silent, Lone
<1>12. ChainOK(n)'
  <2>1. ASSUME NEW i \in 1 .. n + 1
        PROVE  /\ Placed(dcp'[i], i) /\ (i = 1 => dcp'[i].kind = "run") /\ (i > 1 => dcp'[i].len = 1)
               /\ i < n + 1 => (dcp'[i].kind = "run" <=> dcp'[i + 1].kind = "wait")
               /\ i <= n => /\ stack[i].id = dcp'[i].id
                            /\ stack[i].kind = "call" <=> dcp'[i].kind = "run"
                            /\ stack[i].kind = "call" => stack[i].len = dcp'[i].len /\ stack[i].name = dcp'[i].name
    <3>1. CASE i = n + 1
      <4>1. Placed(w, n + 1)
        BY <1>3, <1>6 DEF Placed
      <4>2. QED
        BY <4>1, <3>1, <1>3, <1>6, <1>8
    <3>2. CASE i # n + 1
      <4>1. i \in 1 .. n /\ i \in DOMAIN dcp /\ i <= n /\ dcp'[i] = dcp[i]
        BY <3>2, <1>8
      <4>2. dcp'[i].kind = "run" <=> dcp'[i + 1].kind = "wait"
        <5>1. CASE i = n
          BY <5>1, <4>1, <1>3, <1>6, <1>8
        <5>2. CASE i # n
          <6>1. i + 1 \in 1 .. n /\ i < Len(dcp)
            BY <5>2, <4>1, <1>3
          <6>2. dcp[i].kind = "run" <=> dcp[i + 1].kind = "wait"
            BY <6>1, <4>1, <1>1 DEF SoundAt, ChainOK
          <6>3. QED
            BY <6>1, <6>2, <4>1, <1>8
        <5>3. QED
          BY <5>1, <5>2
      <4>3. QED
        BY <4>1, <4>2, <1>1 DEF SoundAt, ChainOK
    <3>3. QED
      BY <3>1, <3>2
  <2>2. /\ n <= Len(stack)
        /\ \A i \in 1 .. n :
             /\ stack[i] \in CallFrames \cup SyncFrames
             /\ Placed(stack[i], i) /\ (i = 1 => stack[i].kind = "call")
             /\ i > 1 /\ stack[i].kind = "call" => stack[i].len = 1 /\ stack[i].name = "nested"
             /\ i < n => (stack[i].kind = "call" <=> stack[i + 1].kind = "callback")
    BY <1>1 DEF SoundAt, ChainOK
  <2>3. stack' = stack
    BY <1>7
  <2>4. QED
    BY <2>1, <2>2, <2>3, <1>8 DEF ChainOK
<1>13. OutputsOK(n)'
  <2> SUFFICES ASSUME NEW i \in DOMAIN dcp', dcp'[i].kind = "wait", i <= n PROVE Output(dcp[i])'
    BY DEF OutputsOK
  <2>1. i \in 1 .. n /\ i \in DOMAIN dcp /\ dcp'[i] = dcp[i]
    BY <1>8
  <2>2. Output(dcp[i]) /\ dcp[i].off = i - 2 /\ i > 1
    BY <2>1, <1>1 DEF SoundAt, OutputsOK, ChainOK, Placed
  <2>3. Blocks("callback", dcp[i].off, 1) \cap Blocks("callback", n - 1, 1) = {}
    BY <2>1, <2>2, <1>3, Apart
  <2>4. QED
    BY <2>1, <2>2, <2>3, <1>7, WritesThere DEF Output
<1>14. SwapsOK(n)'
  <2>1. /\ Calm(fromDcp') <=> Calm(fromDcp)
        /\ \A j, k \in DOMAIN fromDcp' : fromDcp'[j].ctx = "async" /\ fromDcp'[k].ctx = "async" => j = k
        /\ \A j \in DOMAIN fromDcp' : fromDcp'[j].ctx = "async" =>
             fromDcp'[j] = CallbackMessage(w) \/ \E k \in DOMAIN fromDcp : fromDcp'[j] = fromDcp[k] /\ fromDcp[k].ctx = "async"
    <3>1. /\ fromDcp \in Seq(Inward) /\ CallbackMessage(w) \in Inward
          /\ \A j, k \in DOMAIN fromDcp : fromDcp[j].ctx = "async" /\ fromDcp[k].ctx = "async" => j = k
      BY <1>1, <1>2, <1>6 DEF SoundAt, SwapsOK, Typed
    <3>2. PICK x : x = CallbackMessage(w)
      OBVIOUS
    <3>3. fromDcp' = Append(fromDcp, x) /\ x \in Inward
      BY <3>1, <3>2, <1>7
    <3>4. QED
      BY SMTT(20), <3>1, <3>2, <3>3, AfterAppend, <1>6, <1>7
  <2>2. \A j \in DOMAIN fromDcp' : fromDcp'[j].ctx = "async" => fromDcp'[j] = Swapped(swap)
    BY <2>1, <1>1, <1>6 DEF SoundAt, SwapsOK
  <2>3. Handling' <=> Handling
    BY <1>7 DEF Handling, Completion
  <2>4. Unseen' <=> Unseen
    BY <2>1, <2>3 DEF Unseen
  <2>5. script = Submit => swap \notin doneSwaps /\ queuedSwaps = {} /\ lastSwap # swap
    BY <1>1, <1>3, <1>2, NestLens DEF SoundAt, SwapsOK
  <2>6. dcp'[1] = dcp[1] /\ dcp # <<>>
    <3>1. 1 \in 1 .. n
      BY <1>3
    <3>2. QED
      BY <3>1, <1>2, <1>3, <1>8, NestLens
  <2>7. {swap, lastSwap} \cup queuedSwaps \cup doneSwaps \subseteq 0 .. ids'
    BY <1>5, <1>7
  <2>8. n > 0 /\ stack[1].name = "begin" => stack[1].id \in (1 .. ids') \ (doneSwaps \cup {lastSwap})
    BY <1>1, <1>5, <1>7 DEF SoundAt, SwapsOK
  <2>9. QED
    BY <2>1, <2>2, <2>3, <2>4, <2>5, <2>6, <2>7, <2>8, <1>1, <1>7 DEF SoundAt, SwapsOK, Swapped
<1>15. QED
  BY <1>2, <1>7, <1>9, <1>10, <1>11, <1>12, <1>13, <1>14 DEF Sound, SoundAt

LEMMA DcpRepliesSound == ASSUME Sound, NEW how \in {"reply", "refused"}, DcpReplies(how) PROVE Sound'
<1>1. PICK n \in Nat : SoundAt(n)
  BY DEF Sound
<1>2. Typed /\ Mirrored /\ ~torn /\ DcpRuns /\ dcp # <<>>
  BY DEF Sound, DcpReplies, DcpRuns
<1>3. PICK r, f : r = dcp[n] /\ f = stack[n]
  OBVIOUS
<1>4. /\ Len(dcp) = n /\ n > 0 /\ Silent(toDcp) /\ Silent(fromDcp) /\ Last(dcp) = r /\ r.kind = "run" /\ f.kind = "call"
      /\ f \in CallFrames /\ n \in 1 .. n /\ n \in DOMAIN dcp
  <2>1. /\ Len(dcp) = n /\ n > 0 /\ Silent(toDcp) /\ Silent(fromDcp) /\ Last(dcp) = r /\ r.kind = "run" /\ f.kind = "call"
        /\ f \in CallFrames
    BY <1>1, <1>2, <1>3, AtJob
  <2>2. QED
    BY <2>1, <1>2, NestLens
<1>5. /\ r.id = f.id /\ r.ctx = f.ctx /\ r.off = f.off /\ r.len = f.len /\ r.name = f.name /\ r \in DcpJobs
      /\ r.ctx \in {"command", "callback"} /\ r.off \in Nat /\ r.len \in Nat
      /\ (n > 1 => r.ctx = "callback" /\ r.off = n - 2 /\ r.len = 1 /\ r.name = "nested")
  <2>1. r.id = f.id /\ r.len = f.len /\ r.name = f.name /\ (n > 1 => r.len = 1 /\ f.name = "nested")
    BY <1>1, <1>3, <1>4 DEF SoundAt, ChainOK
  <2>2. Placed(r, n) /\ Placed(f, n)
    BY <1>1, <1>3, <1>4 DEF SoundAt, ChainOK
  <2>3. r.ctx = f.ctx /\ r.off = f.off /\ (n > 1 => r.ctx = "callback" /\ r.off = n - 2)
    BY <2>2, <1>4 DEF Placed
  <2>4. r \in DcpJobs
    BY <1>2, <1>3, <1>4, NestLens
  <2>5. f.ctx \in {"command", "callback"} /\ f.off \in Nat /\ f.len \in Nat
    BY <1>4 DEF CallFrames
  <2>6. QED
    BY <2>1, <2>3, <2>4, <2>5
<1>6. /\ toDcp' = toDcp /\ torn' = torn /\ stack' = stack /\ callbackEnds' = callbackEnds /\ dcp' = Front(dcp)
      /\ script' = script /\ swap' = swap /\ lastSwap' = lastSwap /\ ids' = ids /\ fromDcp' = Append(fromDcp, Acked(f.ctx))
      /\ shmem' = Written(Blocks(ChannelArea(f.ctx), f.off, f.len), <<how, f.id>>) /\ doneSwaps' = doneSwaps
      /\ queuedSwaps' = (IF r.name = "submit" /\ how = "reply" THEN queuedSwaps \cup {r.swap} ELSE queuedSwaps)
  BY <1>4, <1>5 DEF DcpReplies, Acked, swapVars
<1>7. PICK m \in Nat : m = n - 1 /\ m + 1 = n
  <2>1. n - 1 \in Nat /\ (n - 1) + 1 = n
    BY <1>4
  <2>2. QED
    BY <2>1
<1>8. /\ dcp' \in Seq(DcpJobs) /\ Len(dcp') = m /\ DOMAIN dcp' = 1 .. m
      /\ \A i \in 1 .. m : dcp'[i] = dcp[i] /\ i \in DOMAIN dcp /\ i < Len(dcp) /\ i \in 1 .. n /\ i <= n
  <2>1. dcp' = Front(dcp) /\ dcp \in Seq(DcpJobs)
    BY <1>2, <1>6 DEF Typed
  <2>2. /\ dcp' \in Seq(DcpJobs) /\ Len(dcp') = Len(dcp) - 1 /\ DOMAIN dcp' = 1 .. Len(dcp) - 1
        /\ DOMAIN dcp = 1 .. Len(dcp) /\ \A i \in 1 .. Len(dcp) - 1 : dcp'[i] = dcp[i]
    BY <2>1, <1>2, NestFront
  <2>3. Len(dcp) - 1 = m
    BY <1>4, <1>7
  <2>4. QED
    BY <2>2, <2>3, <1>4, <1>7
<1>9. Acked(f.ctx) \in Inward /\ Acked(f.ctx).ctx # "async"
  BY <1>5 DEF Acked, Inward
<1>10. Typed'
  <2>1. fromDcp' \in Seq(Inward)
    BY <1>2, <1>6, <1>9, NestAppend DEF Typed
  <2>2. QED
    BY <2>1, <1>2, <1>6, <1>8 DEF Typed, WaitFrame, Completion
<1>11. Mirrored' /\ ShapeOK(n)' /\ ScriptOK(n)'
  BY <1>1, <1>2, <1>6 DEF SoundAt, Mirrored, ShapeOK, ScriptOK, WaitFrame, Completion
<1>12. RepliedWith(f, how)'
  BY <1>6, WritesThere DEF RepliedWith
<1>13. TokenOK(n)'
  <2>1. Lone(fromDcp') /\ Has(fromDcp', Acked(f.ctx))
    BY <1>2, <1>4, <1>6, <1>9, Joins DEF Typed
  <2>2. IsReplied(stack[n])'
    BY <1>3, <1>6, <1>12 DEF IsReplied
  <2>3. QED
    BY <2>1, <2>2, <1>3, <1>4, <1>6, <1>7, <1>8 DEF TokenOK, Silent, Lone
<1>14. ChainOK(n)'
  <2>1. ASSUME NEW i \in 1 .. m
        PROVE  /\ Placed(dcp'[i], i) /\ (i = 1 => dcp'[i].kind = "run") /\ (i > 1 => dcp'[i].len = 1)
               /\ i < m => (dcp'[i].kind = "run" <=> dcp'[i + 1].kind = "wait")
               /\ stack[i].id = dcp'[i].id
               /\ stack[i].kind = "call" <=> dcp'[i].kind = "run"
               /\ stack[i].kind = "call" => stack[i].len = dcp'[i].len /\ stack[i].name = dcp'[i].name
    <3>1. i \in DOMAIN dcp /\ i <= n /\ i < Len(dcp) /\ dcp'[i] = dcp[i]
      BY <1>8
    <3>2. i < m => dcp'[i + 1] = dcp[i + 1]
      BY <1>8
    <3>3. QED
      BY <3>1, <3>2, <1>1 DEF SoundAt, ChainOK
  <2>2. /\ n <= Len(stack)
        /\ \A i \in 1 .. n :
             /\ stack[i] \in CallFrames \cup SyncFrames
             /\ Placed(stack[i], i) /\ (i = 1 => stack[i].kind = "call")
             /\ i > 1 /\ stack[i].kind = "call" => stack[i].len = 1 /\ stack[i].name = "nested"
             /\ i < n => (stack[i].kind = "call" <=> stack[i + 1].kind = "callback")
    BY <1>1 DEF SoundAt, ChainOK
  <2>3. stack' = stack
    BY <1>6
  <2>4. QED
    BY <2>1, <2>2, <2>3, <1>8 DEF ChainOK
<1>15. OutputsOK(n)'
  <2> SUFFICES ASSUME NEW i \in DOMAIN dcp', dcp'[i].kind = "wait", i <= n PROVE Output(dcp[i])'
    BY DEF OutputsOK
  <2>1. i \in 1 .. m /\ i \in DOMAIN dcp /\ dcp'[i] = dcp[i] /\ i <= n
    BY <1>8
  <2>2. Output(dcp[i]) /\ dcp[i].off = i - 2 /\ i > 1
    BY <2>1, <1>1 DEF SoundAt, OutputsOK, ChainOK, Placed
  <2>3. n > 1 /\ ChannelArea(f.ctx) = "callback" /\ f.off = n - 2 /\ f.len = 1
    BY <2>1, <2>2, <1>5, <1>7 DEF ChannelArea
  <2>4. Blocks("callback", dcp[i].off, 1) \cap Blocks("callback", f.off, 1) = {}
    <3>1. dcp[i].off \in Nat /\ f.off \in Nat /\ dcp[i].off + 1 <= f.off
      BY <2>1, <2>2, <2>3, <1>7
    <3>2. QED
      BY <3>1, Apart
  <2>5. QED
    BY <2>1, <2>2, <2>3, <2>4, <1>6, WritesThere DEF Output
<1>16. SwapsOK(n)'
  <2>1. /\ Calm(fromDcp') <=> Calm(fromDcp)
        /\ \A j, k \in DOMAIN fromDcp' : fromDcp'[j].ctx = "async" /\ fromDcp'[k].ctx = "async" => j = k
        /\ \A j \in DOMAIN fromDcp' : fromDcp'[j].ctx = "async" =>
             fromDcp'[j] = Acked(f.ctx) \/ \E k \in DOMAIN fromDcp : fromDcp'[j] = fromDcp[k] /\ fromDcp[k].ctx = "async"
    <3>1. /\ fromDcp \in Seq(Inward) /\ Acked(f.ctx) \in Inward
          /\ \A j, k \in DOMAIN fromDcp : fromDcp[j].ctx = "async" /\ fromDcp[k].ctx = "async" => j = k
      BY <1>1, <1>2, <1>9 DEF SoundAt, SwapsOK, Typed
    <3>2. PICK x : x = Acked(f.ctx)
      OBVIOUS
    <3>3. fromDcp' = Append(fromDcp, x) /\ x \in Inward
      BY <3>1, <3>2, <1>6
    <3>4. QED
      BY <3>1, <3>2, <3>3, AfterAppend, <1>9, <1>6
  <2>2. \A j \in DOMAIN fromDcp' : fromDcp'[j].ctx = "async" => fromDcp'[j] = Swapped(swap)
    BY <2>1, <1>1, <1>9 DEF SoundAt, SwapsOK
  <2>3. Handling' <=> Handling
    BY <1>6 DEF Handling, Completion
  <2>4. Unseen' <=> Unseen
    BY <2>1, <2>3 DEF Unseen
  <2>5. script = Submit => swap \notin doneSwaps /\ queuedSwaps = {} /\ lastSwap # swap
    BY <1>1, <1>2 DEF SoundAt, SwapsOK
  <2>6. dcp' # <<>> => dcp'[1] = dcp[1]
    BY <1>8, EmptySeq
  <2>7. CASE r.name = "submit" /\ how = "reply"
    <3>1. n = 1 /\ dcp' = <<>>
      <4>1. n = 1
        BY <2>7, <1>4, <1>5
      <4>2. QED
        BY <4>1, <1>7, <1>8, EmptySeq
    <3>2. r.swap = swap /\ script = Submit
      <4>1. script # <<>> /\ Head(script) = "submit" /\ script \in Scripts
        BY <3>1, <2>7, <1>1, <1>2, <1>3, <1>5 DEF SoundAt, ScriptOK, Typed
      <4>2. script = Submit
        BY <4>1, ScriptParts
      <4>3. QED
        BY <4>2, <3>1, <2>7, <1>1, <1>2, <1>3 DEF SoundAt, SwapsOK
    <3>3. queuedSwaps' = {swap} /\ ~Unseen /\ swap \notin doneSwaps /\ lastSwap # swap
      <4>1. queuedSwaps' = queuedSwaps \cup {swap}
        BY <2>7, <3>2, <1>6
      <4>2. queuedSwaps = {} /\ swap \notin doneSwaps /\ lastSwap # swap
        BY <2>5, <3>2
      <4>3. Unseen => swap \in doneSwaps
        BY <1>1 DEF SoundAt, SwapsOK
      <4>4. QED
        BY <4>1, <4>2, <4>3
    <3>4. RepliedWith(stack[1], "reply")'
      BY <3>1, <2>7, <1>3, <1>6, <1>12
    <3>5. {swap, lastSwap} \cup {swap} \cup doneSwaps \subseteq 0 .. ids
      BY <1>1 DEF SoundAt, SwapsOK
    <3>6. n > 0 /\ stack[1].name = "begin" => stack[1].id \in (1 .. ids) \ (doneSwaps \cup {lastSwap})
      BY <1>1 DEF SoundAt, SwapsOK
    <3>7. (Handling => Calm(fromDcp)) /\ script' = Submit /\ swap' = swap /\ doneSwaps' = doneSwaps /\ lastSwap' = lastSwap /\ ids' = ids
          /\ Silent(toDcp) /\ toDcp' = toDcp /\ stack' = stack
      BY <3>2, <1>1, <1>4, <1>6 DEF SoundAt, SwapsOK
    <3>8. QED
      BY <2>1, <2>2, <2>3, <2>4, <3>1, <3>3, <3>4, <3>5, <3>6, <3>7 DEF SwapsOK
  <2>8. CASE ~(r.name = "submit" /\ how = "reply")
    <3>1. queuedSwaps' = queuedSwaps
      BY <2>8, <1>6
    <3>2. QED
      BY <2>1, <2>2, <2>3, <2>4, <2>5, <2>6, <3>1, <1>1, <1>2, <1>6 DEF SoundAt, SwapsOK, Swapped
  <2>9. QED
    BY <2>7, <2>8
<1>17. QED
  BY <1>2, <1>6, <1>10, <1>11, <1>13, <1>14, <1>15, <1>16 DEF Sound, SoundAt

LEMMA DcpSwapsSound == ASSUME Sound, DcpSwaps PROVE Sound'
<1>1. PICK n \in Nat : SoundAt(n)
  BY DEF Sound
<1>2. Typed /\ Mirrored /\ ~torn
  BY DEF Sound
<1>3. /\ toDcp' = toDcp /\ torn' = torn /\ stack' = stack /\ callbackEnds' = callbackEnds /\ dcp' = dcp
      /\ script' = script /\ swap' = swap /\ lastSwap' = lastSwap /\ ids' = ids /\ fromDcp' = Append(fromDcp, Swapped(swap))
      /\ shmem' = Written(Blocks("async", 0, 1), <<"callback", swap>>) /\ doneSwaps' = doneSwaps \cup {swap} /\ queuedSwaps' = {}
      /\ queuedSwaps # {}
  <2>1. PICK s \in queuedSwaps : /\ queuedSwaps' = queuedSwaps \ {s} /\ doneSwaps' = doneSwaps \cup {s} /\ fromDcp' = Append(fromDcp, Swapped(s))
                            /\ shmem' = Written(Blocks("async", 0, 1), <<"callback", s>>)
    BY DEF DcpSwaps, Swapped
  <2>2. s = swap /\ queuedSwaps = {swap}
    BY <2>1, <1>1 DEF SoundAt, SwapsOK
  <2>3. QED
    BY <2>1, <2>2 DEF DcpSwaps, swapVars
<1>4. /\ swap \notin doneSwaps /\ ~Unseen /\ Calm(fromDcp) /\ ~Handling /\ lastSwap # swap /\ script \in {Submit, <<"wait">>}
  <2>1. swap \notin doneSwaps /\ ~Unseen
    BY <1>1, <1>3 DEF SoundAt, SwapsOK
  <2>2. QED
    BY <2>1, <1>1, <1>3 DEF SoundAt, SwapsOK, Unseen
<1>5. Swapped(swap) \in Inward /\ Swapped(swap).ctx = "async" /\ swap \in Nat
  BY <1>2 DEF Inward, Swapped, Typed
<1>6. Typed'
  <2>1. fromDcp' \in Seq(Inward)
    BY <1>2, <1>3, <1>5, NestAppend DEF Typed
  <2>2. QED
    BY <2>1, <1>2, <1>3 DEF Typed, WaitFrame, Completion
<1>7. Mirrored' /\ ShapeOK(n)' /\ ScriptOK(n)' /\ ChainOK(n)'
  BY <1>1, <1>2, <1>3 DEF SoundAt, Mirrored, ShapeOK, ScriptOK, ChainOK, WaitFrame, Completion
<1>8. /\ \A f \in CallFrames : \A how : RepliedWith(f, how) => RepliedWith(f, how)'
      /\ \A j \in DcpJobs : Output(j) => Output(j)'
  BY <1>3, OutOfTheWay
<1>9. n > 0 /\ stack[n].kind = "call" => stack[n] \in CallFrames
  BY <1>1, FrameKinds DEF SoundAt, ChainOK
<1>10. TokenOK(n)'
  <2>1. Lone(fromDcp') /\ (Silent(fromDcp) => Silent(fromDcp')) /\ \A y : Has(fromDcp, y) => Has(fromDcp', y)
    BY <1>1, <1>2, <1>3, <1>5, Joins DEF Typed, SoundAt, TokenOK
  <2>2. n = Len(dcp) + 1 => n > 0
    BY <1>2, NestLens
  <2>3. n = Len(dcp) + 1 /\ stack[n].kind = "call" /\ IsReplied(stack[n]) => IsReplied(stack[n])'
    <3> SUFFICES ASSUME n = Len(dcp) + 1, stack[n].kind = "call", IsReplied(stack[n]) PROVE IsReplied(stack[n])'
      OBVIOUS
    <3>1. PICK f : f = stack[n] /\ f \in CallFrames
      BY <2>2, <1>9
    <3>2. IsReplied(f)'
      BY <3>1, <1>8 DEF IsReplied
    <3>3. QED
      BY <3>1, <3>2, <1>3 DEF IsReplied
  <2>4. Len(dcp) = n + 1 /\ Output(dcp[n + 1]) => Output(dcp[n + 1])'
    <3> SUFFICES ASSUME Len(dcp) = n + 1, Output(dcp[n + 1]) PROVE Output(dcp[n + 1])'
      OBVIOUS
    <3>1. PICK w : w = dcp[n + 1] /\ w \in DcpJobs
      BY <1>2, NestLens
    <3>2. Output(w)'
      BY <3>1, <1>8
    <3>3. QED
      BY <3>1, <3>2, <1>3
  <2>5. Has(toDcp, CallMessage(stack[n])) => Has(toDcp, CallMessage(stack[n]))'
    BY <1>3 DEF CallMessage, Has
  <2>6. QED
    BY <2>1, <2>3, <2>4, <2>5, <1>1, <1>3 DEF SoundAt, TokenOK
<1>11. OutputsOK(n)'
  <2> SUFFICES ASSUME NEW i \in DOMAIN dcp, dcp[i].kind = "wait", i <= n PROVE Output(dcp[i])'
    BY <1>3 DEF OutputsOK
  <2>1. PICK w : w = dcp[i] /\ w \in DcpJobs
    BY <1>2, NestLens
  <2>2. Output(w)
    BY <2>1, <1>1 DEF SoundAt, OutputsOK
  <2>3. Output(w)'
    BY <2>1, <2>2, <1>8
  <2>4. QED
    BY <2>1, <2>3, <1>3
<1>12. SwapsOK(n)'
  <2>1. /\ ~Calm(fromDcp')
        /\ \A j, k \in DOMAIN fromDcp' : fromDcp'[j].ctx = "async" /\ fromDcp'[k].ctx = "async" => j = k
        /\ \A j \in DOMAIN fromDcp' : fromDcp'[j].ctx = "async" =>
             fromDcp'[j] = Swapped(swap) \/ \E k \in DOMAIN fromDcp : fromDcp'[j] = fromDcp[k] /\ fromDcp[k].ctx = "async"
    <3>1. /\ fromDcp \in Seq(Inward) /\ Swapped(swap) \in Inward
          /\ \A j, k \in DOMAIN fromDcp : fromDcp[j].ctx = "async" /\ fromDcp[k].ctx = "async" => j = k
      BY <1>1, <1>2, <1>5 DEF SoundAt, SwapsOK, Typed
    <3>2. PICK x : x = Swapped(swap)
      OBVIOUS
    <3>3. fromDcp' = Append(fromDcp, x) /\ x \in Inward
      BY <3>1, <3>2, <1>3, <1>4
    <3>4. QED
      BY <3>1, <3>2, <3>3, AfterAppend, <1>5, <1>3, <1>4
  <2>2. \A j \in DOMAIN fromDcp' : fromDcp'[j].ctx = "async" => fromDcp'[j] = Swapped(swap)
    BY <2>1, <1>1 DEF SoundAt, SwapsOK
  <2>3. ~Handling' /\ Unseen'
    BY <2>1, <1>3, <1>4 DEF Handling, Completion, Unseen
  <2>4. script = Submit => (n = 1 /\ dcp = <<>> /\ Silent(toDcp) /\ RepliedWith(stack[1], "reply"))'
    <3> SUFFICES ASSUME script = Submit PROVE (n = 1 /\ dcp = <<>> /\ Silent(toDcp) /\ RepliedWith(stack[1], "reply"))'
      OBVIOUS
    <3>1. n = 1 /\ dcp = <<>> /\ Silent(toDcp) /\ RepliedWith(stack[1], "reply")
      BY <1>1, <1>3 DEF SoundAt, SwapsOK
    <3>2. PICK f : f = stack[1] /\ f \in CallFrames
      BY <3>1, <1>1, FrameKinds DEF SoundAt, ChainOK
    <3>3. RepliedWith(f, "reply")'
      BY <3>1, <3>2, <1>8
    <3>4. QED
      BY <3>1, <3>2, <3>3, <1>3 DEF Silent
  <2>5. {swap, lastSwap} \cup {} \cup (doneSwaps \cup {swap}) \subseteq 0 .. ids
    BY <1>1 DEF SoundAt, SwapsOK
  <2>6. ~(n > 0 /\ stack[1].name = "begin")
    <3>1. n > 0 => stack[1].name = Head(script)
      BY <1>1 DEF SoundAt, ScriptOK
    <3>2. Head(script) # "begin"
      BY <1>4 DEF Submit
    <3>3. QED
      BY <3>1, <3>2
  <2>7. dcp # <<>> /\ dcp[1].name = "submit" => dcp[1].swap = swap
    BY <1>1 DEF SoundAt, SwapsOK
  <2>8. QED
    BY <2>1, <2>2, <2>3, <2>4, <2>5, <2>6, <2>7, <1>3, <1>4 DEF SwapsOK
<1>13. QED
  BY <1>2, <1>3, <1>6, <1>7, <1>10, <1>11, <1>12 DEF Sound, SoundAt
------------------------------------------------------------------------------
LEMMA InitSound == IomfbInit => NestInv
<1> SUFFICES ASSUME IomfbInit PROVE Sound
  BY DEF NestInv
<1>1. /\ stack = <<>> /\ callbackEnds = <<>> /\ script = <<>> /\ swap = 0 /\ lastSwap = 0 /\ ids = 0
      /\ toDcp = <<>> /\ fromDcp = <<>> /\ ~torn /\ dcp = <<>> /\ queuedSwaps = {} /\ doneSwaps = {}
  BY DEF IomfbInit
<1>2. /\ DOMAIN stack = {} /\ DOMAIN callbackEnds = {} /\ DOMAIN dcp = {} /\ DOMAIN toDcp = {} /\ DOMAIN fromDcp = {}
      /\ Len(stack) = 0 /\ Len(dcp) = 0
  BY <1>1
<1>3. Typed
  BY <1>1 DEF Typed, Scripts
<1>4. Mirrored
  <2>1. PICK at : at = [k \in {} |-> 0]
    OBVIOUS
  <2>2. DOMAIN at = {} /\ at \in [DOMAIN callbackEnds -> DOMAIN stack]
    BY <2>1, <1>2
  <2>3. QED
    BY <2>2, <1>2 DEF Mirrored
<1>5. ShapeOK(0) /\ ChainOK(0) /\ TokenOK(0) /\ OutputsOK(0) /\ ScriptOK(0)
  BY <1>1, <1>2 DEF ShapeOK, ChainOK, TokenOK, OutputsOK, ScriptOK, Silent, Lone
<1>6. SwapsOK(0)
  <2>1. ~Unseen /\ ~Handling
    BY <1>1, <1>2 DEF Unseen, Handling, Calm
  <2>2. script # Submit
    BY <1>1, ScriptParts
  <2>3. QED
    BY <2>1, <2>2, <1>1, <1>2 DEF SwapsOK
<1>7. QED
  BY <1>1, <1>3, <1>4, <1>5, <1>6 DEF Sound, SoundAt

LEMMA UnwindAbandons ==
  ASSUME stack # <<>>, Unwind, abandoned = {} => Typed
  PROVE  abandoned' # {}
<1>1. abandoned' = abandoned \cup {stack[i].id : i \in DOMAIN stack}
  BY Zenon DEF Unwind
<1>2. CASE abandoned # {}
  BY <1>1, <1>2
<1>3. CASE abandoned = {}
  <2>1. 1 \in DOMAIN stack
    BY <1>3, NestLens
  <2>2. QED
    BY <2>1, <1>1
<1>4. QED
  BY <1>2, <1>3

LEMMA StutterSound == ASSUME Sound, UNCHANGED iomfbVars PROVE Sound'
<1>1. PICK n \in Nat : SoundAt(n)
  BY DEF Sound
<1>2. /\ toDcp' = toDcp /\ torn' = torn /\ stack' = stack /\ callbackEnds' = callbackEnds /\ dcp' = dcp
      /\ script' = script /\ swap' = swap /\ lastSwap' = lastSwap /\ ids' = ids /\ fromDcp' = fromDcp
      /\ shmem' = shmem /\ doneSwaps' = doneSwaps /\ queuedSwaps' = queuedSwaps
  BY DEF iomfbVars, swapVars, memVars, fwVars
<1>3. Typed' /\ Mirrored'
  BY <1>2 DEF Sound, Typed, Mirrored, WaitFrame, Completion
<1>4. ShapeOK(n)' /\ ChainOK(n)' /\ OutputsOK(n)' /\ ScriptOK(n)'
  BY <1>1, <1>2 DEF SoundAt, ShapeOK, ChainOK, OutputsOK, Output, Intact, ScriptOK, WaitFrame, Completion
<1>5. TokenOK(n)'
  BY <1>1, <1>2 DEF SoundAt, TokenOK, IsReplied, RepliedWith, Output, Intact, CallMessage
<1>6. SwapsOK(n)'
  <2>1. (Handling' <=> Handling) /\ (Unseen' <=> Unseen)
    BY <1>2 DEF Handling, Unseen, Calm, Completion
  <2>2. QED
    BY <2>1, <1>1, <1>2 DEF SoundAt, SwapsOK, RepliedWith, Intact, Swapped, Calm
<1>7. QED
  BY <1>2, <1>3, <1>4, <1>5, <1>6 DEF Sound, SoundAt

LEMMA NextSound == NestInv /\ [IomfbNext]_iomfbVars => NestInv'
<1> SUFFICES ASSUME NestInv, [IomfbNext]_iomfbVars, abandoned' = {} PROVE Sound'
  BY DEF NestInv
<1>1. CASE TimesOut \/ FailingCallback
  <2>1. stack # <<>> /\ Unwind
    BY <1>1 DEF TimesOut, FailingCallback, Waiting
  <2>2. abandoned = {} => Typed
    BY DEF NestInv, Sound
  <2>3. QED
    BY <2>1, <2>2, UnwindAbandons
<1>2. ASSUME abandoned' = abandoned PROVE Sound
  BY <1>2 DEF NestInv
<1>3. CASE CallNext
  <2>1. abandoned' = abandoned
    BY <1>3 DEF CallNext, PushCall
  <2>2. QED
    BY <2>1, <1>2, <1>3, CallNextSound
<1>4. CASE WaitSwap
  <2>1. abandoned' = abandoned
    BY <1>4 DEF WaitSwap
  <2>2. QED
    BY <2>1, <1>2, <1>4, WaitSwapSound
<1>5. CASE SwapSeen
  <2>1. abandoned' = abandoned
    BY <1>5 DEF SwapSeen
  <2>2. QED
    BY <2>1, <1>2, <1>5, SwapSeenSound
<1>6. CASE TakeCallback
  <2>1. abandoned' = abandoned
    BY <1>6 DEF TakeCallback
  <2>2. QED
    BY <2>1, <1>2, <1>6, TakeCallbackSound
<1>7. CASE CallFromCallback
  <2>1. abandoned' = abandoned
    BY <1>7 DEF CallFromCallback, PushCall
  <2>2. QED
    BY <2>1, <1>2, <1>7, CallFromCallbackSound
<1>8. CASE FinishCallback
  <2>1. abandoned' = abandoned
    BY <1>8 DEF FinishCallback
  <2>2. QED
    BY <2>1, <1>2, <1>8, FinishCallbackSound
<1>9. CASE TakeAck
  <2>1. abandoned' = abandoned
    BY <1>9 DEF TakeAck
  <2>2. QED
    BY <2>1, <1>2, <1>9, TakeAckSound
<1>10. CASE DropAck
  <2>1. abandoned' = abandoned
    BY <1>10 DEF DropAck
  <2>2. QED
    BY <2>1, <1>2, <1>10, NoLateAck
<1>11. CASE DcpTakes
  <2>1. abandoned' = abandoned
    BY <1>11 DEF DcpTakes
  <2>2. QED
    BY <2>1, <1>2, <1>11, DcpTakesSound
<1>12. CASE DcpSwaps
  <2>1. abandoned' = abandoned
    BY <1>12 DEF DcpSwaps
  <2>2. QED
    BY <2>1, <1>2, <1>12, DcpSwapsSound
<1>13. ASSUME NEW op \in Operations, Begin(op) PROVE Sound'
  <2>1. abandoned' = abandoned
    BY <1>13 DEF Begin
  <2>2. QED
    BY <2>1, <1>2, <1>13, BeginSound
<1>14. ASSUME NEW tag \in Tags, DcpCallsBack(tag) PROVE Sound'
  <2>1. abandoned' = abandoned
    BY <1>14 DEF DcpCallsBack
  <2>2. QED
    BY <2>1, <1>2, <1>14, DcpCallsBackSound
<1>15. ASSUME NEW how \in {"reply", "refused"}, DcpReplies(how) PROVE Sound'
  <2>1. abandoned' = abandoned
    BY <1>15 DEF DcpReplies
  <2>2. QED
    BY <2>1, <1>2, <1>15, DcpRepliesSound
<1>16. CASE UNCHANGED iomfbVars
  <2>1. abandoned' = abandoned
    BY <1>16 DEF iomfbVars
  <2>2. QED
    BY <2>1, <1>2, <1>16, StutterSound
<1>17. QED
  BY <1>1, <1>3, <1>4, <1>5, <1>6, <1>7, <1>8, <1>9, <1>10, <1>11, <1>12, <1>13, <1>14, <1>15, <1>16 DEF IomfbNext

LEMMA SoundSays == NestInv => NestingIsSound
<1> SUFFICES ASSUME Sound, abandoned = {} PROVE NestingIsSound
  BY DEF NestInv, NestingIsSound, RepliesIntact, EndsMirrorNesting, CallbackIsServed, CompletionIsSeen
<1>1. PICK n \in Nat : SoundAt(n)
  BY DEF Sound
<1>2. RepliesIntact /\ EndsMirrorNesting /\ Typed
  BY DEF Sound, Mirrored, RepliesIntact, EndsMirrorNesting
<1>3. CallbackIsServed
  <2> SUFFICES ASSUME NEW i \in DOMAIN dcp, dcp[i].kind = "wait"
               PROVE  \/ \E j \in DOMAIN fromDcp : fromDcp[j].type = "callback" /\ fromDcp[j].id = dcp[i].id
                      \/ \E j \in DOMAIN stack : stack[j].kind = "callback" /\ stack[j].id = dcp[i].id
                      \/ \E j \in DOMAIN toDcp : toDcp[j].type = "ack" /\ toDcp[j].ctx = "callback"
    BY DEF CallbackIsServed
  <2>1. i \in Nat /\ i > 0 /\ i <= Len(dcp) /\ Len(dcp) \in Nat /\ Len(stack) \in Nat /\ DOMAIN stack = 1 .. Len(stack)
    BY <1>2, NestLens
  <2>2. CASE i <= n
    <3>1. i \in 1 .. n /\ i \in DOMAIN stack
      BY <2>1, <2>2, <1>1 DEF SoundAt, ChainOK
    <3>2. stack[i] \in CallFrames \cup SyncFrames /\ stack[i].id = dcp[i].id /\ stack[i].kind # "call"
      BY <3>1, <2>2, <1>1 DEF SoundAt, ChainOK
    <3>3. stack[i].kind = "callback"
      BY <3>2, FrameKinds
    <3>4. QED
      BY <3>1, <3>2, <3>3
  <2>3. CASE ~(i <= n)
    <3>1. Len(dcp) # n /\ n # Len(dcp) + 1
      BY <2>1, <2>3
    <3>2. Len(dcp) = n + 1 /\ (Has(fromDcp, CallbackMessage(dcp[n + 1])) \/ Has(toDcp, Acked("callback")))
      BY <3>1, <1>1 DEF SoundAt, TokenOK
    <3>3. i = n + 1
      BY <3>2, <2>1, <2>3
    <3>4. CASE Has(fromDcp, CallbackMessage(dcp[i]))
      <4>1. CallbackMessage(dcp[i]).type = "callback" /\ CallbackMessage(dcp[i]).id = dcp[i].id
        BY DEF CallbackMessage
      <4>2. QED
        BY <4>1, <3>4 DEF Has
    <3>5. CASE Has(toDcp, Acked("callback"))
      BY <3>5 DEF Has, Acked
    <3>6. QED
      BY <3>2, <3>3, <3>4, <3>5
  <2>4. QED
    BY <2>2, <2>3
<1>4. CompletionIsSeen
  <2> SUFFICES ASSUME swap \in doneSwaps, lastSwap # swap
               PROVE  \/ \E j \in DOMAIN fromDcp : fromDcp[j].type = "callback" /\ fromDcp[j].tag = "D589" /\ fromDcp[j].swap = swap
                      \/ \E j \in DOMAIN stack : stack[j].kind = "callback" /\ stack[j].tag = "D589" /\ stack[j].swap = swap
    BY DEF CompletionIsSeen
  <2>1. Unseen
    BY <1>1 DEF SoundAt, SwapsOK
  <2>2. CASE ~Calm(fromDcp)
    <3>1. PICK j \in DOMAIN fromDcp : fromDcp[j].ctx = "async"
      BY <2>2 DEF Calm
    <3>2. fromDcp[j] = Swapped(swap)
      BY <3>1, <1>1 DEF SoundAt, SwapsOK
    <3>3. QED
      BY <3>1, <3>2 DEF Swapped
  <2>3. CASE Handling
    <3>1. Len(stack) \in DOMAIN stack /\ stack[Len(stack)] = Completion(swap)
      BY <2>3, <1>2, NestLens DEF Handling
    <3>2. QED
      BY <3>1 DEF Completion
  <2>4. QED
    BY <2>1, <2>2, <2>3 DEF Unseen
<1>5. QED
  BY <1>2, <1>3, <1>4 DEF NestingIsSound

(* Calls and callbacks nest soundly for any operations, callbacks and bounds: *)
(* an answer, a callback and what it returned are read from blocks nobody else*)
(* wrote, and a callback's place is the end of the innermost one.             *)
THEOREM NestingStaysSound == IomfbSpec => []NestingIsSound
<1>1. NestInv /\ [IomfbNext]_iomfbVars => NestInv'
  BY NextSound
<1>2. QED
  BY <1>1, InitSound, SoundSays, PTL DEF IomfbSpec

------------------------------------------------------------------------------
(* Memory for the coprocessor (DcpBuffers): ids are handed out in order and   *)
(* name one descriptor each.                                                  *)
IdsOf(s) == {s[i].id : i \in DOMAIN s}
PioIds(s) == {s[i].id : i \in {j \in DOMAIN s : s[j].pio}}
OncePerId(s) == \A i, j \in DOMAIN s : s[i].id = s[j].id => i = j
BufType ==
  /\ allocations \in Seq([id : Nat, pio : BOOLEAN]) /\ windows \in Seq([id : Nat]) /\ nextId \in Nat
  /\ \A id \in IdsOf(allocations) \cup IdsOf(windows) : id \in Nat /\ id < nextId
  /\ OncePerId(allocations) /\ OncePerId(windows)
  /\ IdsOf(allocations) \cap IdsOf(windows) = {}

(* What is mapped belongs to a descriptor, unless an error left it, and the   *)
(* second mapping is that of a flagged buffer, or else was left by an error.  *)
Held == dartMaps \subseteq IdsOf(allocations) \cup IdsOf(windows) \cup stuckMaps
PioTrue == pioMaps = PioIds(allocations) \cup stuckPio /\ PioIds(allocations) \cap stuckPio = {}

(* Between the steps of a release, and of the end of the connection.          *)
BufPhase ==
  \/ releasing = NoRelease /\ Held /\ PioTrue /\ pages = IdsOf(allocations)
  \/ /\ releasing.step = "unmap" /\ Held /\ PioTrue /\ pages = IdsOf(allocations)
     /\ releasing.id \in IdsOf(allocations) \ PioIds(allocations)
  \/ /\ releasing.step = "free" /\ Held /\ PioTrue /\ pages = IdsOf(allocations) \cup {releasing.id}
     /\ releasing.id \notin IdsOf(allocations)
  \/ releasing.step = "dropUnmap" /\ Held /\ pioMaps \subseteq stuckPio /\ pages = IdsOf(allocations)
  \/ /\ releasing.step = "dropFree" /\ dartMaps \subseteq stuckMaps /\ pioMaps \subseteq stuckPio
     /\ pages = IdsOf(allocations)
  \/ releasing.step = "gone" /\ dartMaps \subseteq stuckMaps /\ pioMaps \subseteq stuckPio
BufInv ==
  /\ BufType /\ BufPhase
  /\ releasing \in [id : Nat, step : {"none", "unmap", "free", "dropUnmap", "dropFree", "gone"}]

(* What RemoveAt leaves of a sequence.                                        *)
LEMMA RemovedParts ==
  ASSUME NEW S, NEW s \in Seq(S), NEW i \in DOMAIN s
  PROVE  LET t == RemoveAt(s, i)
         IN  /\ t \in Seq(S) /\ DOMAIN t = 1 .. (Len(s) - 1)
             /\ \A j \in DOMAIN t : t[j] = s[IF j < i THEN j ELSE j + 1]
<1> DEFINE a == SubSeq(s, 1, i - 1)
           b == SubSeq(s, i + 1, Len(s))
<1>1. i \in 1 .. Len(s) /\ Len(s) \in Nat
  OBVIOUS
<1>2. a \in Seq(S) /\ Len(a) = i - 1 /\ \A j \in 1 .. (i - 1) : a[j] = s[j]
  BY <1>1, SubSeqProperties
<1>3. b \in Seq(S) /\ Len(b) = Len(s) - i /\ \A j \in 1 .. (Len(s) - i) : b[j] = s[i + j]
  BY <1>1, SubSeqProperties
<1>4. /\ a \o b \in Seq(S) /\ Len(a \o b) = Len(s) - 1
      /\ \A j \in 1 .. (Len(s) - 1) : (a \o b)[j] = IF j <= Len(a) THEN a[j] ELSE b[j - Len(a)]
  <2> HIDE DEF a, b
  <2>1. a \in Seq(S) /\ b \in Seq(S)
    BY <1>2, <1>3
  <2>2. /\ a \o b \in Seq(S) /\ Len(a \o b) = Len(a) + Len(b)
        /\ \A j \in 1 .. (Len(a) + Len(b)) : (a \o b)[j] = IF j <= Len(a) THEN a[j] ELSE b[j - Len(a)]
    BY Zenon, <2>1, ConcatProperties
  <2>3. Len(a) + Len(b) = Len(s) - 1
    BY <1>1, <1>2, <1>3
  <2>4. QED
    BY <2>2, <2>3
<1>5. \A j \in 1 .. (Len(s) - 1) : (a \o b)[j] = s[IF j < i THEN j ELSE j + 1]
  <2> HIDE DEF a, b
  <2> TAKE j \in 1 .. (Len(s) - 1)
  <2>1. CASE j < i
    BY <2>1, <1>1, <1>2, <1>4
  <2>2. CASE ~(j < i)
    <3>1. j - Len(a) \in 1 .. (Len(s) - i) /\ i + (j - Len(a)) = j + 1 /\ ~(j <= Len(a))
      BY SMTT(20), <2>2, <1>1, <1>2
    <3>2. b[j - Len(a)] = s[j + 1]
      BY <3>1, <1>3
    <3>3. QED
      BY <3>1, <3>2, <1>4, <2>2
  <2>3. QED
    BY <2>1, <2>2
<1>6. DOMAIN (a \o b) = 1 .. (Len(s) - 1)
  <2> HIDE DEF a, b
  <2> QED BY <1>4
<1>7. RemoveAt(s, i) = a \o b
  BY DEF RemoveAt
<1>8. QED
  BY <1>4, <1>5, <1>6, <1>7

(* What RemoveAt leaves of a sequence of records that have distinct ids. *)
LEMMA RemovedIds ==
  ASSUME NEW S, NEW s \in Seq(S), NEW i \in DOMAIN s, OncePerId(s)
  PROVE  LET t == RemoveAt(s, i)
         IN  /\ t \in Seq(S) /\ IdsOf(t) = IdsOf(s) \ {s[i].id} /\ OncePerId(t)
             /\ PioIds(t) = PioIds(s) \ {s[i].id}
<1> DEFINE t == RemoveAt(s, i)
           at(j) == IF j < i THEN j ELSE j + 1
<1>1. t \in Seq(S) /\ DOMAIN t = 1 .. (Len(s) - 1) /\ \A j \in DOMAIN t : t[j] = s[at(j)]
  BY RemovedParts
<1>2. i \in 1 .. Len(s) /\ Len(s) \in Nat /\ DOMAIN s = 1 .. Len(s)
  OBVIOUS
<1> HIDE DEF t
<1>3. \A j \in DOMAIN t : at(j) \in DOMAIN s \ {i}
  BY <1>1, <1>2
<1>4. \A j, k \in DOMAIN t : at(j) = at(k) => j = k
  BY <1>1, <1>2
<1>5. \A k \in DOMAIN s \ {i} : \E j \in DOMAIN t : at(j) = k
  <2> TAKE k \in DOMAIN s \ {i}
  <2>1. CASE k < i
    <3>1. k \in DOMAIN t /\ at(k) = k
      BY <2>1, <1>1, <1>2
    <3>2. QED
      BY <3>1
  <2>2. CASE k > i
    <3>1. k - 1 \in DOMAIN t /\ at(k - 1) = k
      BY <2>2, <1>1, <1>2
    <3>2. QED
      BY <3>1
  <2>3. QED
    BY <2>1, <2>2, <1>2
<1> HIDE DEF at
<1>6. OncePerId(t)
  BY <1>1, <1>3, <1>4 DEF OncePerId
<1>7. IdsOf(t) = IdsOf(s) \ {s[i].id}
  <2>1. \A k \in DOMAIN s \ {i} : s[k].id # s[i].id
    BY DEF OncePerId
  <2>2. IdsOf(t) \subseteq IdsOf(s) \ {s[i].id}
    BY <2>1, <1>1, <1>3 DEF IdsOf
  <2>3. ASSUME NEW x \in IdsOf(s) \ {s[i].id} PROVE x \in IdsOf(t)
    <3>1. PICK k \in DOMAIN s \ {i} : s[k].id = x
      BY DEF IdsOf
    <3>2. PICK j \in DOMAIN t : at(j) = k
      BY <1>5
    <3>3. QED
      BY <3>1, <3>2, <1>1 DEF IdsOf
  <2>4. QED
    BY <2>2, <2>3
<1>8. PioIds(t) = PioIds(s) \ {s[i].id}
  <2>1. \A k \in DOMAIN s \ {i} : s[k].id # s[i].id
    BY DEF OncePerId
  <2>2. PioIds(t) \subseteq PioIds(s) \ {s[i].id}
    BY <2>1, <1>1, <1>3 DEF PioIds
  <2>3. ASSUME NEW x \in PioIds(s) \ {s[i].id} PROVE x \in PioIds(t)
    <3>1. PICK k \in DOMAIN s \ {i} : s[k].id = x /\ s[k].pio
      BY DEF PioIds
    <3>2. PICK j \in DOMAIN t : at(j) = k
      BY <1>5
    <3>3. QED
      BY <3>1, <3>2, <1>1 DEF PioIds
  <2>4. QED
    BY <2>2, <2>3
<1>9. QED
  BY <1>1, <1>6, <1>7, <1>8 DEF t

LEMMA IndexFinds ==
  ASSUME NEW S, NEW s \in Seq(S), NEW id
  PROVE  /\ IndexOf(s, id) # 0 => IndexOf(s, id) \in DOMAIN s /\ s[IndexOf(s, id)].id = id
         /\ id \in IdsOf(s) <=> IndexOf(s, id) # 0
<1>1. 0 \notin DOMAIN s
  OBVIOUS
<1>2. CASE \E i \in DOMAIN s : s[i].id = id
  <2>1. IndexOf(s, id) = CHOOSE i \in DOMAIN s : s[i].id = id
    BY <1>2 DEF IndexOf
  <2>2. IndexOf(s, id) \in DOMAIN s /\ s[IndexOf(s, id)].id = id
    BY <1>2, <2>1
  <2>3. id \in IdsOf(s)
    BY <1>2 DEF IdsOf
  <2>4. QED
    BY <2>2, <2>3, <1>1
<1>3. CASE ~\E i \in DOMAIN s : s[i].id = id
  BY <1>3 DEF IndexOf, IdsOf
<1>4. QED
  BY <1>2, <1>3

LEMMA AppendedIds ==
  ASSUME NEW S, NEW s \in Seq(S), NEW r \in S, OncePerId(s), r.id \notin IdsOf(s)
  PROVE  LET t == Append(s, r)
         IN  t \in Seq(S) /\ IdsOf(t) = IdsOf(s) \cup {r.id} /\ OncePerId(t)
<1> DEFINE t == Append(s, r)
<1>1. t \in Seq(S) /\ DOMAIN t = DOMAIN s \cup {Len(s) + 1} /\ t[Len(s) + 1] = r
  OBVIOUS
<1>2. \A i \in DOMAIN s : t[i] = s[i] /\ i # Len(s) + 1
  OBVIOUS
<1> HIDE DEF t
<1>3. \A i \in DOMAIN s : s[i].id # r.id
  BY DEF IdsOf
<1>4. OncePerId(t)
  BY <1>1, <1>2, <1>3 DEF OncePerId
<1>5. IdsOf(t) = IdsOf(s) \cup {r.id}
  BY <1>1, <1>2 DEF IdsOf
<1>6. QED
  BY <1>1, <1>4, <1>5 DEF t

LEMMA AppendedPio ==
  ASSUME NEW S, NEW s \in Seq(S), NEW r \in S, r.pio = FALSE
  PROVE  PioIds(Append(s, r)) = PioIds(s)
<1> DEFINE t == Append(s, r)
<1>1. DOMAIN t = DOMAIN s \cup {Len(s) + 1} /\ t[Len(s) + 1] = r
  OBVIOUS
<1>2. \A i \in DOMAIN s : t[i] = s[i]
  OBVIOUS
<1> HIDE DEF t
<1>3. PioIds(t) = PioIds(s)
  BY <1>1, <1>2 DEF PioIds
<1>4. QED
  BY <1>3 DEF t

(* Setting a flag changes no id. *)
LEMMA FlaggedRecord ==
  ASSUME NEW r \in [id : Nat, pio : BOOLEAN], NEW v \in BOOLEAN
  PROVE  LET q == [r EXCEPT !.pio = v] IN q \in [id : Nat, pio : BOOLEAN] /\ q.id = r.id /\ q.pio = v
OBVIOUS

LEMMA FlaggedIds ==
  ASSUME NEW s \in Seq([id : Nat, pio : BOOLEAN]), NEW i \in DOMAIN s, NEW v \in BOOLEAN, OncePerId(s)
  PROVE  LET t == [s EXCEPT ![i].pio = v]
         IN  /\ t \in Seq([id : Nat, pio : BOOLEAN]) /\ IdsOf(t) = IdsOf(s) /\ OncePerId(t)
             /\ PioIds(t) = IF v THEN PioIds(s) \cup {s[i].id} ELSE PioIds(s) \ {s[i].id}
<1> DEFINE R == [id : Nat, pio : BOOLEAN]
           q == [s[i] EXCEPT !.pio = v]
           t == [s EXCEPT ![i] = q]
<1>1. s[i] \in R
  <2> HIDE DEF R
  <2>1. s \in Seq(R)
    BY DEF R
  <2>2. QED
    BY <2>1
<1>2. q \in R /\ q.id = s[i].id /\ q.pio = v
  BY Zenon, <1>1, FlaggedRecord
<1> HIDE DEF q, R
<1>3. t \in Seq(R) /\ DOMAIN t = DOMAIN s /\ \A k \in DOMAIN s : t[k] = IF k = i THEN q ELSE s[k]
  <2>1. s \in Seq(R)
    BY DEF R
  <2>2. QED
    BY <2>1, <1>2
<1> HIDE DEF t
<1>5. \A k \in DOMAIN s : t[k].id = s[k].id /\ t[k].pio = IF k = i THEN v ELSE s[k].pio
  BY <1>2, <1>3
<1>6. IdsOf(t) = IdsOf(s) /\ OncePerId(t)
  BY SMTT(20), <1>3, <1>5 DEF IdsOf, OncePerId
<1>7. PioIds(t) = IF v THEN PioIds(s) \cup {s[i].id} ELSE PioIds(s) \ {s[i].id}
  <2>1. \A k \in DOMAIN s \ {i} : s[k].id # s[i].id
    BY DEF OncePerId
  <2>2. ASSUME NEW x PROVE x \in PioIds(t) <=> \E k \in DOMAIN s : t[k].pio /\ s[k].id = x
    BY <1>3, <1>5 DEF PioIds
  <2>3. ASSUME NEW x PROVE x \in PioIds(s) <=> \E k \in DOMAIN s : s[k].pio /\ s[k].id = x
    BY DEF PioIds
  <2>4. CASE v = TRUE
    <3>1. ASSUME NEW x PROVE x \in PioIds(t) <=> x \in PioIds(s) \cup {s[i].id}
      BY <2>2, <2>3, <2>4, <1>5
    <3>2. QED
      BY <3>1, <2>4
  <2>5. CASE v = FALSE
    <3>1. ASSUME NEW x PROVE x \in PioIds(t) <=> x \in PioIds(s) \ {s[i].id}
      BY <2>1, <2>2, <2>3, <2>5, <1>5
    <3>2. QED
      BY <3>1, <2>5
  <2>6. QED
    BY <2>4, <2>5
<1>8. t = [s EXCEPT ![i].pio = v]
  BY Zenon DEF t, q
<1>9. QED
  BY Zenon, <1>3, <1>6, <1>7, <1>8 DEF R

LEMMA WhileConnected ==
  ASSUME BufInv, Connected
  PROVE  BufType /\ Held /\ PioTrue /\ pages = IdsOf(allocations) /\ releasing = NoRelease
BY DEF BufInv, BufPhase, Connected, NoRelease

LEMMA StaysConnected ==
  ASSUME BufType', Held', PioTrue', (pages = IdsOf(allocations))', releasing' = NoRelease
  PROVE  BufInv'
BY DEF BufInv, BufPhase, NoRelease

LEMMA PioAmong == ASSUME NEW s PROVE PioIds(s) \subseteq IdsOf(s)
BY DEF PioIds, IdsOf

LEMMA BufTypeStays ==
  ASSUME NEW s \in Seq([id : Nat, pio : BOOLEAN]), NEW w \in Seq([id : Nat]),
         BufType, allocations' = s, windows' = w, nextId' = nextId,
         IdsOf(s) \subseteq IdsOf(allocations), IdsOf(w) \subseteq IdsOf(windows), OncePerId(s), OncePerId(w)
  PROVE  BufType'
<1>1. (\A id \in IdsOf(allocations) \cup IdsOf(windows) : id \in Nat /\ id < nextId)'
  <2>1. \A id \in IdsOf(s) \cup IdsOf(w) : id \in Nat /\ id < nextId
    BY DEF BufType
  <2>2. QED
    BY <2>1
<1>2. (IdsOf(allocations) \cap IdsOf(windows) = {})'
  <2>1. IdsOf(s) \cap IdsOf(w) = {}
    BY DEF BufType
  <2>2. QED
    BY <2>1
<1>3. OncePerId(allocations)' /\ OncePerId(windows)'
  OBVIOUS
<1>4. QED
  BY <1>1, <1>2, <1>3 DEF BufType

(* A new id, not yet a descriptor's.                                          *)
LEMMA FreshId ==
  ASSUME BufType, TakesId
  PROVE  /\ nextId \in Nat /\ nextId' = nextId + 1 /\ nextId \notin IdsOf(allocations) \cup IdsOf(windows)
         /\ dartMaps' = dartMaps \cup {nextId}
         /\ \A id \in IdsOf(allocations) \cup IdsOf(windows) : id \in Nat /\ id < nextId'
BY DEF BufType, TakesId

(* A mapping that is lost, with an id or without.                             *)
LEMMA LostKeeps ==
  ASSUME BufInv, Connected, (TakesId /\ ShortReply) \/ LosesMapping,
         UNCHANGED <<pioMaps, releasing, stuckPio>>
  PROVE  BufInv'
<1>1. BufType /\ Held /\ PioTrue /\ pages = IdsOf(allocations) /\ releasing' = NoRelease
  BY WhileConnected DEF Connected
<1>2. UNCHANGED <<allocations, windows, pages>>
  BY DEF ShortReply, LosesMapping
<1>3. BufType'
  <2>1. CASE TakesId
    BY <1>1, <1>2, <2>1, FreshId DEF BufType
  <2>2. CASE LosesMapping
    BY <1>1, <1>2, <2>2 DEF BufType, LosesMapping
  <2>3. QED
    BY <2>1, <2>2
<1>4. Held'
  <2>1. CASE TakesId /\ ShortReply
    BY <1>1, <1>2, <2>1 DEF Held, TakesId, ShortReply
  <2>2. CASE LosesMapping
    BY <1>1, <1>2, <2>2 DEF Held, LosesMapping
  <2>3. QED
    BY <2>1, <2>2
<1>5. PioTrue' /\ (pages = IdsOf(allocations))'
  BY <1>1, <1>2 DEF PioTrue
<1>6. QED
  BY <1>1, <1>3, <1>4, <1>5, StaysConnected

LEMMA AllocateKeeps == ASSUME BufInv, AllocateBuffer PROVE BufInv'
<1>1. BufType /\ Held /\ PioTrue /\ pages = IdsOf(allocations) /\ releasing' = NoRelease
  BY WhileConnected DEF AllocateBuffer, Connected
<1>2. UNCHANGED <<pioMaps, releasing, stuckPio>> /\ Connected
  BY DEF AllocateBuffer
<1>3. ASSUME TakesId, allocations' = Append(allocations, [id |-> nextId, pio |-> FALSE]),
             pages' = pages \cup {nextId}, UNCHANGED <<windows, stuckMaps>>
      PROVE  BufInv'
  <2> DEFINE r == [id |-> nextId, pio |-> FALSE]
             t == Append(allocations, r)
             R == [id : Nat, pio : BOOLEAN]
  <2>1. allocations \in Seq(R) /\ OncePerId(allocations) /\ OncePerId(windows) /\ windows \in Seq([id : Nat])
    BY <1>1 DEF BufType
  <2>2. /\ nextId \in Nat /\ nextId' = nextId + 1 /\ nextId \notin IdsOf(allocations) \cup IdsOf(windows)
        /\ dartMaps' = dartMaps \cup {nextId}
        /\ \A id \in IdsOf(allocations) \cup IdsOf(windows) : id \in Nat /\ id < nextId'
    BY <1>1, <1>3, FreshId
  <2>3. r \in R /\ r.id = nextId /\ r.pio = FALSE
    BY <2>2
  <2>4. allocations' = t
    BY <1>3
  <2> HIDE DEF r, R
  <2>5. t \in Seq(R) /\ IdsOf(t) = IdsOf(allocations) \cup {nextId} /\ OncePerId(t)
    BY <2>1, <2>2, <2>3, AppendedIds
  <2>6. PioIds(t) = PioIds(allocations)
    BY <2>1, <2>3, AppendedPio
  <2> HIDE DEF t
  <2>7. BufType'
    <3>1. (\A id \in IdsOf(allocations) \cup IdsOf(windows) : id \in Nat /\ id < nextId)'
      <4>1. \A id \in IdsOf(t) \cup IdsOf(windows) : id \in Nat /\ id < nextId'
        BY <2>2, <2>5
      <4>2. QED
        BY <4>1, <2>4, <1>3
    <3>2. (IdsOf(allocations) \cap IdsOf(windows) = {})'
      <4>1. IdsOf(t) \cap IdsOf(windows) = {}
        BY <1>1, <2>2, <2>5 DEF BufType
      <4>2. QED
        BY <4>1, <2>4, <1>3
    <3>3. QED
      BY <3>1, <3>2, <2>1, <2>2, <2>4, <2>5, <1>3 DEF BufType, R
  <2>8. PioTrue' /\ (pages = IdsOf(allocations))'
    BY <1>1, <1>2, <1>3, <2>4, <2>5, <2>6 DEF PioTrue
  <2>9. Held'
    <3>1. dartMaps \cup {nextId} \subseteq IdsOf(t) \cup IdsOf(windows) \cup stuckMaps
      BY <1>1, <2>5 DEF Held
    <3>2. QED
      BY <3>1, <2>2, <2>4, <1>3 DEF Held
  <2>10. QED
    BY <2>7, <2>8, <2>9, <1>1, StaysConnected
<1>4. QED
  BY <1>2, <1>3, LostKeeps DEF AllocateBuffer

LEMMA MapWindowKeeps == ASSUME BufInv, MapWindow PROVE BufInv'
<1>1. BufType /\ Held /\ PioTrue /\ pages = IdsOf(allocations) /\ releasing' = NoRelease
  BY WhileConnected DEF MapWindow, Connected
<1>2. UNCHANGED <<pioMaps, releasing, stuckPio>> /\ Connected
  BY DEF MapWindow
<1>3. ASSUME TakesId, windows' = Append(windows, [id |-> nextId]), UNCHANGED <<allocations, pages, stuckMaps>>
      PROVE  BufInv'
  <2> DEFINE r == [id |-> nextId]
             t == Append(windows, r)
             R == [id : Nat]
  <2>1. windows \in Seq(R) /\ OncePerId(windows) /\ OncePerId(allocations)
    BY <1>1 DEF BufType
  <2>2. /\ nextId \in Nat /\ nextId' = nextId + 1 /\ nextId \notin IdsOf(allocations) \cup IdsOf(windows)
        /\ dartMaps' = dartMaps \cup {nextId}
        /\ \A id \in IdsOf(allocations) \cup IdsOf(windows) : id \in Nat /\ id < nextId'
    BY <1>1, <1>3, FreshId
  <2>3. r \in R /\ r.id = nextId
    BY <2>2
  <2>4. windows' = t
    BY <1>3
  <2> HIDE DEF r, R
  <2>5. t \in Seq(R) /\ IdsOf(t) = IdsOf(windows) \cup {nextId} /\ OncePerId(t)
    BY <2>1, <2>2, <2>3, AppendedIds
  <2> HIDE DEF t
  <2>6. BufType'
    <3>1. (\A id \in IdsOf(allocations) \cup IdsOf(windows) : id \in Nat /\ id < nextId)'
      <4>1. \A id \in IdsOf(allocations) \cup IdsOf(t) : id \in Nat /\ id < nextId'
        BY <2>2, <2>5
      <4>2. QED
        BY <4>1, <2>4, <1>3
    <3>2. (IdsOf(allocations) \cap IdsOf(windows) = {})'
      <4>1. IdsOf(allocations) \cap IdsOf(t) = {}
        BY <1>1, <2>2, <2>5 DEF BufType
      <4>2. QED
        BY <4>1, <2>4, <1>3
    <3>3. QED
      BY <3>1, <3>2, <1>1, <2>1, <2>2, <2>4, <2>5, <1>3 DEF BufType, R
  <2>7. Held'
    <3>1. dartMaps \cup {nextId} \subseteq IdsOf(allocations) \cup IdsOf(t) \cup stuckMaps
      BY <1>1, <2>5 DEF Held
    <3>2. QED
      BY <3>1, <2>2, <2>4, <1>3 DEF Held
  <2>8. PioTrue' /\ (pages = IdsOf(allocations))'
    BY <1>1, <1>2, <1>3 DEF PioTrue
  <2>9. QED
    BY <2>6, <2>7, <2>8, <1>1, StaysConnected
<1>4. QED
  BY <1>2, <1>3, LostKeeps DEF MapWindow

(* Setting or clearing the flag of one buffer, with or without the release    *)
(* that follows.                                                              *)
LEMMA FlagKeeps ==
  ASSUME BufInv, Connected, NEW id, NEW v \in BOOLEAN, IndexOf(allocations, id) # 0,
         allocations' = [allocations EXCEPT ![IndexOf(allocations, id)].pio = v],
         UNCHANGED <<windows, nextId, pages, dartMaps, stuckMaps>>,
         stuckPio' = IF v THEN stuckPio \ {id} ELSE stuckPio,
         pioMaps' = IF v THEN pioMaps \cup {id}
                    ELSE IF id \in PioIds(allocations) THEN pioMaps \ {id} ELSE pioMaps
  PROVE  /\ BufType' /\ Held' /\ PioTrue' /\ (pages = IdsOf(allocations))'
         /\ id \in IdsOf(allocations') /\ id \in Nat /\ (id \in PioIds(allocations') <=> v)
<1>1. BufType /\ Held /\ PioTrue /\ pages = IdsOf(allocations) /\ releasing = NoRelease
  BY WhileConnected
<1> DEFINE R == [id : Nat, pio : BOOLEAN]
           i == IndexOf(allocations, id)
           t == [allocations EXCEPT ![i].pio = v]
<1>2. allocations \in Seq(R) /\ OncePerId(allocations) /\ OncePerId(windows) /\ windows \in Seq([id : Nat])
  BY <1>1 DEF BufType
<1>3. i \in DOMAIN allocations /\ allocations[i].id = id /\ id \in IdsOf(allocations)
  <2> HIDE DEF R
  <2> QED BY <1>2, IndexFinds
<1>4. allocations' = t
  OBVIOUS
<1> HIDE DEF i
<1>5. /\ t \in Seq(R) /\ IdsOf(t) = IdsOf(allocations) /\ OncePerId(t)
      /\ PioIds(t) = IF v THEN PioIds(allocations) \cup {id} ELSE PioIds(allocations) \ {id}
  <2>1. /\ t \in Seq(R) /\ IdsOf(t) = IdsOf(allocations) /\ OncePerId(t)
        /\ PioIds(t) = IF v THEN PioIds(allocations) \cup {allocations[i].id}
                       ELSE PioIds(allocations) \ {allocations[i].id}
    BY Zenon, <1>2, <1>3, FlaggedIds
  <2>2. QED
    BY <2>1, <1>3
<1> HIDE DEF t
<1>6. BufType'
  BY <1>1, <1>2, <1>4, <1>5, BufTypeStays DEF R
<1>7. PioTrue'
  BY <1>1, <1>4, <1>5 DEF PioTrue
<1>8. Held' /\ (pages = IdsOf(allocations))' /\ id \in IdsOf(allocations') /\ (id \in PioIds(allocations') <=> v)
  BY <1>1, <1>3, <1>4, <1>5 DEF Held
<1>9. id \in Nat
  <2>1. allocations[i] \in R
    <3> HIDE DEF R
    <3> QED BY <1>2, <1>3
  <2>2. QED
    BY <2>1, <1>3 DEF R
<1>10. QED
  BY <1>6, <1>7, <1>8, <1>9

(* The flag of the buffer an id names.                                        *)
LEMMA FlagOf ==
  ASSUME BufType, NEW id, IndexOf(allocations, id) # 0
  PROVE  allocations[IndexOf(allocations, id)].pio <=> id \in PioIds(allocations)
<1> DEFINE R == [id : Nat, pio : BOOLEAN]
           i == IndexOf(allocations, id)
<1>1. allocations \in Seq(R) /\ OncePerId(allocations)
  BY DEF BufType
<1> HIDE DEF R
<1>2. i \in DOMAIN allocations /\ allocations[i].id = id
  BY <1>1, IndexFinds
<1> HIDE DEF i
<1>3. \A k \in DOMAIN allocations : allocations[k].id = id => k = i
  BY <1>1, <1>2 DEF OncePerId
<1>4. allocations[i].pio <=> id \in PioIds(allocations)
  BY <1>2, <1>3 DEF PioIds
<1>5. QED
  BY <1>4 DEF i

LEMMA MapPioKeeps == ASSUME BufInv, NEW id, MapPio(id) PROVE BufInv'
<1>1. BufType /\ Held /\ PioTrue /\ pages = IdsOf(allocations) /\ releasing' = NoRelease
  BY WhileConnected DEF MapPio, Connected
<1>2. IndexOf(allocations, id) # 0 /\ ~allocations[IndexOf(allocations, id)].pio /\ pioMaps' = pioMaps \cup {id}
  BY DEF MapPio
<1>3. id \notin PioIds(allocations)
  BY <1>1, <1>2, FlagOf
<1>4. CASE allocations' = [allocations EXCEPT ![IndexOf(allocations, id)].pio = TRUE] /\ stuckPio' = stuckPio \ {id}
  <2>1. BufType' /\ Held' /\ PioTrue' /\ (pages = IdsOf(allocations))'
    BY <1>4, FlagKeeps DEF MapPio
  <2>2. QED
    BY <1>1, <2>1, StaysConnected
<1>5. CASE stuckPio' = stuckPio \cup {id} /\ UNCHANGED allocations
  <2>1. UNCHANGED <<allocations, windows, nextId, pages, dartMaps, stuckMaps>>
    BY <1>5 DEF MapPio
  <2>2. BufType' /\ Held' /\ (pages = IdsOf(allocations))'
    BY <1>1, <2>1 DEF BufType, Held
  <2>3. PioTrue'
    BY <1>1, <1>2, <1>3, <1>5 DEF PioTrue
  <2>4. QED
    BY <1>1, <2>2, <2>3, StaysConnected
<1>6. QED
  BY <1>4, <1>5 DEF MapPio

LEMMA UnmapPioKeeps == ASSUME BufInv, NEW id, UnmapPio(id) PROVE BufInv'
<1>1. BufType /\ releasing' = NoRelease
  BY WhileConnected DEF UnmapPio, Connected
<1>2. id \in PioIds(allocations)
  BY <1>1, FlagOf DEF UnmapPio
<1>3. BufType' /\ Held' /\ PioTrue' /\ (pages = IdsOf(allocations))'
  BY <1>2, FlagKeeps DEF UnmapPio
<1>4. QED
  BY <1>1, <1>3, StaysConnected

LEMMA ReleaseBufferKeeps == ASSUME BufInv, NEW id, ReleaseBuffer(id) PROVE BufInv'
<1>1. BufType
  BY WhileConnected DEF ReleaseBuffer
<1>2. pioMaps' = IF id \in PioIds(allocations) THEN pioMaps \ {id} ELSE pioMaps
  BY <1>1, FlagOf DEF ReleaseBuffer
<1>3. /\ BufType' /\ Held' /\ PioTrue' /\ (pages = IdsOf(allocations))' /\ id \in IdsOf(allocations') /\ id \in Nat
      /\ id \notin PioIds(allocations')
  BY <1>2, FlagKeeps DEF ReleaseBuffer
<1>4. releasing' = [id |-> id, step |-> "unmap"]
  BY DEF ReleaseBuffer
<1>5. BufPhase'
  BY <1>3, <1>4 DEF BufPhase
<1>6. QED
  BY <1>3, <1>4, <1>5 DEF BufInv

LEMMA ReleaseWindowKeeps == ASSUME BufInv, NEW id, ReleaseWindow(id) PROVE BufInv'
<1>1. BufType /\ Held /\ PioTrue /\ pages = IdsOf(allocations) /\ releasing = NoRelease
  BY WhileConnected DEF ReleaseWindow
<1> DEFINE R == [id : Nat]
           i == IndexOf(windows, id)
           t == RemoveAt(windows, i)
<1>2. windows \in Seq(R) /\ OncePerId(windows) /\ OncePerId(allocations)
  BY <1>1 DEF BufType
<1>3. /\ windows' = t /\ i # 0 /\ Unmaps({id})
      /\ UNCHANGED <<allocations, nextId, pages, pioMaps, releasing, stuckPio>>
  BY DEF ReleaseWindow
<1> HIDE DEF R
<1>4. i \in DOMAIN windows /\ windows[i].id = id
  BY <1>2, <1>3, IndexFinds
<1> HIDE DEF i
<1>5. t \in Seq(R) /\ IdsOf(t) = IdsOf(windows) \ {id} /\ OncePerId(t)
  BY <1>2, <1>4, RemovedIds
<1> HIDE DEF t
<1>6. BufType'
  <2>1. allocations \in Seq([id : Nat, pio : BOOLEAN])
    BY <1>1 DEF BufType
  <2>2. QED
    BY <2>1, <1>1, <1>2, <1>3, <1>5, BufTypeStays DEF R
<1>7. Held' /\ PioTrue' /\ (pages = IdsOf(allocations))'
  BY <1>1, <1>3, <1>5 DEF Held, PioTrue, Unmaps
<1>8. QED
  BY <1>1, <1>3, <1>6, <1>7, StaysConnected

LEMMA ReleaseUnmapsKeeps == ASSUME BufInv, ReleaseUnmaps PROVE BufInv'
<1> DEFINE R == [id : Nat, pio : BOOLEAN]
           d == releasing.id
           i == IndexOf(allocations, d)
           t == RemoveAt(allocations, i)
<1>1. /\ BufType /\ Held /\ PioTrue /\ pages = IdsOf(allocations) /\ d \in IdsOf(allocations) \ PioIds(allocations)
      /\ d \in Nat /\ releasing' = [id |-> d, step |-> "free"]
  BY DEF BufInv, BufPhase, ReleaseUnmaps, NoRelease
<1>2. allocations \in Seq(R) /\ OncePerId(windows) /\ OncePerId(allocations) /\ windows \in Seq([id : Nat])
  BY <1>1 DEF BufType
<1>3. /\ allocations' = t /\ Unmaps({d})
      /\ UNCHANGED <<windows, nextId, pages, pioMaps, stuckPio>>
  BY DEF ReleaseUnmaps
<1> HIDE DEF R, d
<1>4. i \in DOMAIN allocations /\ allocations[i].id = d
  BY <1>1, <1>2, IndexFinds
<1> HIDE DEF i
<1>5. t \in Seq(R) /\ IdsOf(t) = IdsOf(allocations) \ {d} /\ OncePerId(t) /\ PioIds(t) = PioIds(allocations) \ {d}
  BY <1>2, <1>4, RemovedIds
<1> HIDE DEF t
<1>6. BufType'
  BY <1>1, <1>2, <1>3, <1>5, BufTypeStays DEF R
<1>7. Held' /\ PioTrue'
  BY <1>1, <1>3, <1>5 DEF Held, PioTrue, Unmaps
<1>8. (pages = IdsOf(allocations) \cup {d})' /\ d \notin IdsOf(allocations')
  BY <1>1, <1>3, <1>5 DEF d
<1>9. BufPhase'
  BY <1>1, <1>3, <1>5, <1>7 DEF BufPhase
<1>10. QED
  BY <1>1, <1>6, <1>9 DEF BufInv

LEMMA ReleaseFreesKeeps == ASSUME BufInv, ReleaseFrees PROVE BufInv'
<1>1. /\ BufType /\ Held /\ PioTrue /\ pages = IdsOf(allocations) \cup {releasing.id}
      /\ releasing.id \notin IdsOf(allocations)
  BY DEF BufInv, BufPhase, ReleaseFrees, NoRelease
<1>2. /\ pages' = pages \ {releasing.id} /\ releasing' = NoRelease
      /\ UNCHANGED <<allocations, windows, nextId, dartMaps, pioMaps, stuckMaps, stuckPio>>
  BY DEF ReleaseFrees
<1>3. BufType' /\ Held' /\ PioTrue' /\ (pages = IdsOf(allocations))'
  BY <1>1, <1>2 DEF BufType, Held, PioTrue
<1>4. QED
  BY <1>2, <1>3, StaysConnected

LEMMA FlaggedAre == Flagged = PioIds(allocations)
BY DEF Flagged, ToSet, PioIds

LEMMA DropKeeps == ASSUME BufInv, DropPio \/ DropMaps \/ DropPages PROVE BufInv'
<1>1. CASE DropPio
  <2>1. BufType /\ Held /\ PioTrue /\ pages = IdsOf(allocations) /\ releasing = NoRelease
    BY <1>1, WhileConnected DEF DropPio
  <2>2. PICK failed \in SUBSET Flagged : pioMaps' = pioMaps \ (Flagged \ failed) /\ stuckPio' = stuckPio \cup failed
    BY <1>1 DEF DropPio
  <2>3. /\ releasing' = [id |-> 0, step |-> "dropUnmap"]
        /\ UNCHANGED <<allocations, windows, nextId, pages, dartMaps, stuckMaps>>
    BY <1>1 DEF DropPio
  <2>4. BufType'
    BY <2>1, <2>3 DEF BufType
  <2>5. Held' /\ (pioMaps \subseteq stuckPio)' /\ (pages = IdsOf(allocations))'
    BY <2>1, <2>2, <2>3, FlaggedAre DEF Held, PioTrue
  <2>6. BufPhase'
    BY <2>3, <2>5 DEF BufPhase
  <2>7. QED
    BY <2>3, <2>4, <2>6 DEF BufInv
<1>2. CASE DropMaps
  <2>1. BufType /\ Held /\ pioMaps \subseteq stuckPio /\ pages = IdsOf(allocations) /\ releasing.id \in Nat
    BY <1>2 DEF BufInv, BufPhase, DropMaps, NoRelease
  <2>2. /\ releasing' = [releasing EXCEPT !.step = "dropFree"]
        /\ UNCHANGED <<allocations, windows, nextId, pages, pioMaps, stuckPio>>
    BY <1>2 DEF DropMaps
  <2>3. releasing' = [id |-> releasing.id, step |-> "dropFree"]
    BY <2>2 DEF BufInv
  <2>4. {s.id : s \in ToSet(allocations) \cup ToSet(windows)} = IdsOf(allocations) \cup IdsOf(windows)
    BY DEF ToSet, IdsOf
  <2>5. dartMaps' \subseteq stuckMaps'
    <3>1. Unmaps(IdsOf(allocations) \cup IdsOf(windows))
      BY <1>2, <2>4 DEF DropMaps
    <3>2. QED
      BY <2>1, <3>1 DEF Unmaps, Held
  <2>6. BufType'
    BY <2>1, <2>2 DEF BufType
  <2>7. BufPhase'
    BY <2>1, <2>2, <2>3, <2>5 DEF BufPhase
  <2>8. QED
    BY <2>1, <2>3, <2>6, <2>7 DEF BufInv
<1>3. CASE DropPages
  <2>1. BufType /\ dartMaps \subseteq stuckMaps /\ pioMaps \subseteq stuckPio /\ releasing.id \in Nat
    BY <1>3 DEF BufInv, BufPhase, DropPages, NoRelease
  <2>2. allocations' = <<>> /\ windows' = <<>> /\ UNCHANGED <<nextId, dartMaps, pioMaps, stuckMaps, stuckPio>>
    BY <1>3 DEF DropPages
  <2>3. releasing' = [id |-> releasing.id, step |-> "gone"]
    BY <1>3 DEF DropPages, BufInv
  <2>4. BufType'
    <3>1. IdsOf(<<>>) = {} /\ OncePerId(<<>>)
      BY DEF IdsOf, OncePerId
    <3>2. nextId' \in Nat
      BY <2>1, <2>2 DEF BufType
    <3>3. <<>> \in Seq([id : Nat, pio : BOOLEAN]) /\ <<>> \in Seq([id : Nat])
      OBVIOUS
    <3>4. QED
      BY <3>1, <3>2, <3>3, <2>2 DEF BufType
  <2>5. BufPhase'
    BY <2>1, <2>2, <2>3 DEF BufPhase
  <2>6. QED
    BY <2>1, <2>3, <2>4, <2>5 DEF BufInv
<1>4. QED
  BY <1>1, <1>2, <1>3

LEMMA BufInvMeans == ASSUME BufInv PROVE DescriptorsSafe
<1>1. PioIds(allocations) \subseteq IdsOf(allocations)
  BY PioAmong
<1>2. {w.id : w \in ToSet(windows)} = IdsOf(windows)
  BY DEF ToSet, IdsOf
<1>3. Flagged = PioIds(allocations)
  BY FlaggedAre
<1>4. NoMappedFreePages
  BY <1>1, <1>2 DEF BufInv, BufPhase, Held, PioTrue, NoMappedFreePages
<1>5. DescriptorsTrue
  <2>1. SUFFICES ASSUME Connected PROVE DescriptorsTrue
    BY DEF DescriptorsTrue
  <2>2. BufType /\ PioTrue
    BY <2>1, WhileConnected
  <2>3. \A i \in DOMAIN allocations, j \in DOMAIN windows : allocations[i].id # windows[j].id
    BY <2>2 DEF BufType, IdsOf
  <2>4. QED
    BY <2>2, <2>3, <1>3 DEF BufType, OncePerId, PioTrue, DescriptorsTrue
<1>6. QED
  BY <1>4, <1>5 DEF DescriptorsSafe

(* Memory the firmware was given through IOMFB, for any number of descriptors:*)
(* no engine reaches a page that went back to the allocator unless an error   *)
(* left its mapping, and a flagged descriptor is a mapped one.                *)
THEOREM DescriptorsStaySafe == BufSpec => []DescriptorsSafe
<1>1. BufInit => BufInv
  <2>1. SUFFICES ASSUME BufInit PROVE BufInv
    OBVIOUS
  <2>2. IdsOf(<<>>) = {} /\ PioIds(<<>>) = {} /\ OncePerId(<<>>)
    BY DEF IdsOf, PioIds, OncePerId
  <2>3. <<>> \in Seq([id : Nat, pio : BOOLEAN]) /\ <<>> \in Seq([id : Nat])
    OBVIOUS
  <2>4. BufType
    BY <2>1, <2>2, <2>3 DEF BufInit, BufType
  <2>5. BufPhase /\ releasing = NoRelease
    BY <2>1, <2>2 DEF BufInit, BufPhase, Held, PioTrue
  <2>6. QED
    BY <2>4, <2>5 DEF BufInv, NoRelease
<1>2. BufInv /\ [BufNext]_bufVars => BufInv'
  <2>1. SUFFICES ASSUME BufInv, [BufNext]_bufVars PROVE BufInv'
    OBVIOUS
  <2>2. CASE UNCHANGED bufVars
    BY <2>1, <2>2 DEF bufVars, BufInv, BufType, BufPhase, Held, PioTrue
  <2>3. ASSUME NEW id \in 1..MaxDescriptors, MapPio(id) \/ UnmapPio(id) \/ ReleaseBuffer(id) \/ ReleaseWindow(id)
        PROVE  BufInv'
    BY <2>1, <2>3, MapPioKeeps, UnmapPioKeeps, ReleaseBufferKeeps, ReleaseWindowKeeps
  <2>4. QED
    BY <2>1, <2>2, <2>3, AllocateKeeps, MapWindowKeeps, ReleaseUnmapsKeeps, ReleaseFreesKeeps, DropKeeps DEF BufNext
<1>3. QED
  BY <1>1, <1>2, BufInvMeans, PTL DEF BufSpec

(* Together: the frame buffer service, for any operations, callbacks, bounds  *)
(* and descriptors.                                                           *)
THEOREM FrameBufferStaysSound == IomfbSpec /\ BufSpec => []FrameBufferSound
<1>1. NestingIsSound /\ DescriptorsSafe => FrameBufferSound
  BY DEF FrameBufferSound
<1>2. QED
  BY <1>1, NestingStaysSound, DescriptorsStaySafe, PTL
=============================================================================
