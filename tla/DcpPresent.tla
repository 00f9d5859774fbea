------------------------------ MODULE DcpPresent ------------------------------
(* The two scanout buffers of the internal panel,                              *)
(* drivers/display/dcp/src/lib.rs, and the external display that mirrors them, *)
(* drivers/display/dcpext/src/lib.rs: the end of the probe that maps them and  *)
(* hands them to the mirror, the calls that present a buffer and the firmware  *)
(* that shows it.                                                              *)
EXTENDS Integers, Sequences, FiniteSets, FiniteSetsExt

CONSTANTS
  PresentTasks, \* callers of the graphics device
  MaxBadSwaps,  \* bound on commands of a swap that fail
  MaxPresents   \* bound on presents

ASSUME PresentAssumption == {MaxBadSwaps, MaxPresents} \subseteq Nat

VARIABLES
  panel,    \* the driver: step of the probe, front buffer, mirror flag
  locked,   \* the task inside the state lock, its step and its buffer
  told,     \* task -> the buffer it was last told to draw into, or none
  shown,    \* the buffer the internal panel shows
  queued,   \* buffers the firmware was given and does not show yet
  mirror,   \* the external display: configured, the buffer it shows
  lost,     \* whether a swap the firmware may still show was given up
  bad,      \* failed commands so far
  presents  \* presents so far

presentVars == <<panel, locked, told, shown, queued, mirror, lost, bad, presents>>

Buffers == {0, 1}
NoBuffer == 2
Free == [by |-> "nobody", at |-> "idle", buffer |-> NoBuffer]

PresentInit ==
  /\ panel = [at |-> "mapping", front |-> 0, mirrors |-> FALSE]
  /\ locked = Free
  /\ told = [t \in PresentTasks |-> NoBuffer]
  /\ shown = NoBuffer
  /\ queued = {}
  /\ mirror = [on |-> FALSE, shown |-> NoBuffer]
  /\ lost = FALSE
  /\ bad = 0 /\ presents = 0

(* The probe maps both buffers for the coprocessor and the display, or gives   *)
(* up.                                                                         *)
MapScanouts ==
  /\ panel.at = "mapping"
  /\ \E a \in {"mapped", "failed"} : panel' = [panel EXCEPT !.at = a]
  /\ UNCHANGED <<locked, told, shown, queued, mirror, lost, bad, presents>>

(* configure_scanouts of the external display, when there is one with a mode;  *)
(* every failure of it only leaves the mirror off, wherever it came.           *)
ConfigureScanouts ==
  /\ panel.at = "mapped"
  /\ \E found \in {"none", "surface", "configured"} :
       /\ mirror' = [on |-> found = "configured",
                     shown |-> IF found = "none" THEN NoBuffer ELSE 0]
       /\ panel' = [panel EXCEPT !.at = "mirrored", !.mirrors = found = "configured"]
  /\ UNCHANGED <<locked, told, shown, queued, lost, bad, presents>>

(* set_surface shows the first buffer, then IOMFB starts and powers on, and    *)
(* the device is registered.                                                   *)
ShowFirst ==
  /\ panel.at = "mirrored"
  /\ \/ shown' = 0 /\ \E a \in {"ready", "failed"} : panel' = [panel EXCEPT !.at = a]
     \/ UNCHANGED shown /\ panel' = [panel EXCEPT !.at = "failed"]
  /\ UNCHANGED <<locked, told, queued, mirror, lost, bad, presents>>
-----------------------------------------------------------------------------
Idle == panel.at = "ready" /\ locked = Free

(* get_framebuffer_address, which waits for a present under way. *)
(* Mutant: the front buffer is read without the lock. *)
AddressUnlocked(t) ==
  /\ panel.at = "ready" /\ locked.by # t
  /\ told' = [told EXCEPT ![t] = 1 - panel.front]
  /\ UNCHANGED <<panel, locked, shown, queued, mirror, lost, bad, presents>>
GetFramebufferAddress(t) ==
  /\ Idle
  /\ told' = [told EXCEPT ![t] = 1 - panel.front]
  /\ UNCHANGED <<panel, locked, shown, queued, mirror, lost, bad, presents>>

(* present_framebuffer_region and present_scanout_buffer_regions: any buffer   *)
(* but the one in front is refused, then its lines are cleaned.                *)
(* Mutant: the front buffer is committed before the swap. *)
PresentCommitsFirst(t, b) ==
  /\ Idle
  /\ presents < MaxPresents
  /\ presents' = presents + 1
  /\ b # panel.front
  /\ panel' = [panel EXCEPT !.front = b]
  /\ locked' = [by |-> t, at |-> "start", buffer |-> b]
  /\ UNCHANGED <<told, shown, queued, mirror, lost, bad>>
Present(t, b) ==
  /\ Idle
  /\ presents < MaxPresents
  /\ presents' = presents + 1
  /\ b # panel.front
  /\ locked' = [by |-> t, at |-> "start", buffer |-> b]
  /\ UNCHANGED <<panel, told, shown, queued, mirror, lost, bad>>

Fails == bad < MaxBadSwaps /\ bad' = bad + 1 /\ locked' = Free

SwapStart ==
  /\ locked.at = "start"
  /\ \/ Fails
     \/ bad' = bad /\ locked' = [locked EXCEPT !.at = "submit"]
  /\ UNCHANGED <<panel, told, shown, queued, mirror, lost, presents>>

(* A submit that fails on our side may still have reached the firmware. *)
SwapSubmit ==
  /\ locked.at = "submit"
  /\ \/ Fails /\ UNCHANGED <<queued, lost>>
     \/ Fails /\ queued' = queued \cup {locked.buffer} /\ lost' = TRUE
     \/ /\ queued' = queued \cup {locked.buffer}
        /\ locked' = [locked EXCEPT !.at = "wait"]
        /\ UNCHANGED <<lost, bad>>
  /\ UNCHANGED <<panel, told, shown, mirror, presents>>

FirmwareShows(b) ==
  /\ b \in queued
  /\ shown' = b
  /\ queued' = queued \ {b}
  /\ UNCHANGED <<panel, locked, told, mirror, lost, bad, presents>>

(* wait_swap_complete, then the commit of the front buffer. *)
WaitSwapComplete ==
  /\ locked.at = "wait"
  /\ \/ Fails /\ lost' = TRUE /\ UNCHANGED panel
     \/ /\ locked.buffer \notin queued
        /\ panel' = [panel EXCEPT !.front = locked.buffer]
        /\ locked' = [locked EXCEPT !.at = "mirror"]
        /\ UNCHANGED <<lost, bad>>
  /\ UNCHANGED <<told, shown, queued, mirror, presents>>

(* present_external_mirror: swap_begin, swap_set_layer and swap_end of the     *)
(* external display; one failure turns the mirror off for good.                *)
(* Mutant: a failed mirror stays on. *)
MirrorStaysOn ==
  /\ locked.at = "mirror"
  /\ \/ bad' = bad /\ mirror' = IF panel.mirrors THEN [mirror EXCEPT !.shown = locked.buffer] ELSE mirror
     \/ panel.mirrors /\ bad < MaxBadSwaps /\ bad' = bad + 1 /\ mirror' = mirror
  /\ locked' = Free
  /\ UNCHANGED <<panel, told, shown, queued, lost, presents>>
PresentExternalMirror ==
  /\ locked.at = "mirror"
  /\ \/ /\ ~panel.mirrors
        /\ UNCHANGED <<panel, mirror, bad>>
     \/ /\ panel.mirrors
        /\ mirror' = [mirror EXCEPT !.shown = locked.buffer]
        /\ UNCHANGED <<panel, bad>>
     \/ /\ panel.mirrors
        /\ bad < MaxBadSwaps /\ bad' = bad + 1
        /\ mirror' \in {mirror, [mirror EXCEPT !.shown = locked.buffer]}
        /\ panel' = [panel EXCEPT !.mirrors = FALSE]
  /\ locked' = Free
  /\ UNCHANGED <<told, shown, queued, lost, presents>>

PresentNext ==
  \/ MapScanouts \/ ConfigureScanouts \/ ShowFirst
  \/ \E t \in PresentTasks : GetFramebufferAddress(t) \/ \E b \in Buffers : Present(t, b)
  \/ SwapStart \/ SwapSubmit \/ WaitSwapComplete \/ PresentExternalMirror
  \/ \E b \in Buffers : FirmwareShows(b)

PresentSpec == PresentInit /\ [][PresentNext]_presentVars
-----------------------------------------------------------------------------
(* When no present is under way and every swap that was given up never reached *)
(* the firmware, the buffer on record as the front is the one the panel shows: *)
(* what a client is told to draw into is not on the screen.                     *)
FrontIsShown == Idle /\ ~lost => shown = panel.front

(* A client is never told to draw into a buffer the panel shows or is about to *)
(* show, but for the swaps that failed.                                        *)
DrawsOffScreen ==
  [][\A t \in PresentTasks : told'[t] # told[t] /\ ~lost => told'[t] \notin queued \cup {shown}]_presentVars

(* The external display shows the front buffer of the panel as long as it is   *)
(* on record as a mirror, whatever failed.                                     *)
MirrorFollows == Idle /\ panel.mirrors => mirror.on /\ mirror.shown = panel.front

-----------------------------------------------------------------------------
(* What the display driver computes, drivers/display/dcp/src/lib.rs: the       *)
(* panel's timing, where a frame is shown on it, and which bytes of a scanout  *)
(* buffer are cleaned for the damaged regions.                                 *)

CONSTANTS
  PanelSizes,    \* sizes of frames and panels, in pixels
  Timings,       \* sequences of modes [valid, width, height, fps]
  Screen,        \* [width, height, stride, bpp] of the damaged buffer
  RegionEdges    \* coordinates and extents of damaged regions

VARIABLES panelCase   \* the computation at hand

panelVars == <<panelCase>>

Largest(S) == CHOOSE x \in S : \A y \in S : y <= x
Less(a, b) == IF a < b THEN a ELSE b

(* Mutant: the frame fills the panel's other side. *)
FillRect(sw, sh, pw, ph) ==
  LET wider == pw * sh >= ph * sw
      w == IF wider THEN pw ELSE Largest({(sw * ph) \div sh, 1})
      h == IF wider THEN Largest({(sh * pw) \div sw, 1}) ELSE ph
  IN  [x |-> (IF pw > w THEN pw - w ELSE 0) \div 2, y |-> (IF ph > h THEN ph - h ELSE 0) \div 2, w |-> w, h |-> h]

(* fit_output_rect *)
FitOutputRect(sw, sh, pw, ph) ==
  LET wider == pw * sh <= ph * sw
      w == IF wider THEN pw ELSE Largest({(sw * ph) \div sh, 1})
      h == IF wider THEN Largest({(sh * pw) \div sw, 1}) ELSE ph
  IN  [x |-> (IF pw > w THEN pw - w ELSE 0) \div 2, y |-> (IF ph > h THEN ph - h ELSE 0) \div 2, w |-> w, h |-> h]

(* choose_timing: the key of max_by_key, which keeps the last of equals.      *)
UsableMode(m) == m.valid /\ m.width > 0 /\ m.height > 0
RefreshOk(m) == m.fps <= 60
(* Mutant: the refresh rate does not count. *)
BetterBySize(a, b) == a.width * a.height >= b.width * b.height
Better(a, b) ==
  \/ RefreshOk(a) /\ ~RefreshOk(b)
  \/ /\ RefreshOk(a) = RefreshOk(b)
     /\ \/ a.width * a.height > b.width * b.height
        \/ a.width * a.height = b.width * b.height /\ a.fps >= b.fps

ChooseTiming(modes) ==
  LET usable == {i \in DOMAIN modes : UsableMode(modes[i])}
  IN  IF usable = {} THEN 0
      ELSE CHOOSE i \in usable : \A j \in usable :
             /\ Better(modes[i], modes[j])
             /\ (j > i => ~Better(modes[j], modes[i]))

(* clean_scanout_regions: byte ranges, one for each region that is on screen; *)
(* no regions mean the whole buffer.                                          *)
(* Mutant: the last row's end is taken from the first row. *)
CleanOneRow(r) ==
  LET x == Less(r.x, Screen.width)
      y == Less(r.y, Screen.height)
      w == Less(r.w, Screen.width - x)
      h == Less(r.h, Screen.height - y)
  IN  IF w = 0 \/ h = 0 THEN {} ELSE (y * Screen.stride + x * Screen.bpp) .. (y * Screen.stride + (x + w) * Screen.bpp - 1)

CleanRegion(r) ==
  LET x == Less(r.x, Screen.width)
      y == Less(r.y, Screen.height)
      w == Less(r.w, Screen.width - x)
      h == Less(r.h, Screen.height - y)
  IN  IF w = 0 \/ h = 0 THEN {}
      ELSE (y * Screen.stride + x * Screen.bpp) .. ((y + h - 1) * Screen.stride + (x + w) * Screen.bpp - 1)

PanelInit == panelCase = [kind |-> "none"]

ShowFrame(sw, sh, pw, ph) ==
  panelCase' = [kind |-> "rect", sw |-> sw, sh |-> sh, pw |-> pw, ph |-> ph, rect |-> FitOutputRect(sw, sh, pw, ph)]
SetMode(modes) == panelCase' = [kind |-> "timing", modes |-> modes, chosen |-> ChooseTiming(modes)]
CleanDamage(r) == panelCase' = [kind |-> "damage", region |-> r, cleaned |-> CleanRegion(r)]

PanelNext ==
  /\ panelCase.kind = "none"
  /\ \/ \E s, p \in PanelSizes : ShowFrame(s[1], s[2], p[1], p[2])
     \/ \E modes \in Timings : SetMode(modes)
     \/ \E x, y, w, h \in RegionEdges : CleanDamage([x |-> x, y |-> y, w |-> w, h |-> h])

PanelSpec == PanelInit /\ [][PanelNext]_panelVars

------------------------------------------------------------------------------
(* A frame is shown inside the panel, touches two of its edges, and keeps its *)
(* shape to within a pixel.                                                   *)
FrameFitsPanel ==
  panelCase.kind = "rect" =>
    LET r == panelCase.rect
        c == panelCase
        skew == r.w * c.sh - r.h * c.sw
    IN  /\ r.w >= 1 /\ r.h >= 1 /\ r.x + r.w <= c.pw /\ r.y + r.h <= c.ph
        /\ r.w = c.pw \/ r.h = c.ph
        /\ (r.w > 1 /\ r.h > 1) => skew < c.sw /\ skew > -c.sh

(* The chosen mode is one the panel lists, and no other is both refreshed at  *)
(* 60 Hz or less and larger.                                                  *)
TimingIsUsable ==
  panelCase.kind = "timing" =>
    LET m == panelCase.modes
        i == panelCase.chosen
    IN  IF i = 0 THEN \A j \in DOMAIN m : ~m[j].valid \/ m[j].width * m[j].height = 0
        ELSE /\ m[i].valid /\ m[i].width * m[i].height > 0
             /\ \A j \in DOMAIN m : (m[j].valid /\ m[j].width * m[j].height > 0 /\ m[j].fps <= 60) =>
                  m[i].fps <= 60 /\ m[i].width * m[i].height >= m[j].width * m[j].height

(* Every byte of a damaged pixel that is on screen is cleaned before the swap, *)
(* and no byte outside the buffer is touched.                                  *)
DamageIsCleaned ==
  panelCase.kind = "damage" =>
    LET r == panelCase.region
        pixels == {p \in (0 .. Screen.width - 1) \X (0 .. Screen.height - 1) :
                     p[1] >= r.x /\ p[1] < r.x + r.w /\ p[2] >= r.y /\ p[2] < r.y + r.h}
    IN  /\ \A p \in pixels : \A b \in 0 .. Screen.bpp - 1 :
             p[2] * Screen.stride + p[1] * Screen.bpp + b \in panelCase.cleaned
        /\ panelCase.cleaned \subseteq 0 .. (Screen.stride * Screen.height - 1)

(* A presented frame is what the panel and the mirror show: the front on       *)
(* record is real, clients draw off screen, the frame fits the panel in a mode *)
(* it has, and its damaged bytes reached memory.                               *)
FramesAreShown ==
  /\ [](FrontIsShown /\ MirrorFollows /\ FrameFitsPanel /\ TimingIsUsable /\ DamageIsCleaned)
  /\ DrawsOffScreen

=============================================================================
