------------------------------ MODULE AvdLayout -------------------------------
(* Memory of one H.264 session: AvdFrameLayout of                              *)
(* drivers/video/apple-avd/src/h264.rs, AvdSessionWorkspace and                *)
(* AvdH264ResourcePlan of lib.rs.  Addresses are offsets into the mapping; all *)
(* constants are the program's.                                                *)
EXTENDS Integers

CONSTANTS
  FrameSizes,   \* coded sizes of the streams: <<width, height>>
  References,   \* reference frames of the streams
  OutputLens    \* lengths of the frontend's output buffer

VARIABLES
  asked,        \* the stream of the last request: width, height, slots, payload
  workspace,    \* the session's: slot span, slots and length
  mapped        \* the last request was accepted

spaceVars == <<asked, workspace, mapped>>

Granule == 16384
InstFifo == [at |-> 16384, len |-> 1048576]
PpsTiles == [at |-> 1310720, len |-> 163840]      \* the last tile is 0x20000 in
ReferenceOffset == 4194304
OutputSlots == 17
TableLength == 16

AlignUp(n, a) == ((n + a - 1) \div a) * a
PowerOfTwo(n) == CHOOSE p \in {2^k : k \in 0..13} : p >= n /\ (p = 1 \/ p \div 2 < n)
Larger(a, b) == IF a > b THEN a ELSE b
Smaller(a, b) == IF a < b THEN a ELSE b

OutputLen(w, h) == AlignUp(w, 64) * h + AlignUp(w, 64) * (h \div 2)

(* rvra_offsets: the four parts of a reference picture, by increasing offset  *)
(* the second, the first, the fourth and the third.                           *)
RvraOffsets(w, h) ==
  LET size0 == w * AlignUp(h, 32) + (w * AlignUp(h, 32)) \div 4
      size1 == Larger((PowerOfTwo(w) * PowerOfTwo(h)) \div 32, 256)
      size2 == size0 \div 2
  IN  <<size0, 0, size0 + size1 + size2, size0 + size1>>

(* Mutant: no room for the last part. *)
RvraLenUnpadded(w, h) == (RvraOffsets(w, h)[4] \div Granule) * Granule

RvraLen(w, h) ==
  AlignUp(RvraOffsets(w, h)[3], Granule)
  + Granule * (CASE w < 1000 -> 0 [] w \in 1000..1799 -> 2 [] w \in 1800..3799 -> 3 [] OTHER -> 9)

ScratchLen(w, h) == (((w - 1) * (h - 1)) \div 65536 + 2) * Granule
SlotSpan(w, h) == AlignUp(AlignUp(RvraLen(w, h), Granule) + AlignUp(ScratchLen(w, h), Granule), Granule)

(* Mutant: any workspace with enough slots will do. *)
EnoughSlots(w, h, slots) == workspace # {} /\ \A s \in workspace : slots <= s.slots

Compatible(w, h, slots) ==
  workspace # {} /\ \A s \in workspace : slots <= s.slots /\ SlotSpan(w, h) = s.span

NewWorkspace(w, h, slots) ==
  [span |-> SlotSpan(w, h), slots |-> slots, len |-> AlignUp(ReferenceOffset + SlotSpan(w, h) * slots, Granule)]

OutputSpan(w, h) == AlignUp(Granule + OutputLen(w, h), Granule)

(* Mutant: as many slots as the stream asks for. *)
SlotsWanted(w, h, len, n) == Smaller(Smaller(n, TableLength) + 1, OutputSlots)

SlotCount(w, h, len, n) == Smaller(Larger(len \div OutputSpan(w, h), 1), OutputSlots)

PlanAccepts(w, h, len, n, store) ==
  LET cap == IF store /\ n = 0 THEN 1 ELSE Smaller(n, TableLength)
  IN  SlotCount(w, h, len, n) >= Smaller(cap + 1, OutputSlots)

SpaceInit == asked = {} /\ workspace = {} /\ mapped = FALSE

(* One decode request: plan, workspace, and the choice of slot by             *)
(* preview_mapped_output, whose last check is on the payload's end.           *)
MapRequest(w, h, len, n, store) ==
  IF ~PlanAccepts(w, h, len, n, store)
  THEN mapped' = FALSE /\ UNCHANGED <<asked, workspace>>
  ELSE LET slots == SlotCount(w, h, len, n)
       IN  /\ workspace' = IF Compatible(w, h, slots) THEN workspace ELSE {NewWorkspace(w, h, slots)}
           /\ \E slot \in 0..(slots - 1) :
                IF slot * OutputSpan(w, h) + Granule + OutputLen(w, h) > len
                THEN mapped' = FALSE /\ UNCHANGED asked
                ELSE mapped' = TRUE /\ asked' = {[w |-> w, h |-> h, slots |-> slots, slot |-> slot, len |-> len]}

SpaceNext ==
  \E size \in FrameSizes, len \in OutputLens, n \in References, store \in BOOLEAN :
    MapRequest(size[1], size[2], len, n, store)

SpaceSpec == SpaceInit /\ [][SpaceNext]_spaceVars

------------------------------------------------------------------------------
Apart(a, b) == a.at + a.len <= b.at \/ b.at + b.len <= a.at

Picture(q, s) ==
  [rvra |-> [at |-> ReferenceOffset + q * s.span, len |-> RvraLen(s.w, s.h)],
   scratch |-> [at |-> ReferenceOffset + q * s.span + RvraLen(s.w, s.h), len |-> ScratchLen(s.w, s.h)]]

(* Every picture the decoder may be pointed at lies inside the workspace, in  *)
(* a place of its own, and so do its command queue and tiles: also when the   *)
(* workspace was made for another size of picture.                            *)
PicturesApart ==
  mapped => \A a \in asked, s \in workspace :
    LET pic(q) == Picture(q, [span |-> s.span, w |-> a.w, h |-> a.h])
    IN  /\ Apart(InstFifo, PpsTiles) /\ PpsTiles.at + PpsTiles.len <= ReferenceOffset
        /\ \A q \in 0..(a.slots - 1) : pic(q).scratch.at + pic(q).scratch.len <= s.len
        /\ \A q, r \in 0..(a.slots - 1) : q # r =>
             \A x \in {pic(q).rvra, pic(q).scratch}, y \in {pic(r).rvra, pic(r).scratch} : Apart(x, y)

(* The parts of a picture lie in their order and the last begins inside.      *)
(* (Not so for 160 sizes narrower than 1000, among them 192 by 1008 and 48 by *)
(* 4096, where the third offset is a multiple of the granule: it is then the  *)
(* scratch area's.)                                                           *)
PartsInPicture ==
  mapped => \A a \in asked :
    LET o == RvraOffsets(a.w, a.h)
    IN  o[2] < o[1] /\ o[1] < o[4] /\ o[4] < o[3] /\ o[3] < RvraLen(a.w, a.h)

(* Every slot that a picture may be kept in can be written: a request that    *)
(* was accepted for one slot is not refused for another.                      *)
SlotsInBuffer ==
  mapped => \A a \in asked : \A q \in 0..(a.slots - 1) :
    q * OutputSpan(a.w, a.h) + Granule + OutputLen(a.w, a.h) <= a.len

-----------------------------------------------------------------------------
(* compact_nv12_output_payload of drivers/video/apple-avd/src/lib.rs: the      *)
(* visible part of a decoded picture is moved, row by row and in place, to the *)
(* start of the payload.  Source and destination overlap.                      *)

CONSTANTS
  CodedSizes,   \* coded widths and heights to check
  StrideSlack,  \* how much longer than the width a line may be
  CropSteps     \* crop offsets and display sizes to check

VARIABLES
  geo,          \* the layout and the crop of the pending decode
  mem,          \* payload bytes: each holds the address it was decoded to
  row,          \* rows of the current plane moved so far
  plane         \* what is being moved: y, uv, or done, or rejected

picVars == <<geo, mem, row, plane>>

Geometries == [w : CodedSizes, h : CodedSizes, slack : StrideSlack,
               x : CropSteps, y : CropSteps, dw : CropSteps, dh : CropSteps]

Stride(g) == g.w + g.slack
UvBase(g) == Stride(g) * g.h
PayloadLen(g) == UvBase(g) + Stride(g) * (g.h \div 2)

(* plane_copy_end: where the last row ends. *)
PlaneCopyEnd(start, rows, stride, x, width) ==
  IF rows = 0 THEN x + width ELSE (start + rows - 1) * stride + x + width

TightLen(g) == g.dw * g.dh + (g.dw * g.dh) \div 2

(* The checks before the first row.  The negations are the error returns.    *)
CropAccepted(g) ==
  /\ g.dw > 0 /\ g.dh > 0 /\ g.dw % 2 = 0 /\ g.dh % 2 = 0
  /\ g.x <= g.w /\ g.y <= g.h /\ g.dw <= g.w - g.x /\ g.dh <= g.h - g.y
  /\ g.x % 2 = 0 /\ g.y % 2 = 0
  /\ TightLen(g) <= PayloadLen(g)
  /\ PlaneCopyEnd(g.y, g.dh, Stride(g), g.x, g.dw) <= PayloadLen(g)
  /\ UvBase(g) + PlaneCopyEnd(g.y \div 2, g.dh \div 2, Stride(g), g.x, g.dw) <= PayloadLen(g)

AlreadyTight(g) == g.x = 0 /\ g.y = 0 /\ g.dw = g.w /\ g.dh = g.h /\ Stride(g) = g.dw

PicInit ==
  /\ geo \in Geometries
  /\ mem = [a \in 0..(PayloadLen(geo) - 1) |-> a]
  /\ row = 0
  /\ plane = IF ~CropAccepted(geo) THEN "rejected" ELSE IF AlreadyTight(geo) THEN "done" ELSE "y"

(* core::ptr::copy of one row, which allows the two to overlap. *)
MoveRow(src, dst) == mem' = [a \in DOMAIN mem |-> IF a \in dst..(dst + geo.dw - 1) THEN mem[src + a - dst] ELSE mem[a]]

(* Mutant: from the last row up. *)
MoveLastYRow ==
  /\ plane = "y"
  /\ LET r == geo.dh - 1 - row
     IN  MoveRow((geo.y + r) * Stride(geo) + geo.x, r * geo.dw)
  /\ IF row + 1 = geo.dh THEN plane' = "uv" /\ row' = 0 ELSE row' = row + 1 /\ UNCHANGED plane
  /\ UNCHANGED geo

MoveYRow ==
  /\ plane = "y"
  /\ MoveRow((geo.y + row) * Stride(geo) + geo.x, row * geo.dw)
  /\ IF row + 1 = geo.dh THEN plane' = "uv" /\ row' = 0 ELSE row' = row + 1 /\ UNCHANGED plane
  /\ UNCHANGED geo

MoveUvRow ==
  /\ plane = "uv"
  /\ MoveRow(UvBase(geo) + (geo.y \div 2 + row) * Stride(geo) + geo.x, geo.dw * geo.dh + row * geo.dw)
  /\ IF row + 1 = geo.dh \div 2 THEN plane' = "done" /\ row' = 0 ELSE row' = row + 1 /\ UNCHANGED plane
  /\ UNCHANGED geo

PicNext == MoveYRow \/ MoveUvRow
PicSpec == PicInit /\ [][PicNext]_picVars

------------------------------------------------------------------------------
(* The compacted picture is the visible part of the decoded one: no row is   *)
(* overwritten by an earlier row's new place before it is read.              *)
CropIsExact ==
  plane = "done" =>
    /\ \A r \in 0..(geo.dh - 1), c \in 0..(geo.dw - 1) :
         mem[r * geo.dw + c] = (geo.y + r) * Stride(geo) + geo.x + c
    /\ \A r \in 0..(geo.dh \div 2 - 1), c \in 0..(geo.dw - 1) :
         mem[geo.dw * geo.dh + r * geo.dw + c] = UvBase(geo) + (geo.y \div 2 + r) * Stride(geo) + geo.x + c

(* The workspace as planned holds what the decoder writes, for every size      *)
(* tried and also when it was made for another; and cropping in place keeps    *)
(* the visible picture.                                                        *)
LayoutHolds == PicturesApart /\ PartsInPicture /\ SlotsInBuffer /\ CropIsExact

=============================================================================
