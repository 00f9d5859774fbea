----------------------------- MODULE AvdReferences -----------------------------
(* Reference pictures and output slots of one H.264 session of the AVD driver, *)
(* drivers/video/apple-avd/src/lib.rs.                                         *)
(*                                                                             *)
(* Each decode writes one slot of the output pool and of the workspace.  The   *)
(* slot of a picture that is still referenced must not be written.  A picture  *)
(* is its slot and frame number; the decoded picture buffer that comes with a  *)
(* request is the set of stored pictures it matches and its number of entries. *)
EXTENDS Naturals, FiniteSets

CONSTANTS
  TableLen,     \* AVD_REFERENCE_FRAME_TABLE_LEN
  MaxFit,       \* bound: slots that fit the output buffer
  Spans,        \* slot spans, one per picture size
  MaxFrames     \* bound: frames submitted

ASSUME RefAssumption == TableLen \in Nat \ {0} /\ MaxFit \in Nat /\ MaxFrames \in Nat

VARIABLES
  pictures,     \* reference_frames: records of slot and frame number
  nextSlot,     \* next_reference_slot
  shape,        \* reference_slot_len, active_slot_count and dpb_capacity
  nextFrame,    \* next_frame
  picture,      \* the pending decode, in a set
  noSlot        \* a decode was refused for lack of a slot

refVars == <<pictures, nextSlot, shape, nextFrame, picture, noSlot>>

NoShape == [span |-> 0, slots |-> 0, cap |-> 0]
RefInit == /\ pictures = {} /\ nextSlot = 0 /\ shape = NoShape
           /\ nextFrame = 0 /\ picture = {} /\ noSlot = FALSE

AtMost(a, b) == IF a < b THEN a ELSE b
AtLeast(a, b) == IF a > b THEN a ELSE b

(* AvdH264ResourcePlan::new for a stream with n reference frames. *)
PlanCap(n, store) == IF store /\ n = 0 THEN 1 ELSE AtMost(n, TableLen)
PlanSlots(fit) == AtMost(AtLeast(fit, 1), TableLen + 1)
(* Mutant: no slot beside those of the references. *)
FitsWithoutSpare(n, store, fit) == PlanSlots(fit) >= PlanCap(n, store)

PlanFits(n, store, fit) == PlanSlots(fit) >= AtMost(PlanCap(n, store) + 1, TableLen + 1)
Plan(span, n, store, fit) == [span |-> span, slots |-> PlanSlots(fit), cap |-> PlanCap(n, store)]

(* trim_reference_frames: the oldest go first. *)
Youngest(S, k) == {p \in S : Cardinality({q \in S : q.num > p.num}) < k}

(* prune_reference_frames_for_dpb: keep what the request's buffer matches.   *)
Prune(S, matched, entries, n) ==
  LET target == AtMost(AtMost(entries, n), TableLen)
  IN  IF target = 0 THEN {} ELSE Youngest(S \cap matched, target)

(* preview_mapped_output: from the next slot on, the first not referenced.   *)
SlotAfter(S, slots, from) ==
  LET free == {o \in 0..(slots - 1) : \A p \in S : p.slot # (from + o) % slots}
  IN  IF free = {} THEN {} ELSE {(from + CHOOSE o \in free : \A q \in free : o <= q) % slots}

(* Mutant: the next slot, referenced or not. *)
NextSlotOnly(S, plan, from, idr, sh) == {from % plan.slots}

ChooseSlot(S, plan, from, idr, sh) ==
  IF idr \/ sh # plan THEN {0} ELSE SlotAfter(S, plan.slots, from)

(* Mutant: a change of shape keeps the pictures. *)
KeepReshaped(kept, plan, idr, sh) == IF idr THEN {} ELSE kept

Retained(kept, plan, idr, sh) == IF idr \/ sh # plan THEN {} ELSE kept

(* prepare_h264_session_resources and prepare_mapped_output.  A new mapping  *)
(* of the output or of the workspace clears the pictures.                    *)
SubmitPicture(span, n, store, fit, idr, remap, matched, entries) ==
  LET plan == Plan(span, n, store, fit)
      kept == Prune(IF remap = "none" THEN pictures ELSE {}, matched, entries, n)
      from == IF remap = "none" THEN nextSlot ELSE 0
      sh   == IF remap = "output" THEN NoShape ELSE shape
      slot == ChooseSlot(kept, plan, from, idr, sh)
  IN  /\ picture = {} /\ PlanFits(n, store, fit)
      /\ entries >= Cardinality(matched)
      /\ nextFrame < MaxFrames
      /\ nextFrame' = nextFrame + 1
      /\ IF slot = {}
         THEN /\ noSlot' = TRUE /\ pictures' = kept /\ nextSlot' = from /\ shape' = sh
              /\ UNCHANGED picture
         ELSE /\ pictures' = Retained(kept, plan, idr, sh)
              /\ shape' = plan
              /\ \E s \in slot :
                   /\ nextSlot' = (s + 1) % plan.slots
                   /\ \/ picture' = {[slot |-> s, num |-> nextFrame, store |-> store, idr |-> idr, cap |-> plan.cap]}
                      \/ UNCHANGED picture        \* the slice is malformed
              /\ UNCHANGED noSlot

(* insert_reference_frame: a picture in the same slot is replaced; a full    *)
(* table loses its oldest.                                                   *)
Insert(S, p) ==
  LET others == {q \in S : q.slot # p.slot}
      room   == IF Cardinality(others) >= TableLen THEN Youngest(others, Cardinality(others) - 1) ELSE others
  IN  room \cup {p}

(* Mutant: the table is not trimmed to the stream's capacity. *)
CommitUntrimmed ==
  /\ \E d \in picture :
       pictures' = LET base == IF d.idr THEN {} ELSE pictures
                   IN  IF d.store THEN Insert(base, [slot |-> d.slot, num |-> d.num]) ELSE base
  /\ picture' = {} /\ UNCHANGED <<nextSlot, shape, nextFrame, noSlot>>

(* commit_pending_decode *)
CommitPicture ==
  /\ \E d \in picture :
       pictures' = LET base == IF d.idr THEN {} ELSE pictures
                   IN  IF d.store
                       THEN Youngest(Insert(base, [slot |-> d.slot, num |-> d.num]), AtLeast(d.cap, 1))
                       ELSE base
  /\ picture' = {} /\ UNCHANGED <<nextSlot, shape, nextFrame, noSlot>>

(* A decode that failed takes the whole session with it. *)
SessionReset ==
  /\ pictures' = {} /\ nextSlot' = 0 /\ shape' = NoShape /\ picture' = {}
  /\ UNCHANGED <<nextFrame, noSlot>>

RefNext ==
  \/ \E span \in Spans, n \in 0..TableLen, fit \in 0..MaxFit, store, idr \in BOOLEAN,
        remap \in {"none", "output", "workspace"}, matched \in SUBSET pictures, entries \in 0..TableLen :
       SubmitPicture(span, n, store, fit, idr, remap, matched, entries)
  \/ CommitPicture \/ SessionReset

RefSpec == RefInit /\ [][RefNext]_refVars

------------------------------------------------------------------------------
(* The decoder never writes over a picture that later frames may still       *)
(* predict from.                                                             *)
WritesFreeSlot == \A d \in picture : \A p \in pictures : p.slot # d.slot

(* A picture is found again by its slot: no two share one, and the slots of  *)
(* all lie in the pool.                                                      *)
SlotsDistinct == /\ \A p, q \in pictures : p.slot = q.slot => p = q
                 /\ \A p \in pictures : p.slot < shape.slots

(* A stream within its plan never runs out of slots: pruning to the stream's *)
(* references and trimming after each commit leave one free.                 *)
AlwaysASlot == ~noSlot

(* The pool of pictures: no picture later frames need is written over, slots   *)
(* name one picture each, and a stream within its plan always finds one.       *)
ReferencesKept == WritesFreeSlot /\ SlotsDistinct /\ AlwaysASlot

=============================================================================
