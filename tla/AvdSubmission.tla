---------------------------- MODULE AvdSubmission -----------------------------
(* locate_slice_data of drivers/video/apple-avd/src/h264.rs: where the slice   *)
(* data begins in a NAL unit.  The header's length is known in bits of the     *)
(* RBSP; the unit holds it with emulation prevention bytes, which must be      *)
(* counted in the offset and not in the length.                                *)
EXTENDS Integers, Sequences, FiniteSets, SequencesExt

CONSTANTS
  SliceBytes,   \* byte values: at least 0, 3 and another
  MaxRbsp,      \* bound: bytes of an RBSP
  After         \* what may follow the unit in the buffer: sequences of bytes

ASSUME SliceAssumption == {0, 3} \subseteq SliceBytes /\ MaxRbsp \in Nat

VARIABLES
  unit,         \* the request: RBSP, buffer, end of the unit, header's bits, CABAC
  offset,       \* next byte of the buffer, the unit's first being 1
  rbspRead,     \* header bytes read
  zeroCount,    \* zeros read in a row
  located       \* reading, found or invalid

sliceVars == <<unit, offset, rbspRead, zeroCount, located>>

(* What an encoder does to an RBSP: a 3 before a byte below 4 after two zeros. *)
Escape(s) ==
  FoldLeft(LAMBDA e, b : IF e.zeros >= 2 /\ b <= 3
                         THEN [bytes |-> e.bytes \o <<3, b>>, zeros |-> IF b = 0 THEN 1 ELSE 0]
                         ELSE [bytes |-> Append(e.bytes, b), zeros |-> IF b = 0 THEN e.zeros + 1 ELSE 0],
           [bytes |-> <<>>, zeros |-> 0], s).bytes

Rbsps == UNION {[1..n -> SliceBytes] : n \in 0..MaxRbsp}

(* CABAC slices begin at the next byte, the others within the header's last.  *)
HeaderBytes(u) == IF u.cabac THEN (u.bits + 7) \div 8 ELSE u.bits \div 8

SliceInit ==
  /\ \E r \in Rbsps, tail \in After, bits \in {8 * n + k : n \in 0..MaxRbsp, k \in {0, 1}}, cabac \in BOOLEAN :
       unit = [rbsp |-> r, input |-> Escape(r) \o tail, end |-> Len(Escape(r)), bits |-> bits, cabac |-> cabac]
  /\ offset = 0 /\ rbspRead = 0 /\ zeroCount = 0 /\ located = "reading"

(* Mutant: the zeros before a skipped byte still count. *)
SkipKeepsZeros ==
  /\ located = "reading" /\ rbspRead < HeaderBytes(unit) /\ offset < Len(unit.input)
  /\ zeroCount >= 2 /\ unit.input[offset + 1] = 3
  /\ offset' = offset + 1 /\ UNCHANGED <<unit, rbspRead, located, zeroCount>>

SkipEmulation ==
  /\ located = "reading" /\ rbspRead < HeaderBytes(unit) /\ offset < Len(unit.input)
  /\ zeroCount >= 2 /\ unit.input[offset + 1] = 3
  /\ offset' = offset + 1 /\ zeroCount' = 0 /\ UNCHANGED <<unit, rbspRead, located>>

ReadByte ==
  /\ located = "reading" /\ rbspRead < HeaderBytes(unit) /\ offset < Len(unit.input)
  /\ ~(zeroCount >= 2 /\ unit.input[offset + 1] = 3)
  /\ offset' = offset + 1 /\ rbspRead' = rbspRead + 1
  /\ zeroCount' = IF unit.input[offset + 1] = 0 THEN zeroCount + 1 ELSE 0
  /\ UNCHANGED <<unit, located>>

(* Mutant: a header that runs over the unit's end is accepted. *)
AcceptOverrun ==
  /\ located = "reading" /\ (rbspRead = HeaderBytes(unit) \/ offset = Len(unit.input))
  /\ located' = IF rbspRead = HeaderBytes(unit) THEN "found" ELSE "invalid"
  /\ UNCHANGED <<unit, offset, rbspRead, zeroCount>>

LocateEnds ==
  /\ located = "reading" /\ (rbspRead = HeaderBytes(unit) \/ offset = Len(unit.input))
  /\ located' = IF rbspRead = HeaderBytes(unit) /\ offset <= unit.end THEN "found" ELSE "invalid"
  /\ UNCHANGED <<unit, offset, rbspRead, zeroCount>>

SliceNext == SkipEmulation \/ ReadByte \/ LocateEnds
SliceSpec == SliceInit /\ [][SliceNext]_sliceVars

------------------------------------------------------------------------------
(* The decoder is pointed at the byte the encoder put after the header, for   *)
(* every placement of the emulation prevention bytes.                         *)
SliceDataFound ==
  located = "found" => offset = Len(Escape(SubSeq(unit.rbsp, 1, HeaderBytes(unit))))

(* A header that does not fit its unit is refused, whatever follows the unit  *)
(* in the buffer, and one that fits is not.                                   *)
OnlyFittingHeaders ==
  located # "reading" => (located = "found" <=> HeaderBytes(unit) <= Len(unit.rbsp))

-----------------------------------------------------------------------------
(* The instruction stream of one H.264 slice: ReferencePlan and                *)
(* AvdH264InstructionStream of drivers/video/apple-avd/src/h264.rs, with       *)
(* h264_reference_pictures_from_dpb of lib.rs.  Words that carry parameters    *)
(* of the sequence are left blank; those that name pictures are not.           *)

CONSTANTS
  Requests,     \* the slices to build for, see MCVideo
  MaxReferences \* AVD_H264_MAX_REFERENCES

VARIABLES dec, stream, section

streamVars == <<dec, stream, section>>

StreamInit == dec \in Requests /\ stream = <<>> /\ section = "header"

(* The table holds the pictures of the valid entries that are found, without  *)
(* the holes of the others.                                                   *)
Table(d) == SelectSeq(d.dpb, LAMBDA e : e.valid /\ e.found)

Active(n) == IF n < MaxReferences THEN n ELSE MaxReferences
Take(s, n) == SubSeq(s, 1, IF n < Len(s) THEN n ELSE Len(s))

(* Mutant: entries that are not valid are kept. *)
ExplicitAll(d, list, n) == SelectSeq(Take(list, n), LAMBDA i : i < Len(d.dpb))

(* explicit_reference_indices: indices into the decoded picture buffer.       *)
ExplicitIndices(d, list, n) ==
  SelectSeq(Take(list, n), LAMBDA i : i < Len(d.dpb) /\ d.dpb[i + 1].valid)

Indices(d) == [i \in 1..Len(Table(d)) |-> i - 1]
Poc(d, i) == Table(d)[i + 1].poc

(* sort_reference_indices_by_poc: every later index is compared with the one  *)
(* in place and swapped in.                                                   *)
Pairs(n) == FlattenSeq([i \in 1..n |-> [k \in 1..(n - i) |-> <<i, i + k>>]])
SortByPoc(d, s, ascending) ==
  FoldLeft(LAMBDA t, p :
             IF (ascending /\ Poc(d, t[p[2]]) < Poc(d, t[p[1]])) \/ (~ascending /\ Poc(d, t[p[2]]) > Poc(d, t[p[1]]))
             THEN [t EXCEPT ![p[1]] = t[p[2]], ![p[2]] = t[p[1]]] ELSE t,
           s, Pairs(Len(s)))

Before(d) == SortByPoc(d, SelectSeq(Indices(d), LAMBDA i : Poc(d, i) < d.current), FALSE)
AfterPics(d) == SortByPoc(d, SelectSeq(Indices(d), LAMBDA i : Poc(d, i) >= d.current), TRUE)
Swapped(s) == [s EXCEPT ![1] = s[2], ![2] = s[1]]

(* Mutant: equal lists are left equal. *)
PlanNoSwap(d) ==
  IF d.explicit
  THEN <<ExplicitIndices(d, d.list0, d.n0), IF d.kind = "B" THEN ExplicitIndices(d, d.list1, d.n1) ELSE <<>>>>
  ELSE IF d.kind = "P" THEN <<Take(Indices(d), Active(d.n0)), <<>>>>
  ELSE IF d.kind = "B" THEN <<Take(Before(d) \o AfterPics(d), Active(d.n0)), Take(AfterPics(d) \o Before(d), Active(d.n1))>>
  ELSE <<<<>>, <<>>>>

(* ReferencePlan::build: the two lists of table indices. *)
RefLists(d) ==
  LET l0 == Before(d) \o AfterPics(d)
      l1 == AfterPics(d) \o Before(d)
  IN  IF d.explicit
      THEN <<ExplicitIndices(d, d.list0, d.n0), IF d.kind = "B" THEN ExplicitIndices(d, d.list1, d.n1) ELSE <<>>>>
      ELSE CASE d.kind = "P" -> <<Take(Indices(d), Active(d.n0)), <<>>>>
             [] d.kind = "B" -> <<Take(l0, Active(d.n0)),
                                  Take(IF l0 = l1 /\ Len(l1) > 1 THEN Swapped(l1) ELSE l1, Active(d.n1))>>
             [] OTHER -> <<<<>>, <<>>>>

Word(cmd, list, at, value) == [cmd |-> cmd, list |-> list, at |-> at, value |-> value]
Blank(n) == [i \in 1..n |-> Word("parameter", 0, 0, 0)]
None == [valid |-> FALSE, found |-> FALSE, poc |-> 0]

Emit(words, next) == stream' = stream \o words /\ section' = next /\ UNCHANGED dec

HeaderWords == section = "header" /\ Emit(Blank(31), IF dec.idr THEN "slice" ELSE "refs")

(* stream_refs: a header and four addresses for each picture of the table.    *)
ReferenceWords ==
  /\ section = "refs"
  /\ Emit(Blank(7) \o FlattenSeq([i \in 1..Len(Take(Table(dec), 16)) |->
            <<Word("reference", 0, i - 1, Table(dec)[i])>> \o Blank(4)]), "slice")

SliceWords == section = "slice" /\ Emit(Blank(7), IF dec.kind = "I" THEN "end" ELSE "lists")

ListWords ==
  /\ section = "lists"
  /\ LET lists == RefLists(dec)
     IN  Emit([i \in 1..Len(lists[1]) |-> Word("list", 0, (i - 1) % 16, lists[1][i] % 16)]
              \o [i \in 1..Len(lists[2]) |-> Word("list", 1, (i - 1) % 16, lists[2][i] % 16)], "weights")

(* stream_weights; the weights of every active index differ from the default. *)
WeightWords ==
  /\ section = "weights"
  /\ LET list(l, n) == FlattenSeq([i \in 1..n |-> <<Word("weight", l, i - 1, 0)>> \o Blank(5)])
     IN  Emit(Blank(1) \o IF ~dec.weighted THEN <<>>
                          ELSE list(0, dec.n0) \o IF dec.kind = "B" THEN list(1, dec.n1) ELSE <<>>, "end")

(* Mutant: the co-located picture is taken from list 0. *)
EndFromList0 ==
  /\ section = "end"
  /\ LET l == RefLists(dec)[1]
         e == IF l = <<>> \/ l[1] >= Len(dec.dpb) THEN None ELSE dec.dpb[l[1] + 1]
     IN  Emit(Blank(IF dec.first THEN 3 ELSE 1)
              \o (IF dec.kind = "B" THEN <<Word("colocated", 1, 0, IF e.valid /\ e.found THEN e ELSE None)>> ELSE <<>>)
              \o Blank(1), "done")

(* The co-located picture is looked up in the picture buffer by list 1's      *)
(* first index.                                                               *)
EndWords ==
  /\ section = "end"
  /\ LET l == RefLists(dec)[2]
         e == IF l = <<>> \/ l[1] >= Len(dec.dpb) THEN None ELSE dec.dpb[l[1] + 1]
     IN  Emit(Blank(IF dec.first THEN 3 ELSE 1)
              \o (IF dec.kind = "B" THEN <<Word("colocated", 1, 0, IF e.valid /\ e.found THEN e ELSE None)>> ELSE <<>>)
              \o Blank(1), "done")

StreamNext == HeaderWords \/ ReferenceWords \/ SliceWords \/ ListWords \/ WeightWords \/ EndWords
StreamSpec == StreamInit /\ [][StreamNext]_streamVars

------------------------------------------------------------------------------
Command(cmd, list) == SelectSeq(stream, LAMBDA w : w.cmd = cmd /\ w.list = list)
Nearness(d, i) == IF Poc(d, i) < d.current THEN d.current - Poc(d, i) ELSE Poc(d, i) - d.current
Earlier(d, i) == Poc(d, i) < d.current
Precedes(d, i, j, pastFirst) ==
  IF Earlier(d, i) = Earlier(d, j) THEN Nearness(d, i) < Nearness(d, j) ELSE Earlier(d, i) = pastFirst
Ordered(d, l, pastFirst) == \A i, j \in DOMAIN l : i < j => Precedes(d, l[i], l[j], pastFirst)

(* The lists of a B slice go from the nearest picture outwards, the past      *)
(* first in one and the future first in the other, and differ when there are  *)
(* two pictures: the order H.264 gives them when a stream does not say.       *)
ListsOrdered ==
  section = "lists" /\ ~dec.explicit /\ dec.kind = "B" =>
    LET l == RefLists(dec)
        n == Len(Table(dec))
        onesided == Before(dec) = <<>> \/ AfterPics(dec) = <<>>
    IN  /\ Ordered(dec, l[1], TRUE)
        /\ ~onesided => Ordered(dec, l[2], FALSE)
        /\ n > 1 /\ dec.n0 = n /\ dec.n1 = n => l[1] # l[2]

Dense(d) == \A i, j \in DOMAIN d.dpb : (i < j /\ d.dpb[j].valid) => d.dpb[i].valid /\ d.dpb[i].found
AllFound(d) == \A i \in DOMAIN d.dpb : d.dpb[i].valid => d.dpb[i].found

(* With no hole in the picture buffer, each list command names a reference    *)
(* header that stands earlier in the stream.                                  *)
ListsNameReferences ==
  section = "done" /\ Dense(dec) /\ AllFound(dec) /\ ~(dec.idr /\ dec.kind # "I") =>
    \A i \in DOMAIN stream : stream[i].cmd = "list" =>
      \E j \in 1..(i - 1) : stream[j].cmd = "reference" /\ stream[j].at = stream[i].value

(* The picture whose motion a B slice borrows is the first of list 1, as the  *)
(* table has it.                                                              *)
ColocatedIsFirst ==
  section = "done" /\ dec.kind = "B" /\ ~dec.idr /\ Dense(dec) /\ AllFound(dec) /\ Command("list", 1) # <<>> =>
    Command("colocated", 1)[1].value =
      SelectSeq(Command("reference", 0), LAMBDA w : w.at = Command("list", 1)[1].value)[1].value

(* The slice the decoder is told to decode is the one in the stream: its data, *)
(* its reference lists and the picture whose motion it borrows.                *)
SliceIsMeant ==
  SliceDataFound /\ OnlyFittingHeaders /\ ListsOrdered /\ ListsNameReferences /\ ColocatedIsFirst

=============================================================================
