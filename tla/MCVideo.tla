------------------------------- MODULE MCVideo --------------------------------
(* Small instances of the video decoder's parts for TLC.  The session         *)
(* bookkeeping, the reference pictures, the pure computations and the         *)
(* firmware share no variable: one is stepped at a time.                      *)
EXTENDS AvdDecode, AvdReferences, AvdLayout, AvdSubmission, AvdFirmware

VARIABLE part

Followers == {<<>>, <<9>>, <<0, 0>>}

(* Entries: not valid, valid and lost, valid and found. *)
Kinds == {[valid |-> FALSE, found |-> FALSE], [valid |-> TRUE, found |-> FALSE], [valid |-> TRUE, found |-> TRUE]}
Buffers == UNION {{[i \in 1..n |-> [valid |-> k[i].valid, found |-> k[i].found, poc |-> p[i]]] :
                     k \in [1..n -> Kinds], p \in {q \in [1..n -> {1, 3, 4}] : \A i, j \in 1..n : i # j => q[i] # q[j]}} :
                  n \in {0, 2, 3}}
Lists == {<<0>>, <<1, 0>>, <<2, 3, 1>>}
Slice(kind, idr, dpb, explicit, l0, l1, n0, n1) ==
  [kind |-> kind, idr |-> idr, dpb |-> dpb, current |-> 3, explicit |-> explicit, list0 |-> l0, list1 |-> l1,
   n0 |-> n0, n1 |-> n1, weighted |-> n0 = 1, first |-> n1 = 1]
SmallRequests ==
  {Slice("I", idr, b, FALSE, <<>>, <<>>, 1, 1) : idr \in BOOLEAN, b \in {<<>>}}
  \cup {Slice("P", FALSE, b, FALSE, <<>>, <<>>, n, 1) : b \in Buffers, n \in 1..3}
  \cup {Slice("B", FALSE, b, FALSE, <<>>, <<>>, n0, n1) : b \in Buffers, n0 \in {2, 3}, n1 \in 1..3}
  \cup {Slice(k, FALSE, b, TRUE, l0, l1, 2, 2) : k \in {"P", "B"}, b \in Buffers, l0, l1 \in Lists}
FullRequest ==
  Slice("B", FALSE, [i \in 1..6 |-> [valid |-> TRUE, found |-> TRUE, poc |-> (i * 5) % 7]], FALSE, <<>>, <<>>, 6, 6)
SliceRequests == SmallRequests \cup {FullRequest}

CommonSizes == {<<128, 96>>, <<176, 144>>, <<640, 480>>, <<1280, 720>>, <<720, 1280>>,
                <<1920, 1088>>, <<1088, 1920>>, <<3840, 2160>>, <<4096, 2304>>}

Start(p) ==
  /\ part = p
  /\ IF p = "pic" THEN PicInit ELSE /\ geo = 0 /\ mem = 0 /\ row = 0 /\ plane = "none"
  /\ IF p = "slice" THEN SliceInit ELSE unit = 0 /\ offset = 0 /\ rbspRead = 0 /\ zeroCount = 0 /\ located = "reading"
  /\ IF p = "stream" THEN StreamInit ELSE dec = FullRequest /\ stream = <<>> /\ section = "header"
  /\ IF p = "fw" THEN FwInit ELSE FwInit /\ chip = "v2"
  /\ AvdInit /\ RefInit /\ SpaceInit

Init == \E p \in {"decode", "refs", "pic", "slice", "stream", "space", "fw"} : Start(p)

Next ==
  \/ part = "decode" /\ AvdNext /\ UNCHANGED <<part, refVars, picVars, sliceVars, streamVars, spaceVars, avdFwVars>>
  \/ part = "refs" /\ RefNext /\ UNCHANGED <<part, avdVars, picVars, sliceVars, streamVars, spaceVars, avdFwVars>>
  \/ part = "pic" /\ PicNext /\ UNCHANGED <<part, avdVars, refVars, sliceVars, streamVars, spaceVars, avdFwVars>>
  \/ part = "slice" /\ SliceNext /\ UNCHANGED <<part, avdVars, refVars, picVars, streamVars, spaceVars, avdFwVars>>
  \/ part = "stream" /\ StreamNext /\ UNCHANGED <<part, avdVars, refVars, picVars, sliceVars, spaceVars, avdFwVars>>
  \/ part = "space" /\ SpaceNext /\ UNCHANGED <<part, avdVars, refVars, picVars, sliceVars, streamVars, avdFwVars>>
  \/ part = "fw" /\ FwNext /\ UNCHANGED <<part, avdVars, refVars, picVars, sliceVars, streamVars, spaceVars>>

vars == <<part, avdVars, refVars, picVars, sliceVars, streamVars, spaceVars, avdFwVars>>
Spec == Init /\ [][Next]_vars
=============================================================================
