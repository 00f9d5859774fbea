------------------------------- MODULE AvdProofs -------------------------------
(* Proofs about the parts of the video decoder: the sessions and the decode   *)
(* in flight (AvdDecode), for any number of session slots, opened sessions,   *)
(* decodes and faults, and any length of the queue of frames; the pool of     *)
(* reference pictures (AvdReferences), for any table length; and the messages *)
(* of the firmware (AvdFirmware).                                             *)
EXTENDS AvdDecode, AvdReferences, AvdFirmware, Integers, SequenceTheorems, FiniteSetTheorems, WellFoundedInduction, TLAPS

------------------------------------------------------------------------------
(* The inductive invariant, in the parts the actions disturb.                 *)
Sessions == [active : BOOLEAN, quarantined : BOOLEAN, owner : Nat, work : Nat, front : BOOLEAN]
Decodes  == [stream : Streams, owner : Nat, id : Nat, phase : {"video", "post"}, gen : Nat]
Frames   == [stream : Streams, owner : Nat, id : Nat]
Jobs     == [id : Nat, work : Nat, stage : {"video", "post"}]
Kinds    == {"create", "destroy", "submit", "dequeue"}

SessTypeOK == sess \in [Streams -> Sessions]
QueueTypeOK == /\ completed \in Seq(Frames)
               /\ mbox \in Seq({"video", "post", "error"})
               /\ owners \in Seq(Streams \cup {0})
PlainTypeOK ==
  /\ inflight \in SUBSET Decodes /\ drained \in SUBSET Decodes
  /\ \A d, e \in inflight : d = e
  /\ irqDone \in BOOLEAN /\ recovery \in BOOLEAN /\ masked \in BOOLEAN
  /\ job \in SUBSET Jobs
  /\ gen \in Nat /\ timers \in SUBSET Nat /\ expired \in SUBSET Nat
  /\ ids \in Nat
  /\ apc = "idle" \/ (aop.s \in Streams /\ aop.kind \in Kinds)
AvdTypeOK == SessTypeOK /\ QueueTypeOK /\ PlainTypeOK

(* Where the thread is says what its operation is. *)
ThreadOK ==
  /\ apc \in {"relinquish", "retire", "retireFailed"} => aop.kind = "destroy"
  /\ apc \in {"drain", "output", "work"} => aop.kind # "destroy"
  /\ apc \in {"map", "start"} => aop.kind = "submit"

Closing(s) == aop.kind = "destroy" /\ s = aop.s

SessionsOK ==
  /\ \A s \in Streams : ~sess[s].active /\ ~sess[s].quarantined => sess[s].work = 0
  /\ \A s \in Streams : sess[s].quarantined /\ ~sess[s].active =>
       recovery \/ apc \in {"reset", "quarantine"} \/ (Closing(s) /\ apc \in {"recover", "retire"})
  /\ \A s \in Streams : sess[s].front =>
       sess[s].active \/ (Closing(s) /\ apc \in {"recover", "reset", "quarantine", "retire", "retireFailed"})
  /\ apc \in {"recover", "reset", "quarantine", "retire", "retireFailed"} /\ aop.kind = "destroy" => ~sess[aop.s].active

(* What the decoder works on belongs to the pending decode, unless a recovery *)
(* is due; a message of its end is the last of it.                            *)
JobsOK ==
  /\ DecoderOwnsMemory
  /\ \A j \in job : j.work # 0
  /\ job = {} \/ recovery \/ apc = "reset" \/ \A j \in job : \E d \in inflight : sess[d.stream].work = j.work
  /\ irqDone => job = {}
  /\ apc \in {"quarantine", "map", "start"} => job = {}
  /\ apc = "start" => sess[aop.s].work # 0
  /\ \A i \in DOMAIN mbox : mbox[i] = "post" => job = {} /\ apc \notin {"map", "start"}
  /\ apc = "retire" => \A j \in job : \E t \in Streams : t # aop.s /\ sess[t].work = j.work

OwnersOK == \A i \in DOMAIN owners : owners[i] # 0 => sess[owners[i]].active /\ sess[owners[i]].owner = i

Held(f) == sess[f.stream].owner = f.owner /\ Usable(f.stream)
Listed(q, top) == /\ \A i \in DOMAIN q : Held(q[i]) /\ q[i].id <= top
                  /\ \A i, j \in DOMAIN q : i < j /\ q[i].stream = q[j].stream => q[i].id < q[j].id
FramesOK ==
  /\ Listed(completed, ids)
  /\ \A d \in inflight \cup drained : /\ Held(d) /\ d.id <= ids
                                      /\ \A i \in DOMAIN completed : completed[i].id < d.id
  /\ drained # {} => apc = "output"
  /\ apc = "output" => inflight = {}

PendingOK ==
  /\ CompletionHasDecode
  /\ PendingIsHeard
  /\ apc \in {"map", "start"} /\ masked => recovery

TimersOK ==
  /\ \A g \in timers \cup expired : g <= gen
  /\ gen \in timers \cup expired => \A d \in inflight : d.gen = gen

AvdInv == AvdTypeOK /\ ThreadOK /\ SessionsOK /\ JobsOK /\ OwnersOK /\ FramesOK /\ PendingOK /\ TimersOK

------------------------------------------------------------------------------
(* A set of numbers up to n that is not empty has a first one. *)
LEMMA LeastOf ==
  ASSUME NEW n \in Nat, NEW I \in SUBSET (0 .. n), I # {}
  PROVE  \E k \in I : \A j \in I : k <= j
<1> DEFINE R == OpToRel(<, Nat)
<1>1. IsWellFoundedOn(R, Nat)
  BY NatLessThanWellFounded
<1>2. I \subseteq Nat
  OBVIOUS
<1>3. \A x, y \in Nat : <<y, x>> \in R <=> y < x
  BY DEF OpToRel
<1> HIDE DEF R
<1>4. PICK k \in I : \A j \in I : <<j, k>> \notin R
  BY <1>1, <1>2, WFMin
<1>5. ASSUME NEW j \in I PROVE k <= j
  <2>1. j \in Nat /\ k \in Nat /\ ~(j < k)
    BY <1>2, <1>3, <1>4
  <2>2. QED
    BY <2>1
<1>6. QED
  BY <1>5

(* r is q without some of its members, in the same order. *)
Thinned(r, q) ==
  /\ r \in Seq(Frames)
  /\ \E h \in [1 .. Len(r) -> 1 .. Len(q)] :
       /\ \A i, j \in 1 .. Len(r) : i < j => h[i] < h[j]
       /\ \A i \in 1 .. Len(r) : r[i] = q[h[i]]

(* One step of retain, and the whole of it on the first n frames. *)
Keep(s, q, i, F) == IF i = 0 THEN <<>> ELSE IF q[i].stream # s THEN Append(F[i-1], q[i]) ELSE F[i-1]
Keeps(s, q, n, F) == F = [i \in 0 .. n |-> Keep(s, q, i, F)]

LEMMA KeepsExists ==
  ASSUME NEW s, NEW q, NEW n \in Nat
  PROVE  \E F : Keeps(s, q, n, F)
<1> DEFINE Bad == {m \in 0 .. n : ~\E F : Keeps(s, q, m, F)}
<1>1. SUFFICES ASSUME Bad # {} PROVE FALSE
  OBVIOUS
<1>2. PICK m \in Bad : \A j \in Bad : m <= j
  BY <1>1, LeastOf
<1>3. m # 0
  <2>1. ASSUME m = 0 PROVE \E F : Keeps(s, q, m, F)
    <3>1. Keeps(s, q, m, [i \in 0 .. 0 |-> <<>>])
      BY <2>1 DEF Keeps, Keep
    <3>2. QED
      BY <3>1
  <2>2. QED
    BY <2>1
<1>4. m \in Nat /\ m - 1 \in 0 .. n /\ m - 1 \notin Bad
  BY <1>2, <1>3
<1>5. PICK F : Keeps(s, q, m - 1, F)
  BY <1>4
<1> DEFINE G == [i \in 0 .. m |-> IF i = m THEN Keep(s, q, m, F) ELSE F[i]]
<1>6. ASSUME NEW i \in 0 .. m PROVE G[i] = Keep(s, q, i, G)
  <2>1. CASE i = m
    BY <1>3, <1>4, <2>1 DEF Keep
  <2>2. CASE i # m
    <3>1. i \in 0 .. m - 1 /\ G[i] = F[i] /\ F[i] = Keep(s, q, i, F)
      BY <1>4, <1>5, <2>2 DEF Keeps
    <3>2. i # 0 => G[i - 1] = F[i - 1]
      BY <1>4, <2>2
    <3>3. QED
      BY <3>1, <3>2 DEF Keep
  <2>3. QED
    BY <2>1, <2>2
<1>7. Keeps(s, q, m, G)
  BY <1>6 DEF Keeps
<1>8. QED
  BY <1>7

KeptWell(s, q, m, r) ==
  /\ r \in Seq(Frames)
  /\ \E h \in [1 .. Len(r) -> 1 .. m] :
       /\ \A i, j \in 1 .. Len(r) : i < j => h[i] < h[j]
       /\ \A i \in 1 .. Len(r) : r[i] = q[h[i]]
  /\ \A i \in 1 .. Len(r) : r[i].stream # s

LEMMA OfOthersThins ==
  ASSUME NEW s, NEW q \in Seq(Frames)
  PROVE  /\ Thinned(OfOthers(s, q), q)
         /\ \A i \in DOMAIN OfOthers(s, q) : OfOthers(s, q)[i].stream # s
<1> DEFINE n == Len(q)
           K == CHOOSE F : Keeps(s, q, n, F)
<1>1. n \in Nat /\ DOMAIN q = 1 .. n /\ \A i \in 1 .. n : q[i] \in Frames
  BY LenProperties, ElementOfSeq
<1>2. OfOthers(s, q) = K[n]
  BY DEF OfOthers, Keeps, Keep
<1>3. Keeps(s, q, n, K)
  BY <1>1, KeepsExists
<1> HIDE DEF K
<1> DEFINE Bad == {m \in 0 .. n : ~KeptWell(s, q, m, K[m])}
<1>4. Bad = {}
  <2>1. SUFFICES ASSUME Bad # {} PROVE FALSE
    OBVIOUS
  <2>2. PICK m \in Bad : \A j \in Bad : m <= j
    BY <1>1, <2>1, LeastOf
  <2>3. K[m] = Keep(s, q, m, K)
    BY <1>3, <2>2 DEF Keeps
  <2>4. CASE m = 0
    <3>1. K[m] = <<>>
      BY <2>3, <2>4 DEF Keep
    <3>2. KeptWell(s, q, m, K[m])
      <4>1. Len(K[m]) = 0 /\ K[m] \in Seq(Frames)
        BY <3>1
      <4>2. [i \in 1 .. 0 |-> i] \in [1 .. Len(K[m]) -> 1 .. m]
        BY <2>4, <4>1
      <4>3. QED
        BY <2>4, <4>1, <4>2 DEF KeptWell
    <3>3. QED
      BY <2>2, <3>2
  <2>5. CASE m # 0
    <3>1. m \in 1 .. n /\ m - 1 \in 0 .. n /\ m - 1 \notin Bad
      BY <1>1, <2>2, <2>5
    <3>2. KeptWell(s, q, m - 1, K[m - 1])
      BY <3>1
    <3>3. CASE q[m].stream = s
      <4>1. K[m] = K[m-1]
        BY <2>3, <2>5, <3>3 DEF Keep
      <4>2. PICK h \in [1 .. Len(K[m]) -> 1 .. m - 1] :
                   /\ \A i, j \in 1 .. Len(K[m]) : i < j => h[i] < h[j]
                   /\ \A i \in 1 .. Len(K[m]) : K[m][i] = q[h[i]]
        BY SMTT(20), <3>2, <4>1 DEF KeptWell
      <4>3. h \in [1 .. Len(K[m]) -> 1 .. m]
        BY <3>1
      <4>4. KeptWell(s, q, m, K[m])
        BY <3>2, <4>1, <4>2, <4>3 DEF KeptWell
      <4>5. QED
        BY <2>2, <4>4
    <3>4. CASE q[m].stream # s
      <4> DEFINE r == K[m-1]
                 l == Len(r)
      <4>1. K[m] = Append(r, q[m])
        BY <2>3, <2>5, <3>4 DEF Keep
      <4>2. PICK h \in [1 .. l -> 1 .. m - 1] :
                   /\ \A i, j \in 1 .. l : i < j => h[i] < h[j]
                   /\ \A i \in 1 .. l : r[i] = q[h[i]]
        BY <3>2 DEF KeptWell
      <4>3. r \in Seq(Frames) /\ l \in Nat /\ q[m] \in Frames /\ \A i \in 1 .. l : r[i].stream # s
        BY <1>1, <3>1, <3>2, LenProperties DEF KeptWell
      <4> HIDE DEF r
      <4>4. /\ K[m] \in Seq(Frames) /\ Len(K[m]) = l + 1
            /\ \A i \in 1 .. l : K[m][i] = r[i]
            /\ K[m][l + 1] = q[m]
        BY <4>1, <4>3, AppendProperties
      <4> HIDE DEF l
      <4> DEFINE g == [i \in 1 .. l + 1 |-> IF i = l + 1 THEN m ELSE h[i]]
      <4>5. g \in [1 .. l + 1 -> 1 .. m]
        BY <3>1, <4>2, <4>3
      <4>6. \A i, j \in 1 .. l + 1 : i < j => g[i] < g[j]
        <5>1. SUFFICES ASSUME NEW i \in 1 .. l + 1, NEW j \in 1 .. l + 1, i < j PROVE g[i] < g[j]
          OBVIOUS
        <5>2. i \in 1 .. l /\ g[i] = h[i] /\ h[i] \in 1 .. m - 1
          BY <4>2, <4>3, <5>1
        <5>3. CASE j = l + 1
          BY <3>1, <5>2, <5>3
        <5>4. CASE j # l + 1
          <6>1. j \in 1 .. l /\ g[j] = h[j]
            BY <4>3, <5>4
          <6>2. QED
            BY <4>2, <5>1, <5>2, <6>1
        <5>5. QED
          BY <5>3, <5>4
      <4>7. \A i \in 1 .. l + 1 : K[m][i] = q[g[i]] /\ K[m][i].stream # s
        <5>1. SUFFICES ASSUME NEW i \in 1 .. l + 1 PROVE K[m][i] = q[g[i]] /\ K[m][i].stream # s
          OBVIOUS
        <5>2. CASE i = l + 1
          BY <3>4, <4>4, <5>2
        <5>3. CASE i # l + 1
          <6>1. i \in 1 .. l /\ g[i] = h[i]
            BY <4>3, <5>3
          <6>2. QED
            BY <4>2, <4>3, <4>4, <6>1
        <5>4. QED
          BY <5>2, <5>3
      <4> HIDE DEF g
      <4>8. KeptWell(s, q, m, K[m])
        BY <4>4, <4>5, <4>6, <4>7 DEF KeptWell
      <4>9. QED
        BY <2>2, <4>8
    <3>5. QED
      BY <3>3, <3>4
  <2>6. QED
    BY <2>4, <2>5
<1>5. KeptWell(s, q, n, K[n])
  BY <1>1, <1>4
<1>6. DOMAIN K[n] = 1 .. Len(K[n])
  BY <1>5, LenProperties DEF KeptWell
<1>7. QED
  BY <1>2, <1>5, <1>6 DEF Thinned, KeptWell

LEMMA RemovalThins ==
  ASSUME NEW q \in Seq(Frames), NEW i \in DOMAIN q
  PROVE  Thinned(SubSeq(q, 1, i - 1) \o SubSeq(q, i + 1, Len(q)), q)
<1> DEFINE n == Len(q)
           a == SubSeq(q, 1, i - 1)
           b == SubSeq(q, i + 1, n)
           r == a \o b
           h == [k \in 1 .. n - 1 |-> IF k < i THEN k ELSE k + 1]
<1>1. n \in Nat /\ i \in 1 .. n
  BY LenProperties
<1>2. a \in Seq(Frames) /\ Len(a) = i - 1 /\ \A k \in 1 .. i - 1 : a[k] = q[k]
  BY <1>1, SubSeqProperties
<1>3. b \in Seq(Frames) /\ Len(b) = n - i /\ \A k \in 1 .. n - i : b[k] = q[k + i]
  BY <1>1, SubSeqProperties
<1> HIDE DEF a, b, n
<1>4. r \in Seq(Frames) /\ Len(r) = n - 1
  <2>1. r \in Seq(Frames) /\ Len(r) = Len(a) + Len(b)
    BY <1>2, <1>3, ConcatProperties
  <2>2. QED
    BY <1>1, <1>2, <1>3, <2>1
<1>5. \A k \in 1 .. n - 1 : r[k] = IF k <= i - 1 THEN a[k] ELSE b[k - (i - 1)]
  BY SMTT(20), <1>1, <1>2, <1>3, ConcatProperties
<1> HIDE DEF r
<1>6. h \in [1 .. n - 1 -> 1 .. n] /\ \A j, k \in 1 .. n - 1 : j < k => h[j] < h[k]
  BY <1>1
<1>7. ASSUME NEW k \in 1 .. n - 1 PROVE r[k] = q[h[k]]
  <2>1. CASE k < i
    BY <1>1, <1>2, <1>5, <2>1
  <2>2. CASE k >= i
    <3>1. k - (i - 1) \in 1 .. n - i /\ r[k] = b[k - (i - 1)] /\ (k - (i - 1)) + i = k + 1
      BY <1>1, <1>5, <2>2
    <3>2. r[k] = q[k + 1]
      BY <1>3, <3>1
    <3>3. QED
      BY <1>1, <2>2, <3>2
  <2>3. QED
    BY <1>1, <2>1, <2>2
<1> HIDE DEF h
<1>8. Thinned(r, q)
  BY <1>4, <1>6, <1>7 DEF Thinned, n
<1>9. QED
  BY <1>8 DEF r, a, b, n

(* What a thinned queue keeps of the one it comes from. *)
LEMMA ThinnedListed ==
  ASSUME NEW q \in Seq(Frames), NEW r, Thinned(r, q)
  PROVE  /\ r \in Seq(Frames)
         /\ \A i \in DOMAIN r : \E k \in DOMAIN q : r[i] = q[k]
         /\ \A top : Listed(q, top) => Listed(r, top)
<1>1. PICK h \in [1 .. Len(r) -> 1 .. Len(q)] :
         /\ \A i, j \in 1 .. Len(r) : i < j => h[i] < h[j]
         /\ \A i \in 1 .. Len(r) : r[i] = q[h[i]]
  BY DEF Thinned
<1>2. r \in Seq(Frames) /\ DOMAIN r = 1 .. Len(r) /\ DOMAIN q = 1 .. Len(q)
  BY LenProperties DEF Thinned
<1>3. \A i \in DOMAIN r : h[i] \in DOMAIN q /\ r[i] = q[h[i]]
  BY <1>1, <1>2
<1>4. ASSUME NEW top, Listed(q, top) PROVE Listed(r, top)
  <2>1. \A i \in DOMAIN r : Held(r[i]) /\ r[i].id <= top
    BY <1>3, <1>4 DEF Listed
  <2>2. ASSUME NEW i \in DOMAIN r, NEW j \in DOMAIN r, i < j, r[i].stream = r[j].stream PROVE r[i].id < r[j].id
    <3>1. h[i] < h[j]
      BY <1>1, <1>2, <2>2
    <3>2. QED
      BY <1>3, <1>4, <2>2, <3>1 DEF Listed
  <2>3. QED
    BY <2>1, <2>2 DEF Listed
<1>5. QED
  BY <1>2, <1>3, <1>4

LEMMA DequeueThins ==
  ASSUME AvdTypeOK, Dequeue
  PROVE  Thinned(completed', completed)
<1>1. completed \in Seq(Frames) /\ DOMAIN completed = 1 .. Len(completed) /\ Len(completed) \in Nat
  BY LenProperties DEF AvdTypeOK, QueueTypeOK
<1>2. Thinned(completed, completed)
  <2>1. [i \in 1 .. Len(completed) |-> i] \in [1 .. Len(completed) -> 1 .. Len(completed)]
    OBVIOUS
  <2>2. QED
    BY <1>1, <2>1 DEF Thinned
<1>3. CASE Usable(aop.s) /\ \E i \in DOMAIN completed : completed[i].stream = aop.s
  <2> DEFINE First(i) == /\ completed[i].stream = aop.s
                         /\ \A j \in 1 .. (i - 1) : completed[j].stream # aop.s
             I == {i \in DOMAIN completed : completed[i].stream = aop.s}
             c == CHOOSE i \in DOMAIN completed : First(i)
  <2>1. I \in SUBSET (0 .. Len(completed)) /\ I # {}
    BY <1>1, <1>3
  <2>2. PICK k \in I : \A j \in I : k <= j
    BY <1>1, <2>1, LeastOf
  <2>3. ASSUME NEW j \in 1 .. (k - 1) PROVE completed[j].stream # aop.s
    <3>1. j \in DOMAIN completed /\ ~(k <= j)
      BY <1>1, <2>2
    <3>2. QED
      BY <2>2, <3>1
  <2>4. c \in DOMAIN completed
    BY <2>2, <2>3
  <2>5. completed' = SubSeq(completed, 1, c - 1) \o SubSeq(completed, c + 1, Len(completed))
    BY <1>3 DEF Dequeue
  <2> HIDE DEF c
  <2>6. QED
    BY <1>1, <2>4, <2>5, RemovalThins
<1>4. QED
  BY <1>2, <1>3 DEF Dequeue

------------------------------------------------------------------------------
(* One lemma per action.                                                      *)
(* A cancelled watchdog leaves no timer of the new generation.                *)
LEMMA WatchdogCancelled ==
  ASSUME AvdInv, CancelWatchdog
  PROVE  /\ gen' \in Nat /\ timers' \in SUBSET Nat /\ expired' = expired /\ expired \in SUBSET Nat
         /\ \A g \in timers' \cup expired' : g < gen'
         /\ TimersOK'
<1>1. gen \in Nat /\ timers \in SUBSET Nat /\ expired \in SUBSET Nat
  BY DEF AvdInv, AvdTypeOK, PlainTypeOK
<1>2. gen' = gen + 1 /\ timers' \in SUBSET timers /\ expired' = expired
  BY DEF CancelWatchdog
<1>3. \A g \in timers' \cup expired' : g \in Nat /\ g <= gen
  BY <1>1, <1>2 DEF AvdInv, TimersOK
<1>4. gen' \notin timers' \cup expired' /\ \A g \in timers' \cup expired' : g < gen'
  BY <1>1, <1>2, <1>3
<1>5. QED
  BY <1>1, <1>2, <1>3, <1>4 DEF TimersOK

LEMMA FrameStreams ==
  ASSUME NEW r \in Seq(Frames)
  PROVE  DOMAIN r = 1 .. Len(r) /\ \A i \in DOMAIN r : r[i].stream \in Streams
<1>1. DOMAIN r = 1 .. Len(r) /\ \A i \in DOMAIN r : r[i] \in Frames
  BY LenProperties, ElementOfSeq
<1>2. QED
  BY <1>1 DEF Frames

(* A thinned queue stays in order where the sessions of the frames left in it *)
(* stay as they are.                                                          *)
LEMMA ThinnedFrames ==
  ASSUME AvdInv, Thinned(completed', completed), ids' = ids, NEW A \in SUBSET Streams,
         \A s \in A : /\ sess'[s].owner = sess[s].owner /\ sess'[s].active = sess[s].active
                      /\ sess'[s].quarantined = sess[s].quarantined,
         \A i \in DOMAIN completed' : completed'[i].stream \in A,
         \A d \in inflight' \cup drained' : d \in inflight \cup drained /\ d.stream \in A
  PROVE  /\ completed' \in Seq(Frames)
         /\ Listed(completed, ids)'
         /\ \A d \in inflight' \cup drained' : /\ Held(d)' /\ d.id <= ids'
                                               /\ \A i \in DOMAIN completed' : completed'[i].id < d.id
<1>1. completed \in Seq(Frames)
  BY DEF AvdInv, AvdTypeOK, QueueTypeOK
<1>2. /\ \A top : Listed(completed, top) => Listed(completed', top)
      /\ completed' \in Seq(Frames)
      /\ \A i \in DOMAIN completed' : \E k \in DOMAIN completed : completed'[i] = completed[k]
  BY <1>1, ThinnedListed
<1>3. \A f : f.stream \in A /\ Held(f) => Held(f)'
  BY DEF Held, Usable
<1>4. Listed(completed', ids)
  BY <1>2 DEF AvdInv, FramesOK
<1>5. Listed(completed, ids)'
  BY <1>3, <1>4 DEF Listed
<1>6. ASSUME NEW d \in inflight' \cup drained'
      PROVE  Held(d)' /\ d.id <= ids' /\ \A i \in DOMAIN completed' : completed'[i].id < d.id
  BY <1>2, <1>3 DEF AvdInv, FramesOK
<1>7. QED
  BY <1>2, <1>5, <1>6

LEMMA BeginOpStep ==
  ASSUME AvdInv, NEW kind \in Kinds, NEW s \in Streams, BeginOp(kind, s)
  PROVE  AvdInv'
<1>1. SessTypeOK' /\ QueueTypeOK' /\ OwnersOK' /\ TimersOK'
  BY DEF AvdInv, AvdTypeOK, SessTypeOK, Sessions, QueueTypeOK, Frames, OwnersOK, TimersOK,
         BeginOp, stateVars, hwVars, wdogVars, countVars
<1>2. PlainTypeOK'
  BY DEF AvdInv, AvdTypeOK, PlainTypeOK, Decodes, Jobs, Kinds, BeginOp, stateVars, hwVars,
         wdogVars, countVars
<1>3. ThreadOK'
  BY DEF AvdInv, ThreadOK, BeginOp, stateVars, hwVars, wdogVars, countVars
<1>4. SessionsOK'
  BY DEF AvdInv, SessionsOK, Closing, BeginOp, stateVars, hwVars, wdogVars, countVars
<1>5. JobsOK'
  BY DEF AvdInv, JobsOK, DecoderOwnsMemory, BeginOp, stateVars, hwVars, wdogVars, countVars
<1>6. FramesOK'
  BY DEF AvdInv, FramesOK, Listed, Held, Usable, BeginOp, stateVars, hwVars, wdogVars,
         countVars
<1>7. PendingOK'
  BY DEF AvdInv, PendingOK, CompletionHasDecode, PendingIsHeard, BeginOp, stateVars, hwVars,
         wdogVars, countVars
<1>8. QED
  BY <1>1, <1>2, <1>3, <1>4, <1>5, <1>6, <1>7 DEF AvdInv, AvdTypeOK

LEMMA RelinquishStep ==
  ASSUME AvdInv, Relinquish
  PROVE  AvdInv'
<1> DEFINE s == aop.s
           had == sess[s].active /\ PendingOf(s)
<1>1. /\ s \in Streams /\ aop.kind = "destroy" /\ apc = "relinquish" /\ UNCHANGED <<aop, drained>>
      /\ masked' = (masked \/ had)
      /\ owners' = [i \in DOMAIN owners |-> IF owners[i] = s THEN 0 ELSE owners[i]]
      /\ UNCHANGED <<gen, timers, expired, fw, job, mbox, ids>>
  BY DEF AvdInv, AvdTypeOK, PlainTypeOK, ThreadOK, Relinquish, Return, Goto, wdogVars
<1>2. owners' \in Seq(Streams \cup {0})
  <2>1. owners \in Seq(Streams \cup {0}) /\ DOMAIN owners = 1 .. Len(owners) /\ Len(owners) \in Nat
    BY LenProperties DEF AvdInv, AvdTypeOK, QueueTypeOK
  <2>2. \A i \in 1 .. Len(owners) : owners[i] \in Streams \cup {0}
    BY <2>1, ElementOfSeq
  <2>3. QED
    BY <1>1, <2>1, <2>2, IsASeq
<1>3. CASE ~sess[s].active
  <2>1. /\ UNCHANGED <<sess, inflight, irqDone, completed, recovery>> /\ masked' = masked
        /\ apc' = IF recovery THEN "recover" ELSE "idle"
    <3>1. masked' = masked
      BY <1>1, <1>3 DEF AvdInv, AvdTypeOK, PlainTypeOK
    <3>2. UNCHANGED <<sess, inflight, irqDone, completed, recovery>>
      BY <1>3 DEF Relinquish, stateVars
    <3>3. apc' = IF recovery THEN "recover" ELSE "idle"
      BY <1>3 DEF Relinquish, Return, Goto
    <3>4. QED
      BY <3>1, <3>2, <3>3
  <2>2. AvdTypeOK' /\ ThreadOK' /\ TimersOK'
    BY <1>1, <1>2, <2>1 DEF AvdInv, AvdTypeOK, SessTypeOK, QueueTypeOK, PlainTypeOK, ThreadOK, TimersOK
  <2>3. SessionsOK'
    BY <1>1, <1>3, <2>1 DEF AvdInv, SessionsOK, Closing
  <2>4. JobsOK' /\ PendingOK'
    BY <1>1, <2>1 DEF AvdInv, JobsOK, DecoderOwnsMemory, PendingOK, CompletionHasDecode, PendingIsHeard
  <2>5. OwnersOK'
    BY <1>1, <2>1 DEF AvdInv, OwnersOK
  <2>6. FramesOK'
    BY <1>1, <2>1 DEF AvdInv, FramesOK, Listed, Held, Usable
  <2>7. QED
    BY <2>2, <2>3, <2>4, <2>5, <2>6 DEF AvdInv
<1>4. CASE sess[s].active
  <2>1. /\ sess' = [sess EXCEPT ![s].active = FALSE, ![s].quarantined = TRUE]
        /\ completed' = OfOthers(s, completed) /\ apc' = "recover"
    BY <1>1, <1>4 DEF Relinquish, Goto
  <2>2. IF had THEN inflight' = {} /\ irqDone' = FALSE /\ recovery' = TRUE
               ELSE UNCHANGED <<inflight, irqDone, recovery>>
    BY <1>4 DEF Relinquish, DeferRecovery
  <2>3. sess \in [Streams -> Sessions] /\ completed \in Seq(Frames)
    BY DEF AvdInv, AvdTypeOK, SessTypeOK, QueueTypeOK
  <2>4. /\ sess' \in [Streams -> Sessions]
        /\ \A t \in Streams : /\ sess'[t].work = sess[t].work /\ sess'[t].front = sess[t].front
                              /\ sess'[t].owner = sess[t].owner
                              /\ sess'[t].active = (sess[t].active /\ t # s)
                              /\ sess'[t].quarantined = (sess[t].quarantined \/ t = s)
        /\ \A t \in Streams : t # s => sess'[t] = sess[t]
    BY <1>1, <2>1, <2>3, ZenonT(60) DEF Sessions
  <2>5. /\ Thinned(completed', completed)
        /\ \A i \in DOMAIN completed' : completed'[i].stream # s
    BY <2>1, <2>3, OfOthersThins
  <2>6. AvdTypeOK'
    BY <1>1, <1>2, <2>1, <2>2, <2>4, <2>5, ZenonT(60) DEF AvdInv, AvdTypeOK, SessTypeOK, QueueTypeOK, PlainTypeOK, Thinned
  <2>7. ThreadOK' /\ TimersOK'
    BY <1>1, <2>1, <2>2 DEF AvdInv, ThreadOK, TimersOK
  <2>8. SessionsOK'
    <3>1. ASSUME NEW t \in Streams, ~sess'[t].active, ~sess'[t].quarantined PROVE sess'[t].work = 0
      BY <2>4, <3>1 DEF AvdInv, SessionsOK
    <3>2. ASSUME NEW t \in Streams, sess'[t].quarantined, ~sess'[t].active PROVE recovery' \/ t = s
      BY <1>1, <2>2, <2>4, <3>2 DEF AvdInv, SessionsOK
    <3>3. ASSUME NEW t \in Streams, sess'[t].front PROVE sess'[t].active \/ t = s
      BY <1>1, <2>4, <3>3 DEF AvdInv, SessionsOK
    <3>4. ~sess'[s].active
      BY <1>1, <2>4
    <3>5. QED
      BY <1>1, <2>1, <3>1, <3>2, <3>3, <3>4 DEF SessionsOK, Closing, FreshSession
  <2>9. JobsOK'
    <3>1. DecoderOwnsMemory'
      BY <1>1, <2>4 DEF AvdInv, JobsOK, DecoderOwnsMemory
    <3>2. job' = {} \/ recovery' \/ apc' = "reset" \/ \A j \in job' : \E d \in inflight' : sess'[d.stream].work = j.work
      BY <1>1, <2>2, <2>4 DEF AvdInv, JobsOK, AvdTypeOK, PlainTypeOK, Decodes
    <3>3. QED
      BY <1>1, <2>1, <2>2, <3>1, <3>2 DEF AvdInv, JobsOK
  <2>10. OwnersOK'
    <3>1. ASSUME NEW i \in DOMAIN owners', owners'[i] # 0 PROVE sess'[owners'[i]].active /\ sess'[owners'[i]].owner = i
      <4>1. i \in DOMAIN owners /\ owners[i] # 0 /\ owners'[i] = owners[i] /\ owners[i] # s
        BY <1>1, <3>1
      <4>2. owners[i] \in Streams
        BY <4>1, ElementOfSeq, LenProperties DEF AvdInv, AvdTypeOK, QueueTypeOK
      <4>3. QED
        BY <2>4, <4>1, <4>2 DEF AvdInv, OwnersOK
    <3>2. QED
      BY <3>1 DEF OwnersOK
  <2>11. FramesOK'
    <3> DEFINE A == Streams \ {s}
    <3>1. ASSUME NEW d \in inflight' \cup drained' PROVE d \in inflight \cup drained /\ d.stream \in A
      BY <1>1, <1>4, <2>2, <3>1 DEF AvdInv, AvdTypeOK, PlainTypeOK, Decodes, PendingOf, FramesOK
    <3>2. completed' \in Seq(Frames)
      BY <2>5 DEF Thinned
    <3>3. \A i \in DOMAIN completed' : completed'[i].stream \in A
      BY <2>5, <3>2, FrameStreams
    <3>4. \A t \in A : /\ sess'[t].owner = sess[t].owner /\ sess'[t].active = sess[t].active
                       /\ sess'[t].quarantined = sess[t].quarantined
      BY <2>4
    <3>5. /\ Listed(completed, ids)'
          /\ \A d \in inflight' \cup drained' : /\ Held(d)' /\ d.id <= ids'
                                                /\ \A i \in DOMAIN completed' : completed'[i].id < d.id
      <4>1. A \in SUBSET Streams /\ ids' = ids
        BY <1>1
      <4> HIDE DEF A
      <4>2. QED
        BY <2>5, <3>1, <3>3, <3>4, <4>1, ThinnedFrames
    <3>6. QED
      BY <1>1, <2>1, <2>2, <3>5 DEF AvdInv, FramesOK
  <2>12. PendingOK'
    BY <1>1, <2>1, <2>2 DEF AvdInv, PendingOK, CompletionHasDecode, PendingIsHeard
  <2>13. QED
    BY <2>6, <2>7, <2>8, <2>9, <2>10, <2>11, <2>12 DEF AvdInv
<1>5. QED
  BY <1>3, <1>4

LEMMA TakeReasonStep ==
  ASSUME AvdInv, TakeReason
  PROVE  AvdInv'
<1>0. /\ apc = "recover" /\ recovery' = FALSE /\ UNCHANGED <<sess, inflight, irqDone, completed, masked, job, mbox, aop>>
      /\ recovery => apc' = "reset"
      /\ ~recovery /\ aop.kind = "destroy" => apc' = "retire"
      /\ ~recovery /\ aop.kind # "destroy" => apc' = "drain"
  BY DEF TakeReason, Goto, hwVars
<1>1. SessTypeOK' /\ QueueTypeOK' /\ OwnersOK' /\ TimersOK'
  BY DEF AvdInv, AvdTypeOK, SessTypeOK, Sessions, QueueTypeOK, Frames, OwnersOK, TimersOK,
         TakeReason, hwVars, wdogVars, countVars, Goto
<1>2. PlainTypeOK'
  BY DEF AvdInv, AvdTypeOK, PlainTypeOK, Decodes, Jobs, Kinds, TakeReason, hwVars, wdogVars,
         countVars, Goto
<1>3. ThreadOK'
  BY DEF AvdInv, ThreadOK, TakeReason, hwVars, wdogVars, countVars, Goto
<1>4. SessionsOK'
  BY <1>0 DEF AvdInv, SessionsOK, Closing
<1>5. JobsOK'
  <2>1. CASE recovery
    BY <1>0, <2>1 DEF AvdInv, JobsOK, DecoderOwnsMemory
  <2>2. CASE ~recovery
    <3>1. ASSUME NEW j \in job PROVE \E d \in inflight : sess[d.stream].work = j.work
      BY <1>0, <2>2 DEF AvdInv, JobsOK
    <3>2. ASSUME aop.kind = "destroy", NEW j \in job PROVE \E t \in Streams : t # aop.s /\ sess[t].work = j.work
      <4>1. PICK d \in inflight : sess[d.stream].work = j.work
        BY <3>1
      <4>2. d.stream \in Streams /\ sess[d.stream].active
        BY DEF AvdInv, AvdTypeOK, PlainTypeOK, Decodes, FramesOK, Held, Usable
      <4>3. ~sess[aop.s].active
        BY <1>0, <3>2 DEF AvdInv, SessionsOK
      <4>4. QED
        BY <4>1, <4>2, <4>3
    <3>3. QED
      BY <1>0, <2>2, <3>1, <3>2 DEF AvdInv, JobsOK, DecoderOwnsMemory
  <2>3. QED
    BY <2>1, <2>2
<1>6. FramesOK'
  BY DEF AvdInv, FramesOK, Listed, Held, Usable, TakeReason, hwVars, wdogVars, countVars,
         Goto
<1>7. PendingOK'
  BY <1>0 DEF AvdInv, PendingOK, CompletionHasDecode, PendingIsHeard
<1>8. QED
  BY <1>1, <1>2, <1>3, <1>4, <1>5, <1>6, <1>7 DEF AvdInv, AvdTypeOK

LEMMA RecoverFirmwareStep ==
  ASSUME AvdInv, RecoverFirmware
  PROVE  AvdInv'
<1>1. SessTypeOK' /\ OwnersOK'
  BY DEF AvdInv, AvdTypeOK, SessTypeOK, Sessions, OwnersOK, RecoverFirmware, stateVars,
         countVars, CancelWatchdog, Goto, Rebooted
<1>2. QueueTypeOK'
  BY DEF AvdInv, AvdTypeOK, QueueTypeOK, Frames, RecoverFirmware, stateVars, countVars,
         CancelWatchdog, Goto, Rebooted
<1>3. PlainTypeOK'
  BY WatchdogCancelled DEF AvdInv, AvdTypeOK, PlainTypeOK, RecoverFirmware, Rebooted, Goto, stateVars, countVars
<1>4. ThreadOK'
  BY DEF AvdInv, ThreadOK, RecoverFirmware, stateVars, countVars, CancelWatchdog, Goto,
         Rebooted
<1>5. SessionsOK'
  BY DEF AvdInv, SessionsOK, Closing, RecoverFirmware, stateVars, countVars, CancelWatchdog,
         Goto, Rebooted
<1>6. JobsOK'
  BY DEF AvdInv, JobsOK, DecoderOwnsMemory, RecoverFirmware, stateVars, countVars,
         CancelWatchdog, Goto, Rebooted
<1>7. FramesOK'
  BY DEF AvdInv, FramesOK, Listed, Held, Usable, RecoverFirmware, stateVars, countVars,
         CancelWatchdog, Goto, Rebooted
<1>8. PendingOK'
  BY DEF AvdInv, PendingOK, CompletionHasDecode, PendingIsHeard, RecoverFirmware, stateVars,
         countVars, CancelWatchdog, Goto, Rebooted
<1>9. TimersOK'
  BY WatchdogCancelled DEF RecoverFirmware
<1>10. QED
  BY <1>1, <1>2, <1>3, <1>4, <1>5, <1>6, <1>7, <1>8, <1>9 DEF AvdInv, AvdTypeOK

LEMMA RecoverFailsStep ==
  ASSUME AvdInv, RecoverFails
  PROVE  AvdInv'
<1>1. SessTypeOK' /\ OwnersOK'
  BY DEF AvdInv, AvdTypeOK, SessTypeOK, Sessions, OwnersOK, RecoverFails, CancelWatchdog,
         Return, Goto, BootFails, ResetFails, Fault
<1>2. QueueTypeOK'
  <2>1. mbox' \in {mbox, <<>>} /\ UNCHANGED <<completed, owners>>
    BY DEF RecoverFails, BootFails, ResetFails
  <2>2. mbox' \in Seq({"video", "post", "error"})
    BY <2>1, EmptySeq DEF AvdInv, AvdTypeOK, QueueTypeOK
  <2>3. QED
    BY <2>1, <2>2 DEF AvdInv, AvdTypeOK, QueueTypeOK
<1>3. PlainTypeOK'
  <2>1. /\ masked' \in BOOLEAN /\ job' \in {job, {}} /\ recovery' = TRUE
        /\ UNCHANGED <<inflight, drained, irqDone, ids, aop>>
    BY DEF RecoverFails, BootFails, ResetFails, Goto, Return
  <2>2. gen' \in Nat /\ timers' \in SUBSET Nat /\ expired' \in SUBSET Nat
    BY WatchdogCancelled DEF RecoverFails
  <2>3. QED
    BY <2>1, <2>2 DEF AvdInv, AvdTypeOK, PlainTypeOK, RecoverFails, Goto, Return
<1>4. ThreadOK'
  BY DEF AvdInv, ThreadOK, RecoverFails, CancelWatchdog, Return, Goto, BootFails,
         ResetFails, Fault
<1>5. SessionsOK'
  BY DEF AvdInv, SessionsOK, Closing, RecoverFails, CancelWatchdog, Return, Goto, BootFails,
         ResetFails, Fault
<1>6. JobsOK'
  BY DEF AvdInv, JobsOK, DecoderOwnsMemory, RecoverFails, CancelWatchdog, Return, Goto,
         BootFails, ResetFails, Fault
<1>7. FramesOK'
  BY DEF AvdInv, FramesOK, Listed, Held, Usable, RecoverFails, CancelWatchdog, Return, Goto,
         BootFails, ResetFails, Fault
<1>8. PendingOK'
  BY DEF AvdInv, PendingOK, CompletionHasDecode, PendingIsHeard, RecoverFails,
         CancelWatchdog, Return, Goto, BootFails, ResetFails, Fault
<1>9. TimersOK'
  BY WatchdogCancelled DEF RecoverFails
<1>10. QED
  BY <1>1, <1>2, <1>3, <1>4, <1>5, <1>6, <1>7, <1>8, <1>9 DEF AvdInv, AvdTypeOK

LEMMA QuarantineSessionsStep ==
  ASSUME AvdInv, QuarantineSessions
  PROVE  AvdInv'
<1>1. SessTypeOK'
  BY DEF AvdInv, AvdTypeOK, SessTypeOK, Sessions, QuarantineSessions, hwVars, wdogVars,
         countVars, Goto, FreshSession
<1>2. QueueTypeOK'
  <2>1. completed' = <<>> /\ mbox' = mbox /\ owners' = owners
    BY DEF QuarantineSessions, hwVars, countVars
  <2>2. QED
    BY <2>1, EmptySeq DEF AvdInv, AvdTypeOK, QueueTypeOK
<1>3. PlainTypeOK'
  BY DEF AvdInv, AvdTypeOK, PlainTypeOK, Decodes, Jobs, Kinds, QuarantineSessions, hwVars,
         wdogVars, countVars, Goto, FreshSession
<1>4. ThreadOK'
  BY DEF AvdInv, ThreadOK, QuarantineSessions, hwVars, wdogVars, countVars, Goto,
         FreshSession
<1>5. SessionsOK'
  BY DEF AvdInv, AvdTypeOK, SessionsOK, Closing, SessTypeOK, Sessions, QueueTypeOK, Frames,
         PlainTypeOK, Decodes, Jobs, Kinds, QuarantineSessions, hwVars, wdogVars, countVars,
         Goto, FreshSession
<1>6. JobsOK'
  BY DEF AvdInv, JobsOK, DecoderOwnsMemory, QuarantineSessions, hwVars, wdogVars, countVars,
         Goto, FreshSession
<1>7. OwnersOK'
  <2>1. \A i \in DOMAIN owners : owners[i] \in Streams \cup {0}
    BY ElementOfSeq, LenProperties DEF AvdInv, AvdTypeOK, QueueTypeOK
  <2>2. \A s \in Streams : sess[s].active => sess'[s].active /\ sess'[s].owner = sess[s].owner
    BY DEF QuarantineSessions, FreshSession
  <2>3. owners' = owners
    BY DEF QuarantineSessions, countVars
  <2>4. QED
    BY <2>1, <2>2, <2>3 DEF AvdInv, OwnersOK
<1>8. FramesOK'
  <2>1. completed' = <<>> /\ inflight' = {} /\ drained' = {}
    BY DEF AvdInv, FramesOK, QuarantineSessions, Goto
  <2>2. QED
    BY <2>1 DEF FramesOK, Listed
<1>9. PendingOK'
  BY DEF AvdInv, PendingOK, CompletionHasDecode, PendingIsHeard, QuarantineSessions, hwVars,
         wdogVars, countVars, Goto, FreshSession
<1>10. TimersOK'
  BY DEF AvdInv, TimersOK, QuarantineSessions, hwVars, wdogVars, countVars, Goto,
         FreshSession
<1>11. QED
  BY <1>1, <1>2, <1>3, <1>4, <1>5, <1>6, <1>7, <1>8, <1>9, <1>10 DEF AvdInv, AvdTypeOK

LEMMA DrainNothingStep ==
  ASSUME AvdInv, DrainNothing
  PROVE  AvdInv'
<1>1. SessTypeOK' /\ QueueTypeOK' /\ OwnersOK' /\ TimersOK'
  BY DEF AvdInv, AvdTypeOK, SessTypeOK, Sessions, QueueTypeOK, Frames, OwnersOK, TimersOK,
         DrainNothing, stateVars, hwVars, wdogVars, countVars, Goto
<1>2. PlainTypeOK'
  BY DEF AvdInv, AvdTypeOK, PlainTypeOK, Decodes, Jobs, Kinds, DrainNothing, stateVars,
         hwVars, wdogVars, countVars, Goto
<1>3. ThreadOK'
  BY DEF AvdInv, ThreadOK, DrainNothing, stateVars, hwVars, wdogVars, countVars, Goto
<1>4. SessionsOK'
  BY DEF AvdInv, SessionsOK, Closing, DrainNothing, stateVars, hwVars, wdogVars, countVars,
         Goto
<1>5. JobsOK'
  BY DEF AvdInv, JobsOK, DecoderOwnsMemory, DrainNothing, stateVars, hwVars, wdogVars,
         countVars, Goto
<1>6. FramesOK'
  BY DEF AvdInv, FramesOK, Listed, Held, Usable, DrainNothing, stateVars, hwVars, wdogVars,
         countVars, Goto
<1>7. PendingOK'
  BY DEF AvdInv, PendingOK, CompletionHasDecode, PendingIsHeard, DrainNothing, stateVars,
         hwVars, wdogVars, countVars, Goto
<1>8. QED
  BY <1>1, <1>2, <1>3, <1>4, <1>5, <1>6, <1>7 DEF AvdInv, AvdTypeOK

LEMMA DrainTakeStep ==
  ASSUME AvdInv, DrainTake
  PROVE  AvdInv'
<1>1. SessTypeOK' /\ QueueTypeOK' /\ OwnersOK'
  BY DEF AvdInv, AvdTypeOK, SessTypeOK, Sessions, QueueTypeOK, Frames, OwnersOK, DrainTake,
         hwVars, countVars, CancelWatchdog
<1>2. PlainTypeOK'
  BY WatchdogCancelled DEF AvdInv, AvdTypeOK, PlainTypeOK, DrainTake, hwVars, countVars
<1>3. ThreadOK'
  BY DEF AvdInv, ThreadOK, DrainTake, hwVars, countVars, CancelWatchdog
<1>4. SessionsOK'
  BY DEF AvdInv, SessionsOK, Closing, DrainTake, hwVars, countVars, CancelWatchdog
<1>5. JobsOK'
  BY DEF AvdInv, JobsOK, DecoderOwnsMemory, DrainTake, hwVars, countVars, CancelWatchdog
<1>6. FramesOK'
  BY DEF AvdInv, FramesOK, Listed, Held, Usable, DrainTake, hwVars, countVars,
         CancelWatchdog
<1>7. PendingOK'
  BY DEF AvdInv, PendingOK, CompletionHasDecode, PendingIsHeard, DrainTake, hwVars,
         countVars, CancelWatchdog
<1>8. TimersOK'
  BY WatchdogCancelled DEF DrainTake
<1>9. QED
  BY <1>1, <1>2, <1>3, <1>4, <1>5, <1>6, <1>7, <1>8 DEF AvdInv, AvdTypeOK

LEMMA OutputFailsStep ==
  ASSUME AvdInv, OutputFails
  PROVE  AvdInv'
<1>1. SessTypeOK' /\ QueueTypeOK' /\ OwnersOK' /\ TimersOK'
  BY DEF AvdInv, AvdTypeOK, SessTypeOK, Sessions, QueueTypeOK, Frames, OwnersOK, TimersOK,
         OutputFails, stateVars, hwVars, wdogVars, Fault
<1>2. PlainTypeOK'
  BY DEF AvdInv, AvdTypeOK, PlainTypeOK, Decodes, Jobs, Kinds, OutputFails, stateVars,
         hwVars, wdogVars, Fault
<1>3. ThreadOK'
  BY DEF AvdInv, ThreadOK, OutputFails, stateVars, hwVars, wdogVars, Fault
<1>4. SessionsOK'
  BY DEF AvdInv, SessionsOK, Closing, OutputFails, stateVars, hwVars, wdogVars, Fault
<1>5. JobsOK'
  BY DEF AvdInv, JobsOK, DecoderOwnsMemory, OutputFails, stateVars, hwVars, wdogVars, Fault
<1>6. FramesOK'
  BY DEF AvdInv, FramesOK, Listed, Held, Usable, OutputFails, stateVars, hwVars, wdogVars,
         Fault
<1>7. PendingOK'
  BY DEF AvdInv, PendingOK, CompletionHasDecode, PendingIsHeard, OutputFails, stateVars,
         hwVars, wdogVars, Fault
<1>8. QED
  BY <1>1, <1>2, <1>3, <1>4, <1>5, <1>6, <1>7 DEF AvdInv, AvdTypeOK

LEMMA CommitDecodeStep ==
  ASSUME AvdInv, CommitDecode
  PROVE  AvdInv'
<1>1. SessTypeOK' /\ OwnersOK' /\ TimersOK'
  BY DEF AvdInv, AvdTypeOK, SessTypeOK, Sessions, OwnersOK, TimersOK, CommitDecode, hwVars,
         wdogVars, countVars
<1>2. QueueTypeOK'
  BY DEF AvdInv, AvdTypeOK, QueueTypeOK, Frames, SessTypeOK, Sessions, PlainTypeOK, Decodes,
         Jobs, Kinds, CommitDecode, hwVars, wdogVars, countVars
<1>3. PlainTypeOK'
  BY DEF AvdInv, AvdTypeOK, PlainTypeOK, Decodes, Jobs, Kinds, CommitDecode, hwVars,
         wdogVars, countVars
<1>4. ThreadOK'
  BY DEF AvdInv, ThreadOK, CommitDecode, hwVars, wdogVars, countVars
<1>5. SessionsOK'
  BY DEF AvdInv, SessionsOK, Closing, CommitDecode, hwVars, wdogVars, countVars
<1>6. JobsOK'
  BY DEF AvdInv, JobsOK, DecoderOwnsMemory, CommitDecode, hwVars, wdogVars, countVars
<1>7. FramesOK'
  BY DEF AvdInv, FramesOK, Listed, Held, Usable, CommitDecode, hwVars, wdogVars, countVars
<1>8. PendingOK'
  BY DEF AvdInv, PendingOK, CompletionHasDecode, PendingIsHeard, CommitDecode, hwVars,
         wdogVars, countVars
<1>9. QED
  BY <1>1, <1>2, <1>3, <1>4, <1>5, <1>6, <1>7, <1>8 DEF AvdInv, AvdTypeOK

LEMMA AllocateSessionStep ==
  ASSUME AvdInv, AllocateSession
  PROVE  AvdInv'
<1>1. PICK s \in Streams :
         /\ ~sess[s].active /\ ~sess[s].quarantined
         /\ sess' = [sess EXCEPT ![s] = [FreshSession EXCEPT !.active = TRUE, !.owner = Len(owners) + 1]]
         /\ completed' = OfOthers(s, completed)
         /\ owners' = Append(owners, s)
  BY DEF AllocateSession
<1>2. /\ apc = "work" /\ apc' = "idle"
      /\ UNCHANGED <<aop, drained, inflight, irqDone, recovery, gen, timers, expired, masked, job, mbox, ids>>
  BY DEF AllocateSession, Return, wdogVars, hwVars
<1>3. /\ owners \in Seq(Streams \cup {0}) /\ Len(owners) \in Nat /\ DOMAIN owners = 1 .. Len(owners)
      /\ completed \in Seq(Frames) /\ sess \in [Streams -> Sessions]
  BY LenProperties DEF AvdInv, AvdTypeOK, QueueTypeOK, SessTypeOK
<1>4. /\ sess' \in [Streams -> Sessions]
      /\ sess'[s].active /\ ~sess'[s].quarantined /\ sess'[s].owner = Len(owners) + 1 /\ ~sess'[s].front
      /\ \A t \in Streams : t # s => sess'[t] = sess[t]
  <2> DEFINE w == [FreshSession EXCEPT !.active = TRUE, !.owner = Len(owners) + 1]
  <2>1. /\ w \in Sessions /\ w.active /\ ~w.quarantined /\ w.owner = Len(owners) + 1 /\ ~w.front
    <3> DEFINE v == [FreshSession EXCEPT !.active = TRUE]
    <3>1. v \in Sessions /\ v.active /\ ~v.quarantined /\ ~v.front /\ w = [v EXCEPT !.owner = Len(owners) + 1]
      BY DEF FreshSession, Sessions
    <3> HIDE DEF v, w
    <3>2. Len(owners) + 1 \in Nat
      BY <1>3
    <3>3. QED
      BY <3>1, <3>2 DEF Sessions
  <2>2. sess' = [sess EXCEPT ![s] = w]
    BY <1>1
  <2> HIDE DEF w
  <2>3. QED
    BY <1>3, <2>1, <2>2
<1>5. sess[s].work = 0
  BY <1>1 DEF AvdInv, SessionsOK
<1>6. Thinned(completed', completed) /\ \A i \in DOMAIN completed' : completed'[i].stream # s
  BY <1>1, <1>3, OfOthersThins
<1>7. \A d \in inflight \cup drained : d.stream \in Streams /\ d.stream # s
  BY <1>1 DEF AvdInv, AvdTypeOK, PlainTypeOK, Decodes, FramesOK, Held, Usable
<1>8. /\ owners' \in Seq(Streams \cup {0}) /\ DOMAIN owners' = 1 .. Len(owners) + 1
      /\ owners'[Len(owners) + 1] = s
      /\ \A i \in DOMAIN owners : owners'[i] = owners[i]
  BY <1>1, <1>3, AppendProperties
<1>9. AvdTypeOK'
  BY <1>2, <1>4, <1>6, <1>8 DEF AvdInv, AvdTypeOK, SessTypeOK, QueueTypeOK, PlainTypeOK, Thinned
<1>10. ThreadOK' /\ TimersOK' /\ PendingOK'
  BY <1>2 DEF AvdInv, ThreadOK, TimersOK, PendingOK, CompletionHasDecode, PendingIsHeard
<1>11. SessionsOK'
  BY <1>2, <1>4 DEF AvdInv, SessionsOK, Closing, FreshSession
<1>12. JobsOK'
  <2>1. \A j \in job : \E t \in Streams : t # s /\ sess[t].work = j.work
    BY <1>5 DEF AvdInv, JobsOK, DecoderOwnsMemory
  <2>2. DecoderOwnsMemory'
    BY <1>2, <1>4, <2>1 DEF DecoderOwnsMemory
  <2>3. \A d \in inflight : sess'[d.stream] = sess[d.stream]
    BY <1>4, <1>7
  <2>4. QED
    BY <1>2, <2>2, <2>3 DEF AvdInv, JobsOK
<1>13. OwnersOK'
  <2>1. ASSUME NEW i \in DOMAIN owners', owners'[i] # 0 PROVE sess'[owners'[i]].active /\ sess'[owners'[i]].owner = i
    <3>1. CASE i = Len(owners) + 1
      BY <1>4, <1>8, <3>1
    <3>2. CASE i # Len(owners) + 1
      <4>1. i \in DOMAIN owners /\ owners'[i] = owners[i]
        BY <1>3, <1>8, <3>2
      <4>2. owners[i] \in Streams /\ sess[owners[i]].active /\ sess[owners[i]].owner = i
        BY <1>3, <2>1, <4>1, ElementOfSeq DEF AvdInv, OwnersOK
      <4>3. QED
        BY <1>1, <1>4, <4>1, <4>2
    <3>3. QED
      BY <3>1, <3>2
  <2>2. QED
    BY <2>1 DEF OwnersOK
<1>14. FramesOK'
  <2> DEFINE A == Streams \ {s}
  <2>1. completed' \in Seq(Frames)
    BY <1>6 DEF Thinned
  <2>2. \A i \in DOMAIN completed' : completed'[i].stream \in A
    BY <1>6, <2>1, FrameStreams
  <2>3. \A t \in A : /\ sess'[t].owner = sess[t].owner /\ sess'[t].active = sess[t].active
                     /\ sess'[t].quarantined = sess[t].quarantined
    BY <1>4
  <2>4. A \in SUBSET Streams /\ ids' = ids /\ \A d \in inflight' \cup drained' : d \in inflight \cup drained /\ d.stream \in A
    BY <1>2, <1>7
  <2> HIDE DEF A
  <2>5. /\ Listed(completed, ids)'
        /\ \A d \in inflight' \cup drained' : /\ Held(d)' /\ d.id <= ids'
                                              /\ \A i \in DOMAIN completed' : completed'[i].id < d.id
    BY <1>6, <2>2, <2>3, <2>4, ThinnedFrames
  <2>6. QED
    BY <1>2, <2>5 DEF AvdInv, FramesOK
<1>15. QED
  BY <1>9, <1>10, <1>11, <1>12, <1>13, <1>14 DEF AvdInv

LEMMA NoSessionStep ==
  ASSUME AvdInv, NoSession
  PROVE  AvdInv'
<1>1. SessTypeOK' /\ QueueTypeOK' /\ OwnersOK' /\ TimersOK'
  BY DEF AvdInv, AvdTypeOK, SessTypeOK, Sessions, QueueTypeOK, Frames, OwnersOK, TimersOK,
         NoSession, stateVars, hwVars, wdogVars, countVars, Return
<1>2. PlainTypeOK'
  BY DEF AvdInv, AvdTypeOK, PlainTypeOK, Decodes, Jobs, Kinds, NoSession, stateVars, hwVars,
         wdogVars, countVars, Return
<1>3. ThreadOK'
  BY DEF AvdInv, ThreadOK, NoSession, stateVars, hwVars, wdogVars, countVars, Return
<1>4. SessionsOK'
  BY DEF AvdInv, SessionsOK, Closing, NoSession, stateVars, hwVars, wdogVars, countVars,
         Return
<1>5. JobsOK'
  BY DEF AvdInv, JobsOK, DecoderOwnsMemory, NoSession, stateVars, hwVars, wdogVars,
         countVars, Return
<1>6. FramesOK'
  BY DEF AvdInv, FramesOK, Listed, Held, Usable, NoSession, stateVars, hwVars, wdogVars,
         countVars, Return
<1>7. PendingOK'
  BY DEF AvdInv, PendingOK, CompletionHasDecode, PendingIsHeard, NoSession, stateVars,
         hwVars, wdogVars, countVars, Return
<1>8. QED
  BY <1>1, <1>2, <1>3, <1>4, <1>5, <1>6, <1>7 DEF AvdInv, AvdTypeOK

LEMMA SubmitResetStep ==
  ASSUME AvdInv, SubmitReset
  PROVE  AvdInv'
<1>1. SessTypeOK' /\ OwnersOK' /\ TimersOK'
  BY DEF AvdInv, AvdTypeOK, SessTypeOK, Sessions, OwnersOK, TimersOK, SubmitReset,
         stateVars, wdogVars, Return, Goto, Rebooted, BootFails, ResetFails, Fault
<1>2. QueueTypeOK'
  <2>1. mbox' \in {mbox, <<>>} /\ UNCHANGED <<completed, owners>>
    BY DEF SubmitReset, Rebooted, BootFails, ResetFails, stateVars
  <2>2. mbox' \in Seq({"video", "post", "error"})
    BY <2>1, EmptySeq DEF AvdInv, AvdTypeOK, QueueTypeOK
  <2>3. QED
    BY <2>1, <2>2 DEF AvdInv, AvdTypeOK, QueueTypeOK
<1>3. PlainTypeOK'
  BY DEF AvdInv, AvdTypeOK, PlainTypeOK, Decodes, Jobs, Kinds, SubmitReset, stateVars,
         wdogVars, Return, Goto, Rebooted, BootFails, ResetFails, Fault
<1>4. ThreadOK'
  BY DEF AvdInv, ThreadOK, SubmitReset, stateVars, wdogVars, Return, Goto, Rebooted,
         BootFails, ResetFails, Fault
<1>5. SessionsOK'
  BY DEF AvdInv, SessionsOK, Closing, SubmitReset, stateVars, wdogVars, Return, Goto,
         Rebooted, BootFails, ResetFails, Fault
<1>6. JobsOK'
  BY DEF AvdInv, JobsOK, DecoderOwnsMemory, SubmitReset, stateVars, wdogVars, Return, Goto,
         Rebooted, BootFails, ResetFails, Fault
<1>7. FramesOK'
  BY DEF AvdInv, FramesOK, Listed, Held, Usable, SubmitReset, stateVars, wdogVars, Return,
         Goto, Rebooted, BootFails, ResetFails, Fault
<1>8. PendingOK'
  BY DEF AvdInv, PendingOK, CompletionHasDecode, PendingIsHeard, SubmitReset, stateVars,
         wdogVars, Return, Goto, Rebooted, BootFails, ResetFails, Fault
<1>9. QED
  BY <1>1, <1>2, <1>3, <1>4, <1>5, <1>6, <1>7, <1>8 DEF AvdInv, AvdTypeOK

LEMMA SubmitMapStep ==
  ASSUME AvdInv, SubmitMap
  PROVE  AvdInv'
<1> DEFINE s == aop.s
<1>0. /\ s \in Streams /\ sess' \in [Streams -> Sessions] /\ inflight = {} /\ sess[s].active
      /\ sess'[s].front /\ sess'[s].active = sess[s].active /\ sess'[s].quarantined = sess[s].quarantined
      /\ sess'[s].owner = sess[s].owner /\ sess'[s].work # 0
      /\ \A t \in Streams : t # s => sess'[t] = sess[t]
  <2>1. s \in Streams /\ sess \in [Streams -> Sessions] /\ ids \in Nat /\ sess[s] \in Sessions
    BY DEF AvdInv, AvdTypeOK, SessTypeOK, PlainTypeOK, SubmitMap
  <2>2. PICK w \in Nat : w # 0 /\ sess' = [sess EXCEPT ![s] = [@ EXCEPT !.front = TRUE, !.work = w]]
    <3>1. PICK replace \in BOOLEAN :
            sess' = [sess EXCEPT ![s].front = TRUE, ![s].work = IF replace \/ @ = 0 THEN ids + 1 ELSE @]
      BY DEF SubmitMap
    <3> DEFINE w == IF replace \/ sess[s].work = 0 THEN ids + 1 ELSE sess[s].work
    <3>2. w \in Nat /\ w # 0
      BY <2>1 DEF Sessions
    <3>3. sess' = [sess EXCEPT ![s] = [@ EXCEPT !.front = TRUE, !.work = w]]
      BY <2>1, <3>1 DEF Sessions
    <3>4. QED
      BY <3>2, <3>3
  <2>3. [sess[s] EXCEPT !.front = TRUE, !.work = w] \in Sessions
    BY <2>1, <2>2 DEF Sessions
  <2>4. inflight = {} /\ sess[s].active
    BY DEF SubmitMap, Usable
  <2>5. QED
    BY <2>1, <2>2, <2>3, <2>4 DEF Sessions
<1>1. QueueTypeOK' /\ TimersOK'
  BY DEF AvdInv, AvdTypeOK, QueueTypeOK, Frames, TimersOK, SubmitMap, hwVars, wdogVars,
         countVars, Usable, Goto
<1>2. SessTypeOK'
  BY <1>0 DEF SessTypeOK
<1>3. PlainTypeOK'
  BY DEF AvdInv, AvdTypeOK, PlainTypeOK, Decodes, Jobs, Kinds, SubmitMap, hwVars, wdogVars,
         countVars, Usable, Goto
<1>4. ThreadOK'
  BY DEF AvdInv, ThreadOK, SubmitMap, hwVars, wdogVars, countVars, Usable, Goto
<1>5. SessionsOK'
  BY <1>0 DEF AvdInv, SessionsOK, Closing, FreshSession, SubmitMap, Goto
<1>6. JobsOK'
  BY DEF AvdInv, AvdTypeOK, JobsOK, DecoderOwnsMemory, SessTypeOK, Sessions, QueueTypeOK,
         Frames, PlainTypeOK, Decodes, Jobs, Kinds, SubmitMap, hwVars, wdogVars, countVars,
         Usable, Goto
<1>7. OwnersOK'
  BY DEF AvdInv, AvdTypeOK, OwnersOK, SessTypeOK, Sessions, QueueTypeOK, Frames,
         PlainTypeOK, Decodes, Jobs, Kinds, SubmitMap, hwVars, wdogVars, countVars, Usable,
         Goto
<1>8. FramesOK'
  <2>1. \A f : Held(f) /\ f.stream \in Streams => Held(f)'
    BY <1>0 DEF Held, Usable
  <2>2. UNCHANGED <<completed, ids, inflight, drained, apc>> \/ apc' = "start"
    BY DEF SubmitMap, Goto
  <2>3. UNCHANGED <<completed, ids, inflight, drained>> /\ apc = "map" /\ apc' = "start"
    BY DEF SubmitMap, Goto, countVars
  <2>4. completed \in Seq(Frames) /\ drained = {}
    BY <2>3 DEF AvdInv, AvdTypeOK, QueueTypeOK, FramesOK
  <2>5. \A i \in DOMAIN completed : completed[i].stream \in Streams
    BY <2>4, FrameStreams
  <2>6. Listed(completed, ids)'
    BY <2>1, <2>3, <2>5 DEF AvdInv, FramesOK, Listed
  <2>7. QED
    BY <1>0, <2>3, <2>4, <2>6 DEF FramesOK
<1>9. PendingOK'
  BY DEF AvdInv, PendingOK, CompletionHasDecode, PendingIsHeard, SubmitMap, hwVars,
         wdogVars, countVars, Usable, Goto
<1>10. QED
  BY <1>1, <1>2, <1>3, <1>4, <1>5, <1>6, <1>7, <1>8, <1>9 DEF AvdInv, AvdTypeOK

LEMMA SubmitRejectedStep ==
  ASSUME AvdInv, SubmitRejected
  PROVE  AvdInv'
<1>1. SessTypeOK' /\ QueueTypeOK' /\ OwnersOK' /\ TimersOK'
  BY DEF AvdInv, AvdTypeOK, SessTypeOK, Sessions, QueueTypeOK, Frames, OwnersOK, TimersOK,
         SubmitRejected, stateVars, hwVars, wdogVars, Fault, Usable, Return
<1>2. PlainTypeOK'
  BY DEF AvdInv, AvdTypeOK, PlainTypeOK, Decodes, Jobs, Kinds, SubmitRejected, stateVars,
         hwVars, wdogVars, Fault, Usable, Return
<1>3. ThreadOK'
  BY DEF AvdInv, ThreadOK, SubmitRejected, stateVars, hwVars, wdogVars, Fault, Usable,
         Return
<1>4. SessionsOK'
  BY DEF AvdInv, SessionsOK, Closing, SubmitRejected, stateVars, hwVars, wdogVars, Fault,
         Usable, Return
<1>5. JobsOK'
  BY DEF AvdInv, JobsOK, DecoderOwnsMemory, SubmitRejected, stateVars, hwVars, wdogVars,
         Fault, Usable, Return
<1>6. FramesOK'
  BY DEF AvdInv, FramesOK, Listed, Held, Usable, SubmitRejected, stateVars, hwVars,
         wdogVars, Fault, Return
<1>7. PendingOK'
  BY DEF AvdInv, PendingOK, CompletionHasDecode, PendingIsHeard, SubmitRejected, stateVars,
         hwVars, wdogVars, Fault, Usable, Return
<1>8. QED
  BY <1>1, <1>2, <1>3, <1>4, <1>5, <1>6, <1>7 DEF AvdInv, AvdTypeOK

LEMMA SubmitStartStep ==
  ASSUME AvdInv, SubmitStart
  PROVE  AvdInv'
<1>1. SessTypeOK' /\ QueueTypeOK' /\ OwnersOK'
  BY DEF AvdInv, AvdTypeOK, SessTypeOK, Sessions, QueueTypeOK, Frames, OwnersOK,
         SubmitStart, Usable, Return
<1>2. PlainTypeOK'
  BY SMTT(20) DEF AvdInv, AvdTypeOK, PlainTypeOK, Decodes, Jobs, Kinds, SessTypeOK, Sessions,
         QueueTypeOK, Frames, SubmitStart, Usable, Return
<1>3. ThreadOK'
  BY DEF AvdInv, ThreadOK, SubmitStart, Usable, Return
<1>4. SessionsOK'
  BY DEF AvdInv, SessionsOK, Closing, SubmitStart, Usable, Return
<1>5. JobsOK'
  BY DEF AvdInv, AvdTypeOK, JobsOK, DecoderOwnsMemory, PlainTypeOK, Decodes, Jobs, Kinds,
         PendingOK, CompletionHasDecode, PendingIsHeard, SubmitStart, Usable, Return
<1>6. FramesOK'
  <2>1. /\ inflight = {} /\ Usable(aop.s) /\ apc = "start" /\ apc' = "idle" /\ ids' = ids + 1
        /\ UNCHANGED <<sess, completed, drained>>
        /\ inflight' = {[stream |-> aop.s, owner |-> sess[aop.s].owner, id |-> ids + 1, phase |-> "video", gen |-> gen + 1]}
    BY DEF SubmitStart, Return
  <2>2. drained = {} /\ ids \in Nat
    BY <2>1 DEF AvdInv, AvdTypeOK, PlainTypeOK, FramesOK
  <2>3. \A i \in DOMAIN completed : completed[i].id \in Nat
    <3>1. DOMAIN completed = 1 .. Len(completed) /\ \A i \in DOMAIN completed : completed[i] \in Frames
      BY ElementOfSeq, LenProperties DEF AvdInv, AvdTypeOK, QueueTypeOK
    <3>2. QED
      BY <3>1 DEF Frames
  <2>4. Listed(completed, ids)'
    BY <2>1, <2>2, <2>3 DEF AvdInv, FramesOK, Listed, Held, Usable
  <2>5. \A d \in inflight' : Held(d)' /\ d.id <= ids' /\ \A i \in DOMAIN completed' : completed'[i].id < d.id
    BY <2>1, <2>2, <2>3 DEF AvdInv, FramesOK, Listed, Held, Usable
  <2>6. QED
    BY <2>1, <2>2, <2>4, <2>5 DEF FramesOK
<1>7. PendingOK'
  BY DEF AvdInv, PendingOK, CompletionHasDecode, PendingIsHeard, SubmitStart, Usable, Return
<1>8. TimersOK'
  BY SMTT(20) DEF AvdInv, AvdTypeOK, TimersOK, SessTypeOK, Sessions, QueueTypeOK, Frames,
         PlainTypeOK, Decodes, Jobs, Kinds, SubmitStart, Usable, Return
<1>9. QED
  BY <1>1, <1>2, <1>3, <1>4, <1>5, <1>6, <1>7, <1>8 DEF AvdInv, AvdTypeOK

LEMMA DequeueStep ==
  ASSUME AvdInv, Dequeue
  PROVE  AvdInv'
<1>0. /\ Thinned(completed', completed) /\ completed' \in Seq(Frames)
      /\ UNCHANGED <<sess, inflight, drained, ids, mbox, owners>> /\ apc = "work" /\ apc' = "idle"
  BY DequeueThins DEF AvdInv, Dequeue, Thinned, Return, hwVars, countVars
<1>1. SessTypeOK' /\ OwnersOK' /\ TimersOK'
  BY DEF AvdInv, AvdTypeOK, SessTypeOK, Sessions, OwnersOK, TimersOK, Dequeue, hwVars,
         wdogVars, countVars, Usable, Return
<1>2. QueueTypeOK'
  BY <1>0 DEF AvdInv, AvdTypeOK, QueueTypeOK
<1>3. PlainTypeOK'
  BY DEF AvdInv, AvdTypeOK, PlainTypeOK, Decodes, Jobs, Kinds, Dequeue, hwVars, wdogVars,
         countVars, Usable, Return
<1>4. ThreadOK'
  BY DEF AvdInv, ThreadOK, Dequeue, hwVars, wdogVars, countVars, Usable, Return
<1>5. SessionsOK'
  BY DEF AvdInv, SessionsOK, Closing, Dequeue, hwVars, wdogVars, countVars, Usable, Return
<1>6. JobsOK'
  BY DEF AvdInv, JobsOK, DecoderOwnsMemory, Dequeue, hwVars, wdogVars, countVars, Usable,
         Return
<1>7. FramesOK'
  <2>1. \A i \in DOMAIN completed' : completed'[i].stream \in Streams
    BY <1>0, FrameStreams
  <2>2. \A d \in inflight' \cup drained' : d \in inflight \cup drained /\ d.stream \in Streams
    BY <1>0 DEF AvdInv, AvdTypeOK, PlainTypeOK, Decodes
  <2>3. /\ Listed(completed, ids)'
        /\ \A d \in inflight' \cup drained' : /\ Held(d)' /\ d.id <= ids'
                                              /\ \A i \in DOMAIN completed' : completed'[i].id < d.id
    BY <1>0, <2>1, <2>2, ThinnedFrames
  <2>4. QED
    BY <1>0, <2>3 DEF AvdInv, FramesOK
<1>8. PendingOK'
  BY DEF AvdInv, PendingOK, CompletionHasDecode, PendingIsHeard, Dequeue, hwVars, wdogVars,
         countVars, Usable, Return
<1>9. QED
  BY <1>1, <1>2, <1>3, <1>4, <1>5, <1>6, <1>7, <1>8 DEF AvdInv, AvdTypeOK

LEMMA RetireSessionStep ==
  ASSUME AvdInv, RetireSession
  PROVE  AvdInv'
<1> DEFINE s == aop.s
           A == Streams \ {s}
<1>0. /\ s \in Streams /\ ~sess[s].active /\ sess' = [sess EXCEPT ![s] = FreshSession]
      /\ Thinned(completed', completed) /\ completed' \in Seq(Frames)
      /\ \A i \in DOMAIN completed' : completed'[i].stream # s
      /\ UNCHANGED <<inflight, drained, ids, mbox, owners>> /\ apc = "retire" /\ apc' = "idle"
  <2>1. s \in Streams /\ aop.kind = "destroy" /\ apc = "retire"
    BY DEF AvdInv, AvdTypeOK, PlainTypeOK, ThreadOK, RetireSession
  <2>2. ~sess[s].active
    BY <2>1 DEF AvdInv, SessionsOK
  <2>3. Thinned(OfOthers(s, completed), completed) /\ \A i \in DOMAIN OfOthers(s, completed) : OfOthers(s, completed)[i].stream # s
    BY OfOthersThins DEF AvdInv, AvdTypeOK, QueueTypeOK
  <2>4. completed' = OfOthers(s, completed)
    BY DEF RetireSession
  <2>5. QED
    BY <2>1, <2>2, <2>3, <2>4 DEF RetireSession, Thinned, Return, countVars
<1>1. TimersOK'
  BY DEF AvdInv, TimersOK, RetireSession, wdogVars, countVars, Return, FreshSession
<1>2. SessTypeOK'
  BY DEF AvdInv, AvdTypeOK, SessTypeOK, Sessions, RetireSession, wdogVars, countVars,
         Return, FreshSession
<1>3. QueueTypeOK'
  BY <1>0 DEF AvdInv, AvdTypeOK, QueueTypeOK
<1>4. PlainTypeOK'
  BY DEF AvdInv, AvdTypeOK, PlainTypeOK, Decodes, Jobs, Kinds, RetireSession, wdogVars,
         countVars, Return, FreshSession
<1>5. ThreadOK'
  BY DEF AvdInv, ThreadOK, RetireSession, wdogVars, countVars, Return, FreshSession
<1>6. SessionsOK'
  BY DEF AvdInv, AvdTypeOK, SessionsOK, Closing, SessTypeOK, Sessions, QueueTypeOK, Frames,
         PlainTypeOK, Decodes, Jobs, Kinds, RetireSession, wdogVars, countVars, Return,
         FreshSession
<1>7. JobsOK'
  BY DEF AvdInv, AvdTypeOK, JobsOK, DecoderOwnsMemory, PlainTypeOK, Decodes, Jobs, Kinds,
         FramesOK, Listed, Held, Usable, RetireSession, wdogVars, countVars, Return,
         FreshSession
<1>8. OwnersOK'
  BY DEF AvdInv, OwnersOK, RetireSession, wdogVars, countVars, Return, FreshSession
<1>9. FramesOK'
  <2>1. \A i \in DOMAIN completed' : completed'[i].stream \in A
    BY <1>0, FrameStreams
  <2>2. \A d \in inflight' \cup drained' : d \in inflight \cup drained /\ d.stream \in A
    BY <1>0 DEF AvdInv, AvdTypeOK, PlainTypeOK, Decodes, FramesOK, Held, Usable
  <2>3. \A t \in A : sess'[t] = sess[t]
    BY <1>0 DEF AvdInv, AvdTypeOK, SessTypeOK
  <2>4. A \in SUBSET Streams /\ ids' = ids
    BY <1>0
  <2> HIDE DEF A
  <2>5. /\ Listed(completed, ids)'
        /\ \A d \in inflight' \cup drained' : /\ Held(d)' /\ d.id <= ids'
                                              /\ \A i \in DOMAIN completed' : completed'[i].id < d.id
    BY <1>0, <2>1, <2>2, <2>3, <2>4, ThinnedFrames
  <2>6. QED
    BY <1>0, <2>5 DEF AvdInv, FramesOK
<1>10. PendingOK'
  BY DEF AvdInv, AvdTypeOK, PendingOK, CompletionHasDecode, PendingIsHeard, PlainTypeOK,
         Decodes, Jobs, Kinds, FramesOK, Listed, Held, Usable, RetireSession, wdogVars,
         countVars, Return, FreshSession
<1>11. QED
  BY <1>1, <1>2, <1>3, <1>4, <1>5, <1>6, <1>7, <1>8, <1>9, <1>10 DEF AvdInv, AvdTypeOK

LEMMA RetireMappingsStep ==
  ASSUME AvdInv, RetireMappings
  PROVE  AvdInv'
<1>1. QueueTypeOK' /\ TimersOK'
  BY DEF AvdInv, AvdTypeOK, QueueTypeOK, Frames, TimersOK, RetireMappings, hwVars, wdogVars,
         countVars, Return
<1>2. SessTypeOK'
  BY DEF AvdInv, AvdTypeOK, SessTypeOK, Sessions, RetireMappings, hwVars, wdogVars,
         countVars, Return
<1>3. PlainTypeOK'
  BY DEF AvdInv, AvdTypeOK, PlainTypeOK, Decodes, Jobs, Kinds, RetireMappings, hwVars,
         wdogVars, countVars, Return
<1>4. ThreadOK'
  BY DEF AvdInv, ThreadOK, RetireMappings, hwVars, wdogVars, countVars, Return
<1>5. SessionsOK'
  <2>1. /\ aop.kind = "destroy" /\ aop.s \in Streams /\ sess' = [sess EXCEPT ![aop.s].front = FALSE]
        /\ apc = "retireFailed" /\ apc' = "idle" /\ UNCHANGED <<recovery, aop>>
    BY DEF AvdInv, AvdTypeOK, PlainTypeOK, ThreadOK, RetireMappings, Return
  <2>2. sess \in [Streams -> Sessions]
    BY DEF AvdInv, AvdTypeOK, SessTypeOK
  <2>3. /\ \A t \in Streams : t # aop.s => sess'[t] = sess[t]
        /\ sess'[aop.s] = [sess[aop.s] EXCEPT !.front = FALSE]
    BY <2>1, <2>2
  <2>4. /\ sess'[aop.s].active = sess[aop.s].active /\ sess'[aop.s].quarantined = sess[aop.s].quarantined
        /\ ~sess'[aop.s].front /\ sess'[aop.s].work = sess[aop.s].work
    BY <2>1, <2>2, <2>3 DEF Sessions
  <2>5. QED
    BY <2>1, <2>3, <2>4 DEF AvdInv, SessionsOK, Closing
<1>6. JobsOK'
  BY DEF AvdInv, JobsOK, DecoderOwnsMemory, RetireMappings, hwVars, wdogVars, countVars,
         Return
<1>7. OwnersOK'
  BY DEF AvdInv, OwnersOK, RetireMappings, hwVars, wdogVars, countVars, Return
<1>8. FramesOK'
  BY DEF AvdInv, FramesOK, Listed, Held, Usable, RetireMappings, hwVars, wdogVars,
         countVars, Return
<1>9. PendingOK'
  BY DEF AvdInv, PendingOK, CompletionHasDecode, PendingIsHeard, RetireMappings, hwVars,
         wdogVars, countVars, Return
<1>10. QED
  BY <1>1, <1>2, <1>3, <1>4, <1>5, <1>6, <1>7, <1>8, <1>9 DEF AvdInv, AvdTypeOK

LEMMA IrqClaimStep ==
  ASSUME AvdInv, IrqClaim
  PROVE  AvdInv'
<1>1. SessTypeOK' /\ QueueTypeOK' /\ PlainTypeOK' /\ ThreadOK' /\ SessionsOK' /\ JobsOK' /\ OwnersOK' /\ FramesOK' /\ PendingOK' /\ TimersOK'
  <2>1. SessTypeOK'
    BY DEF AvdInv, AvdTypeOK, SessTypeOK, Sessions, IrqClaim, stateVars, hwVars,
         wdogVars, countVars
  <2>2. QueueTypeOK'
    BY DEF AvdInv, AvdTypeOK, QueueTypeOK, Frames, IrqClaim, stateVars, hwVars,
         wdogVars, countVars
  <2>3. PlainTypeOK'
    BY DEF AvdInv, AvdTypeOK, PlainTypeOK, Decodes, Jobs, Kinds, IrqClaim, stateVars,
         hwVars, wdogVars, countVars
  <2>4. ThreadOK'
    BY DEF AvdInv, ThreadOK, IrqClaim, stateVars, hwVars, wdogVars, countVars
  <2>5. SessionsOK'
    BY DEF AvdInv, SessionsOK, Closing, IrqClaim, stateVars, hwVars, wdogVars, countVars
  <2>6. JobsOK'
    BY DEF AvdInv, JobsOK, DecoderOwnsMemory, IrqClaim, stateVars, hwVars, wdogVars,
         countVars
  <2>7. OwnersOK'
    BY DEF AvdInv, OwnersOK, IrqClaim, stateVars, hwVars, wdogVars, countVars
  <2>8. FramesOK'
    BY DEF AvdInv, FramesOK, Listed, Held, Usable, IrqClaim, stateVars, hwVars,
         wdogVars, countVars
  <2>9. PendingOK'
    BY DEF AvdInv, PendingOK, CompletionHasDecode, PendingIsHeard, IrqClaim, stateVars,
         hwVars, wdogVars, countVars
  <2>10. TimersOK'
    BY DEF AvdInv, TimersOK, IrqClaim, stateVars, hwVars, wdogVars, countVars
  <2>11. QED
    BY <2>1, <2>2, <2>3, <2>4, <2>5, <2>6, <2>7, <2>8, <2>9, <2>10
<1>2. QED
  BY <1>1 DEF AvdInv, AvdTypeOK

LEMMA IrqDiscardStep ==
  ASSUME AvdInv, IrqDiscard
  PROVE  AvdInv'
<1>1. SessTypeOK' /\ PlainTypeOK' /\ ThreadOK' /\ SessionsOK' /\ OwnersOK' /\ FramesOK' /\ PendingOK' /\ TimersOK'
  <2>1. SessTypeOK'
    BY DEF AvdInv, AvdTypeOK, SessTypeOK, Sessions, IrqDiscard, stateVars, wdogVars,
         countVars
  <2>2. PlainTypeOK'
    BY DEF AvdInv, AvdTypeOK, PlainTypeOK, Decodes, Jobs, Kinds, IrqDiscard, stateVars,
         wdogVars, countVars
  <2>3. ThreadOK'
    BY DEF AvdInv, ThreadOK, IrqDiscard, stateVars, wdogVars, countVars
  <2>4. SessionsOK'
    BY DEF AvdInv, SessionsOK, Closing, IrqDiscard, stateVars, wdogVars, countVars
  <2>5. OwnersOK'
    BY DEF AvdInv, OwnersOK, IrqDiscard, stateVars, wdogVars, countVars
  <2>6. FramesOK'
    BY DEF AvdInv, FramesOK, Listed, Held, Usable, IrqDiscard, stateVars, wdogVars,
         countVars
  <2>7. PendingOK'
    BY DEF AvdInv, PendingOK, CompletionHasDecode, PendingIsHeard, IrqDiscard,
         stateVars, wdogVars, countVars
  <2>8. TimersOK'
    BY DEF AvdInv, TimersOK, IrqDiscard, stateVars, wdogVars, countVars
  <2>9. QED
    BY <2>1, <2>2, <2>3, <2>4, <2>5, <2>6, <2>7, <2>8
<1>2. QueueTypeOK'
  BY DEF AvdInv, AvdTypeOK, QueueTypeOK, Frames, IrqDiscard, stateVars, wdogVars, countVars
<1>3. JobsOK'
  BY DEF AvdInv, JobsOK, DecoderOwnsMemory, IrqDiscard, stateVars, wdogVars, countVars
<1>4. QED
  BY <1>1, <1>2, <1>3 DEF AvdInv, AvdTypeOK

LEMMA ServiceNothingStep ==
  ASSUME AvdInv, ServiceNothing
  PROVE  AvdInv'
<1>1. SessTypeOK' /\ QueueTypeOK' /\ PlainTypeOK' /\ ThreadOK' /\ SessionsOK' /\ JobsOK' /\ OwnersOK' /\ FramesOK' /\ PendingOK' /\ TimersOK'
  <2>1. SessTypeOK'
    BY DEF AvdInv, AvdTypeOK, SessTypeOK, Sessions, ServiceNothing, stateVars, hwVars,
         wdogVars, countVars
  <2>2. QueueTypeOK'
    BY DEF AvdInv, AvdTypeOK, QueueTypeOK, Frames, ServiceNothing, stateVars, hwVars,
         wdogVars, countVars
  <2>3. PlainTypeOK'
    BY DEF AvdInv, AvdTypeOK, PlainTypeOK, Decodes, Jobs, Kinds, ServiceNothing,
         stateVars, hwVars, wdogVars, countVars
  <2>4. ThreadOK'
    BY DEF AvdInv, ThreadOK, ServiceNothing, stateVars, hwVars, wdogVars, countVars
  <2>5. SessionsOK'
    BY DEF AvdInv, SessionsOK, Closing, ServiceNothing, stateVars, hwVars, wdogVars,
         countVars
  <2>6. JobsOK'
    BY DEF AvdInv, JobsOK, DecoderOwnsMemory, ServiceNothing, stateVars, hwVars,
         wdogVars, countVars
  <2>7. OwnersOK'
    BY DEF AvdInv, OwnersOK, ServiceNothing, stateVars, hwVars, wdogVars, countVars
  <2>8. FramesOK'
    BY DEF AvdInv, FramesOK, Listed, Held, Usable, ServiceNothing, stateVars, hwVars,
         wdogVars, countVars
  <2>9. PendingOK'
    BY DEF AvdInv, PendingOK, CompletionHasDecode, PendingIsHeard, ServiceNothing,
         stateVars, hwVars, wdogVars, countVars
  <2>10. TimersOK'
    BY DEF AvdInv, TimersOK, ServiceNothing, stateVars, hwVars, wdogVars, countVars
  <2>11. QED
    BY <2>1, <2>2, <2>3, <2>4, <2>5, <2>6, <2>7, <2>8, <2>9, <2>10
<1>2. QED
  BY <1>1 DEF AvdInv, AvdTypeOK

LEMMA ServiceVideoDoneStep ==
  ASSUME AvdInv, ServiceVideoDone
  PROVE  AvdInv'
<1>1. SessTypeOK' /\ ThreadOK' /\ SessionsOK' /\ OwnersOK'
  BY DEF AvdInv, AvdTypeOK, SessTypeOK, Sessions, ThreadOK, SessionsOK, Closing, OwnersOK,
         ServiceVideoDone, wdogVars, countVars, Received
<1>2. QueueTypeOK'
  BY DEF AvdInv, AvdTypeOK, QueueTypeOK, Frames, ServiceVideoDone, wdogVars, countVars,
         Received
<1>3. PlainTypeOK'
  BY DEF AvdInv, AvdTypeOK, PlainTypeOK, Decodes, Jobs, Kinds, ServiceVideoDone, wdogVars,
         countVars, Received
<1>4. JobsOK'
  BY SMTT(30) DEF AvdInv, AvdTypeOK, JobsOK, DecoderOwnsMemory, PlainTypeOK, Decodes, Jobs, Kinds,
         ThreadOK, ServiceVideoDone, wdogVars, countVars, Received
<1>5. FramesOK'
  BY DEF AvdInv, AvdTypeOK, FramesOK, Listed, Held, Usable, PlainTypeOK, Decodes, Jobs,
         Kinds, PendingOK, CompletionHasDecode, PendingIsHeard, ServiceVideoDone, wdogVars,
         countVars, Received
<1>6. PendingOK'
  BY DEF AvdInv, PendingOK, CompletionHasDecode, PendingIsHeard, ServiceVideoDone, wdogVars,
         countVars, Received
<1>7. TimersOK'
  BY DEF AvdInv, TimersOK, ServiceVideoDone, wdogVars, countVars, Received
<1>8. QED
  BY <1>1, <1>2, <1>3, <1>4, <1>5, <1>6, <1>7 DEF AvdInv, AvdTypeOK

LEMMA ServicePostDoneStep ==
  ASSUME AvdInv, ServicePostDone
  PROVE  AvdInv'
<1>1. SessTypeOK' /\ ThreadOK' /\ SessionsOK' /\ OwnersOK' /\ FramesOK'
  <2>1. SessTypeOK'
    BY DEF AvdInv, AvdTypeOK, SessTypeOK, Sessions, ServicePostDone, countVars, Received
  <2>2. ThreadOK'
    BY DEF AvdInv, ThreadOK, ServicePostDone, countVars, Received
  <2>3. SessionsOK'
    BY DEF AvdInv, SessionsOK, Closing, ServicePostDone, countVars, Received
  <2>4. OwnersOK'
    BY DEF AvdInv, OwnersOK, ServicePostDone, countVars, Received
  <2>5. FramesOK'
    BY DEF AvdInv, FramesOK, Listed, Held, Usable, ServicePostDone, countVars, Received
  <2>6. QED
    BY <2>1, <2>2, <2>3, <2>4, <2>5
<1>2. QueueTypeOK'
  BY DEF AvdInv, AvdTypeOK, QueueTypeOK, Frames, ServicePostDone, countVars, Received
<1>3. PlainTypeOK'
  BY DEF AvdInv, AvdTypeOK, PlainTypeOK, Decodes, Jobs, Kinds, ServicePostDone, countVars,
         Received
<1>4. JobsOK'
  BY SMTT(20) DEF AvdInv, JobsOK, DecoderOwnsMemory, ServicePostDone, countVars, Received
<1>5. PendingOK'
  BY DEF AvdInv, PendingOK, CompletionHasDecode, PendingIsHeard, ServicePostDone, countVars,
         Received
<1>6. TimersOK'
  BY DEF AvdInv, AvdTypeOK, TimersOK, SessTypeOK, Sessions, QueueTypeOK, Frames,
         PlainTypeOK, Decodes, Jobs, Kinds, ServicePostDone, countVars, Received
<1>7. QED
  BY <1>1, <1>2, <1>3, <1>4, <1>5, <1>6 DEF AvdInv, AvdTypeOK

LEMMA ServiceFaultStep ==
  ASSUME AvdInv, ServiceFault
  PROVE  AvdInv'
<1>1. SessTypeOK' /\ ThreadOK' /\ OwnersOK'
  BY DEF AvdInv, AvdTypeOK, SessTypeOK, Sessions, ThreadOK, OwnersOK, ServiceFault,
         countVars, DeferRecovery, Received
<1>2. QueueTypeOK'
  BY DEF AvdInv, AvdTypeOK, QueueTypeOK, Frames, ServiceFault, countVars, DeferRecovery,
         Received
<1>3. PlainTypeOK'
  <2>1. inflight' = {} /\ masked' = TRUE /\ irqDone' = FALSE /\ recovery' = TRUE /\ gen' = gen + 1
    BY DEF ServiceFault, DeferRecovery
  <2>2. UNCHANGED <<timers, expired, job, apc, aop, drained, ids>>
    BY DEF ServiceFault, countVars
  <2>3. gen' \in Nat
    BY <2>1 DEF AvdInv, AvdTypeOK, PlainTypeOK
  <2>4. /\ timers' \in SUBSET Nat /\ expired' \in SUBSET Nat /\ drained' \in SUBSET Decodes
        /\ job' \in SUBSET Jobs /\ ids' \in Nat
    BY <2>2 DEF AvdInv, AvdTypeOK, PlainTypeOK
  <2>5. apc' = "idle" \/ (aop'.s \in Streams /\ aop'.kind \in Kinds)
    BY <2>2 DEF AvdInv, AvdTypeOK, PlainTypeOK
  <2>6. QED
    BY <2>1, <2>3, <2>4, <2>5 DEF PlainTypeOK
<1>4. SessionsOK'
  BY DEF AvdInv, SessionsOK, Closing, ServiceFault, countVars, DeferRecovery, Received
<1>5. JobsOK'
  BY SMTT(30) DEF AvdInv, AvdTypeOK, JobsOK, DecoderOwnsMemory, SessTypeOK, Sessions, QueueTypeOK,
         Frames, PlainTypeOK, Decodes, Jobs, Kinds, ServiceFault, countVars, DeferRecovery,
         Received
<1>6. FramesOK'
  BY DEF AvdInv, FramesOK, Listed, Held, Usable, ServiceFault, countVars, DeferRecovery,
         Received
<1>7. PendingOK'
  BY DEF AvdInv, PendingOK, CompletionHasDecode, PendingIsHeard, ServiceFault, countVars,
         DeferRecovery, Received
<1>8. TimersOK'
  BY DEF AvdInv, AvdTypeOK, TimersOK, SessTypeOK, Sessions, QueueTypeOK, Frames,
         PlainTypeOK, Decodes, Jobs, Kinds, ServiceFault, countVars, DeferRecovery, Received
<1>9. QED
  BY <1>1, <1>2, <1>3, <1>4, <1>5, <1>6, <1>7, <1>8 DEF AvdInv, AvdTypeOK

LEMMA TimerFiresStep ==
  ASSUME AvdInv, NEW g \in timers, TimerFires(g)
  PROVE  AvdInv'
<1>1. SessTypeOK' /\ QueueTypeOK' /\ ThreadOK' /\ SessionsOK' /\ JobsOK' /\ OwnersOK' /\ FramesOK' /\ PendingOK'
  <2>1. SessTypeOK'
    BY DEF AvdInv, AvdTypeOK, SessTypeOK, Sessions, TimerFires, stateVars, hwVars,
         countVars
  <2>2. QueueTypeOK'
    BY DEF AvdInv, AvdTypeOK, QueueTypeOK, Frames, TimerFires, stateVars, hwVars,
         countVars
  <2>3. ThreadOK'
    BY DEF AvdInv, ThreadOK, TimerFires, stateVars, hwVars, countVars
  <2>4. SessionsOK'
    BY DEF AvdInv, SessionsOK, Closing, TimerFires, stateVars, hwVars, countVars
  <2>5. JobsOK'
    BY DEF AvdInv, JobsOK, DecoderOwnsMemory, TimerFires, stateVars, hwVars, countVars
  <2>6. OwnersOK'
    BY DEF AvdInv, OwnersOK, TimerFires, stateVars, hwVars, countVars
  <2>7. FramesOK'
    BY DEF AvdInv, FramesOK, Listed, Held, Usable, TimerFires, stateVars, hwVars,
         countVars
  <2>8. PendingOK'
    BY DEF AvdInv, PendingOK, CompletionHasDecode, PendingIsHeard, TimerFires,
         stateVars, hwVars, countVars
  <2>9. QED
    BY <2>1, <2>2, <2>3, <2>4, <2>5, <2>6, <2>7, <2>8
<1>2. PlainTypeOK'
  BY DEF AvdInv, AvdTypeOK, PlainTypeOK, Decodes, Jobs, Kinds, TimerFires, stateVars,
         hwVars, countVars
<1>3. TimersOK'
  BY DEF AvdInv, TimersOK, TimerFires, stateVars, hwVars, countVars
<1>4. QED
  BY <1>1, <1>2, <1>3 DEF AvdInv, AvdTypeOK

LEMMA TimerCheckedStep ==
  ASSUME AvdInv, NEW g \in expired, TimerChecked(g)
  PROVE  AvdInv'
<1>1. SessTypeOK' /\ QueueTypeOK' /\ ThreadOK' /\ OwnersOK'
  BY DEF AvdInv, AvdTypeOK, SessTypeOK, Sessions, QueueTypeOK, Frames, ThreadOK, OwnersOK,
         TimerChecked, countVars, DeferRecovery
<1>2. PlainTypeOK'
  BY DEF AvdInv, AvdTypeOK, PlainTypeOK, Decodes, Jobs, Kinds, TimerChecked, countVars,
         DeferRecovery
<1>3. SessionsOK'
  BY DEF AvdInv, SessionsOK, Closing, TimerChecked, countVars, DeferRecovery
<1>4. JobsOK'
  BY DEF AvdInv, JobsOK, DecoderOwnsMemory, TimerChecked, countVars, DeferRecovery
<1>5. FramesOK'
  BY DEF AvdInv, FramesOK, Listed, Held, Usable, TimerChecked, countVars, DeferRecovery
<1>6. PendingOK'
  BY DEF AvdInv, PendingOK, CompletionHasDecode, PendingIsHeard, TimerChecked, countVars,
         DeferRecovery
<1>7. TimersOK'
  BY DEF AvdInv, TimersOK, TimerChecked, countVars, DeferRecovery
<1>8. QED
  BY <1>1, <1>2, <1>3, <1>4, <1>5, <1>6, <1>7 DEF AvdInv, AvdTypeOK

LEMMA StageDoneStep ==
  ASSUME AvdInv, StageDone
  PROVE  AvdInv'
<1>1. SessTypeOK' /\ ThreadOK' /\ SessionsOK' /\ OwnersOK' /\ FramesOK' /\ PendingOK' /\ TimersOK'
  <2>1. SessTypeOK'
    BY DEF AvdInv, AvdTypeOK, SessTypeOK, Sessions, StageDone, stateVars, wdogVars,
         countVars
  <2>2. ThreadOK'
    BY DEF AvdInv, ThreadOK, StageDone, stateVars, wdogVars, countVars
  <2>3. SessionsOK'
    BY DEF AvdInv, SessionsOK, Closing, StageDone, stateVars, wdogVars, countVars
  <2>4. OwnersOK'
    BY DEF AvdInv, OwnersOK, StageDone, stateVars, wdogVars, countVars
  <2>5. FramesOK'
    BY DEF AvdInv, FramesOK, Listed, Held, Usable, StageDone, stateVars, wdogVars,
         countVars
  <2>6. PendingOK'
    BY DEF AvdInv, PendingOK, CompletionHasDecode, PendingIsHeard, StageDone, stateVars,
         wdogVars, countVars
  <2>7. TimersOK'
    BY DEF AvdInv, TimersOK, StageDone, stateVars, wdogVars, countVars
  <2>8. QED
    BY <2>1, <2>2, <2>3, <2>4, <2>5, <2>6, <2>7
<1>2. QueueTypeOK'
  BY DEF AvdInv, AvdTypeOK, QueueTypeOK, Frames, SessTypeOK, Sessions, PlainTypeOK, Decodes,
         Jobs, Kinds, StageDone, stateVars, wdogVars, countVars
<1>3. PlainTypeOK'
  BY DEF AvdInv, AvdTypeOK, PlainTypeOK, Decodes, Jobs, Kinds, StageDone, stateVars,
         wdogVars, countVars
<1>4. JobsOK'
  BY SMTT(20) DEF AvdInv, AvdTypeOK, JobsOK, DecoderOwnsMemory, SessTypeOK, Sessions, QueueTypeOK,
         Frames, PlainTypeOK, Decodes, Jobs, Kinds, StageDone, stateVars, wdogVars,
         countVars
<1>5. QED
  BY <1>1, <1>2, <1>3, <1>4 DEF AvdInv, AvdTypeOK

LEMMA StageFailsStep ==
  ASSUME AvdInv, StageFails
  PROVE  AvdInv'
<1>1. SessTypeOK' /\ PlainTypeOK' /\ ThreadOK' /\ SessionsOK' /\ OwnersOK' /\ FramesOK' /\ PendingOK' /\ TimersOK'
  <2>1. SessTypeOK'
    BY DEF AvdInv, AvdTypeOK, SessTypeOK, Sessions, StageFails, stateVars, wdogVars,
         Fault
  <2>2. PlainTypeOK'
    BY DEF AvdInv, AvdTypeOK, PlainTypeOK, Decodes, Jobs, Kinds, StageFails, stateVars,
         wdogVars, Fault
  <2>3. ThreadOK'
    BY DEF AvdInv, ThreadOK, StageFails, stateVars, wdogVars, Fault
  <2>4. SessionsOK'
    BY DEF AvdInv, SessionsOK, Closing, StageFails, stateVars, wdogVars, Fault
  <2>5. OwnersOK'
    BY DEF AvdInv, OwnersOK, StageFails, stateVars, wdogVars, Fault
  <2>6. FramesOK'
    BY DEF AvdInv, FramesOK, Listed, Held, Usable, StageFails, stateVars, wdogVars,
         Fault
  <2>7. PendingOK'
    BY DEF AvdInv, PendingOK, CompletionHasDecode, PendingIsHeard, StageFails,
         stateVars, wdogVars, Fault
  <2>8. TimersOK'
    BY DEF AvdInv, TimersOK, StageFails, stateVars, wdogVars, Fault
  <2>9. QED
    BY <2>1, <2>2, <2>3, <2>4, <2>5, <2>6, <2>7, <2>8
<1>2. QueueTypeOK'
  BY DEF AvdInv, AvdTypeOK, QueueTypeOK, Frames, StageFails, stateVars, wdogVars, Fault
<1>3. JobsOK'
  BY DEF AvdInv, JobsOK, DecoderOwnsMemory, StageFails, stateVars, wdogVars, Fault
<1>4. QED
  BY <1>1, <1>2, <1>3 DEF AvdInv, AvdTypeOK

------------------------------------------------------------------------------
LEMMA AvdInitOK == AvdInit => AvdInv
<1>1. SUFFICES ASSUME AvdInit PROVE AvdInv
  OBVIOUS
<1>2. SessTypeOK /\ SessionsOK
  BY <1>1 DEF AvdInit, SessTypeOK, Sessions, SessionsOK, FreshSession
<1>3. QueueTypeOK
  BY <1>1, EmptySeq DEF AvdInit, QueueTypeOK
<1>4. PlainTypeOK /\ ThreadOK
  BY <1>1 DEF AvdInit, PlainTypeOK, ThreadOK
<1>5. JobsOK /\ OwnersOK
  BY <1>1 DEF AvdInit, JobsOK, DecoderOwnsMemory, OwnersOK
<1>6. FramesOK
  BY <1>1 DEF AvdInit, FramesOK, Listed
<1>7. PendingOK /\ TimersOK
  BY <1>1 DEF AvdInit, PendingOK, CompletionHasDecode, PendingIsHeard, TimersOK
<1>8. QED
  BY <1>2, <1>3, <1>4, <1>5, <1>6, <1>7 DEF AvdInv, AvdTypeOK

LEMMA AvdStutters ==
  ASSUME AvdInv, UNCHANGED avdVars
  PROVE  AvdInv'
<1>1. AvdTypeOK' /\ ThreadOK' /\ OwnersOK' /\ TimersOK'
  BY DEF AvdInv, AvdTypeOK, SessTypeOK, QueueTypeOK, PlainTypeOK, ThreadOK, OwnersOK, TimersOK, avdVars
<1>2. SessionsOK' /\ JobsOK'
  BY DEF AvdInv, SessionsOK, Closing, JobsOK, DecoderOwnsMemory, avdVars
<1>3. FramesOK' /\ PendingOK'
  BY DEF AvdInv, FramesOK, Listed, Held, Usable, PendingOK, CompletionHasDecode, PendingIsHeard, avdVars
<1>4. QED
  BY <1>1, <1>2, <1>3 DEF AvdInv

LEMMA AvdNextOK ==
  ASSUME AvdInv, [AvdNext]_avdVars
  PROVE  AvdInv'
<1>1. CASE \E kind \in {"create", "destroy", "submit", "dequeue"}, s \in Streams :
              (kind = "create" => \A t \in Streams : s <= t) /\ BeginOp(kind, s)
  BY <1>1, BeginOpStep DEF Kinds
<1>2. CASE ThreadStep
  BY <1>2, RelinquishStep, TakeReasonStep, RecoverFirmwareStep, RecoverFailsStep, QuarantineSessionsStep,
     DrainNothingStep, DrainTakeStep, OutputFailsStep, CommitDecodeStep, AllocateSessionStep, NoSessionStep,
     SubmitResetStep, SubmitMapStep, SubmitRejectedStep, SubmitStartStep, DequeueStep, RetireSessionStep,
     RetireMappingsStep DEF ThreadStep
<1>3. CASE IrqStep
  BY <1>3, IrqClaimStep, IrqDiscardStep, ServiceNothingStep, ServiceVideoDoneStep, ServicePostDoneStep,
     ServiceFaultStep DEF IrqStep
<1>4. CASE \E g \in timers : TimerFires(g)
  BY <1>4, TimerFiresStep
<1>5. CASE \E g \in expired : TimerChecked(g)
  BY <1>5, TimerCheckedStep
<1>6. CASE StageDone \/ StageFails
  BY <1>6, StageDoneStep, StageFailsStep
<1>7. CASE UNCHANGED avdVars
  BY <1>7, AvdStutters
<1>8. QED
  BY <1>1, <1>2, <1>3, <1>4, <1>5, <1>6, <1>7 DEF AvdNext

LEMMA AvdInvariant == AvdSpec => []AvdInv
BY AvdInitOK, AvdNextOK, PTL DEF AvdSpec

(* Through timeouts, failed resets, closes and reopens, the decoder works only *)
(* in memory that is still a session's, no page of a closed session stays      *)
(* mapped, and a stream id means the session of the one who opened it.         *)
THEOREM MemoryStaysKept == AvdSpec => []MemoryIsKept
<1>1. AvdInv => MemoryIsKept
  <2>1. SUFFICES ASSUME AvdInv PROVE MemoryIsKept
    OBVIOUS
  <2>2. DecoderOwnsMemory
    BY <2>1 DEF AvdInv, JobsOK
  <2>3. ClosedIsUnmapped
    BY <2>1 DEF AvdInv, SessionsOK, ClosedIsUnmapped
  <2>4. NoAlias
    BY <2>1 DEF AvdInv, OwnersOK, FramesOK, Listed, Held, NoAlias
  <2>5. QED
    BY <2>2, <2>3, <2>4 DEF MemoryIsKept
<1>2. QED
  BY <1>1, AvdInvariant, PTL

(* Of all steps only the second look of the timer callback takes it from       *)
(* expired, and it acts on the generation the pending decode was given.        *)
LEMMA TimeoutStep ==
  ASSUME AvdInv, [AvdNext]_avdVars, NEW g \in expired, g \notin expired', recovery' # recovery
  PROVE  \A d \in inflight : d.gen = g
<1>1. PICK h \in expired : TimerChecked(h)
  <2>1. ~UNCHANGED expired
    BY SMTT(20)
  <2>2. ~ThreadStep
    BY <2>1 DEF ThreadStep, Relinquish, TakeReason, RecoverFirmware, RecoverFails, QuarantineSessions, DrainNothing,
         DrainTake, OutputFails, CommitDecode, AllocateSession, NoSession, SubmitReset, SubmitMap, SubmitRejected,
         SubmitStart, Dequeue, RetireSession, RetireMappings, wdogVars, CancelWatchdog
  <2>3. ~IrqStep
    BY <2>1 DEF IrqStep, IrqClaim, IrqDiscard, ServiceNothing, ServiceVideoDone, ServicePostDone, ServiceFault, wdogVars
  <2>4. ~StageDone /\ ~StageFails /\ \A kind, s : ~BeginOp(kind, s)
    BY <2>1 DEF StageDone, StageFails, BeginOp, wdogVars
  <2>5. \A k \in timers : ~TimerFires(k)
    BY DEF TimerFires
  <2>6. ~UNCHANGED avdVars
    BY <2>1 DEF avdVars
  <2>7. QED
    BY <2>2, <2>3, <2>4, <2>5, <2>6 DEF AvdNext
<1>2. h = g /\ gen = g
  BY <1>1 DEF TimerChecked
<1>3. QED
  BY <1>2 DEF AvdInv, TimersOK

(* Every decode is accounted for, in every interleaving of the thread, the     *)
(* interrupt and the timer.                                                    *)
THEOREM DecodesStayAccounted == AvdSpec => DecodesAccounted
<1>1. AvdInv => CompletionHasDecode /\ NoSlotLeak /\ PendingIsHeard /\ FramesInOrder
  BY DEF AvdInv, SessionsOK, PendingOK, FramesOK, Listed, NoSlotLeak, FramesInOrder
<1>2. AvdInv /\ [AvdNext]_avdVars =>
        [\A g \in expired : (g \notin expired' /\ recovery' # recovery) => \A d \in inflight : d.gen = g]_avdVars
  BY TimeoutStep
<1>3. QED
  BY <1>1, <1>2, AvdInvariant, PTL DEF AvdSpec, DecodesAccounted, TimeoutIsOwn


------------------------------------------------------------------------------
(* A set of numbers up to n that is not empty has a first one. *)
LEMMA LeastNumber ==
  ASSUME NEW n \in Nat, NEW I \in SUBSET (0 .. n), I # {}
  PROVE  \E k \in I : \A j \in I : k <= j
<1> DEFINE R == OpToRel(<, Nat)
<1>1. IsWellFoundedOn(R, Nat)
  BY NatLessThanWellFounded
<1>2. I \subseteq Nat
  OBVIOUS
<1>3. \A x, y \in Nat : <<y, x>> \in R <=> y < x
  BY DEF OpToRel
<1> HIDE DEF R
<1>4. PICK k \in I : \A j \in I : <<j, k>> \notin R
  BY <1>1, <1>2, WFMin
<1>5. ASSUME NEW j \in I PROVE k <= j
  <2>1. j \in Nat /\ k \in Nat /\ ~(j < k)
    BY <1>2, <1>3, <1>4
  <2>2. QED
    BY <2>1
<1>6. QED
  BY <1>5

(* Pictures with numbers of their own. *)
Numbered(S) == /\ IsFiniteSet(S)
               /\ \A p \in S : p.num \in Nat
               /\ \A p, q \in S : p.num = q.num => p = q

(* The k youngest are at most k. *)
LEMMA YoungestAtMost ==
  ASSUME NEW S, Numbered(S), NEW k \in Nat
  PROVE  /\ Youngest(S, k) \in SUBSET S
         /\ IsFiniteSet(Youngest(S, k))
         /\ Cardinality(Youngest(S, k)) <= k
<1> DEFINE Y == Youngest(S, k)
           Younger(p) == {q \in S : q.num > p.num}
           rank == [p \in Y |-> Cardinality(Younger(p))]
<1>1. Y \in SUBSET S
  BY DEF Youngest
<1>2. ASSUME NEW p \in S
      PROVE  IsFiniteSet(Younger(p)) /\ Cardinality(Younger(p)) \in Nat
  BY FS_Subset, FS_CardinalityType DEF Numbered
<1>3. ASSUME NEW p \in S, NEW q \in S, p.num < q.num
      PROVE  Cardinality(Younger(q)) < Cardinality(Younger(p))
  <2>1. q \in Younger(p) /\ q \notin Younger(q)
    BY <1>3 DEF Numbered
  <2>2. Younger(q) \in SUBSET Younger(p)
    BY <1>3 DEF Numbered
  <2> HIDE DEF Younger
  <2>3. Younger(q) \in SUBSET Younger(p) \ {q} /\ IsFiniteSet(Younger(p) \ {q})
    BY <1>2, <2>1, <2>2, FS_Subset
  <2>4. Cardinality(Younger(p) \ {q}) = Cardinality(Younger(p)) - 1
    BY <1>2, <2>1, FS_RemoveElement
  <2>5. Cardinality(Younger(q)) <= Cardinality(Younger(p) \ {q})
    BY <2>3, FS_Subset
  <2>6. QED
    BY <1>2, <2>4, <2>5
<1>4. \A p \in Y : Cardinality(Younger(p)) < k
  BY DEF Youngest
<1> HIDE DEF Younger, Y
<1>5. rank \in [Y -> 0 .. (k - 1)]
  <2>1. ASSUME NEW p \in Y PROVE Cardinality(Younger(p)) \in 0 .. (k - 1)
    <3>1. Cardinality(Younger(p)) \in Nat /\ Cardinality(Younger(p)) < k
      BY <1>1, <1>2, <1>4
    <3>2. QED
      BY <3>1
  <2>2. QED
    BY <2>1
<1>6. ASSUME NEW p \in Y, NEW q \in Y, rank[p] = rank[q] PROVE p = q
  <2>1. p \in S /\ q \in S /\ p.num \in Nat /\ q.num \in Nat
    BY <1>1 DEF Numbered
  <2>2. ~(p.num < q.num) /\ ~(q.num < p.num)
    <3>1. Cardinality(Younger(p)) = Cardinality(Younger(q)) /\ Cardinality(Younger(p)) \in Nat
      BY <1>2, <1>6, <2>1
    <3>2. QED
      BY <1>3, <2>1, <3>1
  <2>3. QED
    BY <2>1, <2>2 DEF Numbered
<1>7. rank \in Injection(Y, 0 .. (k - 1))
  BY <1>5, <1>6 DEF Injection, IsInjective
<1>8. IsFiniteSet(0 .. (k - 1)) /\ Cardinality(0 .. (k - 1)) = k
  BY FS_Interval
<1>9. IsFiniteSet(Y) /\ Cardinality(Y) <= k
  BY <1>7, <1>8, FS_Injection DEF ExistsInjection
<1>10. QED
  BY <1>1, <1>9 DEF Y

(* Steps from one slot on reach each slot of the pool once. *)
LEMMA RoundOnce ==
  ASSUME NEW m \in Nat, m > 0, NEW from \in Nat, NEW a \in 0 .. (m - 1), NEW b \in 0 .. (m - 1),
         (from + a) % m = (from + b) % m
  PROVE  a = b
<1> DEFINE x == (from + a) \div m
           y == (from + b) \div m
           r == (from + a) % m
<1>1. x \in Int /\ y \in Int /\ from + a = m * x + r /\ from + b = m * y + r /\ r \in Int
  OBVIOUS
<1> HIDE DEF x, y, r
<1>2. a - b = m * (x - y)
  <2>1. m * (x - y) = m * x - m * y
    BY <1>1
  <2>2. QED
    BY <1>1, <2>1
<1>3. x - y = 0
  <2>1. \A k \in Int : k >= 1 => m * k >= m
    OBVIOUS
  <2>2. \A k \in Int : k <= -1 => m * k <= -m
    OBVIOUS
  <2>3. QED
    BY <1>1, <1>2, <2>1, <2>2
<1>4. QED
  BY <1>1, <1>2, <1>3

(* With fewer pictures than slots one slot is free, and the one found is.     *)
LEMMA SlotFound ==
  ASSUME NEW S, IsFiniteSet(S), NEW m \in Nat, Cardinality(S) < m, NEW from \in Nat
  PROVE  /\ SlotAfter(S, m, from) # {}
         /\ \A s \in SlotAfter(S, m, from) : s \in 0 .. (m - 1) /\ \A p \in S : p.slot # s
<1> DEFINE free == {o \in 0 .. (m - 1) : \A p \in S : p.slot # (from + o) % m}
           pick == [o \in 0 .. (m - 1) |-> CHOOSE p \in S : p.slot = (from + o) % m]
<1>1. Cardinality(S) \in Nat /\ m > 0
  BY FS_CardinalityType
<1>2. free # {}
  <2>1. SUFFICES ASSUME free = {} PROVE FALSE
    OBVIOUS
  <2>2. ASSUME NEW o \in 0 .. (m - 1) PROVE pick[o] \in S /\ pick[o].slot = (from + o) % m
    <3>1. \E p \in S : p.slot = (from + o) % m
      BY <2>1
    <3>2. QED
      BY <3>1
  <2> HIDE DEF pick, free
  <2>3. pick \in [0 .. (m - 1) -> S]
    BY <2>2 DEF pick
  <2>4. \A a, b \in 0 .. (m - 1) : pick[a] = pick[b] => a = b
    <3>1. SUFFICES ASSUME NEW a \in 0 .. (m - 1), NEW b \in 0 .. (m - 1), pick[a] = pick[b] PROVE a = b
      OBVIOUS
    <3>2. (from + a) % m = (from + b) % m
      BY <2>2, <3>1
    <3>3. QED
      BY <1>1, <3>2, RoundOnce
  <2>5. pick \in Injection(0 .. (m - 1), S)
    BY <2>3, <2>4 DEF Injection, IsInjective
  <2>6. Cardinality(0 .. (m - 1)) <= Cardinality(S)
    BY <2>5, FS_Injection DEF ExistsInjection
  <2>7. Cardinality(0 .. (m - 1)) = m
    BY FS_Interval
  <2>8. QED
    BY <1>1, <2>6, <2>7
<1> DEFINE o1 == CHOOSE o \in free : \A q \in free : o <= q
<1>3. o1 \in free
  <2>1. free \in SUBSET (0 .. m)
    OBVIOUS
  <2>2. \E o \in free : \A q \in free : o <= q
    BY <1>2, <2>1, LeastNumber
  <2>3. QED
    BY <2>2
<1>4. SlotAfter(S, m, from) = {(from + o1) % m}
  BY <1>2 DEF SlotAfter
<1>5. o1 \in 0 .. (m - 1) /\ \A p \in S : p.slot # (from + o1) % m
  BY <1>3
<1> HIDE DEF o1, free
<1>6. (from + o1) % m \in 0 .. (m - 1)
  BY <1>1, <1>5
<1>7. QED
  BY <1>4, <1>5, <1>6

------------------------------------------------------------------------------
(* The pool of pictures *)
Pictures == [slot : Nat, num : Nat]
RefTypeOK ==
  /\ pictures \in SUBSET Pictures
  /\ picture \in SUBSET [slot : Nat, num : Nat, store : BOOLEAN, idr : BOOLEAN, cap : Nat]
  /\ nextSlot \in Nat /\ nextFrame \in Nat /\ shape.slots \in Nat

(* Pictures have numbers of their own, the pending one the latest.            *)
InOrder == /\ Numbered(pictures)
           /\ \A p \in pictures : p.num < nextFrame
           /\ \A d \in picture : d.num < nextFrame /\ \A p \in pictures : p.num < d.num

RefInv == RefTypeOK /\ InOrder /\ ReferencesKept /\ \A d \in picture : d.slot < shape.slots

LEMMA NumberedSubset ==
  ASSUME NEW S, Numbered(S), NEW T \in SUBSET S
  PROVE  Numbered(T)
BY FS_Subset DEF Numbered

(* What is kept for a request is at most the references it may use.           *)
LEMMA PruneAtMost ==
  ASSUME RefAssumption, NEW S, Numbered(S), NEW matched, NEW entries \in Nat, NEW n \in Nat
  PROVE  /\ Prune(S, matched, entries, n) \in SUBSET S
         /\ Numbered(Prune(S, matched, entries, n))
         /\ Cardinality(Prune(S, matched, entries, n)) <= AtMost(n, TableLen)
<1> DEFINE target == AtMost(AtMost(entries, n), TableLen)
           K == Prune(S, matched, entries, n)
<1>1. target \in Nat /\ target <= AtMost(n, TableLen) /\ AtMost(n, TableLen) \in Nat
  BY DEF AtMost, RefAssumption
<1>2. Numbered(S \cap matched)
  BY NumberedSubset
<1>3. CASE target = 0
  <2>1. K = {}
    BY <1>3 DEF Prune
  <2>2. QED
    BY <1>1, <2>1, NumberedSubset, FS_EmptySet
<1>4. CASE target # 0
  <2>1. K = Youngest(S \cap matched, target)
    BY <1>4 DEF Prune
  <2>2. K \in SUBSET (S \cap matched) /\ Cardinality(K) <= target /\ IsFiniteSet(K)
    BY <1>1, <1>2, <2>1, YoungestAtMost
  <2>3. Cardinality(K) \in Nat
    BY <2>2, FS_CardinalityType
  <2> HIDE DEF K, target
  <2>4. QED
    BY <1>1, <1>2, <2>2, <2>3, NumberedSubset DEF K
<1>5. QED
  BY <1>3, <1>4

LEMMA SubmitPictureStep ==
  ASSUME RefAssumption, RefInv, NEW span \in Spans, NEW n \in 0 .. TableLen, NEW fit \in 0 .. MaxFit,
         NEW store \in BOOLEAN, NEW idr \in BOOLEAN, NEW remap \in {"none", "output", "workspace"},
         NEW matched \in SUBSET pictures, NEW entries \in 0 .. TableLen,
         SubmitPicture(span, n, store, fit, idr, remap, matched, entries)
  PROVE  RefInv'
<1> DEFINE plan == Plan(span, n, store, fit)
           base == IF remap = "none" THEN pictures ELSE {}
           kept == Prune(base, matched, entries, n)
           from == IF remap = "none" THEN nextSlot ELSE 0
           sh   == IF remap = "output" THEN NoShape ELSE shape
           slot == ChooseSlot(kept, plan, from, idr, sh)
           left == Retained(kept, plan, idr, sh)
<1>1. /\ TableLen \in Nat /\ n \in Nat /\ fit \in Nat /\ entries \in Nat
      /\ plan.slots \in Nat /\ plan.slots >= 1 /\ plan.cap \in Nat
      /\ AtMost(n, TableLen) \in Nat
  BY DEF Plan, PlanSlots, PlanCap, AtMost, AtLeast, RefAssumption
<1>2. AtMost(n, TableLen) < plan.slots
  <2>1. PlanFits(n, store, fit)
    BY DEF SubmitPicture
  <2>2. QED
    BY <1>1, <2>1 DEF PlanFits, Plan, PlanSlots, PlanCap, AtMost, AtLeast
<1>3. base \in SUBSET pictures /\ Numbered(base)
  BY NumberedSubset DEF RefInv, InOrder
<1>4. kept \in SUBSET base /\ Numbered(kept) /\ Cardinality(kept) <= AtMost(n, TableLen)
  BY <1>1, <1>3, PruneAtMost
<1>5. Cardinality(kept) < plan.slots /\ IsFiniteSet(kept)
  <2>1. IsFiniteSet(kept) /\ Cardinality(kept) \in Nat
    BY <1>4, FS_CardinalityType DEF Numbered
  <2> HIDE DEF kept, plan
  <2>2. QED
    BY <1>1, <1>2, <1>4, <2>1
<1>6. picture = {} /\ nextFrame' = nextFrame + 1 /\ nextFrame \in Nat /\ from \in Nat
  BY DEF SubmitPicture, RefInv, RefTypeOK
<1> HIDE DEF plan, base, kept, from
<1>7. /\ slot # {} /\ left \in SUBSET pictures /\ Numbered(left)
      /\ \A s \in slot : s \in Nat /\ s < plan.slots /\ \A p \in left : p.slot # s
  <2>1. CASE idr \/ sh # plan
    <3>1. slot = {0} /\ left = {}
      BY <2>1 DEF ChooseSlot, Retained
    <3>2. QED
      BY <1>1, <3>1, <1>3, NumberedSubset
  <2>2. CASE ~(idr \/ sh # plan)
    <3>1. slot = SlotAfter(kept, plan.slots, from) /\ left = kept
      BY <2>2 DEF ChooseSlot, Retained
    <3>2. slot # {} /\ \A s \in slot : s \in 0 .. (plan.slots - 1) /\ \A p \in kept : p.slot # s
      BY <1>1, <1>5, <1>6, <3>1, SlotFound
    <3>3. QED
      BY <1>1, <1>3, <1>4, <3>1, <3>2
  <2>3. QED
    BY <2>1, <2>2
<1>8. \A p \in left : p.slot < plan.slots
  <2>1. CASE idr \/ sh # plan
    BY <2>1 DEF Retained
  <2>2. CASE sh = plan
    <3>1. remap # "output"
      BY <1>1, <2>2 DEF NoShape
    <3>2. \A p \in pictures : p.slot < plan.slots
      BY <2>2, <3>1 DEF RefInv, ReferencesKept, SlotsDistinct
    <3>3. QED
      BY <1>7, <3>2
  <2>3. QED
    BY <2>1, <2>2
<1>9. /\ noSlot' = noSlot /\ pictures' = left /\ shape' = plan
      /\ \E s \in slot :
           /\ nextSlot' = (s + 1) % plan.slots
           /\ \/ picture' = {[slot |-> s, num |-> nextFrame, store |-> store, idr |-> idr, cap |-> plan.cap]}
              \/ picture' = {}
  BY <1>6, <1>7 DEF SubmitPicture, plan, base, kept, from
<1> HIDE DEF slot, left, sh
<1>10. PICK s \in slot : /\ nextSlot' = (s + 1) % plan.slots
                         /\ \/ picture' = {[slot |-> s, num |-> nextFrame, store |-> store, idr |-> idr, cap |-> plan.cap]}
                            \/ picture' = {}
  BY <1>9
<1>11. s \in Nat /\ s < plan.slots /\ (\A p \in left : p.slot # s) /\ nextSlot' \in Nat
  <2>1. s \in Nat /\ s < plan.slots /\ \A p \in left : p.slot # s
    BY <1>7
  <2>2. (s + 1) % plan.slots \in Nat
    BY <1>1, <2>1
  <2>3. QED
    BY <1>10, <2>1, <2>2
<1>12. RefTypeOK'
  BY <1>1, <1>6, <1>7, <1>9, <1>10, <1>11 DEF RefInv, RefTypeOK, Pictures
<1>13. InOrder'
  <2>1. Numbered(pictures)'
    BY <1>7, <1>9 DEF Numbered
  <2>2. \A p \in left : p.num \in Nat /\ p.num < nextFrame
    BY <1>7 DEF RefInv, InOrder, Numbered
  <2>3. QED
    BY <1>6, <1>9, <1>10, <2>1, <2>2 DEF InOrder
<1>14. ReferencesKept'
  <2>1. WritesFreeSlot'
    BY <1>9, <1>10, <1>11 DEF WritesFreeSlot
  <2>2. SlotsDistinct'
    BY <1>7, <1>8, <1>9 DEF RefInv, ReferencesKept, SlotsDistinct
  <2>3. AlwaysASlot'
    BY <1>9 DEF RefInv, ReferencesKept, AlwaysASlot
  <2>4. QED
    BY <2>1, <2>2, <2>3 DEF ReferencesKept
<1>15. \A d \in picture' : d.slot < shape'.slots
  BY <1>9, <1>10, <1>11
<1>16. QED
  BY <1>12, <1>13, <1>14, <1>15 DEF RefInv

LEMMA CommitPictureStep ==
  ASSUME RefAssumption, RefInv, CommitPicture
  PROVE  RefInv'
<1>1. PICK d \in picture :
        pictures' = LET base == IF d.idr THEN {} ELSE pictures
                    IN  IF d.store
                        THEN Youngest(Insert(base, [slot |-> d.slot, num |-> d.num]), AtLeast(d.cap, 1))
                        ELSE base
  BY DEF CommitPicture
<1> DEFINE base == IF d.idr THEN {} ELSE pictures
           p1 == [slot |-> d.slot, num |-> d.num]
           others == {q \in base : q.slot # p1.slot}
<1>2. picture' = {} /\ UNCHANGED <<nextSlot, shape, nextFrame, noSlot>>
  BY DEF CommitPicture
<1>3. /\ d.slot \in Nat /\ d.num \in Nat /\ d.num < nextFrame /\ d.slot < shape.slots
      /\ \A p \in pictures : p.num < d.num
  BY DEF RefInv, RefTypeOK, InOrder
<1>4. Insert(base, p1) \in SUBSET (others \cup {p1})
  <2>1. \A k : Youngest(others, k) \in SUBSET others
    BY DEF Youngest
  <2>2. QED
    BY <2>1 DEF Insert
<1>5. pictures' \in SUBSET (pictures \cup {p1}) /\ (p1 \in pictures' => \A p \in pictures' : p.slot = p1.slot => p = p1)
  <2>1. CASE d.store
    <3>1. pictures' \in SUBSET Insert(base, p1)
      BY <1>1, <2>1 DEF Youngest
    <3> HIDE DEF p1
    <3>2. QED
      BY <1>4, <3>1
  <2>2. CASE ~d.store
    <3>1. pictures' \in SUBSET pictures
      BY <1>1, <2>2
    <3>2. p1 \notin pictures
      BY <1>3
    <3>3. QED
      BY <3>1, <3>2
  <2>3. QED
    BY <2>1, <2>2
<1>6. p1 \in Pictures /\ p1.slot = d.slot /\ p1.num = d.num
  BY <1>3 DEF Pictures
<1> HIDE DEF p1
<1>7. RefTypeOK'
  BY <1>2, <1>5, <1>6 DEF RefInv, RefTypeOK
<1>8. InOrder'
  <2>1. IsFiniteSet(pictures')
    <3>1. IsFiniteSet(pictures \cup {p1})
      BY FS_AddElement DEF RefInv, InOrder, Numbered
    <3>2. QED
      BY <1>5, <3>1, FS_Subset
  <2>2. \A p \in pictures \cup {p1} : p.num \in Nat /\ p.num < nextFrame
    BY <1>3, <1>6 DEF RefInv, InOrder, Numbered
  <2>3. \A p, q \in pictures \cup {p1} : p.num = q.num => p = q
    <3>1. \A p \in pictures : p.num \in Nat /\ p.num # p1.num
      BY <1>3, <1>6 DEF RefInv, InOrder, Numbered
    <3>2. QED
      BY <3>1 DEF RefInv, InOrder, Numbered
  <2>4. QED
    BY <1>2, <1>5, <2>1, <2>2, <2>3 DEF InOrder, Numbered
<1>9. ReferencesKept'
  BY <1>2, <1>3, <1>5, <1>6 DEF RefInv, ReferencesKept, WritesFreeSlot, SlotsDistinct, AlwaysASlot
<1>10. QED
  BY <1>2, <1>7, <1>8, <1>9 DEF RefInv

LEMMA RefInitOK == RefInit => RefInv
<1>1. SUFFICES ASSUME RefInit PROVE RefInv
  OBVIOUS
<1>2. RefTypeOK /\ InOrder
  BY <1>1, FS_EmptySet DEF RefInit, RefTypeOK, InOrder, Numbered, NoShape
<1>3. ReferencesKept /\ picture = {}
  BY <1>1 DEF RefInit, ReferencesKept, WritesFreeSlot, SlotsDistinct, AlwaysASlot
<1>4. QED
  BY <1>2, <1>3 DEF RefInv

LEMMA SessionResetStep ==
  ASSUME RefInv, SessionReset
  PROVE  RefInv'
<1>1. RefTypeOK' /\ InOrder'
  BY FS_EmptySet DEF SessionReset, RefInv, RefTypeOK, InOrder, Numbered, NoShape
<1>2. ReferencesKept' /\ picture' = {}
  BY DEF SessionReset, RefInv, ReferencesKept, WritesFreeSlot, SlotsDistinct, AlwaysASlot
<1>3. QED
  BY <1>1, <1>2 DEF RefInv

(* A picture later frames may need is never written over, no two pictures      *)
(* share a slot, and a stream within its plan always finds a slot for its next *)
(* frame, for any length of the table and of the pool.                         *)
THEOREM ReferencesStayKept == RefSpec => []ReferencesKept
<1>1. ASSUME RefInv, [RefNext]_refVars PROVE RefInv'
  <2>1. CASE RefNext
    BY <1>1, <2>1, RefAssumption, SubmitPictureStep, CommitPictureStep, SessionResetStep DEF RefNext
  <2>2. CASE UNCHANGED refVars
    BY <1>1, <2>2 DEF RefInv, RefTypeOK, InOrder, ReferencesKept, WritesFreeSlot, SlotsDistinct, AlwaysASlot, refVars
  <2>3. QED
    BY <1>1, <2>1, <2>2
<1>2. RefInv => ReferencesKept
  BY DEF RefInv
<1>3. QED
  BY <1>1, <1>2, RefInitOK, PTL DEF RefSpec

------------------------------------------------------------------------------
(* The firmware's messages *)
PipeLines == {PipeBase + 5 * p + k : p \in 0 .. (PipeCount - 1), k \in 0 .. 2}
Ends == {MsgVpDone + s : s \in 0 .. (PipeCount - 1)} \cup {MsgPpDone}
Faults == {MsgVpError + s : s \in Slots} \cup {MsgUnknown + irq : irq \in {0, 1003, 1015}}

FwTypeOK ==
  /\ chip \in {"v2", "v3", "later"} /\ cpu \in {"reset", "running", "stuck"}
  /\ \A p \in pendingBits : /\ p = <<p[1], p[2]>> /\ p[1] \in Slots /\ p[2] \in {"unknown", "error", "done"}
                            /\ ~(p[1] = SubmitSlot /\ p[2] = "error")
  /\ raised \in [Slots -> Nat]
  /\ \A m \in DOMAIN told : told[m] \in Nat

(* Once started the chip's lines are enabled; only a firmware that is stuck    *)
(* has told of a fault.                                                        *)
Told == /\ cpu # "reset" => lines = PipeLines \cup {SubmitIrq, PostIrq}
        /\ DOMAIN told \in SUBSET (Ends \cup Faults)
        /\ cpu # "stuck" => DOMAIN told \in SUBSET Ends

FwInv == FwTypeOK /\ Told /\ DoneToldOnce

(* v is the handler of the k-th line of pipe q of the lines from base on.      *)
HandlerAt(v, base, q, k) ==
  /\ v.line = base + 5 * q + k /\ v.slot = q
  /\ v.bit = CASE k = 0 -> "unknown" [] k = 1 -> "error" [] OTHER -> "done"

IsHandler(v, base, q, k) ==
  /\ (base = 18 /\ q \in 0 .. 3) \/ (base = 78 /\ q \in 0 .. 11)
  /\ k \in 0 .. 2 /\ HandlerAt(v, base, q, k)

LEMMA TriplesAre ==
  ASSUME NEW base \in Nat, NEW n \in Nat
  PROVE  /\ \A v \in Triples(base, n) : \E q \in 0 .. (n - 1), k \in 0 .. 2 : HandlerAt(v, base, q, k)
         /\ \A q \in 0 .. (n - 1), k \in 0 .. 2 : \E v \in Triples(base, n) : v.line = base + 5 * q + k
<1> DEFINE T(q, k) == [line |-> base + 5 * q + k, slot |-> q,
                       bit |-> CASE k = 0 -> "unknown" [] k = 1 -> "error" [] OTHER -> "done"]
<1>1. Triples(base, n) = {T(q, k) : q \in 0 .. (n - 1), k \in 0 .. 2}
  BY DEF Triples
<1>2. \A q, k : /\ T(q, k).line = base + 5 * q + k /\ T(q, k).slot = q
                /\ T(q, k).bit = CASE k = 0 -> "unknown" [] k = 1 -> "error" [] OTHER -> "done"
  OBVIOUS
<1> HIDE DEF T
<1>3. ASSUME NEW v \in Triples(base, n)
      PROVE  \E q \in 0 .. (n - 1), k \in 0 .. 2 : v = T(q, k)
  BY <1>1
<1>4. ASSUME NEW q \in 0 .. (n - 1), NEW k \in 0 .. 2
      PROVE  T(q, k) \in Triples(base, n)
  BY <1>1
<1>5. ASSUME NEW v \in Triples(base, n)
      PROVE  \E q \in 0 .. (n - 1), k \in 0 .. 2 : HandlerAt(v, base, q, k)
  <2>1. PICK q \in 0 .. (n - 1), k \in 0 .. 2 : v = T(q, k)
    BY <1>3
  <2>2. HandlerAt(v, base, q, k)
    BY <1>2, <2>1 DEF HandlerAt
  <2>3. QED
    BY <2>2
<1>6. ASSUME NEW q \in 0 .. (n - 1), NEW k \in 0 .. 2
      PROVE  \E v \in Triples(base, n) : v.line = base + 5 * q + k
  BY <1>2, <1>4
<1>7. QED
  BY <1>5, <1>6

(* Which line a pending bit raises, and which handler takes it.                *)
LEMMA LineIsHandled ==
  ASSUME FwInv, cpu = "running", NEW p \in pendingBits
  PROVE  /\ LineOf(p[1], p[2]) \in lines
         /\ \A v \in Vectors : LineOf(p[1], p[2]) = v.line =>
              p = <<v.slot, v.bit>> /\ v.slot \in 0 .. (PipeCount - 1) /\ v.slot # SubmitSlot
         /\ LineOf(p[1], p[2]) \in PostLines => p = <<SubmitSlot, "done">>
         /\ LineOf(p[1], p[2]) \in SubmitLines => p = <<SubmitSlot, "unknown">>
         /\ LineOf(p[1], p[2]) \in {v.line : v \in Vectors} \cup PostLines \cup SubmitLines
<1> DEFINE s == p[1]
           b == p[2]
           k == CASE b = "unknown" -> 0 [] b = "error" -> 1 [] OTHER -> 2
<1>1. /\ p = <<s, b>> /\ s \in Slots /\ b \in {"unknown", "error", "done"} /\ ~(s = SubmitSlot /\ b = "error")
      /\ chip \in {"v2", "v3", "later"} /\ lines = PipeLines \cup {SubmitIrq, PostIrq}
  BY DEF FwInv, FwTypeOK, Told
<1>2. \A v \in Vectors : \E base, q, j : IsHandler(v, base, q, j)
  <2>1. SUFFICES ASSUME NEW v \in Vectors PROVE \E base, q, j : IsHandler(v, base, q, j)
    OBVIOUS
  <2>2. CASE v \in Triples(18, 4)
    <3> 18 \in Nat /\ 4 \in Nat /\ 4 - 1 = 3
      OBVIOUS
    <3>1. PICK q \in 0 .. (4 - 1), j \in 0 .. 2 : HandlerAt(v, 18, q, j)
      BY <2>2, TriplesAre
    <3>2. IsHandler(v, 18, q, j)
      BY <3>1 DEF IsHandler
    <3>3. QED
      BY <3>2
  <2>3. CASE v \in Triples(78, 12)
    <3> 78 \in Nat /\ 12 \in Nat /\ 12 - 1 = 11
      OBVIOUS
    <3>1. PICK q \in 0 .. (12 - 1), j \in 0 .. 2 : HandlerAt(v, 78, q, j)
      BY <2>3, TriplesAre
    <3>2. IsHandler(v, 78, q, j)
      BY <3>1 DEF IsHandler
    <3>3. QED
      BY <3>2
  <2>4. QED
    BY <2>1, <2>2, <2>3 DEF Vectors
<1>3. \A q \in 0 .. (PipeCount - 1), j \in 0 .. 2 : PipeBase + 5 * q + j \in {v.line : v \in Vectors}
  <2>1. SUFFICES ASSUME NEW q \in 0 .. (PipeCount - 1), NEW j \in 0 .. 2
                 PROVE  PipeBase + 5 * q + j \in {v.line : v \in Vectors}
    OBVIOUS
  <2>2. Triples(PipeBase, PipeCount) \in SUBSET Vectors /\ PipeBase \in Nat /\ PipeCount \in Nat
    BY DEF Vectors, PipeBase, PipeCount
  <2>3. PICK v \in Triples(PipeBase, PipeCount) : v.line = PipeBase + 5 * q + j
    BY <2>1, <2>2, TriplesAre
  <2>4. QED
    BY <2>2, <2>3
<1>4. k \in 0 .. 2 /\ (k = 0 => b = "unknown") /\ (k = 1 => b = "error") /\ (k = 2 => b = "done")
  BY <1>1
<1>5. CASE s = SubmitSlot
  <2>1. LineOf(s, b) = IF b = "done" THEN PostIrq ELSE SubmitIrq
    BY <1>5 DEF LineOf
  <2>2. LineOf(s, b) \in {38, 40, 62, 64} /\ (LineOf(s, b) \in PostLines <=> b = "done")
        /\ (LineOf(s, b) \in SubmitLines <=> b # "done")
    BY <1>1, <2>1 DEF PostIrq, SubmitIrq, PostLines, SubmitLines
  <2>3. \A v \in Vectors : v.line \in 18 .. 35 \cup 78 .. 135
    BY <1>2 DEF IsHandler, HandlerAt
  <2>4. QED
    BY <1>1, <1>5, <2>1, <2>2, <2>3 DEF PostLines, SubmitLines
<1>6. CASE s # SubmitSlot
  <2>1. s \in 0 .. (PipeCount - 1) /\ LineOf(s, b) = PipeBase + 5 * s + k
    BY <1>1, <1>6 DEF LineOf, Slots
  <2>2. PipeBase + 5 * s + k \in 18 .. 35 \cup 78 .. 135
    BY <1>1, <1>4, <2>1 DEF PipeBase, PipeCount
  <2>3. ASSUME NEW v \in Vectors, PipeBase + 5 * s + k = v.line
        PROVE  v.slot = s /\ v.bit = b
    <3>1. PICK base, q, j : IsHandler(v, base, q, j)
      BY <1>2
    <3>2. base = PipeBase
      BY <1>1, <1>4, <2>1, <2>3, <3>1 DEF PipeBase, PipeCount, IsHandler, HandlerAt
    <3>3. q = s /\ j = k
      BY <1>1, <1>4, <2>1, <2>3, <3>1, <3>2 DEF PipeBase, PipeCount, IsHandler, HandlerAt
    <3>4. QED
      BY <1>1, <1>4, <3>1, <3>3 DEF IsHandler, HandlerAt
  <2>4. LineOf(s, b) \in lines
    BY <1>1, <1>4, <2>1 DEF PipeLines
  <2>5. LineOf(s, b) \notin PostLines \cup SubmitLines
    BY <2>1, <2>2 DEF PostLines, SubmitLines
  <2>6. QED
    BY <1>1, <1>3, <1>4, <1>6, <2>1, <2>3, <2>4, <2>5
<1>7. QED
  BY <1>5, <1>6

LEMMA CountIsTold ==
  ASSUME FwTypeOK, NEW m
  PROVE  Count(m) \in Nat
BY DEF Count, FwTypeOK

(* A message sent is counted once, and no other is.                            *)
LEMMA SendCounts ==
  ASSUME FwTypeOK, NEW number, Send(number)
  PROVE  /\ DOMAIN told' = DOMAIN told \cup {number}
         /\ \A m : Count(m)' = Count(m) + IF m = number THEN 1 ELSE 0
         /\ \A m \in DOMAIN told' : told'[m] \in Nat
<1>1. \A m : Count(m) \in Nat
  BY CountIsTold
<1>2. /\ DOMAIN told' = DOMAIN told \cup {number}
      /\ \A m \in DOMAIN told \cup {number} : told'[m] = Count(m) + IF m = number THEN 1 ELSE 0
  BY DEF Send
<1>3. ASSUME NEW m PROVE Count(m)' = Count(m) + IF m = number THEN 1 ELSE 0
  <2>1. CASE m \in DOMAIN told \cup {number}
    BY <1>2, <2>1 DEF Count
  <2>2. CASE m \notin DOMAIN told \cup {number}
    BY <1>2, <2>2 DEF Count
  <2>3. QED
    BY <2>1, <2>2
<1>4. QED
  BY <1>1, <1>2, <1>3

DoneMessage(s) == IF s = SubmitSlot THEN MsgPpDone ELSE MsgVpDone + s

LEMMA StageRaisesStep ==
  ASSUME FwInv, NEW slot, NEW bit \in {"unknown", "error", "done"}, StageRaises(slot, bit)
  PROVE  FwInv'
<1>1. /\ slot \in Slots /\ ~(slot = SubmitSlot /\ bit = "error") /\ <<slot, bit>> \notin pendingBits
      /\ pendingBits' = pendingBits \cup {<<slot, bit>>}
      /\ raised' = IF bit = "done" THEN [raised EXCEPT ![slot] = @ + 1] ELSE raised
      /\ UNCHANGED <<chip, lines, cpu, told>>
  BY DEF StageRaises
<1>2. Slots' = Slots /\ SubmitSlot' = SubmitSlot
  BY <1>1 DEF Slots, PipeCount, SubmitSlot
<1>3. FwTypeOK'
  BY <1>1, <1>2 DEF FwInv, FwTypeOK
<1>4. Told'
  BY <1>1, <1>2 DEF FwInv, Told, PipeLines, PipeBase, PipeCount, SubmitIrq, PostIrq, Ends, Faults
<1>5. ASSUME cpu # "stuck", NEW s \in Slots
      PROVE  raised'[s] = Count(DoneMessage(s)) + Cardinality(pendingBits' \cap {<<s, "done">>})
  <2>1. raised[s] = Count(DoneMessage(s)) + Cardinality(pendingBits \cap {<<s, "done">>})
    BY <1>5 DEF FwInv, DoneToldOnce, DoneMessage
  <2>2. CASE s = slot /\ bit = "done"
    <3>1. pendingBits \cap {<<s, "done">>} = {} /\ pendingBits' \cap {<<s, "done">>} = {<<s, "done">>}
      BY <1>1, <2>2
    <3>2. raised'[s] = raised[s] + 1
      BY <1>1, <2>2 DEF FwInv, FwTypeOK
    <3>3. Count(DoneMessage(s)) \in Nat
      BY CountIsTold DEF FwInv
    <3>4. Cardinality({}) = 0 /\ Cardinality({<<s, "done">>}) = 1
      BY FS_EmptySet, FS_Singleton
    <3>5. raised[s] = Count(DoneMessage(s)) + Cardinality({})
      BY <2>1, <3>1
    <3>6. raised[s] = Count(DoneMessage(s))
      BY <3>3, <3>4, <3>5
    <3>7. QED
      BY <3>1, <3>2, <3>4, <3>6
  <2>3. CASE ~(s = slot /\ bit = "done")
    <3>1. pendingBits' \cap {<<s, "done">>} = pendingBits \cap {<<s, "done">>}
      BY <1>1, <2>3
    <3>2. raised'[s] = raised[s]
      BY <1>1, <2>3 DEF FwInv, FwTypeOK
    <3>3. QED
      BY <2>1, <3>1, <3>2
  <2>4. QED
    BY <2>2, <2>3
<1>6. DoneToldOnce'
  BY <1>1, <1>2, <1>5 DEF DoneToldOnce, DoneMessage, Count
<1>7. QED
  BY <1>3, <1>4, <1>6 DEF FwInv

(* A handler that clears its bit, and tells of it if it is the end of a stage. *)
LEMMA HandledStep ==
  ASSUME FwInv, cpu = "running", NEW p \in pendingBits, pendingBits' = pendingBits \ {p},
         UNCHANGED <<chip, lines, cpu, raised>>,
         IF p[2] = "done" THEN Send(DoneMessage(p[1])) ELSE told' = told
  PROVE  FwInv'
<1>1. /\ p = <<p[1], p[2]>> /\ p[1] \in Slots
      /\ chip \in {"v2", "v3", "later"} /\ FwTypeOK
  BY DEF FwInv, FwTypeOK
<1>2. /\ Slots' = Slots /\ SubmitSlot' = SubmitSlot /\ PipeLines' = PipeLines
      /\ SubmitIrq' = SubmitIrq /\ PostIrq' = PostIrq /\ Ends' = Ends /\ Faults' = Faults
      /\ \A s : DoneMessage(s)' = DoneMessage(s)
  BY DEF Slots, PipeLines, Ends, Faults, PipeBase, PipeCount, SubmitSlot, SubmitIrq, PostIrq, DoneMessage
<1>3. DoneMessage(p[1]) \in Ends
  BY <1>1 DEF DoneMessage, Ends, Slots
<1>4. /\ DOMAIN told' \in SUBSET (DOMAIN told \cup {DoneMessage(p[1])})
      /\ \A m \in DOMAIN told' : told'[m] \in Nat
      /\ \A m : Count(m)' = Count(m) + IF p[2] = "done" /\ m = DoneMessage(p[1]) THEN 1 ELSE 0
  <2>1. CASE p[2] = "done"
    BY <1>1, <2>1, SendCounts
  <2>2. CASE p[2] # "done"
    <3>1. told' = told /\ \A m : Count(m)' = Count(m) /\ Count(m) \in Nat
      BY <1>1, <2>2, CountIsTold DEF Count
    <3>2. QED
      BY <1>1, <2>2, <3>1 DEF FwTypeOK
  <2>3. QED
    BY <2>1, <2>2
<1>5. FwTypeOK'
  BY <1>1, <1>2, <1>4 DEF FwTypeOK
<1>6. Told'
  BY <1>2, <1>3, <1>4 DEF FwInv, Told
<1>7. ASSUME NEW s \in Slots
      PROVE  raised[s] = Count(DoneMessage(s))' + Cardinality(pendingBits' \cap {<<s, "done">>})
  <2>1. raised[s] = Count(DoneMessage(s)) + Cardinality(pendingBits \cap {<<s, "done">>})
    BY <1>7 DEF FwInv, DoneToldOnce, DoneMessage
  <2>2. Count(DoneMessage(s)) \in Nat
    BY <1>1, CountIsTold
  <2>3. CASE p = <<s, "done">>
    <3>1. pendingBits \cap {<<s, "done">>} = {<<s, "done">>} /\ pendingBits' \cap {<<s, "done">>} = {}
      BY <2>3
    <3>2. Count(DoneMessage(s))' = Count(DoneMessage(s)) + 1
      BY <1>2, <1>4, <2>3
    <3>3. Cardinality({}) = 0 /\ Cardinality({<<s, "done">>}) = 1
      BY FS_EmptySet, FS_Singleton
    <3>4. raised[s] = Count(DoneMessage(s)) + 1
      BY <2>1, <3>1, <3>3
    <3>5. Cardinality(pendingBits' \cap {<<s, "done">>}) = 0
      BY <3>1, <3>3
    <3>6. QED
      BY <2>2, <3>2, <3>4, <3>5
  <2>4. CASE p # <<s, "done">>
    <3>1. pendingBits' \cap {<<s, "done">>} = pendingBits \cap {<<s, "done">>}
      BY <2>4
    <3>2. ~(p[2] = "done" /\ DoneMessage(s) = DoneMessage(p[1]))
      <4>1. p[2] = "done" => s # p[1]
        BY <1>1, <2>4
      <4>2. s \in 0 .. 13 /\ p[1] \in 0 .. 13
        BY <1>1, <1>7 DEF Slots, PipeCount, SubmitSlot
      <4>3. QED
        BY <4>1, <4>2 DEF DoneMessage, MsgVpDone, MsgPpDone
    <3>3. Count(DoneMessage(s))' = Count(DoneMessage(s))
      BY <1>2, <1>4, <2>2, <3>2
    <3>4. QED
      BY <2>1, <3>1, <3>3
  <2>5. QED
    BY <2>3, <2>4
<1>8. DoneToldOnce'
  BY <1>2, <1>7 DEF DoneToldOnce, DoneMessage
<1>9. QED
  BY <1>5, <1>6, <1>8 DEF FwInv

(* A firmware that tells of a fault waits for ever.                            *)
LEMMA StuckStep ==
  ASSUME FwInv, NEW number \in Faults, Send(number), cpu' = "stuck",
         pendingBits' \in SUBSET pendingBits, UNCHANGED <<chip, lines, raised>>, cpu = "running"
  PROVE  FwInv'
<1>1. /\ Slots' = Slots /\ SubmitSlot' = SubmitSlot /\ PipeLines' = PipeLines
      /\ SubmitIrq' = SubmitIrq /\ PostIrq' = PostIrq /\ Ends' = Ends /\ Faults' = Faults
  BY DEF Slots, PipeLines, Ends, Faults, PipeBase, PipeCount, SubmitSlot, SubmitIrq, PostIrq
<1>2. /\ DOMAIN told' = DOMAIN told \cup {number}
      /\ \A m \in DOMAIN told' : told'[m] \in Nat
  BY SendCounts DEF FwInv
<1>3. FwTypeOK'
  BY <1>1, <1>2 DEF FwInv, FwTypeOK
<1>4. Told' /\ DoneToldOnce'
  BY <1>1, <1>2 DEF FwInv, Told, DoneToldOnce
<1>5. QED
  BY <1>3, <1>4 DEF FwInv

LEMMA FwNextOK ==
  ASSUME FwInv, FwNext
  PROVE  FwInv'
<1>1. CASE FwStart
  <2>1. /\ cpu = "reset" /\ cpu' = "running" /\ lines' = PipeLines \cup {SubmitIrq, PostIrq}
        /\ UNCHANGED <<chip, pendingBits, raised, told>>
    BY <1>1 DEF FwStart, PipeLines
  <2>2. /\ Slots' = Slots /\ SubmitSlot' = SubmitSlot /\ PipeLines' = PipeLines
        /\ SubmitIrq' = SubmitIrq /\ PostIrq' = PostIrq /\ Ends' = Ends /\ Faults' = Faults
    BY <2>1 DEF Slots, PipeLines, Ends, Faults, PipeBase, PipeCount, SubmitSlot, SubmitIrq, PostIrq
  <2>3. FwTypeOK' /\ Told'
    BY <2>1, <2>2 DEF FwInv, FwTypeOK, Told
  <2>4. DoneToldOnce'
    BY <2>1, <2>2 DEF FwInv, DoneToldOnce, Count
  <2>5. QED
    BY <2>3, <2>4 DEF FwInv
<1>2. ASSUME NEW v \in Vectors, VideoPipeUnknown(v) PROVE FwInv'
  <2>1. PICK p \in pendingBits : LineOf(p[1], p[2]) = v.line
    BY <1>2 DEF VideoPipeUnknown, Asserted
  <2>2. cpu = "running" /\ p = <<v.slot, v.bit>>
    BY <1>2, <2>1, LineIsHandled DEF VideoPipeUnknown, Asserted
  <2>3. QED
    BY <1>2, <2>2, HandledStep DEF VideoPipeUnknown, Cleared
<1>3. ASSUME NEW v \in Vectors, VideoPipeDone(v) PROVE FwInv'
  <2>1. PICK p \in pendingBits : LineOf(p[1], p[2]) = v.line
    BY <1>3 DEF VideoPipeDone, Asserted
  <2>2. cpu = "running" /\ p = <<v.slot, v.bit>> /\ v.slot # SubmitSlot
    BY <1>3, <2>1, LineIsHandled DEF VideoPipeDone, Asserted
  <2>3. Send(DoneMessage(p[1])) /\ p[2] = "done"
    BY <1>3, <2>2 DEF VideoPipeDone, DoneMessage
  <2>4. QED
    BY <1>3, <2>2, <2>3, HandledStep DEF VideoPipeDone, Cleared
<1>4. ASSUME NEW v \in Vectors, VideoPipeError(v) PROVE FwInv'
  <2>1. PICK p \in pendingBits : LineOf(p[1], p[2]) = v.line
    BY <1>4 DEF VideoPipeError, Asserted
  <2>2. cpu = "running" /\ v.slot \in Slots
    BY <1>4, <2>1, LineIsHandled DEF VideoPipeError, Asserted, Slots
  <2>3. MsgVpError + v.slot \in Faults
    BY <2>2 DEF Faults
  <2>4. QED
    BY <1>4, <2>2, <2>3, StuckStep DEF VideoPipeError, Cleared
<1>5. CASE SubmitUnknown
  <2>1. PICK line \in SubmitLines : Asserted(line)
    BY <1>5 DEF SubmitUnknown
  <2>2. PICK p \in pendingBits : LineOf(p[1], p[2]) = line
    BY <2>1 DEF Asserted
  <2>3. cpu = "running" /\ p = <<SubmitSlot, "unknown">>
    BY <2>1, <2>2, LineIsHandled DEF Asserted
  <2>4. QED
    BY <1>5, <2>3, HandledStep DEF SubmitUnknown, Cleared
<1>6. CASE PostProcessDone
  <2>1. PICK line \in PostLines : Asserted(line)
    BY <1>6 DEF PostProcessDone
  <2>2. PICK p \in pendingBits : LineOf(p[1], p[2]) = line
    BY <2>1 DEF Asserted
  <2>3. cpu = "running" /\ p = <<SubmitSlot, "done">>
    BY <2>1, <2>2, LineIsHandled DEF Asserted
  <2>4. Send(DoneMessage(p[1])) /\ p[2] = "done"
    BY <1>6, <2>3 DEF PostProcessDone, DoneMessage
  <2>5. QED
    BY <1>6, <2>3, <2>4, HandledStep DEF PostProcessDone, Cleared
<1>7. CASE ClearTimesOut
  <2>1. PICK p \in pendingBits : Asserted(LineOf(p[1], p[2])) /\ Send(MsgVpError + p[1])
    BY <1>7 DEF ClearTimesOut
  <2>2. MsgVpError + p[1] \in Faults /\ cpu = "running"
    BY <2>1 DEF FwInv, FwTypeOK, Faults, Asserted
  <2>3. QED
    BY <1>7, <2>1, <2>2, StuckStep DEF ClearTimesOut
<1>8. CASE UnknownIrq
  <2>1. cpu = "running"
    BY <1>8 DEF UnknownIrq
  <2>2. \A l \in lines : Asserted(l) => l \in {v.line : v \in Vectors} \cup PostLines \cup SubmitLines
    BY <2>1, LineIsHandled DEF Asserted
  <2>3. \E irq \in {0, 1003, 1015} : Send(MsgUnknown + irq)
    BY <1>8, <2>2 DEF UnknownIrq
  <2>4. QED
    BY <1>8, <2>1, <2>3, StuckStep DEF UnknownIrq, Faults
<1>9. ASSUME NEW slot, NEW bit \in {"unknown", "error", "done"}, StageRaises(slot, bit) PROVE FwInv'
  BY <1>9, StageRaisesStep
<1>10. QED
  BY <1>1, <1>2, <1>3, <1>4, <1>5, <1>6, <1>7, <1>8, <1>9 DEF FwNext

LEMMA FwInitOK ==
  ASSUME FwInit
  PROVE  FwInv
<1>1. FwTypeOK /\ Told
  BY DEF FwInit, FwTypeOK, Told
<1>2. ASSUME NEW s \in Slots, NEW m
      PROVE  raised[s] = 0 /\ Count(m) = 0 /\ Cardinality(pendingBits \cap {<<s, "done">>}) = 0
  <2>1. pendingBits \cap {<<s, "done">>} = {}
    BY DEF FwInit
  <2>2. QED
    BY <2>1, FS_EmptySet DEF FwInit, Count
<1>3. DoneToldOnce
  BY <1>2 DEF DoneToldOnce
<1>4. QED
  BY <1>1, <1>3 DEF FwInv

(* The decoder of messages, on every message there is.                         *)
LEMMA ReadsEnds ==
  ASSUME NEW m \in Ends, FwTypeOK
  PROVE  /\ m # MsgPpDone => Decode(m) = "video" /\ m \in {MsgVpDone + s : s \in 0 .. (PipeCount - 1)}
         /\ m = MsgPpDone => Decode(m) = "post"
         /\ m < MsgUnknown
<1>1. CASE m = MsgPpDone
  BY <1>1 DEF Decode, Bit, MsgPpDone, MsgUnknown
<1>2. CASE m # MsgPpDone
  <2>1. PICK s \in 0 .. (PipeCount - 1) : m = 256 + s
    BY <1>2 DEF Ends, MsgVpDone
  <2>2. m \in 256 .. 267
    BY <2>1 DEF PipeCount
  <2>3. m \div 65536 = 0 /\ m \div 4096 = 0 /\ m \div 512 = 0 /\ m \div 256 = 1
    BY <2>2
  <2>4. Decode(m) = "video"
    BY <2>3 DEF Decode, Bit, MsgUnknown, MsgPpDone, MsgVpError, MsgVpDone
  <2>5. QED
    BY <1>2, <2>1, <2>2, <2>4 DEF MsgVpDone, MsgUnknown
<1>3. QED
  BY <1>1, <1>2

LEMMA ReadsFaults ==
  ASSUME NEW m \in Faults, FwTypeOK
  PROVE  Decode(m) = "error"
<1>1. CASE m \in {MsgVpError + s : s \in Slots}
  <2>1. m \in 512 .. 525
    BY <1>1 DEF MsgVpError, Slots, PipeCount, SubmitSlot
  <2>2. m \div 65536 = 0 /\ m \div 4096 = 0 /\ m \div 512 = 1
    BY <2>1
  <2>3. QED
    BY <2>2 DEF Decode, Bit, MsgUnknown, MsgPpDone, MsgVpError
<1>2. CASE m \in {MsgUnknown + irq : irq \in {0, 1003, 1015}}
  <2>1. m \in 65536 .. 66551
    BY <1>2 DEF MsgUnknown
  <2>2. m \div 65536 = 1
    BY <2>1
  <2>3. QED
    BY <2>2 DEF Decode, Bit, MsgUnknown
<1>3. QED
  BY <1>1, <1>2 DEF Faults

(* Every pending bit raises an enabled line.                                   *)
LEMMA PendingIsAnswered ==
  ASSUME FwInv
  PROVE  NothingUnanswered
<1>1. ASSUME cpu = "running", NEW p \in pendingBits
      PROVE  LineOf(p[1], p[2]) \in lines
  BY <1>1, LineIsHandled
<1>2. QED
  BY <1>1 DEF NothingUnanswered, Asserted

LEMMA MessagesAreRead ==
  ASSUME FwInv
  PROVE  ReadAsMeant
<1>1. \A m \in DOMAIN told : m \in Ends \cup Faults
  BY DEF FwInv, Told
<1>2. ASSUME NEW m \in DOMAIN told
      PROVE  /\ Decode(m) = "video" => m \in {MsgVpDone + s : s \in 0 .. (PipeCount - 1)}
             /\ Decode(m) = "post" => m = MsgPpDone
             /\ m >= MsgUnknown => Decode(m) = "error"
  <2>1. CASE m \in Ends
    <3>1. m \in 256 .. 4096
      BY <2>1 DEF FwInv, FwTypeOK, Ends, MsgVpDone, MsgPpDone, PipeCount
    <3>2. ~(m >= MsgUnknown)
      <4>1. ~(m >= 65536)
        BY <3>1, SMTT(30)
      <4>2. QED
        BY <4>1, SMTT(30) DEF MsgUnknown
    <3>3. FwTypeOK
      BY DEF FwInv
    <3>4. CASE m = MsgPpDone
      <4>1. Decode(m) = "post"
        BY <2>1, <3>3, <3>4, ReadsEnds
      <4>2. QED
        BY <3>2, <3>4, <4>1
    <3>5. CASE m # MsgPpDone
      <4>1. Decode(m) = "video" /\ m \in {MsgVpDone + s : s \in 0 .. (PipeCount - 1)}
        BY <2>1, <3>3, <3>5, ReadsEnds
      <4>2. QED
        BY <3>2, <4>1
    <3>6. QED
      BY <3>4, <3>5
  <2>2. CASE m \in Faults
    BY <2>2, ReadsFaults, Zenon DEF FwInv
  <2>3. QED
    BY <1>1, <2>1, <2>2
<1>3. ASSUME NEW m \in DOMAIN told, Decode(m) = "error"
      PROVE  cpu = "stuck"
  <2>1. m \notin Ends
    BY <1>3, ReadsEnds DEF FwInv
  <2>2. QED
    BY <2>1 DEF FwInv, Told
<1>4. QED
  BY <1>2, <1>3 DEF ReadAsMeant

(* Between the decoder's firmware and the kernel nothing is lost, told twice   *)
(* or read as something else, on every chip and however many stages end.       *)
THEOREM FirmwareStaysHeard == FwSpec => []FirmwareTellsAll
<1>1. ASSUME FwInv, [FwNext]_avdFwVars PROVE FwInv'
  <2>1. CASE FwNext
    BY <1>1, <2>1, FwNextOK
  <2>2. CASE UNCHANGED avdFwVars
    <3>1. /\ Slots' = Slots /\ SubmitSlot' = SubmitSlot /\ PipeLines' = PipeLines
          /\ SubmitIrq' = SubmitIrq /\ PostIrq' = PostIrq /\ Ends' = Ends /\ Faults' = Faults
          /\ \A m : Count(m)' = Count(m)
      BY <2>2 DEF avdFwVars, Slots, PipeLines, Ends, Faults, PipeBase, PipeCount, SubmitSlot, SubmitIrq, PostIrq, Count
    <3>2. QED
      BY <1>1, <2>2, <3>1 DEF avdFwVars, FwInv, FwTypeOK, Told, DoneToldOnce
  <2>3. QED
    BY <1>1, <2>1, <2>2
<1>2. FwInv => FirmwareTellsAll
  BY PendingIsAnswered, MessagesAreRead DEF FirmwareTellsAll, FwInv
<1>3. QED
  BY <1>1, <1>2, FwInitOK, PTL DEF FwSpec

===============================================================================
