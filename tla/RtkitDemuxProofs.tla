--------------------------- MODULE RtkitDemuxProofs ---------------------------
(* Proofs about RtkitDemux, for any number of tasks, endpoints and messages.   *)
EXTENDS RtkitDemux, Integers, SequenceTheorems, FiniteSetTheorems, TLAPS

------------------------------------------------------------------------------
(* How often a value occurs in a sequence *)
LEMMA CountIsNat ==
  ASSUME NEW S, NEW s \in Seq(S), NEW m
  PROVE  Count(s, m) \in Nat /\ IsFiniteSet({i \in DOMAIN s : s[i] = m})
<1>1. Len(s) \in Nat /\ DOMAIN s = 1 .. Len(s)
  BY LenProperties
<1>2. IsFiniteSet(1 .. Len(s))
  BY <1>1, FS_Interval
<1>3. {i \in DOMAIN s : s[i] = m} \in SUBSET (1 .. Len(s))
  BY <1>1
<1>4. QED
  BY <1>2, <1>3, FS_Subset, FS_CardinalityType DEF Count

LEMMA CountEmpty == \A m : Count(<<>>, m) = 0
<1>1. SUFFICES ASSUME NEW m PROVE Count(<<>>, m) = 0
  OBVIOUS
<1>2. {i \in DOMAIN <<>> : <<>>[i] = m} = {}
  OBVIOUS
<1>3. QED
  BY <1>2, FS_EmptySet DEF Count

LEMMA CountConcat ==
  ASSUME NEW S, NEW s \in Seq(S), NEW t \in Seq(S), NEW m
  PROVE  Count(s \o t, m) = Count(s, m) + Count(t, m)
<1> DEFINE u == s \o t
           A == {i \in DOMAIN s : s[i] = m}
           B == {i \in DOMAIN t : t[i] = m}
           D == {i \in (Len(s) + 1) .. (Len(s) + Len(t)) : t[i - Len(s)] = m}
           f == [i \in B |-> i + Len(s)]
<1>1. /\ Len(s) \in Nat /\ Len(t) \in Nat /\ DOMAIN s = 1 .. Len(s) /\ DOMAIN t = 1 .. Len(t)
      /\ u \in Seq(S) /\ DOMAIN u = 1 .. Len(s) + Len(t)
      /\ \A i \in 1 .. Len(s) + Len(t) : u[i] = IF i <= Len(s) THEN s[i] ELSE t[i - Len(s)]
  BY ConcatProperties, LenProperties
<1> HIDE DEF u
<1>2. {i \in DOMAIN u : u[i] = m} = A \cup D
  BY <1>1
<1>3. A \cap D = {}
  BY <1>1
<1>4. IsFiniteSet(A) /\ IsFiniteSet(B)
  BY CountIsNat
<1>5. f \in Bijection(B, D)
  <2>1. f \in [B -> D] /\ \A i, j \in B : f[i] = f[j] => i = j
    BY SMTT(20), <1>1
  <2>2. ASSUME NEW d \in D PROVE \E i \in B : f[i] = d
    <3>1. d - Len(s) \in B /\ f[d - Len(s)] = d
      BY <1>1
    <3>2. QED
      BY <3>1
  <2>3. QED
    BY <2>1, <2>2 DEF Bijection, Injection, Surjection, IsInjective
<1>6. IsFiniteSet(D) /\ Cardinality(D) = Cardinality(B)
  BY <1>4, <1>5, FS_Bijection DEF ExistsBijection
<1>7. Cardinality(A \cup D) = Cardinality(A) + Cardinality(D)
  <2>1. Cardinality(A \cup D) = Cardinality(A) + Cardinality(D) - Cardinality(A \cap D)
    BY <1>4, <1>6, FS_Union
  <2>2. Cardinality(A \cap D) = 0
    BY <1>3, FS_EmptySet
  <2>3. Cardinality(A) \in Nat /\ Cardinality(D) \in Nat
    BY <1>4, <1>6, FS_CardinalityType
  <2> HIDE DEF A, D
  <2>4. QED
    BY <2>1, <2>2, <2>3
<1>8. QED
  BY <1>2, <1>6, <1>7 DEF Count, u

LEMMA CountOne ==
  ASSUME NEW x, NEW m
  PROVE  Count(<<x>>, m) = IF x = m THEN 1 ELSE 0
<1>1. {i \in DOMAIN <<x>> : <<x>>[i] = m} = IF x = m THEN {1} ELSE {}
  OBVIOUS
<1>2. QED
  BY <1>1, FS_EmptySet, FS_Singleton DEF Count

LEMMA CountAppend ==
  ASSUME NEW S, NEW s \in Seq(S), NEW x \in S, NEW m
  PROVE  Count(Append(s, x), m) = Count(s, m) + IF x = m THEN 1 ELSE 0
<1>1. Append(s, x) = s \o <<x>>
  BY AppendIsConcat
<1> <<x>> \in Seq(S)
  OBVIOUS
<1>2. Count(s \o <<x>>, m) = Count(s, m) + Count(<<x>>, m)
  BY CountConcat
<1>3. QED
  BY <1>1, <1>2, CountOne

LEMMA CountTail ==
  ASSUME NEW S, NEW s \in Seq(S), s # <<>>, NEW m
  PROVE  /\ Head(s) \in S /\ Tail(s) \in Seq(S)
         /\ Count(s, m) = Count(Tail(s), m) + IF Head(s) = m THEN 1 ELSE 0
<1> DEFINE x == <<Head(s)>>
           t == Tail(s)
<1>1. Head(s) \in S /\ Tail(s) \in Seq(S)
  BY HeadTailProperties
<1>2. s = x \o t
  <2>1. /\ t \in Seq(S) /\ Len(t) = Len(s) - 1 /\ \A i \in 1 .. Len(t) : t[i] = s[i + 1]
        /\ Len(s) \in Nat \ {0}
    BY HeadTailProperties, EmptySeq
  <2>2. x \in Seq(S) /\ Len(x) = 1 /\ x[1] = s[1]
    BY <1>1
  <2> HIDE DEF x, t
  <2>3. /\ x \o t \in Seq(S) /\ Len(x \o t) = Len(s)
        /\ \A i \in 1 .. Len(s) : (x \o t)[i] = IF i <= 1 THEN x[i] ELSE t[i - 1]
    <3>1. /\ x \o t \in Seq(S) /\ Len(x \o t) = Len(x) + Len(t)
          /\ \A i \in 1 .. Len(x) + Len(t) : (x \o t)[i] = IF i <= Len(x) THEN x[i] ELSE t[i - Len(x)]
      BY <2>1, <2>2, ConcatProperties
    <3>2. Len(x) + Len(t) = Len(s)
      BY <2>1, <2>2
    <3>3. QED
      BY <2>2, <3>1, <3>2
  <2>4. ASSUME NEW i \in 1 .. Len(s) PROVE s[i] = (x \o t)[i]
    <3>1. CASE i = 1
      BY <2>2, <2>3, <3>1
    <3>2. CASE i # 1
      <4>1. i - 1 \in 1 .. Len(t) /\ i > 1
        BY <2>1, <3>2
      <4>2. t[i - 1] = s[i]
        BY <2>1, <4>1
      <4>3. QED
        BY <2>3, <4>1, <4>2
    <3>3. QED
      BY <3>1, <3>2
  <2>5. QED
    BY <2>3, <2>4, SeqEqual
<1>3. Count(s, m) = Count(x, m) + Count(t, m)
  <2>1. x \in Seq(S) /\ t \in Seq(S)
    BY <1>1
  <2>2. Count(x \o t, m) = Count(x, m) + Count(t, m)
    BY <2>1, CountConcat
  <2>3. QED
    BY ONLY <1>2, <2>2
<1>4. Count(t, m) \in Nat
  BY <1>1, CountIsNat
<1>5. Count(x, m) = IF Head(s) = m THEN 1 ELSE 0
  BY CountOne
<1>6. Count(s, m) = Count(t, m) + IF Head(s) = m THEN 1 ELSE 0
  <2> HIDE DEF x, t
  <2>1. QED
    BY <1>3, <1>4, <1>5
<1>7. QED
  BY <1>1, <1>6

LEMMA CountRemoveAt ==
  ASSUME NEW S, NEW s \in Seq(S), NEW i \in DOMAIN s, NEW m
  PROVE  /\ RemoveAt(s, i) \in Seq(S)
         /\ Count(s, m) = Count(RemoveAt(s, i), m) + IF s[i] = m THEN 1 ELSE 0
<1> DEFINE a == SubSeq(s, 1, i - 1)
           b == SubSeq(s, i + 1, Len(s))
           x == <<s[i]>>
<1>1. Len(s) \in Nat /\ i \in 1 .. Len(s) /\ \A j \in 1 .. Len(s) : s[j] \in S
  BY LenProperties, ElementOfSeq
<1>2. /\ a \in Seq(S) /\ Len(a) = i - 1
      /\ \A j \in 1 .. i - 1 : a[j] = s[j]
  BY <1>1, SubSeqProperties
<1>3. /\ b \in Seq(S) /\ Len(b) = Len(s) - i
      /\ \A j \in 1 .. Len(s) - i : b[j] = s[i + j]
  BY <1>1, SubSeqProperties
<1>4. x \in Seq(S) /\ Len(x) = 1 /\ x[1] = s[i]
  BY <1>1
<1> HIDE DEF a, b, x
<1>5. /\ a \o x \in Seq(S) /\ Len(a \o x) = i
      /\ \A j \in 1 .. i : (a \o x)[j] = s[j]
  <2>1. i \in Nat \ {0} /\ Len(a) + Len(x) = i
    BY <1>1, <1>2, <1>4
  <2>2. /\ a \o x \in Seq(S) /\ Len(a \o x) = Len(a) + Len(x)
        /\ \A j \in 1 .. Len(a) + Len(x) : (a \o x)[j] = IF j <= Len(a) THEN a[j] ELSE x[j - Len(a)]
    BY <1>2, <1>4, ConcatProperties
  <2>3. ASSUME NEW j \in 1 .. i PROVE (a \o x)[j] = s[j]
    <3>1. (a \o x)[j] = IF j <= i - 1 THEN a[j] ELSE x[j - (i - 1)]
      BY <1>2, <2>1, <2>2
    <3>2. CASE j \in 1 .. i - 1
      BY <1>2, <2>1, <3>1, <3>2
    <3>3. CASE j = i
      BY <1>4, <2>1, <3>1, <3>3
    <3>4. j \in 1 .. i - 1 \/ j = i
      BY <2>1
    <3>5. QED
      BY <3>2, <3>3, <3>4
  <2>4. QED
    BY <2>1, <2>2, <2>3
<1>6. s = (a \o x) \o b
  <2> DEFINE y == a \o x
  <2>1. y \in Seq(S) /\ Len(y) = i /\ \A j \in 1 .. i : y[j] = s[j]
    BY <1>5
  <2> HIDE DEF y
  <2>2. y \o b \in Seq(S) /\ Len(y \o b) = Len(s)
    BY <1>1, <1>3, <2>1, ConcatProperties
  <2>3. ASSUME NEW j \in 1 .. Len(s) PROVE s[j] = (y \o b)[j]
    BY SMTT(20), <1>1, <1>3, <2>1, ConcatProperties
  <2>4. s = y \o b
    BY <2>2, <2>3, SeqEqual
  <2>5. QED
    BY <2>4 DEF y
<1>7. Count(s, m) = Count(a, m) + Count(x, m) + Count(b, m)
  <2>1. Count((a \o x) \o b, m) = Count(a \o x, m) + Count(b, m)
    BY <1>3, <1>5, CountConcat
  <2>2. Count(a \o x, m) = Count(a, m) + Count(x, m)
    BY <1>2, <1>4, CountConcat
  <2>3. QED
    BY <1>6, <2>1, <2>2
<1>8. RemoveAt(s, i) = a \o b
  BY DEF RemoveAt, a, b
<1>9. RemoveAt(s, i) \in Seq(S) /\ Count(RemoveAt(s, i), m) = Count(a, m) + Count(b, m)
  BY <1>2, <1>3, <1>8, CountConcat, ConcatProperties
<1>10. Count(x, m) = IF s[i] = m THEN 1 ELSE 0
  BY CountOne DEF x
<1>11. Count(a, m) \in Nat /\ Count(b, m) \in Nat
  BY <1>2, <1>3, CountIsNat
<1>12. QED
  BY <1>7, <1>9, <1>10, <1>11

------------------------------------------------------------------------------
(* Where the messages of application endpoints are.  What is put away or in a *)
(* task's hands is never a system message, a task inside a call has an        *)
(* endpoint, and exactly a task about to put one away holds a message.        *)
AppMessage == {m \in Message : m.ep \in AppEps}
Stashing(t) == pc[t] \in {"stashPoll", "stashWait"}
Holders(m) == {t \in Tasks : m \in held[t]}

MsgTyped ==
  /\ fifo \in Seq(Message) /\ drained \in Seq(Message) /\ queue \in Seq(Message)
  /\ pending \in Seq(AppMessage)
  /\ sent \in [Endpoints -> Nat]
  /\ pc \in [Tasks -> {"idle", "check", "take", "wait", "stashPoll", "stashWait"}]
  /\ want \in [Tasks -> AppEps \cup {None}]
  /\ held \in [Tasks -> SUBSET AppMessage]
  /\ got \in [AppEps -> Seq(Nat)]

CallTyped ==
  \A t \in Tasks : /\ pc[t] # "idle" => want[t] \in AppEps
                   /\ ~Stashing(t) => held[t] = {}
                   /\ Stashing(t) => \E m \in AppMessage : held[t] = {m}

(* The places of NothingLost, one by one; a message not sent yet is nowhere.   *)
Sum(m) ==
  Count(drained, m) + Count(queue, m) + Count(fifo, m) + Count(pending, m)
    + Count(got[m.ep], m.id) + Cardinality(Holders(m))
Accounted ==
  \A m \in AppMessage : /\ IsFiniteSet(Holders(m))
                        /\ Sum(m) = IF m.id <= sent[m.ep] THEN 1 ELSE 0

DemuxInv == MsgTyped /\ CallTyped /\ Accounted

LEMMA Messages ==
  ASSUME DemuxAssumption
  PROVE  /\ \A m \in Message : m.ep \in Endpoints /\ m.id \in 1 .. MaxMsgs[m.ep] /\ m.id \in Nat
         /\ \A m, n \in Message : m.ep = n.ep /\ m.id = n.id => m = n
         /\ \A e \in Endpoints : \A k \in 1 .. MaxMsgs[e] : [ep |-> e, id |-> k] \in Message
<1>1. \A e \in Endpoints : MaxMsgs[e] \in Nat
  BY DEF DemuxAssumption, Endpoints
<1>2. ASSUME NEW m \in Message
      PROVE  /\ m.ep \in Endpoints /\ m.id \in 1 .. MaxMsgs[m.ep] /\ m.id \in Nat
             /\ m = [ep |-> m.ep, id |-> m.id]
  <2>1. PICK e \in Endpoints : m \in [ep : {e}, id : 1 .. MaxMsgs[e]]
    BY DEF Message
  <2>2. QED
    BY <1>1, <2>1
<1>3. ASSUME NEW e \in Endpoints, NEW k \in 1 .. MaxMsgs[e] PROVE [ep |-> e, id |-> k] \in Message
  <2>1. [ep |-> e, id |-> k] \in [ep : {e}, id : 1 .. MaxMsgs[e]]
    OBVIOUS
  <2>2. QED
    BY <2>1 DEF Message
<1>4. QED
  BY <1>2, <1>3

(* Every summand is a number. *)
LEMMA Numbers ==
  ASSUME DemuxAssumption, MsgTyped, NEW m \in AppMessage
  PROVE  /\ m \in Message /\ m.ep \in AppEps /\ m.id \in Nat
         /\ Count(drained, m) \in Nat /\ Count(queue, m) \in Nat /\ Count(fifo, m) \in Nat
         /\ Count(pending, m) \in Nat /\ Count(got[m.ep], m.id) \in Nat
<1>1. m \in Message /\ m.ep \in AppEps /\ m.id \in Nat
  BY Messages DEF AppMessage
<1>2. Count(drained, m) \in Nat /\ Count(queue, m) \in Nat /\ Count(fifo, m) \in Nat
  BY CountIsNat DEF MsgTyped
<1>3. Count(pending, m) \in Nat
  BY CountIsNat DEF MsgTyped
<1>4. got[m.ep] \in Seq(Nat)
  BY <1>1 DEF MsgTyped
<1>5. QED
  BY <1>1, <1>2, <1>3, <1>4, CountIsNat

LEMMA InitStep == DemuxAssumption /\ Init => DemuxInv
<1> SUFFICES ASSUME DemuxAssumption, Init PROVE DemuxInv
  OBVIOUS
<1>1. MsgTyped /\ CallTyped
  BY DEF Init, MsgTyped, CallTyped, Stashing
<1>2. ASSUME NEW m \in AppMessage
      PROVE  IsFiniteSet(Holders(m)) /\ Sum(m) = 0 /\ ~(m.id <= sent[m.ep])
  <2>1. Holders(m) = {}
    BY DEF Init, Holders
  <2>2. IsFiniteSet(Holders(m)) /\ Cardinality(Holders(m)) = 0
    BY <2>1, FS_EmptySet
  <2>3. m.ep \in AppEps /\ m.ep \in Endpoints /\ m.id \in 1 .. MaxMsgs[m.ep]
    BY Messages DEF AppMessage
  <2>4. ~(m.id <= sent[m.ep])
    BY <2>3, Messages DEF Init, DemuxAssumption, Endpoints
  <2>5. got[m.ep] = <<>>
    BY <2>3 DEF Init
  <2>6. QED
    BY <2>2, <2>4, <2>5, CountEmpty DEF Init, Sum
<1>3. QED
  BY <1>1, <1>2 DEF DemuxInv, Accounted

LEMMA SendStep ==
  ASSUME DemuxAssumption, DemuxInv, NEW e \in Endpoints, FirmwareSend(e)
  PROVE  DemuxInv'
<1> DEFINE x == [ep |-> e, id |-> sent[e] + 1]
<1>1. MaxMsgs[e] \in Nat /\ sent[e] \in Nat /\ sent[e] < MaxMsgs[e]
  BY DEF DemuxAssumption, Endpoints, DemuxInv, MsgTyped, FirmwareSend
<1>2. x \in Message
  BY <1>1, Messages
<1>3. fifo' = Append(fifo, x) /\ sent' = [sent EXCEPT ![e] = @ + 1]
      /\ UNCHANGED <<drained, queue, pending, pc, want, held, got>>
  BY DEF FirmwareSend
<1>4. MsgTyped' /\ CallTyped'
  <2>1. fifo' \in Seq(Message)
    BY <1>2, <1>3, AppendProperties DEF DemuxInv, MsgTyped
  <2>2. sent' \in [Endpoints -> Nat]
    BY <1>1, <1>3 DEF DemuxInv, MsgTyped
  <2>3. QED
    BY <1>3, <2>1, <2>2 DEF DemuxInv, MsgTyped, CallTyped, Stashing
<1>5. ASSUME NEW m \in AppMessage
      PROVE  IsFiniteSet(Holders(m))' /\ Sum(m)' = IF m.id <= sent'[m.ep] THEN 1 ELSE 0
  <2>1. m \in Message /\ m.ep \in Endpoints /\ m.id \in Nat
    BY Messages DEF AppMessage
  <2>2. Count(fifo', m) = Count(fifo, m) + IF x = m THEN 1 ELSE 0
    BY <1>2, <1>3, CountAppend DEF DemuxInv, MsgTyped
  <2>3. Holders(m)' = Holders(m)
    BY <1>3 DEF Holders
  <2>4. Cardinality(Holders(m)) \in Nat /\ IsFiniteSet(Holders(m))
    BY FS_CardinalityType DEF DemuxInv, Accounted
  <2>5. Sum(m) = IF m.id <= sent[m.ep] THEN 1 ELSE 0
    BY DEF DemuxInv, Accounted
  <2>6. Sum(m)' = Sum(m) + IF x = m THEN 1 ELSE 0
    <3> DEFINE c == IF x = m THEN 1 ELSE 0
    <3>1. c \in Nat /\ Count(fifo', m) = Count(fifo, m) + c
      BY <2>2
    <3> HIDE DEF c
    <3>2. Sum(m)' = Sum(m) + c
      BY SMTT(20), <1>3, <2>3, <2>4, <3>1, Numbers DEF Sum, DemuxInv
    <3>3. QED
      BY <3>2 DEF c
  <2>7. x = m <=> (m.ep = e /\ m.id = sent[e] + 1)
    BY <1>2, <2>1, Messages
  <2>8. sent[m.ep] \in Nat /\ sent'[m.ep] = IF m.ep = e THEN sent[m.ep] + 1 ELSE sent[m.ep]
    BY <1>3, <2>1 DEF DemuxInv, MsgTyped
  <2>9. QED
    BY <2>1, <2>3, <2>4, <2>5, <2>6, <2>7, <2>8
<1>6. QED
  BY <1>4, <1>5 DEF DemuxInv, Accounted

(* A step that sends nothing and moves each message from a place to a place.  *)
LEMMA Moved ==
  ASSUME DemuxInv, UNCHANGED sent,
         \A m \in AppMessage : IsFiniteSet(Holders(m))' /\ Sum(m)' = Sum(m)
  PROVE  Accounted'
BY DEF DemuxInv, Accounted

LEMMA DrainStep ==
  ASSUME DemuxAssumption, DemuxInv, IrqDrain
  PROVE  DemuxInv'
<1>1. /\ drained = <<>> /\ drained' = fifo /\ fifo' = <<>>
      /\ UNCHANGED <<queue, pending, sent, pc, want, held, got>>
  BY DEF IrqDrain
<1>2. MsgTyped' /\ CallTyped'
  BY <1>1 DEF DemuxInv, MsgTyped, CallTyped, Stashing
<1>3. ASSUME NEW m \in AppMessage PROVE IsFiniteSet(Holders(m))' /\ Sum(m)' = Sum(m)
  <2>1. Holders(m)' = Holders(m) /\ IsFiniteSet(Holders(m)) /\ Cardinality(Holders(m)) \in Nat
    BY <1>1, FS_CardinalityType DEF Holders, DemuxInv, Accounted
  <2>2. Count(drained, m) = 0 /\ Count(fifo', m) = 0
    BY <1>1, CountEmpty
  <2>3. Count(drained', m) = Count(fifo, m)
    BY <1>1
  <2>4. QED
    BY <1>1, <2>1, <2>2, <2>3, Numbers DEF Sum, DemuxInv
<1>4. QED
  BY <1>1, <1>2, <1>3, Moved DEF DemuxInv

LEMMA AppendStep ==
  ASSUME DemuxAssumption, DemuxInv, IrqAppend
  PROVE  DemuxInv'
<1>1. /\ queue' = queue \o drained /\ drained' = <<>>
      /\ UNCHANGED <<fifo, pending, sent, pc, want, held, got>>
  BY DEF IrqAppend
<1>2. MsgTyped' /\ CallTyped'
  BY <1>1, ConcatProperties DEF DemuxInv, MsgTyped, CallTyped, Stashing
<1>3. ASSUME NEW m \in AppMessage PROVE IsFiniteSet(Holders(m))' /\ Sum(m)' = Sum(m)
  <2>1. Holders(m)' = Holders(m) /\ IsFiniteSet(Holders(m)) /\ Cardinality(Holders(m)) \in Nat
    BY <1>1, FS_CardinalityType DEF Holders, DemuxInv, Accounted
  <2>2. Count(queue', m) = Count(queue, m) + Count(drained, m)
    BY <1>1, CountConcat DEF DemuxInv, MsgTyped
  <2>3. Count(drained', m) = 0
    BY <1>1, CountEmpty
  <2>4. QED
    BY <1>1, <2>1, <2>2, <2>3, Numbers DEF Sum, DemuxInv
<1>4. QED
  BY <1>1, <1>2, <1>3, Moved DEF DemuxInv

(* A step of a task that moves no message: the start of a call, an answer of   *)
(* false, an error, a timeout.                                                 *)
LEMMA ControlStep ==
  ASSUME DemuxInv, UNCHANGED <<asc, pending, sent, held, got>>, NEW t \in Tasks,
         ~Stashing(t), NEW p \in {"idle", "check", "take", "wait"}, pc' = [pc EXCEPT ![t] = p],
         NEW e \in AppEps \cup {None}, want' = [want EXCEPT ![t] = e], p # "idle" => e \in AppEps
  PROVE  DemuxInv'
<1>1. MsgTyped'
  BY DEF DemuxInv, MsgTyped, asc
<1>2. CallTyped'
  BY DEF DemuxInv, MsgTyped, CallTyped, Stashing
<1>3. Accounted'
  BY DEF DemuxInv, Accounted, Sum, Holders, asc
<1>4. QED
  BY <1>1, <1>2, <1>3 DEF DemuxInv

(* What deliver does to the messages returned, which it puts x among. *)
LEMMA DeliverStep ==
  ASSUME DemuxAssumption, DemuxInv, NEW t \in Tasks, NEW x \in AppMessage, Deliver(t, x),
         ~Stashing(t), UNCHANGED held
  PROVE  /\ got' \in [AppEps -> Seq(Nat)]
         /\ pc' \in [Tasks -> {"idle", "check", "take", "wait", "stashPoll", "stashWait"}]
         /\ want' \in [Tasks -> AppEps \cup {None}]
         /\ CallTyped'
         /\ \A m \in AppMessage :
              Count(got'[m.ep], m.id) = Count(got[m.ep], m.id) + IF x = m THEN 1 ELSE 0
<1>1. x \in Message /\ x.ep \in AppEps /\ x.id \in Nat
  BY Messages DEF AppMessage
<1>2. got' = [got EXCEPT ![x.ep] = Append(@, x.id)]
      /\ pc' = [pc EXCEPT ![t] = "idle"] /\ want' = [want EXCEPT ![t] = None]
  BY DEF Deliver, Return
<1>3. got[x.ep] \in Seq(Nat) /\ got'[x.ep] = Append(got[x.ep], x.id)
  BY <1>1, <1>2 DEF DemuxInv, MsgTyped
<1>4. got' \in [AppEps -> Seq(Nat)]
  BY <1>1, <1>2, <1>3, AppendProperties DEF DemuxInv, MsgTyped
<1>5. /\ pc' \in [Tasks -> {"idle", "check", "take", "wait", "stashPoll", "stashWait"}]
      /\ want' \in [Tasks -> AppEps \cup {None}] /\ CallTyped'
  BY <1>2 DEF DemuxInv, MsgTyped, CallTyped, Stashing
<1>6. ASSUME NEW m \in AppMessage
      PROVE  Count(got'[m.ep], m.id) = Count(got[m.ep], m.id) + IF x = m THEN 1 ELSE 0
  <2>1. m \in Message /\ m.ep \in AppEps /\ m.id \in Nat
    BY Messages DEF AppMessage
  <2>2. CASE m.ep = x.ep
    <3>1. Count(Append(got[x.ep], x.id), m.id) = Count(got[x.ep], m.id) + IF x.id = m.id THEN 1 ELSE 0
      BY <1>1, <1>3, CountAppend
    <3>2. x = m <=> x.id = m.id
      BY <1>1, <2>1, <2>2, Messages
    <3>3. QED
      BY <1>3, <2>2, <3>1, <3>2
  <2>3. CASE m.ep # x.ep
    <3>1. got'[m.ep] = got[m.ep] /\ x # m
      BY <1>2, <2>1, <2>3 DEF DemuxInv, MsgTyped
    <3>2. Count(got[m.ep], m.id) \in Nat
      BY Numbers DEF DemuxInv
    <3>3. QED
      BY <3>1, <3>2
  <2>4. QED
    BY <2>2, <2>3
<1>7. QED
  BY <1>4, <1>5, <1>6

(* A set of positions that is not empty has a first one. *)
LEMMA LeastOf ==
  ASSUME NEW n \in Nat, NEW I \in SUBSET (1 .. n), I # {}
  PROVE  \E k \in I : \A j \in I : k <= j
<1> DEFINE R == OpToRel(<, Nat)
<1>1. IsWellFoundedOn(R, Nat)
  BY NatLessThanWellFounded
<1>2. I \subseteq Nat
  OBVIOUS
<1>3. \A x, y \in Nat : <<y, x>> \in R <=> y < x
  BY DEF OpToRel
<1> HIDE DEF R
<1>4. PICK k \in I : \A j \in I : <<j, k>> \notin R
  BY <1>1, <1>2, WFMin
<1>5. ASSUME NEW j \in I PROVE k <= j
  <2>1. j \in Nat /\ k \in Nat /\ <<j, k>> \notin R
    BY <1>2, <1>4
  <2>2. ~(j < k)
    BY <1>3, <2>1
  <2>3. QED
    BY <2>1, <2>2
<1>6. QED
  BY <1>5

LEMMA CallStep ==
  ASSUME DemuxAssumption, DemuxInv, NEW t \in Tasks, NEW e \in AppEps,
         NEW p \in {"check", "wait"}, Call(t, e, p)
  PROVE  DemuxInv'
<1>1. pc[t] = "idle" /\ ~Stashing(t) /\ UNCHANGED <<asc, sent, held>>
  BY DEF Call, Stashing
<1>2. CASE PendingAt(e) # {} /\ TakePending(t, e)
  <2> DEFINE i == FirstOf(PendingAt(e))
  <2>1. i \in DOMAIN pending /\ pending[i] \in AppMessage
    <3>1. PendingAt(e) \subseteq 1 .. Len(pending) /\ Len(pending) \in Nat /\ DOMAIN pending = 1 .. Len(pending)
      BY LenProperties DEF PendingAt, DemuxInv, MsgTyped
    <3>2. \E k \in PendingAt(e) : \A j \in PendingAt(e) : k <= j
      BY <1>2, <3>1, LeastOf
    <3>3. i \in PendingAt(e)
      BY <3>2 DEF FirstOf
    <3>4. QED
      BY <3>1, <3>3, ElementOfSeq DEF DemuxInv, MsgTyped
  <2> DEFINE x == pending[i]
  <2>2. Deliver(t, x) /\ pending' = RemoveAt(pending, i)
    BY <1>2 DEF TakePending
  <2> HIDE DEF i
  <2>3. /\ pending' \in Seq(AppMessage)
        /\ \A m \in AppMessage : Count(pending, m) = Count(pending', m) + IF x = m THEN 1 ELSE 0
    BY <2>1, <2>2, CountRemoveAt DEF DemuxInv, MsgTyped
  <2> HIDE DEF x
  <2>4. x \in AppMessage
    BY <2>1 DEF x
  <2>5. /\ got' \in [AppEps -> Seq(Nat)]
        /\ pc' \in [Tasks -> {"idle", "check", "take", "wait", "stashPoll", "stashWait"}]
        /\ want' \in [Tasks -> AppEps \cup {None}]
        /\ CallTyped'
        /\ \A m \in AppMessage :
             Count(got'[m.ep], m.id) = Count(got[m.ep], m.id) + IF x = m THEN 1 ELSE 0
    BY <1>1, <2>2, <2>4, DeliverStep
  <2>6. MsgTyped'
    BY <1>1, <2>3, <2>5 DEF DemuxInv, MsgTyped, asc
  <2>7. ASSUME NEW m \in AppMessage PROVE IsFiniteSet(Holders(m))' /\ Sum(m)' = Sum(m)
    <3> DEFINE c == IF x = m THEN 1 ELSE 0
    <3>1. Count(pending, m) = Count(pending', m) + c /\ Count(got'[m.ep], m.id) = Count(got[m.ep], m.id) + c
      BY <2>3, <2>5
    <3>2. c \in Nat /\ Count(pending', m) \in Nat
      BY <2>3, CountIsNat
    <3>3. Holders(m)' = Holders(m) /\ IsFiniteSet(Holders(m)) /\ Cardinality(Holders(m)) \in Nat
      BY <1>1, FS_CardinalityType DEF Holders, DemuxInv, Accounted
    <3> HIDE DEF c
    <3>4. QED
      BY <1>1, <3>1, <3>2, <3>3, Numbers DEF Sum, DemuxInv, asc
  <2>8. QED
    BY <1>1, <2>5, <2>6, <2>7, Moved DEF DemuxInv
<1>3. CASE PendingAt(e) = {} /\ pc' = [pc EXCEPT ![t] = p] /\ want' = [want EXCEPT ![t] = e]
           /\ UNCHANGED <<pending, got>>
  BY <1>1, <1>3, ControlStep
<1>4. QED
  BY <1>2, <1>3 DEF Call

(* What a task takes from the mailbox: the first message of the queue, or of   *)
(* the FIFO when the queue is empty.                                           *)
LEMMA TakenMessage ==
  ASSUME DemuxAssumption, DemuxInv, NEW t \in Tasks, Take(t)
  PROVE  /\ Head(Visible) \in Message
         /\ queue' \in Seq(Message) /\ fifo' \in Seq(Message)
         /\ \A m \in Message :
              Count(queue, m) + Count(fifo, m) =
                Count(queue', m) + Count(fifo', m) + IF Head(Visible) = m THEN 1 ELSE 0
<1>1. queue \in Seq(Message) /\ fifo \in Seq(Message) /\ Visible # <<>> /\ Visible = queue \o fifo
  BY DEF DemuxInv, MsgTyped, Take, Visible
<1>2. CASE queue # <<>>
  <2>1. queue' = Tail(queue) /\ fifo' = fifo
    BY <1>2 DEF Take
  <2>2. Head(Visible) = Head(queue)
    <3>1. /\ Len(queue) \in Nat \ {0} /\ Len(fifo) \in Nat
          /\ \A i \in 1 .. Len(queue) + Len(fifo) :
               (queue \o fifo)[i] = IF i <= Len(queue) THEN queue[i] ELSE fifo[i - Len(queue)]
      BY <1>1, <1>2, ConcatProperties, EmptySeq, LenProperties
    <3>2. (queue \o fifo)[1] = queue[1]
      BY <3>1
    <3>3. Head(queue) = queue[1]
      BY <1>1, <1>2
    <3>4. queue \o fifo \in Seq(Message) /\ queue \o fifo # <<>>
      BY <1>1, ConcatProperties
    <3>5. Head(queue \o fifo) = (queue \o fifo)[1]
      BY <3>4
    <3>6. QED
      BY <1>1, <3>2, <3>3, <3>5
  <2>3. Head(queue) \in Message /\ queue' \in Seq(Message)
    BY <1>1, <1>2, <2>1, HeadTailProperties
  <2>4. ASSUME NEW m \in Message
        PROVE  Count(queue, m) + Count(fifo, m) =
                 Count(queue', m) + Count(fifo', m) + IF Head(Visible) = m THEN 1 ELSE 0
    <3> DEFINE c == IF Head(Visible) = m THEN 1 ELSE 0
    <3>1. Count(queue, m) = Count(queue', m) + c
      BY <1>1, <1>2, <2>1, <2>2, CountTail
    <3>2. c \in Nat /\ Count(queue', m) \in Nat /\ Count(fifo, m) \in Nat
      BY <1>1, <2>3, CountIsNat
    <3> HIDE DEF c
    <3>3. Count(queue, m) + Count(fifo, m) = Count(queue', m) + Count(fifo', m) + c
      BY <2>1, <3>1, <3>2
    <3>4. QED
      BY <3>3 DEF c
  <2>5. QED
    BY <1>1, <2>1, <2>2, <2>3, <2>4
<1>3. CASE queue = <<>>
  <2>1. fifo' = Tail(fifo) /\ queue' = queue
    BY <1>3 DEF Take
  <2>2. Visible = fifo
    BY <1>1, <1>3, ConcatEmptySeq
  <2>3. Head(fifo) \in Message /\ fifo' \in Seq(Message) /\ fifo # <<>>
    BY <1>1, <2>1, <2>2, HeadTailProperties
  <2>4. ASSUME NEW m \in Message
        PROVE  Count(queue, m) + Count(fifo, m) =
                 Count(queue', m) + Count(fifo', m) + IF Head(Visible) = m THEN 1 ELSE 0
    <3> DEFINE c == IF Head(Visible) = m THEN 1 ELSE 0
    <3>1. Count(fifo, m) = Count(fifo', m) + c
      BY <1>1, <2>1, <2>2, <2>3, CountTail
    <3>2. c \in Nat /\ Count(fifo', m) \in Nat /\ Count(queue, m) \in Nat
      BY <1>1, <2>3, CountIsNat
    <3> HIDE DEF c
    <3>3. Count(queue, m) + Count(fifo, m) = Count(queue', m) + Count(fifo', m) + c
      BY <2>1, <3>1, <3>2
    <3>4. QED
      BY <3>3 DEF c
  <2>5. QED
    BY <1>1, <2>1, <2>2, <2>3, <2>4
<1>4. QED
  BY <1>2, <1>3

LEMMA TakeStep ==
  ASSUME DemuxAssumption, DemuxInv, NEW t \in Tasks, pc[t] \in {"take", "wait"}, Take(t)
  PROVE  DemuxInv'
<1> DEFINE x == Head(Visible)
<1>1. /\ x \in Message /\ queue' \in Seq(Message) /\ fifo' \in Seq(Message)
      /\ \A m \in Message : Count(queue, m) + Count(fifo, m) =
                              Count(queue', m) + Count(fifo', m) + IF x = m THEN 1 ELSE 0
  BY TakenMessage
<1>2. UNCHANGED <<drained, pending, sent>> /\ ~Stashing(t) /\ held[t] = {} /\ want[t] \in AppEps
  BY DEF Take, Stashing, DemuxInv, CallTyped
<1>3. \/ x.ep = SysEp /\ AnswerSystem(t)
      \/ x.ep = want[t] /\ Deliver(t, x) /\ UNCHANGED <<answered, held>>
      \/ x.ep # SysEp /\ KeepForeign(t, x)
  BY DEF Take
<1> HIDE DEF x
<1>4. \A m \in AppMessage : /\ Count(queue', m) \in Nat /\ Count(fifo', m) \in Nat
                            /\ IsFiniteSet(Holders(m)) /\ Cardinality(Holders(m)) \in Nat
  BY <1>1, CountIsNat, FS_CardinalityType DEF DemuxInv, Accounted, AppMessage
<1>5. CASE x.ep = SysEp /\ AnswerSystem(t)
  <2>1. held' = held /\ got' = got
    BY <1>5 DEF AnswerSystem
  <2>2. MsgTyped' /\ CallTyped'
    BY <1>1, <1>2, <1>5, <2>1
    DEF AnswerSystem, Return, DemuxInv, MsgTyped, CallTyped, Stashing
  <2>3. ASSUME NEW m \in AppMessage PROVE IsFiniteSet(Holders(m))' /\ Sum(m)' = Sum(m)
    <3>1. m \in Message /\ x # m
      BY <1>5 DEF AppMessage, DemuxAssumption
    <3>2. Count(queue, m) + Count(fifo, m) = Count(queue', m) + Count(fifo', m)
      BY <1>1, <1>4, <3>1
    <3>3. Holders(m)' = Holders(m)
      BY <2>1 DEF Holders
    <3>4. QED
      BY <1>2, <1>4, <2>1, <3>2, <3>3, Numbers DEF Sum, DemuxInv
  <2>4. QED
    BY <1>2, <2>2, <2>3, Moved DEF DemuxInv
<1>6. CASE x.ep = want[t] /\ Deliver(t, x) /\ UNCHANGED <<answered, held>>
  <2>1. x \in AppMessage
    BY <1>1, <1>2, <1>6 DEF AppMessage
  <2>2. /\ got' \in [AppEps -> Seq(Nat)]
        /\ pc' \in [Tasks -> {"idle", "check", "take", "wait", "stashPoll", "stashWait"}]
        /\ want' \in [Tasks -> AppEps \cup {None}]
        /\ CallTyped'
        /\ \A m \in AppMessage :
             Count(got'[m.ep], m.id) = Count(got[m.ep], m.id) + IF x = m THEN 1 ELSE 0
    BY <1>2, <1>6, <2>1, DeliverStep
  <2>3. MsgTyped'
    BY <1>1, <1>2, <1>6, <2>2 DEF DemuxInv, MsgTyped
  <2>4. ASSUME NEW m \in AppMessage PROVE IsFiniteSet(Holders(m))' /\ Sum(m)' = Sum(m)
    <3> DEFINE c == IF x = m THEN 1 ELSE 0
    <3>1. /\ c \in Nat
          /\ Count(queue, m) + Count(fifo, m) = Count(queue', m) + Count(fifo', m) + c
          /\ Count(got'[m.ep], m.id) = Count(got[m.ep], m.id) + c
      BY <1>1, <2>2 DEF AppMessage
    <3> HIDE DEF c
    <3>2. Holders(m)' = Holders(m)
      BY <1>6 DEF Holders
    <3>3. QED
      BY <1>2, <1>4, <3>1, <3>2, Numbers DEF Sum, DemuxInv
  <2>5. QED
    BY <1>2, <2>2, <2>3, <2>4, Moved DEF DemuxInv
<1>7. CASE x.ep # SysEp /\ KeepForeign(t, x)
  <2>1. x \in AppMessage
    BY <1>1, <1>7, Messages DEF AppMessage, Endpoints
  <2>2. held' = [held EXCEPT ![t] = {x}] /\ got' = got /\ want' = want
        /\ pc' = [pc EXCEPT ![t] = IF pc[t] = "wait" THEN "stashWait" ELSE "stashPoll"]
    BY <1>7 DEF KeepForeign
  <2>3. MsgTyped' /\ CallTyped'
    BY <1>1, <1>2, <2>1, <2>2 DEF DemuxInv, MsgTyped, CallTyped, Stashing
  <2>4. ASSUME NEW m \in AppMessage PROVE IsFiniteSet(Holders(m))' /\ Sum(m)' = Sum(m)
    <3> DEFINE c == IF x = m THEN 1 ELSE 0
    <3>1. /\ c \in Nat
          /\ Count(queue, m) + Count(fifo, m) = Count(queue', m) + Count(fifo', m) + c
      BY <1>1 DEF AppMessage
    <3>2. Holders(m)' = IF x = m THEN Holders(m) \cup {t} ELSE Holders(m)
      BY <1>2, <2>2 DEF Holders, DemuxInv, MsgTyped
    <3>3. t \notin Holders(m)
      BY <1>2 DEF Holders
    <3>4. IsFiniteSet(Holders(m))' /\ Cardinality(Holders(m)') = Cardinality(Holders(m)) + c
      BY <1>4, <3>2, <3>3, FS_AddElement
    <3> HIDE DEF c
    <3>5. QED
      BY <1>2, <1>4, <2>2, <3>1, <3>4, Numbers DEF Sum, DemuxInv
  <2>5. QED
    BY <1>2, <2>3, <2>4, Moved DEF DemuxInv
<1>8. QED
  BY <1>3, <1>5, <1>6, <1>7

LEMMA StashStep ==
  ASSUME DemuxAssumption, DemuxInv, NEW t \in Tasks, Stash(t)
  PROVE  DemuxInv'
<1>1. PICK x \in held[t] : pending' = Append(pending, x)
  BY DEF Stash
<1>2. held[t] = {x} /\ x \in AppMessage /\ want[t] \in AppEps
  BY DEF Stash, Stashing, DemuxInv, CallTyped
<1>3. /\ held' = [held EXCEPT ![t] = {}] /\ UNCHANGED <<asc, sent, want, got>>
      /\ pc' = [pc EXCEPT ![t] = IF @ = "stashWait" THEN "wait" ELSE "check"]
  BY DEF Stash
<1>4. MsgTyped' /\ CallTyped'
  <2>1. pending' \in Seq(AppMessage)
    BY <1>1, <1>2, AppendProperties DEF DemuxInv, MsgTyped
  <2>2. MsgTyped'
    BY <1>2, <1>3, <2>1 DEF DemuxInv, MsgTyped, asc
  <2>3. /\ held'[t] = {} /\ pc'[t] \in {"wait", "check"} /\ want'[t] \in AppEps
        /\ \A u \in Tasks \ {t} : held'[u] = held[u] /\ pc'[u] = pc[u] /\ want'[u] = want[u]
    BY <1>2, <1>3 DEF DemuxInv, MsgTyped
  <2>4. CallTyped'
    BY <2>3 DEF DemuxInv, CallTyped, Stashing
  <2>5. QED
    BY <2>2, <2>4
<1>5. ASSUME NEW m \in AppMessage PROVE IsFiniteSet(Holders(m))' /\ Sum(m)' = Sum(m)
  <2> DEFINE c == IF x = m THEN 1 ELSE 0
  <2>1. c \in Nat /\ Count(pending', m) = Count(pending, m) + c
    BY <1>1, <1>2, CountAppend DEF DemuxInv, MsgTyped
  <2>2. Holders(m)' = IF x = m THEN Holders(m) \ {t} ELSE Holders(m)
    BY <1>2, <1>3 DEF Holders, DemuxInv, MsgTyped
  <2>3. x = m => t \in Holders(m)
    BY <1>2 DEF Holders
  <2>4. IsFiniteSet(Holders(m)) /\ Cardinality(Holders(m)) \in Nat
    BY FS_CardinalityType DEF DemuxInv, Accounted
  <2>5. IsFiniteSet(Holders(m))' /\ Cardinality(Holders(m)') = Cardinality(Holders(m)) - c
    <3>1. CASE x = m
      <4>1. IsFiniteSet(Holders(m) \ {t}) /\ Cardinality(Holders(m) \ {t}) = Cardinality(Holders(m)) - 1
        BY <2>3, <2>4, <3>1, FS_RemoveElement
      <4>2. QED
        BY <2>2, <3>1, <4>1
    <3>2. CASE x # m
      BY <2>2, <2>4, <3>2
    <3>3. QED
      BY <3>1, <3>2
  <2>6. Cardinality(Holders(m)') \in Nat
    BY <2>5, FS_CardinalityType
  <2> HIDE DEF c
  <2>7. Sum(m)' = Sum(m)
    <3>1. Cardinality(Holders(m)') + c = Cardinality(Holders(m))
      BY <2>1, <2>4, <2>5, <2>6
    <3> DEFINE h == Cardinality(Holders(m))
               k == Cardinality(Holders(m)')
    <3> HIDE DEF h, k
    <3>2. k \in Nat /\ h \in Nat /\ k + c = h
      BY <2>4, <2>6, <3>1 DEF h, k
    <3>3. Sum(m) = Count(drained, m) + Count(queue, m) + Count(fifo, m) + Count(pending, m)
                     + Count(got[m.ep], m.id) + h
      BY DEF Sum, h
    <3>4. Sum(m)' = Count(drained, m) + Count(queue, m) + Count(fifo, m) + Count(pending', m)
                      + Count(got[m.ep], m.id) + k
      BY <1>3 DEF Sum, k, asc
    <3>5. QED
      BY <2>1, <3>2, <3>3, <3>4, Numbers DEF DemuxInv
  <2>8. QED
    BY <2>5, <2>7
<1>6. QED
  BY <1>3, <1>4, <1>5, Moved DEF DemuxInv

LEMMA TaskStep ==
  ASSUME DemuxAssumption, DemuxInv, NEW t \in Tasks, Finish(t) \/ WaitTimeout(t)
  PROVE  DemuxInv'
<1>1. CASE CanRecv(t)
  <2>1. ~Stashing(t) /\ UNCHANGED <<asc, pending, sent, held, got>> /\ want[t] \in AppEps
    BY <1>1 DEF CanRecv, Stashing, DemuxInv, CallTyped
  <2>2. CASE Return(t, "false")
    BY <2>1, <2>2, ControlStep DEF Return
  <2>3. CASE pc' = [pc EXCEPT ![t] = "take"] /\ want' = want
    <3>1. want' = [want EXCEPT ![t] = want[t]]
      BY <2>3 DEF DemuxInv, MsgTyped
    <3>2. QED
      BY <2>1, <2>3, <3>1, ControlStep
  <2>4. QED
    BY <1>1, <2>2, <2>3 DEF CanRecv
<1>2. CASE PollTake(t) \/ WaitTake(t)
  BY <1>2, TakeStep DEF PollTake, WaitTake
<1>3. CASE PollStolen(t) \/ WaitTimeout(t)
  BY <1>3, ControlStep DEF PollStolen, WaitTimeout, Return, Stashing
<1>4. CASE Stash(t)
  BY <1>4, StashStep
<1>5. QED
  BY <1>1, <1>2, <1>3, <1>4 DEF Finish

THEOREM DemuxInvariance == ASSUME DemuxAssumption PROVE Spec => []DemuxInv
<1>1. DemuxInv /\ [Next]_vars => DemuxInv'
  <2> SUFFICES ASSUME DemuxInv, [Next]_vars PROVE DemuxInv'
    OBVIOUS
  <2>1. CASE UNCHANGED vars
    BY <2>1
    DEF vars, asc, DemuxInv, MsgTyped, CallTyped, Stashing, Accounted, Sum, Holders
  <2>2. ASSUME NEW t \in Tasks, NEW e \in AppEps, PollCall(t, e) \/ WaitCall(t, e) PROVE DemuxInv'
    BY <2>2, CallStep DEF PollCall, WaitCall
  <2>3. QED
    BY <2>1, <2>2, SendStep, DrainStep, AppendStep, TaskStep DEF Next
<1>2. QED
  BY <1>1, InitStep, PTL DEF Spec

LEMMA PlacesAreSum ==
  ASSUME DemuxAssumption, DemuxInv, NEW m \in AppMessage
  PROVE  Places(m) = Sum(m)
<1>1. Count(drained \o Visible, m) = Count(drained, m) + (Count(queue, m) + Count(fifo, m))
  <2>1. /\ drained \in Seq(Message) /\ queue \in Seq(Message) /\ fifo \in Seq(Message)
        /\ Visible = queue \o fifo
    BY DEF DemuxInv, MsgTyped, Visible
  <2>2. Visible \in Seq(Message) /\ Count(Visible, m) = Count(queue, m) + Count(fifo, m)
    <3>1. queue \o fifo \in Seq(Message)
      BY <2>1, ConcatProperties
    <3>2. Count(queue \o fifo, m) = Count(queue, m) + Count(fifo, m)
      BY <2>1, CountConcat
    <3>3. QED
      BY ONLY <2>1, <3>1, <3>2
  <2>3. Count(drained \o Visible, m) = Count(drained, m) + Count(Visible, m)
    <3>1. PICK s : s = Visible
      OBVIOUS
    <3>2. drained \in Seq(Message) /\ s \in Seq(Message)
      BY ONLY <2>1, <2>2, <3>1
    <3>3. Count(drained \o s, m) = Count(drained, m) + Count(s, m)
      BY ONLY <3>2, CountConcat
    <3>4. QED
      BY ONLY <3>1, <3>3
  <2>4. QED
    BY ONLY <2>2, <2>3
<1>2. Cardinality(Holders(m)) \in Nat
  BY FS_CardinalityType DEF DemuxInv, Accounted
<1>3. QED
  BY <1>1, <1>2, Numbers DEF Places, Sum, Holders, DemuxInv

(* recv_endpoint and recv_endpoint_timeout of any number of tasks, with or      *)
(* without the interrupt that drains the FIFO: a message of an application      *)
(* endpoint is in exactly one place from the moment it is sent, whoever takes   *)
(* it, whatever ends in false, an error or a timeout.                           *)
THEOREM NothingIsLost == ASSUME DemuxAssumption PROVE Spec => []NothingLost
<1>1. DemuxInv => NothingLost
  <2> SUFFICES ASSUME DemuxInv, NEW m \in Message, m.ep \in AppEps, m.id <= sent[m.ep]
               PROVE  Places(m) = 1
    BY DEF NothingLost
  <2>1. m \in AppMessage
    BY DEF AppMessage
  <2>2. Sum(m) = 1
    BY <2>1 DEF DemuxInv, Accounted
  <2>3. QED
    BY <2>1, <2>2, PlacesAreSum
<1>2. QED
  BY <1>1, DemuxInvariance, PTL
------------------------------------------------------------------------------
(* One task, and no interrupt: the order of an endpoint's messages.  What was   *)
(* returned comes before what was put away, that before what the task holds,   *)
(* and that before the FIFO; a task inside a call has put away no message of   *)
(* the endpoint it asked for.                                                  *)
Ascending(s) == \A i, j \in DOMAIN s : i < j /\ s[i].ep = s[j].ep => s[i].id < s[j].id
FifoOK == Ascending(fifo) /\ \A j \in DOMAIN fifo : fifo[j].id <= sent[fifo[j].ep]
PendingOK ==
  /\ Ascending(pending)
  /\ \A i \in DOMAIN pending :
       /\ pending[i].id <= sent[pending[i].ep]
       /\ \A j \in DOMAIN fifo : pending[i].ep = fifo[j].ep => pending[i].id < fifo[j].id
       /\ \A t \in Tasks : pc[t] # "idle" => pending[i].ep # want[t]
HeldOK ==
  \A t \in Tasks : \A m \in held[t] :
    /\ m.ep # want[t] /\ m.id <= sent[m.ep]
    /\ \A i \in DOMAIN pending : pending[i].ep = m.ep => pending[i].id < m.id
    /\ \A j \in DOMAIN fifo : fifo[j].ep = m.ep => m.id < fifo[j].id
GotOK ==
  \A e \in AppEps : \A k \in DOMAIN got[e] :
    /\ got[e][k] <= sent[e]
    /\ \A l \in DOMAIN got[e] : k < l => got[e][k] < got[e][l]
    /\ \A i \in DOMAIN pending : pending[i].ep = e => got[e][k] < pending[i].id
    /\ \A j \in DOMAIN fifo : fifo[j].ep = e => got[e][k] < fifo[j].id
    /\ \A t \in Tasks : \A m \in held[t] : m.ep = e => got[e][k] < m.id
OrderInv == drained = <<>> /\ queue = <<>> /\ FifoOK /\ PendingOK /\ HeldOK /\ GotOK

LEMMA AppendedAt ==
  ASSUME NEW S, NEW s \in Seq(S), NEW x \in S
  PROVE  /\ Len(s) \in Nat /\ DOMAIN s = 1 .. Len(s) /\ DOMAIN Append(s, x) = 1 .. Len(s) + 1
         /\ Append(s, x)[Len(s) + 1] = x /\ \A i \in 1 .. Len(s) : Append(s, x)[i] = s[i]
  BY AppendProperties, LenProperties

LEMMA TailAt ==
  ASSUME NEW S, NEW s \in Seq(S), s # <<>>
  PROVE  /\ Len(s) \in Nat \ {0} /\ DOMAIN s = 1 .. Len(s) /\ Head(s) = s[1] /\ 1 \in DOMAIN s
         /\ DOMAIN Tail(s) = 1 .. Len(s) - 1
         /\ \A i \in DOMAIN Tail(s) : i + 1 \in DOMAIN s /\ 1 < i + 1 /\ Tail(s)[i] = s[i + 1]
  BY HeadTailProperties, EmptySeq, LenProperties

LEMMA RemovedAt ==
  ASSUME NEW S, NEW s \in Seq(S), NEW i \in DOMAIN s
  PROVE  \A j \in DOMAIN RemoveAt(s, i) :
           \E k \in DOMAIN s : /\ RemoveAt(s, i)[j] = s[k] /\ k # i
                              /\ k = IF j < i THEN j ELSE j + 1
<1>0. PICK n : n = Len(s)
  OBVIOUS
<1>1. n \in Nat /\ i \in 1 .. n /\ DOMAIN s = 1 .. n
  BY <1>0, LenProperties
<1>2. PICK a : a = SubSeq(s, 1, i - 1)
  OBVIOUS
<1>3. PICK b : b = SubSeq(s, i + 1, n)
  OBVIOUS
<1>4. a \in Seq(S) /\ Len(a) = i - 1 /\ \A j \in 1 .. i - 1 : a[j] = s[j]
  BY <1>0, <1>1, <1>2, SubSeqProperties
<1>5. b \in Seq(S) /\ Len(b) = n - i /\ \A j \in 1 .. n - i : b[j] = s[i + j]
  BY <1>0, <1>1, <1>3, SubSeqProperties
<1>6. PICK r : r = a \o b
  OBVIOUS
<1>7. RemoveAt(s, i) = r
  BY <1>0, <1>2, <1>3, <1>6 DEF RemoveAt
<1>8. /\ DOMAIN r = 1 .. n - 1
      /\ \A j \in 1 .. n - 1 : r[j] = IF j <= i - 1 THEN a[j] ELSE b[j - (i - 1)]
  <2>1. /\ r \in Seq(S) /\ Len(r) = Len(a) + Len(b)
        /\ \A j \in 1 .. Len(a) + Len(b) : r[j] = IF j <= Len(a) THEN a[j] ELSE b[j - Len(a)]
    BY <1>4, <1>5, <1>6, ConcatProperties
  <2>2. Len(a) + Len(b) = n - 1
    BY <1>1, <1>4, <1>5
  <2>3. DOMAIN r = 1 .. n - 1
    BY <2>1, <2>2, LenProperties
  <2>4. QED
    BY <1>4, <2>1, <2>2, <2>3
<1>9. ASSUME NEW j \in 1 .. n - 1
      PROVE  \E k \in DOMAIN s : r[j] = s[k] /\ k # i /\ k = IF j < i THEN j ELSE j + 1
  <2>1. CASE j < i
    <3>1. j \in 1 .. i - 1 /\ j <= i - 1 /\ j \in DOMAIN s /\ j # i
      BY <1>1, <2>1
    <3>2. r[j] = s[j]
      BY <1>4, <1>8, <3>1
    <3>3. QED
      BY <2>1, <3>1, <3>2
  <2>2. CASE ~(j < i)
    <3>1. PICK k : k = j - (i - 1)
      OBVIOUS
    <3>2. k \in 1 .. n - i /\ i + k = j + 1 /\ j + 1 \in DOMAIN s /\ j + 1 # i /\ ~(j <= i - 1)
      BY <1>1, <2>2, <3>1
    <3>3. r[j] = s[j + 1]
      BY <1>5, <1>8, <3>1, <3>2
    <3>4. QED
      BY <2>2, <3>2, <3>3
  <2>3. QED
    BY <2>1, <2>2
<1>10. QED
  BY <1>7, <1>8, <1>9

LEMMA OrderSends ==
  ASSUME DemuxAssumption, DemuxInv, OrderInv, NEW e \in Endpoints, FirmwareSend(e)
  PROVE  OrderInv'
<1>1. PICK x : x = [ep |-> e, id |-> sent[e] + 1]
  OBVIOUS
<1>2. x \in Message
  BY <1>1, Messages DEF DemuxAssumption, Endpoints, DemuxInv, MsgTyped, FirmwareSend
<1>3. /\ fifo' = Append(fifo, x) /\ sent' = [sent EXCEPT ![e] = @ + 1]
      /\ UNCHANGED <<drained, queue, pending, pc, want, held, got>>
  BY <1>1 DEF FirmwareSend
<1>4. PICK n : n = Len(fifo)
  OBVIOUS
<1>5. /\ n \in Nat /\ DOMAIN fifo = 1 .. n /\ DOMAIN fifo' = 1 .. n + 1
      /\ fifo'[n + 1] = x /\ \A i \in 1 .. n : fifo'[i] = fifo[i] /\ fifo[i] \in Message
  BY <1>2, <1>3, <1>4, AppendedAt, ElementOfSeq DEF DemuxInv, MsgTyped
<1>6. /\ sent \in [Endpoints -> Nat] /\ sent'[e] = sent[e] + 1 /\ sent[e] \in Nat
      /\ \A d \in Endpoints : sent[d] \in Nat /\ sent'[d] >= sent[d] /\ (d = e => sent[d] < x.id)
      /\ x.ep = e /\ x.id = sent[e] + 1
  BY <1>1, <1>3 DEF DemuxInv, MsgTyped
<1>7. \A m \in Message : m.ep \in Endpoints /\ m.id \in Nat
  BY Messages
<1>8. /\ \A i \in DOMAIN pending : pending[i] \in Message
      /\ \A t \in Tasks : \A m \in held[t] : m \in Message
      /\ \A d \in AppEps : d \in Endpoints /\ \A k \in DOMAIN got[d] : got[d][k] \in Nat
  BY ElementOfSeq DEF DemuxInv, MsgTyped, AppMessage, Endpoints
<1>9. FifoOK'
  <2>1. \A i \in 1 .. n : fifo[i].ep \in Endpoints /\ fifo[i].id \in Nat /\ fifo[i].id <= sent[fifo[i].ep]
    BY <1>5, <1>7 DEF OrderInv, FifoOK
  <2>2. \A i \in 1 .. n : fifo[i].ep = e => fifo[i].id < x.id
    BY <1>6, <2>1
  <2>3. ASSUME NEW i \in DOMAIN fifo', NEW j \in DOMAIN fifo', i < j, fifo'[i].ep = fifo'[j].ep
        PROVE  fifo'[i].id < fifo'[j].id
    <3>1. CASE j \in 1 .. n
      BY <1>5, <2>3, <3>1 DEF OrderInv, FifoOK, Ascending
    <3>2. CASE j = n + 1
      BY <1>5, <1>6, <2>2, <2>3, <3>2
    <3>3. QED
      BY <1>5, <3>1, <3>2
  <2>4. ASSUME NEW j \in DOMAIN fifo'  PROVE fifo'[j].id <= sent'[fifo'[j].ep]
    <3>1. CASE j \in 1 .. n
      <4>1. PICK d : d = fifo[j].ep
        OBVIOUS
      <4>2. d \in Endpoints /\ fifo[j].id \in Nat /\ fifo[j].id <= sent[d] /\ sent'[d] >= sent[d] /\ sent[d] \in Nat
        BY <1>6, <2>1, <3>1, <4>1
      <4>3. sent'[d] \in Nat /\ fifo'[j] = fifo[j]
        BY <1>3, <1>5, <1>6, <3>1, <4>2
      <4>4. QED
        BY <4>1, <4>2, <4>3
    <3>2. CASE j = n + 1
      BY <1>5, <1>6, <3>2
    <3>3. QED
      BY <1>5, <3>1, <3>2
  <2>5. QED
    BY <2>3, <2>4 DEF FifoOK, Ascending
<1>10. PendingOK'
  BY <1>3, <1>5, <1>6, <1>7, <1>8 DEF OrderInv, PendingOK, Ascending
<1>11. HeldOK'
  BY <1>3, <1>5, <1>6, <1>7, <1>8 DEF OrderInv, HeldOK
<1>12. GotOK'
  BY <1>3, <1>5, <1>6, <1>7, <1>8 DEF OrderInv, GotOK
<1>13. QED
  BY <1>3, <1>9, <1>10, <1>11, <1>12 DEF OrderInv

(* The message x of the endpoint e leaves the mailbox or what is put away, and  *)
(* is returned: it is the first of its endpoint there.                         *)
LEMMA OrderDelivers ==
  ASSUME DemuxAssumption, DemuxInv, OrderInv, NEW t \in Tasks, Tasks = {t}, ~Stashing(t),
         NEW x \in AppMessage, Deliver(t, x), UNCHANGED <<drained, queue, sent, held>>,
         \A i \in DOMAIN pending' : \E k \in DOMAIN pending : pending'[i] = pending[k] /\ (pending[k].ep = x.ep => x.id < pending[k].id),
         \A j \in DOMAIN fifo' : \E k \in DOMAIN fifo : fifo'[j] = fifo[k] /\ (fifo[k].ep = x.ep => x.id < fifo[k].id),
         Ascending(pending'), Ascending(fifo'),
         x.id <= sent[x.ep],
         \A k \in DOMAIN got[x.ep] : got[x.ep][k] < x.id
  PROVE  OrderInv'
<1>1. /\ x.ep \in AppEps /\ x.id \in Nat /\ got[x.ep] \in Seq(Nat)
      /\ got' = [got EXCEPT ![x.ep] = Append(@, x.id)] /\ pc'[t] = "idle" /\ held[t] = {}
  BY Messages DEF AppMessage, Deliver, Return, DemuxInv, MsgTyped, CallTyped
<1>2. FifoOK'
  BY DEF OrderInv, FifoOK
<1>3. PendingOK'
  <2>1. ASSUME NEW i \in DOMAIN pending'
        PROVE  /\ pending'[i].id <= sent[pending'[i].ep]
               /\ \A j \in DOMAIN fifo' : pending'[i].ep = fifo'[j].ep => pending'[i].id < fifo'[j].id
    BY DEF OrderInv, PendingOK
  <2>2. QED
    BY <1>1, <2>1 DEF PendingOK
<1>4. HeldOK'
  BY <1>1 DEF HeldOK
<1>5. GotOK'
  <2> SUFFICES ASSUME NEW e \in AppEps, NEW k \in DOMAIN got'[e]
               PROVE  /\ got'[e][k] <= sent'[e]
                      /\ \A l \in DOMAIN got'[e] : k < l => got'[e][k] < got'[e][l]
                      /\ \A i \in DOMAIN pending' : pending'[i].ep = e => got'[e][k] < pending'[i].id
                      /\ \A j \in DOMAIN fifo' : fifo'[j].ep = e => got'[e][k] < fifo'[j].id
                      /\ \A u \in Tasks : \A m \in held'[u] : m.ep = e => got'[e][k] < m.id
    BY DEF GotOK
  <2>1. \A u \in Tasks : held'[u] = {}
    BY <1>1
  <2>2. CASE e # x.ep
    <3>1. got'[e] = got[e]
      BY <1>1, <2>2 DEF DemuxInv, MsgTyped
    <3>2. QED
      BY <2>1, <3>1 DEF OrderInv, GotOK
  <2>3. CASE e = x.ep
    <3>1. PICK n : n = Len(got[e])
      OBVIOUS
    <3>2. /\ n \in Nat /\ DOMAIN got[e] = 1 .. n /\ DOMAIN got'[e] = 1 .. n + 1
          /\ got'[e][n + 1] = x.id /\ \A i \in 1 .. n : got'[e][i] = got[e][i]
      <4>1. got'[e] = Append(got[e], x.id) /\ got[e] \in Seq(Nat)
        BY <1>1, <2>3 DEF DemuxInv, MsgTyped
      <4>2. QED
        BY <1>1, <3>1, <4>1, AppendedAt
    <3>3. CASE k \in 1 .. n
      <4>1. \A l \in DOMAIN got'[e] : k < l => got'[e][k] < got'[e][l]
        BY <2>3, <3>2, <3>3 DEF OrderInv, GotOK
      <4>2. QED
        BY <2>1, <2>3, <3>2, <3>3, <4>1 DEF OrderInv, GotOK
    <3>4. CASE k = n + 1
      BY <2>1, <2>3, <3>2, <3>4
    <3>5. QED
      BY <3>2, <3>3, <3>4
  <2>4. QED
    BY <2>2, <2>3
<1>6. QED
  BY <1>2, <1>3, <1>4, <1>5 DEF OrderInv

(* A task that moves no message; a call that begins found none of its endpoint. *)
LEMMA OrderControls ==
  ASSUME DemuxAssumption, DemuxInv, OrderInv, NEW t \in Tasks, Tasks = {t}, ~Stashing(t),
         UNCHANGED <<asc, pending, sent, held, got>>,
         \/ pc'[t] = "idle"
         \/ pc[t] # "idle" /\ want' = want
         \/ \A i \in DOMAIN pending : pending[i].ep # want'[t]
  PROVE  OrderInv'
<1>1. held[t] = {}
  BY DEF DemuxInv, CallTyped
<1>2. FifoOK' /\ HeldOK' /\ GotOK' /\ PendingOK'
  BY <1>1 DEF asc, OrderInv, FifoOK, HeldOK, GotOK, PendingOK
<1>3. QED
  BY <1>2 DEF asc, OrderInv

LEMMA OrderCalls ==
  ASSUME DemuxAssumption, DemuxInv, OrderInv, NEW t \in Tasks, Tasks = {t},
         NEW e \in AppEps, NEW p \in {"check", "wait"}, Call(t, e, p)
  PROVE  OrderInv'
<1>1. pc[t] = "idle" /\ ~Stashing(t) /\ UNCHANGED <<asc, sent, held>>
  BY DEF Call, Stashing
<1>2. CASE PendingAt(e) # {} /\ TakePending(t, e)
  <2>1. PICK i : i = FirstOf(PendingAt(e))
    OBVIOUS
  <2>2. /\ pending \in Seq(AppMessage) /\ DOMAIN pending = 1 .. Len(pending) /\ Len(pending) \in Nat
        /\ PendingAt(e) \subseteq 1 .. Len(pending)
    BY LenProperties DEF PendingAt, DemuxInv, MsgTyped
  <2>3. i \in PendingAt(e) /\ \A j \in PendingAt(e) : i <= j
    <3>1. \E k \in PendingAt(e) : \A j \in PendingAt(e) : k <= j
      BY <1>2, <2>2, LeastOf
    <3>2. QED
      BY <2>1, <3>1 DEF FirstOf
  <2>4. PICK x : x = pending[i]
    OBVIOUS
  <2>5. i \in DOMAIN pending /\ x.ep = e /\ x \in AppMessage
    BY <2>2, <2>3, <2>4, ElementOfSeq DEF PendingAt
  <2>6. Deliver(t, x) /\ pending' = RemoveAt(pending, i)
    BY <1>2, <2>1, <2>4 DEF TakePending
  <2>7. PICK r : r = pending'
    OBVIOUS
  <2>8. \A j \in DOMAIN r : \E k \in DOMAIN pending :
          r[j] = pending[k] /\ k # i /\ k = IF j < i THEN j ELSE j + 1
    BY <2>2, <2>5, <2>6, <2>7, RemovedAt
  <2>9. r \in Seq(AppMessage) /\ DOMAIN r \subseteq Nat
    <3>1. r \in Seq(AppMessage)
      BY <2>2, <2>5, <2>6, <2>7, CountRemoveAt
    <3>2. QED
      BY <3>1, LenProperties
  <2>10. Ascending(r)
    <3>1. SUFFICES ASSUME NEW j \in DOMAIN r, NEW l \in DOMAIN r, j < l, r[j].ep = r[l].ep
                   PROVE  r[j].id < r[l].id
      BY DEF Ascending
    <3>2. PICK k \in DOMAIN pending : r[j] = pending[k] /\ k = IF j < i THEN j ELSE j + 1
      BY <2>8
    <3>3. PICK h \in DOMAIN pending : r[l] = pending[h] /\ h = IF l < i THEN l ELSE l + 1
      BY <2>8
    <3>4. k < h
      BY <2>2, <2>5, <2>9, <3>1, <3>2, <3>3
    <3>5. QED
      BY <3>1, <3>2, <3>3, <3>4 DEF OrderInv, PendingOK, Ascending
  <2>11. ASSUME NEW j \in DOMAIN r
         PROVE  \E k \in DOMAIN pending : r[j] = pending[k] /\ (pending[k].ep = x.ep => x.id < pending[k].id)
    <3>1. PICK k \in DOMAIN pending : r[j] = pending[k] /\ k # i
      BY <2>8
    <3>2. pending[k].ep = x.ep => i < k
      BY <2>2, <2>3, <2>5, <3>1 DEF PendingAt
    <3>3. pending[k].ep = x.ep => x.id < pending[k].id
      BY <2>4, <2>5, <3>2 DEF OrderInv, PendingOK, Ascending
    <3>4. QED
      BY <3>1, <3>3
  <2>12. ASSUME NEW j \in DOMAIN fifo'
         PROVE  \E k \in DOMAIN fifo : fifo'[j] = fifo[k] /\ (fifo[k].ep = x.ep => x.id < fifo[k].id)
    BY <1>1, <2>4, <2>5 DEF asc, OrderInv, PendingOK
  <2>13. /\ x.id <= sent[x.ep] /\ \A k \in DOMAIN got[x.ep] : got[x.ep][k] < x.id
         /\ Ascending(fifo')
    BY <1>1, <2>4, <2>5 DEF asc, OrderInv, PendingOK, GotOK, FifoOK
  <2>14. UNCHANGED <<drained, queue, sent, held>>
    BY <1>1 DEF asc
  <2>15. QED
    BY <1>1, <2>5, <2>6, <2>7, <2>10, <2>11, <2>12, <2>13, <2>14, OrderDelivers
<1>3. CASE PendingAt(e) = {} /\ want' = [want EXCEPT ![t] = e] /\ UNCHANGED <<pending, got>>
  <2>1. want'[t] = e
    BY <1>3 DEF DemuxInv, MsgTyped
  <2>2. QED
    BY <1>1, <1>3, <2>1, OrderControls DEF PendingAt
<1>4. QED
  BY <1>2, <1>3 DEF Call

LEMMA OrderTakes ==
  ASSUME DemuxAssumption, DemuxInv, OrderInv, NEW t \in Tasks, Tasks = {t}, pc[t] \in {"take", "wait"}, Take(t)
  PROVE  OrderInv'
<1>1. PICK x : x = Head(Visible)
  OBVIOUS
<1>2. /\ drained = <<>> /\ queue = <<>> /\ fifo \in Seq(Message) /\ Visible = fifo /\ fifo # <<>>
      /\ x = Head(fifo) /\ fifo' = Tail(fifo) /\ UNCHANGED <<drained, queue, pending, sent>>
  BY <1>1, ConcatEmptySeq DEF Take, Visible, OrderInv, DemuxInv, MsgTyped
<1>3. /\ DOMAIN fifo = 1 .. Len(fifo) /\ Len(fifo) \in Nat /\ x = fifo[1] /\ 1 \in DOMAIN fifo
      /\ DOMAIN fifo' = 1 .. Len(fifo) - 1
      /\ \A i \in DOMAIN fifo' : i + 1 \in DOMAIN fifo /\ 1 < i + 1 /\ fifo'[i] = fifo[i + 1]
  BY <1>2, TailAt
<1>4. ASSUME NEW j \in DOMAIN fifo'
      PROVE  \E k \in DOMAIN fifo : fifo'[j] = fifo[k] /\ (fifo[k].ep = x.ep => x.id < fifo[k].id)
  BY <1>3 DEF OrderInv, FifoOK, Ascending
<1>5. Ascending(fifo')
  <2>1. SUFFICES ASSUME NEW i \in DOMAIN fifo', NEW j \in DOMAIN fifo', i < j, fifo'[i].ep = fifo'[j].ep
                 PROVE  fifo'[i].id < fifo'[j].id
    BY DEF Ascending
  <2>2. i + 1 < j + 1 /\ i + 1 \in DOMAIN fifo /\ j + 1 \in DOMAIN fifo
    BY <1>3, <2>1
  <2>3. QED
    BY <1>3, <2>1, <2>2 DEF OrderInv, FifoOK, Ascending
<1>6. x \in Message /\ ~Stashing(t) /\ held[t] = {} /\ want[t] \in AppEps /\ pc[t] # "idle"
  <2>1. ~Stashing(t) /\ pc[t] # "idle"
    BY DEF Stashing
  <2>2. x \in Message
    BY <1>2, <1>3, ElementOfSeq
  <2>3. QED
    BY <2>1, <2>2 DEF DemuxInv, CallTyped
<1>7. /\ x.id <= sent[x.ep]
      /\ \A i \in DOMAIN pending : pending[i].ep = x.ep => pending[i].id < x.id
      /\ \A e \in AppEps : \A k \in DOMAIN got[e] : x.ep = e => got[e][k] < x.id
      /\ \A i \in DOMAIN pending : pending[i].ep # want[t]
  BY <1>3, <1>6 DEF OrderInv, FifoOK, PendingOK, GotOK
<1>8. \/ AnswerSystem(t)
      \/ x.ep = want[t] /\ Deliver(t, x) /\ UNCHANGED held
      \/ x.ep # want[t] /\ KeepForeign(t, x)
  BY <1>1 DEF Take
<1>9. FifoOK'
  BY <1>2, <1>4, <1>5 DEF OrderInv, FifoOK
<1>10. CASE AnswerSystem(t)
  <2>1. UNCHANGED <<held, got>> /\ (pc'[t] = "idle" \/ UNCHANGED <<pc, want>>)
    BY <1>10 DEF AnswerSystem, Return, DemuxInv, MsgTyped
  <2>2. PendingOK' /\ HeldOK' /\ GotOK'
    <3>1. PendingOK'
      BY <1>2, <1>4, <1>6, <2>1 DEF OrderInv, PendingOK
    <3>2. HeldOK'
      BY <1>6, <2>1 DEF HeldOK
    <3>3. GotOK'
      BY <1>2, <1>4, <2>1 DEF OrderInv, GotOK
    <3>4. QED
      BY <3>1, <3>2, <3>3
  <2>3. QED
    BY <1>2, <1>9, <2>2 DEF OrderInv
<1>11. CASE x.ep = want[t] /\ Deliver(t, x) /\ UNCHANGED held
  <2>1. x \in AppMessage
    BY <1>6, <1>11 DEF AppMessage
  <2>2. \A i \in DOMAIN pending' :
           \E k \in DOMAIN pending : pending'[i] = pending[k] /\ (pending[k].ep = x.ep => x.id < pending[k].id)
    BY <1>2, <1>7, <1>11
  <2>3. Ascending(pending')
    BY <1>2 DEF OrderInv, PendingOK
  <2>4. \A k \in DOMAIN got[x.ep] : got[x.ep][k] < x.id
    BY <1>6, <1>7, <1>11
  <2>5. QED
    BY <1>2, <1>4, <1>5, <1>6, <1>7, <1>11, <2>1, <2>2, <2>3, <2>4, OrderDelivers
<1>12. CASE x.ep # want[t] /\ KeepForeign(t, x)
  <2>1. /\ held' = [held EXCEPT ![t] = {x}] /\ got' = got /\ want' = want /\ held'[t] = {x}
    BY <1>12 DEF KeepForeign, DemuxInv, MsgTyped
  <2>2. PendingOK'
    BY <1>2, <1>4, <1>7, <2>1 DEF OrderInv, PendingOK
  <2>3. HeldOK'
    BY <1>2, <1>4, <1>7, <1>12, <2>1 DEF HeldOK
  <2>4. GotOK'
    BY <1>2, <1>4, <1>7, <2>1 DEF OrderInv, GotOK
  <2>5. QED
    BY <1>2, <1>9, <2>2, <2>3, <2>4 DEF OrderInv
<1>13. QED
  BY <1>8, <1>10, <1>11, <1>12

LEMMA OrderStashes ==
  ASSUME DemuxAssumption, DemuxInv, OrderInv, NEW t \in Tasks, Tasks = {t}, Stash(t)
  PROVE  OrderInv'
<1>1. PICK x \in held[t] : pending' = Append(pending, x)
  BY DEF Stash
<1>2. held[t] = {x} /\ x \in AppMessage /\ pc[t] # "idle"
  BY DEF Stash, Stashing, DemuxInv, CallTyped
<1>3. held'[t] = {} /\ UNCHANGED <<drained, queue, fifo, sent, want, got>>
  BY DEF Stash, DemuxInv, MsgTyped, asc
<1>4. PICK n : n = Len(pending)
  OBVIOUS
<1>5. /\ n \in Nat /\ DOMAIN pending = 1 .. n /\ DOMAIN pending' = 1 .. n + 1
      /\ pending'[n + 1] = x /\ \A i \in 1 .. n : pending'[i] = pending[i]
  BY <1>1, <1>2, <1>4, AppendedAt DEF DemuxInv, MsgTyped
<1>6. \A i \in DOMAIN pending' :
        (i \in DOMAIN pending /\ pending'[i] = pending[i]) \/ (i = n + 1 /\ pending'[i] = x)
  BY <1>5
<1>7. /\ x.ep # want[t] /\ x.id <= sent[x.ep]
      /\ \A i \in DOMAIN pending : pending[i].ep = x.ep => pending[i].id < x.id
      /\ \A j \in DOMAIN fifo : fifo[j].ep = x.ep => x.id < fifo[j].id
  BY <1>2 DEF OrderInv, HeldOK
<1>8. Ascending(pending')
  BY <1>5, <1>6, <1>7 DEF OrderInv, PendingOK, Ascending
<1>9. PendingOK'
  BY <1>2, <1>3, <1>6, <1>7, <1>8 DEF OrderInv, PendingOK
<1>10. HeldOK'
  BY <1>3 DEF HeldOK
<1>11. GotOK'
  BY <1>2, <1>3, <1>6 DEF OrderInv, GotOK
<1>12. QED
  BY <1>3, <1>9, <1>10, <1>11 DEF OrderInv, FifoOK

LEMMA OrderSteps ==
  ASSUME DemuxAssumption, ~IrqDriven, NEW t, Tasks = {t}, DemuxInv, OrderInv, [Next]_vars
  PROVE  OrderInv'
<1>1. CASE UNCHANGED vars
  BY <1>1 DEF vars, asc, OrderInv, FifoOK, PendingOK, HeldOK, GotOK
<1>2. CASE IrqDrain \/ IrqAppend
  BY <1>2 DEF IrqDrain, IrqAppend, OrderInv
<1>3. ASSUME NEW e \in AppEps, PollCall(t, e) \/ WaitCall(t, e)  PROVE OrderInv'
  BY <1>3, OrderCalls DEF PollCall, WaitCall
<1>4. CASE CanRecv(t) \/ PollStolen(t) \/ WaitTimeout(t)
  <2>1. pc[t] # "idle" /\ ~Stashing(t) /\ UNCHANGED <<asc, pending, sent, held, got>>
    BY <1>4 DEF CanRecv, PollStolen, WaitTimeout, Stashing
  <2>2. pc'[t] = "idle" \/ want' = want
    BY <1>4 DEF CanRecv, PollStolen, WaitTimeout, Return, DemuxInv, MsgTyped
  <2>3. QED
    BY <2>1, <2>2, OrderControls
<1>5. CASE PollTake(t) \/ WaitTake(t)
  BY <1>5, OrderTakes DEF PollTake, WaitTake
<1>6. CASE Stash(t)
  BY <1>6, OrderStashes
<1>7. CASE \E e \in Endpoints : FirmwareSend(e)
  BY <1>7, OrderSends
<1>8. QED
  BY <1>1, <1>2, <1>3, <1>4, <1>5, <1>6, <1>7 DEF Next, Finish

(* Put away messages, and those of the FIFO behind them.                        *)
LEMMA OrderIsKept ==
  ASSUME DemuxAssumption, DemuxInv, OrderInv
  PROVE  OrderAtRest /\ ReturnsNext
<1>1. ReturnsNext
  BY DEF OrderInv, GotOK, ReturnsNext
<1>2. /\ pending \in Seq(Message) /\ fifo \in Seq(Message) /\ Visible = fifo
  <2>1. queue = <<>> /\ fifo \in Seq(Message) /\ pending \in Seq(AppMessage) /\ AppMessage \subseteq Message
    BY DEF OrderInv, DemuxInv, MsgTyped, AppMessage
  <2>2. Visible = fifo
    BY <2>1, ConcatEmptySeq DEF Visible
  <2>3. QED
    BY <2>1, <2>2, ElementOfSeq, SeqDef
<1>3. PICK n : n = Len(pending)
  OBVIOUS
<1>4. PICK s : s = InLine
  OBVIOUS
<1>5. /\ n \in Nat /\ Len(fifo) \in Nat /\ DOMAIN pending = 1 .. n /\ DOMAIN fifo = 1 .. Len(fifo)
      /\ DOMAIN s = 1 .. n + Len(fifo)
      /\ \A i \in 1 .. n + Len(fifo) : s[i] = IF i <= n THEN pending[i] ELSE fifo[i - n]
  BY <1>2, <1>3, <1>4, ConcatProperties, LenProperties DEF InLine
<1>6. ASSUME NEW i \in DOMAIN s, NEW j \in DOMAIN s, i < j, s[i].ep = s[j].ep
      PROVE  s[i].id < s[j].id
  <2>1. CASE j <= n
    <3>1. s[i] = pending[i] /\ s[j] = pending[j] /\ i \in DOMAIN pending /\ j \in DOMAIN pending
      BY <1>5, <1>6, <2>1
    <3>2. QED
      BY <1>6, <3>1 DEF OrderInv, PendingOK, Ascending
  <2>2. CASE i <= n /\ ~(j <= n)
    <3>1. s[i] = pending[i] /\ s[j] = fifo[j - n] /\ i \in DOMAIN pending /\ j - n \in DOMAIN fifo
      BY <1>5, <2>2
    <3>2. QED
      BY <1>6, <3>1 DEF OrderInv, PendingOK
  <2>3. CASE ~(i <= n) /\ ~(j <= n)
    <3>1. s[i] = fifo[i - n] /\ s[j] = fifo[j - n] /\ i - n \in DOMAIN fifo /\ j - n \in DOMAIN fifo /\ i - n < j - n
      BY <1>5, <1>6, <2>3
    <3>2. QED
      BY <1>6, <3>1 DEF OrderInv, FifoOK, Ascending
  <2>4. QED
    BY <1>5, <1>6, <2>1, <2>2, <2>3
<1>7. OrderAtRest
  BY <1>4, <1>6 DEF OrderAtRest, Waiting
<1>8. QED
  BY <1>1, <1>7

(* A single task without the interrupt: at rest, what it put away is older than *)
(* the mailbox, and an endpoint's messages are returned in the order sent.      *)
THEOREM OneTaskKeepsOrder ==
  ASSUME DemuxAssumption, ~IrqDriven, NEW CONSTANT t, Tasks = {t}
  PROVE  Spec => [](OrderAtRest /\ ReturnsNext)
<1>1. Init => OrderInv
  BY DEF Init, OrderInv, FifoOK, PendingOK, HeldOK, GotOK, Ascending
<1>2. DemuxInv /\ OrderInv /\ [Next]_vars => OrderInv'
  BY OrderSteps
<1>3. DemuxInv /\ OrderInv => OrderAtRest /\ ReturnsNext
  BY OrderIsKept
<1>4. QED
  BY <1>1, <1>2, <1>3, DemuxInvariance, PTL DEF Spec
=============================================================================
