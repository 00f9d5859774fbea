--------------------------- MODULE AscMailboxProofs ---------------------------
(* Proofs about AscMailbox, for any number of senders, receivers and         *)
(* messages and any depth of the hardware FIFO.                              *)
EXTENDS AscMailbox, Integers, SequenceTheorems, TLAPS

------------------------------------------------------------------------------
(* Sequences: what they hold, and ascending ones *)
Elems(s) == {s[i] : i \in 1 .. Len(s)}
Sorted(s) == \A i, j \in 1 .. Len(s) : i < j => s[i] < s[j]
Below(p, q) == \A x \in Elems(p), y \in Elems(q) : x < y

LEMMA ElemsEmpty == Elems(<<>>) = {} /\ Sorted(<<>>)
  BY DEF Elems, Sorted

LEMMA ElemsAppend ==
  ASSUME NEW S, NEW s \in Seq(S), NEW x \in S
  PROVE  Elems(Append(s, x)) = Elems(s) \cup {x}
<1> DEFINE t == Append(s, x)
<1>1. /\ Len(s) \in Nat /\ Len(t) = Len(s) + 1
      /\ \A i \in 1 .. Len(s) : t[i] = s[i]
      /\ t[Len(s) + 1] = x
  BY AppendProperties, LenProperties
<1>2. 1 .. Len(t) = (1 .. Len(s)) \cup {Len(s) + 1}
  BY <1>1
<1> HIDE DEF t
<1>3. QED
  BY <1>1, <1>2 DEF Elems

LEMMA ElemsConcat ==
  ASSUME NEW S, NEW s \in Seq(S), NEW t \in Seq(S)
  PROVE  Elems(s \o t) = Elems(s) \cup Elems(t)
<1> DEFINE u == s \o t
<1>1. /\ Len(s) \in Nat /\ Len(t) \in Nat /\ Len(u) = Len(s) + Len(t)
      /\ \A i \in 1 .. Len(s) + Len(t) :
           u[i] = IF i <= Len(s) THEN s[i] ELSE t[i - Len(s)]
  BY ConcatProperties, LenProperties
<1> HIDE DEF u
<1>2. ASSUME NEW y \in Elems(u) PROVE y \in Elems(s) \cup Elems(t)
  <2>1. PICK i \in 1 .. Len(u) : y = u[i]
    BY DEF Elems
  <2>2. CASE i <= Len(s)
    BY <1>1, <2>1, <2>2 DEF Elems
  <2>3. CASE i > Len(s)
    <3>1. i - Len(s) \in 1 .. Len(t) /\ y = t[i - Len(s)]
      BY <1>1, <2>1, <2>3
    <3>2. QED
      BY <3>1 DEF Elems
  <2>4. QED
    BY <1>1, <2>2, <2>3
<1>3. ASSUME NEW y \in Elems(s) PROVE y \in Elems(u)
  <2>1. PICK i \in 1 .. Len(s) : y = s[i]
    BY <1>3 DEF Elems
  <2>2. i \in 1 .. Len(u) /\ y = u[i]
    BY <1>1, <2>1
  <2>3. QED
    BY <2>2 DEF Elems
<1>4. ASSUME NEW y \in Elems(t) PROVE y \in Elems(u)
  <2>1. PICK i \in 1 .. Len(t) : y = t[i]
    BY <1>4 DEF Elems
  <2>2. i + Len(s) \in 1 .. Len(u) /\ y = u[i + Len(s)]
    BY <1>1, <2>1
  <2>3. QED
    BY <2>2 DEF Elems
<1>5. QED
  BY <1>2, <1>3, <1>4 DEF u

LEMMA ElemsHeadTail ==
  ASSUME NEW S, NEW s \in Seq(S), s # <<>>
  PROVE  /\ Head(s) \in S /\ Tail(s) \in Seq(S)
         /\ Len(Tail(s)) = Len(s) - 1 /\ Len(s) \in Nat \ {0}
         /\ Elems(s) = {Head(s)} \cup Elems(Tail(s))
<1> DEFINE t == Tail(s)
<1>1. /\ Head(s) \in S /\ t \in Seq(S) /\ Len(t) = Len(s) - 1
      /\ \A i \in 1 .. Len(t) : t[i] = s[i + 1]
      /\ Len(s) \in Nat \ {0} /\ Head(s) = s[1]
  BY HeadTailProperties, EmptySeq
<1> HIDE DEF t
<1>2. ASSUME NEW y \in Elems(s) PROVE y \in {Head(s)} \cup Elems(t)
  <2>1. PICK i \in 1 .. Len(s) : y = s[i]
    BY DEF Elems
  <2>2. CASE i = 1
    BY <1>1, <2>1, <2>2
  <2>3. CASE i # 1
    <3>1. i - 1 \in 1 .. Len(t) /\ y = t[i - 1]
      BY <1>1, <2>1, <2>3
    <3>2. QED
      BY <3>1 DEF Elems
  <2>4. QED
    BY <2>2, <2>3
<1>3. ASSUME NEW y \in Elems(t) PROVE y \in Elems(s)
  <2>1. PICK i \in 1 .. Len(t) : y = t[i]
    BY <1>3 DEF Elems
  <2>2. i + 1 \in 1 .. Len(s) /\ y = s[i + 1]
    BY <1>1, <2>1
  <2>3. QED
    BY <2>2 DEF Elems
<1>4. Head(s) \in Elems(s)
  <2>1. 1 \in 1 .. Len(s)
    BY <1>1
  <2>2. QED
    BY <1>1, <2>1 DEF Elems
<1>5. QED
  BY <1>1, <1>2, <1>3, <1>4 DEF t

LEMMA SortedAppend ==
  ASSUME NEW S, S \subseteq Nat, NEW s \in Seq(S), NEW x \in S,
         Sorted(s), \A y \in Elems(s) : y < x
  PROVE  Sorted(Append(s, x))
<1> DEFINE t == Append(s, x)
<1>1. /\ Len(s) \in Nat /\ Len(t) = Len(s) + 1
      /\ \A i \in 1 .. Len(s) : t[i] = s[i]
      /\ t[Len(s) + 1] = x
  BY AppendProperties, LenProperties
<1> HIDE DEF t
<1>2. Sorted(t)
  <2> SUFFICES ASSUME NEW i \in 1 .. Len(t), NEW j \in 1 .. Len(t), i < j
               PROVE  t[i] < t[j]
    BY DEF Sorted
  <2>1. i \in 1 .. Len(s) /\ t[i] = s[i]
    BY <1>1
  <2>2. CASE j \in 1 .. Len(s)
    BY <1>1, <2>1, <2>2 DEF Sorted
  <2>3. CASE j = Len(s) + 1
    <3>1. s[i] \in Elems(s)
      BY <2>1 DEF Elems
    <3>2. QED
      BY <1>1, <2>1, <2>3, <3>1
  <2>4. QED
    BY <1>1, <2>2, <2>3
<1>3. QED
  BY <1>2 DEF t

LEMMA SortedTail ==
  ASSUME NEW S, S \subseteq Nat, NEW s \in Seq(S), s # <<>>, Sorted(s)
  PROVE  Sorted(Tail(s)) /\ \A y \in Elems(Tail(s)) : Head(s) < y
<1> DEFINE t == Tail(s)
<1>1. /\ t \in Seq(S) /\ Len(t) = Len(s) - 1
      /\ \A i \in 1 .. Len(t) : t[i] = s[i + 1]
      /\ Len(s) \in Nat \ {0} /\ Head(s) = s[1]
  BY HeadTailProperties, EmptySeq
<1> HIDE DEF t
<1>2. Sorted(t)
  <2> SUFFICES ASSUME NEW i \in 1 .. Len(t), NEW j \in 1 .. Len(t), i < j
               PROVE  t[i] < t[j]
    BY DEF Sorted
  <2>1. /\ i + 1 \in 1 .. Len(s) /\ j + 1 \in 1 .. Len(s) /\ i + 1 < j + 1
        /\ t[i] = s[i + 1] /\ t[j] = s[j + 1]
    BY <1>1
  <2>2. QED
    BY <2>1 DEF Sorted
<1>3. ASSUME NEW y \in Elems(t) PROVE Head(s) < y
  <2>1. PICK i \in 1 .. Len(t) : y = t[i]
    BY <1>3 DEF Elems
  <2>2. /\ 1 \in 1 .. Len(s) /\ i + 1 \in 1 .. Len(s) /\ 1 < i + 1
        /\ y = s[i + 1] /\ Head(s) = s[1]
    BY <1>1, <2>1
  <2>3. QED
    BY <2>2 DEF Sorted
<1>4. QED
  BY <1>2, <1>3 DEF t

LEMMA SortedConcat ==
  ASSUME NEW S, S \subseteq Nat, NEW s \in Seq(S), NEW t \in Seq(S),
         Sorted(s), Sorted(t), Below(s, t)
  PROVE  Sorted(s \o t)
<1> DEFINE u == s \o t
<1>1. /\ Len(s) \in Nat /\ Len(t) \in Nat /\ Len(u) = Len(s) + Len(t)
      /\ \A i \in 1 .. Len(s) + Len(t) :
           u[i] = IF i <= Len(s) THEN s[i] ELSE t[i - Len(s)]
  BY ConcatProperties, LenProperties
<1> HIDE DEF u
<1>2. Sorted(u)
  <2> SUFFICES ASSUME NEW i \in 1 .. Len(u), NEW j \in 1 .. Len(u), i < j
               PROVE  u[i] < u[j]
    BY DEF Sorted
  <2>1. CASE j <= Len(s)
    BY <1>1, <2>1 DEF Sorted
  <2>2. CASE i > Len(s)
    <3>1. /\ i - Len(s) \in 1 .. Len(t) /\ j - Len(s) \in 1 .. Len(t)
          /\ i - Len(s) < j - Len(s)
          /\ u[i] = t[i - Len(s)] /\ u[j] = t[j - Len(s)]
      BY <1>1, <2>2
    <3>2. QED
      BY <3>1 DEF Sorted
  <2>3. CASE i <= Len(s) /\ j > Len(s)
    <3>1. /\ i \in 1 .. Len(s) /\ u[i] = s[i]
          /\ j - Len(s) \in 1 .. Len(t) /\ u[j] = t[j - Len(s)]
      BY <1>1, <2>3
    <3>2. u[i] \in Elems(s) /\ u[j] \in Elems(t)
      BY <3>1 DEF Elems
    <3>3. QED
      BY <3>2 DEF Below
  <2>4. QED
    BY <1>1, <2>1, <2>2, <2>3
<1>3. QED
  BY <1>2 DEF u

(* Each message of a sequence as the pair of its two words. *)
Pairs(a) == [i \in 1 .. Len(a) |-> <<a[i], a[i]>>]

LEMMA PairsIsSeq ==
  ASSUME NEW M, NEW a \in Seq(M)
  PROVE  /\ Pairs(a) \in Seq(M \X M) /\ Len(Pairs(a)) = Len(a)
         /\ \A i \in 1 .. Len(a) : Pairs(a)[i] = <<a[i], a[i]>>
<1>1. Len(a) \in Nat /\ \A i \in 1 .. Len(a) : a[i] \in M
  BY LenProperties
<1> DEFINE p == Pairs(a)
           n == Len(a)
<1>2. p = [i \in 1 .. n |-> <<a[i], a[i]>>]
  BY DEF Pairs
<1> HIDE DEF p, n
<1>3. p \in [1 .. n -> M \X M]
  BY <1>1, <1>2 DEF n
<1>4. n \in Nat
  BY <1>1 DEF n
<1>5. p \in Seq(M \X M)
  BY <1>3, <1>4, SeqDef
<1>6. Len(p) = n
  <2>1. Len(p) \in Nat /\ 1 .. Len(p) = 1 .. n
    BY <1>3, <1>5, LenProperties
  <2>2. QED
    BY <1>4, <2>1
<1>7. \A i \in 1 .. n : p[i] = <<a[i], a[i]>>
  BY <1>2
<1>8. QED
  BY <1>5, <1>6, <1>7 DEF p, n

LEMMA PairsAppend ==
  ASSUME NEW M, NEW a \in Seq(M), NEW m \in M
  PROVE  Pairs(Append(a, m)) = Append(Pairs(a), <<m, m>>)
<1> DEFINE b == Append(a, m)
           w == <<m, m>>
           p == Pairs(a)
           c == Append(p, w)
           d == Pairs(b)
<1>1. /\ b \in Seq(M) /\ Len(b) = Len(a) + 1 /\ Len(a) \in Nat
      /\ \A i \in 1 .. Len(a) : b[i] = a[i]
      /\ b[Len(a) + 1] = m
  BY AppendProperties, LenProperties
<1>2. w \in M \X M
  OBVIOUS
<1>3. /\ p \in Seq(M \X M) /\ Len(p) = Len(a)
      /\ \A i \in 1 .. Len(a) : p[i] = <<a[i], a[i]>>
  BY PairsIsSeq
<1> HIDE DEF b, p
<1>4. /\ d \in Seq(M \X M) /\ Len(d) = Len(b)
      /\ \A i \in 1 .. Len(b) : d[i] = <<b[i], b[i]>>
  BY <1>1, PairsIsSeq
<1> HIDE DEF d
<1>5. w = <<m, m>>
  OBVIOUS
<1> HIDE DEF w
<1>6. /\ c \in Seq(M \X M) /\ Len(c) = Len(p) + 1
      /\ \A i \in 1 .. Len(p) : c[i] = p[i]
      /\ c[Len(p) + 1] = w
  BY <1>2, <1>3, AppendProperties
<1> HIDE DEF c
<1>7. Len(d) = Len(a) + 1 /\ Len(c) = Len(a) + 1 /\ Len(a) \in Nat
  BY <1>1, <1>3, <1>4, <1>6
<1>8. ASSUME NEW i \in 1 .. Len(d) PROVE d[i] = c[i]
  <2>1. i \in 1 .. Len(b)
    BY <1>4
  <2>2. CASE i = Len(a) + 1
    BY <1>1, <1>3, <1>4, <1>5, <1>6, <2>1, <2>2
  <2>3. CASE i \in 1 .. Len(a)
    BY <1>1, <1>3, <1>4, <1>6, <2>1, <2>3
  <2>4. i = Len(a) + 1 \/ i \in 1 .. Len(a)
    BY <1>7
  <2>5. QED
    BY <2>2, <2>3, <2>4
<1>9. d = c
  BY <1>4, <1>6, <1>7, <1>8, SeqEqual
<1>10. QED
  BY <1>9 DEF d, c, p, b, w

LEMMA ConcatAppend ==
  ASSUME NEW S, NEW t \in Seq(S), NEW q \in Seq(S), NEW w \in S
  PROVE  t \o Append(q, w) = Append(t \o q, w)
<1>1. <<w>> \in Seq(S) /\ t \o q \in Seq(S)
  BY ConcatProperties
<1>2. Append(q, w) = q \o <<w>> /\ Append(t \o q, w) = (t \o q) \o <<w>>
  BY <1>1, AppendIsConcat
<1>3. QED
  BY <1>1, <1>2, ConcatAssociative

LEMMA MoveHead ==
  ASSUME NEW S, NEW p \in Seq(S), NEW q \in Seq(S), q # <<>>
  PROVE  Append(p, Head(q)) \o Tail(q) = p \o q
<1> DEFINE h == Head(q)
           t == Tail(q)
<1>1. h \in S /\ t \in Seq(S) /\ <<h>> \in Seq(S)
  BY HeadTailProperties
<1>2. <<h>> \o t = q
  BY <1>1
<1> HIDE DEF h, t
<1>3. (p \o <<h>>) \o t = p \o (<<h>> \o t)
  BY <1>1, ConcatAssociative
<1>4. Append(p, h) = p \o <<h>>
  BY <1>1, AppendIsConcat
<1>5. QED
  BY <1>2, <1>3, <1>4 DEF h, t

------------------------------------------------------------------------------
(* The inductive invariant.  The two directions share no state. *)
TxType ==
  /\ a2i \in Seq(Messages \X Messages) /\ Len(a2i) <= Depth
  /\ send0 \in Messages \cup {NoWord}
  /\ txHolder \in SUBSET Senders
  /\ spc \in [Senders -> {"idle", "check", "word0", "word1"}]
  /\ sends \in [Senders -> 0 .. MaxSends]
  /\ accepted \in Seq(Messages) /\ taken \in Seq(Messages \X Messages)

(* Who writes the register pair holds tx_lock, and the room it found stays. *)
LockInv ==
  \A s \in Senders :
    /\ spc[s] # "idle" => sends[s] >= 1
    /\ spc[s] \in {"word0", "word1"} => txHolder = {s} /\ Len(a2i) < Depth
    /\ spc[s] = "word1" => send0 = Current(s)

TxInv == TxType /\ LockInv /\ TxIsFifo

Inbound == 1 .. MaxProduced

(* The four places of an inbound message: d handed out, p queued, l in the   *)
(* interrupt's hands, h in the hardware FIFO, of the n the IOP sent.         *)
Typed(d, p, l, h, n) ==
  /\ d \in Seq(Inbound) /\ p \in Seq(Inbound) /\ l \in Seq(Inbound) /\ h \in Seq(Inbound)
  /\ n \in 0 .. MaxProduced

(* Every message is in one of them; with as many as were sent, in one only. *)
Counted(d, p, l, h, n) == Len(d) + Len(p) + Len(l) + Len(h) = n
Covered(d, p, l, h, n) == Elems(d) \cup Elems(p) \cup Elems(l) \cup Elems(h) = 1 .. n

(* Each queue ascends, and each holds older messages than the next. *)
Ordered(p, l, h) ==
  /\ Sorted(p) /\ Sorted(l) /\ Sorted(h)
  /\ Below(p, l) /\ Below(p, h) /\ Below(l, h)

Holds(d, p, l, h, n) ==
  Typed(d, p, l, h, n) /\ Counted(d, p, l, h, n) /\ Covered(d, p, l, h, n) /\ Ordered(p, l, h)

DataInv == Holds(delivered, pending, drained, i2a, produced)

ControlType ==
  /\ ipc \in {"idle", "claim", "drain", "append", "wake", "handler"}
  /\ rpc \in [Consumers -> {"idle", "recv", "fifo", "empty", "sleep"}]
  /\ wakeToken \in BOOLEAN /\ handlerSet \in BOOLEAN
  /\ inFlight \in Seq(Inbound)

(* The interrupt holds messages of its own in two places only. *)
HeldInv == drained # <<>> => ipc \in {"drain", "append"}

(* Between recv's two looks nobody drains: what is ahead of the FIFO is what  *)
(* the interrupt held at the first look, wherever it is by now.               *)
FlightInv ==
  InRecv # {} =>
    ipc # "drain" /\ Elems(pending) \cup Elems(drained) \subseteq Elems(inFlight)

RxInv == DataInv /\ ControlType /\ HeldInv /\ FlightInv
IInv == TxInv /\ RxInv

dataVars == <<i2a, drained, pending, delivered, produced>>

------------------------------------------------------------------------------
(* Outbound *)
LEMMA InitTx == Init => TxInv
<1> SUFFICES ASSUME Init PROVE TxInv
  OBVIOUS
<1> USE AscAssumption DEF Init
<1>1. TxType
  BY DEF TxType, NoWord
<1>2. LockInv
  BY DEF LockInv
<1>3. TxIsFifo
  BY DEF TxIsFifo
<1>4. QED
  BY <1>1, <1>2, <1>3 DEF TxInv

LEMMA TxUnchanged == ASSUME TxInv, UNCHANGED txVars PROVE TxInv'
  BY DEF TxInv, TxType, LockInv, TxIsFifo, Current, txVars

LEMMA FifoUnchanged ==
  ASSUME TxIsFifo, UNCHANGED <<a2i, accepted, taken>>
  PROVE  TxIsFifo'
  BY DEF TxIsFifo

LEMMA CurrentIsMessage ==
  ASSUME TxInv, NEW s \in Senders, spc[s] # "idle"
  PROVE  Current(s) \in Messages
  BY AscAssumption DEF TxInv, TxType, LockInv, Current, Messages

LEMMA SendStep ==
  ASSUME TxInv, NEW s \in Senders,
         SendCall(s) \/ SendLock(s) \/ SendTimeout(s) \/ SendWord0(s)
  PROVE  TxInv'
<1> USE AscAssumption DEF TxInv
<1>1. CASE SendCall(s)
  <2>1. TxType'
    BY <1>1 DEF SendCall, TxType
  <2>2. LockInv'
    BY <1>1 DEF SendCall, LockInv, TxType, Current
  <2>3. QED
    BY <1>1, <2>1, <2>2, FifoUnchanged DEF SendCall
<1>2. CASE SendLock(s)
  <2>1. TxType'
    BY <1>2 DEF SendLock, TxType
  <2>2. LockInv'
    BY <1>2 DEF SendLock, LockInv, TxType, Current
  <2>3. QED
    BY <1>2, <2>1, <2>2, FifoUnchanged DEF SendLock
<1>3. CASE SendTimeout(s)
  <2>1. TxType'
    BY <1>3 DEF SendTimeout, TxType
  <2>2. LockInv'
    BY <1>3 DEF SendTimeout, LockInv, TxType, Current
  <2>3. QED
    BY <1>3, <2>1, <2>2, FifoUnchanged DEF SendTimeout
<1>4. CASE SendWord0(s)
  <2>1. Current(s) \in Messages
    BY <1>4, CurrentIsMessage DEF SendWord0
  <2>2. TxType'
    BY <1>4, <2>1 DEF SendWord0, TxType
  <2>3. LockInv'
    BY <1>4 DEF SendWord0, LockInv, TxType, Current
  <2>4. QED
    BY <1>4, <2>2, <2>3, FifoUnchanged DEF SendWord0
<1>5. QED
  BY <1>1, <1>2, <1>3, <1>4

LEMMA SendWord1Step ==
  ASSUME TxInv, NEW s \in Senders, SendWord1(s)
  PROVE  TxInv'
<1> USE AscAssumption DEF TxInv
<1> DEFINE m == Current(s)
           w == <<m, m>>
<1>1. /\ m \in Messages /\ w \in Messages \X Messages
      /\ send0 = m /\ txHolder = {s} /\ Len(a2i) < Depth
  BY CurrentIsMessage DEF SendWord1, LockInv
<1> HIDE DEF m
<1>2. /\ a2i' = Append(a2i, w) /\ accepted' = Append(accepted, m)
      /\ txHolder' = {} /\ spc' = [spc EXCEPT ![s] = "idle"]
      /\ UNCHANGED <<send0, sends, taken>>
  BY <1>1 DEF SendWord1, m
<1>3. TxType'
  BY <1>1, <1>2 DEF TxType
<1>4. LockInv'
  BY <1>1, <1>2 DEF TxType, LockInv, Current
<1>5. TxIsFifo'
  <2> DEFINE P == Messages \X Messages
  <2>1. /\ taken \in Seq(P) /\ a2i \in Seq(P) /\ accepted \in Seq(Messages)
        /\ taken \o a2i = Pairs(accepted)
    BY DEF TxType, TxIsFifo, Pairs
  <2>2. taken \o Append(a2i, w) = Append(taken \o a2i, w)
    <3> HIDE DEF P, w
    <3>1. w \in P
      BY <1>1 DEF P
    <3>2. QED
      BY SMTT(20), <2>1, <3>1, ConcatAppend
  <2>3. Append(Pairs(accepted), w) = Pairs(Append(accepted, m))
    BY <1>1, <2>1, PairsAppend
  <2>4. taken' \o a2i' = Pairs(accepted')
    BY <1>2, <2>1, <2>2, <2>3
  <2>5. QED
    BY <2>4 DEF TxIsFifo, Pairs
<1>6. QED
  BY <1>3, <1>4, <1>5

LEMMA IopTakeStep == ASSUME TxInv, IopTake PROVE TxInv'
<1> USE AscAssumption DEF TxInv
<1> DEFINE P == Messages \X Messages
<1>1. /\ a2i \in Seq(P) /\ taken \in Seq(P) /\ a2i # <<>>
      /\ a2i' = Tail(a2i) /\ taken' = Append(taken, Head(a2i))
      /\ UNCHANGED <<send0, txHolder, spc, sends, accepted>>
  BY DEF IopTake, TxType
<1>2. /\ Head(a2i) \in P /\ Tail(a2i) \in Seq(P)
      /\ Len(Tail(a2i)) = Len(a2i) - 1 /\ Len(a2i) \in Nat \ {0}
  BY <1>1, ElemsHeadTail
<1>3. TxType'
  BY <1>1, <1>2 DEF TxType
<1>4. LockInv'
  BY <1>1, <1>2 DEF TxType, LockInv, Current
<1>5. Append(taken, Head(a2i)) \o Tail(a2i) = taken \o a2i
  BY <1>1, MoveHead
<1>6. TxIsFifo'
  BY <1>1, <1>5 DEF TxIsFifo
<1>7. QED
  BY <1>3, <1>4, <1>6
------------------------------------------------------------------------------
(* Inbound: the moves of a message between its four places *)
LEMMA InboundIsNat == Inbound \subseteq Nat
  BY AscAssumption DEF Inbound

LEMMA HoldsInit == Holds(<<>>, <<>>, <<>>, <<>>, 0)
<1>1. /\ <<>> \in Seq(Inbound) /\ Len(<<>>) = 0
      /\ Elems(<<>>) = {} /\ Sorted(<<>>) /\ Below(<<>>, <<>>)
  BY EmptySeq, ElemsEmpty DEF Below
<1>2. 0 \in 0 .. MaxProduced /\ 1 .. 0 = {}
  BY AscAssumption
<1>3. QED
  BY <1>1, <1>2 DEF Holds, Typed, Counted, Covered, Ordered

LEMMA DeliverQueued ==
  ASSUME NEW d, NEW p, NEW l, NEW h, NEW n, Holds(d, p, l, h, n), p # <<>>
  PROVE  Holds(Append(d, Head(p)), Tail(p), l, h, n)
<1> USE DEF Holds
<1>1. /\ Head(p) \in Inbound /\ Tail(p) \in Seq(Inbound)
      /\ Len(Tail(p)) = Len(p) - 1 /\ Elems(p) = {Head(p)} \cup Elems(Tail(p))
      /\ Len(p) \in Nat /\ Len(d) \in Nat /\ Len(l) \in Nat /\ Len(h) \in Nat
  BY ElemsHeadTail, LenProperties DEF Typed
<1>2. /\ Append(d, Head(p)) \in Seq(Inbound) /\ Len(Append(d, Head(p))) = Len(d) + 1
      /\ Elems(Append(d, Head(p))) = Elems(d) \cup {Head(p)}
  BY <1>1, AppendProperties, ElemsAppend DEF Typed
<1>3. Sorted(Tail(p))
  BY InboundIsNat, SortedTail DEF Typed, Ordered
<1>4. Typed(Append(d, Head(p)), Tail(p), l, h, n)
  BY <1>1, <1>2 DEF Typed
<1>5. Counted(Append(d, Head(p)), Tail(p), l, h, n)
  <2>1. Len(d) + Len(p) + Len(l) + Len(h) = n
    BY DEF Counted
  <2>2. QED
    BY <1>1, <1>2, <2>1 DEF Counted
<1>6. Covered(Append(d, Head(p)), Tail(p), l, h, n)
  BY <1>1, <1>2 DEF Covered
<1>7. Ordered(Tail(p), l, h)
  BY <1>1, <1>3 DEF Ordered, Below
<1>8. QED
  BY <1>4, <1>5, <1>6, <1>7

LEMMA DeliverHardware ==
  ASSUME NEW d, NEW p, NEW l, NEW h, NEW n, Holds(d, p, l, h, n), h # <<>>
  PROVE  Holds(Append(d, Head(h)), p, l, Tail(h), n)
<1> USE DEF Holds
<1>1. /\ Head(h) \in Inbound /\ Tail(h) \in Seq(Inbound)
      /\ Len(Tail(h)) = Len(h) - 1 /\ Elems(h) = {Head(h)} \cup Elems(Tail(h))
      /\ Len(p) \in Nat /\ Len(d) \in Nat /\ Len(l) \in Nat /\ Len(h) \in Nat
  BY ElemsHeadTail, LenProperties DEF Typed
<1>2. /\ Append(d, Head(h)) \in Seq(Inbound) /\ Len(Append(d, Head(h))) = Len(d) + 1
      /\ Elems(Append(d, Head(h))) = Elems(d) \cup {Head(h)}
  BY <1>1, AppendProperties, ElemsAppend DEF Typed
<1>3. Sorted(Tail(h))
  BY InboundIsNat, SortedTail DEF Typed, Ordered
<1>4. Typed(Append(d, Head(h)), p, l, Tail(h), n)
  BY <1>1, <1>2 DEF Typed
<1>5. Counted(Append(d, Head(h)), p, l, Tail(h), n)
  <2>1. Len(d) + Len(p) + Len(l) + Len(h) = n
    BY DEF Counted
  <2>2. QED
    BY <1>1, <1>2, <2>1 DEF Counted
<1>6. Covered(Append(d, Head(h)), p, l, Tail(h), n)
  BY <1>1, <1>2 DEF Covered
<1>7. Ordered(p, l, Tail(h))
  BY <1>1, <1>3 DEF Ordered, Below
<1>8. QED
  BY <1>4, <1>5, <1>6, <1>7

LEMMA DrainHardware ==
  ASSUME NEW d, NEW p, NEW l, NEW h, NEW n, Holds(d, p, l, h, n), h # <<>>
  PROVE  Holds(d, p, Append(l, Head(h)), Tail(h), n)
<1> USE DEF Holds
<1>1. /\ Head(h) \in Inbound /\ Tail(h) \in Seq(Inbound)
      /\ Len(Tail(h)) = Len(h) - 1 /\ Elems(h) = {Head(h)} \cup Elems(Tail(h))
      /\ Len(p) \in Nat /\ Len(d) \in Nat /\ Len(l) \in Nat /\ Len(h) \in Nat
  BY ElemsHeadTail, LenProperties DEF Typed
<1>2. /\ Append(l, Head(h)) \in Seq(Inbound) /\ Len(Append(l, Head(h))) = Len(l) + 1
      /\ Elems(Append(l, Head(h))) = Elems(l) \cup {Head(h)}
  BY <1>1, AppendProperties, ElemsAppend DEF Typed
<1>3. Sorted(Tail(h)) /\ \A y \in Elems(Tail(h)) : Head(h) < y
  BY InboundIsNat, SortedTail DEF Typed, Ordered
<1>4. Sorted(Append(l, Head(h)))
  <2>1. \A y \in Elems(l) : y < Head(h)
    BY <1>1 DEF Ordered, Below
  <2>2. QED
    BY <1>1, <2>1, InboundIsNat, SortedAppend DEF Typed, Ordered
<1>5. Typed(d, p, Append(l, Head(h)), Tail(h), n)
  BY <1>1, <1>2 DEF Typed
<1>6. Counted(d, p, Append(l, Head(h)), Tail(h), n)
  <2>1. Len(d) + Len(p) + Len(l) + Len(h) = n
    BY DEF Counted
  <2>2. QED
    BY <1>1, <1>2, <2>1 DEF Counted
<1>7. Covered(d, p, Append(l, Head(h)), Tail(h), n)
  BY <1>1, <1>2 DEF Covered
<1>8. Ordered(p, Append(l, Head(h)), Tail(h))
  BY <1>1, <1>2, <1>3, <1>4 DEF Ordered, Below
<1>9. QED
  BY <1>5, <1>6, <1>7, <1>8

LEMMA QueueDrained ==
  ASSUME NEW d, NEW p, NEW l, NEW h, NEW n, Holds(d, p, l, h, n)
  PROVE  Holds(d, p \o l, <<>>, h, n)
<1> USE DEF Holds
<1>1. /\ p \o l \in Seq(Inbound) /\ Len(p \o l) = Len(p) + Len(l)
      /\ Elems(p \o l) = Elems(p) \cup Elems(l)
      /\ Len(p) \in Nat /\ Len(d) \in Nat /\ Len(l) \in Nat /\ Len(h) \in Nat
  BY ConcatProperties, ElemsConcat, LenProperties DEF Typed
<1>2. /\ <<>> \in Seq(Inbound) /\ Len(<<>>) = 0 /\ Elems(<<>>) = {} /\ Sorted(<<>>)
  BY EmptySeq, ElemsEmpty
<1>3. Sorted(p \o l)
  BY InboundIsNat, SortedConcat DEF Typed, Ordered
<1>4. Typed(d, p \o l, <<>>, h, n)
  BY <1>1, <1>2 DEF Typed
<1>5. Counted(d, p \o l, <<>>, h, n)
  <2>1. Len(d) + Len(p) + Len(l) + Len(h) = n
    BY DEF Counted
  <2>2. QED
    BY <1>1, <1>2, <2>1 DEF Counted
<1>6. Covered(d, p \o l, <<>>, h, n)
  BY <1>1, <1>2 DEF Covered
<1>7. Ordered(p \o l, <<>>, h)
  BY <1>1, <1>2, <1>3 DEF Ordered, Below
<1>8. QED
  BY <1>4, <1>5, <1>6, <1>7

LEMMA SendInbound ==
  ASSUME NEW d, NEW p, NEW l, NEW h, NEW n, Holds(d, p, l, h, n), n < MaxProduced
  PROVE  Holds(d, p, l, Append(h, n + 1), n + 1)
<1> USE DEF Holds
<1>1. n \in Nat /\ n + 1 \in Inbound /\ 1 .. n + 1 = (1 .. n) \cup {n + 1} /\ MaxProduced \in Nat
  BY AscAssumption DEF Typed, Inbound
<1>2. /\ Append(h, n + 1) \in Seq(Inbound) /\ Len(Append(h, n + 1)) = Len(h) + 1
      /\ Elems(Append(h, n + 1)) = Elems(h) \cup {n + 1}
      /\ Len(p) \in Nat /\ Len(d) \in Nat /\ Len(l) \in Nat /\ Len(h) \in Nat
  BY <1>1, AppendProperties, ElemsAppend, LenProperties DEF Typed
<1>3. \A y \in Elems(p) \cup Elems(l) \cup Elems(h) : y < n + 1
  BY <1>1 DEF Covered
<1>4. Sorted(Append(h, n + 1))
  BY <1>1, <1>3, InboundIsNat, SortedAppend DEF Typed, Ordered
<1>5. Typed(d, p, l, Append(h, n + 1), n + 1)
  BY <1>1, <1>2 DEF Typed
<1>6. Counted(d, p, l, Append(h, n + 1), n + 1)
  <2>1. Len(d) + Len(p) + Len(l) + Len(h) = n
    BY DEF Counted
  <2>2. QED
    BY <1>1, <1>2, <2>1 DEF Counted
<1>7. Covered(d, p, l, Append(h, n + 1), n + 1)
  BY <1>1, <1>2 DEF Covered
<1>8. Ordered(p, l, Append(h, n + 1))
  BY <1>2, <1>3, <1>4 DEF Ordered, Below
<1>9. QED
  BY <1>5, <1>6, <1>7, <1>8

------------------------------------------------------------------------------
(* Inbound: every step *)
LEMMA InitRx == Init => RxInv
<1> SUFFICES ASSUME Init PROVE RxInv
  OBVIOUS
<1>1. DataInv
  BY HoldsInit DEF Init, DataInv
<1>2. ControlType /\ HeldInv
  BY EmptySeq DEF Init, ControlType, HeldInv
<1>3. FlightInv
  BY DEF Init, FlightInv, InRecv
<1>4. QED
  BY <1>1, <1>2, <1>3 DEF RxInv

LEMMA DataUnchanged == ASSUME DataInv, UNCHANGED dataVars PROVE DataInv'
  BY DEF DataInv, dataVars

(* A step that brings nobody to the FIFO and moves nothing towards it. *)
LEMMA FlightKept ==
  ASSUME FlightInv, InRecv' \subseteq InRecv, ipc' # "drain" \/ ipc' = ipc,
         UNCHANGED <<pending, drained, inFlight>>
  PROVE  FlightInv'
  BY DEF FlightInv

LEMMA RxUnchanged == ASSUME RxInv, UNCHANGED rxVars PROVE RxInv'
<1> USE DEF RxInv, rxVars, history
<1>1. DataInv' /\ ControlType' /\ HeldInv'
  BY DEF DataInv, ControlType, HeldInv
<1>2. FlightInv'
  BY FlightKept DEF InRecv
<1>3. QED
  BY <1>1, <1>2

LEMMA RecvQueuedStep ==
  ASSUME RxInv, NEW c \in Consumers, RecvQueued(c)
  PROVE  RxInv'
<1> USE DEF RxInv
<1>1. /\ delivered' = Append(delivered, Head(pending)) /\ pending' = Tail(pending)
      /\ pending # <<>> /\ UNCHANGED <<i2a, drained, produced>>
  BY DEF RecvQueued
<1>2. DataInv'
  BY <1>1, DeliverQueued DEF DataInv
<1>3. ControlType' /\ HeldInv'
  BY DEF RecvQueued, AfterMessage, ControlType, HeldInv
<1>4. InRecv' = {}
  BY DEF RecvQueued, AfterMessage, ControlType, RxLockFree, InRecv
<1>5. QED
  BY <1>2, <1>3, <1>4 DEF FlightInv

LEMMA RecvFifoStep ==
  ASSUME RxInv, NEW c \in Consumers, RecvFifo(c)
  PROVE  RxInv'
<1> USE DEF RxInv
<1>1. /\ delivered' = Append(delivered, Head(i2a)) /\ i2a' = Tail(i2a) /\ i2a # <<>>
      /\ UNCHANGED <<pending, drained, produced>>
  BY DEF RecvFifo
<1>2. DataInv'
  BY <1>1, DeliverHardware DEF DataInv
<1>3. ControlType' /\ HeldInv'
  BY DEF RecvFifo, AfterMessage, ControlType, HeldInv
<1>4. InRecv' \subseteq InRecv
  BY DEF RecvFifo, AfterMessage, ControlType, InRecv
<1>5. FlightInv'
  BY <1>4, FlightKept DEF RecvFifo
<1>6. QED
  BY <1>2, <1>3, <1>5

LEMMA RecvLookStep ==
  ASSUME RxInv, NEW c \in Consumers, RecvLook(c)
  PROVE  RxInv'
<1> USE DEF RxInv
<1>1. DataInv'
  BY DataUnchanged DEF RecvLook, dataVars
<1>2. ControlType' /\ HeldInv'
  BY DEF RecvLook, ControlType, HeldInv, DataInv, Holds, Typed
<1>3. /\ ipc' # "drain" /\ pending' = <<>> /\ inFlight' = drained'
  BY DEF RecvLook, RxLockFree
<1>4. Elems(pending') \cup Elems(drained') \subseteq Elems(inFlight')
  BY <1>3, ElemsEmpty
<1>5. QED
  BY <1>1, <1>2, <1>3, <1>4 DEF FlightInv

(* The steps of a consumer that take no message. *)
LEMMA ConsumerStep ==
  ASSUME RxInv,
         \/ \E r \in Receivers : RecvCall(r) \/ RecvWait(r) \/ RecvTimeout(r)
         \/ \E c \in Consumers : RecvEmpty(c)
  PROVE  RxInv'
<1> USE DEF RxInv, Consumers, history
<1>1. CASE \E r \in Receivers : RecvCall(r)
  <2>1. DataInv' /\ ControlType' /\ HeldInv'
    BY <1>1, DataUnchanged DEF RecvCall, ControlType, HeldInv, dataVars
  <2>2. FlightInv'
    BY <1>1, FlightKept DEF RecvCall, InRecv, ControlType
  <2>3. QED
    BY <2>1, <2>2
<1>2. CASE \E r \in Receivers : RecvWait(r)
  <2>1. DataInv' /\ ControlType' /\ HeldInv'
    BY <1>2, DataUnchanged DEF RecvWait, ControlType, HeldInv, dataVars
  <2>2. FlightInv'
    BY <1>2, FlightKept DEF RecvWait, InRecv, ControlType
  <2>3. QED
    BY <2>1, <2>2
<1>3. CASE \E r \in Receivers : RecvTimeout(r)
  <2>1. DataInv' /\ ControlType' /\ HeldInv'
    BY <1>3, DataUnchanged DEF RecvTimeout, ControlType, HeldInv, dataVars
  <2>2. FlightInv'
    BY <1>3, FlightKept DEF RecvTimeout, InRecv, ControlType
  <2>3. QED
    BY <2>1, <2>2
<1>4. CASE \E c \in Consumers : RecvEmpty(c)
  <2>1. DataInv' /\ ControlType' /\ HeldInv'
    BY <1>4, DataUnchanged DEF RecvEmpty, ControlType, HeldInv, dataVars
  <2>2. FlightInv'
    BY <1>4, FlightKept DEF RecvEmpty, InRecv, ControlType
  <2>3. QED
    BY <2>1, <2>2
<1>5. QED
  BY <1>1, <1>2, <1>3, <1>4

LEMMA IrqStep == ASSUME RxInv, Irq PROVE RxInv'
<1> USE DEF RxInv, history
<1>1. CASE IrqRaise
  <2>1. DataInv' /\ FlightInv'
    BY <1>1, DataUnchanged, FlightKept DEF IrqRaise, dataVars, InRecv
  <2>2. QED
    BY <1>1, <2>1 DEF IrqRaise, ControlType, HeldInv
<1>2. CASE IrqClaim
  <2>1. DataInv'
    BY <1>2, DataUnchanged DEF IrqClaim, dataVars
  <2>2. FlightInv'
    BY <1>2 DEF IrqClaim, FlightInv, InRecv
  <2>3. QED
    BY <1>2, <2>1, <2>2 DEF IrqClaim, ControlType, HeldInv
<1>3. CASE IrqDrain
  <2>1. DataInv'
    BY <1>3, DrainHardware DEF IrqDrain, DataInv
  <2>2. FlightInv'
    BY <1>3 DEF IrqDrain, FlightInv, InRecv
  <2>3. QED
    BY <1>3, <2>1, <2>2 DEF IrqDrain, ControlType, HeldInv
<1>4. CASE IrqUnlock
  <2>1. DataInv' /\ FlightInv'
    BY <1>4, DataUnchanged, FlightKept DEF IrqUnlock, dataVars, InRecv
  <2>2. QED
    BY <1>4, <2>1 DEF IrqUnlock, ControlType, HeldInv
<1>5. CASE IrqAppend
  <2>1. DataInv'
    BY <1>5, QueueDrained DEF IrqAppend, DataInv
  <2>2. Elems(pending') \cup Elems(drained') = Elems(pending) \cup Elems(drained)
    <3>1. pending \in Seq(Inbound) /\ drained \in Seq(Inbound)
      BY DEF DataInv, Holds, Typed
    <3>2. pending' = pending \o drained /\ drained' = <<>>
      BY <1>5 DEF IrqAppend
    <3>3. QED
      BY <3>1, <3>2, ElemsConcat, ElemsEmpty
  <2>3. FlightInv'
    BY <1>5, <2>2 DEF IrqAppend, FlightInv, InRecv
  <2>4. QED
    BY <1>5, <2>1, <2>3 DEF IrqAppend, ControlType, HeldInv
<1>6. CASE IrqWake
  <2>1. DataInv'
    BY <1>6, DataUnchanged DEF IrqWake, dataVars
  <2>2. ControlType'
    BY <1>6, AscAssumption DEF IrqWake, ControlType
  <2>3. HeldInv'
    BY <1>6 DEF IrqWake, HeldInv
  <2>4. FlightInv'
    BY <1>6, FlightKept DEF IrqWake, InRecv
  <2>5. QED
    BY <2>1, <2>2, <2>3, <2>4
<1>7. CASE IrqReturn
  <2>1. DataInv' /\ FlightInv'
    BY <1>7, DataUnchanged, FlightKept DEF IrqReturn, dataVars, InRecv
  <2>2. QED
    BY <1>7, <2>1 DEF IrqReturn, ControlType, HeldInv
<1>8. QED
  BY <1>1, <1>2, <1>3, <1>4, <1>5, <1>6, <1>7 DEF Irq

LEMMA SetHandlerStep == ASSUME RxInv, SetHandler PROVE RxInv'
<1> USE DEF RxInv, history
<1>1. DataInv' /\ FlightInv'
  BY DataUnchanged, FlightKept DEF SetHandler, dataVars, InRecv
<1>2. QED
  BY <1>1 DEF SetHandler, ControlType, HeldInv

LEMMA IopSendStep == ASSUME RxInv, IopSend PROVE RxInv'
<1> USE DEF RxInv
<1>1. DataInv'
  BY SendInbound DEF IopSend, DataInv
<1>2. FlightInv'
  BY FlightKept DEF IopSend, InRecv
<1>3. QED
  BY <1>1, <1>2 DEF IopSend, ControlType, HeldInv

------------------------------------------------------------------------------
(* Both directions *)
LEMMA NextStep == ASSUME IInv, [Next]_vars PROVE IInv'
<1> USE DEF IInv
<1>1. CASE \E s \in Senders : Send(s)
  <2>1. PICK s \in Senders : Send(s)
    BY <1>1
  <2>2. TxInv'
    BY <2>1, SendStep, SendWord1Step DEF Send
  <2>3. UNCHANGED rxVars
    BY <2>1 DEF Send, SendCall, SendLock, SendTimeout, SendWord0, SendWord1
  <2>4. QED
    BY <2>2, <2>3, RxUnchanged
<1>2. CASE \E r \in Receivers : RecvCall(r) \/ RecvWait(r) \/ RecvTimeout(r)
  <2>1. UNCHANGED txVars
    BY <1>2 DEF RecvCall, RecvWait, RecvTimeout
  <2>2. QED
    BY <1>2, <2>1, TxUnchanged, ConsumerStep
<1>3. CASE \E c \in Consumers : Recv(c)
  <2>1. UNCHANGED txVars
    BY <1>3 DEF Recv, RecvQueued, RecvLook, RecvFifo, RecvEmpty
  <2>2. RxInv'
    BY <1>3, RecvQueuedStep, RecvLookStep, RecvFifoStep, ConsumerStep DEF Recv
  <2>3. QED
    BY <2>1, <2>2, TxUnchanged
<1>4. CASE Irq
  <2>1. UNCHANGED txVars
    BY <1>4 DEF Irq, IrqRaise, IrqClaim, IrqDrain, IrqUnlock, IrqAppend, IrqWake, IrqReturn
  <2>2. QED
    BY <1>4, <2>1, TxUnchanged, IrqStep
<1>5. CASE SetHandler
  <2>1. UNCHANGED txVars
    BY <1>5 DEF SetHandler
  <2>2. QED
    BY <1>5, <2>1, TxUnchanged, SetHandlerStep
<1>6. CASE IopTake
  <2>1. UNCHANGED rxVars
    BY <1>6 DEF IopTake
  <2>2. QED
    BY <1>6, <2>1, IopTakeStep, RxUnchanged
<1>7. CASE IopSend
  <2>1. UNCHANGED txVars
    BY <1>7 DEF IopSend
  <2>2. QED
    BY <1>7, <2>1, TxUnchanged, IopSendStep
<1>8. CASE UNCHANGED vars
  BY <1>8, TxUnchanged, RxUnchanged DEF vars
<1>9. QED
  BY <1>1, <1>2, <1>3, <1>4, <1>5, <1>6, <1>7, <1>8 DEF Next

(* The invariant the theorems below rest on holds of every execution: what   *)
(* tx_lock guards, and where the inbound messages are.                       *)
THEOREM Invariance == Spec => []IInv
<1>1. Init => IInv
  BY InitTx, InitRx DEF IInv
<1>2. IInv /\ [Next]_vars => IInv'
  BY NextStep
<1>3. QED
  BY <1>1, <1>2, PTL DEF Spec

(* Every variable keeps its type, and the hardware FIFO that send fills      *)
(* never holds more than its depth.                                          *)
THEOREM TypeCorrect == Spec => []TypeOK
<1>1. IInv => TypeOK
  BY DEF IInv, TxInv, TxType, RxInv, DataInv, Holds, Typed, Inbound, ControlType, TypeOK
<1>2. QED
  BY <1>1, Invariance, PTL

(* send, from any number of CPUs: the coprocessor takes whole messages, in   *)
(* the order their sends returned Ok, and none of those is lost.             *)
THEOREM OutboundFifo == Spec => []TxIsFifo
<1>1. IInv => TxIsFifo
  BY DEF IInv, TxInv
<1>2. QED
  BY <1>1, Invariance, PTL

LEMMA StoredElems ==
  ASSUME DataInv
  PROVE  /\ Stored \in Seq(Inbound)
         /\ Elems(Stored) = Elems(pending) \cup Elems(drained) \cup Elems(i2a)
         /\ Len(Stored) = Len(pending) + Len(drained) + Len(i2a)
         /\ Sorted(Stored)
<1> USE DEF DataInv, Holds
<1> DEFINE q == pending \o drained
<1>1. /\ pending \in Seq(Inbound) /\ drained \in Seq(Inbound) /\ i2a \in Seq(Inbound)
  BY DEF Typed
<1>2. /\ q \in Seq(Inbound) /\ Elems(q) = Elems(pending) \cup Elems(drained)
      /\ Len(q) = Len(pending) + Len(drained)
  BY <1>1, ConcatProperties, ElemsConcat
<1>3. Sorted(q) /\ Below(q, i2a)
  <2>1. Sorted(q)
    BY <1>1, InboundIsNat, SortedConcat DEF Ordered
  <2>2. Below(q, i2a)
    BY <1>2 DEF Ordered, Below
  <2>3. QED
    BY <2>1, <2>2
<1>4. Stored = q \o i2a
  BY DEF Stored
<1> HIDE DEF q
<1>5. /\ q \o i2a \in Seq(Inbound) /\ Elems(q \o i2a) = Elems(q) \cup Elems(i2a)
      /\ Len(q \o i2a) = Len(q) + Len(i2a)
  <2>1. q \in Seq(Inbound) /\ i2a \in Seq(Inbound)
    BY ONLY <1>1, <1>2
  <2>2. Elems(q \o i2a) = Elems(q) \cup Elems(i2a)
    BY ONLY <2>1, ElemsConcat
  <2>3. q \o i2a \in Seq(Inbound) /\ Len(q \o i2a) = Len(q) + Len(i2a)
    BY ONLY <2>1, ConcatProperties
  <2>4. QED
    BY ONLY <2>2, <2>3
<1>6. Sorted(q \o i2a)
  BY <1>1, <1>2, <1>3, InboundIsNat, SortedConcat DEF Ordered
<1>7. QED
  BY <1>2, <1>4, <1>5, <1>6

(* recv and the receive interrupt empty one FIFO: each message the           *)
(* coprocessor sent is delivered or stored, once.                            *)
THEOREM InboundOnce == Spec => []ExactlyOnce
<1>1. ASSUME IInv PROVE ExactlyOnce
  <2> DEFINE all == delivered \o Stored
  <2>1. DataInv /\ delivered \in Seq(Inbound) /\ Stored \in Seq(Inbound)
    BY <1>1, StoredElems DEF IInv, RxInv, DataInv, Holds, Typed
  <2>2. Elems(all) = Elems(delivered) \cup Elems(Stored) /\ Len(all) = Len(delivered) + Len(Stored)
    BY <2>1, ElemsConcat, ConcatProperties
  <2>3. Elems(all) = 1 .. produced
    BY <2>1, <2>2, StoredElems DEF DataInv, Holds, Covered
  <2>4. Len(all) = produced
    <3>1. /\ Len(delivered) \in Nat /\ Len(pending) \in Nat
          /\ Len(drained) \in Nat /\ Len(i2a) \in Nat
      BY <2>1, LenProperties DEF DataInv, Holds, Typed
    <3>2. /\ Len(delivered) + Len(pending) + Len(drained) + Len(i2a) = produced
          /\ Len(Stored) = Len(pending) + Len(drained) + Len(i2a)
      BY <2>1, StoredElems DEF DataInv, Holds, Counted
    <3>3. QED
      BY <2>2, <3>1, <3>2
  <2>5. QED
    BY <2>3, <2>4 DEF ExactlyOnce, Elems
<1>2. QED
  BY <1>1, Invariance, PTL

(* What waits in pending_messages, with the interrupt and in the FIFO is in  *)
(* the coprocessor's order.                                                  *)
THEOREM InboundStoredInOrder == Spec => []StoredInOrder
<1>1. ASSUME IInv PROVE StoredInOrder
  <2>1. Sorted(Stored)
    BY <1>1, StoredElems DEF IInv, RxInv
  <2>2. QED
    BY <2>1 DEF StoredInOrder, Sorted
<1>2. QED
  BY <1>1, Invariance, PTL

LEMMA OnlyRecvDelivers ==
  ASSUME Next, delivered' # delivered
  PROVE  \E c \in Consumers : RecvQueued(c) \/ RecvFifo(c)
  BY DEF Next, Send, SendCall, SendLock, SendTimeout, SendWord0, SendWord1, IopTake, rxVars, history,
         RecvCall, RecvWait, RecvTimeout, Recv, RecvLook, RecvEmpty, Irq, IrqRaise, IrqClaim, IrqDrain,
         IrqUnlock, IrqAppend, IrqWake, IrqReturn, SetHandler, IopSend

LEMMA HeadIsLeast ==
  ASSUME NEW s \in Seq(Inbound), s # <<>>, Sorted(s), NEW y \in Elems(s)
  PROVE  ~(y < Head(s))
<1>1. /\ Head(s) \in Inbound /\ Tail(s) \in Seq(Inbound)
      /\ Elems(s) = {Head(s)} \cup Elems(Tail(s))
  BY ElemsHeadTail
<1>2. Head(s) \in Nat
  BY <1>1, InboundIsNat
<1>3. CASE y = Head(s)
  BY <1>2, <1>3
<1>4. CASE y \in Elems(Tail(s))
  <2>1. Head(s) < y
    BY <1>4, InboundIsNat, SortedTail
  <2>2. y \in Nat
    BY <1>1, <1>4, ElementOfSeq, InboundIsNat DEF Elems
  <2>3. QED
    BY <1>2, <2>1, <2>2
<1>5. QED
  BY <1>1, <1>3, <1>4

(* An older message is left behind in one situation only: recv found         *)
(* pending_messages empty while the interrupt held what it had drained, and   *)
(* went on to the FIFO; and only those messages are left behind.              *)
THEOREM OvertakeWindow == Spec => OvertakeOnlyInFlight
<1> DEFINE Permitted ==
             /\ InRecv # {}
             /\ \A i \in Overtaken : \E j \in 1 .. Len(inFlight) : Stored[i] = inFlight[j]
<1>1. ASSUME IInv, [Next]_vars, OvertakesNow
      PROVE  Permitted
  <2>1. delivered' # delivered
    BY <1>1 DEF OvertakesNow
  <2>2. PICK c \in Consumers : RecvQueued(c) \/ RecvFifo(c)
    BY <1>1, <2>1, OnlyRecvDelivers DEF vars, rxVars, history
  <2>3. ASSUME NEW i \in Overtaken
        PROVE  /\ RecvFifo(c) /\ c \in InRecv
               /\ \E j \in 1 .. Len(inFlight) : Stored[i] = inFlight[j]
    <3> DEFINE y == Stored[i]
    <3>1. y \in Elems(Stored) /\ y < delivered'[Len(delivered')]
      BY DEF Overtaken, Elems
    <3> HIDE DEF y
    <3>2. /\ DataInv /\ y \in Elems(pending) \cup Elems(drained) \cup Elems(i2a)
          /\ delivered \in Seq(Inbound) /\ pending \in Seq(Inbound)
          /\ drained \in Seq(Inbound) /\ i2a \in Seq(Inbound)
          /\ Ordered(pending, drained, i2a)
      BY <1>1, <3>1, StoredElems DEF IInv, RxInv, DataInv, Holds, Typed
    <3>3. CASE RecvQueued(c)
      <4>1. pending # <<>> /\ delivered' = Append(delivered, Head(pending)) /\ Head(pending) \in Inbound
        BY <3>2, <3>3, ElemsHeadTail DEF RecvQueued
      <4>2. y < Head(pending)
        BY <3>1, <3>2, <4>1, AppendProperties
      <4>3. Head(pending) \in Elems(pending)
        BY <3>2, <4>1, ElemsHeadTail
      <4>4. y \notin Elems(pending)
        BY <3>2, <4>1, <4>2, HeadIsLeast DEF Ordered
      <4>5. Head(pending) < y
        BY <3>2, <4>3, <4>4 DEF Ordered, Below
      <4>6. y \in Nat /\ Head(pending) \in Nat
        <5>1. Elems(drained) \cup Elems(i2a) \subseteq Nat
          BY <3>2, ElementOfSeq, InboundIsNat DEF Elems
        <5>2. QED
          BY <3>2, <4>1, <4>4, <5>1, InboundIsNat
      <4>7. QED
        BY <4>2, <4>5, <4>6
    <3>4. CASE RecvFifo(c)
      <4>1. i2a # <<>> /\ delivered' = Append(delivered, Head(i2a)) /\ c \in InRecv
        BY <3>4 DEF RecvFifo, InRecv
      <4>2. y < Head(i2a)
        BY <3>1, <3>2, <4>1, ElemsHeadTail, AppendProperties
      <4>3. y \notin Elems(i2a)
        BY <3>2, <4>1, <4>2, HeadIsLeast DEF Ordered
      <4>4. y \in Elems(inFlight)
        BY <1>1, <3>2, <4>1, <4>3 DEF IInv, RxInv, FlightInv
      <4>5. QED
        BY <3>4, <4>1, <4>4 DEF Elems, y
    <3>5. QED
      BY <2>2, <3>3, <3>4
  <2>4. PICK i \in Overtaken : TRUE
    BY <1>1 DEF OvertakesNow
  <2>5. QED
    BY <2>3, <2>4
<1>2. IInv /\ [Next]_vars => [OvertakesNow => Permitted]_vars
  BY <1>1
<1>3. QED
  BY <1>2, Invariance, PTL DEF Spec, OvertakeOnlyInFlight

(* recv, the handler and the interrupt together: nothing inbound is lost or  *)
(* handed out twice, what is stored stays in order, and the only overtaking  *)
(* is the one of what the interrupt held when recv looked.                   *)
THEOREM InboundStaysIntact == Spec => InboundIntact
<1>1. Spec => [](ExactlyOnce /\ StoredInOrder)
  BY InboundOnce, InboundStoredInOrder, PTL
<1>2. QED
  BY <1>1, OvertakeWindow DEF InboundIntact

=============================================================================
