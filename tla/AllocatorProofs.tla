---------------------------- MODULE AllocatorProofs ---------------------------
(* What several callers share: the vectors of an MSI port (MsiVectors) and the *)
(* device addresses of the display coprocessor (DcpBuffers), neither of which  *)
(* holds a lock to the end of the call; the tables of the IOMMU (DartDomain)   *)
(* that the addresses are mapped in; the channel and the front end of the      *)
(* audio controller (McaPlayback); and the power domains (PmgrDomains).        *)
EXTENDS MsiVectors, DcpBuffers, DartDomain, McaPlayback, PmgrDomains, Integers, SequenceTheorems, TLAPS

(* Vectors: a request has some only while it runs, an allocation only between  *)
(* requests, and a request that takes still wants at least one.                *)
RequestInv ==
  \A t \in MsiTasks : /\ mpc[t] = "idle" => got[t] = {}
                      /\ mpc[t] # "idle" => held[t] = {}
                      /\ mpc[t] = "take" => want[t] > 0

MsiInv == MsiTypeOK /\ RequestInv /\ VectorsUnique /\ TableIsOwned

LEMMA MsiInitInv == MsiInit => MsiInv
BY MsiAssumption DEF MsiInit, MsiInv, MsiTypeOK, RequestInv, VectorsUnique, TableIsOwned, Owned

LEMMA AllocateStep ==
  ASSUME MsiInv, NEW t \in MsiTasks, NEW n \in 0 .. MaxCount, AllocateVectors(t, n)
  PROVE  MsiInv'
BY MsiAssumption
DEF MsiInv, MsiTypeOK, RequestInv, VectorsUnique, TableIsOwned, Owned, AllocateVectors, Vectors

LEMMA TakeStep ==
  ASSUME MsiInv, NEW t \in MsiTasks, TakeVector(t)
  PROVE  MsiInv'
<1>1. PICK v \in FreeVectors : allocated' = allocated \cup {v} /\ got' = [got EXCEPT ![t] = @ \cup {v}]
  BY DEF TakeVector
<1>2. v \in Vectors /\ v \notin allocated
  BY <1>1 DEF FreeVectors
<1>3. MsiTypeOK' /\ RequestInv'
  BY <1>1, <1>2, MsiAssumption DEF MsiInv, MsiTypeOK, RequestInv, TakeVector, Vectors
<1>4. /\ \A u \in MsiTasks \ {t} : Owned(u)' = Owned(u)
      /\ Owned(t)' = Owned(t) \cup {v}
  BY <1>1 DEF MsiInv, MsiTypeOK, TakeVector, Owned
<1>5. \A u \in MsiTasks : v \notin Owned(u)
  BY <1>2 DEF MsiInv, TableIsOwned
<1>6. VectorsUnique'
  BY <1>4, <1>5 DEF MsiInv, VectorsUnique
<1>7. TableIsOwned'
  BY <1>1, <1>4 DEF MsiInv, TableIsOwned
<1>8. QED
  BY <1>3, <1>6, <1>7 DEF MsiInv

(* Giving a vector back, from a request or from an allocation. *)
LEMMA GiveBack ==
  ASSUME MsiInv, NEW t \in MsiTasks, NEW v \in Owned(t),
         allocated' = allocated \ {v},
         \A u \in MsiTasks \ {t} : Owned(u)' = Owned(u),
         Owned(t)' = Owned(t) \ {v}
  PROVE  VectorsUnique' /\ TableIsOwned'
<1>1. \A u \in MsiTasks \ {t} : v \notin Owned(u)
  BY DEF MsiInv, VectorsUnique
<1>2. VectorsUnique'
  BY DEF MsiInv, VectorsUnique
<1>3. TableIsOwned'
  BY <1>1 DEF MsiInv, TableIsOwned
<1>4. QED
  BY <1>2, <1>3

LEMMA UndoStep ==
  ASSUME MsiInv, NEW t \in MsiTasks, UndoVector(t)
  PROVE  MsiInv'
<1>1. CASE \E v \in got[t] : allocated' = allocated \ {v} /\ got' = [got EXCEPT ![t] = @ \ {v}]
  <2>1. PICK v \in got[t] : allocated' = allocated \ {v} /\ got' = [got EXCEPT ![t] = @ \ {v}]
    BY <1>1
  <2>2. held' = held /\ held[t] = {} /\ mpc[t] = "undo"
    BY DEF UndoVector, MsiInv, RequestInv
  <2>3. CASE got[t] = {}
    BY <2>1, <2>3
  <2>4. CASE UNCHANGED <<mpc, want>>
    <3>1. MsiTypeOK' /\ RequestInv'
      BY <2>1, <2>2, <2>4 DEF MsiInv, MsiTypeOK, RequestInv
    <3>2. /\ v \in Owned(t) /\ Owned(t)' = Owned(t) \ {v}
          /\ \A u \in MsiTasks \ {t} : Owned(u)' = Owned(u)
      BY <2>1, <2>2 DEF MsiInv, MsiTypeOK, Owned
    <3>3. QED
      BY <2>1, <3>1, <3>2, GiveBack DEF MsiInv
  <2>5. QED
    BY <2>3, <2>4 DEF UndoVector
<1>2. CASE got[t] = {} /\ UNCHANGED <<allocated, got>> /\ mpc' = [mpc EXCEPT ![t] = "idle"] /\ want' = [want EXCEPT ![t] = 0]
  BY <1>2, MsiAssumption
  DEF UndoVector, MsiInv, MsiTypeOK, RequestInv, VectorsUnique, TableIsOwned, Owned, Vectors
<1>3. QED
  BY <1>1, <1>2 DEF UndoVector

LEMMA FreeStep ==
  ASSUME MsiInv, NEW t \in MsiTasks, FreeVector(t)
  PROVE  MsiInv'
<1>1. PICK v \in held[t] : allocated' = allocated \ {v} /\ held' = [held EXCEPT ![t] = @ \ {v}]
  BY DEF FreeVector
<1>2. got[t] = {} /\ UNCHANGED <<mpc, want, got>> /\ mpc[t] = "idle"
  BY DEF FreeVector, MsiInv, RequestInv
<1>3. MsiTypeOK' /\ RequestInv'
  BY <1>1, <1>2 DEF MsiInv, MsiTypeOK, RequestInv
<1>4. /\ v \in Owned(t) /\ Owned(t)' = Owned(t) \ {v}
      /\ \A u \in MsiTasks \ {t} : Owned(u)' = Owned(u)
  BY <1>1, <1>2 DEF MsiInv, MsiTypeOK, Owned
<1>5. QED
  BY <1>1, <1>3, <1>4, GiveBack DEF MsiInv

LEMMA ReturnStep ==
  ASSUME MsiInv, NEW t \in MsiTasks, AllocationReturned(t)
  PROVE  MsiInv'
<1>1. MsiTypeOK' /\ RequestInv'
  BY DEF MsiInv, MsiTypeOK, RequestInv, AllocationReturned
<1>2. \A u \in MsiTasks : Owned(u)' = Owned(u)
  BY DEF MsiInv, MsiTypeOK, RequestInv, AllocationReturned, Owned
<1>3. allocated' = allocated
  BY DEF AllocationReturned
<1>4. QED
  BY <1>1, <1>2, <1>3 DEF MsiInv, VectorsUnique, TableIsOwned

THEOREM VectorInvariance == MsiSpec => []MsiInv
<1>1. MsiInv /\ [MsiNext]_msiVars => MsiInv'
  <2> SUFFICES ASSUME MsiInv, [MsiNext]_msiVars PROVE MsiInv'
    OBVIOUS
  <2>1. CASE UNCHANGED msiVars
    BY <2>1 DEF msiVars, MsiInv, MsiTypeOK, RequestInv, VectorsUnique, TableIsOwned, Owned
  <2>2. ASSUME NEW t \in MsiTasks, OutOfVectors(t) PROVE MsiInv'
    BY <2>2 DEF OutOfVectors, MsiInv, MsiTypeOK, RequestInv, VectorsUnique, TableIsOwned, Owned
  <2>3. QED
    BY <2>1, <2>2, AllocateStep, TakeStep, UndoStep, ReturnStep, FreeStep DEF MsiNext
<1>2. QED
  BY <1>1, MsiInitInv, PTL DEF MsiSpec

(* allocate_vectors and free_vectors of any number of drivers at once: no      *)
(* vector is given out twice, and none stays marked after a request that ran   *)
(* out of vectors has given back what it took.                                 *)
THEOREM VectorsAreOwnedOnce == MsiSpec => []OwnedOnce
<1>1. MsiInv => OwnedOnce
  BY DEF MsiInv, OwnedOnce
<1>2. QED
  BY <1>1, VectorInvariance, PTL
-----------------------------------------------------------------------------
(* Device addresses: a call works on a range below the counter once it moved   *)
(* it, ranges of calls and of buffers never meet, and the table holds nothing  *)
(* at or above the counter.                                                    *)
DmaTyped ==
  /\ nextIova \in DmaBase .. DmaLimit
  /\ dma \in [DmaTasks -> [at : {"idle", "move", "enter"}, size : Nat, read : Nat]]
  /\ pagesIn \in [DevicePages -> DmaTasks \cup {"none"}]
  /\ owned \subseteq [by : DmaTasks, dva : Nat, size : Nat]

RangesBelow ==
  /\ \A t \in DmaTasks : dma[t].at # "idle" => dma[t].read \in DmaBase .. nextIova
  /\ \A t \in DmaTasks : dma[t].at = "enter" => dma[t].read + dma[t].size <= nextIova
  /\ \A b \in owned : b.dva >= DmaMask + DmaBase /\ b.dva - DmaMask + b.size <= nextIova
  /\ \A i \in DevicePages : pagesIn[i] # "none" => i < nextIova

CallsDisjoint ==
  \A t, u \in DmaTasks :
    t # u /\ dma[t].at = "enter" /\ dma[u].at = "enter" => Reserved(t) \cap Reserved(u) = {}

DmaInv == DmaTyped /\ RangesBelow /\ CallsDisjoint /\ BuffersDisjoint /\ PagesKept

LEMMA DmaInitInv == DmaInit => DmaInv
BY DmaAssumption
DEF DmaInit, DmaInv, DmaTyped, RangesBelow, CallsDisjoint, BuffersDisjoint, PagesKept, NoMapping,
    Reserved, DevicePages

LEMMA MapStep ==
  ASSUME DmaInv, NEW t \in DmaTasks, NEW n \in DmaSizes, MapBuffer(t, n)
  PROVE  DmaInv'
<1>1. n \in Nat /\ nextIova \in Nat
  BY DmaAssumption DEF DmaInv, DmaTyped
<1>2. dma' = [dma EXCEPT ![t] = [at |-> "move", size |-> n, read |-> nextIova]]
      /\ UNCHANGED <<nextIova, pagesIn, owned>>
  BY DEF MapBuffer
<1>3. DmaTyped'
  BY <1>1, <1>2 DEF DmaInv, DmaTyped
<1>4. RangesBelow'
  BY <1>1, <1>2, DmaAssumption DEF DmaInv, DmaTyped, RangesBelow
<1>5. \A u \in DmaTasks : dma'[u].at = "enter" => dma[u].at = "enter" /\ Reserved(u)' = Reserved(u)
  BY <1>2 DEF DmaInv, DmaTyped, Reserved
<1>6. CallsDisjoint' /\ BuffersDisjoint' /\ PagesKept'
  BY <1>2, <1>5 DEF DmaInv, CallsDisjoint, BuffersDisjoint, PagesKept, Run, Iova
<1>7. QED
  BY <1>3, <1>4, <1>6 DEF DmaInv

LEMMA MoveStep ==
  ASSUME DmaInv, NEW t \in DmaTasks, MoveCounter(t)
  PROVE  DmaInv'
<1>1. CASE nextIova = dma[t].read
  <2>1. /\ nextIova' = nextIova + dma[t].size /\ nextIova' <= DmaLimit
        /\ dma' = [dma EXCEPT ![t].at = "enter"]
        /\ UNCHANGED <<pagesIn, owned>>
    BY <1>1 DEF MoveCounter
  <2>2. nextIova \in Nat /\ DmaBase \in Nat /\ DmaLimit \in Nat /\ DmaMask \in Nat
        /\ dma[t].size \in Nat /\ nextIova <= nextIova'
    BY <2>1, DmaAssumption DEF DmaInv, DmaTyped
  <2>3. DmaTyped'
    BY <2>1, <2>2 DEF DmaInv, DmaTyped
  <2>4. \A u \in DmaTasks : /\ dma'[u].size = dma[u].size /\ dma'[u].read = dma[u].read
                            /\ u # t => dma'[u] = dma[u]
    BY <2>1 DEF DmaInv, DmaTyped
  <2>5. RangesBelow'
    <3>1. \A u \in DmaTasks : dma'[u].at # "idle" => dma'[u].read \in DmaBase .. nextIova'
      BY <1>1, <2>1, <2>2, <2>4 DEF DmaInv, DmaTyped, RangesBelow
    <3>2. \A u \in DmaTasks : dma'[u].at = "enter" => dma'[u].read + dma'[u].size <= nextIova'
      BY <1>1, <2>1, <2>2, <2>4 DEF DmaInv, DmaTyped, RangesBelow
    <3>3. \A b \in owned : b.dva >= DmaMask + DmaBase /\ b.dva - DmaMask + b.size <= nextIova'
      BY <2>1, <2>2 DEF DmaInv, DmaTyped, RangesBelow
    <3>4. \A i \in DevicePages : pagesIn[i] # "none" => i < nextIova'
      BY <2>1, <2>2 DEF DmaInv, RangesBelow, DevicePages
    <3>5. QED
      BY <2>1, <3>1, <3>2, <3>3, <3>4 DEF RangesBelow
  <2>6. Reserved(t)' = nextIova .. nextIova + dma[t].size - 1
    BY <1>1, <2>4 DEF Reserved
  <2>7. \A u \in DmaTasks \ {t} : /\ Reserved(u)' = Reserved(u)
                                  /\ dma[u].at = "enter" => \A i \in Reserved(u) : i < nextIova
    BY <2>2, <2>4 DEF DmaInv, DmaTyped, RangesBelow, Reserved
  <2>8. CallsDisjoint'
    BY <2>2, <2>4, <2>6, <2>7 DEF DmaInv, CallsDisjoint
  <2>9. \A b \in owned : \A i \in Run(b) : i < nextIova
    BY <2>2 DEF DmaInv, DmaTyped, RangesBelow, Run, Iova
  <2>10. BuffersDisjoint'
    BY SMTT(20), <2>1, <2>2, <2>4, <2>6, <2>7, <2>9 DEF DmaInv, BuffersDisjoint, Run, Iova
  <2>11. PagesKept'
    BY <2>1 DEF DmaInv, PagesKept, Run, Iova
  <2>12. QED
    BY <2>3, <2>5, <2>8, <2>10, <2>11 DEF DmaInv
<1>2. CASE nextIova # dma[t].read
  <2>1. dma' = [dma EXCEPT ![t].read = nextIova] /\ UNCHANGED <<nextIova, pagesIn, owned>>
    BY <1>2 DEF MoveCounter
  <2>2. DmaTyped'
    BY <2>1, DmaAssumption DEF DmaInv, DmaTyped
  <2>3. dma'[t].at = "move" /\ dma'[t].read = nextIova /\ \A u \in DmaTasks \ {t} : dma'[u] = dma[u]
    BY <2>1 DEF MoveCounter, DmaInv, DmaTyped
  <2>4. RangesBelow'
    BY <2>1, <2>3, DmaAssumption DEF DmaInv, DmaTyped, RangesBelow
  <2>5. CallsDisjoint' /\ BuffersDisjoint' /\ PagesKept'
    BY <2>1, <2>3 DEF DmaInv, CallsDisjoint, BuffersDisjoint, PagesKept, Reserved, Run, Iova
  <2>6. QED
    BY <2>2, <2>4, <2>5 DEF DmaInv
<1>3. QED
  BY <1>1, <1>2

LEMMA RefusedStep ==
  ASSUME DmaInv, NEW t \in DmaTasks, OutOfRange(t)
  PROVE  DmaInv'
<1>1. dma'[t].at = "idle" /\ \A u \in DmaTasks \ {t} : dma'[u] = dma[u]
  BY DEF OutOfRange, DmaInv, DmaTyped, NoMapping
<1>2. UNCHANGED <<nextIova, pagesIn, owned>>
  BY DEF OutOfRange
<1>3. DmaTyped'
  BY DEF OutOfRange, DmaInv, DmaTyped, NoMapping
<1>4. RangesBelow' /\ CallsDisjoint' /\ BuffersDisjoint' /\ PagesKept'
  BY <1>1, <1>2
  DEF DmaInv, RangesBelow, CallsDisjoint, BuffersDisjoint, PagesKept, Reserved, Run, Iova
<1>5. QED
  BY <1>3, <1>4 DEF DmaInv

(* What a step that enters the range of a call in the table leaves as it was:  *)
(* that range is below the counter and belongs to no buffer and no other call. *)
LEMMA EnterStep ==
  ASSUME DmaInv, NEW t \in DmaTasks, EnterPages(t)
  PROVE  DmaInv'
<1> DEFINE new == [by |-> t, dva |-> Dva(dma[t].read), size |-> dma[t].size]
<1>1. /\ dma[t].at = "enter" /\ nextIova' = nextIova
      /\ dma' = [dma EXCEPT ![t] = NoMapping]
  BY DEF EnterPages
<1>2. /\ DmaBase \in Nat /\ DmaLimit \in Nat /\ DmaMask \in Nat /\ nextIova \in Nat
      /\ dma[t].size \in Nat /\ dma[t].read \in Nat
      /\ dma[t].read >= DmaBase /\ dma[t].read + dma[t].size <= nextIova
  BY <1>1, DmaAssumption DEF DmaInv, DmaTyped, RangesBelow
<1>3. /\ dma'[t].at = "idle"
      /\ \A u \in DmaTasks \ {t} : dma'[u] = dma[u] /\ Reserved(u)' = Reserved(u)
  BY <1>1 DEF DmaInv, DmaTyped, NoMapping, Reserved
<1>4. PICK n \in 0 .. dma[t].size :
        /\ pagesIn' = Entered(t, n)
        /\ \/ owned' = owned
           \/ n = dma[t].size /\ owned' = owned \cup {new}
  BY <1>2 DEF EnterPages
<1>5. /\ \A i \in DevicePages : i \notin Reserved(t) => pagesIn'[i] = pagesIn[i]
      /\ \A i \in DevicePages : pagesIn'[i] = pagesIn[i] \/ (pagesIn'[i] = t /\ i \in Reserved(t))
      /\ pagesIn' \in [DevicePages -> DmaTasks \cup {"none"}]
  BY <1>2, <1>4 DEF Entered, Reserved, DmaInv, DmaTyped, DevicePages
<1>6. Run(new) = Reserved(t) /\ new \in [by : DmaTasks, dva : Nat, size : Nat]
  BY <1>2 DEF Run, Reserved, Iova, Dva
<1>7. DmaTyped'
  BY <1>1, <1>4, <1>5, <1>6 DEF DmaInv, DmaTyped, NoMapping
<1>8. RangesBelow'
  <2>1. \A b \in owned' : b.dva >= DmaMask + DmaBase /\ b.dva - DmaMask + b.size <= nextIova'
    BY <1>1, <1>2, <1>4 DEF DmaInv, RangesBelow, Dva
  <2>2. \A i \in DevicePages : pagesIn'[i] # "none" => i < nextIova'
    <3> SUFFICES ASSUME NEW i \in DevicePages, pagesIn'[i] # "none" PROVE i < nextIova
      BY <1>1
    <3>1. CASE pagesIn'[i] = pagesIn[i]
      BY <3>1 DEF DmaInv, RangesBelow
    <3>2. CASE i \in Reserved(t)
      BY <3>2, <1>2 DEF Reserved, DevicePages
    <3>3. QED
      BY <3>1, <3>2, <1>5
  <2>3. QED
    BY <1>1, <1>3, <2>1, <2>2 DEF DmaInv, RangesBelow
<1>9. CallsDisjoint'
  BY <1>3 DEF DmaInv, CallsDisjoint
<1>10. \A b \in owned : Reserved(t) \cap Run(b) = {}
  BY <1>1 DEF DmaInv, BuffersDisjoint
<1>11. \A u \in DmaTasks \ {t} : dma[u].at = "enter" => Reserved(u) \cap Reserved(t) = {}
  BY <1>1 DEF DmaInv, CallsDisjoint
<1>12. BuffersDisjoint'
  <2>1. \A b \in owned' : b \in owned \/ (b = new /\ Run(b) = Reserved(t))
    BY <1>4, <1>6
  <2>2. \A b, c \in owned' : b # c => Run(b) \cap Run(c) = {}
    BY <2>1, <1>10 DEF DmaInv, BuffersDisjoint
  <2>3. \A u \in DmaTasks, b \in owned' : dma'[u].at = "enter" => Reserved(u)' \cap Run(b) = {}
    BY <2>1, <1>3, <1>11 DEF DmaInv, BuffersDisjoint
  <2>4. QED
    BY <2>2, <2>3 DEF BuffersDisjoint, Run, Iova
<1>13. PagesKept'
  <2>1. \A b \in owned, i \in DevicePages : i \in Run(b) => pagesIn'[i] = b.by
    BY <1>5, <1>10 DEF DmaInv, PagesKept
  <2>2. ASSUME owned' = owned \cup {new}, n = dma[t].size, NEW i \in DevicePages, i \in Run(new)
        PROVE  pagesIn'[i] = new.by
    BY <2>2, <1>4, <1>6 DEF Entered, Reserved
  <2>3. QED
    BY <1>4, <2>1, <2>2 DEF PagesKept, Run, Iova
<1>14. QED
  BY <1>7, <1>8, <1>9, <1>12, <1>13 DEF DmaInv

LEMMA UnmapStep ==
  ASSUME DmaInv, NEW t \in DmaTasks, UnmapBuffer(t)
  PROVE  DmaInv'
<1>1. PICK b \in owned :
        /\ owned' = owned \ {b}
        /\ pagesIn' = [i \in DevicePages |-> IF i \in Run(b) THEN "none" ELSE pagesIn[i]]
  BY DEF UnmapBuffer
<1>2. UNCHANGED <<nextIova, dma>>
  BY DEF UnmapBuffer
<1>3. DmaTyped'
  BY <1>1, <1>2 DEF DmaInv, DmaTyped
<1>4. RangesBelow' /\ CallsDisjoint' /\ BuffersDisjoint'
  BY <1>1, <1>2 DEF DmaInv, RangesBelow, CallsDisjoint, BuffersDisjoint, Reserved, Run, Iova
<1>5. \A c \in owned', i \in DevicePages : i \in Run(c) => pagesIn'[i] = c.by
  BY <1>1 DEF DmaInv, BuffersDisjoint, PagesKept
<1>6. QED
  BY <1>3, <1>4, <1>5 DEF DmaInv, PagesKept, Run, Iova

THEOREM MapperInvariance == DmaSpec => []DmaInv
<1>1. DmaInv /\ [DmaNext]_dmaVars => DmaInv'
  <2> SUFFICES ASSUME DmaInv, [DmaNext]_dmaVars PROVE DmaInv'
    OBVIOUS
  <2>1. CASE UNCHANGED dmaVars
    BY <2>1
    DEF dmaVars, DmaInv, DmaTyped, RangesBelow, CallsDisjoint, BuffersDisjoint, PagesKept,
        Reserved, Run, Iova
  <2>2. QED
    BY <2>1, MapStep, MoveStep, RefusedStep, EnterStep, UnmapStep DEF DmaNext
<1>2. QED
  BY <1>1, DmaInitInv, PTL DEF DmaSpec

(* map_contiguous of any number of endpoints at once, between whose read of    *)
(* the counter and whose table entries any other call may run: their buffers   *)
(* share no device page, reach no scanout buffer, and stay mapped until they   *)
(* are given back, also when entering a range failed half way.                 *)
THEOREM MappedBuffersAreSafe == DmaSpec => []BuffersSafe
<1>1. DmaInv => BuffersSafe
  BY DmaAssumption DEF DmaInv, DmaTyped, RangesBelow, BuffersSafe, BelowScanout, DevicePages
<1>2. QED
  BY <1>1, MapperInvariance, PTL

------------------------------------------------------------------------------
(* The IOMMU (DartDomain), for any number of drivers, pages and streams.      *)
LEMMA RestOfRun ==
  ASSUME NEW S, NEW s \in Seq(S), s # <<>>
  PROVE  /\ Head(s) \in S /\ Tail(s) \in Seq(S) /\ Len(s) \in Nat \ {0}
         /\ {s[i] : i \in DOMAIN s} = {Head(s)} \cup {Tail(s)[i] : i \in DOMAIN Tail(s)}
         /\ IF Len(s) = 1 THEN {Tail(s)[i] : i \in DOMAIN Tail(s)} = {} ELSE Tail(s) # <<>>
<1> DEFINE t == Tail(s)
<1>1. /\ Head(s) \in S /\ t \in Seq(S) /\ Len(t) = Len(s) - 1 /\ Len(s) \in Nat \ {0}
      /\ \A i \in 1 .. Len(t) : t[i] = s[i + 1]
      /\ Head(s) = s[1]
  BY HeadTailProperties, EmptySeq
<1>2. DOMAIN s = 1 .. Len(s) /\ DOMAIN t = 1 .. Len(t)
  BY <1>1, LenProperties
<1> HIDE DEF t
<1>3. ASSUME NEW i \in DOMAIN s PROVE s[i] \in {Head(s)} \cup {t[j] : j \in DOMAIN t}
  <2>1. CASE i = 1
    BY <1>1, <2>1
  <2>2. CASE i # 1
    <3>1. i - 1 \in DOMAIN t /\ t[i - 1] = s[i]
      BY <1>1, <1>2, <2>2
    <3>2. QED
      BY <3>1
  <2>3. QED
    BY <2>1, <2>2
<1>4. ASSUME NEW j \in DOMAIN t PROVE t[j] \in {s[i] : i \in DOMAIN s}
  <2>1. j + 1 \in DOMAIN s /\ t[j] = s[j + 1]
    BY <1>1, <1>2
  <2>2. QED
    BY <2>1
<1>5. Head(s) \in {s[i] : i \in DOMAIN s}
  <2>1. 1 \in DOMAIN s
    BY <1>1, <1>2
  <2>2. QED
    BY <1>1, <2>1
<1>6. {s[i] : i \in DOMAIN s} = {Head(s)} \cup {t[i] : i \in DOMAIN t}
  BY <1>3, <1>4, <1>5
<1>7. IF Len(s) = 1 THEN {t[i] : i \in DOMAIN t} = {} ELSE t # <<>>
  <2>1. CASE Len(s) = 1
    <3>1. DOMAIN t = {}
      BY <1>1, <1>2, <2>1
    <3>2. QED
      BY <2>1, <3>1
  <2>2. CASE Len(s) # 1
    BY <1>1, <2>2, EmptySeq
  <2>3. QED
    BY <2>1, <2>2
<1>8. QED
  BY <1>1, <1>6, <1>7 DEF t

------------------------------------------------------------------------------
(* What each driver's call has done so far, and what is true before there is a *)
(* table and of the stream the firmware set up.                                *)
LeftSet(t) == {left[t][i] : i \in DOMAIN left[t]}

DartTyped ==
  /\ domain \in {"none", "bypass", "table", "firmware"}
  /\ DOMAIN ttbr = Streams /\ tcr \in [Streams -> {"off", "translate", "bypass"}]
  /\ ttbr = [s \in Streams |-> ttbr[s]]
  /\ dpc \in [DartTasks -> {"idle", "map", "mapFlush", "unmap", "unmapFlush"}]
  /\ left \in [DartTasks -> Seq(Nat \X Nat)]
  /\ owns \in [DartTasks -> SUBSET (Nat \X Nat)]

NoTableYet ==
  ~HasTable => /\ mapped = {} /\ tlb = {} /\ gone = {}
               /\ \A t \in DartTasks : dpc[t] = "idle" /\ owns[t] = {}

FirmwareStream ==
  /\ ttbr[FwStream] = "fw"
  /\ domain # "firmware" => FwStream \notin attached
  /\ tableLock # {<<"attach", FwStream>>}

CallInv(t) ==
  /\ dpc[t] \in {"map", "unmap"} => left[t] # <<>> /\ LeftSet(t) \subseteq PageSet(t)
  /\ dpc[t] = "map" => PageSet(t) \ LeftSet(t) \subseteq mapped
  /\ dpc[t] = "mapFlush" => PageSet(t) \subseteq mapped
  /\ dpc[t] \in {"map", "mapFlush"} => PageSet(t) \cap gone = {}
  /\ dpc[t] = "unmap" => PageSet(t) \cap mapped \subseteq LeftSet(t)
  /\ dpc[t] = "unmapFlush" => PageSet(t) \cap mapped = {}
  /\ owns[t] \subseteq PageSet(t) \cap mapped
  /\ owns[t] # {} => dpc[t] = "idle"

TableInv ==
  /\ \A t \in DartTasks : CallInv(t)
  /\ domain = "firmware" => FwPages \subseteq mapped
  /\ gone \cap mapped = {} /\ gone \cap tlb = {}

DartInv == DartTyped /\ NoTableYet /\ FirmwareStream /\ TableInv

LEMMA DartInitInv == DartInit => DartInv
BY DartAssumption
DEF DartInit, DartInv, DartTyped, NoTableYet, HasTable, FirmwareStream, TableInv, CallInv

(* Two holders of the lock are told apart. *)
LEMMA SingletonsDiffer ==
  /\ \A a, b, c, d : a # c \/ b # d => {<<a, b>>} # {<<c, d>>}
  /\ \A a, b : {} # {<<a, b>>}
<1>1. ASSUME NEW x, NEW y, {x} = {y} PROVE x = y
  BY <1>1
<1>2. ASSUME NEW a, NEW b, NEW c, NEW d, a # c \/ b # d PROVE {<<a, b>>} # {<<c, d>>}
  <2>1. <<a, b>> # <<c, d>>
    BY <1>2
  <2>2. QED
    BY <1>1, <2>1
<1>3. ASSUME NEW x PROVE {} # {x}
  OBVIOUS
<1>4. QED
  BY <1>2, <1>3

(* Steps that leave the table and the calls alone. *)
LEMMA StreamStep ==
  ASSUME DartInv,
         \/ DartProbe \/ WrapExisting \/ \E identity \in BOOLEAN : AllocDomain(identity)
         \/ \E s \in Streams : AttachStream(s) \/ EnableTranslation(s) \/ DetachStream(s)
  PROVE  /\ DartInv'
         /\ ttbr'[FwStream] = ttbr[FwStream] /\ tcr'[FwStream] = tcr[FwStream]
<1> FwStream \in Streams
  BY DartAssumption
<1>1. CASE DartProbe
  <2>1. /\ tcr' = [s \in Streams |-> IF ttbr[s] = "none" THEN "off" ELSE tcr[s]]
        /\ UNCHANGED <<bypassable, largePage, domain, ttbr, attached, l2, mapped, tlb, tableLock, dpc, left, owns, gone>>
    BY <1>1 DEF DartProbe
  <2>2. QED
    BY <2>1
    DEF DartInv, DartTyped, NoTableYet, HasTable, FirmwareStream, TableInv, CallInv, LeftSet
<1>2. CASE WrapExisting
  <2>1. /\ domain = "none" /\ domain' = "firmware" /\ attached' = {FwStream} /\ mapped' = FwPages
        /\ UNCHANGED <<ttbr, tcr, tlb, tableLock, dpc, left, owns, gone>>
    BY <1>2 DEF WrapExisting
  <2>2. /\ tlb = {} /\ gone = {}
        /\ \A t \in DartTasks : dpc[t] = "idle" /\ owns[t] = {}
    BY <2>1 DEF DartInv, NoTableYet, HasTable
  <2>3. DartTyped' /\ NoTableYet' /\ FirmwareStream'
    BY <2>1 DEF DartInv, DartTyped, NoTableYet, HasTable, FirmwareStream
  <2>4. TableInv'
    BY <2>1, <2>2 DEF TableInv, CallInv
  <2>5. QED
    BY <2>1, <2>3, <2>4 DEF DartInv, DartTyped
<1>3. ASSUME NEW identity \in BOOLEAN, AllocDomain(identity)
      PROVE  DartInv' /\ ttbr' = ttbr /\ tcr' = tcr
  <2>1. /\ domain = "none" /\ domain' \in {"bypass", "table"}
        /\ UNCHANGED <<ttbr, tcr, attached, mapped, tlb, tableLock, dpc, left, owns, gone>>
    BY <1>3 DEF AllocDomain
  <2>2. DartTyped' /\ NoTableYet' /\ FirmwareStream'
    BY <2>1 DEF DartInv, DartTyped, NoTableYet, HasTable, FirmwareStream
  <2>3. TableInv'
    BY <2>1 DEF DartInv, TableInv, CallInv, LeftSet
  <2>4. QED
    BY <2>1, <2>2, <2>3 DEF DartInv
<1>4. ASSUME NEW s \in Streams, AttachStream(s)
      PROVE  DartInv' /\ ttbr'[FwStream] = ttbr[FwStream] /\ tcr'[FwStream] = tcr[FwStream]
  <2>1. /\ domain # "firmware" => s # FwStream
        /\ attached' \subseteq attached \cup {s}
        /\ tableLock' = tableLock \/ (tableLock' = {<<"attach", s>>} /\ domain = "table")
        /\ ttbr' = ttbr \/ (ttbr' = [ttbr EXCEPT ![s] = "root"] /\ domain = "table")
        /\ tcr' = tcr \/ (tcr' = [tcr EXCEPT ![s] = "bypass"] /\ domain = "bypass")
        /\ UNCHANGED <<domain, mapped, tlb, dpc, left, owns, gone>>
    BY <1>4 DEF AttachStream, DartInv, DartTyped
  <2>2. DartTyped'
    BY <2>1 DEF DartInv, DartTyped
  <2>3. ttbr'[FwStream] = ttbr[FwStream] /\ tcr'[FwStream] = tcr[FwStream]
    BY <2>1 DEF DartInv, DartTyped
  <2>4. NoTableYet'
    BY <2>1 DEF DartInv, NoTableYet, HasTable
  <2>5. FirmwareStream'
    <3>1. s # FwStream => {<<"attach", s>>} # {<<"attach", FwStream>>}
      BY SingletonsDiffer
    <3>2. QED
      BY <2>1, <2>3, <3>1 DEF DartInv, FirmwareStream
  <2>6. TableInv'
    BY <2>1 DEF DartInv, TableInv, CallInv, LeftSet
  <2>7. QED
    BY <2>2, <2>3, <2>4, <2>5, <2>6 DEF DartInv
<1>5. ASSUME NEW s \in Streams, EnableTranslation(s)
      PROVE  DartInv' /\ ttbr'[FwStream] = ttbr[FwStream] /\ tcr'[FwStream] = tcr[FwStream]
  <2>1. /\ tableLock = {<<"attach", s>>} /\ tableLock' = {}
        /\ tcr' = [tcr EXCEPT ![s] = "translate"] /\ tlb' \in {tlb, {}} /\ attached' = attached \cup {s}
        /\ UNCHANGED <<domain, ttbr, mapped, dpc, left, owns, gone>>
    BY <1>5 DEF EnableTranslation
  <2>2. s # FwStream
    BY <2>1 DEF DartInv, FirmwareStream
  <2>3. DartTyped' /\ NoTableYet' /\ FirmwareStream'
    BY <2>1, <2>2 DEF DartInv, DartTyped, NoTableYet, HasTable, FirmwareStream
  <2>4. TableInv'
    BY <2>1 DEF DartInv, TableInv, CallInv, LeftSet
  <2>5. QED
    BY <2>1, <2>2, <2>3, <2>4 DEF DartInv, DartTyped
<1>6. ASSUME NEW s \in Streams, DetachStream(s)
      PROVE  DartInv' /\ ttbr'[FwStream] = ttbr[FwStream] /\ tcr'[FwStream] = tcr[FwStream]
  <2>1. /\ s \in attached /\ attached' = attached \ {s}
        /\ tcr' = IF domain = "firmware" THEN tcr ELSE [tcr EXCEPT ![s] = "off"]
        /\ UNCHANGED <<domain, ttbr, mapped, tlb, tableLock, dpc, left, owns, gone>>
    BY <1>6 DEF DetachStream
  <2>2. domain # "firmware" => s # FwStream
    BY <2>1 DEF DartInv, FirmwareStream
  <2>3. DartTyped' /\ NoTableYet' /\ FirmwareStream'
    BY <2>1 DEF DartInv, DartTyped, NoTableYet, HasTable, FirmwareStream
  <2>4. TableInv'
    BY <2>1 DEF DartInv, TableInv, CallInv, LeftSet
  <2>5. QED
    BY <2>1, <2>2, <2>3, <2>4 DEF DartInv, DartTyped
<1>7. QED
  BY <1>1, <1>2, <1>3, <1>4, <1>5, <1>6

------------------------------------------------------------------------------
(* A call is not disturbed by changes outside the pages of its driver.         *)
LEMMA OtherCall ==
  ASSUME NEW t \in DartTasks, CallInv(t),
         dpc'[t] = dpc[t], left'[t] = left[t], owns'[t] = owns[t],
         PageSet(t) \cap mapped' = PageSet(t) \cap mapped,
         PageSet(t) \cap gone' \subseteq gone
  PROVE  CallInv(t)'
BY DEF CallInv, LeftSet

(* The pages of one driver are nobody else's. *)
LEMMA Apart ==
  ASSUME NEW t \in DartTasks
  PROVE  /\ PagesOf[t] \in Seq(Nat \X Nat) /\ PagesOf[t] # <<>>
         /\ PageSet(t) \subseteq Nat \X Nat
         /\ PageSet(t) \cap FwPages = {}
         /\ \A u \in DartTasks : u # t => PageSet(u) \cap PageSet(t) = {}
<1>1. PagesOf[t] \in Seq(Nat \X Nat) /\ PagesOf[t] # <<>>
  BY DartAssumption
<1>2. PageSet(t) \subseteq Nat \X Nat
  BY <1>1, ElementOfSeq, LenProperties DEF PageSet
<1>3. QED
  BY <1>1, <1>2, DartAssumption

(* A page table exists while a call is under way and while a driver owns pages. *)
LEMMA BusyHasTable ==
  ASSUME DartInv, NEW t \in DartTasks, dpc[t] # "idle" \/ owns[t] # {}
  PROVE  HasTable
BY DEF DartInv, NoTableYet

(* What a step of a driver's call changes, from what it leaves alone. *)
LEMMA CallStep ==
  ASSUME DartInv, NEW t \in DartTasks, HasTable,
         UNCHANGED streamVars,
         tableLock' \in {tableLock, {}, {<<"map", t>>}},
         DartTyped', CallInv(t)',
         \A u \in DartTasks \ {t} :
           dpc'[u] = dpc[u] /\ left'[u] = left[u] /\ owns'[u] = owns[u],
         \A q \in mapped' \ mapped : q \in PageSet(t),
         \A q \in mapped \ mapped' : q \in PageSet(t),
         \A q \in gone' \ gone : q \in PageSet(t),
         gone' \cap mapped' = {}, gone' \cap tlb' = {}
  PROVE  DartInv' /\ ttbr'[FwStream] = ttbr[FwStream] /\ tcr'[FwStream] = tcr[FwStream]
<1>1. NoTableYet'
  BY DEF NoTableYet, HasTable, streamVars
<1>2. FirmwareStream'
  <2>1. {<<"map", t>>} # {<<"attach", FwStream>>} /\ {} # {<<"attach", FwStream>>}
    BY SingletonsDiffer
  <2>2. QED
    BY <2>1 DEF DartInv, FirmwareStream, streamVars
<1>3. \A u \in DartTasks : CallInv(u)'
  <2>1. ASSUME NEW u \in DartTasks, u # t
        PROVE  CallInv(u)'
    <3>1. PageSet(u) \cap PageSet(t) = {}
      BY <2>1, Apart
    <3>2. PageSet(u) \cap mapped' = PageSet(u) \cap mapped /\ PageSet(u) \cap gone' \subseteq gone
      BY <3>1
    <3>3. CallInv(u)
      BY DEF DartInv, TableInv
    <3>4. QED
      BY <2>1, <3>2, <3>3, OtherCall
  <2>2. QED
    BY <2>1
<1>4. domain' = "firmware" => FwPages \subseteq mapped'
  BY Apart DEF DartInv, TableInv, streamVars
<1>5. QED
  BY <1>1, <1>2, <1>3, <1>4 DEF DartInv, TableInv, streamVars

(* Head and tail of the pages left, as sets. *)
LEMMA LeftRuns ==
  ASSUME DartInv, NEW t \in DartTasks, left[t] # <<>>, NEW p, p = Head(left[t])
  PROVE  /\ p \in LeftSet(t) /\ p \in Nat \X Nat
         /\ Tail(left[t]) \in Seq(Nat \X Nat) /\ Len(left[t]) \in Nat
         /\ LeftSet(t) = {p} \cup {Tail(left[t])[i] : i \in DOMAIN Tail(left[t])}
         /\ IF Len(left[t]) = 1 THEN {Tail(left[t])[i] : i \in DOMAIN Tail(left[t])} = {}
            ELSE Tail(left[t]) # <<>>
<1>1. left[t] \in Seq(Nat \X Nat)
  BY DEF DartInv, DartTyped
<1>2. /\ Head(left[t]) \in Nat \X Nat /\ Tail(left[t]) \in Seq(Nat \X Nat)
      /\ Len(left[t]) \in Nat \ {0}
      /\ LeftSet(t) = {p} \cup {Tail(left[t])[i] : i \in DOMAIN Tail(left[t])}
      /\ IF Len(left[t]) = 1 THEN {Tail(left[t])[i] : i \in DOMAIN Tail(left[t])} = {}
         ELSE Tail(left[t]) # <<>>
  BY ONLY <1>1, left[t] # <<>>, p = Head(left[t]), RestOfRun DEF LeftSet
<1>3. p \in LeftSet(t)
  BY <1>2
<1>4. QED
  BY <1>2, <1>3

(* Advance takes one page off, and moves on after the last. *)
LEMMA AdvanceStep ==
  ASSUME DartInv, NEW t \in DartTasks, left[t] # <<>>,
         NEW last \in {"mapFlush", "unmapFlush"}, Advance(t, last)
  PROVE  /\ tableLock' \in {tableLock, {}}
         /\ left' \in [DartTasks -> Seq(Nat \X Nat)]
         /\ dpc' \in [DartTasks -> {"idle", "map", "mapFlush", "unmap", "unmapFlush"}]
         /\ \A u \in DartTasks \ {t} : dpc'[u] = dpc[u] /\ left'[u] = left[u]
         /\ LeftSet(t) = {Head(left[t])} \cup LeftSet(t)'
         /\ \/ dpc'[t] = last /\ LeftSet(t)' = {}
            \/ dpc'[t] = dpc[t] /\ left'[t] # <<>>
<1>1. left' = [left EXCEPT ![t] = Tail(left[t])] /\ left'[t] = Tail(left[t])
  BY DEF Advance, DartInv, DartTyped
<1>2. LeftSet(t)' = {Tail(left[t])[i] : i \in DOMAIN Tail(left[t])}
  BY <1>1 DEF LeftSet
<1>3. /\ Tail(left[t]) \in Seq(Nat \X Nat)
      /\ LeftSet(t) = {Head(left[t])} \cup LeftSet(t)'
      /\ IF Len(left[t]) = 1 THEN LeftSet(t)' = {} ELSE Tail(left[t]) # <<>>
  BY <1>2, LeftRuns
<1>4. left' \in [DartTasks -> Seq(Nat \X Nat)] /\ \A u \in DartTasks \ {t} : left'[u] = left[u]
  BY <1>1, <1>3 DEF DartInv, DartTyped
<1>5. CASE Len(left[t]) = 1
  <2>1. tableLock' = {} /\ dpc' = [dpc EXCEPT ![t] = last]
    BY <1>5 DEF Advance
  <2>2. QED
    BY <1>1, <1>3, <1>4, <1>5, <2>1 DEF DartInv, DartTyped
<1>6. CASE Len(left[t]) # 1
  <2>1. UNCHANGED <<tableLock, dpc>>
    BY <1>6 DEF Advance
  <2>2. QED
    BY <1>1, <1>3, <1>4, <1>6, <2>1 DEF DartInv, DartTyped
<1>7. QED
  BY <1>5, <1>6


------------------------------------------------------------------------------
(* One lemma per action of a driver's call.                                    *)
StreamKept == ttbr'[FwStream] = ttbr[FwStream] /\ tcr'[FwStream] = tcr[FwStream]

LEMMA MapStartStep ==
  ASSUME DartInv, NEW t \in DartTasks, DartMap(t)
  PROVE  DartInv' /\ StreamKept
<1>1. /\ dpc[t] = "idle" /\ owns[t] = {} /\ HasTable /\ tableLock' = {<<"map", t>>}
      /\ left' = [left EXCEPT ![t] = PagesOf[t]] /\ dpc' = [dpc EXCEPT ![t] = "map"]
      /\ gone' = gone \ PageSet(t) /\ UNCHANGED <<streamVars, mapped, tlb, owns>>
  BY DEF DartMap, tableVars
<1>2. DartTyped'
  BY <1>1, Apart DEF DartInv, DartTyped, streamVars
<1>3. left'[t] = PagesOf[t] /\ dpc'[t] = "map" /\ owns'[t] = {}
  BY <1>1 DEF DartInv, DartTyped
<1>4. LeftSet(t)' = PageSet(t)
  BY <1>3 DEF LeftSet, PageSet
<1>5. CallInv(t)'
  BY <1>1, <1>3, <1>4, Apart DEF CallInv
<1>6. \A u \in DartTasks \ {t} : dpc'[u] = dpc[u] /\ left'[u] = left[u] /\ owns'[u] = owns[u]
  BY <1>1 DEF DartInv, DartTyped
<1>7. gone' \cap mapped' = {} /\ gone' \cap tlb' = {} /\ gone' \ gone = {}
  BY <1>1 DEF DartInv, TableInv
<1>8. QED
  BY <1>1, <1>2, <1>5, <1>6, <1>7, CallStep DEF StreamKept

LEMMA MapPageStep ==
  ASSUME DartInv, NEW t \in DartTasks, MapPage(t)
  PROVE  DartInv' /\ StreamKept
<1> DEFINE p == Head(left[t])
<1>1. /\ dpc[t] = "map" /\ mapped' = mapped \cup {p} /\ Advance(t, "mapFlush")
      /\ UNCHANGED <<streamVars, tlb, owns, gone>>
  BY DEF MapPage
<1>2. CallInv(t)
  BY DEF DartInv, TableInv
<1>3. left[t] # <<>> /\ LeftSet(t) \subseteq PageSet(t) /\ PageSet(t) \ LeftSet(t) \subseteq mapped
      /\ PageSet(t) \cap gone = {} /\ owns[t] = {}
  BY <1>1, <1>2 DEF CallInv
<1>4. /\ tableLock' \in {tableLock, {}}
      /\ left' \in [DartTasks -> Seq(Nat \X Nat)]
      /\ dpc' \in [DartTasks -> {"idle", "map", "mapFlush", "unmap", "unmapFlush"}]
      /\ \A u \in DartTasks \ {t} : dpc'[u] = dpc[u] /\ left'[u] = left[u]
      /\ LeftSet(t) = {p} \cup LeftSet(t)'
      /\ \/ dpc'[t] = "mapFlush" /\ LeftSet(t)' = {}
         \/ dpc'[t] = "map" /\ left'[t] # <<>>
  BY <1>1, <1>3, AdvanceStep
<1> HIDE DEF p
<1>5. CallInv(t)'
  BY <1>1, <1>3, <1>4 DEF CallInv, PageSet
<1>6. DartTyped'
  BY <1>1, <1>4 DEF DartInv, DartTyped, streamVars
<1>7. HasTable
  BY <1>1, BusyHasTable
<1>8. p \in PageSet(t) /\ p \notin gone
  BY <1>3, <1>4
<1>9. gone' \cap mapped' = {} /\ gone' \cap tlb' = {}
  BY <1>1, <1>8 DEF DartInv, TableInv
<1>10. QED
  BY <1>1, <1>4, <1>5, <1>6, <1>7, <1>8, <1>9, CallStep DEF StreamKept

LEMMA MapFailsStep ==
  ASSUME DartInv, NEW t \in DartTasks, MapFails(t)
  PROVE  DartInv' /\ StreamKept
<1>1. /\ dpc[t] = "map" /\ tableLock' = {} /\ left' = [left EXCEPT ![t] = <<>>]
      /\ dpc' = [dpc EXCEPT ![t] = "idle"]
      /\ UNCHANGED <<streamVars, mapped, tlb, owns, gone>>
  BY DEF MapFails, tableVars
<1>2. owns[t] = {}
  BY <1>1 DEF DartInv, TableInv, CallInv
<1>3. <<>> \in Seq(Nat \X Nat)
  BY EmptySeq
<1>4. DartTyped'
  BY <1>1, <1>3 DEF DartInv, DartTyped, streamVars
<1>5. CallInv(t)'
  <2>1. dpc'[t] = "idle" /\ owns'[t] = {}
    BY <1>1, <1>2 DEF DartInv, DartTyped
  <2>2. QED
    BY <2>1 DEF CallInv
<1>6. \A u \in DartTasks \ {t} : dpc'[u] = dpc[u] /\ left'[u] = left[u] /\ owns'[u] = owns[u]
  BY <1>1 DEF DartInv, DartTyped
<1>7. HasTable
  BY <1>1, BusyHasTable
<1>8. gone' \cap mapped' = {} /\ gone' \cap tlb' = {}
  BY <1>1 DEF DartInv, TableInv
<1>9. QED
  BY <1>1, <1>4, <1>5, <1>6, <1>7, <1>8, CallStep DEF StreamKept

LEMMA MapFlushStep ==
  ASSUME DartInv, NEW t \in DartTasks, MapFlush(t)
  PROVE  DartInv' /\ StreamKept
<1>1. /\ dpc[t] = "mapFlush" /\ tlb' \in {tlb, {}}
      /\ owns' \in {owns, [owns EXCEPT ![t] = PageSet(t)]}
      /\ dpc' = [dpc EXCEPT ![t] = "idle"]
      /\ UNCHANGED <<streamVars, mapped, tableLock, left, gone>>
  BY DEF MapFlush
<1>2. PageSet(t) \subseteq mapped /\ owns[t] = {}
  BY <1>1 DEF DartInv, TableInv, CallInv
<1>3. DartTyped'
  <2>1. owns' \in [DartTasks -> SUBSET (Nat \X Nat)]
    BY <1>1, Apart DEF DartInv, DartTyped
  <2>2. QED
    BY <1>1, <2>1 DEF DartInv, DartTyped, streamVars
<1>4. CallInv(t)'
  <2>1. dpc'[t] = "idle" /\ owns'[t] \subseteq PageSet(t)
    BY <1>1, <1>2 DEF DartInv, DartTyped
  <2>2. QED
    BY <1>1, <1>2, <2>1 DEF CallInv, PageSet
<1>5. \A u \in DartTasks \ {t} : dpc'[u] = dpc[u] /\ left'[u] = left[u] /\ owns'[u] = owns[u]
  BY <1>1 DEF DartInv, DartTyped
<1>6. HasTable
  BY <1>1, BusyHasTable
<1>7. gone' \cap mapped' = {} /\ gone' \cap tlb' = {}
  BY <1>1 DEF DartInv, TableInv
<1>8. QED
  BY <1>1, <1>3, <1>4, <1>5, <1>6, <1>7, CallStep DEF StreamKept

LEMMA UnmapStartStep ==
  ASSUME DartInv, NEW t \in DartTasks, DartUnmap(t)
  PROVE  DartInv' /\ StreamKept
<1>1. /\ dpc[t] = "idle" /\ owns[t] # {} /\ tableLock' = {<<"map", t>>}
      /\ left' = [left EXCEPT ![t] = PagesOf[t]] /\ dpc' = [dpc EXCEPT ![t] = "unmap"]
      /\ owns' = [owns EXCEPT ![t] = {}] /\ UNCHANGED <<streamVars, mapped, tlb, gone>>
  BY DEF DartUnmap, tableVars
<1>2. DartTyped'
  BY <1>1, Apart DEF DartInv, DartTyped, streamVars
<1>3. left'[t] = PagesOf[t] /\ dpc'[t] = "unmap" /\ owns'[t] = {}
  BY <1>1 DEF DartInv, DartTyped
<1>4. LeftSet(t)' = PageSet(t)
  BY <1>3 DEF LeftSet, PageSet
<1>5. CallInv(t)'
  BY <1>1, <1>3, <1>4, Apart DEF CallInv
<1>6. \A u \in DartTasks \ {t} : dpc'[u] = dpc[u] /\ left'[u] = left[u] /\ owns'[u] = owns[u]
  BY <1>1 DEF DartInv, DartTyped
<1>7. HasTable
  BY <1>1, BusyHasTable
<1>8. gone' \cap mapped' = {} /\ gone' \cap tlb' = {}
  BY <1>1 DEF DartInv, TableInv
<1>9. QED
  BY <1>1, <1>2, <1>5, <1>6, <1>7, <1>8, CallStep DEF StreamKept

LEMMA UnmapPageStep ==
  ASSUME DartInv, NEW t \in DartTasks, UnmapPage(t)
  PROVE  DartInv' /\ StreamKept
<1> DEFINE p == Head(left[t])
<1>1. /\ dpc[t] = "unmap" /\ mapped' = mapped \ {p} /\ Advance(t, "unmapFlush")
      /\ UNCHANGED <<streamVars, tlb, owns, gone>>
  BY DEF UnmapPage
<1>2. CallInv(t)
  BY DEF DartInv, TableInv
<1>3. left[t] # <<>> /\ LeftSet(t) \subseteq PageSet(t) /\ PageSet(t) \cap mapped \subseteq LeftSet(t)
      /\ owns[t] = {}
  BY <1>1, <1>2 DEF CallInv
<1>4. /\ tableLock' \in {tableLock, {}}
      /\ left' \in [DartTasks -> Seq(Nat \X Nat)]
      /\ dpc' \in [DartTasks -> {"idle", "map", "mapFlush", "unmap", "unmapFlush"}]
      /\ \A u \in DartTasks \ {t} : dpc'[u] = dpc[u] /\ left'[u] = left[u]
      /\ LeftSet(t) = {p} \cup LeftSet(t)'
      /\ \/ dpc'[t] = "unmapFlush" /\ LeftSet(t)' = {}
         \/ dpc'[t] = "unmap" /\ left'[t] # <<>>
  BY <1>1, <1>3, AdvanceStep
<1> HIDE DEF p
<1>5. CallInv(t)'
  BY <1>1, <1>3, <1>4 DEF CallInv, PageSet
<1>6. DartTyped'
  BY <1>1, <1>4 DEF DartInv, DartTyped, streamVars
<1>7. HasTable
  BY <1>1, BusyHasTable
<1>8. p \in PageSet(t)
  BY <1>3, <1>4
<1>9. gone' \cap mapped' = {} /\ gone' \cap tlb' = {}
  BY <1>1 DEF DartInv, TableInv
<1>10. QED
  BY <1>1, <1>4, <1>5, <1>6, <1>7, <1>8, <1>9, CallStep DEF StreamKept

LEMMA UnmapFlushStep ==
  ASSUME DartInv, NEW t \in DartTasks, UnmapFlush(t)
  PROVE  DartInv' /\ StreamKept
<1>1. /\ dpc[t] = "unmapFlush"
      /\ \/ tlb' = {} /\ gone' = gone \cup PageSet(t)
         \/ UNCHANGED <<tlb, gone>>
      /\ dpc' = [dpc EXCEPT ![t] = "idle"]
      /\ UNCHANGED <<streamVars, mapped, tableLock, left, owns>>
  BY DEF UnmapFlush
<1>2. PageSet(t) \cap mapped = {} /\ owns[t] = {}
  BY <1>1 DEF DartInv, TableInv, CallInv
<1>3. DartTyped'
  BY <1>1 DEF DartInv, DartTyped, streamVars
<1>4. CallInv(t)'
  <2>1. dpc'[t] = "idle" /\ owns'[t] = {}
    BY <1>1, <1>2 DEF DartInv, DartTyped
  <2>2. QED
    BY <2>1 DEF CallInv
<1>5. \A u \in DartTasks \ {t} : dpc'[u] = dpc[u] /\ left'[u] = left[u] /\ owns'[u] = owns[u]
  BY <1>1 DEF DartInv, DartTyped
<1>6. HasTable
  BY <1>1, BusyHasTable
<1>7. gone' \cap mapped' = {} /\ gone' \cap tlb' = {}
  BY <1>1, <1>2 DEF DartInv, TableInv
<1>8. QED
  BY <1>1, <1>3, <1>4, <1>5, <1>6, <1>7, CallStep DEF StreamKept

LEMMA WalkStep ==
  ASSUME DartInv, NEW p \in mapped, DeviceWalks(p)
  PROVE  DartInv' /\ StreamKept
<1>1. HasTable /\ p \in mapped /\ tlb' = tlb \cup {p}
      /\ UNCHANGED <<streamVars, l2, mapped, tableLock, dpc, left, owns, gone>>
  BY DEF DeviceWalks
<1>2. gone' \cap tlb' = {} /\ gone' \cap mapped' = {}
  BY <1>1 DEF DartInv, TableInv
<1>3. DartTyped' /\ NoTableYet' /\ FirmwareStream'
  BY <1>1 DEF DartInv, DartTyped, NoTableYet, HasTable, FirmwareStream, streamVars
<1>4. TableInv'
  BY <1>1, <1>2 DEF DartInv, TableInv, CallInv, LeftSet, streamVars
<1>5. QED
  BY <1>1, <1>3, <1>4 DEF DartInv, StreamKept, streamVars

(* The inductive invariant is kept by every step, and no step touches the      *)
(* stream of the firmware.                                                     *)
LEMMA DartStep == DartInv /\ [DartNext]_dartVars => DartInv' /\ StreamKept
<1> SUFFICES ASSUME DartInv, [DartNext]_dartVars PROVE DartInv' /\ StreamKept
  OBVIOUS
<1>1. CASE \/ DartProbe \/ WrapExisting \/ \E identity \in BOOLEAN : AllocDomain(identity)
           \/ \E s \in Streams : AttachStream(s) \/ EnableTranslation(s) \/ DetachStream(s)
  BY <1>1, StreamStep DEF StreamKept
<1>2. CASE \E t \in DartTasks :
             \/ DartMap(t) \/ MapPage(t) \/ MapFails(t) \/ MapFlush(t)
             \/ DartUnmap(t) \/ UnmapPage(t) \/ UnmapFlush(t)
  BY <1>2, MapStartStep, MapPageStep, MapFailsStep, MapFlushStep, UnmapStartStep, UnmapPageStep,
     UnmapFlushStep
<1>3. CASE \E p \in mapped : DeviceWalks(p)
  BY <1>3, WalkStep
<1>4. CASE UNCHANGED dartVars
  BY <1>4
  DEF dartVars, StreamKept, DartInv, DartTyped, NoTableYet, HasTable, FirmwareStream, TableInv,
      CallInv, LeftSet
<1>5. QED
  BY <1>1, <1>2, <1>3, <1>4 DEF DartNext

(* What every call has done so far holds in every state (drivers/iommu/        *)
(* apple-dart), for any drivers whose pages are their own.                     *)
THEOREM DartInvariance == DartSpec => []DartInv
<1>1. DartInit => DartInv
  BY DartInitInv
<1>2. DartInv /\ [DartNext]_dartVars => DartInv'
  BY DartStep
<1>3. QED
  BY <1>1, <1>2, PTL DEF DartSpec

(* MappingsAreKept: nobody reaches a page that was unmapped, what a driver and *)
(* the firmware mapped stays mapped, and the firmware's stream is left alone.  *)
THEOREM MappingsHold == DartSpec => MappingsAreKept
<1>1. DartInv => UnmappedIsUnreachable /\ MappingsKept
  BY DEF DartInv, TableInv, CallInv, UnmappedIsUnreachable, MappingsKept
<1>2. DartInv /\ [DartNext]_dartVars
        => [ttbr'[FwStream] = ttbr[FwStream] /\ tcr'[FwStream] = tcr[FwStream]]_dartVars
  BY DartStep DEF StreamKept
<1>3. QED
  BY <1>1, <1>2, DartInvariance, PTL DEF DartSpec, MappingsAreKept, FirmwareStreamKept

-----------------------------------------------------------------------------
(* Playback: two outputs share one channel and one front end (McaPlayback).    *)
(* PlayInv says of each output where its call is, what of the shared parts is  *)
(* its own there, and which of its codecs may still be powered or audible; and *)
(* of each shared part that is on, that some output will switch it off.        *)

Setup == {"rate", "clocks", "codec", "prepare"}
Outside == {"request", "unwind", "silence", "unwound", "unpower", "unclock"}
CallOK(o) ==
  LET at == pcm[o].at
      op == pcm[o].op
  IN  /\ (op = "none") <=> (at = "none")
      /\ at \in Setup \cup Outside => pcmStream[o] = "none"
      /\ at \in {"startDma", "unmute", "started"} => pcmStream[o] = "running" /\ op = "start"
      /\ at \in {"remute", "startFailed"} => pcmStream[o] = "ready" /\ op = "start"
      /\ at \in {"mute", "stopDma"} => op \in {"configure", "stop", "release"} /\ (pcmStream[o] = "none" => op = "stop")
      /\ at = "drop" => pcmStream[o] = "ready" /\ op \in {"configure", "release"}
      /\ op = "stop" => at \in {"mute", "stopDma"}
OwnOK(o) == (owner = o) <=> (pcmStream[o] # "none" \/ pcm[o].at \in Setup)

(* What the owner has of the front end, unless another one takes it down.      *)
Plays(o) == pcmStream[o] = "running" /\ pcm[o].at # "startDma"
FrontOK(o) ==
  /\ owner = o => portOn[o]
  /\ Plays(o) => dmaOn
  /\ owner = o /\ o \notin crossed =>
       /\ \A p \in Outputs \ {o} : pcm[p].at \notin Teardown
       /\ pcm[o].at \notin {"rate", "clocks"} => cluster.gen /\ cluster.clock > 0
       /\ Plays(o) \/ pcm[o].at = "remute" => Samples

(* What runs has an output that will switch it off.                            *)
Clocks(o) == (owner = o /\ pcm[o].at \notin {"rate", "clocks"}) \/ pcm[o].at \in Teardown
Feeds(o) == pcmStream[o] # "none" /\ pcm[o].at # "drop"
QuietOK ==
  /\ dmaOn => \E o \in Outputs : Plays(o)
  /\ cluster.gen => \E o \in Outputs : Clocks(o)
  /\ cluster.serdes => \E o \in Outputs : Feeds(o)
  /\ \A o \in Outputs : portOn[o] => owner = o \/ pcm[o].at = "unwind"

(* The codecs of an output that all answered, as far as the call has come.     *)
MutedFrom(o, i) ==
  \/ pcmStream[o] = "running" /\ pcm[o].at \in {"none", "unmute", "started"}
  \/ pcmStream[o] = "running" /\ pcm[o].at = "mute" /\ pcm[o].k <= i
  \/ pcm[o].at = "remute" /\ pcm[o].k <= i
PoweredFrom(o, i) ==
  /\ pcm[o].at \notin {"request", "rate", "clocks", "unwound", "unclock"}
  /\ pcm[o].at \in {"silence", "unpower"} => pcm[o].k <= i
  /\ pcm[o].at \in {"none", "mute", "stopDma"} => pcmStream[o] # "none"
CodecsOK(o) ==
  Obeys(o) => \A i \in DOMAIN CodecsOf[o] :
    /\ ~codec[CodecsOf[o][i]].muted => MutedFrom(o, i)
    /\ codec[CodecsOf[o][i]].powered => PoweredFrom(o, i)

Steps == Setup \cup Outside \cup
  {"none", "startDma", "unmute", "started", "remute", "startFailed", "mute", "stopDma", "drop"}
McaCalls == [op : {"none", "configure", "start", "stop", "release"}, at : Steps, k : Nat]
CallTypes == pcm \in [Outputs -> McaCalls] /\ \A o \in Outputs : pcm[o].k \in DOMAIN CodecsOf[o]
ClusterTypes == cluster \in [clock : Nat, gen : BOOLEAN, serdes : BOOLEAN, cut : BOOLEAN]
FrontTypes ==
  /\ owner \in Outputs \cup {"free"} /\ dmaOn \in BOOLEAN
  /\ ClusterTypes
  /\ portOn \in [Outputs -> BOOLEAN]
CodecTypes == codec \in [McaCodecs -> [powered : BOOLEAN, muted : BOOLEAN, obeys : BOOLEAN]]
McaTypes ==
  /\ CallTypes /\ FrontTypes /\ CodecTypes
  /\ pcmStream \in [Outputs -> {"none", "ready", "running"}]
  /\ crossed \in SUBSET Outputs

CardOK == QuietOK /\ \A o \in Outputs : CallOK(o) /\ OwnOK(o) /\ FrontOK(o)
PlayInv == McaTypes /\ CardOK /\ \A o \in Outputs : CodecsOK(o)

(* What a step of an output's call leaves of the other outputs, and where the  *)
(* call is after it.                                                           *)
OthersCalls(o) == \A p \in Outputs \ {o} : pcm'[p] = pcm[p]
OthersRest(o) == \A p \in Outputs \ {o} : pcmStream'[p] = pcmStream[p] /\ portOn'[p] = portOn[p]
NowAt(o, at) == pcm'[o].at = at /\ pcm'[o].op = pcm[o].op /\ pcm'[o].k = 1
NowNext(o) ==
  /\ pcm'[o].at = pcm[o].at /\ pcm'[o].op = pcm[o].op
  /\ pcm'[o].k = pcm[o].k + 1 /\ pcm[o].k < Len(CodecsOf[o])
NowRests(o) == pcm'[o].at = "none" /\ pcm'[o].op = "none" /\ pcm'[o].k = 1

LEMMA FirstCodec == \A o \in Outputs : 1 \in DOMAIN CodecsOf[o] /\ Len(CodecsOf[o]) \in Nat
BY McaAssumption

LEMMA GoesTo ==
  ASSUME CallTypes, NEW o \in Outputs, NEW at \in Steps, GoTo(o, at)
  PROVE  CallTypes' /\ OthersCalls(o) /\ NowAt(o, at)
BY FirstCodec DEF GoTo, CallTypes, McaCalls, OthersCalls, NowAt

LEMMA GoesOn ==
  ASSUME CallTypes, NEW o \in Outputs, NEW at \in Steps, NextCodec(o, at)
  PROVE  /\ CallTypes' /\ OthersCalls(o)
         /\ (NowAt(o, at) /\ pcm[o].k = Len(CodecsOf[o])) \/ NowNext(o)
<1>1. CASE LastCodec(o)
  BY <1>1, GoesTo DEF NextCodec, LastCodec
<1>2. CASE ~LastCodec(o)
  <2>1. pcm' = [pcm EXCEPT ![o] = [op |-> pcm[o].op, at |-> pcm[o].at, k |-> pcm[o].k + 1]]
    BY <1>2 DEF NextCodec, CallTypes, McaCalls
  <2>2. pcm[o].k + 1 \in DOMAIN CodecsOf[o] /\ pcm[o].k < Len(CodecsOf[o])
    BY <1>2, McaAssumption DEF LastCodec, CallTypes
  <2>3. QED
    BY <2>1, <2>2 DEF CallTypes, McaCalls, OthersCalls, NowNext
<1>3. QED
  BY <1>1, <1>2

LEMMA Returns ==
  ASSUME CallTypes, NEW o \in Outputs, Return(o)
  PROVE  CallTypes' /\ OthersCalls(o) /\ NowRests(o)
BY FirstCodec DEF Return, Resting, CallTypes, McaCalls, Steps, OthersCalls, NowRests

(* A step on the codec at hand leaves the other codecs as they are. *)
NowCodec(o, powered, muted, obeys) ==
  /\ \A c \in McaCodecs \ {Codec(o)} : codec'[c] = codec[c]
  /\ codec'[Codec(o)].powered = powered /\ codec'[Codec(o)].muted = muted /\ codec'[Codec(o)].obeys = obeys

LEMMA CodecSteps ==
  ASSUME McaTypes, NEW o \in Outputs, NEW b \in BOOLEAN, NEW m \in BOOLEAN
  PROVE  /\ Codec(o) \in McaCodecs
         /\ codec' = [codec EXCEPT ![Codec(o)].powered = b, ![Codec(o)].muted = m]
              => CodecTypes' /\ NowCodec(o, b, m, codec[Codec(o)].obeys)
         /\ codec' = [codec EXCEPT ![Codec(o)].powered = b]
              => CodecTypes' /\ NowCodec(o, b, codec[Codec(o)].muted, codec[Codec(o)].obeys)
         /\ codec' = [codec EXCEPT ![Codec(o)].muted = b]
              => CodecTypes' /\ NowCodec(o, codec[Codec(o)].powered, b, codec[Codec(o)].obeys)
         /\ codec' = [codec EXCEPT ![Codec(o)].obeys = b]
              => CodecTypes' /\ NowCodec(o, codec[Codec(o)].powered, codec[Codec(o)].muted, b)
<1>1. Codec(o) \in McaCodecs
  BY DEF McaTypes, CallTypes, Codec, McaCodecs
<1>2. CodecTypes
  BY DEF McaTypes
<1>3. QED
  BY <1>1, <1>2 DEF CodecTypes, NowCodec

(* The shared front end after a step of one output: the others' calls stand    *)
(* where they were, only an output that let go of the channel takes it down    *)
(* under another, one without a stream cuts off the SERDES at most, and what   *)
(* still runs keeps an output that will switch it off.                         *)
OnlyCut ==
  /\ cluster'.gen = cluster.gen /\ cluster'.clock = cluster.clock
  /\ Samples => Samples'
LEMMA CardKept ==
  ASSUME PlayInv, McaTypes', NEW o \in Outputs, OthersCalls(o), OthersRest(o),
         owner' = owner \/ {owner, owner'} \subseteq {o, "free"},
         crossed \ {o} \subseteq crossed',
         \A p \in Outputs \ {o} : owner = p => /\ dmaOn' = dmaOn
                                               /\ p \in crossed \/ (OnlyCut /\ pcm'[o].at \notin Teardown),
         dmaOn' => Plays(o)' \/ (dmaOn /\ ~Plays(o)),
         cluster'.gen => Clocks(o)' \/ (cluster.gen /\ ~Clocks(o)),
         cluster'.serdes => Feeds(o)' \/ (cluster.serdes /\ ~Feeds(o)),
         portOn'[o] => owner' = o \/ pcm'[o].at = "unwind",
         CallOK(o)', OwnOK(o)', FrontOK(o)'
  PROVE  CardOK'
<1>0. McaTypes /\ QuietOK /\ \A p \in Outputs : CallOK(p) /\ OwnOK(p) /\ FrontOK(p)
  BY DEF PlayInv, CardOK
<1>1. ASSUME NEW p \in Outputs \ {o}
      PROVE  /\ pcm'[p] = pcm[p] /\ pcmStream'[p] = pcmStream[p] /\ portOn'[p] = portOn[p]
             /\ owner' = p <=> owner = p
  BY <1>1, McaAssumption DEF OthersCalls, OthersRest
<1>2. ASSUME NEW p \in Outputs \ {o}
      PROVE  /\ CallOK(p)' /\ OwnOK(p)' /\ FrontOK(p)'
             /\ Plays(p)' = Plays(p) /\ Clocks(p)' = Clocks(p) /\ Feeds(p)' = Feeds(p)
  <2>1. CallOK(p) /\ OwnOK(p) /\ FrontOK(p)
    BY <1>0
  <2>2. CallOK(p)'
    BY <1>1, <2>1 DEF CallOK
  <2>3. OwnOK(p)'
    BY <1>1, <2>1 DEF OwnOK
  <2>4. Plays(p)' = Plays(p) /\ Clocks(p)' = Clocks(p) /\ Feeds(p)' = Feeds(p)
    BY <1>1 DEF Plays, Clocks, Feeds
  <2>5. owner = p => /\ dmaOn' = dmaOn
                     /\ p \in crossed \/ (OnlyCut /\ pcm'[o].at \notin Teardown)
    BY <1>2
  <2>6. Plays(p) => owner = p
    BY <2>1 DEF OwnOK, Plays
  <2>7. p \notin crossed' => p \notin crossed
    OBVIOUS
  <2>8. FrontOK(p)'
    <3>1. (owner = p => portOn[p])'
      BY <1>1, <2>1 DEF FrontOK
    <3>2. (Plays(p) => dmaOn)'
      BY <2>1, <2>4, <2>5, <2>6 DEF FrontOK
    <3>3. ASSUME owner' = p, p \notin crossed'
          PROVE  /\ \A q \in Outputs \ {p} : pcm'[q].at \notin Teardown
                 /\ pcm'[p].at \notin {"rate", "clocks"} => cluster'.gen /\ cluster'.clock > 0
                 /\ Plays(p)' \/ pcm'[p].at = "remute" => Samples'
      <4>1. /\ \A q \in Outputs \ {p} : pcm[q].at \notin Teardown
            /\ pcm[p].at \notin {"rate", "clocks"} => cluster.gen /\ cluster.clock > 0
            /\ Plays(p) \/ pcm[p].at = "remute" => Samples
        BY <1>1, <2>1, <2>7, <3>3 DEF FrontOK
      <4>2. OnlyCut /\ pcm'[o].at \notin Teardown
        BY <1>1, <2>5, <2>7, <3>3
      <4>3. \A q \in Outputs \ {p} : pcm'[q].at \notin Teardown
        BY <1>1, <4>1, <4>2
      <4>4. QED
        BY <1>1, <2>4, <4>1, <4>2, <4>3 DEF OnlyCut
    <3>4. QED
      BY <3>1, <3>2, <3>3 DEF FrontOK, Teardown
  <2>9. QED
    BY <2>2, <2>3, <2>4, <2>8
<1>3. \A p \in Outputs : CallOK(p)' /\ OwnOK(p)' /\ FrontOK(p)'
  BY <1>2
<1>4. (dmaOn => \E p \in Outputs : Plays(p))'
  BY <1>0, <1>2 DEF QuietOK
<1>5. (cluster.gen => \E p \in Outputs : Clocks(p))'
  BY <1>0, <1>2 DEF QuietOK
<1>6. (cluster.serdes => \E p \in Outputs : Feeds(p))'
  BY <1>0, <1>2 DEF QuietOK
<1>7. (\A p \in Outputs : portOn[p] => owner = p \/ pcm[p].at = "unwind")'
  BY <1>0, <1>1 DEF QuietOK
<1>8. QED
  BY <1>3, <1>4, <1>5, <1>6, <1>7 DEF CardOK, QuietOK

(* A step of one output leaves the codecs of the others alone. *)
CodecsBy(o) == (\A c \in McaCodecs : codec'[c] = codec[c]) \/ \A c \in McaCodecs \ {Codec(o)} : codec'[c] = codec[c]

LEMMA OthersCodecs ==
  ASSUME PlayInv, NEW o \in Outputs, OthersCalls(o), OthersRest(o), CodecsBy(o), CodecsOK(o)'
  PROVE  \A p \in Outputs : CodecsOK(p)'
<1>1. ASSUME NEW p \in Outputs \ {o}
      PROVE  CodecsOK(p)'
  <2>1. CodecsOK(p)
    BY DEF PlayInv
  <2>2. \A i \in DOMAIN CodecsOf[p] : CodecsOf[p][i] \in McaCodecs \ {Codec(o)}
    BY McaAssumption DEF McaCodecs, Codec, PlayInv, McaTypes, CallTypes
  <2>3. \A i \in DOMAIN CodecsOf[p] : codec'[CodecsOf[p][i]] = codec[CodecsOf[p][i]]
    BY <2>2 DEF CodecsBy
  <2>4. Obeys(p)' = Obeys(p)
    BY <2>3 DEF Obeys
  <2>5. pcm'[p] = pcm[p] /\ pcmStream'[p] = pcmStream[p]
    BY DEF OthersCalls, OthersRest
  <2>6. \A i \in DOMAIN CodecsOf[p] : MutedFrom(p, i)' = MutedFrom(p, i) /\ PoweredFrom(p, i)' = PoweredFrom(p, i)
    BY <2>5 DEF MutedFrom, PoweredFrom
  <2>7. QED
    BY <2>1, <2>3, <2>4, <2>6 DEF CodecsOK
<1>2. QED
  BY <1>1

(* What the operations on the front end leave. *)
LEMMA ClusterSteps ==
  ASSUME ClusterTypes
  PROVE  /\ FrontOn => ClusterTypes' /\ cluster'.gen = TRUE /\ cluster'.clock = cluster.clock + 1 /\ cluster'.serdes = cluster.serdes
         /\ ClockOnly => ClusterTypes' /\ cluster'.gen = cluster.gen /\ cluster'.clock = cluster.clock + 1 /\ cluster'.serdes = cluster.serdes
         /\ FrontOff => ClusterTypes' /\ ~cluster'.gen /\ cluster'.serdes = cluster.serdes
         /\ \A b \in BOOLEAN : cluster' = [cluster EXCEPT !.serdes = b]
              => ClusterTypes' /\ cluster'.gen = cluster.gen /\ cluster'.clock = cluster.clock /\ cluster'.serdes = b
         /\ cluster.clock \in Nat
         /\ cluster' = cluster => ClusterTypes'
         /\ cluster' = [cluster EXCEPT !.clock = Sub(@), !.gen = FALSE, !.serdes = FALSE]
              => ClusterTypes' /\ ~cluster'.gen /\ ~cluster'.serdes
         /\ cluster' = [cluster EXCEPT !.serdes = TRUE, !.cut = FALSE]
              => ClusterTypes' /\ cluster'.gen = cluster.gen /\ cluster'.clock = cluster.clock /\ cluster'.serdes
         /\ cluster' = [cluster EXCEPT !.serdes = FALSE, !.cut = @ \/ cluster.serdes]
              => ClusterTypes' /\ OnlyCut /\ ~cluster'.serdes
<1>1. Sub(cluster.clock) \in Nat
  BY DEF ClusterTypes, Sub
<1>2. FrontOn => ClusterTypes' /\ cluster'.gen = TRUE /\ cluster'.clock = cluster.clock + 1 /\ cluster'.serdes = cluster.serdes
  <2>1. FrontOn => cluster' = [clock |-> cluster.clock + 1, gen |-> TRUE, serdes |-> cluster.serdes, cut |-> cluster.cut]
    BY DEF ClusterTypes, FrontOn
  <2>2. cluster.clock + 1 \in Nat /\ cluster.serdes \in BOOLEAN /\ cluster.cut \in BOOLEAN
    BY DEF ClusterTypes
  <2>3. [clock |-> cluster.clock + 1, gen |-> TRUE, serdes |-> cluster.serdes, cut |-> cluster.cut]
             \in [clock : Nat, gen : BOOLEAN, serdes : BOOLEAN, cut : BOOLEAN]
    BY <2>2
  <2>4. ASSUME FrontOn
        PROVE  ClusterTypes' /\ cluster'.gen = TRUE /\ cluster'.clock = cluster.clock + 1 /\ cluster'.serdes = cluster.serdes
    <3>1. ClusterTypes'
      BY <2>1, <2>3, <2>4 DEF ClusterTypes
    <3>2. QED
      BY <2>1, <2>4, <3>1
  <2>5. QED
    BY <2>4
<1>3. ClockOnly => ClusterTypes' /\ cluster'.gen = cluster.gen /\ cluster'.clock = cluster.clock + 1 /\ cluster'.serdes = cluster.serdes
  BY DEF ClusterTypes, ClockOnly
<1>4. FrontOff => ClusterTypes' /\ ~cluster'.gen /\ cluster'.serdes = cluster.serdes
  BY <1>1 DEF ClusterTypes, FrontOff
<1>5. \A b \in BOOLEAN : cluster' = [cluster EXCEPT !.serdes = b]
        => ClusterTypes' /\ cluster'.gen = cluster.gen /\ cluster'.clock = cluster.clock /\ cluster'.serdes = b
  BY DEF ClusterTypes
<1>6. cluster' = [cluster EXCEPT !.clock = Sub(@), !.gen = FALSE, !.serdes = FALSE]
        => ClusterTypes' /\ ~cluster'.gen /\ ~cluster'.serdes
  BY <1>1 DEF ClusterTypes
<1>7. cluster' = [cluster EXCEPT !.serdes = TRUE, !.cut = FALSE]
        => ClusterTypes' /\ cluster'.gen = cluster.gen /\ cluster'.clock = cluster.clock /\ cluster'.serdes
  BY DEF ClusterTypes
<1>8. ASSUME cluster' = [cluster EXCEPT !.serdes = FALSE, !.cut = @ \/ cluster.serdes]
      PROVE  ClusterTypes' /\ OnlyCut /\ ~cluster'.serdes
  <2>1. PICK c \in BOOLEAN : c <=> cluster.cut \/ cluster.serdes
    OBVIOUS
  <2>2. c = (cluster.cut \/ cluster.serdes)
    BY Zenon, <2>1 DEF ClusterTypes
  <2>3. cluster' = [cluster EXCEPT !.serdes = FALSE, !.cut = c]
    BY Zenon, <1>8, <2>2 DEF ClusterTypes
  <2>4. QED
    BY <2>1, <2>3 DEF ClusterTypes, OnlyCut, Samples
<1>9. QED
  BY <1>2, <1>3, <1>4, <1>5, <1>6, <1>7, <1>8 DEF ClusterTypes

(* A step that touches no codec: it stays one that has been silenced, or       *)
(* switched off, as far as the call has come.                                  *)
LEMMA IdleCodecs ==
  ASSUME PlayInv, NEW o \in Outputs, OthersCalls(o), OthersRest(o), codec' = codec,
         \A i \in DOMAIN CodecsOf[o] : /\ MutedFrom(o, i) => MutedFrom(o, i)'
                                       /\ PoweredFrom(o, i) => PoweredFrom(o, i)'
  PROVE  \A p \in Outputs : CodecsOK(p)'
<1>1. CodecsOK(o) /\ CodecsBy(o)
  BY DEF PlayInv, CodecsBy
<1>2. Obeys(o)' = Obeys(o)
  BY DEF Obeys
<1>3. CodecsOK(o)'
  BY <1>1, <1>2 DEF CodecsOK
<1>4. QED
  BY <1>1, <1>3, OthersCodecs

(* A step that works on the codec at hand: either it answers, and the call     *)
(* goes on behind it, or the output no longer obeys.                           *)
LEMMA CodecSilenced ==
  ASSUME PlayInv, McaTypes', NEW o \in Outputs, OthersCalls(o), OthersRest(o),
         \A c \in McaCodecs \ {Codec(o)} : codec'[c] = codec[c],
         codec'[Codec(o)].obeys => codec[Codec(o)].obeys,
         \A i \in DOMAIN CodecsOf[o] \ {pcm[o].k} : /\ MutedFrom(o, i) => MutedFrom(o, i)'
                                                    /\ PoweredFrom(o, i) => PoweredFrom(o, i)',
         \A i \in DOMAIN CodecsOf[o] :
           Obeys(o) /\ codec'[Codec(o)].obeys => /\ ~codec'[Codec(o)].muted => MutedFrom(o, i)'
                                                 /\ codec'[Codec(o)].powered => PoweredFrom(o, i)'
  PROVE  \A p \in Outputs : CodecsOK(p)'
<1>1. CodecsOK(o) /\ CodecsBy(o) /\ pcm[o].k \in DOMAIN CodecsOf[o]
  BY DEF PlayInv, McaTypes, CallTypes, CodecsBy
<1>2. SUFFICES ASSUME Obeys(o)'
               PROVE  CodecsOK(o)'
  BY <1>1, OthersCodecs DEF CodecsOK, Obeys
<1>3. codec'[Codec(o)].obeys
  BY <1>1, <1>2 DEF Obeys, Codec
<1>4. Obeys(o)
  <2>1. ASSUME NEW i \in DOMAIN CodecsOf[o]
        PROVE  codec[CodecsOf[o][i]].obeys
    <3>1. CodecsOf[o][i] \in McaCodecs /\ codec'[CodecsOf[o][i]].obeys
      BY <1>2, <2>1 DEF Obeys, McaCodecs
    <3>2. QED
      BY <1>3, <3>1
  <2>2. QED
    BY <2>1 DEF Obeys
<1>5. ASSUME NEW i \in DOMAIN CodecsOf[o]
      PROVE  /\ ~codec'[CodecsOf[o][i]].muted => MutedFrom(o, i)'
             /\ codec'[CodecsOf[o][i]].powered => PoweredFrom(o, i)'
  <2>1. CodecsOf[o][i] \in McaCodecs
    BY <1>5 DEF McaCodecs
  <2>2. CASE CodecsOf[o][i] = Codec(o)
    BY <1>3, <1>4, <1>5, <2>2
  <2>3. CASE CodecsOf[o][i] # Codec(o)
    <3>1. i # pcm[o].k /\ codec'[CodecsOf[o][i]] = codec[CodecsOf[o][i]]
      BY <2>1, <2>3 DEF Codec
    <3>2. QED
      BY <1>1, <1>4, <1>5, <3>1 DEF CodecsOK
  <2>4. QED
    BY <2>2, <2>3
<1>6. QED
  BY <1>5 DEF CodecsOK, MutedFrom, PoweredFrom

(* The free channel is taken, or the call ends. *)
LEMMA RequestDmaStep ==
  ASSUME PlayInv, NEW o \in Outputs, RequestDma(o)
  PROVE  PlayInv'
<1>0. McaTypes /\ CallTypes /\ FrontTypes /\ CodecTypes /\ ClusterTypes
  BY DEF PlayInv, McaTypes, FrontTypes
<1>1. CallTypes' /\ OthersCalls(o)
  BY <1>0, GoesTo, Returns DEF RequestDma, Takes, Steps, Setup, Outside
<1>2. McaTypes'
  <2>1. FrontTypes'
    BY <1>0, ClusterSteps DEF RequestDma, Takes, FrontTypes
  <2>2. CodecTypes'
    BY <1>0, CodecSteps DEF RequestDma, CodecTypes
  <2>3. QED
    BY <1>0, <1>1, <2>1, <2>2 DEF RequestDma, Takes, McaTypes
<1>3. pcm[o].at = "request"
  BY <1>0 DEF RequestDma, Takes, At
<1>4. OthersCalls(o) /\ OthersRest(o) /\ pcmStream' = pcmStream /\ dmaOn' = dmaOn /\ cluster' = cluster
  BY <1>0, <1>1 DEF RequestDma, Takes, OthersRest, McaTypes, FrontTypes
<1>5. \/ /\ owner = "free" /\ owner' = o /\ portOn'[o] /\ NowAt(o, "rate") /\ crossed \subseteq crossed'
         /\ o \in crossed' \/ \A p \in Outputs \ {o} : pcm[p].at \notin Teardown
         /\ crossed' \subseteq crossed \cup {o}
      \/ NowRests(o) /\ owner' = owner /\ portOn' = portOn /\ crossed' = crossed
  BY <1>0, GoesTo, Returns DEF RequestDma, Takes, McaTypes, FrontTypes, Teardown, Steps, Setup, Outside
<1>6. CallOK(o) /\ OwnOK(o) /\ FrontOK(o) /\ CodecsOK(o)
  BY DEF PlayInv, CardOK
<1>7. CallOK(o)' /\ OwnOK(o)'
  <2>1. CallOK(o)'
    BY <1>3, <1>4, <1>5, <1>6 DEF CallOK, Setup, Outside, NowAt, NowRests
  <2>2. OwnOK(o)'
    BY <1>0, <1>3, <1>4, <1>5, <1>6, McaAssumption DEF CallOK, OwnOK, Setup, Outside, NowAt, NowRests
  <2>3. QED
    BY <2>1, <2>2
<1>8. FrontOK(o)'
  BY <1>0, <1>3, <1>4, <1>5, <1>6, <1>7, McaAssumption
  DEF CallOK, OwnOK, FrontOK, FrontTypes, Samples, Plays, Setup, Outside, Teardown, OthersCalls, NowAt, NowRests
<1>9. CardOK'
  <2>1. ASSUME NEW p \in Outputs \ {o}, owner = p
        PROVE  dmaOn' = dmaOn /\ (p \in crossed \/ (OnlyCut /\ pcm'[o].at \notin Teardown))
    <3>1. p \in crossed \/ pcm[o].at \notin Teardown
      BY <2>1 DEF PlayInv, CardOK, FrontOK
    <3>2. pcmStream[o] = "none" /\ pcm[o].at \notin Setup
      BY <1>6, <2>1 DEF OwnOK, PlayInv, McaTypes
    <3>3. QED
      BY <1>3, <1>4, <1>5, <1>6, <2>1, <3>1, <3>2, McaAssumption
      DEF OnlyCut, Samples, CallOK, OwnOK, Setup, Outside, Teardown, NowAt, NowRests
  <2>2. owner' = owner \/ {owner, owner'} \subseteq {o, "free"}
    BY <1>0, <1>3, <1>4, <1>5, <1>6 DEF OwnOK, CallOK, Setup, FrontTypes
  <2>3. crossed \ {o} \subseteq crossed'
    BY <1>3, <1>4, <1>5
  <2>4. dmaOn' => Plays(o)' \/ (dmaOn /\ ~Plays(o))
    BY <1>3, <1>4, <1>5, <1>6 DEF Plays, CallOK, Setup, Outside, NowAt, NowRests
  <2>5. cluster'.gen => Clocks(o)' \/ (cluster.gen /\ ~Clocks(o))
    BY <1>0, <1>3, <1>4, <1>5, <1>6, McaAssumption DEF Clocks, CallOK, OwnOK, Setup, Outside, Teardown, NowAt, NowRests
  <2>6. cluster'.serdes => Feeds(o)' \/ (cluster.serdes /\ ~Feeds(o))
    BY <1>3, <1>4, <1>5, <1>6 DEF Feeds, CallOK, Setup, Outside, NowAt, NowRests
  <2>7. portOn'[o] => owner' = o \/ pcm'[o].at = "unwind"
    BY <1>0, <1>3, <1>4, <1>5, <1>6, McaAssumption
    DEF PlayInv, CardOK, QuietOK, CallOK, OwnOK, Setup, Outside, NowAt, NowRests
  <2>8. QED
    BY <1>2, <1>3, <1>4, <1>5, <1>7, <1>8, <2>1, <2>2, <2>3, <2>4, <2>5, <2>6, <2>7, CardKept
<1>10. \A p \in Outputs : CodecsOK(p)'
  BY <1>3, <1>4, <1>5, <1>6, McaAssumption, IdleCodecs
  DEF RequestDma, MutedFrom, PoweredFrom, CallOK, Setup, Outside, NowAt, NowRests
<1>11. QED
  BY <1>2, <1>9, <1>10 DEF PlayInv

(* The rate is set, or the path is given up. *)
LEMMA SetSyncRateStep ==
  ASSUME PlayInv, NEW o \in Outputs, SetSyncRate(o)
  PROVE  PlayInv'
<1>0. McaTypes /\ CallTypes /\ FrontTypes /\ CodecTypes /\ ClusterTypes
  BY DEF PlayInv, McaTypes, FrontTypes
<1>1. CallTypes' /\ OthersCalls(o)
  BY <1>0, GoesTo DEF SetSyncRate, Abandon, Steps, Setup, Outside
<1>2. McaTypes'
  <2>1. FrontTypes'
    BY <1>0, ClusterSteps DEF SetSyncRate, Abandon, FrontTypes
  <2>2. CodecTypes'
    BY <1>0, CodecSteps DEF SetSyncRate, CodecTypes
  <2>3. QED
    BY <1>0, <1>1, <2>1, <2>2 DEF SetSyncRate, Abandon, McaTypes
<1>3. pcm[o].at = "rate"
  BY <1>0 DEF SetSyncRate, Abandon, At
<1>4. OthersCalls(o) /\ OthersRest(o) /\ pcmStream' = pcmStream /\ portOn' = portOn /\ dmaOn' = dmaOn /\ cluster' = cluster
  BY <1>0, <1>1 DEF SetSyncRate, Abandon, OthersRest, McaTypes, FrontTypes
<1>5. \/ NowAt(o, "clocks") /\ owner' = owner /\ crossed' = crossed
      \/ owner' = "free" /\ crossed' = crossed \ {o} /\ NowAt(o, "unwind")
  BY <1>0, GoesTo DEF SetSyncRate, Abandon, Steps, Setup, Outside
<1>6. CallOK(o) /\ OwnOK(o) /\ FrontOK(o) /\ CodecsOK(o) /\ owner = o
  BY <1>0, <1>3, <1>4, <1>5 DEF PlayInv, CardOK, CallOK, OwnOK, Setup, McaTypes, FrontTypes
<1>7. CallOK(o)' /\ OwnOK(o)'
  <2>1. CallOK(o)'
    BY <1>3, <1>4, <1>5, <1>6 DEF CallOK, Setup, Outside, NowAt
  <2>2. OwnOK(o)'
    BY <1>0, <1>3, <1>4, <1>5, <1>6, McaAssumption DEF CallOK, OwnOK, Setup, Outside, NowAt
  <2>3. QED
    BY <2>1, <2>2
<1>8. FrontOK(o)'
  BY <1>0, <1>3, <1>4, <1>5, <1>6, <1>7, McaAssumption
  DEF CallOK, OwnOK, FrontOK, FrontTypes, Samples, Plays, Setup, Outside, Teardown, OthersCalls, NowAt
<1>9. CardOK'
  <2>1. \A p \in Outputs \ {o} : owner # p
    BY <1>6
  <2>2. owner' = owner \/ {owner, owner'} \subseteq {o, "free"}
    BY <1>0, <1>3, <1>4, <1>5, <1>6 DEF OwnOK, CallOK, Setup, FrontTypes
  <2>3. crossed \ {o} \subseteq crossed'
    BY <1>3, <1>4, <1>5
  <2>4. dmaOn' => Plays(o)' \/ (dmaOn /\ ~Plays(o))
    BY <1>3, <1>4, <1>5, <1>6 DEF Plays, CallOK, Setup, Outside, NowAt
  <2>5. cluster'.gen => Clocks(o)' \/ (cluster.gen /\ ~Clocks(o))
    BY <1>0, <1>3, <1>4, <1>5, <1>6, McaAssumption DEF Clocks, CallOK, OwnOK, Setup, Outside, Teardown, NowAt
  <2>6. cluster'.serdes => Feeds(o)' \/ (cluster.serdes /\ ~Feeds(o))
    BY <1>3, <1>4, <1>5, <1>6 DEF Feeds, CallOK, Setup, Outside, NowAt
  <2>7. portOn'[o] => owner' = o \/ pcm'[o].at = "unwind"
    BY <1>0, <1>3, <1>4, <1>5, <1>6, McaAssumption DEF PlayInv, CardOK, QuietOK, CallOK, OwnOK, Setup, Outside, NowAt
  <2>8. QED
    BY <1>2, <1>3, <1>4, <1>5, <1>7, <1>8, <2>1, <2>2, <2>3, <2>4, <2>5, <2>6, <2>7, CardKept
<1>10. \A p \in Outputs : CodecsOK(p)'
  BY <1>3, <1>4, <1>5, <1>6, McaAssumption, IdleCodecs
  DEF SetSyncRate, MutedFrom, PoweredFrom, CallOK, Setup, Outside, NowAt
<1>11. QED
  BY <1>2, <1>9, <1>10 DEF PlayInv

(* Clock and power come on, or one of them fails. *)
LEMMA EnableClocksStep ==
  ASSUME PlayInv, NEW o \in Outputs, EnableClocks(o)
  PROVE  PlayInv'
<1>0. McaTypes /\ CallTypes /\ FrontTypes /\ CodecTypes /\ ClusterTypes
  BY DEF PlayInv, McaTypes, FrontTypes
<1>1. CallTypes' /\ OthersCalls(o)
  BY <1>0, GoesTo DEF EnableClocks, Abandon, Steps, Setup, Outside
<1>2. McaTypes'
  <2>1. FrontTypes'
    BY <1>0, ClusterSteps DEF EnableClocks, Abandon, FrontTypes
  <2>2. CodecTypes'
    BY <1>0, CodecSteps DEF EnableClocks, CodecTypes
  <2>3. QED
    BY <1>0, <1>1, <2>1, <2>2 DEF EnableClocks, Abandon, McaTypes
<1>3. pcm[o].at = "clocks"
  BY <1>0 DEF EnableClocks, Abandon, At
<1>4. OthersCalls(o) /\ OthersRest(o) /\ pcmStream' = pcmStream /\ portOn' = portOn /\ dmaOn' = dmaOn
  BY <1>0, <1>1 DEF EnableClocks, Abandon, OthersRest, McaTypes, FrontTypes
<1>5. \/ /\ cluster'.gen = TRUE /\ cluster'.clock = cluster.clock + 1 /\ cluster'.serdes = cluster.serdes
         /\ NowAt(o, "codec") /\ owner' = owner /\ crossed' = crossed
      \/ /\ cluster'.gen = cluster.gen /\ cluster'.serdes = cluster.serdes
         /\ NowAt(o, "unwind") /\ owner' = "free" /\ crossed' = crossed \ {o}
  <2>1. CASE FrontOn /\ GoTo(o, "codec") /\ UNCHANGED <<owner, crossed, faults>>
    BY <1>0, <2>1, ClusterSteps, GoesTo DEF Steps, Setup
  <2>2. CASE Abandon(o) /\ (UNCHANGED cluster \/ ClockOnly)
    BY <1>0, <2>2, ClusterSteps, GoesTo DEF Abandon, Steps, Outside
  <2>3. QED
    BY <2>1, <2>2 DEF EnableClocks
<1>6. cluster.clock \in Nat
  BY <1>0, ClusterSteps
<1>7. CallOK(o) /\ OwnOK(o) /\ FrontOK(o) /\ CodecsOK(o) /\ owner = o
  BY <1>0, <1>3, <1>4, <1>5, <1>6 DEF PlayInv, CardOK, CallOK, OwnOK, Setup, McaTypes, FrontTypes
<1>8. CallOK(o)' /\ OwnOK(o)'
  <2>1. CallOK(o)'
    BY <1>3, <1>4, <1>5, <1>6, <1>7 DEF CallOK, Setup, Outside, NowAt
  <2>2. OwnOK(o)'
    BY <1>0, <1>3, <1>4, <1>5, <1>6, <1>7, McaAssumption DEF CallOK, OwnOK, Setup, Outside, NowAt
  <2>3. QED
    BY <2>1, <2>2
<1>9. FrontOK(o)'
  BY <1>0, <1>3, <1>4, <1>5, <1>6, <1>7, <1>8, McaAssumption
  DEF CallOK, OwnOK, FrontOK, FrontTypes, Samples, Plays, Setup, Outside, Teardown, OthersCalls, NowAt
<1>10. CardOK'
  <2>1. \A p \in Outputs \ {o} : owner # p
    BY <1>7
  <2>2. owner' = owner \/ {owner, owner'} \subseteq {o, "free"}
    BY <1>0, <1>3, <1>4, <1>5, <1>6, <1>7 DEF OwnOK, CallOK, Setup, FrontTypes
  <2>3. crossed \ {o} \subseteq crossed'
    BY <1>3, <1>4, <1>5, <1>6
  <2>4. dmaOn' => Plays(o)' \/ (dmaOn /\ ~Plays(o))
    BY <1>3, <1>4, <1>5, <1>6, <1>7 DEF Plays, CallOK, Setup, Outside, NowAt
  <2>5. cluster'.gen => Clocks(o)' \/ (cluster.gen /\ ~Clocks(o))
    BY <1>0, <1>3, <1>4, <1>5, <1>6, <1>7, McaAssumption DEF Clocks, CallOK, OwnOK, Setup, Outside, Teardown, NowAt
  <2>6. cluster'.serdes => Feeds(o)' \/ (cluster.serdes /\ ~Feeds(o))
    BY <1>3, <1>4, <1>5, <1>6, <1>7 DEF Feeds, CallOK, Setup, Outside, NowAt
  <2>7. portOn'[o] => owner' = o \/ pcm'[o].at = "unwind"
    BY <1>0, <1>3, <1>4, <1>5, <1>6, <1>7, McaAssumption
    DEF PlayInv, CardOK, QuietOK, CallOK, OwnOK, Setup, Outside, NowAt
  <2>8. QED
    BY <1>2, <1>3, <1>4, <1>5, <1>6, <1>8, <1>9, <2>1, <2>2, <2>3, <2>4, <2>5, <2>6, <2>7, CardKept
<1>11. \A p \in Outputs : CodecsOK(p)'
  BY <1>3, <1>4, <1>5, <1>6, <1>7, McaAssumption, IdleCodecs
  DEF EnableClocks, MutedFrom, PoweredFrom, CallOK, Setup, Outside, NowAt
<1>12. QED
  BY <1>2, <1>10, <1>11 DEF PlayInv

(* A codec comes up silent, or the path is given up. *)
LEMMA ConfigureCodecStep ==
  ASSUME PlayInv, NEW o \in Outputs, ConfigureCodec(o)
  PROVE  PlayInv'
<1>0. McaTypes /\ CallTypes /\ FrontTypes /\ CodecTypes /\ ClusterTypes
  BY DEF PlayInv, McaTypes, FrontTypes
<1>1. CallTypes' /\ OthersCalls(o)
  BY <1>0, GoesTo, GoesOn DEF ConfigureCodec, Abandon, Steps, Setup, Outside
<1>2. McaTypes'
  <2>1. FrontTypes'
    BY <1>0, ClusterSteps DEF ConfigureCodec, Abandon, FrontTypes
  <2>2. CodecTypes'
    BY <1>0, CodecSteps DEF ConfigureCodec, CodecTypes
  <2>3. QED
    BY <1>0, <1>1, <2>1, <2>2 DEF ConfigureCodec, Abandon, McaTypes
<1>3. pcm[o].at = "codec"
  BY <1>0 DEF ConfigureCodec, Abandon, At
<1>4. OthersCalls(o) /\ OthersRest(o) /\ pcmStream' = pcmStream /\ portOn' = portOn /\ dmaOn' = dmaOn /\ cluster' = cluster
  BY <1>0, <1>1 DEF ConfigureCodec, Abandon, OthersRest, McaTypes, FrontTypes
<1>5. \/ (NowAt(o, "prepare") \/ NowNext(o)) /\ owner' = owner /\ crossed' = crossed
      \/ owner' = "free" /\ crossed' = crossed \ {o} /\ NowAt(o, "unwind")
  BY <1>0, GoesTo, GoesOn DEF ConfigureCodec, Abandon, Steps, Setup, Outside
<1>6. CallOK(o) /\ OwnOK(o) /\ FrontOK(o) /\ CodecsOK(o) /\ owner = o
  BY <1>0, <1>3, <1>4, <1>5 DEF PlayInv, CardOK, CallOK, OwnOK, Setup, McaTypes, FrontTypes
<1>7. CallOK(o)' /\ OwnOK(o)'
  <2>1. CallOK(o)'
    BY <1>3, <1>4, <1>5, <1>6 DEF CallOK, Setup, Outside, NowAt, NowNext
  <2>2. OwnOK(o)'
    BY <1>0, <1>3, <1>4, <1>5, <1>6, McaAssumption DEF CallOK, OwnOK, Setup, Outside, NowAt, NowNext
  <2>3. QED
    BY <2>1, <2>2
<1>8. FrontOK(o)'
  BY <1>0, <1>3, <1>4, <1>5, <1>6, <1>7, McaAssumption
  DEF CallOK, OwnOK, FrontOK, FrontTypes, Samples, Plays, Setup, Outside, Teardown, OthersCalls, NowAt, NowNext
<1>9. CardOK'
  <2>1. \A p \in Outputs \ {o} : owner # p
    BY <1>6
  <2>2. owner' = owner \/ {owner, owner'} \subseteq {o, "free"}
    BY <1>0, <1>3, <1>4, <1>5, <1>6 DEF OwnOK, CallOK, Setup, FrontTypes
  <2>3. crossed \ {o} \subseteq crossed'
    BY <1>3, <1>4, <1>5
  <2>4. dmaOn' => Plays(o)' \/ (dmaOn /\ ~Plays(o))
    BY <1>3, <1>4, <1>5, <1>6 DEF Plays, CallOK, Setup, Outside, NowAt, NowNext
  <2>5. cluster'.gen => Clocks(o)' \/ (cluster.gen /\ ~Clocks(o))
    BY <1>0, <1>3, <1>4, <1>5, <1>6, McaAssumption DEF Clocks, CallOK, OwnOK, Setup, Outside, Teardown, NowAt, NowNext
  <2>6. cluster'.serdes => Feeds(o)' \/ (cluster.serdes /\ ~Feeds(o))
    BY <1>3, <1>4, <1>5, <1>6 DEF Feeds, CallOK, Setup, Outside, NowAt, NowNext
  <2>7. portOn'[o] => owner' = o \/ pcm'[o].at = "unwind"
    BY <1>0, <1>3, <1>4, <1>5, <1>6, McaAssumption
    DEF PlayInv, CardOK, QuietOK, CallOK, OwnOK, Setup, Outside, NowAt, NowNext
  <2>8. QED
    BY <1>2, <1>3, <1>4, <1>5, <1>7, <1>8, <2>1, <2>2, <2>3, <2>4, <2>5, <2>6, <2>7, CardKept
<1>10. \A p \in Outputs : CodecsOK(p)'
  <2>1. \A i \in DOMAIN CodecsOf[o] : PoweredFrom(o, i)' /\ ~MutedFrom(o, i)
    BY <1>3, <1>4, <1>5, <1>6 DEF MutedFrom, PoweredFrom, CallOK, Setup, Outside, NowAt, NowNext
  <2>2. CASE codec' = [codec EXCEPT ![Codec(o)].powered = TRUE, ![Codec(o)].muted = TRUE]
    <3>1. NowCodec(o, TRUE, TRUE, codec[Codec(o)].obeys)
      BY <1>0, <2>2, CodecSteps
    <3>2. QED
      BY <1>2, <1>4, <2>1, <3>1, CodecSilenced DEF NowCodec, CodecsBy
  <2>3. CASE \E p \in BOOLEAN : codec' = [codec EXCEPT ![Codec(o)].powered = @ \/ p]
    <3>1. PICK b \in BOOLEAN : codec' = [codec EXCEPT ![Codec(o)].powered = b]
      BY <1>0, <2>3, CodecSteps DEF CodecTypes
    <3>2. NowCodec(o, b, codec[Codec(o)].muted, codec[Codec(o)].obeys) /\ codec[Codec(o)].muted \in BOOLEAN
      BY <1>0, <3>1, CodecSteps DEF CodecTypes
    <3>3. Obeys(o) => codec[Codec(o)].muted
      BY <1>0, <1>6, <2>1 DEF CodecsOK, Codec, CallTypes
    <3>4. QED
      BY <1>2, <1>4, <2>1, <3>2, <3>3, CodecSilenced DEF NowCodec, CodecsBy
  <2>4. QED
    BY <2>2, <2>3 DEF ConfigureCodec
<1>11. QED
  BY <1>2, <1>9, <1>10 DEF PlayInv

(* The stream is ready, or the path is given up. *)
LEMMA PrepareDmaStep ==
  ASSUME PlayInv, NEW o \in Outputs, PrepareDma(o)
  PROVE  PlayInv'
<1>0. McaTypes /\ CallTypes /\ FrontTypes /\ CodecTypes /\ ClusterTypes
  BY DEF PlayInv, McaTypes, FrontTypes
<1>1. CallTypes' /\ OthersCalls(o)
  BY <1>0, GoesTo, Returns DEF PrepareDma, Abandon, Steps, Setup, Outside
<1>2. McaTypes'
  <2>1. FrontTypes'
    BY <1>0, ClusterSteps DEF PrepareDma, Abandon, FrontTypes
  <2>2. CodecTypes'
    BY <1>0, CodecSteps DEF PrepareDma, CodecTypes
  <2>3. QED
    BY <1>0, <1>1, <2>1, <2>2 DEF PrepareDma, Abandon, McaTypes
<1>3. pcm[o].at = "prepare"
  BY <1>0 DEF PrepareDma, Abandon, At
<1>4. OthersCalls(o) /\ OthersRest(o) /\ portOn' = portOn /\ dmaOn' = dmaOn /\ cluster' = cluster
  BY <1>0, <1>1 DEF PrepareDma, Abandon, OthersRest, McaTypes, FrontTypes
<1>5. \/ NowRests(o) /\ pcmStream'[o] = "ready" /\ owner' = owner /\ crossed' = crossed
      \/ owner' = "free" /\ crossed' = crossed \ {o} /\ NowAt(o, "unwind") /\ pcmStream'[o] = pcmStream[o]
  BY <1>0, GoesTo, Returns DEF PrepareDma, Abandon, McaTypes, FrontTypes, Steps, Setup, Outside
<1>6. CallOK(o) /\ OwnOK(o) /\ FrontOK(o) /\ CodecsOK(o) /\ owner = o
  BY <1>0, <1>3, <1>4, <1>5 DEF PlayInv, CardOK, CallOK, OwnOK, Setup, McaTypes, FrontTypes
<1>7. CallOK(o)' /\ OwnOK(o)'
  <2>1. CallOK(o)'
    BY <1>3, <1>4, <1>5, <1>6 DEF CallOK, Setup, Outside, NowAt, NowRests
  <2>2. OwnOK(o)'
    BY <1>0, <1>3, <1>4, <1>5, <1>6, McaAssumption DEF CallOK, OwnOK, Setup, Outside, NowAt, NowRests
  <2>3. QED
    BY <2>1, <2>2
<1>8. FrontOK(o)'
  BY <1>0, <1>3, <1>4, <1>5, <1>6, <1>7, McaAssumption
  DEF CallOK, OwnOK, FrontOK, FrontTypes, Samples, Plays, Setup, Outside, Teardown, OthersCalls, NowAt, NowRests
<1>9. CardOK'
  <2>1. \A p \in Outputs \ {o} : owner # p
    BY <1>6
  <2>2. owner' = owner \/ {owner, owner'} \subseteq {o, "free"}
    BY <1>0, <1>3, <1>4, <1>5, <1>6 DEF OwnOK, CallOK, Setup, FrontTypes
  <2>3. crossed \ {o} \subseteq crossed'
    BY <1>3, <1>4, <1>5
  <2>4. dmaOn' => Plays(o)' \/ (dmaOn /\ ~Plays(o))
    BY <1>3, <1>4, <1>5, <1>6 DEF Plays, CallOK, Setup, Outside, NowAt, NowRests
  <2>5. cluster'.gen => Clocks(o)' \/ (cluster.gen /\ ~Clocks(o))
    BY <1>0, <1>3, <1>4, <1>5, <1>6, McaAssumption DEF Clocks, CallOK, OwnOK, Setup, Outside, Teardown, NowAt, NowRests
  <2>6. cluster'.serdes => Feeds(o)' \/ (cluster.serdes /\ ~Feeds(o))
    BY <1>3, <1>4, <1>5, <1>6 DEF Feeds, CallOK, Setup, Outside, NowAt, NowRests
  <2>7. portOn'[o] => owner' = o \/ pcm'[o].at = "unwind"
    BY <1>0, <1>3, <1>4, <1>5, <1>6, McaAssumption
    DEF PlayInv, CardOK, QuietOK, CallOK, OwnOK, Setup, Outside, NowAt, NowRests
  <2>8. QED
    BY <1>2, <1>3, <1>4, <1>5, <1>7, <1>8, <2>1, <2>2, <2>3, <2>4, <2>5, <2>6, <2>7, CardKept
<1>10. \A p \in Outputs : CodecsOK(p)'
  BY <1>3, <1>4, <1>5, <1>6, McaAssumption, IdleCodecs
  DEF PrepareDma, MutedFrom, PoweredFrom, CallOK, Setup, Outside, NowAt, NowRests
<1>11. QED
  BY <1>2, <1>9, <1>10 DEF PlayInv

(* The path is taken down while another output may hold the channel. *)
LEMMA UnwindStep ==
  ASSUME PlayInv, NEW o \in Outputs, Unwind(o)
  PROVE  PlayInv'
<1>0. McaTypes /\ CallTypes /\ FrontTypes /\ CodecTypes /\ ClusterTypes
  BY DEF PlayInv, McaTypes, FrontTypes
<1>1. CallTypes' /\ OthersCalls(o)
  BY <1>0, GoesTo DEF Unwind, Steps, Setup, Outside
<1>2. McaTypes'
  <2>1. FrontTypes'
    BY <1>0, ClusterSteps DEF Unwind, FrontTypes
  <2>2. CodecTypes'
    BY <1>0, CodecSteps DEF Unwind, CodecTypes
  <2>3. QED
    BY <1>0, <1>1, <2>1, <2>2 DEF Unwind, McaTypes
<1>3. pcm[o].at = "unwind"
  BY <1>0 DEF Unwind, At
<1>4. OthersCalls(o) /\ OthersRest(o) /\ pcmStream' = pcmStream /\ dmaOn' = dmaOn
  BY <1>0, <1>1 DEF Unwind, OthersRest, McaTypes, FrontTypes
<1>5. cluster'.gen = FALSE /\ cluster'.serdes = FALSE /\ portOn'[o] = FALSE /\ NowAt(o, "silence") /\ owner' = owner /\ crossed' = crossed
  BY <1>0, ClusterSteps, GoesTo DEF Unwind, McaTypes, FrontTypes, Steps, Setup, Outside
<1>6. CallOK(o) /\ OwnOK(o) /\ FrontOK(o) /\ CodecsOK(o)
  BY DEF PlayInv, CardOK
<1>7. CallOK(o)' /\ OwnOK(o)'
  <2>1. CallOK(o)'
    BY <1>3, <1>4, <1>5, <1>6 DEF CallOK, Setup, Outside, NowAt
  <2>2. OwnOK(o)'
    BY <1>0, <1>3, <1>4, <1>5, <1>6, McaAssumption DEF CallOK, OwnOK, Setup, Outside, NowAt
  <2>3. QED
    BY <2>1, <2>2
<1>8. FrontOK(o)'
  BY <1>0, <1>3, <1>4, <1>5, <1>6, <1>7, McaAssumption
  DEF CallOK, OwnOK, FrontOK, FrontTypes, Samples, Plays, Setup, Outside, Teardown, OthersCalls, NowAt
<1>9. CardOK'
  <2>1. ASSUME NEW p \in Outputs \ {o}, owner = p
        PROVE  dmaOn' = dmaOn /\ (p \in crossed \/ (OnlyCut /\ pcm'[o].at \notin Teardown))
    <3>1. p \in crossed \/ pcm[o].at \notin Teardown
      BY <2>1 DEF PlayInv, CardOK, FrontOK
    <3>2. pcmStream[o] = "none" /\ pcm[o].at \notin Setup
      BY <1>6, <2>1 DEF OwnOK, PlayInv, McaTypes
    <3>3. QED
      BY <1>3, <1>4, <1>5, <1>6, <2>1, <3>1, <3>2, McaAssumption DEF OnlyCut, Samples, CallOK, OwnOK, Setup, Outside, Teardown, NowAt
  <2>2. owner' = owner \/ {owner, owner'} \subseteq {o, "free"}
    BY <1>0, <1>3, <1>4, <1>5, <1>6 DEF OwnOK, CallOK, Setup, FrontTypes
  <2>3. crossed \ {o} \subseteq crossed'
    BY <1>3, <1>4, <1>5
  <2>4. dmaOn' => Plays(o)' \/ (dmaOn /\ ~Plays(o))
    BY <1>3, <1>4, <1>5, <1>6 DEF Plays, CallOK, Setup, Outside, NowAt
  <2>5. cluster'.gen => Clocks(o)' \/ (cluster.gen /\ ~Clocks(o))
    BY <1>0, <1>3, <1>4, <1>5, <1>6, McaAssumption DEF Clocks, CallOK, OwnOK, Setup, Outside, Teardown, NowAt
  <2>6. cluster'.serdes => Feeds(o)' \/ (cluster.serdes /\ ~Feeds(o))
    BY <1>3, <1>4, <1>5, <1>6 DEF Feeds, CallOK, Setup, Outside, NowAt
  <2>7. portOn'[o] => owner' = o \/ pcm'[o].at = "unwind"
    BY <1>0, <1>3, <1>4, <1>5, <1>6, McaAssumption DEF PlayInv, CardOK, QuietOK, CallOK, OwnOK, Setup, Outside, NowAt
  <2>8. QED
    BY <1>2, <1>3, <1>4, <1>5, <1>7, <1>8, <2>1, <2>2, <2>3, <2>4, <2>5, <2>6, <2>7, CardKept
<1>10. \A p \in Outputs : CodecsOK(p)'
  BY <1>3, <1>4, <1>5, <1>6, McaAssumption, IdleCodecs DEF Unwind, MutedFrom, PoweredFrom, CallOK, Setup, Outside, NowAt
<1>11. QED
  BY <1>2, <1>9, <1>10 DEF PlayInv

(* A codec of the path is switched off, or does not answer. *)
LEMMA UnwindCodecStep ==
  ASSUME PlayInv, NEW o \in Outputs, UnwindCodec(o)
  PROVE  PlayInv'
<1>0. McaTypes /\ CallTypes /\ FrontTypes /\ CodecTypes /\ ClusterTypes
  BY DEF PlayInv, McaTypes, FrontTypes
<1>1. CallTypes' /\ OthersCalls(o)
  BY <1>0, GoesOn DEF UnwindCodec, SwitchOff, Steps, Setup, Outside
<1>2. McaTypes'
  <2>1. FrontTypes'
    BY <1>0, ClusterSteps DEF UnwindCodec, SwitchOff, FrontTypes, frontVars
  <2>2. CodecTypes'
    BY <1>0, CodecSteps DEF UnwindCodec, SwitchOff, CodecTypes
  <2>3. QED
    BY <1>0, <1>1, <2>1, <2>2 DEF UnwindCodec, SwitchOff, McaTypes
<1>3. pcm[o].at = "silence"
  BY <1>0 DEF UnwindCodec, SwitchOff, At, frontVars
<1>4. OthersCalls(o) /\ OthersRest(o) /\ pcmStream' = pcmStream /\ portOn' = portOn /\ dmaOn' = dmaOn /\ cluster' = cluster
  BY <1>0, <1>1 DEF UnwindCodec, SwitchOff, OthersRest, McaTypes, FrontTypes, frontVars
<1>5. ((NowAt(o, "unwound") /\ pcm[o].k = Len(CodecsOf[o])) \/ NowNext(o)) /\ owner' = owner /\ crossed' = crossed
  BY <1>0, GoesOn DEF UnwindCodec, SwitchOff, Steps, Setup, Outside, frontVars
<1>6. CallOK(o) /\ OwnOK(o) /\ FrontOK(o) /\ CodecsOK(o)
  BY DEF PlayInv, CardOK
<1>7. CallOK(o)' /\ OwnOK(o)'
  <2>1. CallOK(o)'
    BY <1>3, <1>4, <1>5, <1>6 DEF CallOK, Setup, Outside, NowAt, NowNext
  <2>2. OwnOK(o)'
    BY <1>0, <1>3, <1>4, <1>5, <1>6, McaAssumption DEF CallOK, OwnOK, Setup, Outside, NowAt, NowNext
  <2>3. QED
    BY <2>1, <2>2
<1>8. FrontOK(o)'
  BY <1>0, <1>3, <1>4, <1>5, <1>6, <1>7, McaAssumption
  DEF CallOK, OwnOK, FrontOK, FrontTypes, Samples, Plays, Setup, Outside, Teardown, OthersCalls, NowAt, NowNext
<1>9. CardOK'
  <2>1. ASSUME NEW p \in Outputs \ {o}, owner = p
        PROVE  dmaOn' = dmaOn /\ (p \in crossed \/ (OnlyCut /\ pcm'[o].at \notin Teardown))
    <3>1. p \in crossed \/ pcm[o].at \notin Teardown
      BY <2>1 DEF PlayInv, CardOK, FrontOK
    <3>2. pcmStream[o] = "none" /\ pcm[o].at \notin Setup
      BY <1>6, <2>1 DEF OwnOK, PlayInv, McaTypes
    <3>3. QED
      BY <1>3, <1>4, <1>5, <1>6, <2>1, <3>1, <3>2, McaAssumption
      DEF OnlyCut, Samples, CallOK, OwnOK, Setup, Outside, Teardown, NowAt, NowNext
  <2>2. owner' = owner \/ {owner, owner'} \subseteq {o, "free"}
    BY <1>0, <1>3, <1>4, <1>5, <1>6 DEF OwnOK, CallOK, Setup, FrontTypes
  <2>3. crossed \ {o} \subseteq crossed'
    BY <1>3, <1>4, <1>5
  <2>4. dmaOn' => Plays(o)' \/ (dmaOn /\ ~Plays(o))
    BY <1>3, <1>4, <1>5, <1>6 DEF Plays, CallOK, Setup, Outside, NowAt, NowNext
  <2>5. cluster'.gen => Clocks(o)' \/ (cluster.gen /\ ~Clocks(o))
    BY <1>0, <1>3, <1>4, <1>5, <1>6, McaAssumption DEF Clocks, CallOK, OwnOK, Setup, Outside, Teardown, NowAt, NowNext
  <2>6. cluster'.serdes => Feeds(o)' \/ (cluster.serdes /\ ~Feeds(o))
    BY <1>3, <1>4, <1>5, <1>6 DEF Feeds, CallOK, Setup, Outside, NowAt, NowNext
  <2>7. portOn'[o] => owner' = o \/ pcm'[o].at = "unwind"
    BY <1>0, <1>3, <1>4, <1>5, <1>6, McaAssumption
    DEF PlayInv, CardOK, QuietOK, CallOK, OwnOK, Setup, Outside, NowAt, NowNext
  <2>8. QED
    BY <1>2, <1>3, <1>4, <1>5, <1>7, <1>8, <2>1, <2>2, <2>3, <2>4, <2>5, <2>6, <2>7, CardKept
<1>10. \A p \in Outputs : CodecsOK(p)'
  <2>1. NowCodec(o, FALSE, TRUE, codec[Codec(o)].obeys) \/ (codec'[Codec(o)].obeys = FALSE /\ CodecsBy(o))
    BY <1>0, CodecSteps DEF UnwindCodec, SwitchOff, NowCodec, CodecsBy
  <2>2. \A i \in DOMAIN CodecsOf[o] \ {pcm[o].k} : /\ MutedFrom(o, i) => MutedFrom(o, i)'
                                                   /\ PoweredFrom(o, i) => PoweredFrom(o, i)'
    BY SMTT(20), <1>0, <1>3, <1>4, <1>5, <1>6, McaAssumption
    DEF MutedFrom, PoweredFrom, CallOK, Setup, Outside, NowAt, NowNext, CallTypes, McaCalls
  <2>3. codec'[Codec(o)].obeys => codec'[Codec(o)].muted /\ codec[Codec(o)].obeys
    BY <1>0, <1>2, <2>1, CodecSteps DEF NowCodec, McaTypes, CodecTypes
  <2>4. \A i \in DOMAIN CodecsOf[o] :
          Obeys(o) /\ codec'[Codec(o)].obeys => /\ ~codec'[Codec(o)].muted => MutedFrom(o, i)'
                                                /\ codec'[Codec(o)].powered => PoweredFrom(o, i)'
    BY <1>3, <1>4, <1>5, <1>6, <2>1, <2>3, McaAssumption
    DEF NowCodec, MutedFrom, PoweredFrom, CallOK, Setup, Outside, NowAt, NowNext
  <2>5. \A c \in McaCodecs \ {Codec(o)} : codec'[c] = codec[c]
    BY <2>1 DEF NowCodec, CodecsBy
  <2>6. QED
    BY <1>2, <1>4, <2>2, <2>3, <2>4, <2>5, CodecSilenced
<1>11. QED
  BY <1>2, <1>9, <1>10 DEF PlayInv

(* The path is gone. *)
LEMMA UnwindDoneStep ==
  ASSUME PlayInv, NEW o \in Outputs, UnwindDone(o)
  PROVE  PlayInv'
<1>0. McaTypes /\ CallTypes /\ FrontTypes /\ CodecTypes /\ ClusterTypes
  BY DEF PlayInv, McaTypes, FrontTypes
<1>1. CallTypes' /\ OthersCalls(o)
  BY <1>0, Returns DEF UnwindDone, Steps, Setup, Outside
<1>2. McaTypes'
  <2>1. FrontTypes'
    BY <1>0, ClusterSteps DEF UnwindDone, FrontTypes, frontVars
  <2>2. CodecTypes'
    BY <1>0, CodecSteps DEF UnwindDone, CodecTypes
  <2>3. QED
    BY <1>0, <1>1, <2>1, <2>2 DEF UnwindDone, McaTypes
<1>3. pcm[o].at = "unwound"
  BY <1>0 DEF UnwindDone, At, frontVars
<1>4. OthersCalls(o) /\ OthersRest(o) /\ pcmStream' = pcmStream /\ portOn' = portOn /\ dmaOn' = dmaOn /\ cluster' = cluster
  BY <1>0, <1>1 DEF UnwindDone, OthersRest, McaTypes, FrontTypes, frontVars
<1>5. NowRests(o) /\ owner' = owner /\ crossed' = crossed
  BY <1>0, Returns DEF UnwindDone, Steps, Setup, Outside, frontVars
<1>6. CallOK(o) /\ OwnOK(o) /\ FrontOK(o) /\ CodecsOK(o)
  BY DEF PlayInv, CardOK
<1>7. CallOK(o)' /\ OwnOK(o)'
  <2>1. CallOK(o)'
    BY <1>3, <1>4, <1>5, <1>6 DEF CallOK, Setup, Outside, NowRests
  <2>2. OwnOK(o)'
    BY <1>0, <1>3, <1>4, <1>5, <1>6, McaAssumption DEF CallOK, OwnOK, Setup, Outside, NowRests
  <2>3. QED
    BY <2>1, <2>2
<1>8. FrontOK(o)'
  BY <1>0, <1>3, <1>4, <1>5, <1>6, <1>7, McaAssumption
  DEF CallOK, OwnOK, FrontOK, FrontTypes, Samples, Plays, Setup, Outside, Teardown, OthersCalls, NowRests
<1>9. CardOK'
  <2>1. ASSUME NEW p \in Outputs \ {o}, owner = p
        PROVE  dmaOn' = dmaOn /\ (p \in crossed \/ (OnlyCut /\ pcm'[o].at \notin Teardown))
    <3>1. p \in crossed \/ pcm[o].at \notin Teardown
      BY <2>1 DEF PlayInv, CardOK, FrontOK
    <3>2. pcmStream[o] = "none" /\ pcm[o].at \notin Setup
      BY <1>6, <2>1 DEF OwnOK, PlayInv, McaTypes
    <3>3. QED
      BY <1>3, <1>4, <1>5, <1>6, <2>1, <3>1, <3>2, McaAssumption DEF OnlyCut, Samples, CallOK, OwnOK, Setup, Outside, Teardown, NowRests
  <2>2. owner' = owner \/ {owner, owner'} \subseteq {o, "free"}
    BY <1>0, <1>3, <1>4, <1>5, <1>6 DEF OwnOK, CallOK, Setup, FrontTypes
  <2>3. crossed \ {o} \subseteq crossed'
    BY <1>3, <1>4, <1>5
  <2>4. dmaOn' => Plays(o)' \/ (dmaOn /\ ~Plays(o))
    BY <1>3, <1>4, <1>5, <1>6 DEF Plays, CallOK, Setup, Outside, NowRests
  <2>5. cluster'.gen => Clocks(o)' \/ (cluster.gen /\ ~Clocks(o))
    BY <1>0, <1>3, <1>4, <1>5, <1>6, McaAssumption DEF Clocks, CallOK, OwnOK, Setup, Outside, Teardown, NowRests
  <2>6. cluster'.serdes => Feeds(o)' \/ (cluster.serdes /\ ~Feeds(o))
    BY <1>3, <1>4, <1>5, <1>6 DEF Feeds, CallOK, Setup, Outside, NowRests
  <2>7. portOn'[o] => owner' = o \/ pcm'[o].at = "unwind"
    BY <1>0, <1>3, <1>4, <1>5, <1>6, McaAssumption DEF PlayInv, CardOK, QuietOK, CallOK, OwnOK, Setup, Outside, NowRests
  <2>8. QED
    BY <1>2, <1>3, <1>4, <1>5, <1>7, <1>8, <2>1, <2>2, <2>3, <2>4, <2>5, <2>6, <2>7, CardKept
<1>10. \A p \in Outputs : CodecsOK(p)'
  BY <1>3, <1>4, <1>5, <1>6, McaAssumption, IdleCodecs
  DEF UnwindDone, MutedFrom, PoweredFrom, CallOK, Setup, Outside, NowRests
<1>11. QED
  BY <1>2, <1>9, <1>10 DEF PlayInv

(* The channel runs, or the start fails. *)
LEMMA StartDmaStep ==
  ASSUME PlayInv, NEW o \in Outputs, StartDma(o)
  PROVE  PlayInv'
<1>0. McaTypes /\ CallTypes /\ FrontTypes /\ CodecTypes /\ ClusterTypes
  BY DEF PlayInv, McaTypes, FrontTypes
<1>1. CallTypes' /\ OthersCalls(o)
  BY <1>0, GoesTo, Returns DEF StartDma, Steps, Setup, Outside
<1>2. McaTypes'
  <2>1. FrontTypes'
    BY <1>0, ClusterSteps DEF StartDma, FrontTypes
  <2>2. CodecTypes'
    BY <1>0, CodecSteps DEF StartDma, CodecTypes
  <2>3. QED
    BY <1>0, <1>1, <2>1, <2>2 DEF StartDma, McaTypes
<1>3. pcm[o].at = "startDma"
  BY <1>0 DEF StartDma, At
<1>4. OthersCalls(o) /\ OthersRest(o) /\ portOn' = portOn
  BY <1>0, <1>1 DEF StartDma, OthersRest, McaTypes, FrontTypes
<1>5. owner' = owner /\ crossed' = crossed
  BY <1>0 DEF StartDma
<1>6. cluster'.clock = cluster.clock /\ cluster'.gen = cluster.gen
  BY <1>0, ClusterSteps DEF StartDma
<1>7. \/ dmaOn' /\ cluster'.serdes /\ NowAt(o, "unmute") /\ pcmStream'[o] = pcmStream[o]
      \/ pcmStream'[o] = "ready" /\ ~cluster'.serdes /\ NowRests(o) /\ dmaOn' = dmaOn
  BY <1>0, ClusterSteps, GoesTo, Returns DEF StartDma, McaTypes, FrontTypes, Steps, Setup, Outside
<1>8. CallOK(o) /\ OwnOK(o) /\ FrontOK(o) /\ CodecsOK(o) /\ owner = o
  BY <1>0, <1>3, <1>4, <1>5, <1>6, <1>7 DEF PlayInv, CardOK, CallOK, OwnOK, Setup, McaTypes, FrontTypes
<1>9. CallOK(o)' /\ OwnOK(o)'
  <2>1. CallOK(o)'
    BY <1>3, <1>4, <1>5, <1>6, <1>7, <1>8 DEF CallOK, Setup, Outside, NowAt, NowRests
  <2>2. OwnOK(o)'
    BY <1>0, <1>3, <1>4, <1>5, <1>6, <1>7, <1>8, McaAssumption DEF CallOK, OwnOK, Setup, Outside, NowAt, NowRests
  <2>3. QED
    BY <2>1, <2>2
<1>10. FrontOK(o)'
  BY <1>0, <1>3, <1>4, <1>5, <1>6, <1>7, <1>8, <1>9, McaAssumption
  DEF CallOK, OwnOK, FrontOK, FrontTypes, Samples, Plays, Setup, Outside, Teardown, OthersCalls, NowAt, NowRests
<1>11. CardOK'
  <2>1. \A p \in Outputs \ {o} : owner # p
    BY <1>8
  <2>2. owner' = owner \/ {owner, owner'} \subseteq {o, "free"}
    BY <1>0, <1>3, <1>4, <1>5, <1>6, <1>7, <1>8 DEF OwnOK, CallOK, Setup, FrontTypes
  <2>3. crossed \ {o} \subseteq crossed'
    BY <1>3, <1>4, <1>5, <1>6, <1>7
  <2>4. dmaOn' => Plays(o)' \/ (dmaOn /\ ~Plays(o))
    BY <1>3, <1>4, <1>5, <1>6, <1>7, <1>8 DEF Plays, CallOK, Setup, Outside, NowAt, NowRests
  <2>5. cluster'.gen => Clocks(o)' \/ (cluster.gen /\ ~Clocks(o))
    BY <1>0, <1>3, <1>4, <1>5, <1>6, <1>7, <1>8, McaAssumption
    DEF Clocks, CallOK, OwnOK, Setup, Outside, Teardown, NowAt, NowRests
  <2>6. cluster'.serdes => Feeds(o)' \/ (cluster.serdes /\ ~Feeds(o))
    BY <1>3, <1>4, <1>5, <1>6, <1>7, <1>8 DEF Feeds, CallOK, Setup, Outside, NowAt, NowRests
  <2>7. portOn'[o] => owner' = o \/ pcm'[o].at = "unwind"
    BY <1>0, <1>3, <1>4, <1>5, <1>6, <1>7, <1>8, McaAssumption
    DEF PlayInv, CardOK, QuietOK, CallOK, OwnOK, Setup, Outside, NowAt, NowRests
  <2>8. QED
    BY <1>2, <1>3, <1>4, <1>5, <1>6, <1>7, <1>9, <1>10, <2>1, <2>2, <2>3, <2>4, <2>5, <2>6, <2>7, CardKept
<1>12. \A p \in Outputs : CodecsOK(p)'
  BY <1>3, <1>4, <1>5, <1>6, <1>7, <1>8, McaAssumption, IdleCodecs
  DEF StartDma, MutedFrom, PoweredFrom, CallOK, Setup, Outside, NowAt, NowRests
<1>13. QED
  BY <1>2, <1>11, <1>12 DEF PlayInv

(* A codec becomes audible, or the channel stops and the codecs are to be silenced. *)
LEMMA UnmuteStep ==
  ASSUME PlayInv, NEW o \in Outputs, Unmute(o)
  PROVE  PlayInv'
<1>0. McaTypes /\ CallTypes /\ FrontTypes /\ CodecTypes /\ ClusterTypes
  BY DEF PlayInv, McaTypes, FrontTypes
<1>1. CallTypes' /\ OthersCalls(o)
  BY <1>0, GoesTo, GoesOn DEF Unmute, Steps, Setup, Outside
<1>2. McaTypes'
  <2>1. FrontTypes'
    BY <1>0, ClusterSteps DEF Unmute, FrontTypes
  <2>2. CodecTypes'
    BY <1>0, CodecSteps DEF Unmute, CodecTypes
  <2>3. QED
    BY <1>0, <1>1, <2>1, <2>2 DEF Unmute, McaTypes
<1>3. pcm[o].at = "unmute"
  BY <1>0 DEF Unmute, At
<1>4. OthersCalls(o) /\ OthersRest(o) /\ portOn' = portOn /\ cluster' = cluster
  BY <1>0, <1>1 DEF Unmute, OthersRest, McaTypes, FrontTypes
<1>5. owner' = owner /\ crossed' = crossed
  BY <1>0 DEF Unmute
<1>6. \/ (NowAt(o, "started") \/ NowNext(o)) /\ pcmStream'[o] = pcmStream[o] /\ dmaOn' = dmaOn
      \/ ~dmaOn' /\ pcmStream'[o] = "ready" /\ NowAt(o, "remute")
  BY <1>0, GoesTo, GoesOn DEF Unmute, McaTypes, FrontTypes, Steps, Setup, Outside
<1>7. CallOK(o) /\ OwnOK(o) /\ FrontOK(o) /\ CodecsOK(o) /\ owner = o
  BY <1>0, <1>3, <1>4, <1>5, <1>6 DEF PlayInv, CardOK, CallOK, OwnOK, Setup, McaTypes, FrontTypes
<1>8. CallOK(o)' /\ OwnOK(o)'
  <2>1. CallOK(o)'
    BY <1>3, <1>4, <1>5, <1>6, <1>7 DEF CallOK, Setup, Outside, NowAt, NowNext
  <2>2. OwnOK(o)'
    BY <1>0, <1>3, <1>4, <1>5, <1>6, <1>7, McaAssumption DEF CallOK, OwnOK, Setup, Outside, NowAt, NowNext
  <2>3. QED
    BY <2>1, <2>2
<1>9. FrontOK(o)'
  BY <1>0, <1>3, <1>4, <1>5, <1>6, <1>7, <1>8, McaAssumption
  DEF CallOK, OwnOK, FrontOK, FrontTypes, Samples, Plays, Setup, Outside, Teardown, OthersCalls, NowAt, NowNext
<1>10. CardOK'
  <2>1. \A p \in Outputs \ {o} : owner # p
    BY <1>7
  <2>2. owner' = owner \/ {owner, owner'} \subseteq {o, "free"}
    BY <1>0, <1>3, <1>4, <1>5, <1>6, <1>7 DEF OwnOK, CallOK, Setup, FrontTypes
  <2>3. crossed \ {o} \subseteq crossed'
    BY <1>3, <1>4, <1>5, <1>6
  <2>4. dmaOn' => Plays(o)' \/ (dmaOn /\ ~Plays(o))
    BY <1>3, <1>4, <1>5, <1>6, <1>7 DEF Plays, CallOK, Setup, Outside, NowAt, NowNext
  <2>5. cluster'.gen => Clocks(o)' \/ (cluster.gen /\ ~Clocks(o))
    BY <1>0, <1>3, <1>4, <1>5, <1>6, <1>7, McaAssumption
    DEF Clocks, CallOK, OwnOK, Setup, Outside, Teardown, NowAt, NowNext
  <2>6. cluster'.serdes => Feeds(o)' \/ (cluster.serdes /\ ~Feeds(o))
    BY <1>3, <1>4, <1>5, <1>6, <1>7 DEF Feeds, CallOK, Setup, Outside, NowAt, NowNext
  <2>7. portOn'[o] => owner' = o \/ pcm'[o].at = "unwind"
    BY <1>0, <1>3, <1>4, <1>5, <1>6, <1>7, McaAssumption
    DEF PlayInv, CardOK, QuietOK, CallOK, OwnOK, Setup, Outside, NowAt, NowNext
  <2>8. QED
    BY <1>2, <1>3, <1>4, <1>5, <1>6, <1>8, <1>9, <2>1, <2>2, <2>3, <2>4, <2>5, <2>6, <2>7, CardKept
<1>11. \A p \in Outputs : CodecsOK(p)'
  <2>1. CASE codec' = [codec EXCEPT ![Codec(o)].powered = TRUE, ![Codec(o)].muted = FALSE] /\ pcmStream' = pcmStream
    <3>1. NowCodec(o, TRUE, FALSE, codec[Codec(o)].obeys)
      BY <1>0, <2>1, CodecSteps
    <3>2. \A i \in DOMAIN CodecsOf[o] : MutedFrom(o, i)' /\ PoweredFrom(o, i)'
      BY <1>3, <1>4, <1>5, <1>6, <1>7, <2>1 DEF MutedFrom, PoweredFrom, CallOK, Setup, Outside, NowAt, NowNext
    <3>3. QED
      BY <1>2, <1>4, <3>1, <3>2, CodecSilenced DEF NowCodec, CodecsBy
  <2>2. CASE codec' = codec /\ pcm'[o].at = "remute" /\ pcm'[o].k = 1
    <3>1. \A i \in DOMAIN CodecsOf[o] : MutedFrom(o, i)' /\ PoweredFrom(o, i)'
      BY <2>2, McaAssumption DEF MutedFrom, PoweredFrom
    <3>2. QED
      BY <1>4, <2>2, <3>1, IdleCodecs
  <2>3. QED
    BY <1>0, <2>1, <2>2, GoesTo DEF Unmute, NowAt, Steps
<1>12. QED
  BY <1>2, <1>10, <1>11 DEF PlayInv

(* A codec is silenced, or does not answer. *)
LEMMA RemuteStep ==
  ASSUME PlayInv, NEW o \in Outputs, Remute(o)
  PROVE  PlayInv'
<1>0. McaTypes /\ CallTypes /\ FrontTypes /\ CodecTypes /\ ClusterTypes
  BY DEF PlayInv, McaTypes, FrontTypes
<1>1. CallTypes' /\ OthersCalls(o)
  BY <1>0, GoesOn DEF Remute, Steps, Setup, Outside
<1>2. McaTypes'
  <2>1. FrontTypes'
    BY <1>0, ClusterSteps DEF Remute, FrontTypes, frontVars
  <2>2. CodecTypes'
    BY <1>0, CodecSteps DEF Remute, CodecTypes
  <2>3. QED
    BY <1>0, <1>1, <2>1, <2>2 DEF Remute, McaTypes
<1>3. pcm[o].at = "remute"
  BY <1>0 DEF Remute, At, frontVars
<1>4. OthersCalls(o) /\ OthersRest(o) /\ pcmStream' = pcmStream /\ portOn' = portOn /\ dmaOn' = dmaOn /\ cluster' = cluster
  BY <1>0, <1>1 DEF Remute, OthersRest, McaTypes, FrontTypes, frontVars
<1>5. owner' = owner /\ crossed' = crossed
  BY <1>0 DEF Remute, frontVars
<1>6. (NowAt(o, "startFailed") /\ pcm[o].k = Len(CodecsOf[o])) \/ NowNext(o)
  BY <1>0, GoesOn DEF Remute, Steps, Setup, Outside, frontVars
<1>7. CallOK(o) /\ OwnOK(o) /\ FrontOK(o) /\ CodecsOK(o) /\ owner = o
  BY <1>0, <1>3, <1>4, <1>5, <1>6 DEF PlayInv, CardOK, CallOK, OwnOK, Setup, McaTypes, FrontTypes
<1>8. CallOK(o)' /\ OwnOK(o)'
  <2>1. CallOK(o)'
    BY <1>3, <1>4, <1>5, <1>6, <1>7 DEF CallOK, Setup, Outside, NowAt, NowNext
  <2>2. OwnOK(o)'
    BY <1>0, <1>3, <1>4, <1>5, <1>6, <1>7, McaAssumption DEF CallOK, OwnOK, Setup, Outside, NowAt, NowNext
  <2>3. QED
    BY <2>1, <2>2
<1>9. FrontOK(o)'
  BY <1>0, <1>3, <1>4, <1>5, <1>6, <1>7, <1>8, McaAssumption
  DEF CallOK, OwnOK, FrontOK, FrontTypes, Samples, Plays, Setup, Outside, Teardown, OthersCalls, NowAt, NowNext
<1>10. CardOK'
  <2>1. \A p \in Outputs \ {o} : owner # p
    BY <1>7
  <2>2. owner' = owner \/ {owner, owner'} \subseteq {o, "free"}
    BY <1>0, <1>3, <1>4, <1>5, <1>6, <1>7 DEF OwnOK, CallOK, Setup, FrontTypes
  <2>3. crossed \ {o} \subseteq crossed'
    BY <1>3, <1>4, <1>5, <1>6
  <2>4. dmaOn' => Plays(o)' \/ (dmaOn /\ ~Plays(o))
    BY <1>3, <1>4, <1>5, <1>6, <1>7 DEF Plays, CallOK, Setup, Outside, NowAt, NowNext
  <2>5. cluster'.gen => Clocks(o)' \/ (cluster.gen /\ ~Clocks(o))
    BY <1>0, <1>3, <1>4, <1>5, <1>6, <1>7, McaAssumption
    DEF Clocks, CallOK, OwnOK, Setup, Outside, Teardown, NowAt, NowNext
  <2>6. cluster'.serdes => Feeds(o)' \/ (cluster.serdes /\ ~Feeds(o))
    BY <1>3, <1>4, <1>5, <1>6, <1>7 DEF Feeds, CallOK, Setup, Outside, NowAt, NowNext
  <2>7. portOn'[o] => owner' = o \/ pcm'[o].at = "unwind"
    BY <1>0, <1>3, <1>4, <1>5, <1>6, <1>7, McaAssumption
    DEF PlayInv, CardOK, QuietOK, CallOK, OwnOK, Setup, Outside, NowAt, NowNext
  <2>8. QED
    BY <1>2, <1>3, <1>4, <1>5, <1>6, <1>8, <1>9, <2>1, <2>2, <2>3, <2>4, <2>5, <2>6, <2>7, CardKept
<1>11. \A p \in Outputs : CodecsOK(p)'
  <2>1. NowCodec(o, codec[Codec(o)].powered, TRUE, codec[Codec(o)].obeys) \/ (codec'[Codec(o)].obeys = FALSE /\ CodecsBy(o))
    BY <1>0, CodecSteps DEF Remute, NowCodec, CodecsBy
  <2>2. \A i \in DOMAIN CodecsOf[o] \ {pcm[o].k} : /\ MutedFrom(o, i) => MutedFrom(o, i)'
                                                   /\ PoweredFrom(o, i) => PoweredFrom(o, i)'
    BY SMTT(20), <1>0, <1>3, <1>4, <1>5, <1>6, <1>7, McaAssumption
    DEF MutedFrom, PoweredFrom, CallOK, Setup, Outside, NowAt, NowNext, CallTypes, McaCalls
  <2>3. codec'[Codec(o)].obeys => codec'[Codec(o)].muted /\ codec[Codec(o)].obeys
    BY <1>0, <1>2, <2>1, CodecSteps DEF NowCodec, McaTypes, CodecTypes
  <2>4. \A i \in DOMAIN CodecsOf[o] :
          Obeys(o) /\ codec'[Codec(o)].obeys => /\ ~codec'[Codec(o)].muted => MutedFrom(o, i)'
                                                /\ codec'[Codec(o)].powered => PoweredFrom(o, i)'
    BY <1>3, <1>4, <1>5, <1>6, <1>7, <2>1, <2>3, McaAssumption
    DEF NowCodec, MutedFrom, PoweredFrom, CallOK, Setup, Outside, NowAt, NowNext
  <2>5. \A c \in McaCodecs \ {Codec(o)} : codec'[c] = codec[c]
    BY <2>1 DEF NowCodec, CodecsBy
  <2>6. QED
    BY <1>2, <1>4, <2>2, <2>3, <2>4, <2>5, CodecSilenced
<1>12. QED
  BY <1>2, <1>10, <1>11 DEF PlayInv

(* The start ends. *)
LEMMA StartReturnsStep ==
  ASSUME PlayInv, NEW o \in Outputs, StartReturns(o)
  PROVE  PlayInv'
<1>0. McaTypes /\ CallTypes /\ FrontTypes /\ CodecTypes /\ ClusterTypes
  BY DEF PlayInv, McaTypes, FrontTypes
<1>1. CallTypes' /\ OthersCalls(o)
  BY <1>0, Returns DEF StartReturns, Steps, Setup, Outside
<1>2. McaTypes'
  <2>1. FrontTypes'
    BY <1>0, ClusterSteps DEF StartReturns, FrontTypes
  <2>2. CodecTypes'
    BY <1>0, CodecSteps DEF StartReturns, CodecTypes
  <2>3. QED
    BY <1>0, <1>1, <2>1, <2>2 DEF StartReturns, McaTypes
<1>3. OthersCalls(o) /\ OthersRest(o) /\ pcmStream' = pcmStream /\ portOn' = portOn /\ dmaOn' = dmaOn
  BY <1>0, <1>1 DEF StartReturns, OthersRest, McaTypes, FrontTypes
<1>4. owner' = owner /\ crossed' = crossed
  BY <1>0 DEF StartReturns
<1>5. NowRests(o)
  BY <1>0, Returns DEF StartReturns, Steps, Setup, Outside
<1>6. cluster'.clock = cluster.clock /\ cluster'.gen = cluster.gen
  BY <1>0, ClusterSteps DEF StartReturns
<1>7. \/ pcm[o].at = "started" /\ cluster' = cluster
      \/ pcm[o].at = "startFailed" /\ ~cluster'.serdes
  BY <1>0, ClusterSteps DEF StartReturns, At
<1>8. CallOK(o) /\ OwnOK(o) /\ FrontOK(o) /\ CodecsOK(o) /\ owner = o
  BY <1>0, <1>3, <1>4, <1>5, <1>6, <1>7 DEF PlayInv, CardOK, CallOK, OwnOK, Setup, McaTypes, FrontTypes
<1>9. CallOK(o)' /\ OwnOK(o)'
  <2>1. CallOK(o)'
    BY <1>3, <1>4, <1>5, <1>6, <1>7, <1>8 DEF CallOK, Setup, Outside, NowRests
  <2>2. OwnOK(o)'
    BY <1>0, <1>3, <1>4, <1>5, <1>6, <1>7, <1>8, McaAssumption DEF CallOK, OwnOK, Setup, Outside, NowRests
  <2>3. QED
    BY <2>1, <2>2
<1>10. FrontOK(o)'
  BY <1>0, <1>3, <1>4, <1>5, <1>6, <1>7, <1>8, <1>9, McaAssumption
  DEF CallOK, OwnOK, FrontOK, FrontTypes, Samples, Plays, Setup, Outside, Teardown, OthersCalls, NowRests
<1>11. CardOK'
  <2>1. \A p \in Outputs \ {o} : owner # p
    BY <1>8
  <2>2. owner' = owner \/ {owner, owner'} \subseteq {o, "free"}
    BY <1>0, <1>3, <1>4, <1>5, <1>6, <1>7, <1>8 DEF OwnOK, CallOK, Setup, FrontTypes
  <2>3. crossed \ {o} \subseteq crossed'
    BY <1>3, <1>4, <1>5, <1>6, <1>7
  <2>4. dmaOn' => Plays(o)' \/ (dmaOn /\ ~Plays(o))
    BY <1>3, <1>4, <1>5, <1>6, <1>7, <1>8 DEF Plays, CallOK, Setup, Outside, NowRests
  <2>5. cluster'.gen => Clocks(o)' \/ (cluster.gen /\ ~Clocks(o))
    BY <1>0, <1>3, <1>4, <1>5, <1>6, <1>7, <1>8, McaAssumption
    DEF Clocks, CallOK, OwnOK, Setup, Outside, Teardown, NowRests
  <2>6. cluster'.serdes => Feeds(o)' \/ (cluster.serdes /\ ~Feeds(o))
    BY <1>3, <1>4, <1>5, <1>6, <1>7, <1>8 DEF Feeds, CallOK, Setup, Outside, NowRests
  <2>7. portOn'[o] => owner' = o \/ pcm'[o].at = "unwind"
    BY <1>0, <1>3, <1>4, <1>5, <1>6, <1>7, <1>8, McaAssumption
    DEF PlayInv, CardOK, QuietOK, CallOK, OwnOK, Setup, Outside, NowRests
  <2>8. QED
    BY <1>2, <1>3, <1>4, <1>5, <1>6, <1>7, <1>9, <1>10, <2>1, <2>2, <2>3, <2>4, <2>5, <2>6, <2>7, CardKept
<1>12. \A p \in Outputs : CodecsOK(p)'
  BY <1>3, <1>4, <1>5, <1>6, <1>7, <1>8, McaAssumption, IdleCodecs
  DEF StartReturns, MutedFrom, PoweredFrom, CallOK, Setup, Outside, NowRests
<1>13. QED
  BY <1>2, <1>11, <1>12 DEF PlayInv

(* A codec is silenced, or does not answer. *)
LEMMA MuteStep ==
  ASSUME PlayInv, NEW o \in Outputs, Mute(o)
  PROVE  PlayInv'
<1>0. McaTypes /\ CallTypes /\ FrontTypes /\ CodecTypes /\ ClusterTypes
  BY DEF PlayInv, McaTypes, FrontTypes
<1>1. CallTypes' /\ OthersCalls(o)
  BY <1>0, GoesOn DEF Mute, Steps, Setup, Outside
<1>2. McaTypes'
  <2>1. FrontTypes'
    BY <1>0, ClusterSteps DEF Mute, FrontTypes, frontVars
  <2>2. CodecTypes'
    BY <1>0, CodecSteps DEF Mute, CodecTypes
  <2>3. QED
    BY <1>0, <1>1, <2>1, <2>2 DEF Mute, McaTypes
<1>3. pcm[o].at = "mute"
  BY <1>0 DEF Mute, At, frontVars
<1>4. OthersCalls(o) /\ OthersRest(o) /\ pcmStream' = pcmStream /\ portOn' = portOn /\ dmaOn' = dmaOn /\ cluster' = cluster
  BY <1>0, <1>1 DEF Mute, OthersRest, McaTypes, FrontTypes, frontVars
<1>5. owner' = owner /\ crossed' = crossed
  BY <1>0 DEF Mute, frontVars
<1>6. (NowAt(o, "stopDma") /\ pcm[o].k = Len(CodecsOf[o])) \/ NowNext(o)
  BY <1>0, GoesOn DEF Mute, Steps, Setup, Outside, frontVars
<1>7. CallOK(o) /\ OwnOK(o) /\ FrontOK(o) /\ CodecsOK(o)
  BY DEF PlayInv, CardOK
<1>8. CallOK(o)' /\ OwnOK(o)'
  <2>1. CallOK(o)'
    BY <1>3, <1>4, <1>5, <1>6, <1>7 DEF CallOK, Setup, Outside, NowAt, NowNext
  <2>2. OwnOK(o)'
    BY <1>0, <1>3, <1>4, <1>5, <1>6, <1>7, McaAssumption DEF CallOK, OwnOK, Setup, Outside, NowAt, NowNext
  <2>3. QED
    BY <2>1, <2>2
<1>9. FrontOK(o)'
  BY <1>0, <1>3, <1>4, <1>5, <1>6, <1>7, <1>8, McaAssumption
  DEF CallOK, OwnOK, FrontOK, FrontTypes, Samples, Plays, Setup, Outside, Teardown, OthersCalls, NowAt, NowNext
<1>10. CardOK'
  <2>1. \A p \in Outputs \ {o} : owner = p => dmaOn' = dmaOn /\ OnlyCut /\ pcm'[o].at \notin Teardown
    BY <1>3, <1>4, <1>6 DEF OnlyCut, Samples, Teardown, NowAt, NowNext
  <2>2. owner' = owner \/ {owner, owner'} \subseteq {o, "free"}
    BY <1>0, <1>3, <1>4, <1>5, <1>6, <1>7 DEF OwnOK, CallOK, Setup, FrontTypes
  <2>3. crossed \ {o} \subseteq crossed'
    BY <1>3, <1>4, <1>5, <1>6
  <2>4. dmaOn' => Plays(o)' \/ (dmaOn /\ ~Plays(o))
    BY <1>3, <1>4, <1>5, <1>6, <1>7 DEF Plays, CallOK, Setup, Outside, NowAt, NowNext
  <2>5. cluster'.gen => Clocks(o)' \/ (cluster.gen /\ ~Clocks(o))
    BY <1>0, <1>3, <1>4, <1>5, <1>6, <1>7, McaAssumption
    DEF Clocks, CallOK, OwnOK, Setup, Outside, Teardown, NowAt, NowNext
  <2>6. cluster'.serdes => Feeds(o)' \/ (cluster.serdes /\ ~Feeds(o))
    BY <1>3, <1>4, <1>5, <1>6, <1>7 DEF Feeds, CallOK, Setup, Outside, NowAt, NowNext
  <2>7. portOn'[o] => owner' = o \/ pcm'[o].at = "unwind"
    BY <1>0, <1>3, <1>4, <1>5, <1>6, <1>7, McaAssumption
    DEF PlayInv, CardOK, QuietOK, CallOK, OwnOK, Setup, Outside, NowAt, NowNext
  <2>8. QED
    BY <1>2, <1>3, <1>4, <1>5, <1>6, <1>8, <1>9, <2>1, <2>2, <2>3, <2>4, <2>5, <2>6, <2>7, CardKept
<1>11. \A p \in Outputs : CodecsOK(p)'
  <2>1. NowCodec(o, codec[Codec(o)].powered, TRUE, codec[Codec(o)].obeys) \/ (codec'[Codec(o)].obeys = FALSE /\ CodecsBy(o))
    BY <1>0, CodecSteps DEF Mute, NowCodec, CodecsBy
  <2>2. \A i \in DOMAIN CodecsOf[o] \ {pcm[o].k} : /\ MutedFrom(o, i) => MutedFrom(o, i)'
                                                   /\ PoweredFrom(o, i) => PoweredFrom(o, i)'
    BY SMTT(20), <1>0, <1>3, <1>4, <1>5, <1>6, <1>7, McaAssumption
    DEF MutedFrom, PoweredFrom, CallOK, Setup, Outside, NowAt, NowNext, CallTypes, McaCalls
  <2>3. codec'[Codec(o)].obeys => codec'[Codec(o)].muted /\ codec[Codec(o)].obeys
    BY <1>0, <1>2, <2>1, CodecSteps DEF NowCodec, McaTypes, CodecTypes
  <2>4. \A i \in DOMAIN CodecsOf[o] :
          Obeys(o) /\ codec'[Codec(o)].obeys => /\ ~codec'[Codec(o)].muted => MutedFrom(o, i)'
                                                /\ codec'[Codec(o)].powered => PoweredFrom(o, i)'
    BY <1>0, <1>3, <1>4, <1>5, <1>6, <1>7, <2>1, <2>3, McaAssumption
    DEF CodecsOK, Codec, CallTypes, NowCodec, MutedFrom, PoweredFrom, CallOK, Setup, Outside, NowAt, NowNext
  <2>5. \A c \in McaCodecs \ {Codec(o)} : codec'[c] = codec[c]
    BY <2>1 DEF NowCodec, CodecsBy
  <2>6. QED
    BY <1>2, <1>4, <2>2, <2>3, <2>4, <2>5, CodecSilenced
<1>12. QED
  BY <1>2, <1>10, <1>11 DEF PlayInv

(* The channel stops. *)
LEMMA StopDmaStep ==
  ASSUME PlayInv, NEW o \in Outputs, StopDma(o)
  PROVE  PlayInv'
<1>0. McaTypes /\ CallTypes /\ FrontTypes /\ CodecTypes /\ ClusterTypes
  BY DEF PlayInv, McaTypes, FrontTypes
<1>1. CallTypes' /\ OthersCalls(o)
  BY <1>0, GoesTo, Returns DEF StopDma, Steps, Setup, Outside
<1>2. McaTypes'
  <2>1. FrontTypes'
    BY <1>0, ClusterSteps DEF StopDma, FrontTypes
  <2>2. CodecTypes'
    BY <1>0, CodecSteps DEF StopDma, CodecTypes
  <2>3. QED
    BY <1>0, <1>1, <2>1, <2>2 DEF StopDma, McaTypes
<1>3. pcm[o].at = "stopDma" /\ pcmStream[o] # "none"
  BY <1>0 DEF StopDma, At
<1>4. OthersCalls(o) /\ OthersRest(o) /\ portOn' = portOn
  BY <1>0, <1>1 DEF StopDma, OthersRest, McaTypes, FrontTypes
<1>5. owner' = owner /\ crossed' = crossed
  BY <1>0 DEF StopDma
<1>6. cluster'.clock = cluster.clock /\ cluster'.gen = cluster.gen /\ ~cluster'.serdes /\ ~dmaOn'
  BY <1>0, ClusterSteps DEF StopDma
<1>7. pcmStream'[o] = "ready"
  BY <1>0 DEF StopDma, McaTypes, FrontTypes
<1>8. IF pcm[o].op = "stop" THEN NowRests(o) ELSE NowAt(o, "drop")
  BY <1>0, GoesTo, Returns DEF StopDma, Steps, Setup, Outside
<1>9. CallOK(o) /\ OwnOK(o) /\ FrontOK(o) /\ CodecsOK(o) /\ owner = o
  BY <1>0, <1>3, <1>4, <1>5, <1>6, <1>7, <1>8 DEF PlayInv, CardOK, CallOK, OwnOK, Setup, McaTypes, FrontTypes
<1>10. CallOK(o)' /\ OwnOK(o)'
  <2>1. CallOK(o)'
    BY <1>3, <1>4, <1>5, <1>6, <1>7, <1>8, <1>9 DEF CallOK, Setup, Outside, NowAt, NowRests
  <2>2. OwnOK(o)'
    BY <1>0, <1>3, <1>4, <1>5, <1>6, <1>7, <1>8, <1>9, McaAssumption DEF CallOK, OwnOK, Setup, Outside, NowAt, NowRests
  <2>3. QED
    BY <2>1, <2>2
<1>11. FrontOK(o)'
  BY <1>0, <1>3, <1>4, <1>5, <1>6, <1>7, <1>8, <1>9, <1>10, McaAssumption
  DEF CallOK, OwnOK, FrontOK, FrontTypes, Samples, Plays, Setup, Outside, Teardown, OthersCalls, NowAt, NowRests
<1>12. CardOK'
  <2>1. \A p \in Outputs \ {o} : owner # p
    BY <1>9
  <2>2. owner' = owner \/ {owner, owner'} \subseteq {o, "free"}
    BY <1>0, <1>3, <1>4, <1>5, <1>6, <1>7, <1>8, <1>9 DEF OwnOK, CallOK, Setup, FrontTypes
  <2>3. crossed \ {o} \subseteq crossed'
    BY <1>3, <1>4, <1>5, <1>6, <1>7, <1>8
  <2>4. dmaOn' => Plays(o)' \/ (dmaOn /\ ~Plays(o))
    BY <1>3, <1>4, <1>5, <1>6, <1>7, <1>8, <1>9 DEF Plays, CallOK, Setup, Outside, NowAt, NowRests
  <2>5. cluster'.gen => Clocks(o)' \/ (cluster.gen /\ ~Clocks(o))
    BY <1>0, <1>3, <1>4, <1>5, <1>6, <1>7, <1>8, <1>9, McaAssumption
    DEF Clocks, CallOK, OwnOK, Setup, Outside, Teardown, NowAt, NowRests
  <2>6. cluster'.serdes => Feeds(o)' \/ (cluster.serdes /\ ~Feeds(o))
    BY <1>3, <1>4, <1>5, <1>6, <1>7, <1>8, <1>9 DEF Feeds, CallOK, Setup, Outside, NowAt, NowRests
  <2>7. portOn'[o] => owner' = o \/ pcm'[o].at = "unwind"
    BY <1>0, <1>3, <1>4, <1>5, <1>6, <1>7, <1>8, <1>9, McaAssumption
    DEF PlayInv, CardOK, QuietOK, CallOK, OwnOK, Setup, Outside, NowAt, NowRests
  <2>8. QED
    BY <1>2, <1>3, <1>4, <1>5, <1>6, <1>7, <1>8, <1>10, <1>11, <2>1, <2>2, <2>3, <2>4, <2>5, <2>6, <2>7, CardKept
<1>13. \A p \in Outputs : CodecsOK(p)'
  BY <1>3, <1>4, <1>5, <1>6, <1>7, <1>8, <1>9, McaAssumption, IdleCodecs
  DEF StopDma, MutedFrom, PoweredFrom, CallOK, Setup, Outside, NowAt, NowRests
<1>14. QED
  BY <1>2, <1>12, <1>13 DEF PlayInv

(* The stop ends on an output without a stream. *)
LEMMA StopIdleStep ==
  ASSUME PlayInv, NEW o \in Outputs, StopIdle(o)
  PROVE  PlayInv'
<1>0. McaTypes /\ CallTypes /\ FrontTypes /\ CodecTypes /\ ClusterTypes
  BY DEF PlayInv, McaTypes, FrontTypes
<1>1. CallTypes' /\ OthersCalls(o) /\ NowRests(o)
  BY <1>0, Returns DEF StopIdle
<1>2. ClusterTypes' /\ OnlyCut /\ ~cluster'.serdes
  BY <1>0, ClusterSteps DEF StopIdle
<1>3. /\ pcm[o].at = "stopDma" /\ pcmStream[o] = "none"
      /\ pcmStream' = pcmStream /\ owner' = owner /\ dmaOn' = dmaOn /\ portOn' = portOn
      /\ codec' = codec /\ crossed' = crossed
  BY DEF StopIdle, At
<1>4. McaTypes'
  BY <1>0, <1>1, <1>2, <1>3 DEF McaTypes, FrontTypes, CodecTypes
<1>5. CallOK(o) /\ OwnOK(o) /\ FrontOK(o) /\ CodecsOK(o) /\ owner # o
  BY <1>3 DEF PlayInv, CardOK, OwnOK, Setup
<1>6. CallOK(o)' /\ OwnOK(o)' /\ FrontOK(o)'
  BY <1>1, <1>3, <1>5 DEF CallOK, OwnOK, FrontOK, Plays, Setup, Outside, NowRests
<1>7. OthersRest(o)
  BY <1>3 DEF OthersRest
<1>8. CardOK'
  <2>1. \A p \in Outputs \ {o} : owner = p => dmaOn' = dmaOn /\ OnlyCut /\ pcm'[o].at \notin Teardown
    BY <1>1, <1>2, <1>3 DEF Teardown, NowRests
  <2>2. dmaOn' => Plays(o)' \/ (dmaOn /\ ~Plays(o))
    BY <1>3 DEF Plays
  <2>3. cluster'.gen => Clocks(o)' \/ (cluster.gen /\ ~Clocks(o))
    BY <1>2, <1>3, <1>5 DEF OnlyCut, Clocks, Teardown
  <2>4. portOn'[o] => owner' = o \/ pcm'[o].at = "unwind"
    BY <1>3 DEF PlayInv, CardOK, QuietOK
  <2>5. QED
    BY <1>1, <1>2, <1>3, <1>4, <1>6, <1>7, <2>1, <2>2, <2>3, <2>4, CardKept
<1>9. \A p \in Outputs : CodecsOK(p)'
  BY <1>1, <1>3, <1>7, IdleCodecs DEF MutedFrom, PoweredFrom, NowRests
<1>10. QED
  BY <1>4, <1>8, <1>9 DEF PlayInv

(* The stream and its channel are let go of. *)
LEMMA DropStreamStep ==
  ASSUME PlayInv, NEW o \in Outputs, DropStream(o)
  PROVE  PlayInv'
<1>0. McaTypes /\ CallTypes /\ FrontTypes /\ CodecTypes /\ ClusterTypes
  BY DEF PlayInv, McaTypes, FrontTypes
<1>1. CallTypes' /\ OthersCalls(o)
  BY <1>0, GoesTo DEF DropStream, Steps, Setup, Outside
<1>2. McaTypes'
  <2>1. FrontTypes'
    BY <1>0, ClusterSteps DEF DropStream, FrontTypes
  <2>2. CodecTypes'
    BY <1>0, CodecSteps DEF DropStream, CodecTypes
  <2>3. QED
    BY <1>0, <1>1, <2>1, <2>2 DEF DropStream, McaTypes
<1>3. pcm[o].at = "drop"
  BY <1>0 DEF DropStream, At
<1>4. OthersCalls(o) /\ OthersRest(o) /\ dmaOn' = dmaOn /\ cluster' = cluster
  BY <1>0, <1>1 DEF DropStream, OthersRest, McaTypes, FrontTypes
<1>5. ~portOn'[o] /\ pcmStream'[o] = "none" /\ owner' = "free" /\ crossed' = crossed \ {o} /\ NowAt(o, "unpower")
  BY <1>0, GoesTo DEF DropStream, McaTypes, FrontTypes, Steps, Setup, Outside
<1>6. CallOK(o) /\ OwnOK(o) /\ FrontOK(o) /\ CodecsOK(o) /\ owner = o
  BY <1>0, <1>3, <1>4, <1>5 DEF PlayInv, CardOK, CallOK, OwnOK, Setup, McaTypes, FrontTypes
<1>7. CallOK(o)' /\ OwnOK(o)'
  <2>1. CallOK(o)'
    BY <1>3, <1>4, <1>5, <1>6 DEF CallOK, Setup, Outside, NowAt
  <2>2. OwnOK(o)'
    BY <1>0, <1>3, <1>4, <1>5, <1>6, McaAssumption DEF CallOK, OwnOK, Setup, Outside, NowAt
  <2>3. QED
    BY <2>1, <2>2
<1>8. FrontOK(o)'
  BY <1>0, <1>3, <1>4, <1>5, <1>6, <1>7, McaAssumption
  DEF CallOK, OwnOK, FrontOK, FrontTypes, Samples, Plays, Setup, Outside, Teardown, OthersCalls, NowAt
<1>9. CardOK'
  <2>1. \A p \in Outputs \ {o} : owner # p
    BY <1>6
  <2>2. owner' = owner \/ {owner, owner'} \subseteq {o, "free"}
    BY <1>0, <1>3, <1>4, <1>5, <1>6 DEF OwnOK, CallOK, Setup, FrontTypes
  <2>3. crossed \ {o} \subseteq crossed'
    BY <1>3, <1>4, <1>5
  <2>4. dmaOn' => Plays(o)' \/ (dmaOn /\ ~Plays(o))
    BY <1>3, <1>4, <1>5, <1>6 DEF Plays, CallOK, Setup, Outside, NowAt
  <2>5. cluster'.gen => Clocks(o)' \/ (cluster.gen /\ ~Clocks(o))
    BY <1>0, <1>3, <1>4, <1>5, <1>6, McaAssumption DEF Clocks, CallOK, OwnOK, Setup, Outside, Teardown, NowAt
  <2>6. cluster'.serdes => Feeds(o)' \/ (cluster.serdes /\ ~Feeds(o))
    BY <1>3, <1>4, <1>5, <1>6 DEF Feeds, CallOK, Setup, Outside, NowAt
  <2>7. portOn'[o] => owner' = o \/ pcm'[o].at = "unwind"
    BY <1>0, <1>3, <1>4, <1>5, <1>6, McaAssumption DEF PlayInv, CardOK, QuietOK, CallOK, OwnOK, Setup, Outside, NowAt
  <2>8. QED
    BY <1>2, <1>3, <1>4, <1>5, <1>7, <1>8, <2>1, <2>2, <2>3, <2>4, <2>5, <2>6, <2>7, CardKept
<1>10. \A p \in Outputs : CodecsOK(p)'
  BY <1>3, <1>4, <1>5, <1>6, McaAssumption, IdleCodecs
  DEF DropStream, MutedFrom, PoweredFrom, CallOK, Setup, Outside, NowAt
<1>11. QED
  BY <1>2, <1>9, <1>10 DEF PlayInv

(* A codec is switched off, or does not answer. *)
LEMMA UnpowerStep ==
  ASSUME PlayInv, NEW o \in Outputs, Unpower(o)
  PROVE  PlayInv'
<1>0. McaTypes /\ CallTypes /\ FrontTypes /\ CodecTypes /\ ClusterTypes
  BY DEF PlayInv, McaTypes, FrontTypes
<1>1. CallTypes' /\ OthersCalls(o)
  BY <1>0, GoesOn DEF Unpower, SwitchOff, Steps, Setup, Outside
<1>2. McaTypes'
  <2>1. FrontTypes'
    BY <1>0, ClusterSteps DEF Unpower, SwitchOff, FrontTypes, frontVars
  <2>2. CodecTypes'
    BY <1>0, CodecSteps DEF Unpower, SwitchOff, CodecTypes
  <2>3. QED
    BY <1>0, <1>1, <2>1, <2>2 DEF Unpower, SwitchOff, McaTypes
<1>3. pcm[o].at = "unpower"
  BY <1>0 DEF Unpower, SwitchOff, At, frontVars
<1>4. OthersCalls(o) /\ OthersRest(o) /\ pcmStream' = pcmStream /\ portOn' = portOn /\ dmaOn' = dmaOn /\ cluster' = cluster
  BY <1>0, <1>1 DEF Unpower, SwitchOff, OthersRest, McaTypes, FrontTypes, frontVars
<1>5. owner' = owner /\ crossed' = crossed
  BY <1>0 DEF Unpower, SwitchOff, frontVars
<1>6. (NowAt(o, "unclock") /\ pcm[o].k = Len(CodecsOf[o])) \/ NowNext(o)
  BY <1>0, GoesOn DEF Unpower, SwitchOff, Steps, Setup, Outside, frontVars
<1>7. CallOK(o) /\ OwnOK(o) /\ FrontOK(o) /\ CodecsOK(o)
  BY DEF PlayInv, CardOK
<1>8. CallOK(o)' /\ OwnOK(o)'
  <2>1. CallOK(o)'
    BY <1>3, <1>4, <1>5, <1>6, <1>7 DEF CallOK, Setup, Outside, NowAt, NowNext
  <2>2. OwnOK(o)'
    BY <1>0, <1>3, <1>4, <1>5, <1>6, <1>7, McaAssumption DEF CallOK, OwnOK, Setup, Outside, NowAt, NowNext
  <2>3. QED
    BY <2>1, <2>2
<1>9. FrontOK(o)'
  BY <1>0, <1>3, <1>4, <1>5, <1>6, <1>7, <1>8, McaAssumption
  DEF CallOK, OwnOK, FrontOK, FrontTypes, Samples, Plays, Setup, Outside, Teardown, OthersCalls, NowAt, NowNext
<1>10. CardOK'
  <2>1. ASSUME NEW p \in Outputs \ {o}, owner = p
        PROVE  dmaOn' = dmaOn /\ (p \in crossed \/ (OnlyCut /\ pcm'[o].at \notin Teardown))
    <3>1. p \in crossed \/ pcm[o].at \notin Teardown
      BY <2>1 DEF PlayInv, CardOK, FrontOK
    <3>2. pcmStream[o] = "none" /\ pcm[o].at \notin Setup
      BY <1>7, <2>1 DEF OwnOK, PlayInv, McaTypes
    <3>3. QED
      BY <1>3, <1>4, <1>5, <1>6, <1>7, <2>1, <3>1, <3>2, McaAssumption
      DEF OnlyCut, Samples, CallOK, OwnOK, Setup, Outside, Teardown, NowAt, NowNext
  <2>2. owner' = owner \/ {owner, owner'} \subseteq {o, "free"}
    BY <1>0, <1>3, <1>4, <1>5, <1>6, <1>7 DEF OwnOK, CallOK, Setup, FrontTypes
  <2>3. crossed \ {o} \subseteq crossed'
    BY <1>3, <1>4, <1>5, <1>6
  <2>4. dmaOn' => Plays(o)' \/ (dmaOn /\ ~Plays(o))
    BY <1>3, <1>4, <1>5, <1>6, <1>7 DEF Plays, CallOK, Setup, Outside, NowAt, NowNext
  <2>5. cluster'.gen => Clocks(o)' \/ (cluster.gen /\ ~Clocks(o))
    BY <1>0, <1>3, <1>4, <1>5, <1>6, <1>7, McaAssumption
    DEF Clocks, CallOK, OwnOK, Setup, Outside, Teardown, NowAt, NowNext
  <2>6. cluster'.serdes => Feeds(o)' \/ (cluster.serdes /\ ~Feeds(o))
    BY <1>3, <1>4, <1>5, <1>6, <1>7 DEF Feeds, CallOK, Setup, Outside, NowAt, NowNext
  <2>7. portOn'[o] => owner' = o \/ pcm'[o].at = "unwind"
    BY <1>0, <1>3, <1>4, <1>5, <1>6, <1>7, McaAssumption
    DEF PlayInv, CardOK, QuietOK, CallOK, OwnOK, Setup, Outside, NowAt, NowNext
  <2>8. QED
    BY <1>2, <1>3, <1>4, <1>5, <1>6, <1>8, <1>9, <2>1, <2>2, <2>3, <2>4, <2>5, <2>6, <2>7, CardKept
<1>11. \A p \in Outputs : CodecsOK(p)'
  <2>1. NowCodec(o, FALSE, TRUE, codec[Codec(o)].obeys) \/ (codec'[Codec(o)].obeys = FALSE /\ CodecsBy(o))
    BY <1>0, CodecSteps DEF Unpower, SwitchOff, NowCodec, CodecsBy
  <2>2. \A i \in DOMAIN CodecsOf[o] \ {pcm[o].k} : /\ MutedFrom(o, i) => MutedFrom(o, i)'
                                                   /\ PoweredFrom(o, i) => PoweredFrom(o, i)'
    BY SMTT(20), <1>0, <1>3, <1>4, <1>5, <1>6, <1>7, McaAssumption
    DEF MutedFrom, PoweredFrom, CallOK, Setup, Outside, NowAt, NowNext, CallTypes, McaCalls
  <2>3. codec'[Codec(o)].obeys => codec'[Codec(o)].muted /\ codec[Codec(o)].obeys
    BY <1>0, <1>2, <2>1, CodecSteps DEF NowCodec, McaTypes, CodecTypes
  <2>4. \A i \in DOMAIN CodecsOf[o] :
          Obeys(o) /\ codec'[Codec(o)].obeys => /\ ~codec'[Codec(o)].muted => MutedFrom(o, i)'
                                                /\ codec'[Codec(o)].powered => PoweredFrom(o, i)'
    BY <1>3, <1>4, <1>5, <1>6, <1>7, <2>1, <2>3, McaAssumption
    DEF NowCodec, MutedFrom, PoweredFrom, CallOK, Setup, Outside, NowAt, NowNext
  <2>5. \A c \in McaCodecs \ {Codec(o)} : codec'[c] = codec[c]
    BY <2>1 DEF NowCodec, CodecsBy
  <2>6. QED
    BY <1>2, <1>4, <2>2, <2>3, <2>4, <2>5, CodecSilenced
<1>12. QED
  BY <1>2, <1>10, <1>11 DEF PlayInv

(* The clocks go, while another output may hold the channel. *)
LEMMA UnclockStep ==
  ASSUME PlayInv, NEW o \in Outputs, Unclock(o)
  PROVE  PlayInv'
<1>0. McaTypes /\ CallTypes /\ FrontTypes /\ CodecTypes /\ ClusterTypes
  BY DEF PlayInv, McaTypes, FrontTypes
<1>1. CallTypes' /\ OthersCalls(o)
  BY <1>0, GoesTo, Returns DEF Unclock, Steps, Setup, Outside
<1>2. McaTypes'
  <2>1. FrontTypes'
    BY <1>0, ClusterSteps DEF Unclock, FrontTypes
  <2>2. CodecTypes'
    BY <1>0, CodecSteps DEF Unclock, CodecTypes
  <2>3. QED
    BY <1>0, <1>1, <2>1, <2>2 DEF Unclock, McaTypes
<1>3. pcm[o].at = "unclock"
  BY <1>0 DEF Unclock, At
<1>4. OthersCalls(o) /\ OthersRest(o) /\ pcmStream' = pcmStream /\ portOn' = portOn /\ dmaOn' = dmaOn
  BY <1>0, <1>1 DEF Unclock, OthersRest, McaTypes, FrontTypes
<1>5. owner' = owner /\ crossed' = crossed
  BY <1>0 DEF Unclock
<1>6. ~cluster'.gen /\ cluster'.serdes = cluster.serdes
  BY <1>0, ClusterSteps DEF Unclock
<1>7. (pcm[o].op = "configure" /\ NowAt(o, "request")) \/ NowRests(o)
  BY <1>0, GoesTo, Returns DEF Unclock, Steps, Setup, Outside
<1>8. CallOK(o) /\ OwnOK(o) /\ FrontOK(o) /\ CodecsOK(o)
  BY DEF PlayInv, CardOK
<1>9. CallOK(o)' /\ OwnOK(o)'
  <2>1. CallOK(o)'
    BY <1>3, <1>4, <1>5, <1>6, <1>7, <1>8 DEF CallOK, Setup, Outside, NowAt, NowRests
  <2>2. OwnOK(o)'
    BY <1>0, <1>3, <1>4, <1>5, <1>6, <1>7, <1>8, McaAssumption DEF CallOK, OwnOK, Setup, Outside, NowAt, NowRests
  <2>3. QED
    BY <2>1, <2>2
<1>10. FrontOK(o)'
  BY <1>0, <1>3, <1>4, <1>5, <1>6, <1>7, <1>8, <1>9, McaAssumption
  DEF CallOK, OwnOK, FrontOK, FrontTypes, Samples, Plays, Setup, Outside, Teardown, OthersCalls, NowAt, NowRests
<1>11. CardOK'
  <2>1. ASSUME NEW p \in Outputs \ {o}, owner = p
        PROVE  dmaOn' = dmaOn /\ (p \in crossed \/ (OnlyCut /\ pcm'[o].at \notin Teardown))
    <3>1. p \in crossed \/ pcm[o].at \notin Teardown
      BY <2>1 DEF PlayInv, CardOK, FrontOK
    <3>2. pcmStream[o] = "none" /\ pcm[o].at \notin Setup
      BY <1>8, <2>1 DEF OwnOK, PlayInv, McaTypes
    <3>3. QED
      BY <1>3, <1>4, <1>5, <1>6, <1>7, <1>8, <2>1, <3>1, <3>2, McaAssumption
      DEF OnlyCut, Samples, CallOK, OwnOK, Setup, Outside, Teardown, NowAt, NowRests
  <2>2. owner' = owner \/ {owner, owner'} \subseteq {o, "free"}
    BY <1>0, <1>3, <1>4, <1>5, <1>6, <1>7, <1>8 DEF OwnOK, CallOK, Setup, FrontTypes
  <2>3. crossed \ {o} \subseteq crossed'
    BY <1>3, <1>4, <1>5, <1>6, <1>7
  <2>4. dmaOn' => Plays(o)' \/ (dmaOn /\ ~Plays(o))
    BY <1>3, <1>4, <1>5, <1>6, <1>7, <1>8 DEF Plays, CallOK, Setup, Outside, NowAt, NowRests
  <2>5. cluster'.gen => Clocks(o)' \/ (cluster.gen /\ ~Clocks(o))
    BY <1>0, <1>3, <1>4, <1>5, <1>6, <1>7, <1>8, McaAssumption
    DEF Clocks, CallOK, OwnOK, Setup, Outside, Teardown, NowAt, NowRests
  <2>6. cluster'.serdes => Feeds(o)' \/ (cluster.serdes /\ ~Feeds(o))
    BY <1>3, <1>4, <1>5, <1>6, <1>7, <1>8 DEF Feeds, CallOK, Setup, Outside, NowAt, NowRests
  <2>7. portOn'[o] => owner' = o \/ pcm'[o].at = "unwind"
    BY <1>0, <1>3, <1>4, <1>5, <1>6, <1>7, <1>8, McaAssumption
    DEF PlayInv, CardOK, QuietOK, CallOK, OwnOK, Setup, Outside, NowAt, NowRests
  <2>8. QED
    BY <1>2, <1>3, <1>4, <1>5, <1>6, <1>7, <1>9, <1>10, <2>1, <2>2, <2>3, <2>4, <2>5, <2>6, <2>7, CardKept
<1>12. \A p \in Outputs : CodecsOK(p)'
  BY <1>3, <1>4, <1>5, <1>6, <1>7, <1>8, McaAssumption, IdleCodecs
  DEF Unclock, MutedFrom, PoweredFrom, CallOK, Setup, Outside, NowAt, NowRests
<1>13. QED
  BY <1>2, <1>11, <1>12 DEF PlayInv

(* A call begins on an output that rests. *)
LEMMA BeginCallStep ==
  ASSUME PlayInv, NEW o \in Outputs, NEW op \in {"configure", "start", "stop", "release"}, BeginCall(o, op)
  PROVE  PlayInv'
<1>0. McaTypes /\ CallTypes /\ FrontTypes /\ CodecTypes /\ ClusterTypes
  BY DEF PlayInv, McaTypes, FrontTypes
<1>1. /\ pcm[o].at = "none" /\ pcm'[o].op = op /\ pcm'[o].k = 1
      /\ CallTypes' /\ OthersCalls(o)
  BY <1>0, FirstCodec DEF BeginCall, Resting, CallTypes, McaCalls, Steps, Outside, OthersCalls
<1>2. /\ UNCHANGED <<owner, dmaOn, cluster, portOn, codec, crossed>>
      /\ pcmStream' \in [Outputs -> {"none", "ready", "running"}] /\ OthersRest(o)
  BY <1>0 DEF BeginCall, frontVars, McaTypes, OthersRest
<1>3. McaTypes'
  BY <1>0, <1>1, <1>2 DEF McaTypes, FrontTypes, ClusterTypes, CodecTypes
<1>4. \/ /\ op = "start" /\ pcmStream[o] = "ready" /\ pcmStream'[o] = "running" /\ pcm'[o].at = "startDma"
      \/ /\ op = "configure" /\ pcmStream[o] = "none" /\ pcmStream'[o] = "none" /\ pcm'[o].at = "request"
      \/ /\ (op \in {"configure", "release"} /\ pcmStream[o] # "none") \/ op = "stop"
         /\ pcmStream'[o] = pcmStream[o] /\ pcm'[o].at = "mute"
  BY <1>0 DEF BeginCall, McaTypes, CallTypes, McaCalls
<1>5. CallOK(o) /\ OwnOK(o) /\ FrontOK(o) /\ CodecsOK(o)
  BY DEF PlayInv, CardOK
<1>6. CallOK(o)' /\ OwnOK(o)'
  BY <1>1, <1>2, <1>4, <1>5 DEF CallOK, OwnOK, Setup, Outside
<1>7. FrontOK(o)'
  BY <1>1, <1>2, <1>4, <1>5 DEF FrontOK, OwnOK, Samples, Plays, Teardown, OthersCalls
<1>8. CardOK'
  <2>1. \A p \in Outputs \ {o} : owner = p => dmaOn' = dmaOn /\ OnlyCut /\ pcm'[o].at \notin Teardown
    BY <1>2, <1>4 DEF OnlyCut, Samples, Teardown
  <2>2. dmaOn' => Plays(o)' \/ (dmaOn /\ ~Plays(o))
    BY <1>1, <1>2, <1>4 DEF Plays
  <2>3. cluster'.gen => Clocks(o)' \/ (cluster.gen /\ ~Clocks(o))
    BY <1>1, <1>2, <1>4, <1>5 DEF Clocks, OwnOK, Setup, Teardown
  <2>4. cluster'.serdes => Feeds(o)' \/ (cluster.serdes /\ ~Feeds(o))
    BY <1>1, <1>2, <1>4 DEF Feeds
  <2>5. portOn'[o] => owner' = o \/ pcm'[o].at = "unwind"
    BY <1>1, <1>2 DEF PlayInv, CardOK, QuietOK
  <2>6. QED
    BY <1>1, <1>2, <1>3, <1>6, <1>7, <2>1, <2>2, <2>3, <2>4, <2>5, CardKept
<1>9. \A p \in Outputs : CodecsOK(p)'
  BY <1>0, <1>1, <1>2, <1>4, <1>5, McaAssumption, IdleCodecs DEF MutedFrom, PoweredFrom, McaTypes
<1>10. QED
  BY <1>3, <1>8, <1>9 DEF PlayInv

LEMMA PlayInitInv == McaInit => PlayInv
<1>1. SUFFICES ASSUME McaInit
               PROVE  PlayInv
  OBVIOUS
<1>2. McaTypes
  BY <1>1, FirstCodec DEF McaInit, McaTypes, CallTypes, FrontTypes, ClusterTypes, CodecTypes, McaCalls, Steps, Resting
<1>3. CardOK
  BY <1>1, McaAssumption
  DEF McaInit, CardOK, QuietOK, CallOK, OwnOK, FrontOK, Plays, Resting, Setup, Outside
<1>4. \A o \in Outputs : CodecsOK(o)
  BY <1>1 DEF McaInit, CodecsOK, McaCodecs
<1>5. QED
  BY <1>2, <1>3, <1>4 DEF PlayInv

LEMMA PlayNextInv == PlayInv /\ [McaNext]_mcaVars => PlayInv'
<1>1. SUFFICES ASSUME PlayInv, [McaNext]_mcaVars
               PROVE  PlayInv'
  OBVIOUS
<1>2. CASE UNCHANGED mcaVars
  BY <1>1, <1>2
  DEF mcaVars, PlayInv, McaTypes, CallTypes, FrontTypes, ClusterTypes, CodecTypes, CardOK, QuietOK, CallOK, OwnOK,
      FrontOK, Samples, Plays, Clocks, Feeds, CodecsOK, MutedFrom, PoweredFrom, Obeys
<1>3. ASSUME NEW o \in Outputs, NEW op \in {"configure", "start", "stop", "release"}, BeginCall(o, op)
      PROVE  PlayInv'
  BY <1>1, <1>3, BeginCallStep
<1>4. ASSUME NEW o \in Outputs,
             RequestDma(o) \/ SetSyncRate(o) \/ EnableClocks(o) \/ ConfigureCodec(o) \/ PrepareDma(o)
      PROVE  PlayInv'
  BY <1>1, <1>4, RequestDmaStep, SetSyncRateStep, EnableClocksStep, ConfigureCodecStep, PrepareDmaStep
<1>5. ASSUME NEW o \in Outputs, Unwind(o) \/ UnwindCodec(o) \/ UnwindDone(o)
      PROVE  PlayInv'
  BY <1>1, <1>5, UnwindStep, UnwindCodecStep, UnwindDoneStep
<1>6. ASSUME NEW o \in Outputs, StartDma(o) \/ Unmute(o) \/ Remute(o) \/ StartReturns(o)
      PROVE  PlayInv'
  BY <1>1, <1>6, StartDmaStep, UnmuteStep, RemuteStep, StartReturnsStep
<1>7. ASSUME NEW o \in Outputs, Mute(o) \/ StopDma(o) \/ StopIdle(o) \/ DropStream(o) \/ Unpower(o) \/ Unclock(o)
      PROVE  PlayInv'
  BY <1>1, <1>7, MuteStep, StopDmaStep, StopIdleStep, DropStreamStep, UnpowerStep, UnclockStep
<1>8. QED
  BY <1>1, <1>2, <1>3, <1>4, <1>5, <1>6, <1>7 DEF McaNext

LEMMA PlayInvIsEnough == PlayInv => SoundIsFed
<1>1. SUFFICES ASSUME PlayInv
               PROVE  SoundIsFed
  OBVIOUS
<1>2. McaTypes /\ QuietOK /\ \A o \in Outputs : CallOK(o) /\ OwnOK(o) /\ FrontOK(o) /\ CodecsOK(o)
  BY <1>1 DEF PlayInv, CardOK
<1>3. StreamIsFed
  <2>1. SUFFICES ASSUME NEW o \in Outputs, pcmStream[o] # "none", o \notin crossed, pcm[o].op \in {"none", "start", "stop"}
                 PROVE  /\ owner = o /\ portOn[o] /\ cluster.gen /\ cluster.clock > 0
                        /\ pcmStream[o] = "running" /\ pcm[o].op = "none" => dmaOn /\ Samples
    BY DEF StreamIsFed
  <2>2. owner = o /\ portOn[o] /\ cluster.gen /\ cluster.clock > 0
    BY <1>2, <2>1 DEF OwnOK, FrontOK, CallOK, Setup, Outside
  <2>3. pcmStream[o] = "running" /\ pcm[o].op = "none" => Plays(o)
    BY <1>2 DEF CallOK, Plays
  <2>4. QED
    BY <1>2, <2>1, <2>2, <2>3 DEF FrontOK
<1>4. AudibleIsFed
  <2>1. SUFFICES ASSUME NEW o \in Outputs, Obeys(o), o \notin crossed,
                        NEW i \in DOMAIN CodecsOf[o], Audible(CodecsOf[o][i])
                 PROVE  cluster.gen /\ Samples /\ portOn[o] /\ (dmaOn \/ pcm[o].at = "remute")
    BY DEF AudibleIsFed
  <2>2. MutedFrom(o, i)
    BY <1>2, <2>1 DEF CodecsOK, Audible
  <2>3. Plays(o) \/ pcm[o].at = "remute"
    BY <2>2 DEF MutedFrom, Plays
  <2>4. owner = o /\ pcm[o].at \notin {"rate", "clocks"}
    BY <1>2, <2>2 DEF MutedFrom, OwnOK, CallOK
  <2>5. QED
    BY <1>2, <2>1, <2>3, <2>4 DEF FrontOK
<1>5. RestIsQuiet
  <2>1. SUFFICES ASSUME \A o \in Outputs : pcmStream[o] = "none" /\ pcm[o] = Resting
                 PROVE  /\ owner = "free" /\ ~dmaOn /\ ~cluster.gen /\ ~cluster.serdes
                        /\ \A o \in Outputs : ~portOn[o] /\ (Obeys(o) => \A i \in DOMAIN CodecsOf[o] : ~codec[CodecsOf[o][i]].powered)
    BY DEF RestIsQuiet
  <2>2. \A o \in Outputs : pcm[o].at = "none" /\ owner # o
    BY <1>2, <2>1 DEF Resting, OwnOK, Setup
  <2>3. owner = "free"
    BY <1>2, <2>2 DEF McaTypes, FrontTypes
  <2>4. ~dmaOn /\ ~cluster.gen /\ ~cluster.serdes /\ \A o \in Outputs : ~portOn[o]
    BY <1>2, <2>1, <2>2 DEF QuietOK, Plays, Clocks, Feeds, Teardown
  <2>5. \A o \in Outputs : Obeys(o) => \A i \in DOMAIN CodecsOf[o] : ~codec[CodecsOf[o][i]].powered
    BY <1>2, <2>1, <2>2 DEF CodecsOK, PoweredFrom
  <2>6. QED
    BY <2>3, <2>4, <2>5
<1>6. QED
  BY <1>3, <1>4, <1>5 DEF SoundIsFed

(* The outputs that share the controller keep apart: a configured stream keeps *)
(* its ports, clocks and channel and a running one its SERDES, and a codec is  *)
(* audible only while samples reach it, but for an output that took the        *)
(* channel while another still took the front end down, and for a SERDES that  *)
(* a stop on an output without a stream cut off; with nothing under way all is *)
(* off.  This for every interleaving of the outputs' calls and every    *)
(* failure of their steps (audio/apple-mca).                                   *)
THEOREM SoundStaysFed == McaSpec => []SoundIsFed
<1>1. McaInit => PlayInv
  BY PlayInitInv
<1>2. PlayInv /\ [McaNext]_mcaVars => PlayInv'
  BY PlayNextInv
<1>3. PlayInv => SoundIsFed
  BY PlayInvIsEnough
<1>4. QED
  BY <1>1, <1>2, <1>3, PTL DEF McaSpec

------------------------------------------------------------------------------
(* Power domains (PmgrDomains). *)
PmFrames == [domain : Domains, next : Nat]
PmPoints == {"idle", "enable", "disable", "pollOn", "pollOff", "assert", "pause", "release"}
PmTypes ==
  /\ target \in [Domains -> {"on", "off"}] /\ actual \in [Domains -> {"on", "off"}]
  /\ quiet \in [Domains -> BOOLEAN] /\ inReset \in [Domains -> BOOLEAN]
  /\ slow \in SUBSET Domains /\ (regLock = {} \/ \E u \in PmUsers : regLock = {u})
  /\ upc \in [PmUsers -> PmPoints]
  /\ todo \in [PmUsers -> Seq(PmFrames)]

Lit == {d \in Domains : Powered(d)}

(* The calls of a user: each is in the middle of its list of parents, the one  *)
(* it calls for is the next frame, and those before it have power.             *)
InRange(s) == \A i \in 1 .. Len(s) : s[i].next \in 1 .. Len(Parents[s[i].domain]) + 1
OnPath(s) == \A i \in 1 .. Len(s) - 1 : s[i].next > 1 /\ s[i + 1].domain = Parents[s[i].domain][s[i].next - 1]
Brought(s, on) ==
  \A i \in 1 .. Len(s) : \A k \in 1 .. s[i].next - 1 :
    Parents[s[i].domain][k] \in on \/ (i < Len(s) /\ k = s[i].next - 1)
CallsOK(at, s, u, on) ==
  /\ at = "idle" <=> Len(s) = 0
  /\ at \in {"disable", "pollOff", "assert", "pause", "release"} => Len(s) = 1 /\ s[1].domain = Leaves[u]
  /\ InRange(s) /\ OnPath(s) /\ Brought(s, on)

(* Who holds the register lock is alone in a sequence, and the registers are   *)
(* as its steps so far have left them.                                         *)
Polls(u) == upc[u] \in {"pollOn", "pollOff"}
Holds(u) ==
  /\ regLock = {u} <=> Polls(u) \/ upc[u] \in {"assert", "release"}
  /\ upc[u] = "pollOn" => target[Current(u)] = "on"
  /\ upc[u] = "pollOff" => target[Current(u)] = "off"
  /\ upc[u] = "assert" => quiet[Leaves[u]]
  /\ upc[u] = "release" => ~inReset[Leaves[u]]

(* What is never switched off stays on, and a domain is settled unless it is   *)
(* late or somebody waits for it.                                              *)
NeverOff(d) == \A u \in PmUsers : d # Leaves[u]
KeptOn == \A d \in Domains : NeverOff(d) /\ actual[d] = "on" => target[d] = "on"
Settled == \A d \in Domains \ slow : actual[d] = target[d] \/ \E u \in PmUsers : Polls(u) /\ Current(u) = d

PmInv ==
  /\ PmTypes /\ \A u \in PmUsers : CallsOK(upc[u], todo[u], u, Lit) /\ Holds(u)
  /\ KeptOn /\ Settled /\ ParentsFirst /\ QuietInReset

LEMMA PmParents ==
  ASSUME PmAssumption, NEW d \in Domains
  PROVE  /\ Parents[d] \in Seq(Domains) /\ Len(Parents[d]) \in Nat /\ DOMAIN Parents[d] = 1 .. Len(Parents[d])
         /\ \A i \in 1 .. Len(Parents[d]) : Parents[d][i] \in Domains /\ NeverOff(Parents[d][i])
<1>1. Parents[d] \in Seq(Domains)
  BY DEF PmAssumption
<1>2. Len(Parents[d]) \in Nat /\ DOMAIN Parents[d] = 1 .. Len(Parents[d])
  BY <1>1
<1>3. \A i \in 1 .. Len(Parents[d]) : Parents[d][i] \in Domains
  BY <1>1
<1>4. \A i \in 1 .. Len(Parents[d]) : NeverOff(Parents[d][i])
  BY <1>2 DEF PmAssumption, NeverOff
<1>5. QED
  BY <1>1, <1>2, <1>3, <1>4

LEMMA CallsBegin ==
  ASSUME PmAssumption, NEW u \in PmUsers, NEW on, NEW d \in Domains, NEW at, at # "idle",
         at \in {"disable", "pollOff", "assert", "pause", "release"} => d = Leaves[u], NEW s, s = <<Call(d)>>
  PROVE  CallsOK(at, s, u, on) /\ s \in Seq(PmFrames) /\ Last(s) = Call(d)
<1>1. PICK c : c = Call(d)
  OBVIOUS
<1>2. c \in PmFrames /\ c.domain = d /\ c.next = 1
  BY <1>1 DEF Call, PmFrames
<1>3. s \in Seq(PmFrames) /\ Len(s) = 1 /\ s[1] = c
  BY <1>1, <1>2
<1>4. Len(Parents[d]) \in Nat
  BY PmParents
<1>5. InRange(s)
  BY <1>2, <1>3, <1>4 DEF InRange
<1>6. OnPath(s) /\ Brought(s, on)
  BY <1>2, <1>3 DEF OnPath, Brought
<1>7. QED
  BY <1>1, <1>2, <1>3, <1>5, <1>6 DEF CallsOK, Last

LEMMA CallsPush ==
  ASSUME PmAssumption, NEW u \in PmUsers, NEW on, NEW s \in Seq(PmFrames), CallsOK("enable", s, u, on), ~ParentsDone(Last(s)),
         NEW t, t = Append([s EXCEPT ![Len(s)].next = Last(s).next + 1], Call(Parents[Last(s).domain][Last(s).next]))
  PROVE  CallsOK("enable", t, u, on) /\ t \in Seq(PmFrames)
<1> DEFINE n == Len(s)
           f == s[n]
           p == Parents[f.domain][f.next]
<1>1. n \in Nat \ {0} /\ f \in PmFrames /\ Last(s) = f /\ \A i \in 1 .. n : s[i] \in PmFrames
  BY DEF CallsOK, Last
<1>2. f.domain \in Domains /\ f.next \in Nat
  BY <1>1 DEF PmFrames
<1>3. Len(Parents[f.domain]) \in Nat /\ f.next \in 1 .. Len(Parents[f.domain]) /\ p \in Domains
  <2>1. Len(Parents[f.domain]) \in Nat
    BY <1>2, PmParents
  <2>2. f.next \in 1 .. Len(Parents[f.domain]) + 1
    BY <1>1 DEF CallsOK, InRange
  <2>3. ~(f.next > Len(Parents[f.domain]))
    BY <1>1 DEF ParentsDone
  <2>4. f.next \in 1 .. Len(Parents[f.domain])
    BY <2>1, <2>2, <2>3
  <2>5. QED
    BY <1>2, <2>1, <2>4, PmParents
<1>4. PICK g : g = [f EXCEPT !.next = f.next + 1]
  OBVIOUS
<1>0. n = Len(s) /\ f = s[n] /\ p = Parents[f.domain][f.next] /\ s \in Seq(PmFrames)
  OBVIOUS
<1> HIDE DEF n, f, p
<1>5. g \in PmFrames /\ g.domain = f.domain /\ g.next = f.next + 1
  BY ONLY <1>1, <1>2, <1>4 DEF PmFrames
<1>6. PICK r : r = [s EXCEPT ![n] = g]
  OBVIOUS
<1>7. r \in Seq(PmFrames) /\ Len(r) = n /\ r[n] = g /\ \A i \in 1 .. n : i # n => r[i] = s[i]
  <2>1. g \in PmFrames
    BY ONLY <1>5
  <2>2. n \in 1 .. n
    BY ONLY <1>1
  <2>3. QED
    BY ONLY <1>0, <1>6, <2>1, <2>2
<1>8. PICK c : c = Call(p)
  OBVIOUS
<1>9. c \in PmFrames /\ c.domain = p /\ c.next = 1
  BY <1>3, <1>8 DEF Call, PmFrames
<1>10. t = Append(r, c)
  BY <1>0, <1>1, <1>4, <1>6, <1>8
<1>11. /\ t \in Seq(PmFrames) /\ Len(t) = n + 1 /\ t[n + 1] = c /\ \A i \in 1 .. n : t[i] = r[i]
  <2>1. c \in PmFrames /\ r \in Seq(PmFrames) /\ Len(r) = n
    BY ONLY <1>7, <1>9
  <2>2. QED
    BY ONLY <1>1, <1>10, <2>1
<1>12. /\ t[n] = g /\ \A i \in 1 .. n - 1 : t[i] = s[i]
       /\ \A i \in 1 .. n + 1 : i \in 1 .. n - 1 \/ i = n \/ i = n + 1
  <2>1. n \in Nat \ {0}
    BY ONLY <1>1
  <2>2. n \in 1 .. n /\ \A i \in 1 .. n - 1 : i \in 1 .. n /\ i # n
    BY ONLY <2>1
  <2>3. \A i \in 1 .. n + 1 : i \in 1 .. n - 1 \/ i = n \/ i = n + 1
    BY ONLY <2>1
  <2>4. \A i \in 1 .. n : t[i] = r[i]
    BY ONLY <1>11
  <2>5. r[n] = g /\ \A i \in 1 .. n : i # n => r[i] = s[i]
    BY ONLY <1>7
  <2>6. QED
    BY ONLY <2>2, <2>3, <2>4, <2>5
<1>13. InRange(t)
  <2>1. \A i \in 1 .. n - 1 : t[i].next \in 1 .. Len(Parents[t[i].domain]) + 1
    <3>1. \A i \in 1 .. n : s[i].next \in 1 .. Len(Parents[s[i].domain]) + 1
      BY DEF CallsOK, InRange, n
    <3>2. \A i \in 1 .. n - 1 : i \in 1 .. n
      BY ONLY <1>1
    <3>3. QED
      BY ONLY <1>12, <3>1, <3>2
  <2>2. t[n].next \in 1 .. Len(Parents[t[n].domain]) + 1
    <3>1. f.next + 1 \in 1 .. Len(Parents[f.domain]) + 1
      BY ONLY <1>2, <1>3
    <3>2. t[n].next = f.next + 1 /\ t[n].domain = f.domain
      BY ONLY <1>5, <1>12
    <3>3. QED
      BY ONLY <3>1, <3>2
  <2>3. t[n + 1].next \in 1 .. Len(Parents[t[n + 1].domain]) + 1
    <3>1. Len(Parents[p]) \in Nat
      BY <1>3, PmParents
    <3>2. QED
      BY ONLY <1>9, <1>11, <3>1
  <2>4. QED
    BY ONLY <1>11, <1>12, <2>1, <2>2, <2>3 DEF InRange
<1>14. OnPath(t)
  <2>1. \A i \in 1 .. n - 1 : s[i].next > 1 /\ s[i + 1].domain = Parents[s[i].domain][s[i].next - 1]
    BY DEF CallsOK, OnPath, n
  <2>2. \A i \in 1 .. n - 1 : t[i].next > 1 /\ t[i + 1].domain = Parents[t[i].domain][t[i].next - 1]
    <3>1. ASSUME NEW i \in 1 .. n - 1 PROVE t[i + 1].domain = s[i + 1].domain
      <4>1. i + 1 = n \/ i + 1 \in 1 .. n - 1
        BY <1>1
      <4>2. QED
        BY ONLY <1>0, <1>5, <1>12, <4>1
    <3>2. QED
      BY ONLY <1>12, <2>1, <3>1
  <2>3. t[n].next > 1 /\ t[n + 1].domain = Parents[t[n].domain][t[n].next - 1]
    <3>1. t[n].next = f.next + 1 /\ t[n].domain = f.domain /\ t[n + 1].domain = Parents[f.domain][f.next]
      BY ONLY <1>0, <1>5, <1>9, <1>11, <1>12
    <3>2. f.next \in Nat /\ f.next >= 1
      BY ONLY <1>2, <1>3
    <3>3. t[n].next > 1 /\ t[n].next - 1 = f.next
      BY ONLY <3>1, <3>2
    <3>4. QED
      BY ONLY <3>1, <3>3
  <2>4. \A i \in 1 .. Len(t) - 1 : i \in 1 .. n - 1 \/ i = n
    BY ONLY <1>1, <1>11
  <2>5. QED
    BY ONLY <2>2, <2>3, <2>4 DEF OnPath
<1>15. Brought(t, on)
  <2>1. \A i \in 1 .. n : \A k \in 1 .. s[i].next - 1 : Parents[s[i].domain][k] \in on \/ (i < n /\ k = s[i].next - 1)
    BY DEF CallsOK, Brought, n
  <2>2. ASSUME NEW i \in 1 .. n - 1, NEW k \in 1 .. t[i].next - 1
        PROVE  Parents[t[i].domain][k] \in on \/ (i < n + 1 /\ k = t[i].next - 1)
    <3>1. i \in 1 .. n /\ t[i] = s[i] /\ i < n + 1
      BY ONLY <1>1, <1>12, <2>2
    <3>2. QED
      BY ONLY <2>1, <2>2, <3>1
  <2>3. ASSUME NEW k \in 1 .. t[n].next - 1
        PROVE  Parents[t[n].domain][k] \in on \/ (n < n + 1 /\ k = t[n].next - 1)
    <3>1. t[n].next = f.next + 1 /\ t[n].domain = f.domain /\ k \in 1 .. f.next
      BY ONLY <1>2, <1>5, <1>12, <2>3
    <3>2. n \in 1 .. n /\ n < n + 1 /\ ~(n < n)
      BY ONLY <1>1
    <3>3. CASE k = f.next
      BY ONLY <1>2, <3>1, <3>2, <3>3
    <3>4. CASE k # f.next
      <4>1. k \in 1 .. f.next - 1
        BY ONLY <1>2, <3>1, <3>4
      <4>2. f = s[n]
        BY DEF f
      <4>3. Parents[f.domain][k] \in on \/ (n < n /\ k = f.next - 1)
        BY ONLY <2>1, <3>2, <4>1, <4>2
      <4>4. QED
        BY ONLY <3>1, <3>2, <4>3
    <3>5. QED
      BY ONLY <3>3, <3>4
  <2>4. 1 .. t[n + 1].next - 1 = {}
    BY <1>9, <1>11
  <2>5. Len(t) = n + 1 /\ \A i \in 1 .. n + 1 : i \in 1 .. n - 1 \/ i = n \/ i = n + 1
    BY ONLY SMTT(20), <1>11, <1>12
  <2>6. \A i \in 1 .. n - 1 : \A k \in 1 .. t[i].next - 1 : Parents[t[i].domain][k] \in on \/ (i < n + 1 /\ k = t[i].next - 1)
    BY <2>2
  <2>7. \A k \in 1 .. t[n].next - 1 : Parents[t[n].domain][k] \in on \/ (n < n + 1 /\ k = t[n].next - 1)
    BY <2>3
  <2>8. QED
    BY ONLY <2>4, <2>5, <2>6, <2>7 DEF Brought
<1>16. QED
  BY <1>1, <1>11, <1>13, <1>14, <1>15 DEF CallsOK

(* A call that returns leaves its caller with one more parent that has power.  *)
LEMMA CallsPop ==
  ASSUME PmAssumption, NEW u \in PmUsers, NEW on, NEW s \in Seq(PmFrames), NEW at, CallsOK(at, s, u, on), at # "idle", Len(s) # 1,
         Last(s).domain \in on, NEW t, t = Front(s)
  PROVE  CallsOK("enable", t, u, on) /\ t \in Seq(PmFrames)
<1> DEFINE n == Len(s)
<1>1. n \in Nat /\ n > 1 /\ Last(s) = s[n] /\ \A i \in 1 .. n : s[i] \in PmFrames
  <2>1. n \in Nat /\ \A i \in 1 .. n : s[i] \in PmFrames
    OBVIOUS
  <2>2. n # 0 /\ n # 1
    BY DEF CallsOK
  <2>3. Last(s) = s[n]
    BY DEF Last
  <2> HIDE DEF n
  <2>4. QED
    BY ONLY <2>1, <2>2, <2>3
<1>2. t \in Seq(PmFrames) /\ Len(t) = n - 1 /\ \A i \in 1 .. n - 1 : t[i] = s[i]
  <2>1. t = SubSeq(s, 1, n - 1)
    BY DEF Front
  <2>2. 1 \in Int /\ n - 1 \in Int /\ \A i \in 1 .. n - 1 : s[i] \in PmFrames
    BY <1>1
  <2>3. /\ SubSeq(s, 1, n - 1) \in Seq(PmFrames) /\ Len(SubSeq(s, 1, n - 1)) = IF 1 <= n - 1 THEN n - 1 - 1 + 1 ELSE 0
        /\ \A i \in 1 .. n - 1 - 1 + 1 : SubSeq(s, 1, n - 1)[i] = s[1 + i - 1]
    BY ONLY <2>2, SubSeqProperties
  <2> HIDE DEF n
  <2>4. n - 1 - 1 + 1 = n - 1 /\ 1 <= n - 1 /\ \A i \in 1 .. n - 1 : 1 + i - 1 = i
    BY ONLY <1>1
  <2>5. QED
    BY ONLY <2>1, <2>3, <2>4
<1> HIDE DEF n
<1>3. InRange(t)
  <2>1. Len(t) = n - 1 /\ \A i \in 1 .. Len(t) : i \in 1 .. n /\ t[i] = s[i]
    BY ONLY <1>1, <1>2
  <2>2. \A i \in 1 .. n : s[i].next \in 1 .. Len(Parents[s[i].domain]) + 1
    BY DEF CallsOK, InRange, n
  <2>3. QED
    BY ONLY <2>1, <2>2 DEF InRange
<1>4. OnPath(t)
  <2>1. \A i \in 1 .. Len(t) - 1 : i \in 1 .. n - 1 /\ t[i] = s[i] /\ t[i + 1] = s[i + 1]
    BY ONLY <1>1, <1>2
  <2>2. \A i \in 1 .. n - 1 : s[i].next > 1 /\ s[i + 1].domain = Parents[s[i].domain][s[i].next - 1]
    BY DEF CallsOK, OnPath, n
  <2>3. QED
    BY ONLY <2>1, <2>2 DEF OnPath
<1>5. Brought(t, on)
  <2>1. ASSUME NEW i \in 1 .. Len(t), NEW k \in 1 .. t[i].next - 1
        PROVE  Parents[t[i].domain][k] \in on \/ (i < Len(t) /\ k = t[i].next - 1)
    <3>1. i \in 1 .. n - 1 /\ i \in 1 .. n /\ t[i] = s[i] /\ (i = n - 1 \/ i < n - 1)
      BY ONLY <1>1, <1>2, <2>1
    <3>2. Parents[s[i].domain][k] \in on \/ k = s[i].next - 1
      BY <2>1, <3>1 DEF CallsOK, Brought, n
    <3>3. CASE i = n - 1
      <4>1. s[n].domain = Parents[s[i].domain][s[i].next - 1]
        <5>1. s[i + 1].domain = Parents[s[i].domain][s[i].next - 1]
          BY <3>1 DEF CallsOK, OnPath, n
        <5>2. i + 1 = n
          BY ONLY <1>1, <3>3
        <5>3. QED
          BY ONLY <5>1, <5>2
      <4>2. s[n].domain \in on
        BY <1>1
      <4>3. QED
        BY ONLY <3>1, <3>2, <4>1, <4>2
    <3>4. CASE i < n - 1
      BY ONLY <1>2, <3>1, <3>2, <3>4
    <3>5. QED
      BY ONLY <3>1, <3>3, <3>4
  <2>2. QED
    BY <2>1 DEF Brought
<1>6. QED
  BY <1>1, <1>2, <1>3, <1>4, <1>5 DEF CallsOK

LEMMA CallsEnd ==
  ASSUME NEW u \in PmUsers, NEW on
  PROVE  CallsOK("idle", <<>>, u, on) /\ <<>> \in Seq(PmFrames)
BY DEF CallsOK, InRange, OnPath, Brought

LEMMA CallsRest ==
  ASSUME PmAssumption, NEW u \in PmUsers, NEW on, NEW s \in Seq(PmFrames), NEW at, CallsOK(at, s, u, on),
         NEW lit, \A d \in Domains : NeverOff(d) /\ d \in on => d \in lit
  PROVE  CallsOK(at, s, u, lit)
<1>1. \A i \in 1 .. Len(s) : s[i].domain \in Domains /\ s[i].next \in Nat
  <2>1. \A i \in 1 .. Len(s) : s[i] \in PmFrames
    OBVIOUS
  <2>2. QED
    BY ONLY <2>1 DEF PmFrames
<1>2. \A i \in 1 .. Len(s) : \A k \in 1 .. Len(Parents[s[i].domain]) :
        Parents[s[i].domain][k] \in Domains /\ NeverOff(Parents[s[i].domain][k])
  BY <1>1, PmParents
<1>3. InRange(s) /\ Brought(s, on)
  BY DEF CallsOK
<1>4. \A i \in 1 .. Len(s) : \A k \in 1 .. s[i].next - 1 : k \in 1 .. Len(Parents[s[i].domain])
  <2>1. \A i \in 1 .. Len(s) : Len(Parents[s[i].domain]) \in Nat
    BY <1>1, PmParents
  <2>2. QED
    BY ONLY <1>1, <1>3, <2>1 DEF InRange
<1>5. Brought(s, lit)
  <2>1. ASSUME NEW i \in 1 .. Len(s), NEW k \in 1 .. s[i].next - 1
        PROVE  Parents[s[i].domain][k] \in lit \/ (i < Len(s) /\ k = s[i].next - 1)
    <3>1. Parents[s[i].domain][k] \in Domains /\ NeverOff(Parents[s[i].domain][k])
      BY ONLY <1>2, <1>4, <2>1
    <3>2. Parents[s[i].domain][k] \in on \/ (i < Len(s) /\ k = s[i].next - 1)
      BY ONLY <1>3, <2>1 DEF Brought
    <3>3. QED
      BY <3>1, <3>2
  <2>2. QED
    BY ONLY <2>1 DEF Brought
<1>6. QED
  BY <1>5 DEF CallsOK

(* A user that moves: its calls are in order, and the others' stay so.         *)
LEMMA UserMoves ==
  ASSUME PmAssumption, PmInv, NEW u \in PmUsers, NEW at \in PmPoints, NEW s \in Seq(PmFrames),
         upc' = [upc EXCEPT ![u] = at], todo' = [todo EXCEPT ![u] = s], CallsOK(at, s, u, Lit), UNCHANGED actual
  PROVE  /\ upc' \in [PmUsers -> PmPoints] /\ todo' \in [PmUsers -> Seq(PmFrames)]
         /\ upc'[u] = at /\ todo'[u] = s
         /\ \A v \in PmUsers \ {u} : upc'[v] = upc[v] /\ todo'[v] = todo[v]
         /\ Lit' = Lit /\ \A v \in PmUsers : CallsOK(upc'[v], todo'[v], v, Lit')
<1>1. upc \in [PmUsers -> PmPoints] /\ todo \in [PmUsers -> Seq(PmFrames)]
  BY DEF PmInv, PmTypes
<1>2. upc' \in [PmUsers -> PmPoints] /\ upc'[u] = at /\ \A v \in PmUsers \ {u} : upc'[v] = upc[v]
  BY ONLY <1>1, upc' = [upc EXCEPT ![u] = at], at \in PmPoints, u \in PmUsers
<1>3. todo' \in [PmUsers -> Seq(PmFrames)] /\ todo'[u] = s /\ \A v \in PmUsers \ {u} : todo'[v] = todo[v]
  BY ONLY <1>1, todo' = [todo EXCEPT ![u] = s], s \in Seq(PmFrames), u \in PmUsers
<1>4. Lit' = Lit
  BY DEF Lit, Powered
<1>5. \A v \in PmUsers : CallsOK(upc[v], todo[v], v, Lit)
  BY DEF PmInv
<1>6. QED
  BY <1>2, <1>3, <1>4, <1>5

(* Where a user is, and the domain it is at.                                   *)
LEMMA PmAt ==
  ASSUME PmAssumption, PmInv, NEW u \in PmUsers
  PROVE  /\ upc[u] \in PmPoints /\ todo[u] \in Seq(PmFrames) /\ CallsOK(upc[u], todo[u], u, Lit) /\ Holds(u)
         /\ Leaves[u] \in Domains /\ ~NeverOff(Leaves[u])
         /\ upc[u] # "idle" => /\ Len(todo[u]) \in Nat \ {0} /\ Last(todo[u]) = todo[u][Len(todo[u])]
                              /\ Last(todo[u]) \in PmFrames /\ Current(u) \in Domains
         /\ upc[u] \in {"disable", "pollOff", "assert", "pause", "release"} => Len(todo[u]) = 1 /\ Current(u) = Leaves[u]
<1>1. upc[u] \in PmPoints /\ todo[u] \in Seq(PmFrames) /\ CallsOK(upc[u], todo[u], u, Lit) /\ Holds(u)
  BY DEF PmInv, PmTypes
<1>2. Leaves[u] \in Domains /\ ~NeverOff(Leaves[u])
  BY DEF PmAssumption, NeverOff
<1>3. ASSUME upc[u] # "idle"
      PROVE  /\ Len(todo[u]) \in Nat \ {0} /\ Last(todo[u]) = todo[u][Len(todo[u])]
             /\ Last(todo[u]) \in PmFrames /\ Current(u) \in Domains
  <2>1. Len(todo[u]) # 0
    BY <1>1, <1>3 DEF CallsOK
  <2>2. Len(todo[u]) \in Nat \ {0} /\ todo[u][Len(todo[u])] \in PmFrames
    BY ONLY <1>1, <2>1
  <2>3. Last(todo[u]) = todo[u][Len(todo[u])]
    BY DEF Last
  <2>4. QED
    BY <2>2, <2>3 DEF Current, PmFrames
<1>4. ASSUME upc[u] \in {"disable", "pollOff", "assert", "pause", "release"}
      PROVE  Len(todo[u]) = 1 /\ Current(u) = Leaves[u]
  BY <1>1, <1>4 DEF CallsOK, Current, Last
<1>5. QED
  BY <1>1, <1>2, <1>3, <1>4

(* A user that moves outside the register sequences.                           *)
LockFree == {"idle", "enable", "disable", "pause"}
LEMMA QuietMove ==
  ASSUME PmAssumption, PmInv, NEW u \in PmUsers, upc[u] \in LockFree, NEW at \in LockFree, NEW s \in Seq(PmFrames),
         upc' = [upc EXCEPT ![u] = at], todo' = [todo EXCEPT ![u] = s], CallsOK(at, s, u, Lit),
         UNCHANGED <<target, actual, quiet, inReset, regLock, slow>>
  PROVE  PmInv'
<1>1. at \in PmPoints /\ UNCHANGED actual
  BY DEF LockFree, PmPoints
<1>2. /\ upc' \in [PmUsers -> PmPoints] /\ todo' \in [PmUsers -> Seq(PmFrames)]
      /\ upc'[u] = at /\ todo'[u] = s
      /\ \A v \in PmUsers \ {u} : upc'[v] = upc[v] /\ todo'[v] = todo[v]
      /\ Lit' = Lit /\ \A v \in PmUsers : CallsOK(upc'[v], todo'[v], v, Lit')
  BY <1>1, UserMoves
<1>3. PmTypes' /\ KeptOn' /\ ParentsFirst' /\ QuietInReset'
  BY <1>2 DEF PmInv, PmTypes, KeptOn, ParentsFirst, QuietInReset, ParentsPowered, Powered
<1>4. \A v \in PmUsers : Holds(v)'
  <2>1. Holds(u)'
    BY <1>2 DEF PmInv, Holds, Polls, LockFree
  <2>2. \A v \in PmUsers \ {u} : Holds(v)'
    BY <1>2 DEF PmInv, Holds, Polls, Current
  <2>3. QED
    BY <2>1, <2>2
<1>5. Settled'
  <2>1. ~Polls(u)
    BY DEF Polls, LockFree
  <2>2. \A v \in PmUsers : \A d \in Domains : Polls(v) /\ Current(v) = d => Polls(v)' /\ Current(v)' = d
    BY <1>2, <2>1 DEF Polls, Current
  <2>3. QED
    BY <2>2 DEF PmInv, Settled
<1>6. QED
  BY <1>2, <1>3, <1>4, <1>5 DEF PmInv

(* Where a user goes when a call of its returns.                               *)
LEMMA CallReturns ==
  ASSUME PmAssumption, PmInv, NEW u \in PmUsers, upc[u] # "idle", CallDone(u),
         Len(todo[u]) = 1 \/ Powered(Current(u))
  PROVE  \E at \in {"idle", "enable"} : \E s \in Seq(PmFrames) :
           upc' = [upc EXCEPT ![u] = at] /\ todo' = [todo EXCEPT ![u] = s] /\ CallsOK(at, s, u, Lit)
<1>1. CASE Len(todo[u]) = 1
  <2>1. upc' = [upc EXCEPT ![u] = "idle"] /\ todo' = [todo EXCEPT ![u] = <<>>]
    BY <1>1 DEF CallDone, DomainDone
  <2>2. CallsOK("idle", <<>>, u, Lit) /\ <<>> \in Seq(PmFrames)
    BY CallsEnd
  <2>3. QED
    BY ONLY <2>1, <2>2
<1>2. CASE Len(todo[u]) # 1
  <2>1. PICK s : s = Front(todo[u])
    OBVIOUS
  <2>2. upc' = [upc EXCEPT ![u] = "enable"] /\ todo' = [todo EXCEPT ![u] = s]
    <3>1. todo \in [PmUsers -> Seq(PmFrames)]
      BY DEF PmInv, PmTypes
    <3>2. QED
      BY <1>2, <2>1, <3>1 DEF CallDone
  <2>3. /\ todo[u] \in Seq(PmFrames) /\ CallsOK(upc[u], todo[u], u, Lit)
        /\ Last(todo[u]).domain \in Lit
    BY <1>2, PmAt DEF Current, Lit
  <2>4. CallsOK("enable", s, u, Lit) /\ s \in Seq(PmFrames)
    BY <1>2, <2>1, <2>3, CallsPop
  <2>5. QED
    BY ONLY <2>2, <2>4
<1>3. QED
  BY <1>1, <1>2

LEMMA BeginOK ==
  ASSUME PmAssumption, PmInv, NEW u \in PmUsers
  PROVE  /\ \A d \in Domains : EnableDomain(u, d) => PmInv'
         /\ DisableDomain(u) => PmInv'
<1>1. ASSUME NEW d \in Domains, EnableDomain(u, d)
      PROVE  PmInv'
  <2>1. PICK s : s = <<Call(d)>>
    OBVIOUS
  <2>2. /\ upc[u] = "idle" /\ upc' = [upc EXCEPT ![u] = "enable"] /\ todo' = [todo EXCEPT ![u] = s]
        /\ UNCHANGED <<target, actual, quiet, inReset, regLock, slow>>
    BY <1>1, <2>1 DEF EnableDomain, Begins
  <2>3. CallsOK("enable", s, u, Lit) /\ s \in Seq(PmFrames)
    <3>1. PICK at : at = "enable"
      OBVIOUS
    <3>2. at # "idle" /\ at \notin {"disable", "pollOff", "assert", "pause", "release"} /\ d \in Domains
      BY ONLY <1>1, <3>1
    <3>3. CallsOK(at, s, u, Lit) /\ s \in Seq(PmFrames)
      <4>1. at \in {"disable", "pollOff", "assert", "pause", "release"} => d = Leaves[u]
        BY ONLY <3>2
      <4>2. QED
        BY <2>1, <3>2, <4>1, CallsBegin
    <3>4. QED
      BY ONLY <3>1, <3>3
  <2>4. "idle" \in LockFree /\ "enable" \in LockFree
    BY DEF LockFree
  <2>5. QED
    BY <2>2, <2>3, <2>4, QuietMove
<1>2. ASSUME DisableDomain(u)
      PROVE  PmInv'
  <2>1. PICK s : s = <<Call(Leaves[u])>>
    OBVIOUS
  <2>2. /\ upc[u] = "idle" /\ upc' = [upc EXCEPT ![u] = "disable"] /\ todo' = [todo EXCEPT ![u] = s]
        /\ UNCHANGED <<target, actual, quiet, inReset, regLock, slow>>
    BY <1>2, <2>1 DEF DisableDomain, Begins
  <2>3. CallsOK("disable", s, u, Lit) /\ s \in Seq(PmFrames)
    <3>1. PICK at : at = "disable"
      OBVIOUS
    <3>2. at # "idle" /\ Leaves[u] \in Domains
      BY <3>1, PmAt
    <3>3. CallsOK(at, s, u, Lit) /\ s \in Seq(PmFrames)
      BY <2>1, <3>2, CallsBegin
    <3>4. QED
      BY ONLY <3>1, <3>3
  <2>4. "idle" \in LockFree /\ "disable" \in LockFree
    BY DEF LockFree
  <2>5. QED
    BY <2>2, <2>3, <2>4, QuietMove
<1>3. QED
  BY <1>1, <1>2

LEMMA EnableParentOK ==
  ASSUME PmAssumption, PmInv, NEW u \in PmUsers, EnableParent(u)
  PROVE  PmInv'
<1>1. todo \in [PmUsers -> Seq(PmFrames)] /\ upc \in [PmUsers -> PmPoints]
  BY DEF PmInv, PmTypes
<1>2. PICK s : s = [todo[u] EXCEPT ![Len(todo[u])].next = Last(todo[u]).next + 1]
  OBVIOUS
<1>3. PICK t : t = Append(s, Call(Parents[Last(todo[u]).domain][Last(todo[u]).next]))
  OBVIOUS
<1>4. upc[u] = "enable" /\ ~ParentsDone(Last(todo[u])) /\ todo' = [todo EXCEPT ![u] = t]
  BY <1>1, <1>2, <1>3 DEF EnableParent
<1>5. UNCHANGED <<target, actual, quiet, inReset, regLock, upc, slow>>
  BY DEF EnableParent
<1>6. todo[u] \in Seq(PmFrames) /\ CallsOK("enable", todo[u], u, Lit)
  BY <1>4, PmAt
<1>7. CallsOK("enable", t, u, Lit) /\ t \in Seq(PmFrames)
  BY <1>2, <1>3, <1>4, <1>6, CallsPush
<1>8. upc' = [upc EXCEPT ![u] = "enable"] /\ "enable" \in LockFree /\ upc[u] \in LockFree
  BY <1>1, <1>4, <1>5 DEF LockFree
<1>9. QED
  BY <1>4, <1>5, <1>7, <1>8, QuietMove

LEMMA AlreadyThereOK ==
  ASSUME PmAssumption, PmInv, NEW u \in PmUsers, AlreadyThere(u)
  PROVE  PmInv'
<1>1. /\ upc[u] \in {"enable", "disable"} /\ CallDone(u)
      /\ UNCHANGED <<target, actual, quiet, inReset, regLock, slow>>
  BY DEF AlreadyThere, OwnTurn
<1>2. Len(todo[u]) = 1 \/ Powered(Current(u))
  <2>1. CASE upc[u] = "disable"
    BY <2>1, PmAt
  <2>2. CASE upc[u] = "enable"
    BY <2>2 DEF AlreadyThere, Powered
  <2>3. QED
    BY <1>1, <2>1, <2>2
<1>3. PICK at \in {"idle", "enable"}, s \in Seq(PmFrames) :
        upc' = [upc EXCEPT ![u] = at] /\ todo' = [todo EXCEPT ![u] = s] /\ CallsOK(at, s, u, Lit)
  BY <1>1, <1>2, CallReturns
<1>4. at \in LockFree /\ upc[u] \in LockFree
  BY <1>1 DEF LockFree
<1>5. QED
  BY <1>1, <1>3, <1>4, QuietMove

(* The parents of a domain whose turn it is have power.                        *)
LEMMA ParentsHavePower ==
  ASSUME PmAssumption, PmInv, NEW u \in PmUsers, upc[u] = "enable", ParentsDone(Last(todo[u]))
  PROVE  ParentsPowered(Current(u))
<1> DEFINE n == Len(todo[u])
           f == todo[u][n]
<1>1. /\ n \in Nat \ {0} /\ Last(todo[u]) = f /\ f \in PmFrames
      /\ CallsOK(upc[u], todo[u], u, Lit) /\ Current(u) = f.domain
  BY PmAt DEF Current
<1>2. f.next \in Nat /\ f.domain \in Domains
  BY ONLY <1>1 DEF PmFrames
<1>3. Len(Parents[f.domain]) \in Nat /\ DOMAIN Parents[f.domain] = 1 .. Len(Parents[f.domain])
  BY <1>2, PmParents
<1>4. f.next > Len(Parents[f.domain])
  BY <1>1 DEF ParentsDone
<1>5. \A k \in 1 .. f.next - 1 : Parents[f.domain][k] \in Lit \/ (n < n /\ k = f.next - 1)
  <2>1. n \in 1 .. n
    BY ONLY <1>1
  <2>2. QED
    BY <1>1, <2>1 DEF CallsOK, Brought
<1> HIDE DEF n, f
<1>6. \A k \in 1 .. Len(Parents[f.domain]) : Parents[f.domain][k] \in Lit
  <2>1. ~(n < n) /\ \A k \in 1 .. Len(Parents[f.domain]) : k \in 1 .. f.next - 1
    BY ONLY <1>1, <1>2, <1>3, <1>4
  <2>2. QED
    BY ONLY <1>5, <2>1
<1>7. QED
  BY <1>1, <1>3, <1>6 DEF ParentsPowered, Lit

LEMMA WriteTargetOK ==
  ASSUME PmAssumption, PmInv, NEW u \in PmUsers, WriteTarget(u)
  PROVE  PmInv'
<1> DEFINE d == Current(u)
           st == IF upc[u] = "enable" THEN "on" ELSE "off"
           at == IF upc[u] = "enable" THEN "pollOn" ELSE "pollOff"
<1>1. /\ OwnTurn(u) /\ regLock = {} /\ target' = [target EXCEPT ![d] = st] /\ slow' = slow \ {d} /\ regLock' = {u}
      /\ UNCHANGED <<actual, quiet, inReset, todo>>
  BY DEF WriteTarget
<1>2. upc \in [PmUsers -> PmPoints] /\ todo \in [PmUsers -> Seq(PmFrames)] /\ upc[u] \in {"enable", "disable"}
  BY <1>1 DEF PmInv, PmTypes, OwnTurn
<1>3. upc' = [upc EXCEPT ![u] = at]
  BY <1>2 DEF WriteTarget
<1>4. todo' = [todo EXCEPT ![u] = todo[u]]
  BY <1>1, <1>2
<1>5. d \in Domains /\ (upc[u] = "disable" => d = Leaves[u] /\ ~NeverOff(d)) /\ todo[u] \in Seq(PmFrames)
  BY <1>2, PmAt
<1>6. CallsOK(at, todo[u], u, Lit)
  <2>1. CallsOK(upc[u], todo[u], u, Lit)
    BY PmAt
  <2>2. QED
    BY <1>2, <2>1 DEF CallsOK
<1>7. at \in PmPoints /\ UNCHANGED actual
  BY <1>1 DEF PmPoints
<1> HIDE DEF at
<1>8. /\ upc' \in [PmUsers -> PmPoints] /\ todo' \in [PmUsers -> Seq(PmFrames)] /\ upc'[u] = at /\ todo'[u] = todo[u]
      /\ \A v \in PmUsers \ {u} : upc'[v] = upc[v] /\ todo'[v] = todo[v]
      /\ Lit' = Lit /\ \A v \in PmUsers : CallsOK(upc'[v], todo'[v], v, Lit')
  BY <1>3, <1>4, <1>5, <1>6, <1>7, UserMoves
<1>9. Current(u)' = d /\ \A v \in PmUsers \ {u} : Current(v)' = Current(v)
  BY <1>8 DEF Current
<1> HIDE DEF d
<1>10. /\ target' \in [Domains -> {"on", "off"}] /\ target'[d] = st
       /\ \A e \in Domains \ {d} : target'[e] = target[e]
  BY <1>1, <1>5 DEF PmInv, PmTypes
<1>11. PmTypes'
  BY <1>1, <1>8, <1>10 DEF PmInv, PmTypes
<1>12. \A v \in PmUsers \ {u} : ~Polls(v) /\ upc[v] \notin {"assert", "release"}
  BY <1>1 DEF PmInv, Holds
<1>13. \A v \in PmUsers : Holds(v)'
  <2>1. Holds(u)'
    BY <1>1, <1>2, <1>8, <1>9, <1>10 DEF at, Holds, Polls
  <2>2. ASSUME NEW v \in PmUsers \ {u}
        PROVE  Holds(v)'
    BY <1>1, <1>8, <1>12 DEF Holds, Polls
  <2>3. QED
    BY <2>1, <2>2
<1>14. KeptOn'
  <2>1. \A e \in Domains : NeverOff(e) /\ actual[e] = "on" => target'[e] = "on"
    BY <1>2, <1>5, <1>10 DEF PmInv, KeptOn
  <2>2. QED
    BY <1>1, <2>1 DEF KeptOn
<1>15. Settled'
  <2>1. \A e \in Domains \ slow : actual[e] = target[e]
    BY <1>1 DEF PmInv, Settled, Holds
  <2>2. Polls(u)'
    BY <1>8 DEF Polls, at
  <2>3. QED
    BY <1>1, <1>9, <1>10, <2>1, <2>2 DEF Settled
<1>16. ParentsFirst'
  <2>1. upc[u] = "enable" => ParentsPowered(d)
    BY <1>1, ParentsHavePower DEF OwnTurn, d
  <2>2. \A e \in Domains : target'[e] = "on" => ParentsPowered(e)
    BY <1>2, <1>5, <1>10, <2>1 DEF PmInv, ParentsFirst
  <2>3. \A e : ParentsPowered(e) => ParentsPowered(e)'
    BY <1>1 DEF ParentsPowered, Powered
  <2>4. QED
    BY <2>2, <2>3 DEF ParentsFirst
<1>17. QuietInReset'
  BY <1>1 DEF PmInv, QuietInReset
<1>18. QED
  BY <1>8, <1>11, <1>13, <1>14, <1>15, <1>16, <1>17 DEF PmInv

(* A user that leaves the register lock, and one that takes it.                *)
LEMMA LockLeft ==
  ASSUME PmInv, NEW u \in PmUsers, regLock = {u}, regLock' = {}, upc'[u] \in LockFree,
         \A v \in PmUsers \ {u} : upc'[v] = upc[v] /\ todo'[v] = todo[v]
  PROVE  \A v \in PmUsers : Holds(v)'
<1>1. \A v \in PmUsers \ {u} : ~Polls(v) /\ upc[v] \notin {"assert", "release"}
  BY DEF PmInv, Holds
<1>2. Holds(u)'
  BY DEF Holds, Polls, LockFree
<1>3. \A v \in PmUsers \ {u} : Holds(v)'
  BY <1>1 DEF Holds, Polls
<1>4. QED
  BY <1>2, <1>3

LEMMA LockTaken ==
  ASSUME PmInv, NEW u \in PmUsers, regLock = {}, regLock' = {u}, Holds(u)',
         \A v \in PmUsers \ {u} : upc'[v] = upc[v] /\ todo'[v] = todo[v]
  PROVE  \A v \in PmUsers : Holds(v)'
<1>1. \A v \in PmUsers \ {u} : ~Polls(v) /\ upc[v] \notin {"assert", "release"}
  BY DEF PmInv, Holds
<1>2. \A v \in PmUsers \ {u} : Holds(v)'
  BY <1>1 DEF Holds, Polls
<1>3. QED
  BY <1>2

(* With the lock free or held by one that does not poll, every domain but a    *)
(* late one is settled.                                                        *)
LEMMA NobodyPolls ==
  ASSUME PmInv, \A u \in PmUsers : regLock = {u} => ~Polls(u)
  PROVE  \A d \in Domains \ slow : actual[d] = target[d]
BY DEF PmInv, Settled, Holds

LEMMA OnePolls ==
  ASSUME PmInv, NEW u, regLock = {u}
  PROVE  \A v \in PmUsers : Polls(v) => v = u
<1>1. ASSUME NEW v \in PmUsers, Polls(v)
      PROVE  regLock = {v}
  BY <1>1 DEF PmInv, Holds
<1>2. QED
  BY <1>1

LEMMA StateReachedOK ==
  ASSUME PmAssumption, PmInv, NEW u \in PmUsers, StateReached(u)
  PROVE  PmInv'
<1>1. /\ Polls(u) /\ regLock' = {} /\ CallDone(u) /\ actual[Current(u)] = target[Current(u)]
      /\ UNCHANGED <<target, actual, quiet, inReset, slow>>
  BY DEF StateReached, Polls, PmInv, Holds
<1>2. regLock = {u} /\ upc[u] # "idle"
  BY <1>1 DEF PmInv, Holds, Polls
<1>3. Len(todo[u]) = 1 \/ Powered(Current(u))
  <2>1. CASE upc[u] = "pollOff"
    BY <2>1, PmAt
  <2>2. CASE upc[u] = "pollOn"
    BY <2>2 DEF StateReached, Powered
  <2>3. QED
    BY <1>1, <2>1, <2>2 DEF Polls
<1>4. PICK at \in {"idle", "enable"}, s \in Seq(PmFrames) :
        upc' = [upc EXCEPT ![u] = at] /\ todo' = [todo EXCEPT ![u] = s] /\ CallsOK(at, s, u, Lit)
  BY <1>1, <1>2, <1>3, CallReturns
<1>5. at \in PmPoints /\ UNCHANGED actual
  BY <1>1, <1>4 DEF PmPoints
<1>6. /\ upc' \in [PmUsers -> PmPoints] /\ todo' \in [PmUsers -> Seq(PmFrames)] /\ upc'[u] = at /\ todo'[u] = s
      /\ \A v \in PmUsers \ {u} : upc'[v] = upc[v] /\ todo'[v] = todo[v]
      /\ Lit' = Lit /\ \A v \in PmUsers : CallsOK(upc'[v], todo'[v], v, Lit')
  BY <1>4, <1>5, UserMoves
<1>7. PmTypes' /\ KeptOn' /\ ParentsFirst' /\ QuietInReset'
  BY <1>1, <1>6 DEF PmInv, PmTypes, KeptOn, ParentsFirst, QuietInReset, ParentsPowered, Powered
<1>8. \A v \in PmUsers : Holds(v)'
  BY <1>1, <1>2, <1>4, <1>6, LockLeft DEF LockFree
<1>9. Settled'
  <2>1. \A d \in Domains \ slow : actual[d] = target[d]
    <3>1. \A d \in Domains \ slow : actual[d] = target[d] \/ \E v \in PmUsers : Polls(v) /\ Current(v) = d
      BY DEF PmInv, Settled
    <3>2. \A v \in PmUsers : Polls(v) => v = u
      BY <1>2, OnePolls
    <3>3. QED
      BY <1>1, <3>1, <3>2
  <2>2. QED
    BY <1>1, <2>1 DEF Settled
<1>10. QED
  BY <1>6, <1>7, <1>8, <1>9 DEF PmInv

LEMMA PollRunsOutOK ==
  ASSUME PmAssumption, PmInv, NEW u \in PmUsers, PollRunsOut(u)
  PROVE  PmInv'
<1>1. /\ Polls(u) /\ regLock' = {} /\ slow' = slow \cup {Current(u)} /\ UNCHANGED <<target, actual, quiet, inReset>>
      /\ upc' = [upc EXCEPT ![u] = "idle"] /\ todo' = [todo EXCEPT ![u] = <<>>]
  BY DEF PollRunsOut, DomainDone, Polls
<1>2. regLock = {u} /\ upc[u] # "idle"
  BY <1>1 DEF PmInv, Holds, Polls
<1>3. CallsOK("idle", <<>>, u, Lit) /\ <<>> \in Seq(PmFrames) /\ "idle" \in PmPoints /\ "idle" \in LockFree
  BY CallsEnd DEF PmPoints, LockFree
<1>4. UNCHANGED actual /\ Current(u) \in Domains
  BY <1>1, <1>2, PmAt
<1>5. /\ upc' \in [PmUsers -> PmPoints] /\ todo' \in [PmUsers -> Seq(PmFrames)] /\ upc'[u] = "idle" /\ todo'[u] = <<>>
      /\ \A v \in PmUsers \ {u} : upc'[v] = upc[v] /\ todo'[v] = todo[v]
      /\ Lit' = Lit /\ \A v \in PmUsers : CallsOK(upc'[v], todo'[v], v, Lit')
  BY <1>1, <1>3, <1>4, UserMoves
<1>6. PmTypes' /\ KeptOn' /\ ParentsFirst' /\ QuietInReset'
  BY <1>1, <1>4, <1>5 DEF PmInv, PmTypes, KeptOn, ParentsFirst, QuietInReset, ParentsPowered, Powered
<1>7. \A v \in PmUsers : Holds(v)'
  BY <1>1, <1>2, <1>3, <1>5, LockLeft
<1>8. Settled'
  <2>1. \A d \in Domains \ slow : actual[d] = target[d] \/ \E v \in PmUsers : Polls(v) /\ Current(v) = d
    BY DEF PmInv, Settled
  <2>2. \A v \in PmUsers : Polls(v) => v = u
    BY <1>2, OnePolls
  <2>3. QED
    BY <1>1, <2>1, <2>2 DEF Settled
<1>9. QED
  BY <1>5, <1>6, <1>7, <1>8 DEF PmInv

LEMMA ResetDomainOK ==
  ASSUME PmAssumption, PmInv, NEW u \in PmUsers, ResetDomain(u)
  PROVE  PmInv'
<1>1. PICK s : s = <<Call(Leaves[u])>>
  OBVIOUS
<1>2. /\ upc[u] = "idle" /\ regLock = {} /\ quiet' = [quiet EXCEPT ![Leaves[u]] = TRUE] /\ regLock' = {u}
      /\ upc' = [upc EXCEPT ![u] = "assert"] /\ todo' = [todo EXCEPT ![u] = s]
      /\ UNCHANGED <<target, actual, inReset, slow>>
  BY <1>1 DEF ResetDomain, Begins
<1>3. CallsOK("assert", s, u, Lit) /\ s \in Seq(PmFrames)
  <2>1. PICK at : at = "assert"
    OBVIOUS
  <2>2. at # "idle" /\ Leaves[u] \in Domains
    BY <2>1, PmAt
  <2>3. CallsOK(at, s, u, Lit) /\ s \in Seq(PmFrames)
    BY <1>1, <2>2, CallsBegin
  <2>4. QED
    BY ONLY <2>1, <2>3
<1>4. "assert" \in PmPoints /\ UNCHANGED actual
  BY <1>2 DEF PmPoints
<1>5. /\ upc' \in [PmUsers -> PmPoints] /\ todo' \in [PmUsers -> Seq(PmFrames)] /\ upc'[u] = "assert" /\ todo'[u] = s
      /\ \A v \in PmUsers \ {u} : upc'[v] = upc[v] /\ todo'[v] = todo[v]
      /\ Lit' = Lit /\ \A v \in PmUsers : CallsOK(upc'[v], todo'[v], v, Lit')
  BY <1>2, <1>3, <1>4, UserMoves
<1>6. quiet' \in [Domains -> BOOLEAN] /\ quiet'[Leaves[u]] /\ \A d \in Domains : quiet[d] => quiet'[d]
  <2>1. quiet \in [Domains -> BOOLEAN] /\ Leaves[u] \in Domains
    BY PmAt DEF PmInv, PmTypes
  <2>2. QED
    BY ONLY <1>2, <2>1
<1>7. PmTypes' /\ KeptOn' /\ ParentsFirst' /\ QuietInReset'
  BY <1>2, <1>5, <1>6 DEF PmInv, PmTypes, KeptOn, ParentsFirst, QuietInReset, ParentsPowered, Powered
<1>8. \A v \in PmUsers : Holds(v)'
  <2>1. Holds(u)'
    BY <1>2, <1>5, <1>6 DEF Holds, Polls
  <2>2. QED
    BY <1>2, <1>5, <2>1, LockTaken
<1>9. Settled'
  BY <1>2, NobodyPolls DEF Settled
<1>10. QED
  BY <1>5, <1>7, <1>8, <1>9 DEF PmInv

LEMMA AssertResetOK ==
  ASSUME PmAssumption, PmInv, NEW u \in PmUsers, AssertReset(u)
  PROVE  PmInv'
<1>1. /\ upc[u] = "assert" /\ Current(u) = Leaves[u] /\ Leaves[u] \in Domains
      /\ inReset' = [inReset EXCEPT ![Leaves[u]] = TRUE] /\ regLock' = {} /\ upc' = [upc EXCEPT ![u] = "pause"]
      /\ UNCHANGED <<target, actual, quiet, todo, slow>>
  BY PmAt DEF AssertReset
<1>2. regLock = {u} /\ quiet[Leaves[u]] /\ ~Polls(u)
  BY <1>1 DEF PmInv, Holds, Polls
<1>3. CallsOK("pause", todo[u], u, Lit) /\ todo[u] \in Seq(PmFrames) /\ "pause" \in PmPoints /\ "pause" \in LockFree
  BY <1>1, PmAt DEF CallsOK, PmPoints, LockFree
<1>4. todo' = [todo EXCEPT ![u] = todo[u]] /\ UNCHANGED actual
  BY <1>1 DEF PmInv, PmTypes
<1>5. /\ upc' \in [PmUsers -> PmPoints] /\ todo' \in [PmUsers -> Seq(PmFrames)] /\ upc'[u] = "pause"
      /\ \A v \in PmUsers \ {u} : upc'[v] = upc[v] /\ todo'[v] = todo[v]
      /\ Lit' = Lit /\ \A v \in PmUsers : CallsOK(upc'[v], todo'[v], v, Lit')
  BY <1>1, <1>3, <1>4, UserMoves
<1>6. inReset' \in [Domains -> BOOLEAN] /\ \A d \in Domains \ {Leaves[u]} : inReset'[d] = inReset[d]
  <2>1. inReset \in [Domains -> BOOLEAN]
    BY DEF PmInv, PmTypes
  <2>2. QED
    BY ONLY <1>1, <2>1
<1>7. PmTypes' /\ KeptOn' /\ ParentsFirst' /\ QuietInReset'
  BY <1>1, <1>2, <1>5, <1>6 DEF PmInv, PmTypes, KeptOn, ParentsFirst, QuietInReset, ParentsPowered, Powered
<1>8. \A v \in PmUsers : Holds(v)'
  BY <1>1, <1>2, <1>3, <1>5, LockLeft
<1>9. Settled'
  BY <1>1, <1>2, NobodyPolls DEF Settled
<1>10. QED
  BY <1>5, <1>7, <1>8, <1>9 DEF PmInv

LEMMA ReleaseResetOK ==
  ASSUME PmAssumption, PmInv, NEW u \in PmUsers, ReleaseReset(u)
  PROVE  PmInv'
<1>1. /\ upc[u] = "pause" /\ Current(u) = Leaves[u] /\ Leaves[u] \in Domains /\ regLock = {}
      /\ inReset' = [inReset EXCEPT ![Leaves[u]] = FALSE] /\ regLock' = {u} /\ upc' = [upc EXCEPT ![u] = "release"]
      /\ UNCHANGED <<target, actual, quiet, todo, slow>>
  BY PmAt DEF ReleaseReset
<1>2. CallsOK("release", todo[u], u, Lit) /\ todo[u] \in Seq(PmFrames) /\ "release" \in PmPoints
  BY <1>1, PmAt DEF CallsOK, PmPoints
<1>3. todo' = [todo EXCEPT ![u] = todo[u]] /\ UNCHANGED actual
  BY <1>1 DEF PmInv, PmTypes
<1>4. /\ upc' \in [PmUsers -> PmPoints] /\ todo' \in [PmUsers -> Seq(PmFrames)] /\ upc'[u] = "release"
      /\ \A v \in PmUsers \ {u} : upc'[v] = upc[v] /\ todo'[v] = todo[v]
      /\ Lit' = Lit /\ \A v \in PmUsers : CallsOK(upc'[v], todo'[v], v, Lit')
  BY <1>1, <1>2, <1>3, UserMoves
<1>5. inReset' \in [Domains -> BOOLEAN] /\ ~inReset'[Leaves[u]] /\ \A d \in Domains : inReset'[d] => inReset[d]
  <2>1. inReset \in [Domains -> BOOLEAN]
    BY DEF PmInv, PmTypes
  <2>2. QED
    BY ONLY <1>1, <2>1
<1>6. PmTypes' /\ KeptOn' /\ ParentsFirst' /\ QuietInReset'
  BY <1>1, <1>4, <1>5 DEF PmInv, PmTypes, KeptOn, ParentsFirst, QuietInReset, ParentsPowered, Powered
<1>7. \A v \in PmUsers : Holds(v)'
  <2>1. Holds(u)'
    BY <1>1, <1>4, <1>5 DEF Holds, Polls
  <2>2. QED
    BY <1>1, <1>4, <2>1, LockTaken
<1>8. Settled'
  BY <1>1, NobodyPolls DEF Settled
<1>9. QED
  BY <1>4, <1>6, <1>7, <1>8 DEF PmInv

LEMMA EnableDeviceOK ==
  ASSUME PmAssumption, PmInv, NEW u \in PmUsers, EnableDevice(u)
  PROVE  PmInv'
<1>1. /\ upc[u] = "release" /\ Current(u) = Leaves[u] /\ Leaves[u] \in Domains
      /\ quiet' = [quiet EXCEPT ![Leaves[u]] = FALSE] /\ regLock' = {}
      /\ upc' = [upc EXCEPT ![u] = "idle"] /\ todo' = [todo EXCEPT ![u] = <<>>]
      /\ UNCHANGED <<target, actual, inReset, slow>>
  BY PmAt DEF EnableDevice, DomainDone
<1>2. regLock = {u} /\ ~inReset[Leaves[u]] /\ ~Polls(u)
  BY <1>1 DEF PmInv, Holds, Polls
<1>3. CallsOK("idle", <<>>, u, Lit) /\ <<>> \in Seq(PmFrames) /\ "idle" \in PmPoints /\ "idle" \in LockFree
  BY CallsEnd DEF PmPoints, LockFree
<1>4. UNCHANGED actual
  BY <1>1
<1>5. /\ upc' \in [PmUsers -> PmPoints] /\ todo' \in [PmUsers -> Seq(PmFrames)] /\ upc'[u] = "idle"
      /\ \A v \in PmUsers \ {u} : upc'[v] = upc[v] /\ todo'[v] = todo[v]
      /\ Lit' = Lit /\ \A v \in PmUsers : CallsOK(upc'[v], todo'[v], v, Lit')
  BY <1>1, <1>3, <1>4, UserMoves
<1>6. quiet' \in [Domains -> BOOLEAN] /\ \A d \in Domains \ {Leaves[u]} : quiet'[d] = quiet[d]
  <2>1. quiet \in [Domains -> BOOLEAN]
    BY DEF PmInv, PmTypes
  <2>2. QED
    BY ONLY <1>1, <2>1
<1>7. PmTypes' /\ KeptOn' /\ ParentsFirst' /\ QuietInReset'
  BY <1>1, <1>2, <1>5, <1>6 DEF PmInv, PmTypes, KeptOn, ParentsFirst, QuietInReset, ParentsPowered, Powered
<1>8. \A v \in PmUsers : Holds(v)'
  BY <1>1, <1>2, <1>3, <1>5, LockLeft
<1>9. Settled'
  BY <1>1, <1>2, NobodyPolls DEF Settled
<1>10. QED
  BY <1>5, <1>7, <1>8, <1>9 DEF PmInv

LEMMA PowerSettlesOK ==
  ASSUME PmAssumption, PmInv, NEW d \in Domains, PowerSettles(d)
  PROVE  PmInv'
<1>1. actual' = [actual EXCEPT ![d] = target[d]] /\ UNCHANGED <<target, quiet, inReset, regLock, upc, todo, slow>>
  BY DEF PowerSettles
<1>2. target \in [Domains -> {"on", "off"}] /\ actual \in [Domains -> {"on", "off"}]
  BY DEF PmInv, PmTypes
<1>3. actual' \in [Domains -> {"on", "off"}] /\ actual'[d] = target[d] /\ \A e \in Domains \ {d} : actual'[e] = actual[e]
  BY ONLY <1>1, <1>2, d \in Domains
<1>4. \A e \in Domains : NeverOff(e) /\ Powered(e) => Powered(e)'
  BY <1>3 DEF PmInv, KeptOn, Powered
<1>5. \A u \in PmUsers : CallsOK(upc[u], todo[u], u, Lit')
  <2>1. \A e \in Domains : NeverOff(e) /\ e \in Lit => e \in Lit'
    BY <1>4 DEF Lit
  <2>2. ASSUME NEW u \in PmUsers
        PROVE  CallsOK(upc[u], todo[u], u, Lit')
    BY <2>1, PmAt, CallsRest
  <2>3. QED
    BY <2>2
<1>6. PmTypes' /\ QuietInReset'
  BY <1>1, <1>3 DEF PmInv, PmTypes, QuietInReset
<1>7. KeptOn' /\ Settled'
  BY <1>1, <1>3 DEF PmInv, KeptOn, Settled, Polls, Current
<1>8. \A u \in PmUsers : Holds(u)'
  BY <1>1 DEF PmInv, Holds, Polls, Current
<1>9. ParentsFirst'
  <2>1. ASSUME NEW e \in Domains, target[e] = "on"
        PROVE  ParentsPowered(e)'
    <3>1. ParentsPowered(e)
      BY <2>1 DEF PmInv, ParentsFirst
    <3>2. \A i \in DOMAIN Parents[e] : Parents[e][i] \in Domains /\ NeverOff(Parents[e][i])
      BY PmParents
    <3>3. QED
      BY <1>4, <3>1, <3>2 DEF ParentsPowered
  <2>2. QED
    BY <1>1, <2>1 DEF ParentsFirst
<1>10. QED
  BY <1>1, <1>5, <1>6, <1>7, <1>8, <1>9 DEF PmInv

LEMMA PmInitInv ==
  ASSUME PmAssumption, PmInit
  PROVE  PmInv
<1>1. upc = [u \in PmUsers |-> "idle"] /\ todo = [u \in PmUsers |-> <<>>] /\ regLock = {} /\ slow = {}
  BY DEF PmInit
<1>2. PmTypes
  <2>1. upc \in [PmUsers -> PmPoints]
    BY <1>1 DEF PmPoints
  <2>2. <<>> \in Seq(PmFrames)
    OBVIOUS
  <2>3. todo \in [PmUsers -> Seq(PmFrames)]
    BY ONLY <1>1, <2>2
  <2>4. QED
    BY <1>1, <2>1, <2>3 DEF PmInit, PmTypes
<1>3. \A u \in PmUsers : CallsOK(upc[u], todo[u], u, Lit) /\ Holds(u)
  BY <1>1, CallsEnd DEF Holds, Polls
<1>4. KeptOn /\ Settled /\ ParentsFirst /\ QuietInReset
  BY DEF PmInit, KeptOn, Settled, ParentsFirst, QuietInReset
<1>5. QED
  BY <1>2, <1>3, <1>4 DEF PmInv

LEMMA PmNextInv ==
  ASSUME PmAssumption, PmInv, [PmNext]_pmVars
  PROVE  PmInv'
<1>1. CASE UNCHANGED pmVars
  <2>1. Lit' = Lit
    BY <1>1 DEF pmVars, Lit, Powered
  <2>2. \A u \in PmUsers : CallsOK(upc'[u], todo'[u], u, Lit') /\ Holds(u)'
    BY <1>1, <2>1 DEF pmVars, PmInv, Holds, Polls, Current
  <2>3. PmTypes' /\ KeptOn' /\ Settled' /\ ParentsFirst' /\ QuietInReset'
    BY <1>1 DEF pmVars, PmInv, PmTypes, KeptOn, Settled, ParentsFirst, QuietInReset, ParentsPowered, Powered, Polls, Current
  <2>4. QED
    BY <2>2, <2>3 DEF PmInv
<1>2. ASSUME NEW u \in PmUsers,
             (\E d \in Domains : EnableDomain(u, d)) \/ EnableParent(u) \/ DisableDomain(u) \/ ResetDomain(u)
      PROVE  PmInv'
  BY <1>2, BeginOK, EnableParentOK, ResetDomainOK
<1>3. ASSUME NEW u \in PmUsers, AlreadyThere(u) \/ WriteTarget(u) \/ StateReached(u) \/ PollRunsOut(u)
      PROVE  PmInv'
  BY <1>3, AlreadyThereOK, WriteTargetOK, StateReachedOK, PollRunsOutOK
<1>4. ASSUME NEW u \in PmUsers, AssertReset(u) \/ ReleaseReset(u) \/ EnableDevice(u)
      PROVE  PmInv'
  BY <1>4, AssertResetOK, ReleaseResetOK, EnableDeviceOK
<1>5. QED
  BY <1>1, <1>2, <1>3, <1>4, PowerSettlesOK DEF PmNext

(* Whatever users enable, disable and reset their domains, however late the    *)
(* hardware is and whatever polls run out: a domain is asked on only with its  *)
(* parents powered, a device in reset is a disabled one, and a domain nobody   *)
(* waits for is in the state last asked for unless a poll for it ran out       *)
(* (soc/apple-pmgr).                                                           *)
THEOREM PowerStaysOrdered == PmSpec => []PowerIsOrdered
<1>1. PmInit => PmInv
  BY PmAssumption, PmInitInv
<1>2. PmInv /\ [PmNext]_pmVars => PmInv'
  BY PmAssumption, PmNextInv
<1>3. PmInv => PowerIsOrdered
  <2>1. ASSUME PmInv
        PROVE  SettledUnlessSlow
    <3>1. ASSUME NEW u \in PmUsers, regLock = {}, Leaves[u] \notin slow
          PROVE  actual[Leaves[u]] = target[Leaves[u]]
      <4>1. \A v \in PmUsers : regLock = {v} => ~Polls(v)
        BY <3>1
      <4>2. Leaves[u] \in Domains
        BY PmAssumption DEF PmAssumption
      <4>3. QED
        BY <2>1, <3>1, <4>1, <4>2, NobodyPolls
    <3>2. QED
      BY <3>1 DEF SettledUnlessSlow
  <2>2. QED
    BY <2>1 DEF PmInv, PowerIsOrdered
<1>4. QED
  BY <1>1, <1>2, <1>3, PTL DEF PmSpec

=============================================================================
