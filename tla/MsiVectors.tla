------------------------------ MODULE MsiVectors ------------------------------
(* Vector allocation of one Apple MSI port, drivers/pic/apple-msi.           *)
(*                                                                           *)
(* A port owns a row of vectors and a table of the taken ones.  A request    *)
(* takes its vectors one at a time, each under the table's lock, and gives   *)
(* back what it has when the port runs out, so requests of several drivers   *)
(* interleave vector by vector.                                              *)
EXTENDS Integers, FiniteSets

CONSTANTS
  MsiTasks,      \* drivers that allocate and free vectors
  BaseVector,    \* first vector of the port
  NumVectors,    \* vectors of the port
  MaxCount       \* bound: most vectors one request asks for

ASSUME MsiAssumption ==
  BaseVector \in Nat /\ NumVectors \in Nat \ {0} /\ MaxCount \in Nat

VARIABLES
  allocated,     \* the table: vectors marked as taken
  mpc,           \* where each task is in its request
  want,          \* vectors its request still has to take
  got,           \* vectors its request has taken
  held           \* vectors of its allocation

msiVars == <<allocated, mpc, want, got, held>>

Vectors == BaseVector .. BaseVector + NumVectors - 1
FreeVectors == Vectors \ allocated

MsiInit ==
  /\ allocated = {}
  /\ mpc = [t \in MsiTasks |-> "idle"] /\ want = [t \in MsiTasks |-> 0]
  /\ got = [t \in MsiTasks |-> {}] /\ held = [t \in MsiTasks |-> {}]

(* A request of no vector is refused before it takes any. *)
AllocateVectors(t, n) ==
  /\ mpc[t] = "idle" /\ held[t] = {} /\ n > 0
  /\ mpc' = [mpc EXCEPT ![t] = "take"] /\ want' = [want EXCEPT ![t] = n]
  /\ UNCHANGED <<allocated, got, held>>

IsLowest(v, S) == v \in S /\ \A w \in S : v <= w

(* Mutant: the free vector is found under the lock and marked without it. *)
TakeUnmarked(t) ==
  /\ mpc[t] = "take"
  /\ \E v \in FreeVectors : IsLowest(v, FreeVectors) /\ got' = [got EXCEPT ![t] = @ \cup {v}]
  /\ want' = [want EXCEPT ![t] = @ - 1]
  /\ mpc' = [mpc EXCEPT ![t] = IF want[t] = 1 THEN "done" ELSE "take"]
  /\ UNCHANGED <<allocated, held>>

(* allocate_vector: the first free entry. *)
TakeVector(t) ==
  /\ mpc[t] = "take"
  /\ \E v \in FreeVectors : /\ IsLowest(v, FreeVectors)
                            /\ allocated' = allocated \cup {v}
                            /\ got' = [got EXCEPT ![t] = @ \cup {v}]
  /\ want' = [want EXCEPT ![t] = @ - 1]
  /\ mpc' = [mpc EXCEPT ![t] = IF want[t] = 1 THEN "done" ELSE "take"]
  /\ UNCHANGED held

OutOfVectors(t) ==
  /\ mpc[t] = "take" /\ FreeVectors = {}
  /\ mpc' = [mpc EXCEPT ![t] = "undo"]
  /\ UNCHANGED <<allocated, want, got, held>>

(* Mutant: the caller is told NoVectors and what was taken stays taken. *)
FailWithoutUndo(t) ==
  /\ mpc[t] = "undo"
  /\ got' = [got EXCEPT ![t] = {}]
  /\ mpc' = [mpc EXCEPT ![t] = "idle"] /\ want' = [want EXCEPT ![t] = 0]
  /\ UNCHANGED <<allocated, held>>

(* Give back one vector of a failed request, or fail when none is left. *)
UndoVector(t) ==
  /\ mpc[t] = "undo"
  /\ \/ /\ \E v \in got[t] : /\ allocated' = allocated \ {v}
                             /\ got' = [got EXCEPT ![t] = @ \ {v}]
        /\ UNCHANGED <<mpc, want>>
     \/ /\ got[t] = {}
        /\ mpc' = [mpc EXCEPT ![t] = "idle"] /\ want' = [want EXCEPT ![t] = 0]
        /\ UNCHANGED <<allocated, got>>
  /\ UNCHANGED held

AllocationReturned(t) ==
  /\ mpc[t] = "done"
  /\ held' = [held EXCEPT ![t] = got[t]] /\ got' = [got EXCEPT ![t] = {}]
  /\ mpc' = [mpc EXCEPT ![t] = "idle"]
  /\ UNCHANGED <<allocated, want>>

(* free_vectors, vector by vector; the owner uses none of them any more. *)
FreeVector(t) ==
  /\ mpc[t] = "idle"
  /\ \E v \in held[t] : /\ allocated' = allocated \ {v}
                        /\ held' = [held EXCEPT ![t] = @ \ {v}]
  /\ UNCHANGED <<mpc, want, got>>

MsiNext ==
  \E t \in MsiTasks :
    \/ \E n \in 0 .. MaxCount : AllocateVectors(t, n)
    \/ TakeVector(t) \/ OutOfVectors(t) \/ UndoVector(t)
    \/ AllocationReturned(t) \/ FreeVector(t)

MsiSpec == MsiInit /\ [][MsiNext]_msiVars

------------------------------------------------------------------------------
Owned(t) == got[t] \cup held[t]

MsiTypeOK ==
  /\ allocated \subseteq Vectors
  /\ mpc \in [MsiTasks -> {"idle", "take", "done", "undo"}]
  /\ want \in [MsiTasks -> 0 .. MaxCount]
  /\ got \in [MsiTasks -> SUBSET Vectors] /\ held \in [MsiTasks -> SUBSET Vectors]

(* allocate_vector and free_vector of several drivers at once: no vector     *)
(* number is given to two of them, whatever each has taken, undone or freed. *)
VectorsUnique == \A t, u \in MsiTasks : t # u => Owned(t) \cap Owned(u) = {}

(* The table marks a vector exactly while a request or an allocation has it: *)
(* a request that ran out leaves nothing marked behind.                      *)
TableIsOwned == allocated = UNION {Owned(t) : t \in MsiTasks}

(* No vector is given out twice and none leaks, whatever is refused, undone or *)
(* freed meanwhile.                                                            *)
OwnedOnce == VectorsUnique /\ TableIsOwned
=============================================================================
