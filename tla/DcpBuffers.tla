------------------------------ MODULE DcpBuffers ------------------------------
(* DcpDmaMapper of drivers/display/dcp/src/lib.rs and of                        *)
(* drivers/display/dcpext/src/lib.rs: device addresses for the buffers of all   *)
(* endpoints come from one counter that is moved without a lock, the page table *)
(* is changed under its own lock, and a device address is the I/O address with  *)
(* the coprocessor's mask.                                                     *)
EXTENDS Naturals, Sequences, FiniteSets, SequencesExt

CONSTANTS
  DmaTasks,    \* endpoints that allocate buffers
  DmaBase,     \* DCP_DYNAMIC_IOVA_BASE, in pages
  DmaLimit,    \* DCP_SCANOUT_IOVA_BASE, in pages
  DmaMask,     \* dva_base, above every I/O address
  DmaSizes,    \* sizes asked for, in pages
  MaxMaps      \* bound on calls

ASSUME DmaAssumption ==
  /\ {DmaBase, DmaLimit, DmaMask, MaxMaps} \subseteq Nat
  /\ DmaSizes \subseteq Nat
  /\ DmaBase <= DmaLimit /\ DmaLimit < DmaMask

VARIABLES
  nextIova,   \* the counter
  dma,        \* task -> the step of its call, its size, what it read and got
  pagesIn,    \* I/O page -> the call whose page the table holds, or none
  owned,      \* buffers handed to callers: [task, first, size]
  maps        \* calls so far

dmaVars == <<nextIova, dma, pagesIn, owned, maps>>

DevicePages == DmaBase .. (DmaLimit + DmaLimit)
NoMapping == [at |-> "idle", size |-> 0, read |-> 0]
Dva(iova) == DmaMask + iova
Iova(dva) == dva - DmaMask
Run(b) == Iova(b.dva) .. (Iova(b.dva) + b.size - 1)

DmaInit ==
  /\ nextIova = DmaBase
  /\ dma = [t \in DmaTasks |-> NoMapping]
  /\ pagesIn = [i \in DevicePages |-> "none"]
  /\ owned = {}
  /\ maps = 0

MapBuffer(t, n) ==
  /\ dma[t].at = "idle" /\ maps < MaxMaps
  /\ maps' = maps + 1
  /\ n # 0
  /\ dma' = [dma EXCEPT ![t] = [at |-> "move", size |-> n, read |-> nextIova]]
  /\ UNCHANGED <<nextIova, pagesIn, owned>>

(* The counter is moved if it still is what was read; the exchange may also    *)
(* fail for no reason, and then the call reads again.                          *)
(* Mutant: the counter is stored without a comparison. *)
MoveBlindly(t) ==
  /\ dma[t].at = "move"
  /\ dma[t].read + dma[t].size <= DmaLimit
  /\ nextIova' = dma[t].read + dma[t].size
  /\ dma' = [dma EXCEPT ![t].at = "enter"]
  /\ UNCHANGED <<pagesIn, owned, maps>>
MoveCounter(t) ==
  /\ dma[t].at = "move"
  /\ dma[t].read + dma[t].size <= DmaLimit
  /\ IF nextIova = dma[t].read
     THEN nextIova' = nextIova + dma[t].size /\ dma' = [dma EXCEPT ![t].at = "enter"]
     ELSE nextIova' = nextIova /\ dma' = [dma EXCEPT ![t].read = nextIova]
  /\ UNCHANGED <<pagesIn, owned, maps>>

(* Mutant: the last page may reach the first scanout buffer. *)
RefusedLate(t) ==
  /\ dma[t].at = "move"
  /\ dma[t].read + dma[t].size > DmaLimit
  /\ dma' = [dma EXCEPT ![t].at = IF dma[t].read < DmaLimit /\ nextIova = dma[t].read THEN "enter" ELSE "idle"]
  /\ nextIova' = IF dma'[t].at = "enter" THEN nextIova + dma[t].size ELSE nextIova
  /\ UNCHANGED <<pagesIn, owned, maps>>
OutOfRange(t) ==
  /\ dma[t].at = "move"
  /\ dma[t].read + dma[t].size > DmaLimit
  /\ dma' = [dma EXCEPT ![t] = NoMapping]
  /\ UNCHANGED <<nextIova, pagesIn, owned, maps>>

(* map_contiguous, which overwrites what a page held, and sync_page_tables: a  *)
(* failure of either loses the range and what was entered of it.               *)
Entered(t, n) == [i \in DevicePages |-> IF i \in dma[t].read .. (dma[t].read + n - 1) THEN t ELSE pagesIn[i]]
EnterPages(t) ==
  /\ dma[t].at = "enter"
  /\ \/ /\ pagesIn' = Entered(t, dma[t].size)
        /\ owned' = owned \cup {[by |-> t, dva |-> Dva(dma[t].read), size |-> dma[t].size]}
     \/ /\ \E n \in 0 .. dma[t].size : pagesIn' = Entered(t, n)
        /\ UNCHANGED owned
  /\ dma' = [dma EXCEPT ![t] = NoMapping]
  /\ UNCHANGED <<nextIova, maps>>

(* unmap: the pages of a buffer are taken out; none of them can fail, their    *)
(* tables having been at hand when they were entered.                          *)
UnmapBuffer(t) ==
  /\ dma[t].at = "idle"
  /\ \E b \in owned :
       /\ b.by = t
       /\ owned' = owned \ {b}
       /\ pagesIn' = [i \in DevicePages |-> IF i \in Run(b) THEN "none" ELSE pagesIn[i]]
  /\ UNCHANGED <<nextIova, dma, maps>>

DmaNext == \E t \in DmaTasks :
  \/ \E n \in DmaSizes : MapBuffer(t, n)
  \/ MoveCounter(t) \/ OutOfRange(t) \/ EnterPages(t) \/ UnmapBuffer(t)

DmaSpec == DmaInit /\ [][DmaNext]_dmaVars
-----------------------------------------------------------------------------
(* The buffers of different endpoints never share a device page, and none      *)
(* reaches into the scanout buffers' addresses, however the calls interleave.  *)
Reserved(t) == dma[t].read .. (dma[t].read + dma[t].size - 1)
BuffersDisjoint ==
  /\ \A b, c \in owned : b # c => Run(b) \cap Run(c) = {}
  /\ \A t \in DmaTasks, b \in owned : dma[t].at = "enter" => Reserved(t) \cap Run(b) = {}
BelowScanout == \A i \in DevicePages : pagesIn[i] # "none" => i < DmaLimit

(* Every device page of a buffer leads to that buffer until it is unmapped. *)
PagesKept == \A b \in owned, i \in DevicePages : i \in Run(b) => pagesIn[i] = b.by

(* The mapper, called by several endpoints at once: buffers never share a      *)
(* device page, stay below the scanout window and mapped while owned.          *)
BuffersSafe == BuffersDisjoint /\ BelowScanout /\ PagesKept

-----------------------------------------------------------------------------
(* Memory the display coprocessor asks the kernel for,                         *)
(* drivers/display/dcp/src/iomfb.rs: buffers and register windows handed out   *)
(* under descriptor ids, their second mapping for the programmed I/O engine,   *)
(* their release, and the end of the connection.                               *)

CONSTANTS
  MaxDescriptors   \* bound: descriptors handed out

VARIABLES
  allocations,    \* sequence of [id, pio]: buffers handed out
  windows,        \* sequence of [id]: register windows handed out
  nextId,         \* next_descriptor_id
  pages,          \* ids whose pages the kernel still owns
  dartMaps,       \* ids mapped for the coprocessor
  pioMaps,        \* ids mapped for the programmed I/O engine
  releasing,      \* release in progress: [id, step], or the end of the connection
  stuckMaps,      \* ids whose mapping for the coprocessor an error left behind
  stuckPio        \* ids whose second mapping an error left behind

bufVars == <<allocations, windows, nextId, pages, dartMaps, pioMaps, releasing, stuckMaps, stuckPio>>

NoRelease == [id |-> 0, step |-> "none"]
NoId == 0   \* what is mapped under no descriptor: the first one handed out is 1

BufInit ==
  /\ allocations = <<>> /\ windows = <<>> /\ nextId = 1 /\ pages = {}
  /\ dartMaps = {} /\ pioMaps = {} /\ releasing = NoRelease /\ stuckMaps = {} /\ stuckPio = {}

Connected == releasing = NoRelease

(* A mapping that is lost: map_dma fails after some of the pages, or when the *)
(* tables are invalidated, and what was entered stays; so does the whole of a *)
(* D411 window whose reply area is too short, before it has an id.            *)
LosesMapping ==
  /\ dartMaps' = dartMaps \cup {NoId} /\ stuckMaps' = stuckMaps \cup {NoId}
  /\ UNCHANGED <<allocations, windows, nextId, pages>>

(* A new id for what is mapped; a reply area too short for the answer is      *)
(* noticed after that, and the mapping stays.                                 *)
TakesId == nextId <= MaxDescriptors /\ nextId' = nextId + 1 /\ dartMaps' = dartMaps \cup {nextId}
ShortReply == stuckMaps' = stuckMaps \cup {nextId} /\ UNCHANGED <<allocations, windows, pages>>

(* handle_allocate_buffer: D451.  After an error the pages go back.           *)
AllocateBuffer ==
  /\ Connected
  /\ \/ /\ TakesId
        /\ allocations' = Append(allocations, [id |-> nextId, pio |-> FALSE])
        /\ pages' = pages \cup {nextId} /\ UNCHANGED <<windows, stuckMaps>>
     \/ TakesId /\ ShortReply
     \/ LosesMapping
  /\ UNCHANGED <<pioMaps, releasing, stuckPio>>

(* handle_map_register and handle_map_physical: D411 hands out a whole window *)
(* under no id the coprocessor learns, D452 a range within one, and refuses   *)
(* any other.                                                                 *)
MapWindow ==
  /\ Connected
  /\ \/ /\ TakesId
        /\ windows' = Append(windows, [id |-> nextId])
        /\ UNCHANGED <<allocations, pages, stuckMaps>>
     \/ TakesId /\ ShortReply
     \/ LosesMapping
  /\ UNCHANGED <<pioMaps, releasing, stuckPio>>

IndexOf(seq, id) == IF \E i \in DOMAIN seq : seq[i].id = id THEN CHOOSE i \in DOMAIN seq : seq[i].id = id ELSE 0

(* Mutant: the flag of a mapped buffer is not kept. *)
MapPioUnflagged(id) ==
  /\ Connected /\ IndexOf(allocations, id) # 0 /\ ~allocations[IndexOf(allocations, id)].pio
  /\ pioMaps' = pioMaps \cup {id}
  /\ UNCHANGED <<allocations, windows, nextId, pages, dartMaps, releasing, stuckMaps, stuckPio>>

(* handle_map_piodma: D201, once per buffer.  A failure in the middle of the  *)
(* pages is answered with 22 and leaves the flag, and what was entered.       *)
MapPio(id) ==
  /\ Connected
  /\ LET i == IndexOf(allocations, id)
     IN  /\ i # 0 /\ ~allocations[i].pio
         /\ pioMaps' = pioMaps \cup {id}
         /\ \/ /\ allocations' = [allocations EXCEPT ![i].pio = TRUE]
               /\ stuckPio' = stuckPio \ {id}
            \/ stuckPio' = stuckPio \cup {id} /\ UNCHANGED allocations
  /\ UNCHANGED <<windows, nextId, pages, dartMaps, releasing, stuckMaps>>

(* handle_unmap_piodma: D202, of a buffer that is mapped.  After a failure the*)
(* flag stays, and nothing here changes: a page may still be reached.         *)
UnmapPio(id) ==
  /\ Connected
  /\ LET i == IndexOf(allocations, id)
     IN  /\ i # 0 /\ allocations[i].pio
         /\ pioMaps' = pioMaps \ {id}
         /\ allocations' = [allocations EXCEPT ![i].pio = FALSE]
  /\ UNCHANGED <<windows, nextId, pages, dartMaps, releasing, stuckMaps, stuckPio>>

(* Mutant: the buffer goes without its second mapping. *)
ReleaseKeepsPio(id) ==
  /\ Connected /\ IndexOf(allocations, id) # 0
  /\ releasing' = [id |-> id, step |-> "unmap"]
  /\ UNCHANGED <<allocations, windows, nextId, pages, dartMaps, pioMaps, stuckMaps, stuckPio>>

(* handle_release_descriptor: D454.  The second mapping of a flagged buffer   *)
(* goes first; when that fails the buffer stays as it is.                     *)
ReleaseBuffer(id) ==
  /\ Connected
  /\ LET i == IndexOf(allocations, id)
     IN  /\ i # 0
         /\ pioMaps' = IF allocations[i].pio THEN pioMaps \ {id} ELSE pioMaps
         /\ allocations' = [allocations EXCEPT ![i].pio = FALSE]
         /\ releasing' = [id |-> id, step |-> "unmap"]
  /\ UNCHANGED <<windows, nextId, pages, dartMaps, stuckMaps, stuckPio>>

(* unmap_dma, which tells its caller nothing: a page that cannot be taken out *)
(* ends it, and an invalidation that times out is ignored.                    *)
Unmaps(ids) ==
  \E failed \in SUBSET ids :
    dartMaps' = dartMaps \ (ids \ failed) /\ stuckMaps' = stuckMaps \cup failed

ReleaseWindow(id) ==
  /\ Connected /\ IndexOf(allocations, id) = 0 /\ IndexOf(windows, id) # 0
  /\ windows' = RemoveAt(windows, IndexOf(windows, id))
  /\ Unmaps({id})
  /\ UNCHANGED <<allocations, nextId, pages, pioMaps, releasing, stuckPio>>

ReleaseUnmaps ==
  /\ releasing.step = "unmap"
  /\ allocations' = RemoveAt(allocations, IndexOf(allocations, releasing.id))
  /\ Unmaps({releasing.id})
  /\ releasing' = [releasing EXCEPT !.step = "free"]
  /\ UNCHANGED <<windows, nextId, pages, pioMaps, stuckPio>>

ReleaseFrees ==
  /\ releasing.step = "free"
  /\ pages' = pages \ {releasing.id} /\ releasing' = NoRelease
  /\ UNCHANGED <<allocations, windows, nextId, dartMaps, pioMaps, stuckMaps, stuckPio>>

(* Drop: the second mapping of every flagged buffer, whose failures are       *)
(* ignored, then every mapping, then the pages.                               *)
Flagged == {a.id : a \in {x \in ToSet(allocations) : x.pio}}
DropPio ==
  /\ Connected
  /\ \E failed \in SUBSET Flagged :
       pioMaps' = pioMaps \ (Flagged \ failed) /\ stuckPio' = stuckPio \cup failed
  /\ releasing' = [id |-> 0, step |-> "dropUnmap"]
  /\ UNCHANGED <<allocations, windows, nextId, pages, dartMaps, stuckMaps>>

DropMaps ==
  /\ releasing.step = "dropUnmap"
  /\ Unmaps({s.id : s \in ToSet(allocations) \cup ToSet(windows)})
  /\ releasing' = [releasing EXCEPT !.step = "dropFree"]
  /\ UNCHANGED <<allocations, windows, nextId, pages, pioMaps, stuckPio>>

DropPages ==
  /\ releasing.step = "dropFree"
  /\ pages' = {} /\ allocations' = <<>> /\ windows' = <<>>
  /\ releasing' = [releasing EXCEPT !.step = "gone"]
  /\ UNCHANGED <<nextId, dartMaps, pioMaps, stuckMaps, stuckPio>>

BufNext ==
  \/ AllocateBuffer \/ MapWindow \/ ReleaseUnmaps \/ ReleaseFrees \/ DropPio \/ DropMaps \/ DropPages
  \/ \E id \in 1..MaxDescriptors : MapPio(id) \/ UnmapPio(id) \/ ReleaseBuffer(id) \/ ReleaseWindow(id)

BufSpec == BufInit /\ [][BufNext]_bufVars

------------------------------------------------------------------------------
(* The display's engines reach no page that went back to the allocator,       *)
(* through either mapping and at no moment of a release, except where an      *)
(* error left the mapping: one in mapping or unmapping a page or in the       *)
(* invalidation, or a reply area too short for the answer (stuckMaps,         *)
(* stuckPio).                                                                 *)
NoMappedFreePages ==
  /\ pioMaps \subseteq pages \cup stuckPio
  /\ dartMaps \subseteq pages \cup stuckMaps \cup {w.id : w \in ToSet(windows)}

(* While the connection lives, a flagged buffer has its second mapping whole, *)
(* and no other has one unless mapping it failed; an id names one descriptor. *)
DescriptorsTrue ==
  Connected =>
    /\ pioMaps = Flagged \cup stuckPio /\ Flagged \cap stuckPio = {}
    /\ \A i, j \in DOMAIN allocations : allocations[i].id = allocations[j].id => i = j
    /\ \A i, j \in DOMAIN windows : windows[i].id = windows[j].id => i = j
    /\ \A i \in DOMAIN allocations, j \in DOMAIN windows : allocations[i].id # windows[j].id

(* Memory the firmware was given through IOMFB: no engine reaches a page that *)
(* went back to the allocator unless an error left its mapping, and a flagged *)
(* descriptor is a mapped one.                                                *)
DescriptorsSafe == NoMappedFreePages /\ DescriptorsTrue
=============================================================================
