------------------------------ MODULE DartDomain ------------------------------
(* One DART and one of its domains, drivers/iommu/apple-dart.                *)
(*                                                                           *)
(* Drivers map and unmap runs of pages.  The page table is changed page by   *)
(* page under its lock; the translation cache is invalidated after the lock  *)
(* is released, by a command that can time out.  A stream whose translation  *)
(* base the boot firmware left valid is kept as it is and its tables are     *)
(* wrapped.  The device, which fills the cache at any time, is external.     *)
EXTENDS Naturals, Sequences, FiniteSets

CONSTANTS
  Streams,       \* stream identifiers
  FwStream,      \* the stream the boot firmware set up
  DartTasks,     \* drivers that map pages
  PagesOf,       \* the run of pages of each: pairs of root index and leaf index
  FwPages        \* pages the boot firmware mapped for its stream

PageSet(t) == {PagesOf[t][i] : i \in DOMAIN PagesOf[t]}

(* A driver maps pages of its own: the callers' allocators see to that. *)
ASSUME DartAssumption ==
  /\ FwStream \in Streams /\ FwPages \subseteq Nat \X Nat
  /\ PagesOf \in [DartTasks -> Seq(Nat \X Nat)] /\ \A t \in DartTasks : PagesOf[t] # <<>>
  /\ \A t, u \in DartTasks : t # u => PageSet(t) \cap PageSet(u) = {}
  /\ \A t \in DartTasks : PageSet(t) \cap FwPages = {}

VARIABLES
  bypassable,    \* PARAMS2 says bypass is supported
  largePage,     \* the translation page is larger than the CPU's
  dpart,         \* "reset", "probed" or "failed"
  domain,        \* "none", "bypass", "table" or "firmware" (wrap_existing)
  ttbr,          \* per stream: "none", "fw" or "root"
  tcr,           \* per stream: "off", "translate" or "bypass"
  attached,      \* attached_streams
  l2,            \* root entries that name a leaf table
  mapped,        \* pages with a valid leaf entry
  tlb,           \* pages the device has cached
  tableLock,     \* holder of the page table's lock, in a set
  dpc,           \* where each driver is
  left,          \* pages its call has still to change
  owns,          \* pages it was told are mapped
  gone           \* pages it was told are unmapped, since they were mapped last

dartVars == <<bypassable, largePage, dpart, domain, ttbr, tcr, attached, l2, mapped, tlb,
              tableLock, dpc, left, owns, gone>>
streamVars == <<bypassable, largePage, dpart, domain, ttbr, tcr, attached>>
tableVars == <<l2, mapped, tlb>>

DartInit ==
  /\ bypassable \in BOOLEAN /\ largePage \in BOOLEAN /\ dpart = "reset" /\ domain = "none"
  /\ ttbr = [s \in Streams |-> IF s = FwStream THEN "fw" ELSE "none"]
  /\ tcr \in {f \in [Streams -> {"off", "translate", "bypass"}] : f[FwStream] = "translate"}
  /\ attached = {} /\ l2 = {} /\ mapped = {} /\ tlb = {}
  /\ tableLock = {} /\ dpc = [t \in DartTasks |-> "idle"]
  /\ left = [t \in DartTasks |-> <<>>] /\ owns = [t \in DartTasks |-> {}] /\ gone = {}

------------------------------------------------------------------------------
(* probe_fn: streams without a translation base are cut off, the others left *)
(* alone; a timed-out invalidation fails the probe.                          *)
DartProbe ==
  /\ dpart = "reset"
  /\ tcr' = [s \in Streams |-> IF ttbr[s] = "none" THEN "off" ELSE tcr[s]]
  /\ dpart' \in {"probed", "failed"}
  /\ UNCHANGED <<bypassable, largePage, domain, ttbr, attached, l2, mapped, tlb, tableLock,
                 dpc, left, owns, gone>>

(* alloc_domain: bypass for an identity domain and for pages too large to    *)
(* map, where there is bypass; else a page table, never an identity.         *)
AllocDomain(identity) ==
  /\ dpart = "probed" /\ domain = "none"
  /\ \/ /\ bypassable /\ (identity \/ largePage) /\ domain' = "bypass"
     \/ /\ ~(bypassable /\ (identity \/ largePage)) /\ ~identity /\ domain' = "table"
  /\ UNCHANGED <<bypassable, largePage, dpart, ttbr, tcr, attached, l2, mapped, tlb,
                 tableLock, dpc, left, owns, gone>>

(* wrap_existing: the firmware's tables, all of them mapped at once. *)
WrapExisting ==
  /\ dpart = "probed" /\ domain = "none" /\ ttbr[FwStream] # "none"
  /\ domain' = "firmware" /\ attached' = {FwStream}
  /\ mapped' = FwPages /\ l2' = {p[1] : p \in FwPages}
  /\ UNCHANGED <<bypassable, largePage, dpart, ttbr, tcr, tlb, tableLock, dpc, left, owns,
                 gone>>

(* Mutant: the wrapped domain is attached like any other. *)
AttachAnyDomain(s) ==
  /\ domain \in {"bypass", "table", "firmware"}
  /\ IF domain = "bypass"
     THEN /\ tcr' = [tcr EXCEPT ![s] = "bypass"] /\ attached' = attached \cup {s}
          /\ UNCHANGED <<ttbr, tableLock>>
     ELSE /\ tableLock = {} /\ tableLock' = {<<"attach", s>>}
          /\ ttbr' = [ttbr EXCEPT ![s] = "root"]
          /\ UNCHANGED <<tcr, attached>>
  /\ UNCHANGED <<bypassable, largePage, dpart, domain, l2, mapped, tlb, dpc, left, owns, gone>>

(* attach_stream.  A domain that wraps the firmware's tables writes nothing  *)
(* and refuses other streams.                                                *)
AttachStream(s) ==
  /\ domain \in {"bypass", "table", "firmware"}
  /\ domain \in {"bypass", "table"} => s # FwStream   \* its owner wraps it
  /\ CASE domain = "bypass" ->
            /\ tcr' = [tcr EXCEPT ![s] = "bypass"] /\ attached' = attached \cup {s}
            /\ UNCHANGED <<ttbr, tableLock>>
       [] domain = "firmware" ->
            /\ s = FwStream /\ attached' = attached \cup {s}
            /\ UNCHANGED <<ttbr, tcr, tableLock>>
       [] domain = "table" ->
            /\ tableLock = {} /\ tableLock' = {<<"attach", s>>}
            /\ ttbr' = [ttbr EXCEPT ![s] = "root"]
            /\ UNCHANGED <<tcr, attached>>
  /\ UNCHANGED <<bypassable, largePage, dpart, domain, l2, mapped, tlb, dpc, left, owns, gone>>

(* enable_translation after the base is written; a timeout is ignored. *)
EnableTranslation(s) ==
  /\ tableLock = {<<"attach", s>>}
  /\ tcr' = [tcr EXCEPT ![s] = "translate"]
  /\ tlb' \in {tlb, {}}
  /\ attached' = attached \cup {s} /\ tableLock' = {}
  /\ UNCHANGED <<bypassable, largePage, dpart, domain, ttbr, l2, mapped, dpc, left, owns, gone>>

DetachStream(s) ==
  /\ domain \in {"bypass", "table", "firmware"} /\ s \in attached
  /\ tcr' = IF domain = "firmware" THEN tcr ELSE [tcr EXCEPT ![s] = "off"]
  /\ attached' = attached \ {s}
  /\ UNCHANGED <<bypassable, largePage, dpart, domain, ttbr, l2, mapped, tlb, tableLock,
                 dpc, left, owns, gone>>

------------------------------------------------------------------------------
HasTable == domain \in {"table", "firmware"}

DartMap(t) ==
  /\ dpc[t] = "idle" /\ owns[t] = {} /\ HasTable /\ tableLock = {}
  /\ tableLock' = {<<"map", t>>} /\ left' = [left EXCEPT ![t] = PagesOf[t]]
  /\ dpc' = [dpc EXCEPT ![t] = "map"]
  /\ gone' = gone \ PageSet(t)
  /\ UNCHANGED <<streamVars, tableVars, owns>>

Advance(t, last) ==
  /\ left' = [left EXCEPT ![t] = Tail(@)]
  /\ IF Len(left[t]) = 1
     THEN tableLock' = {} /\ dpc' = [dpc EXCEPT ![t] = last]
     ELSE UNCHANGED <<tableLock, dpc>>

(* Mutant: a leaf table is allocated for every page. *)
MapPageFresh(t) ==
  /\ dpc[t] = "map"
  /\ LET p == Head(left[t])
     IN  mapped' = {q \in mapped : q[1] # p[1]} \cup {p} /\ l2' = l2 \cup {p[1]}
  /\ Advance(t, "mapFlush")
  /\ UNCHANGED <<streamVars, tlb, owns, gone>>

(* map_page: walk down, allocate the table that is missing, write the leaf. *)
MapPage(t) ==
  /\ dpc[t] = "map"
  /\ LET p == Head(left[t])
     IN  mapped' = mapped \cup {p} /\ l2' = l2 \cup {p[1]}
  /\ Advance(t, "mapFlush")
  /\ UNCHANGED <<streamVars, tlb, owns, gone>>

(* No memory for a table: the call fails, the pages already entered stay     *)
(* entered and nothing is invalidated.                                       *)
MapFails(t) ==
  /\ dpc[t] = "map" /\ Head(left[t])[1] \notin l2
  /\ tableLock' = {} /\ left' = [left EXCEPT ![t] = <<>>]
  /\ dpc' = [dpc EXCEPT ![t] = "idle"]
  /\ UNCHANGED <<streamVars, tableVars, owns, gone>>

(* invalidate_all_tlbs, which may not finish in time. *)
MapFlush(t) ==
  /\ dpc[t] = "mapFlush"
  /\ \/ tlb' = {} /\ owns' = [owns EXCEPT ![t] = PageSet(t)]
     \/ UNCHANGED <<tlb, owns>>
  /\ dpc' = [dpc EXCEPT ![t] = "idle"]
  /\ UNCHANGED <<streamVars, l2, mapped, tableLock, left, gone>>

DartUnmap(t) ==
  /\ dpc[t] = "idle" /\ owns[t] # {} /\ tableLock = {}
  /\ tableLock' = {<<"map", t>>} /\ left' = [left EXCEPT ![t] = PagesOf[t]]
  /\ owns' = [owns EXCEPT ![t] = {}] /\ dpc' = [dpc EXCEPT ![t] = "unmap"]
  /\ UNCHANGED <<streamVars, tableVars, gone>>

UnmapPage(t) ==
  /\ dpc[t] = "unmap"
  /\ mapped' = mapped \ {Head(left[t])}
  /\ Advance(t, "unmapFlush")
  /\ UNCHANGED <<streamVars, l2, tlb, owns, gone>>

(* Mutant: Ok without the invalidation. *)
UnmapNoFlush(t) ==
  /\ dpc[t] = "unmapFlush"
  /\ gone' = gone \cup PageSet(t)
  /\ dpc' = [dpc EXCEPT ![t] = "idle"]
  /\ UNCHANGED <<streamVars, tableVars, tableLock, left, owns>>

UnmapFlush(t) ==
  /\ dpc[t] = "unmapFlush"
  /\ \/ tlb' = {} /\ gone' = gone \cup PageSet(t)
     \/ UNCHANGED <<tlb, gone>>
  /\ dpc' = [dpc EXCEPT ![t] = "idle"]
  /\ UNCHANGED <<streamVars, l2, mapped, tableLock, left, owns>>

(* External: the device walks the tables and caches what is valid. *)
DeviceWalks(p) ==
  /\ HasTable /\ p \in mapped \ tlb
  /\ \E s \in attached : tcr[s] = "translate"
  /\ tlb' = tlb \cup {p}
  /\ UNCHANGED <<streamVars, l2, mapped, tableLock, dpc, left, owns, gone>>

DartNext ==
  \/ DartProbe \/ WrapExisting \/ \E identity \in BOOLEAN : AllocDomain(identity)
  \/ \E s \in Streams : AttachStream(s) \/ EnableTranslation(s) \/ DetachStream(s)
  \/ \E t \in DartTasks :
       \/ DartMap(t) \/ MapPage(t) \/ MapFails(t) \/ MapFlush(t)
       \/ DartUnmap(t) \/ UnmapPage(t) \/ UnmapFlush(t)
  \/ \E p \in mapped : DeviceWalks(p)

DartSpec == DartInit /\ [][DartNext]_dartVars

------------------------------------------------------------------------------
(* unmap returns Ok after the invalidation, so the driver may give the page  *)
(* to somebody else: the device reaches it neither through the table nor     *)
(* through its cache, whatever other drivers map and unmap meanwhile.        *)
UnmappedIsUnreachable == gone \cap (mapped \cup tlb) = {}

(* A page a driver was told is mapped stays mapped while others map pages of *)
(* the same leaf table, fail half way or unmap theirs; so do the firmware's. *)
MappingsKept ==
  /\ \A t \in DartTasks : owns[t] \subseteq mapped
  /\ domain = "firmware" => FwPages \subseteq mapped

(* The stream the firmware set up keeps its translation base and stays       *)
(* enabled through probe, wrap, attach and detach.                           *)
FirmwareStreamKept ==
  [][ttbr'[FwStream] = ttbr[FwStream] /\ tcr'[FwStream] = tcr[FwStream]]_dartVars

(* The IOMMU under several drivers and the firmware: what was unmapped is out  *)
(* of reach, what is mapped stays, and the firmware's stream is left alone.    *)
MappingsAreKept == [](UnmappedIsUnreachable /\ MappingsKept) /\ FirmwareStreamKept

=============================================================================
