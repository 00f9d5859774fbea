---------------------------- MODULE AicInterrupts -----------------------------
(* The Apple interrupt controller and the per-CPU fast interrupt sources,    *)
(* drivers/pic/apple-aic.                                                    *)
(*                                                                           *)
(* Device interrupts are level triggered: reading the event register hands   *)
(* one to the reading CPU and masks it; the flow layer unmasks it after the  *)
(* handler.  Timers, performance counters and, on the fast transport, the    *)
(* inter-processor interrupt reach a CPU through its FIQ line: the driver    *)
(* reads all sources and then acknowledges what it saw, one register at a    *)
(* time.  Devices, timers and the kernel's flow layer are external.          *)
EXTENDS Naturals, FiniteSets

CONSTANTS
  Cpus,          \* CPUs
  BootCpu,       \* the one that probes the controller
  Irqs,          \* device interrupt lines
  MaxRaises      \* bound: times a source is raised and an IPI is sent, in all

VARIABLES
  fastIpi,       \* IPIs use the FIQ registers (t8103) or the event register
  unmasked,      \* lines not masked
  affinity,      \* AIC_TARGET_CPU of each line
  asserted,      \* external: lines a device holds up
  asked,         \* what the last finished enable_interrupt named for a line
  enabling,      \* enable_interrupt between its two writes: line and CPU
  cpc,           \* where each CPU is
  serving,       \* the line a CPU handles
  known,         \* CPU_MPIDR_VALID
  sources,       \* FIQ sources, or the IPI bit, pending at each CPU
  seen,          \* the sources claim_pending read
  owed,          \* history: ticks and IPIs the CPU has not acted upon yet
  raises         \* sources and IPIs so far

aicVars == <<fastIpi, unmasked, affinity, asserted, asked, enabling, cpc, serving,
             known, sources, seen, owed, raises>>

NoLine == "none"
Host == "host timer"
Ipi == "ipi"
Guest == "guest timer"          \* stands for the counters' interrupts too
Acknowledged == {Guest, Ipi}    \* what claim_pending clears

AicInit ==
  /\ fastIpi \in BOOLEAN
  /\ unmasked = {} /\ affinity = [i \in Irqs |-> BootCpu] /\ asserted = {}
  /\ asked = [i \in Irqs |-> NoLine] /\ enabling = {}
  /\ cpc = [c \in Cpus |-> IF c = BootCpu THEN "run" ELSE "down"]
  /\ serving = [c \in Cpus |-> NoLine] /\ known = {BootCpu}
  /\ sources = [c \in Cpus |-> {}] /\ seen = [c \in Cpus |-> {}]
  /\ owed = [c \in Cpus |-> {}] /\ raises = 0

------------------------------------------------------------------------------
(* init_for_cpu and prepare_cpu *)
PublishMpidr(c) ==
  /\ cpc[c] = "down"
  /\ known' = known \cup {c} /\ cpc' = [cpc EXCEPT ![c] = "prepare"]
  /\ UNCHANGED <<fastIpi, unmasked, affinity, asserted, asked, enabling, serving,
                 sources, seen, owed, raises>>

(* Every source is masked or cleared, also an IPI that came since the CPU's  *)
(* MPIDR was published; the CPU goes on to its scheduler by itself.          *)
ClearSources(c) ==
  /\ cpc[c] = "prepare"
  /\ sources' = [sources EXCEPT ![c] = {}] /\ owed' = [owed EXCEPT ![c] = {}]
  /\ cpc' = [cpc EXCEPT ![c] = "run"]
  /\ UNCHANGED <<fastIpi, unmasked, affinity, asserted, asked, enabling, serving,
                 known, seen, raises>>

(* send_ipi: refused for a CPU whose MPIDR is not known yet. *)
SendIpi(c) ==
  /\ raises < MaxRaises
  /\ fastIpi => c \in known
  /\ sources' = [sources EXCEPT ![c] = @ \cup {Ipi}]
  /\ owed' = [owed EXCEPT ![c] = @ \cup {Ipi}]
  /\ raises' = raises + 1
  /\ UNCHANGED <<fastIpi, unmasked, affinity, asserted, asked, enabling, cpc, serving,
                 known, seen>>

------------------------------------------------------------------------------
(* External: a tick of the host timer, another source, a device. *)
RaiseSource(c, s) ==
  /\ cpc[c] # "down" /\ s \notin sources[c]
  /\ raises < MaxRaises
  /\ sources' = [sources EXCEPT ![c] = @ \cup {s}]
  /\ owed' = [owed EXCEPT ![c] = @ \cup ({s} \cap {Host})]
  /\ raises' = raises + 1
  /\ UNCHANGED <<fastIpi, unmasked, affinity, asserted, asked, enabling, cpc, serving,
                 known, seen>>

DeviceAsserts(i) ==
  /\ asserted' = asserted \cup {i}
  /\ UNCHANGED <<fastIpi, unmasked, affinity, asked, enabling, cpc, serving, known,
                 sources, seen, owed, raises>>

------------------------------------------------------------------------------
(* The FIQ: the trap handler runs the host timer before claim_pending. *)
FiqSources(c) == IF fastIpi THEN sources[c] ELSE sources[c] \ {Ipi}

TrapTimer(c) ==
  /\ cpc[c] = "run" /\ FiqSources(c) # {}
  /\ sources' = [sources EXCEPT ![c] = @ \ {Host}]
  /\ owed' = [owed EXCEPT ![c] = @ \ {Host}]
  /\ cpc' = [cpc EXCEPT ![c] = "trap"]
  /\ UNCHANGED <<fastIpi, unmasked, affinity, asserted, asked, enabling, serving,
                 known, seen, raises>>

ReadSources(c) ==
  /\ cpc[c] = "trap"
  /\ seen' = [seen EXCEPT ![c] = FiqSources(c)]
  /\ cpc' = [cpc EXCEPT ![c] = "fiq"]
  /\ UNCHANGED <<fastIpi, unmasked, affinity, asserted, asked, enabling, serving,
                 known, sources, owed, raises>>

(* Mutants: every source that was read is masked, the host timer too; the    *)
(* IPI is acknowledged whether it was read or not.                           *)
ClaimAll(c) ==
  /\ cpc[c] = "fiq"
  /\ sources' = [sources EXCEPT ![c] = @ \ seen[c]]
  /\ owed' = [owed EXCEPT ![c] = @ \ (seen[c] \cap {Ipi})]
  /\ seen' = [seen EXCEPT ![c] = {}] /\ cpc' = [cpc EXCEPT ![c] = "run"]
  /\ UNCHANGED <<fastIpi, unmasked, affinity, asserted, asked, enabling, serving,
                 known, raises>>

ClaimUnseenIpi(c) ==
  /\ cpc[c] = "fiq"
  /\ sources' = [sources EXCEPT ![c] = @ \ ((seen[c] \cap Acknowledged) \cup {Ipi})]
  /\ owed' = [owed EXCEPT ![c] = @ \ (seen[c] \cap {Ipi})]
  /\ seen' = [seen EXCEPT ![c] = {}] /\ cpc' = [cpc EXCEPT ![c] = "run"]
  /\ UNCHANGED <<fastIpi, unmasked, affinity, asserted, asked, enabling, serving,
                 known, raises>>

(* claim_pending: acknowledge what was read, the host timer excepted.  With  *)
(* an IPI among it the claim asks for a reschedule.                          *)
ClaimPending(c) ==
  /\ cpc[c] = "fiq"
  /\ sources' = [sources EXCEPT ![c] = @ \ (seen[c] \cap Acknowledged)]
  /\ owed' = [owed EXCEPT ![c] = @ \ (seen[c] \cap {Ipi})]
  /\ seen' = [seen EXCEPT ![c] = {}] /\ cpc' = [cpc EXCEPT ![c] = "run"]
  /\ UNCHANGED <<fastIpi, unmasked, affinity, asserted, asked, enabling, serving,
                 known, raises>>

------------------------------------------------------------------------------
(* Mutant: the target register is not written. *)
EnableNoTarget(i, c) ==
  /\ enabling = {}
  /\ asked[i] \in {NoLine, c} /\ \A d \in Cpus : serving[d] = i => d = c
  /\ enabling' = {<<i, c>>}
  /\ UNCHANGED <<fastIpi, unmasked, affinity, asserted, asked, cpc, serving, known,
                 sources, seen, owed, raises>>

(* enable_interrupt: the target first, then the mask.  A line shared by      *)
(* several pins is enabled again for each of them, on the same CPU.          *)
EnableTarget(i, c) ==
  /\ enabling = {}
  /\ asked[i] \in {NoLine, c} /\ \A d \in Cpus : serving[d] = i => d = c
  /\ affinity' = [affinity EXCEPT ![i] = c]
  /\ enabling' = {<<i, c>>}
  /\ UNCHANGED <<fastIpi, unmasked, asserted, asked, cpc, serving, known, sources,
                 seen, owed, raises>>

EnableUnmask ==
  \E p \in enabling :
    /\ unmasked' = unmasked \cup {p[1]}
    /\ asked' = [asked EXCEPT ![p[1]] = p[2]]
    /\ enabling' = {}
    /\ UNCHANGED <<fastIpi, affinity, asserted, cpc, serving, known, sources, seen,
                   owed, raises>>

DisableLine(i) ==
  /\ i \in unmasked /\ enabling = {} /\ \A c \in Cpus : serving[c] # i
  /\ unmasked' = unmasked \ {i} /\ asked' = [asked EXCEPT ![i] = NoLine]
  /\ UNCHANGED <<fastIpi, affinity, asserted, enabling, cpc, serving, known, sources,
                 seen, owed, raises>>

(* claim_event: the read takes the line and masks it. *)
ClaimLine(c) ==
  /\ cpc[c] = "run"
  /\ \E i \in asserted \cap unmasked :
       /\ affinity[i] = c
       /\ unmasked' = unmasked \ {i}
       /\ serving' = [serving EXCEPT ![c] = i]
  /\ cpc' = [cpc EXCEPT ![c] = "serve"]
  /\ UNCHANGED <<fastIpi, affinity, asserted, asked, enabling, known, sources, seen,
                 owed, raises>>

(* claim_event on the slow transport: the IPI is acknowledged, then unmasked *)
(* again; one that comes between the two is pending anew.                    *)
ClaimIpiEvent(c) ==
  /\ cpc[c] = "run" /\ ~fastIpi /\ Ipi \in sources[c]
  /\ sources' = [sources EXCEPT ![c] = @ \ {Ipi}]
  /\ owed' = [owed EXCEPT ![c] = @ \ {Ipi}]
  /\ UNCHANGED <<fastIpi, unmasked, affinity, asserted, asked, enabling, cpc, serving,
                 known, seen, raises>>

(* External: the handler quiets the device, or not; then the flow layer ends *)
(* the interrupt and unmask_irq lets the line through again.                 *)
HandlerRuns(c) ==
  /\ cpc[c] = "serve"
  /\ asserted' \in {asserted, asserted \ {serving[c]}}
  /\ cpc' = [cpc EXCEPT ![c] = "eoi"]
  /\ UNCHANGED <<fastIpi, unmasked, affinity, asked, enabling, serving, known, sources,
                 seen, owed, raises>>

(* Mutant: the line stays masked. *)
EoiOnly(c) ==
  /\ cpc[c] = "eoi"
  /\ serving' = [serving EXCEPT ![c] = NoLine] /\ cpc' = [cpc EXCEPT ![c] = "run"]
  /\ UNCHANGED <<fastIpi, unmasked, affinity, asserted, asked, enabling, known, sources,
                 seen, owed, raises>>

UnmaskIrq(c) ==
  /\ cpc[c] = "eoi"
  /\ unmasked' = unmasked \cup {serving[c]}
  /\ serving' = [serving EXCEPT ![c] = NoLine] /\ cpc' = [cpc EXCEPT ![c] = "run"]
  /\ UNCHANGED <<fastIpi, affinity, asserted, asked, enabling, known, sources, seen,
                 owed, raises>>

------------------------------------------------------------------------------
Fiq(c) == TrapTimer(c) \/ ReadSources(c) \/ ClaimPending(c)
Irq(c) == ClaimLine(c) \/ ClaimIpiEvent(c) \/ HandlerRuns(c) \/ UnmaskIrq(c)

AicNext ==
  \/ \E c \in Cpus :
       \/ PublishMpidr(c) \/ ClearSources(c) \/ SendIpi(c) \/ Fiq(c) \/ Irq(c)
       \/ \E s \in {Host, Guest} : RaiseSource(c, s)
       \/ \E i \in Irqs : EnableTarget(i, c)
  \/ \E i \in Irqs : DeviceAsserts(i) \/ DisableLine(i)
  \/ EnableUnmask

AicSpec == AicInit /\ [][AicNext]_aicVars

(* A CPU that is up takes its interrupts and ends what it started.  A source *)
(* waits only for lines, which may come for ever; sources are raised a       *)
(* bounded number of times, so a line need not be favoured over them.        *)
AicFairness ==
  \A c \in Cpus : /\ SF_aicVars(TrapTimer(c) \/ ClaimIpiEvent(c)) /\ WF_aicVars(ClaimLine(c))
                  /\ WF_aicVars(ReadSources(c) \/ ClaimPending(c) \/ ClearSources(c))
                  /\ WF_aicVars(HandlerRuns(c) \/ UnmaskIrq(c))

------------------------------------------------------------------------------
(* A device interrupt goes to the CPU the enable named, never to the one the *)
(* line had before: the line is let through after its target is written.     *)
ServedByTarget ==
  [][\A c \in Cpus : serving[c] = NoLine /\ serving'[c] # NoLine =>
       asked[serving'[c]] = c \/ <<serving'[c], c>> \in enabling]_aicVars

(* Masked by the read of the event, a line that is still or again asserted   *)
(* after its handler is served again.                                        *)
LineServed ==
  \A i \in Irqs, c \in Cpus :
    []<>(i \in asserted /\ asked[i] = c /\ cpc[c] # "down" => serving[c] = i)

(* No tick and no IPI is swallowed: what comes between the read and the      *)
(* acknowledgement stays pending, and the host timer is left to the trap     *)
(* handler.                                                                  *)
NothingSwallowed ==
  \A c \in Cpus : \A s \in {Host, Ipi} :
    []<>(s \in owed[c] => cpc[c] = "down")
=============================================================================
