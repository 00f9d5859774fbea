------------------------------ MODULE ClockRates ------------------------------
(* The clock of the audio hardware and the performance states of the CPUs. *)
EXTENDS Integers, FiniteSets, Sequences, SequencesExt

(* One channel of the numerically controlled oscillator,                     *)
(* drivers/clk/apple-nco.                                                    *)
(*                                                                           *)
(* A rate is a divisor and two increments, three registers written under the *)
(* channel's lock with the output off.  The coarse part of the divisor is    *)
(* written as the state of an 11-bit shift register that is run as often as  *)
(* the divisor says; translate_div runs it down from the period to the wanted*)
(* index.  The registers are W wide (2^32 in the code).                      *)

CONSTANTS
  ClkUsers,      \* tasks that set rates and switch the output
  Rates,         \* rates they ask for
  ParentRates,   \* rates the reference clock may have
  W              \* 2 to the register width

ASSUME NcoAssumption == Rates \subseteq Nat /\ ParentRates \subseteq Nat /\ W \in Nat \ {0, 1}

VARIABLES
  parentRate,    \* rate of the reference clock
  outOn,         \* CTRL_ENABLE
  wasOn,         \* was_enabled
  regDiv, inc1, inc2,
  divOf, incOf,  \* history: the rates regDiv and the increments were written for
  nlock,         \* holder of the channel's lock, in a set
  npc,           \* where each task is
  asking,        \* the rate its set_rate was given
  lfsr, index    \* the shift register and the index translate_div is at

ncoVars == <<parentRate, outOn, wasOn, regDiv, inc1, inc2, divOf, incOf, nlock, npc,
             asking, lfsr, index>>
regVars == <<outOn, wasOn, regDiv, inc1, inc2, divOf, incOf>>

CoarseOffset == 2
LfsrPeriod == 2047
Neutral == W \div 2

(* div_out_of_range; the mutant is off by one at the lower end. *)
DivInRangeAbove(div) == div \div 4 \in CoarseOffset + 1 .. CoarseOffset + LfsrPeriod
DivInRange(div) == div \div 4 \in CoarseOffset .. CoarseOffset + LfsrPeriod

DivOf(rate) == (2 * parentRate) \div rate

NcoInit ==
  /\ parentRate \in ParentRates
  /\ outOn \in BOOLEAN /\ wasOn = FALSE
  /\ regDiv = 0 /\ inc1 = 0 /\ inc2 = 0 /\ divOf = 0 /\ incOf = 0
  /\ nlock = {} /\ npc = [t \in ClkUsers |-> "idle"] /\ asking = [t \in ClkUsers |-> 0]
  /\ lfsr = LfsrPeriod /\ index = LfsrPeriod

------------------------------------------------------------------------------
(* set_rate refuses a rate of zero, one whose divisor is out of range, and a *)
(* reference clock that does not run.                                        *)
SetRate(t, rate) ==
  /\ npc[t] = "idle" /\ parentRate > 0 /\ rate > 0 /\ rate < W
  /\ DivInRange(DivOf(rate))
  /\ asking' = [asking EXCEPT ![t] = rate] /\ npc' = [npc EXCEPT ![t] = "off"]
  /\ UNCHANGED <<parentRate, regVars, nlock, lfsr, index>>

(* Mutant: the output stays on. *)
LockOnly(t) ==
  /\ npc[t] = "off" /\ nlock = {}
  /\ nlock' = {t} /\ wasOn' = outOn
  /\ npc' = [npc EXCEPT ![t] = "div"]
  /\ UNCHANGED <<parentRate, outOn, regDiv, inc1, inc2, divOf, incOf, asking, lfsr, index>>

LockAndStop(t) ==
  /\ npc[t] = "off" /\ nlock = {}
  /\ nlock' = {t} /\ wasOn' = outOn /\ outOn' = FALSE
  /\ npc' = [npc EXCEPT ![t] = "div"]
  /\ UNCHANGED <<parentRate, regDiv, inc1, inc2, divOf, incOf, asking, lfsr, index>>

WriteDiv(t) ==
  /\ npc[t] = "div"
  /\ regDiv' = DivOf(asking[t]) /\ divOf' = asking[t]
  /\ npc' = [npc EXCEPT ![t] = "inc"]
  /\ UNCHANGED <<parentRate, outOn, wasOn, inc1, inc2, incOf, nlock, asking, lfsr, index>>

(* Mutant: the increments are the rate and the remainder the wrong way round. *)
SwapIncrements(t) ==
  /\ npc[t] = "inc"
  /\ LET rest == 2 * parentRate - DivOf(asking[t]) * asking[t]
     IN  inc1' = asking[t] % W /\ inc2' = (asking[t] - rest) % W
  /\ incOf' = asking[t] /\ npc' = [npc EXCEPT ![t] = "on"]
  /\ UNCHANGED <<parentRate, outOn, wasOn, regDiv, divOf, nlock, asking, lfsr, index>>

WriteIncrements(t) ==
  /\ npc[t] = "inc"
  /\ LET rest == 2 * parentRate - DivOf(asking[t]) * asking[t]
     IN  inc1' = rest % W /\ inc2' = (rest - asking[t]) % W
  /\ incOf' = asking[t] /\ npc' = [npc EXCEPT ![t] = "on"]
  /\ UNCHANGED <<parentRate, outOn, wasOn, regDiv, divOf, nlock, asking, lfsr, index>>

RestoreOutput(t) ==
  /\ npc[t] = "on"
  /\ outOn' = wasOn /\ wasOn' = FALSE
  /\ nlock' = {} /\ npc' = [npc EXCEPT ![t] = "idle"] /\ asking' = [asking EXCEPT ![t] = 0]
  /\ UNCHANGED <<parentRate, regDiv, inc1, inc2, divOf, incOf, lfsr, index>>

(* enable and disable, under the lock too. *)
SwitchOutput(t) ==
  /\ npc[t] = "idle" /\ nlock = {}
  /\ outOn' = ~outOn
  /\ UNCHANGED <<parentRate, wasOn, regDiv, inc1, inc2, divOf, incOf, nlock, npc, asking,
                 lfsr, index>>

(* recalc_rate, without the lock. *)
RecalcRate ==
  IF parentRate = 0 \/ inc1 >= Neutral \/ inc2 < Neutral THEN 0
  ELSE LET base == (inc1 - inc2) % W
       IN  (2 * parentRate * base) \div (regDiv * base + inc1)

(* round_rate *)
RoundRate(rate) ==
  LET lo == parentRate \div (CoarseOffset + LfsrPeriod + 1) + 1
      hi == parentRate \div CoarseOffset
  IN  IF rate < lo THEN lo ELSE IF rate > hi THEN hi ELSE rate

------------------------------------------------------------------------------
(* Mutant: the feedback is not shifted with the state. *)
ShiftUnaligned ==
  /\ index > 0
  /\ LET half == lfsr \div 2
     IN  lfsr' = IF lfsr % 2 = 0 THEN half
                 ELSE (IF (half \div 512) % 2 = 1 THEN half - 512 ELSE half + 512)
  /\ index' = index - 1
  /\ UNCHANGED <<parentRate, regVars, nlock, npc, asking>>

(* The loop of lfsr_state_for_coarse and coarse_for_lfsr_state: shift, and   *)
(* feed the bit that falls out back at bits 10 and 8.                        *)
Shift ==
  /\ index > 0
  /\ LET half == lfsr \div 2
     IN  lfsr' = IF lfsr % 2 = 0 THEN half
                 ELSE 1024 + (IF (half \div 256) % 2 = 1 THEN half - 256 ELSE half + 256)
  /\ index' = index - 1
  /\ UNCHANGED <<parentRate, regVars, nlock, npc, asking>>

(* The loop touches no register and is looked at by itself. *)
NcoNext ==
  \/ /\ index = LfsrPeriod
     /\ \E t \in ClkUsers :
          \/ \E r \in Rates : SetRate(t, r)
          \/ LockAndStop(t) \/ WriteDiv(t) \/ WriteIncrements(t) \/ RestoreOutput(t)
          \/ SwitchOutput(t)
  \/ regDiv = 0 /\ ~outOn /\ (\A t \in ClkUsers : npc[t] = "idle") /\ Shift

NcoSpec == NcoInit /\ [][NcoNext]_ncoVars

------------------------------------------------------------------------------
(* The output never runs on the divisor of one rate and the increments of    *)
(* another: with two users setting rates and switching the output it is on   *)
(* only when the three registers belong together.                            *)
OutputConsistent == outOn => divOf = incOf

(* What set_rate programs is the rate asked for, exactly, by the driver's    *)
(* own formula, as long as the rate is at most half the register's range.    *)
RateExact ==
  nlock = {} /\ incOf \in 1 .. Neutral => RecalcRate = incOf

(* A rounded rate is one set_rate accepts, up to a quarter of the reference  *)
(* rate; between a quarter and a half round_rate promises more than set_rate *)
(* accepts.                                                                  *)
RoundedAccepted ==
  \A r \in Rates : parentRate > 8 /\ RoundRate(r) \in 1 .. parentRate \div 4
                     => DivInRange(DivOf(RoundRate(r)))

(* The shift register passes every state once before it comes back: an index *)
(* and its state determine each other, so that the divisor read back is the  *)
(* divisor written.                                                          *)
IndexUnique == lfsr # 0 /\ (lfsr = LfsrPeriod <=> index \in {0, LfsrPeriod})

------------------------------------------------------------------------------
(* Cluster frequency domains, drivers/cpufreq/apple-soc.                     *)
(*                                                                           *)
(* The device tree is scanned once, by whoever comes first; a domain's       *)
(* registers are mapped on first use.  A P-state request waits until the     *)
(* command register is not busy and rewrites its fields, under the lock of   *)
(* the domain table.                                                         *)

CONSTANTS
  FreqTasks,     \* governor and frequency readers
  Clusters,      \* a sequence of domains: the nodes of the device tree
  OppsOf,        \* each node's operating points: records level, turbo
  Encoding,      \* its register layout: "s5l8960x", "t8103" or "t8112"
  BootLevel,     \* the level boot_opp names for it, 0 for none
  MaxDomains,    \* MAX_CPUFREQ_DOMAINS
  MaxOpps,       \* MAX_CPUFREQ_OPPS
  Levels         \* P-states the governor asks for

VARIABLES
  scanned,       \* SCANNED_FDT
  domains,       \* CPUFREQ_DOMAINS: the valid entries, in order
  scans,         \* history: how often the tree was scanned
  vaddr,         \* domains whose registers are mapped
  mapFailed,     \* domains whose mapping failed
  ps1, ps2,      \* the fields of each domain's command register
  busy,          \* APPLE_DVFS_CMD_BUSY
  running,       \* external: the level the cluster is at
  domLock,       \* holder of the table's lock, in a set
  fpc, freq      \* where each task is and its request, a pair

freqVars == <<scanned, domains, scans, vaddr, mapFailed, ps1, ps2, busy, running, domLock,
              fpc, freq>>
cmdVars == <<ps1, ps2, busy, running>>
scanVars == <<scanned, domains, scans>>
mapVars == <<vaddr, mapFailed>>

Nodes == {Clusters[i] : i \in DOMAIN Clusters}

FreqInit ==
  /\ scanned = FALSE /\ domains = <<>> /\ scans = 0
  /\ vaddr = {} /\ mapFailed = {}
  /\ ps1 = [n \in Nodes |-> 1] /\ ps2 = [n \in Nodes |-> 1]
  /\ busy = {} /\ running = [n \in Nodes |-> 1]
  /\ domLock = {} /\ fpc = [t \in FreqTasks |-> "idle"]
  /\ freq = [t \in FreqTasks |-> <<>>]

MaxPstate(n) == CASE Encoding[n] = "s5l8960x" -> 7
                  [] Encoding[n] = "t8112" -> 31
                  [] OTHER -> 15
HasPs2(n) == Encoding[n] = "t8103"
Width(n) == MaxPstate(n) + 1

(* load_domain_opps: turbo points are left out, and those past the table. *)
LoadedOpps(n) ==
  LET usable == SelectSeq(OppsOf[n], LAMBDA o : ~o.turbo)
  IN  SubSeq(usable, 1, IF Len(usable) < MaxOpps THEN Len(usable) ELSE MaxOpps)

(* opp_for_pstate and boot_opp *)
BootOpp(n) == \E i \in DOMAIN LoadedOpps(n) : LoadedOpps(n)[i].level = BootLevel[n]

------------------------------------------------------------------------------
(* Mutant: the flag is not looked at again under the lock. *)
ScanAgain(t) ==
  /\ fpc[t] = "scan" /\ domLock = {}
  /\ domains' = SubSeq(Clusters, 1, MaxDomains) /\ scans' = scans + 1
  /\ scanned' = TRUE /\ fpc' = [fpc EXCEPT ![t] = "find"]
  /\ UNCHANGED <<mapVars, cmdVars, domLock, freq>>

(* ensure_fdt_scanned, the slow path: look again under the lock. *)
ScanFdt(t) ==
  /\ fpc[t] = "scan" /\ domLock = {}
  /\ IF scanned THEN UNCHANGED scanVars
     ELSE /\ domains' = SubSeq(Clusters, 1, IF Len(Clusters) < MaxDomains
                                            THEN Len(Clusters) ELSE MaxDomains)
          /\ scans' = scans + 1 /\ scanned' = TRUE
  /\ fpc' = [fpc EXCEPT ![t] = "find"]
  /\ UNCHANGED <<mapVars, cmdVars, domLock, freq>>

(* set_domain_pstate of the policy layer; at boot, of the boot point. *)
SetPstate(t, n, level) ==
  /\ fpc[t] = "idle"
  /\ freq' = [freq EXCEPT ![t] = <<n, level>>]
  /\ fpc' = [fpc EXCEPT ![t] = IF scanned THEN "find" ELSE "scan"]
  /\ UNCHANGED <<scanVars, mapVars, cmdVars, domLock>>

BootPstate(t, n) == BootLevel[n] # 0 /\ BootOpp(n) /\ SetPstate(t, n, BootLevel[n])

(* ensure_mapped, tried once. *)
FindDomain(t) ==
  /\ fpc[t] = "find" /\ domLock = {}
  /\ LET n == freq[t][1]
     IN  \/ /\ \/ \A i \in DOMAIN domains : domains[i] # n
               \/ n \in mapFailed
            /\ fpc' = [fpc EXCEPT ![t] = "idle"] /\ UNCHANGED <<mapVars, domLock>>
         \/ /\ n \in Range(domains) \ (vaddr \cup mapFailed)
            /\ mapFailed' = mapFailed \cup {n}
            /\ fpc' = [fpc EXCEPT ![t] = "idle"] /\ UNCHANGED <<vaddr, domLock>>
         \/ /\ n \in Range(domains) \ mapFailed
            /\ vaddr' = vaddr \cup {n} /\ domLock' = {t}
            /\ fpc' = [fpc EXCEPT ![t] = "wait"] /\ UNCHANGED mapFailed
  /\ UNCHANGED <<scanVars, cmdVars, freq>>

(* wait_command_ready runs out of time. *)
BusyTimeout(t) ==
  /\ fpc[t] = "wait" /\ freq[t][1] \in busy
  /\ domLock' = {} /\ fpc' = [fpc EXCEPT ![t] = "idle"]
  /\ UNCHANGED <<scanVars, mapVars, cmdVars, freq>>

(* Mutants: the command is written while one is being worked off; the level  *)
(* is not limited to the field.                                              *)
CommandNow(t) ==
  /\ fpc[t] = "wait"
  /\ LET n == freq[t][1]
         level == IF freq[t][2] < MaxPstate(n) THEN freq[t][2] ELSE MaxPstate(n)
     IN  /\ ps1' = [ps1 EXCEPT ![n] = level]
         /\ ps2' = IF HasPs2(n) THEN [ps2 EXCEPT ![n] = level] ELSE ps2
         /\ busy' = busy \cup {n}
  /\ domLock' = {} /\ fpc' = [fpc EXCEPT ![t] = "idle"]
  /\ UNCHANGED <<scanVars, mapVars, running, freq>>

CommandUnlimited(t) ==
  /\ fpc[t] = "wait" /\ freq[t][1] \notin busy
  /\ LET n == freq[t][1]
     IN  /\ ps1' = [ps1 EXCEPT ![n] = freq[t][2] % Width(n)]
         /\ ps2' = IF HasPs2(n) THEN [ps2 EXCEPT ![n] = freq[t][2] % Width(n)] ELSE ps2
         /\ busy' = busy \cup {n}
  /\ domLock' = {} /\ fpc' = [fpc EXCEPT ![t] = "idle"]
  /\ UNCHANGED <<scanVars, mapVars, running, freq>>

Command(t) ==
  /\ fpc[t] = "wait" /\ freq[t][1] \notin busy
  /\ LET n == freq[t][1]
         level == IF freq[t][2] < MaxPstate(n) THEN freq[t][2] ELSE MaxPstate(n)
     IN  /\ ps1' = [ps1 EXCEPT ![n] = level % Width(n)]
         /\ ps2' = IF HasPs2(n) THEN [ps2 EXCEPT ![n] = level % Width(n)] ELSE ps2
         /\ busy' = busy \cup {n}
  /\ domLock' = {} /\ fpc' = [fpc EXCEPT ![t] = "idle"]
  /\ UNCHANGED <<scanVars, mapVars, running, freq>>

(* External: the cluster gets to the commanded level. *)
ClusterSwitches(n) ==
  /\ n \in busy
  /\ busy' = busy \ {n} /\ running' = [running EXCEPT ![n] = ps1[n]]
  /\ UNCHANGED <<scanVars, mapVars, ps1, ps2, domLock, fpc, freq>>

FreqNext ==
  \/ \E t \in FreqTasks :
       \/ \E n \in Nodes : BootPstate(t, n) \/ \E l \in Levels : SetPstate(t, n, l)
       \/ ScanFdt(t) \/ FindDomain(t) \/ BusyTimeout(t) \/ Command(t)
  \/ \E n \in Nodes : ClusterSwitches(n)

FreqSpec == FreqInit /\ [][FreqNext]_freqVars

------------------------------------------------------------------------------
(* Governor, readers and boot code may all come first: the tree is scanned   *)
(* once, so no domain is entered twice and none loses its mapping.           *)
ScannedOnce == scans <= 1 /\ Len(domains) <= MaxDomains

(* No command is overwritten while the cluster works on it. *)
NoCommandLost == [][\A n \in busy : ps1'[n] = ps1[n] /\ ps2'[n] = ps2[n]]_freqVars

(* A request beyond what the field holds is the fastest state, not a slow    *)
(* one by truncation, and both fields of a t8103 cluster agree.              *)
LevelIsClamped ==
  [][\A n \in Nodes : ps1'[n] # ps1[n] =>
       \E t \in FreqTasks : /\ freq[t] # <<>> /\ freq[t][1] = n
                            /\ ps1'[n] = (IF freq[t][2] < MaxPstate(n)
                                          THEN freq[t][2] ELSE MaxPstate(n))
                            /\ HasPs2(n) => ps2'[n] = ps1'[n]]_freqVars
===============================================================================
