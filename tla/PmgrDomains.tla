----------------------------- MODULE PmgrDomains ------------------------------
(* Power domains of the Apple power manager, drivers/soc/apple-pmgr.         *)
(*                                                                           *)
(* Each domain is one register: the state asked for (target), the state the  *)
(* hardware is in (actual), a device-disable and a reset bit.  All changes   *)
(* are read-modify-write sequences under the block's register lock; enable   *)
(* first enables the domain's registered parents, one after the other.       *)
(* The hardware follows the target in its own time and may be too slow for   *)
(* the driver's poll.                                                        *)
EXTENDS Naturals, Sequences, SequencesExt

CONSTANTS
  Domains,     \* the domains of one block
  Parents,     \* parent_phandles: a sequence of domains for each domain
  AlwaysOn,    \* domains marked apple,always-on
  PmUsers,     \* tasks that switch domains
  Leaves,      \* for each user the domain it switches off again
  MaySlow      \* whether a poll may run out

(* What a driver switches off is a domain of its own, nobody's parent: the     *)
(* power manager does not count users.                                         *)
ASSUME PmAssumption ==
  /\ Parents \in [Domains -> Seq(Domains)] /\ AlwaysOn \subseteq Domains
  /\ Leaves \in [PmUsers -> Domains] /\ MaySlow \in BOOLEAN
  /\ \A u \in PmUsers : \A d \in Domains : \A i \in DOMAIN Parents[d] : Parents[d][i] # Leaves[u]

VARIABLES
  target,      \* PS_TARGET: "on" or "off"
  actual,      \* PS_ACTUAL
  quiet,       \* PMGR_DEVICE_DISABLE is set
  inReset,     \* PMGR_RESET is set
  regLock,     \* the user inside a register sequence, in a set
  upc,         \* where each user is
  todo,        \* its calls of enable, outermost first: a domain and its next parent
  slow         \* domains whose last poll ran out

pmVars == <<target, actual, quiet, inReset, regLock, upc, todo, slow>>

(* The registers are as the boot loader left them. *)
Powered(d) == d \in AlwaysOn \/ actual[d] = "on"
ParentsPowered(d) == \A i \in DOMAIN Parents[d] : Powered(Parents[d][i])
PmInit ==
  /\ target \in [Domains -> {"on", "off"}] /\ actual = target
  /\ \A d \in Domains : target[d] = "on" => ParentsPowered(d)
  /\ quiet = [d \in Domains |-> FALSE] /\ inReset = [d \in Domains |-> FALSE]
  /\ regLock = {}
  /\ upc = [u \in PmUsers |-> "idle"] /\ todo = [u \in PmUsers |-> <<>>]
  /\ slow = {}

Call(d) == [domain |-> d, next |-> 1]
Current(u) == Last(todo[u]).domain
Begins(u, what, d) == upc' = [upc EXCEPT ![u] = what] /\ todo' = [todo EXCEPT ![u] = <<Call(d)>>]

EnableDomain(u, d) ==
  /\ upc[u] = "idle" /\ Begins(u, "enable", d)
  /\ UNCHANGED <<target, actual, quiet, inReset, regLock, slow>>

(* Mutant: the domain first. *)
NoParentsLeft(f) == TRUE

(* enable_domain enables the domain's parents in turn, and theirs first, and   *)
(* then the domain itself.                                                     *)
ParentsDone(f) == f.next > Len(Parents[f.domain])
EnableParent(u) ==
  /\ upc[u] = "enable" /\ ~ParentsDone(Last(todo[u]))
  /\ LET f == Last(todo[u])
     IN  todo' = [todo EXCEPT ![u] = Append([@ EXCEPT ![Len(@)].next = f.next + 1], Call(Parents[f.domain][f.next]))]
  /\ UNCHANGED <<target, actual, quiet, inReset, regLock, upc, slow>>
OwnTurn(u) == upc[u] = "disable" \/ (upc[u] = "enable" /\ ParentsDone(Last(todo[u])))

DomainDone(u) == /\ upc' = [upc EXCEPT ![u] = "idle"] /\ todo' = [todo EXCEPT ![u] = <<>>]
CallDone(u) ==
  IF Len(todo[u]) = 1 THEN DomainDone(u)
  ELSE upc' = [upc EXCEPT ![u] = "enable"] /\ todo' = [todo EXCEPT ![u] = Front(@)]

(* enable_domain_local and disable_domain_local return at once when the      *)
(* hardware is already in the state asked for.                               *)
AlreadyThere(u) ==
  /\ OwnTurn(u) /\ regLock = {}
  /\ LET d == Current(u)
     IN  d \in AlwaysOn \/ actual[d] = (IF upc[u] = "enable" THEN "on" ELSE "off")
  /\ CallDone(u)
  /\ UNCHANGED <<target, actual, quiet, inReset, regLock, slow>>

(* Mutant: Ok as soon as the target is written. *)
WriteNoPoll(u) ==
  /\ OwnTurn(u) /\ regLock = {}
  /\ LET d == Current(u)
         s == IF upc[u] = "enable" THEN "on" ELSE "off"
     IN  /\ d \notin AlwaysOn /\ actual[d] # s
         /\ target' = [target EXCEPT ![d] = s]
         /\ slow' = slow \ {d}
  /\ CallDone(u)
  /\ UNCHANGED <<actual, quiet, inReset, regLock>>

(* Otherwise write the target and poll, with the lock held. *)
WriteTarget(u) ==
  /\ OwnTurn(u) /\ regLock = {}
  /\ LET d == Current(u)
         s == IF upc[u] = "enable" THEN "on" ELSE "off"
     IN  /\ d \notin AlwaysOn /\ actual[d] # s
         /\ target' = [target EXCEPT ![d] = s]
         /\ slow' = slow \ {d}
  /\ regLock' = {u}
  /\ upc' = [upc EXCEPT ![u] = IF @ = "enable" THEN "pollOn" ELSE "pollOff"]
  /\ UNCHANGED <<actual, quiet, inReset, todo>>

StateReached(u) ==
  /\ \/ upc[u] = "pollOn" /\ actual[Current(u)] = "on"
     \/ upc[u] = "pollOff" /\ actual[Current(u)] = "off"
  /\ regLock' = {} /\ CallDone(u)
  /\ UNCHANGED <<target, actual, quiet, inReset, slow>>

(* A thousand reads without the state: an error, and the target stays. *)
PollRunsOut(u) ==
  /\ upc[u] \in {"pollOn", "pollOff"}
  /\ actual[Current(u)] # (IF upc[u] = "pollOn" THEN "on" ELSE "off")
  /\ MaySlow
  /\ slow' = slow \cup {Current(u)} /\ regLock' = {}
  /\ DomainDone(u)
  /\ UNCHANGED <<target, actual, quiet, inReset>>

DisableDomain(u) ==
  /\ upc[u] = "idle" /\ Begins(u, "disable", Leaves[u])
  /\ UNCHANGED <<target, actual, quiet, inReset, regLock, slow>>

(* reset: assert in two writes, a pause without the lock, deassert in two. *)
ResetDomain(u) ==
  /\ upc[u] = "idle" /\ regLock = {}
  /\ quiet' = [quiet EXCEPT ![Leaves[u]] = TRUE]
  /\ regLock' = {u}
  /\ Begins(u, "assert", Leaves[u])
  /\ UNCHANGED <<target, actual, inReset, slow>>

AssertReset(u) ==
  /\ upc[u] = "assert"
  /\ inReset' = [inReset EXCEPT ![Current(u)] = TRUE]
  /\ regLock' = {} /\ upc' = [upc EXCEPT ![u] = "pause"]
  /\ UNCHANGED <<target, actual, quiet, todo, slow>>

(* Mutant: the device is enabled while its reset is still asserted. *)
EnableThenRelease(u) ==
  /\ upc[u] = "pause" /\ regLock = {}
  /\ quiet' = [quiet EXCEPT ![Current(u)] = FALSE]
  /\ regLock' = {u} /\ upc' = [upc EXCEPT ![u] = "release"]
  /\ UNCHANGED <<target, actual, inReset, todo, slow>>

ReleaseReset(u) ==
  /\ upc[u] = "pause" /\ regLock = {}
  /\ inReset' = [inReset EXCEPT ![Current(u)] = FALSE]
  /\ regLock' = {u} /\ upc' = [upc EXCEPT ![u] = "release"]
  /\ UNCHANGED <<target, actual, quiet, todo, slow>>

EnableDevice(u) ==
  /\ upc[u] = "release"
  /\ quiet' = [quiet EXCEPT ![Current(u)] = FALSE]
  /\ regLock' = {} /\ DomainDone(u)
  /\ UNCHANGED <<target, actual, inReset, slow>>

(* External: a domain reaches its target. *)
PowerSettles(d) ==
  /\ actual[d] # target[d]
  /\ actual' = [actual EXCEPT ![d] = target[d]]
  /\ UNCHANGED <<target, quiet, inReset, regLock, upc, todo, slow>>

PmNext ==
  \/ \E u \in PmUsers :
       \/ (\E d \in Domains : EnableDomain(u, d)) \/ EnableParent(u) \/ DisableDomain(u) \/ ResetDomain(u)
       \/ AlreadyThere(u) \/ WriteTarget(u) \/ StateReached(u) \/ PollRunsOut(u)
       \/ AssertReset(u) \/ ReleaseReset(u) \/ EnableDevice(u)
  \/ \E d \in Domains : PowerSettles(d)

PmSpec == PmInit /\ [][PmNext]_pmVars

------------------------------------------------------------------------------
(* A domain is powered only with its parents: enable brings the parents up   *)
(* first, polls them, and gives up on the domain when one of them fails.     *)
ParentsFirst == \A d \in Domains : target[d] = "on" => ParentsPowered(d)

(* Register sequences of several users on one register, each a read and a    *)
(* write of the whole word: a device in reset is a disabled device.          *)
QuietInReset == \A d \in Domains : inReset[d] => quiet[d]

(* A switch that returns Ok means the domain stays in the state asked for.   *)
(* The early return looks at the actual state only, so this holds of the     *)
(* domains whose last poll did not run out; of those it does not: a late     *)
(* domain still follows the abandoned target.                                *)
SettledUnlessSlow ==
  \A u \in PmUsers : LET d == Leaves[u]
                     IN  upc[u] = "idle" /\ regLock = {} /\ d \notin slow => actual[d] = target[d]

(* Power domains under several users: parents before children, quiet before    *)
(* reset, and a switch that returned Ok stays, unless its last poll ran out.   *)
PowerIsOrdered == ParentsFirst /\ QuietInReset /\ SettledUnlessSlow

=============================================================================
