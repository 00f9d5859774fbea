------------------------------ MODULE TypecPort -------------------------------
(* The CD321x Type-C controller as its driver sees it (usb/typec/apple-cd321x): *)
(* the probe's command to power the port, and snapshots of the port's state by  *)
(* other drivers.  Each register is one I2C transfer, which may fail; the       *)
(* controller's firmware and the cable are external.                            *)
EXTENDS Naturals

CONSTANTS
  MaxTcReplugs,   \* changes at the connector
  MaxTcFaults     \* transfers that fail, answers that do not come in time

VARIABLES
  sysPower,    \* SYSTEM_POWER_STATE: 0 is S0
  cmd1,        \* CMD1: "none", "!CMD", or the command that runs: "SSPS", "boot" (its predecessor's)
  data1,       \* DATA1: whose value it holds
  plug,        \* STATUS: "none", "normal" or "reverse"
  alt,         \* DATA_STATUS: "none", "usb3", or the negotiated pin assignment
  tcAt,        \* where the driver is
  tcSnap,      \* registers read so far in this snapshot
  tcHeld,      \* history: what DATA_STATUS held since the snapshot began
  tcOut,       \* history: the result of the last snapshot
  tcRan,       \* history: commands whose input was exchanged while they ran
  tcReplugs, tcFaults

tcVars == <<sysPower, cmd1, data1, plug, alt, tcAt, tcSnap, tcHeld, tcOut, tcRan, tcReplugs, tcFaults>>

Pins6 == {"A", "B", "C", "D", "E", "F"}
NoResult == [kind |-> "none"]

TcInit ==
  /\ sysPower \in {0, 5} /\ cmd1 \in {"none", "!CMD", "boot"}
  /\ data1 = (IF cmd1 = "boot" THEN "boot" ELSE "old")
  /\ plug \in {"none", "normal"} /\ alt \in (IF plug = "none" THEN {"none"} ELSE {"none", "usb3", "C", "D"})
  /\ tcAt = "power" /\ tcSnap = [data |-> "none", status |-> "none"] /\ tcHeld = {} /\ tcOut = NoResult
  /\ tcRan = {} /\ tcReplugs = 0 /\ tcFaults = 0

------------------------------------------------------------------------------
(* switch_to_s0 and execute_command, register by register. *)
TcGo(at) == tcAt' = at /\ UNCHANGED <<plug, alt, tcSnap, tcHeld, tcOut, tcReplugs, tcFaults>>

ReadPower ==
  /\ tcAt = "power" /\ TcGo(IF sysPower = 0 THEN "snapshot" ELSE "active")
  /\ UNCHANGED <<sysPower, cmd1, data1, tcRan>>
(* Mutant: a command that still runs is not noticed. *)
AlwaysIdle(c) == TRUE
CommandIdle(c) == c \in {"none", "!CMD"}
ReadActive ==
  /\ tcAt = "active" /\ TcGo(IF CommandIdle(cmd1) THEN "input" ELSE "failed")
  /\ UNCHANGED <<sysPower, cmd1, data1, tcRan>>
WriteInput ==
  /\ tcAt = "input" /\ TcGo("command") /\ data1' = "S0"
  /\ tcRan' = tcRan \cup (IF cmd1 \in {"SSPS", "boot"} THEN {cmd1} ELSE {})
  /\ UNCHANGED <<sysPower, cmd1>>
WriteCommand ==
  /\ tcAt = "command" /\ TcGo("poll") /\ cmd1' = "SSPS"
  /\ UNCHANGED <<sysPower, data1, tcRan>>
(* The command register clears when the command is done; its result is in the  *)
(* data register, of which only a timeout and a rejection are failures.         *)
PollCommand ==
  /\ tcAt = "poll" /\ cmd1 \in {"none", "!CMD"}
  /\ TcGo(IF cmd1 = "none" THEN "result" ELSE "failed")
  /\ UNCHANGED <<sysPower, cmd1, data1, tcRan>>
PollGivesUp ==
  /\ tcAt = "poll" /\ tcFaults < MaxTcFaults /\ tcFaults' = tcFaults + 1 /\ tcAt' = "failed"
  /\ UNCHANGED <<sysPower, cmd1, data1, plug, alt, tcSnap, tcHeld, tcOut, tcRan, tcReplugs>>
ReadResult ==
  /\ tcAt = "result" /\ TcGo(IF data1 \in {"timeout", "rejected"} THEN "failed" ELSE "verify")
  /\ UNCHANGED <<sysPower, cmd1, data1, tcRan>>
(* Mutant: a command that was not refused is believed. *)
TrustsResult == 0
ReadBack == sysPower
VerifyPower ==
  /\ tcAt = "verify" /\ TcGo(IF ReadBack = 0 THEN "snapshot" ELSE "failed")
  /\ UNCHANGED <<sysPower, cmd1, data1, tcRan>>

(* snapshot: DATA_STATUS, the SID status where it reports DisplayPort, then     *)
(* the rest, STATUS among it.  The first one is the probe's.                    *)
TcHas(d) == d \in Pins6
BeginSnapshot ==
  /\ tcAt \in {"snapshot", "registered"} /\ tcOut = NoResult
  /\ tcAt' = (IF tcAt = "snapshot" THEN "probe data" ELSE "data") /\ tcHeld' = {alt}
  /\ UNCHANGED <<sysPower, cmd1, data1, plug, alt, tcSnap, tcOut, tcRan, tcReplugs, tcFaults>>
ReadDataStatus ==
  /\ tcAt \in {"probe data", "data"}
  /\ tcAt' = (IF tcAt = "data" THEN "status" ELSE "probe status")
  /\ tcSnap' = [data |-> alt, status |-> "none"]
  /\ UNCHANGED <<sysPower, cmd1, data1, plug, alt, tcHeld, tcOut, tcRan, tcReplugs, tcFaults>>

(* The assignment's two bits and the USB3 bit, encoded by the controller and    *)
(* decoded by displayport_pin_assignment; displayport_lane_mode takes C and E   *)
(* for four lanes and D for two, and refuses the others.                        *)
AssignmentBits(d) == CASE d \in {"C", "D"} -> 1 [] d = "A" -> 2 [] d = "B" -> 3 [] OTHER -> 0
Usb3Bit(d) == IF d \in {"D", "F", "usb3"} THEN 1 ELSE 0
(* Mutant: USB3 is looked up again, when the snapshot is complete. *)
EncodedLate(d) == 2 * AssignmentBits(d) + Usb3Bit(alt)
Encoded(d) == 2 * AssignmentBits(d) + Usb3Bit(d)
LaneMode(s) ==
  IF ~(s.status # "none" /\ TcHas(s.data)) THEN [kind |-> "no lanes"]
  ELSE CASE Encoded(s.data) \in {0, 2} -> [kind |-> "lanes", dp |-> 4, usb3 |-> FALSE]
         [] Encoded(s.data) = 3 -> [kind |-> "lanes", dp |-> 2, usb3 |-> TRUE]
         [] OTHER -> [kind |-> "refused"]
ReadStatus ==
  /\ tcAt \in {"probe status", "status"} /\ tcAt' = "registered"
  /\ tcSnap' = [tcSnap EXCEPT !.status = plug]
  /\ tcOut' = IF tcAt = "status" THEN LaneMode([tcSnap EXCEPT !.status = plug]) ELSE NoResult
  /\ UNCHANGED <<sysPower, cmd1, data1, plug, alt, tcHeld, tcRan, tcReplugs, tcFaults>>
(* The caller has taken the result. *)
TakeResult ==
  /\ tcOut # NoResult /\ tcOut' = NoResult
  /\ UNCHANGED <<sysPower, cmd1, data1, plug, alt, tcAt, tcSnap, tcHeld, tcRan, tcReplugs, tcFaults>>
(* A transfer fails: the probe is over, a later snapshot returns an error. *)
TransferFails ==
  /\ tcAt \notin {"failed", "registered", "snapshot"} /\ tcFaults < MaxTcFaults /\ tcFaults' = tcFaults + 1
  /\ tcAt' = (IF tcAt \in {"data", "status"} THEN "registered" ELSE "failed")
  /\ UNCHANGED <<sysPower, cmd1, data1, plug, alt, tcSnap, tcHeld, tcOut, tcRan, tcReplugs>>

------------------------------------------------------------------------------
(* External: a command ends, with a result the driver may not know, or is       *)
(* unknown to the controller; only a success changes the power state.           *)
CommandEnds ==
  /\ cmd1 \in {"SSPS", "boot"}
  /\ \/ cmd1' = "!CMD" /\ UNCHANGED <<sysPower, data1>>
     \/ /\ cmd1' = "none" /\ data1' \in {"ok", "timeout", "rejected", "other"}
        /\ sysPower' = IF cmd1 = "SSPS" /\ data1 = "S0" /\ data1' = "ok" THEN 0 ELSE sysPower
  /\ UNCHANGED <<plug, alt, tcAt, tcSnap, tcHeld, tcOut, tcRan, tcReplugs, tcFaults>>
(* External: the cable, and what its ends negotiate.  The two registers change  *)
(* one at a time.                                                               *)
Replug ==
  /\ tcReplugs < MaxTcReplugs /\ tcReplugs' = tcReplugs + 1
  /\ \/ plug' \in {"none", "normal", "reverse"} \ {plug} /\ UNCHANGED <<alt, tcHeld>>
     \/ /\ alt' \in (Pins6 \cup {"none", "usb3"}) \ {alt} /\ (alt' = "none" \/ plug # "none")
        /\ tcHeld' = tcHeld \cup {alt'} /\ UNCHANGED plug
  /\ UNCHANGED <<sysPower, cmd1, data1, tcAt, tcSnap, tcOut, tcRan, tcFaults>>

TcNext ==
  \/ ReadPower \/ ReadActive \/ WriteInput \/ WriteCommand \/ PollCommand \/ PollGivesUp
  \/ ReadResult \/ VerifyPower \/ BeginSnapshot \/ ReadDataStatus \/ ReadStatus \/ TakeResult
  \/ TransferFails \/ CommandEnds \/ Replug

TcSpec == TcInit /\ [][TcNext]_tcVars

------------------------------------------------------------------------------
(* The lanes a snapshot reports are those of one alternate mode the port was in *)
(* while the snapshot was read, however the cable moved meanwhile: four lanes   *)
(* for C and E, two beside USB3 for D.                                          *)
LanesNegotiated ==
  tcOut.kind = "lanes" =>
    \E d \in tcHeld : \/ d \in {"C", "E"} /\ tcOut.dp = 4 /\ ~tcOut.usb3
                      \/ d = "D" /\ tcOut.dp = 2 /\ tcOut.usb3

(* The input of a command that runs is left alone, and a port that registers is *)
(* powered, whatever the controller answered to the command.                    *)
PortIsPowered ==
  tcRan = {} /\ (tcAt \in {"snapshot", "registered", "data", "status"} => sysPower = 0)

=============================================================================
