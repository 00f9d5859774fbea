------------------------------ MODULE AvdFirmware ------------------------------
(* The firmware of the decoder's Cortex-M3, firmware/apple-avd-fw-rs/src: its  *)
(* vector table (vector.rs), interrupt handlers (irq.rs) and messages (abi.rs, *)
(* mailbox.rs), and the kernel's reading of them                               *)
(* (drivers/video/apple-avd/src/firmware.rs).  Line 1 of the v2 chip, whose    *)
(* source is not known from the code, is left out.                             *)
EXTENDS Integers, FiniteSets

CONSTANTS
  ActivePipes,  \* bound: pipes that are given work, beside the post-processor
  MaxDone       \* bound: stages each of them finishes

VARIABLES
  chip,         \* v2, v3, or v4 and v5 ("later")
  pendingBits,  \* decode status: slots with their raised bits
  lines,        \* enabled interrupt lines
  cpu,          \* reset, running or stuck
  raised,       \* stages finished, per slot
  told          \* how often each message was sent

avdFwVars == <<chip, pendingBits, lines, cpu, raised, told>>

PipeBase == IF chip = "v2" THEN 18 ELSE 78
PipeCount == IF chip = "v2" THEN 4 ELSE 12
SubmitIrq == IF chip = "v2" THEN 38 ELSE 62
PostIrq == IF chip = "v2" THEN 40 ELSE 64
SubmitSlot == CASE chip = "v2" -> 4 [] chip = "v3" -> 9 [] OTHER -> 13
Slots == 0 .. (PipeCount - 1) \cup {SubmitSlot}

MsgVpDone == 256
MsgVpError == 512
MsgPpDone == 4096
MsgUnknown == 65536

(* External: the line a status bit of a slot raises. *)
LineOf(slot, bit) ==
  IF slot = SubmitSlot THEN IF bit = "done" THEN PostIrq ELSE SubmitIrq
  ELSE PipeBase + 5 * slot + (CASE bit = "unknown" -> 0 [] bit = "error" -> 1 [] OTHER -> 2)

(* The vector table: what the handler of a line clears.  The two sets of      *)
(* lines do not meet, so all chips share one table.                           *)
Triples(base, n) == {[line |-> base + 5 * p + k, slot |-> p,
                      bit |-> CASE k = 0 -> "unknown" [] k = 1 -> "error" [] OTHER -> "done"] : p \in 0..(n-1), k \in 0..2}
Vectors == Triples(18, 4) \cup Triples(78, 12)
PostLines == {40, 64}
SubmitLines == {38, 62}

FwInit ==
  /\ chip \in {"v2", "v3", "later"} /\ cpu = "reset" /\ lines = {} /\ pendingBits = {}
  /\ raised = [s \in Slots |-> 0] /\ told = <<>>

(* Mutant: one line too few for each pipe. *)
EnableTwoOfThree ==
  /\ cpu = "reset" /\ cpu' = "running"
  /\ lines' = {PipeBase + 5 * p + k : p \in 0..(PipeCount - 1), k \in 0..1} \cup {SubmitIrq, PostIrq}
  /\ UNCHANGED <<chip, pendingBits, raised, told>>

(* reset_handler: tunables, then enable_known_nvic_irqs clears what is         *)
(* pending and enables the chip's lines.                                      *)
FwStart ==
  /\ cpu = "reset" /\ cpu' = "running"
  /\ lines' = {PipeBase + 5 * p + k : p \in 0..(PipeCount - 1), k \in 0..2} \cup {SubmitIrq, PostIrq}
  /\ UNCHANGED <<chip, pendingBits, raised, told>>

(* External: the decoder ends a stage, or fails, or says something else.      *)
StageRaises(slot, bit) ==
  /\ slot \in Slots /\ ~(slot = SubmitSlot /\ bit = "error") /\ <<slot, bit>> \notin pendingBits
  /\ bit = "done" => raised[slot] < MaxDone
  /\ pendingBits' = pendingBits \cup {<<slot, bit>>}
  /\ raised' = IF bit = "done" THEN [raised EXCEPT ![slot] = @ + 1] ELSE raised
  /\ UNCHANGED <<chip, lines, cpu, told>>

Count(number) == IF number \in DOMAIN told THEN told[number] ELSE 0
Send(number) == told' = [m \in DOMAIN told \cup {number} |-> Count(m) + IF m = number THEN 1 ELSE 0]

Asserted(line) == cpu = "running" /\ line \in lines /\ \E p \in pendingBits : LineOf(p[1], p[2]) = line

(* clear_decode_status_or_fault, when the bit does clear. *)
Cleared(slot, bit) == pendingBits' = pendingBits \ {<<slot, bit>>}

VideoPipeUnknown(v) ==
  /\ Asserted(v.line) /\ v.bit = "unknown" /\ Cleared(v.slot, v.bit)
  /\ UNCHANGED <<chip, lines, cpu, raised, told>>

(* Mutant: the message is sent with the bit still up. *)
DoneUncleared(v) ==
  /\ Asserted(v.line) /\ v.bit = "done" /\ UNCHANGED pendingBits
  /\ Send(MsgVpDone + v.slot) /\ UNCHANGED <<chip, lines, cpu, raised>>

VideoPipeDone(v) ==
  /\ Asserted(v.line) /\ v.bit = "done" /\ Cleared(v.slot, v.bit)
  /\ Send(MsgVpDone + v.slot) /\ UNCHANGED <<chip, lines, cpu, raised>>

(* Mutant: an error is told and the firmware goes on. *)
ErrorGoesOn(v) ==
  /\ Asserted(v.line) /\ v.bit = "error" /\ Cleared(v.slot, v.bit)
  /\ Send(MsgVpError + v.slot) /\ UNCHANGED <<chip, lines, cpu, raised>>

VideoPipeError(v) ==
  /\ Asserted(v.line) /\ v.bit = "error" /\ Cleared(v.slot, v.bit)
  /\ Send(MsgVpError + v.slot) /\ cpu' = "stuck"
  /\ UNCHANGED <<chip, lines, raised>>

SubmitUnknown ==
  /\ \E line \in SubmitLines : Asserted(line)
  /\ Cleared(SubmitSlot, "unknown")
  /\ UNCHANGED <<chip, lines, cpu, raised, told>>

PostProcessDone ==
  /\ \E line \in PostLines : Asserted(line)
  /\ Cleared(SubmitSlot, "done")
  /\ Send(MsgPpDone) /\ UNCHANGED <<chip, lines, cpu, raised>>

(* The bit stays: report_decode_fault and wait for ever.                      *)
ClearTimesOut ==
  /\ \E p \in pendingBits : Asserted(LineOf(p[1], p[2])) /\ Send(MsgVpError + p[1])
  /\ cpu' = "stuck"
  /\ UNCHANGED <<chip, pendingBits, lines, raised>>

(* A line without a handler of its own, an exception, a panic.                *)
UnknownIrq ==
  /\ cpu = "running"
  /\ \E irq \in {0, 1003, 1015} \cup {l \in lines : Asserted(l) /\ l \notin {v.line : v \in Vectors} \cup PostLines \cup SubmitLines} :
       Send(MsgUnknown + irq)
  /\ cpu' = "stuck"
  /\ UNCHANGED <<chip, pendingBits, lines, raised>>

FwNext ==
  \/ FwStart \/ SubmitUnknown \/ PostProcessDone \/ ClearTimesOut \/ UnknownIrq
  \/ \E v \in Vectors : VideoPipeUnknown(v) \/ VideoPipeDone(v) \/ VideoPipeError(v)
  \/ \E slot \in ActivePipes \cup {SubmitSlot}, bit \in {"unknown", "error", "done"} : StageRaises(slot, bit)

FwSpec == FwInit /\ [][FwNext]_avdFwVars

------------------------------------------------------------------------------
Bit(n, b) == (n \div b) % 2 = 1

(* Mutant: done is looked for before error. *)
DecodeDoneFirst(raw) ==
  IF Bit(raw, MsgVpDone) THEN "video" ELSE IF Bit(raw, MsgPpDone) THEN "post" ELSE "error"

(* AvdFirmwareMessage::decode *)
Decode(raw) ==
  IF Bit(raw, MsgUnknown) THEN "error" ELSE IF Bit(raw, MsgPpDone) THEN "post"
  ELSE IF Bit(raw, MsgVpError) THEN "error" ELSE IF Bit(raw, MsgVpDone) THEN "video" ELSE "error"

(* Each finished stage is told once: its handler deasserts its own line, so a *)
(* level interrupt is neither lost nor taken twice, on every chip.            *)
DoneToldOnce ==
  cpu # "stuck" => \A s \in Slots :
    raised[s] = Count(IF s = SubmitSlot THEN MsgPpDone ELSE MsgVpDone + s)
                + Cardinality(pendingBits \cap {<<s, "done">>})

(* Every status bit has an enabled line with a handler: nothing raised stays  *)
(* unanswered.                                                                *)
NothingUnanswered ==
  cpu = "running" => \A p \in pendingBits : Asserted(LineOf(p[1], p[2]))

(* The kernel reads each message as what the firmware meant, whatever pipe or *)
(* exception number is in it; and nothing but the end of a decode follows a   *)
(* failure.                                                                   *)
ReadAsMeant ==
  /\ \A m \in DOMAIN told : /\ Decode(m) = "video" => m \in {MsgVpDone + s : s \in 0..(PipeCount - 1)}
                            /\ Decode(m) = "post" => m = MsgPpDone
                            /\ m >= MsgUnknown => Decode(m) = "error"
  /\ (\E m \in DOMAIN told : Decode(m) = "error") => cpu = "stuck"

(* Between the decoder's firmware and the kernel nothing is lost, told twice   *)
(* or read as something else.                                                  *)
FirmwareTellsAll == DoneToldOnce /\ NothingUnanswered /\ ReadAsMeant

=============================================================================
