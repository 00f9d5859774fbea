----------------------------- MODULE MCServices -------------------------------
(* Small instances of the coprocessor services for TLC: RTKit's               *)
(* demultiplexer with two tasks and an interrupt (P) and with one polling     *)
(* task (O), RTKit's boot (RtkitBoot) and a channel of the SIO (SioChannel).   *)
(* They share no state, so one is stepped at a time and the others rest.      *)
EXTENDS SioChannel, RtkitBoot

CONSTANTS present, audio, iomfb, epic, crashlog, syslog, extra, app

VARIABLES
  part,
  fifo, drained, queue, pending, sent, answered, tpc, want, held, got, result

(* The two clients of a coprocessor, each with its endpoint; one of them      *)
(* sends twice.                                                               *)
P == INSTANCE RtkitDemux WITH
       Tasks <- {present, audio}, AppEps <- {iomfb, epic}, SysEp <- "sys", IrqDriven <- TRUE,
       Serves <- [t \in {present, audio} |-> IF t = present THEN {iomfb} ELSE {epic}],
       MaxMsgs <- [e \in {iomfb, epic, "sys"} |-> CASE e = iomfb -> 2 [] e = epic -> 1 [] OTHER -> 0],
       pc <- tpc

(* One task that serves both, at boot, before the interrupt is registered. *)
O == INSTANCE RtkitDemux WITH
       Tasks <- {present}, AppEps <- {iomfb, epic}, SysEp <- "sys", IrqDriven <- FALSE,
       Serves <- [t \in {present} |-> {iomfb, epic}],
       MaxMsgs <- [e \in {iomfb, epic, "sys"} |-> IF e = "sys" THEN 1 ELSE 3],
       pc <- tpc

(* Two tasks, each with its endpoint, and a system message, before the         *)
(* interrupt is registered.                                                   *)
Q == INSTANCE RtkitDemux WITH
       Tasks <- {present, audio}, AppEps <- {iomfb, epic}, SysEp <- "sys", IrqDriven <- FALSE,
       Serves <- [t \in {present, audio} |-> IF t = present THEN {iomfb} ELSE {epic}],
       MaxMsgs <- [e \in {iomfb, epic, "sys"} |-> IF e = "sys" THEN 1 ELSE 2],
       pc <- tpc

(* RTKit's boot: versions below, across, inside and above the driver's        *)
(* 11 .. 12; the map in one message or two, complete or without an endpoint.  *)
AppFirst == <<app, extra>>
Versions == {<<10, 10>>, <<10, 11>>, <<12, 13>>, <<13, 14>>}
Maps == {<<{crashlog, syslog, extra}, {app}>>, <<{crashlog, extra, app}>>,
         <<{syslog}, {}>>, <<{crashlog, syslog}, {app}>>}

ASSUME ServicesAssumption ==
  P!DemuxAssumption /\ O!DemuxAssumption /\ Q!DemuxAssumption /\ BootAssumption /\ SioAssumption

demuxVars == <<fifo, drained, queue, pending, sent, answered, tpc, want, held, got, result>>
vars == <<part, demuxVars, bootVars, sioVars>>

Init ==
  /\ part \in {"pair", "one", "boot", "sio"}
  /\ IF part = "one" THEN O!Init ELSE P!Init
  /\ IF part = "boot" THEN BootInit ELSE BootInit /\ fw.ver = <<10, 10>> /\ Len(fw.map) = 1
  /\ SioInit

Next ==
  /\ UNCHANGED part
  /\ \/ part = "pair" /\ P!Next /\ UNCHANGED <<bootVars, sioVars>>
     \/ part = "one" /\ O!Next /\ UNCHANGED <<bootVars, sioVars>>
     \/ part = "boot" /\ BootNext /\ UNCHANGED <<demuxVars, sioVars>>
     \/ part = "sio" /\ SioNext /\ UNCHANGED <<demuxVars, bootVars>>

Spec == Init /\ [][Next]_vars

(* Two tasks without the interrupt, alone. *)
BothSpec ==
  /\ part = "both" /\ Q!Init /\ BootInit /\ SioInit
  /\ [][Q!Next /\ UNCHANGED <<part, bootVars, sioVars>>]_vars

------------------------------------------------------------------------------
(* The variables of the three services keep their types. *)
TypeOK == (IF part = "one" THEN O!TypeOK ELSE P!TypeOK) /\ BootTypeOK /\ SioTypeOK

(* Two tasks and an interrupt: a message is always in exactly one place. *)
NothingLost == part = "pair" => P!NothingLost

(* One task: what is put away stays in order and ahead of the mailbox, and an *)
(* endpoint's messages are returned in the order sent.                        *)
ReturnedInOrder == part = "one" => O!OrderAtRest /\ O!ReturnsNext

(* recv_endpoint's comment: the message returned is the endpoint's next one,  *)
(* also when two tasks poll (it is not).                                      *)
ReturnsNextToBoth == Q!ReturnsNext
=============================================================================
