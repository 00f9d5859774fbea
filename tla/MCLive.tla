-------------------------------- MODULE MCLive --------------------------------
(* What must happen in the end, for TLC: the interrupt controller, a decode   *)
(* of the AVD, and the coprocessor services, each under the fairness of its   *)
(* own module.  They share no state, so one is stepped at a time; the         *)
(* fairness of a component speaks of the behaviours in which it is stepped.   *)
(* The bounds are smaller than those of the safety runs.                      *)
EXTENDS AicInterrupts, AvdDecode

CONSTANTS present, audio, iomfb, epic, crashlog, syslog, extra, app

VARIABLES
  part,
  fifo, put, queue, pending, sent, answered, tpc, want, held, got, result,
  bpc, todo, iop, ap, crashed, bitmap, buffers, toFw, fromFw, boots, lost, bfw,
  tx, running, error, played, tags, last, draining, issueLock, wPending, wToken, wgen,
  pc, dpc, ctag, a2i, i2a, queued, claimed, irq, fwq, queues, stops, earned, overtook, dropped

DemuxTasks == {present, audio}
ServesOne == [t \in DemuxTasks |-> IF t = present THEN {iomfb} ELSE {epic}]
Demux == INSTANCE RtkitDemux WITH
       Tasks <- DemuxTasks, AppEps <- {iomfb, epic}, SysEp <- "sys", IrqDriven <- TRUE,
       Serves <- ServesOne,
       MaxMsgs <- [e \in {iomfb, epic, "sys"} |-> CASE e = iomfb -> 1 [] e = epic -> 1 [] OTHER -> 0],
       pc <- tpc, drained <- put

(* Firmware that answers, with a complete map; nothing fails. *)
Boots == INSTANCE RtkitBoot WITH
       Crashlog <- crashlog, OtherSys <- {syslog}, Extra <- {extra}, AppEps <- {app},
       Requested <- <<extra>>, ApMin <- 11, ApMax <- 12, FwVersions <- {<<11, 12>>},
       FwMaps <- {<<{crashlog, syslog, extra}, {app}>>},
       BootMayFail <- FALSE, MaxBoots <- 1, MaxApp <- 1,
       apc <- bpc, fw <- bfw

Sio == INSTANCE SioChannel WITH
       NPeriods <- 2, MaxInflight <- 1, NTags <- 2, MayTimeout <- FALSE, MayFail <- FALSE,
       StickyWaker <- TRUE, MaxQueues <- 2, MaxStops <- 0, completed <- played

ASSUME LiveAssumption == Demux!DemuxAssumption /\ Boots!BootAssumption /\ Sio!SioAssumption

demuxVars == <<fifo, put, queue, pending, sent, answered, tpc, want, held, got, result>>
bootVars == <<bpc, todo, iop, ap, crashed, bitmap, buffers, toFw, fromFw, boots, lost, bfw>>
sioVars == <<tx, running, error, played, tags, last, draining, issueLock, wPending, wToken,
             wgen, pc, dpc, ctag, a2i, i2a, queued, claimed, irq, fwq, queues, stops, earned,
             overtook, dropped>>
vars == <<part, aicVars, avdVars, demuxVars, bootVars, sioVars>>

Init ==
  /\ part \in {"aic", "avd", "demux", "boot", "sio"}
  /\ IF part = "aic" THEN AicInit ELSE AicInit /\ fastIpi
  /\ AvdInit /\ Demux!Init /\ Boots!BootInit /\ Sio!SioInit

Next ==
  /\ UNCHANGED part
  /\ \/ part = "aic" /\ AicNext /\ UNCHANGED <<avdVars, demuxVars, bootVars, sioVars>>
     \/ part = "avd" /\ AvdNext /\ UNCHANGED <<aicVars, demuxVars, bootVars, sioVars>>
     \/ part = "demux" /\ Demux!Next /\ UNCHANGED <<aicVars, avdVars, bootVars, sioVars>>
     \/ part = "boot" /\ Boots!BootNext /\ UNCHANGED <<aicVars, avdVars, demuxVars, sioVars>>
     \/ part = "sio" /\ Sio!SioNext /\ UNCHANGED <<aicVars, avdVars, demuxVars, bootVars>>

(* The fairness of RtkitDemux, RtkitBoot and SioChannel, each for its part. *)
DemuxFairness ==
  /\ WF_demuxVars(part = "demux" /\ Demux!IrqDrain) /\ WF_demuxVars(part = "demux" /\ Demux!IrqAppend)
  /\ \A t \in DemuxTasks : /\ WF_demuxVars(part = "demux" /\ Demux!Finish(t))
                           /\ WF_demuxVars(part = "demux" /\ Demux!WaitTimeout(t))
BootFairness ==
  /\ WF_bootVars(part = "boot" /\ Boots!BootStep) /\ WF_bootVars(part = "boot" /\ Boots!FwReceive)
  /\ WF_bootVars(part = "boot" /\ Boots!FwIopOn)
SioFairness ==
  /\ \A t \in Sio!SioTasks : /\ WF_sioVars(part = "sio" /\ Sio!Drain(t))
                          /\ WF_sioVars(part = "sio" /\ Sio!Issue(t))
  /\ WF_sioVars(part = "sio" /\ (Sio!WorkerTop \/ Sio!WorkerWait \/ Sio!WorkerGen))
  /\ WF_sioVars(part = "sio" /\ Sio!Start) /\ WF_sioVars(part = "sio" /\ Sio!StopStep)
  /\ WF_sioVars(part = "sio" /\ Sio!Firmware) /\ WF_sioVars(part = "sio" /\ Sio!Interrupt)

(* Their strong fairness: a task polls its endpoint, the SIO's worker gets its *)
(* lock.  The two of the tasks speak for the worker as well: the parts are    *)
(* never stepped together, and each formula costs a graph of its own.         *)
PollsOrLocks(t, e) ==
  \/ part = "demux" /\ Demux!PollCall(t, e) /\ UNCHANGED sioVars
  \/ part = "sio" /\ Sio!WorkerLock /\ UNCHANGED demuxVars
StrongFairness ==
  \A t \in DemuxTasks : \A e \in ServesOne[t] : SF_<<demuxVars, sioVars>>(PollsOrLocks(t, e))

FairSpec ==
  /\ Init /\ [][Next]_vars
  /\ AicFairness /\ AvdFairness /\ DemuxFairness /\ BootFairness /\ SioFairness
  /\ StrongFairness

------------------------------------------------------------------------------
(* Every message of an endpoint some task polls is returned in the end. *)
EveryMessageReturned == Demux!EveryMessageReturned

(* The boot handshake does not deadlock. *)
BootSucceeds == Boots!BootSucceeds

(* A committed period of a running channel is played. *)
CommittedIsPlayed == Sio!CommittedIsPlayed

(* No interrupt is starved or sent astray: a line still asserted is served     *)
(* again, by the CPU its enable named, and no tick and no IPI is swallowed.    *)
InterruptsServed == LineServed /\ NothingSwallowed /\ ServedByTarget
=============================================================================
