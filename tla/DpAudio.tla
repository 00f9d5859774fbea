-------------------------------- MODULE DpAudio --------------------------------
(* DisplayPort sound (audio/apple-dpaudio over display/dcpext/av_audio): one    *)
(* stream that owns a bounce buffer, a DMA channel and the audio link of the   *)
(* display coprocessor.  Every call to the channel or to the coprocessor may   *)
(* fail; a call to the coprocessor may also fail after it took effect.  The    *)
(* calls of the client come one at a time.                                     *)
EXTENDS Naturals

CONSTANTS DpPeriods,    \* periods of the ring
          MaxDpFaults   \* failing calls

ASSUME DpAssumption == DpPeriods \in Nat /\ MaxDpFaults \in Nat

VARIABLES
  dpStream,  \* none, or what the driver recorded: dma, link, inFlight
  dpChan,    \* the DMA channel: held, prepared, running, its callback
  bounce,    \* the buffer is allocated
  dpAv,      \* what av_audio believes of the link: prepared, started
  dpLink,    \* what the coprocessor does: off, prepared, started
  dpCall,    \* the call in progress and its next step
  dpFaults   \* failures so far, and whether one of them took effect

dpVars == <<dpStream, dpChan, bounce, dpAv, dpLink, dpCall, dpFaults>>

NoStream == [have |-> FALSE, dma |-> FALSE, link |-> FALSE, inFlight |-> 0]
NoChan == [held |-> FALSE, prepared |-> FALSE, running |-> FALSE, callback |-> FALSE]
DpRest == [op |-> "none", at |-> "none"]

DpInit ==
  /\ dpStream = NoStream /\ dpChan = NoChan /\ bounce = FALSE
  /\ dpAv = [prepared |-> FALSE, started |-> FALSE] /\ dpLink = "off"
  /\ dpCall = DpRest /\ dpFaults = [n |-> 0, lost |-> FALSE]

DpAt(op, at) == dpCall = [op |-> op, at |-> at]
DpGo(at) == dpCall' = [dpCall EXCEPT !.at = at]
DpReturn == dpCall' = DpRest
DpFails == dpFaults.n < MaxDpFaults /\ dpFaults' = [dpFaults EXCEPT !.n = @ + 1]
DpFailsLate == dpFaults.n < MaxDpFaults /\ dpFaults' = [n |-> dpFaults.n + 1, lost |-> TRUE]

(* A call of av_audio: refused beforehand, done, failed, or done and the       *)
(* answer lost.  Then the driver goes on where it says.                        *)
AvCall(allowed, already, believed, fw, onOk, onErr) ==
  \/ ~allowed /\ onErr /\ UNCHANGED <<dpAv, dpLink, dpFaults>>
  \/ allowed /\ already /\ onOk /\ UNCHANGED <<dpAv, dpLink, dpFaults>>
  \/ allowed /\ ~already /\ onOk /\ dpAv' = believed /\ dpLink' = fw /\ UNCHANGED dpFaults
  \/ allowed /\ ~already /\ onErr /\ DpFails /\ UNCHANGED <<dpAv, dpLink>>
  \/ allowed /\ ~already /\ onErr /\ DpFailsLate /\ dpLink' = fw /\ UNCHANGED dpAv

AvPrepare(onOk, onErr) == AvCall(~dpAv.started, FALSE, [dpAv EXCEPT !.prepared = TRUE], "prepared", onOk, onErr)
AvStartLink(onOk, onErr) == AvCall(dpAv.prepared, dpAv.started, [dpAv EXCEPT !.started = TRUE], "started", onOk, onErr)
AvStopLink(onOk, onErr) == AvCall(TRUE, ~dpAv.started, [dpAv EXCEPT !.started = FALSE], "prepared", onOk, onErr)
AvUnprepare(onOk, onErr) == AvCall(~dpAv.started, ~dpAv.prepared, [dpAv EXCEPT !.prepared = FALSE], "off", onOk, onErr)
-----------------------------------------------------------------------------
Configure ==
  /\ dpCall = DpRest
  /\ dpCall' = [op |-> "configure", at |-> IF dpStream.have THEN "stop" ELSE "request"]
  /\ UNCHANGED <<dpStream, dpChan, bounce, dpAv, dpLink, dpFaults>>
Release ==
  /\ dpCall = DpRest /\ dpStream.have
  /\ dpCall' = [op |-> "release", at |-> "stop"]
  /\ UNCHANGED <<dpStream, dpChan, bounce, dpAv, dpLink, dpFaults>>
StopStream ==
  /\ dpCall = DpRest /\ dpStream.have
  /\ dpCall' = [op |-> "stop", at |-> "stop"]
  /\ UNCHANGED <<dpStream, dpChan, bounce, dpAv, dpLink, dpFaults>>
StartStream ==
  /\ dpCall = DpRest /\ dpStream.have
  /\ IF dpStream.dma /\ dpStream.link THEN UNCHANGED dpCall
     ELSE dpCall' = [op |-> "start", at |-> IF dpStream.link THEN "dma" ELSE "link"]
  /\ UNCHANGED <<dpStream, dpChan, bounce, dpAv, dpLink, dpFaults>>

(* configure: the buffer, then the channel, the link and the ring.  What fails *)
(* on the way lets go of the channel before the buffer.                        *)
Abandons == dpChan' = NoChan /\ bounce' = FALSE
RequestDma1 ==
  /\ DpAt("configure", "request") /\ UNCHANGED <<dpStream, dpAv, dpLink>>
  /\ \/ bounce' = TRUE /\ dpChan' = [NoChan EXCEPT !.held = TRUE] /\ DpGo("link") /\ UNCHANGED dpFaults
     \/ Abandons /\ DpReturn /\ DpFails
PrepareLink ==
  /\ DpAt("configure", "link") /\ UNCHANGED dpStream
  /\ AvPrepare(DpGo("ring") /\ UNCHANGED <<dpChan, bounce>>, Abandons /\ DpReturn)
(* Mutant: a ring that cannot be prepared leaves the link prepared. *)
PrepareRingOnly ==
  /\ DpAt("configure", "ring") /\ UNCHANGED <<dpStream, dpAv, dpLink>>
  /\ \/ dpChan' = [dpChan EXCEPT !.prepared = TRUE] /\ DpGo("store") /\ UNCHANGED <<bounce, dpFaults>>
     \/ Abandons /\ DpReturn /\ DpFails
PrepareRing ==
  /\ DpAt("configure", "ring") /\ UNCHANGED <<dpStream, dpAv, dpLink>>
  /\ \/ dpChan' = [dpChan EXCEPT !.prepared = TRUE] /\ DpGo("store") /\ UNCHANGED <<bounce, dpFaults>>
     \/ DpGo("undo") /\ DpFails /\ UNCHANGED <<dpChan, bounce>>
StoreStream ==
  /\ DpAt("configure", "store") /\ UNCHANGED <<bounce, dpAv, dpLink>>
  /\ \/ /\ dpChan' = [dpChan EXCEPT !.callback = TRUE]
        /\ dpStream' = [NoStream EXCEPT !.have = TRUE]
        /\ DpReturn /\ UNCHANGED dpFaults
     \/ DpGo("undo") /\ DpFails /\ UNCHANGED <<dpChan, dpStream>>
(* The link is unprepared as well as it goes. *)
UndoConfigure ==
  /\ DpAt("configure", "undo") /\ UNCHANGED dpStream
  /\ AvUnprepare(Abandons /\ DpReturn, Abandons /\ DpReturn)

StartLink ==
  /\ DpAt("start", "link") /\ UNCHANGED <<dpChan, bounce>>
  /\ AvStartLink(dpStream' = [dpStream EXCEPT !.link = TRUE] /\ IF dpStream.dma THEN DpReturn ELSE DpGo("dma"),
                 UNCHANGED dpStream /\ DpReturn)
StartRing ==
  /\ DpAt("start", "dma") /\ UNCHANGED <<bounce, dpAv, dpLink>>
  /\ \/ /\ dpChan' = [dpChan EXCEPT !.running = TRUE] /\ dpStream' = [dpStream EXCEPT !.dma = TRUE]
        /\ DpReturn /\ UNCHANGED dpFaults
     \/ DpGo("unlink") /\ DpFails /\ UNCHANGED <<dpChan, dpStream>>
(* Mutant: the link counts as stopped whatever it answered. *)
ForgetLink ==
  /\ DpAt("start", "unlink") /\ UNCHANGED <<dpChan, bounce>>
  /\ dpStream' = [dpStream EXCEPT !.link = FALSE]
  /\ AvStopLink(DpReturn, DpReturn)
UndoStart ==
  /\ DpAt("start", "unlink") /\ UNCHANGED <<dpChan, bounce>>
  /\ AvStopLink(dpStream' = [dpStream EXCEPT !.link = FALSE] /\ DpReturn, UNCHANGED dpStream /\ DpReturn)

(* stop, alone or as the beginning of release and configure. *)
Stopped == IF dpCall.op = "stop" THEN DpReturn ELSE DpGo("silence")
(* Mutant: a channel that refuses to stop is taken for stopped. *)
StopRingAnyway ==
  /\ dpCall.at = "stop" /\ UNCHANGED <<bounce, dpAv, dpLink>>
  /\ dpStream' = [dpStream EXCEPT !.dma = FALSE, !.inFlight = 0] /\ DpGo("stopLink")
  /\ \/ dpChan' = [dpChan EXCEPT !.running = FALSE] /\ UNCHANGED dpFaults
     \/ dpStream.dma /\ DpFails /\ UNCHANGED dpChan
StopRing ==
  /\ dpCall.at = "stop" /\ UNCHANGED <<bounce, dpAv, dpLink>>
  /\ \/ ~dpStream.dma /\ DpGo("stopLink") /\ UNCHANGED <<dpStream, dpChan, dpFaults>>
     \/ /\ dpStream.dma /\ dpChan' = [dpChan EXCEPT !.running = FALSE]
        /\ dpStream' = [dpStream EXCEPT !.dma = FALSE, !.inFlight = 0]
        /\ DpGo("stopLink") /\ UNCHANGED dpFaults
     \/ dpStream.dma /\ DpReturn /\ DpFails /\ UNCHANGED <<dpChan, dpStream>>
StopLink ==
  /\ dpCall.at = "stopLink" /\ UNCHANGED <<dpChan, bounce>>
  /\ IF dpStream.link
     THEN AvStopLink(dpStream' = [dpStream EXCEPT !.link = FALSE] /\ Stopped, UNCHANGED dpStream /\ DpReturn)
     ELSE Stopped /\ UNCHANGED <<dpStream, dpAv, dpLink, dpFaults>>
SilenceCallback ==
  /\ dpCall.at = "silence" /\ UNCHANGED <<dpStream, bounce, dpAv, dpLink>>
  /\ \/ dpChan' = [dpChan EXCEPT !.callback = FALSE] /\ DpGo("unprepare") /\ UNCHANGED dpFaults
     \/ DpReturn /\ DpFails /\ UNCHANGED dpChan
UnprepareLink ==
  /\ dpCall.at = "unprepare" /\ UNCHANGED <<dpStream, dpChan, bounce>>
  /\ AvUnprepare(DpGo("drop"), DpReturn)
(* The stream is dropped: the channel, then the buffer. *)
DropDpStream ==
  /\ dpCall.at = "drop" /\ UNCHANGED <<dpAv, dpLink, dpFaults>>
  /\ dpStream' = NoStream /\ Abandons
  /\ IF dpCall.op = "configure" THEN DpGo("request") ELSE DpReturn

SubmitPeriod ==
  /\ dpCall = DpRest /\ dpStream.have /\ dpStream.inFlight < DpPeriods
  /\ dpStream' = [dpStream EXCEPT !.inFlight = @ + 1]
  /\ UNCHANGED <<dpChan, bounce, dpAv, dpLink, dpCall, dpFaults>>
(* The ring runs on by itself, so more may be complete than were queued. *)
ProcessCompletions(n) ==
  /\ dpChan.running /\ dpStream.have /\ n > 0
  /\ dpStream' = [dpStream EXCEPT !.inFlight = IF n < @ THEN @ - n ELSE 0]
  /\ UNCHANGED <<dpChan, bounce, dpAv, dpLink, dpCall, dpFaults>>

DpNext ==
  \/ Configure \/ Release \/ StopStream \/ StartStream
  \/ RequestDma1 \/ PrepareLink \/ PrepareRing \/ StoreStream \/ UndoConfigure
  \/ StartLink \/ StartRing \/ UndoStart
  \/ StopRing \/ StopLink \/ SilenceCallback \/ UnprepareLink \/ DropDpStream
  \/ SubmitPeriod \/ \E n \in 1..DpPeriods + 1 : ProcessCompletions(n)

DpSpec == DpInit /\ [][DpNext]_dpVars
-----------------------------------------------------------------------------
(* The buffer is given back only after the hardware acknowledged that the ring *)
(* stopped, whatever failed before and was tried again.                        *)
BounceOutlivesDma == [][dpChan.running => bounce']_dpVars

(* Between calls the stream's record is the truth about both halves, so that a *)
(* later release can finish whichever half failed; without a stream nothing is *)
(* left running, nor the channel held.                                         *)
HalvesAreKnown == dpCall = DpRest =>
  /\ dpStream.dma = dpChan.running /\ dpStream.link = dpAv.started
  /\ dpStream.have => dpChan.prepared /\ dpChan.held
  /\ ~dpStream.have => dpChan = NoChan /\ ~bounce

(* The link does not carry sound for a stream that was released, unless an     *)
(* answer of the coprocessor was lost; and it is left unprepared when nothing  *)
(* failed after it was prepared.                                               *)
LinkFollowsStream == dpCall = DpRest /\ ~dpFaults.lost =>
  /\ dpLink = "started" <=> dpStream.link
  /\ ~dpStream.have /\ dpFaults.n <= 1 => dpLink = "off"
=============================================================================
