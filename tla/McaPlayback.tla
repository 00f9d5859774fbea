----------------------------- MODULE McaPlayback ------------------------------
(* The MCA audio controller and its two playback devices (audio/apple-mca):    *)
(* the speakers and the headphone output are separate devices with separate    *)
(* codecs and share one front-end cluster and its DMA channel, which is the    *)
(* only thing that keeps them apart.  A call is a sequence of steps; codecs    *)
(* sit on a slow bus and any of their calls may fail.                          *)
EXTENDS Naturals, Sequences, FiniteSets, SequencesExt, FiniteSetsExt

CONSTANTS
  Outputs,      \* playback devices
  CodecsOf,     \* output -> sequence of its codecs
  MaxFaults,    \* bound on steps that fail
  MaxPcmCalls   \* bound on calls of the devices

(* A link of the device tree names codecs of its own.                          *)
ASSUME McaAssumption ==
  /\ "free" \notin Outputs
  /\ \A o \in Outputs : Len(CodecsOf[o]) \in Nat \ {0} /\ DOMAIN CodecsOf[o] = 1 .. Len(CodecsOf[o])
  /\ \A o, p \in Outputs : o # p =>
       \A i \in DOMAIN CodecsOf[o], j \in DOMAIN CodecsOf[p] : CodecsOf[o][i] # CodecsOf[p][j]
  /\ {MaxFaults, MaxPcmCalls} \subseteq Nat

VARIABLES
  pcm,        \* output -> the call under way: op, step, codec at hand
  pcmStream,  \* output -> "none", "ready" or "running"
  owner,      \* the output that holds the DMA channel, or "free"
  dmaOn,      \* whether the channel runs
  cluster,    \* the front end: enables of its clock, syncgen and power, SERDES;
              \* cut: a stop without a stream switched the running SERDES off
  portOn,     \* output -> whether its ports are routed
  codec,      \* codec -> powered, audible (powered and not muted), obeys
  faults,     \* failed steps
  crossed,    \* outputs whose front end the other one took down after it let go of the channel
  pcmCalls    \* calls so far

mcaVars == <<pcm, pcmStream, owner, dmaOn, cluster, portOn, codec, faults, crossed, pcmCalls>>
frontVars == <<owner, dmaOn, cluster, portOn>>

McaCodecs == UNION {{CodecsOf[o][i] : i \in DOMAIN CodecsOf[o]} : o \in Outputs}
Resting == [op |-> "none", at |-> "none", k |-> 1]
Codec(o) == CodecsOf[o][pcm[o].k]
LastCodec(o) == pcm[o].k = Len(CodecsOf[o])

McaInit ==
  /\ pcm = [o \in Outputs |-> Resting]
  /\ pcmStream = [o \in Outputs |-> "none"]
  /\ owner = "free" /\ dmaOn = FALSE
  /\ cluster = [clock |-> 0, gen |-> FALSE, serdes |-> FALSE, cut |-> FALSE]
  /\ portOn = [o \in Outputs |-> FALSE]
  /\ codec = [c \in McaCodecs |-> [powered |-> FALSE, muted |-> TRUE, obeys |-> TRUE]]
  /\ faults = 0 /\ crossed = {} /\ pcmCalls = 0

(* Steps of a call: it goes on at "at", or returns. *)
GoTo(o, at) == pcm' = [pcm EXCEPT ![o].at = at, ![o].k = 1]
NextCodec(o, after) ==
  IF LastCodec(o) THEN GoTo(o, after) ELSE pcm' = [pcm EXCEPT ![o].k = @ + 1]
Return(o) == pcm' = [pcm EXCEPT ![o] = Resting]
At(o, at) == pcm[o].at = at
MayFail == faults < MaxFaults /\ faults' = faults + 1

(* The front end: enable_clocks_and_syncgen and disable_clocks_and_syncgen.    *)
(* The clock's uses are counted, the rest is switched.                         *)
FrontOn == cluster' = [cluster EXCEPT !.clock = @ + 1, !.gen = TRUE]
ClockOnly == cluster' = [cluster EXCEPT !.clock = @ + 1]
Sub(n) == IF n = 0 THEN 0 ELSE n - 1
FrontOff == cluster' = [cluster EXCEPT !.clock = Sub(@), !.gen = FALSE]
-----------------------------------------------------------------------------
(* A call begins.  configure releases first; start without a stream or on a    *)
(* running one and release without one return at once, stop goes on.           *)
BeginCall(o, op) ==
  /\ pcm[o] = Resting
  /\ pcmCalls < MaxPcmCalls /\ pcmCalls' = pcmCalls + 1
  /\ op = "start" => pcmStream[o] = "ready"
  /\ op = "release" => pcmStream[o] # "none"
  /\ pcm' = [pcm EXCEPT ![o] =
       [op |-> op, k |-> 1,
        at |-> IF op = "start" THEN "startDma"
               ELSE IF op = "configure" /\ pcmStream[o] = "none" THEN "request" ELSE "mute"]]
  /\ pcmStream' = IF op = "start" THEN [pcmStream EXCEPT ![o] = "running"] ELSE pcmStream
  /\ UNCHANGED <<frontVars, codec, faults, crossed>>

(* playback_dma and the ports.  Another device that let go of the channel may  *)
(* still have the front end to take down: "crossed" remembers it.              *)
Teardown == {"unwind", "unpower", "unclock"}
Takes(o) ==
  /\ owner' = o /\ portOn' = [portOn EXCEPT ![o] = TRUE]
  /\ crossed' = IF \E p \in Outputs \ {o} : pcm[p].at \in Teardown THEN crossed \cup {o} ELSE crossed
  /\ GoTo(o, "rate")
(* Mutant: a refused request is cleaned up after like any other failure. *)
CleanAlways(o) ==
  /\ At(o, "request")
  /\ \/ owner = "free" /\ Takes(o)
     \/ owner # "free" /\ GoTo(o, "unwind") /\ UNCHANGED <<owner, portOn, crossed>>
  /\ UNCHANGED <<pcmStream, dmaOn, cluster, codec, faults, pcmCalls>>
RequestDma(o) ==
  /\ At(o, "request")
  /\ \/ owner = "free" /\ Takes(o)
     \/ owner # "free" /\ Return(o) /\ UNCHANGED <<owner, portOn, crossed>>
  /\ UNCHANGED <<pcmStream, dmaOn, cluster, codec, faults, pcmCalls>>

(* The error path of configure: the channel is dropped with the closure, then  *)
(* the path is taken down.                                                     *)
Abandon(o) ==
  /\ MayFail /\ owner' = "free" /\ crossed' = crossed \ {o} /\ GoTo(o, "unwind")

SetSyncRate(o) ==
  /\ At(o, "rate")
  /\ \/ GoTo(o, "clocks") /\ UNCHANGED <<owner, crossed, faults>>
     \/ Abandon(o)
  /\ UNCHANGED <<pcmStream, dmaOn, cluster, portOn, codec, pcmCalls>>

(* The clock may be refused, and the power domain after it. *)
EnableClocks(o) ==
  /\ At(o, "clocks")
  /\ \/ FrontOn /\ GoTo(o, "codec") /\ UNCHANGED <<owner, crossed, faults>>
     \/ Abandon(o) /\ UNCHANGED cluster
     \/ Abandon(o) /\ ClockOnly
  /\ UNCHANGED <<pcmStream, dmaOn, portOn, codec, pcmCalls>>

(* Each codec is configured, powered and kept silent. *)
ConfigureCodec(o) ==
  /\ At(o, "codec")
  /\ \/ /\ codec' = [codec EXCEPT ![Codec(o)].powered = TRUE, ![Codec(o)].muted = TRUE]
        /\ NextCodec(o, "prepare") /\ UNCHANGED <<owner, crossed, faults>>
     \/ Abandon(o) /\ \E p \in BOOLEAN : codec' = [codec EXCEPT ![Codec(o)].powered = @ \/ p]
  /\ UNCHANGED <<pcmStream, dmaOn, cluster, portOn, pcmCalls>>

PrepareDma(o) ==
  /\ At(o, "prepare")
  /\ \/ /\ pcmStream' = [pcmStream EXCEPT ![o] = "ready"]
        /\ Return(o) /\ UNCHANGED <<owner, crossed, faults>>
     \/ Abandon(o) /\ UNCHANGED pcmStream
  /\ UNCHANGED <<dmaOn, cluster, portOn, codec, pcmCalls>>

(* cleanup_failed_configure *)
Unwind(o) ==
  /\ At(o, "unwind")
  /\ cluster' = [cluster EXCEPT !.clock = Sub(@), !.gen = FALSE, !.serdes = FALSE]
  /\ portOn' = [portOn EXCEPT ![o] = FALSE]
  /\ GoTo(o, "silence")
  /\ UNCHANGED <<pcmStream, owner, dmaOn, codec, faults, crossed, pcmCalls>>

(* A codec that does not answer keeps its state. *)
SwitchOff(o, to, done) ==
  /\ At(o, to)
  /\ \/ codec' = [codec EXCEPT ![Codec(o)].powered = FALSE, ![Codec(o)].muted = TRUE] /\ UNCHANGED faults
     \/ codec' = [codec EXCEPT ![Codec(o)].obeys = FALSE] /\ MayFail
  /\ NextCodec(o, done)
UnwindCodec(o) ==
  /\ SwitchOff(o, "silence", "unwound")
  /\ UNCHANGED <<pcmStream, frontVars, crossed, pcmCalls>>
UnwindDone(o) ==
  /\ At(o, "unwound") /\ Return(o)
  /\ UNCHANGED <<pcmStream, frontVars, codec, faults, crossed, pcmCalls>>
-----------------------------------------------------------------------------
(* start: the channel, the SERDES, then the codecs. *)
StartDma(o) ==
  /\ At(o, "startDma")
  /\ \/ /\ dmaOn' = TRUE /\ cluster' = [cluster EXCEPT !.serdes = TRUE, !.cut = FALSE]
        /\ GoTo(o, "unmute") /\ UNCHANGED <<pcmStream, faults>>
     \/ /\ MayFail /\ pcmStream' = [pcmStream EXCEPT ![o] = "ready"]
        /\ cluster' = [cluster EXCEPT !.serdes = FALSE]
        /\ Return(o) /\ UNCHANGED dmaOn
  /\ UNCHANGED <<owner, portOn, codec, crossed, pcmCalls>>

(* Mutant: a codec that fails leaves the others audible. *)
UnmuteAndLeave(o) ==
  /\ At(o, "unmute")
  /\ \/ /\ codec' = [codec EXCEPT ![Codec(o)].powered = TRUE, ![Codec(o)].muted = FALSE]
        /\ NextCodec(o, "started") /\ UNCHANGED <<pcmStream, dmaOn, cluster, faults>>
     \/ /\ MayFail /\ dmaOn' = FALSE /\ pcmStream' = [pcmStream EXCEPT ![o] = "ready"]
        /\ cluster' = [cluster EXCEPT !.serdes = FALSE]
        /\ Return(o) /\ UNCHANGED codec
  /\ UNCHANGED <<owner, portOn, crossed, pcmCalls>>
Unmute(o) ==
  /\ At(o, "unmute")
  /\ \/ /\ codec' = [codec EXCEPT ![Codec(o)].powered = TRUE, ![Codec(o)].muted = FALSE]
        /\ NextCodec(o, "started") /\ UNCHANGED <<pcmStream, dmaOn, faults>>
     \/ /\ MayFail /\ dmaOn' = FALSE /\ pcmStream' = [pcmStream EXCEPT ![o] = "ready"]
        /\ GoTo(o, "remute") /\ UNCHANGED codec
  /\ UNCHANGED <<owner, cluster, portOn, crossed, pcmCalls>>

Remute(o) ==
  /\ At(o, "remute")
  /\ \/ codec' = [codec EXCEPT ![Codec(o)].muted = TRUE] /\ UNCHANGED faults
     \/ codec' = [codec EXCEPT ![Codec(o)].obeys = FALSE] /\ MayFail
  /\ NextCodec(o, "startFailed")
  /\ UNCHANGED <<pcmStream, frontVars, crossed, pcmCalls>>

StartReturns(o) ==
  /\ \/ At(o, "started") /\ UNCHANGED cluster
     \/ At(o, "startFailed") /\ cluster' = [cluster EXCEPT !.serdes = FALSE]
  /\ Return(o)
  /\ UNCHANGED <<pcmStream, owner, dmaOn, portOn, codec, faults, crossed, pcmCalls>>
-----------------------------------------------------------------------------
(* stop, alone or inside release: silence first, then the channel and the      *)
(* SERDES; an error is kept and the rest goes on.                              *)
Mute(o) ==
  /\ At(o, "mute")
  /\ \/ codec' = [codec EXCEPT ![Codec(o)].muted = TRUE] /\ UNCHANGED faults
     \/ codec' = [codec EXCEPT ![Codec(o)].obeys = FALSE] /\ MayFail
  /\ NextCodec(o, "stopDma")
  /\ UNCHANGED <<pcmStream, frontVars, crossed, pcmCalls>>

StopDma(o) ==
  /\ At(o, "stopDma") /\ pcmStream[o] # "none"
  /\ dmaOn' = FALSE
  /\ cluster' = [cluster EXCEPT !.serdes = FALSE]
  /\ pcmStream' = [pcmStream EXCEPT ![o] = "ready"]
  /\ IF pcm[o].op = "stop" THEN Return(o) ELSE GoTo(o, "drop")
  /\ UNCHANGED <<owner, portOn, codec, faults, crossed, pcmCalls>>

(* stop without a stream switches the SERDES off all the same, which may be    *)
(* the other output's.                                                         *)
StopIdle(o) ==
  /\ At(o, "stopDma") /\ pcmStream[o] = "none"
  /\ cluster' = [cluster EXCEPT !.serdes = FALSE, !.cut = @ \/ cluster.serdes]
  /\ Return(o)
  /\ UNCHANGED <<pcmStream, owner, dmaOn, portOn, codec, faults, crossed, pcmCalls>>

(* release, after its stop: ports, the stream with its channel, the codecs'    *)
(* power, and at last the clocks.                                              *)
DropStream(o) ==
  /\ At(o, "drop")
  /\ portOn' = [portOn EXCEPT ![o] = FALSE]
  /\ pcmStream' = [pcmStream EXCEPT ![o] = "none"]
  /\ owner' = "free" /\ crossed' = crossed \ {o}
  /\ GoTo(o, "unpower")
  /\ UNCHANGED <<dmaOn, cluster, codec, faults, pcmCalls>>

Unpower(o) ==
  /\ At(o, "unpower") /\ SwitchOff(o, "unpower", "unclock")
  /\ UNCHANGED <<pcmStream, frontVars, crossed, pcmCalls>>

(* Mutant: the clocks of the front end stay. *)
KeepClocks(o) ==
  /\ At(o, "unclock")
  /\ IF pcm[o].op = "configure" /\ faults = 0 THEN GoTo(o, "request") ELSE Return(o)
  /\ UNCHANGED <<pcmStream, frontVars, codec, faults, crossed, pcmCalls>>
(* A release that met an error ends the configure around it. *)
Unclock(o) ==
  /\ At(o, "unclock")
  /\ FrontOff
  /\ \/ pcm[o].op = "configure" /\ GoTo(o, "request")
     \/ pcm[o].op = "release" /\ Return(o)
     \/ pcm[o].op = "configure" /\ (\E i \in DOMAIN CodecsOf[o] : ~codec[CodecsOf[o][i]].obeys) /\ Return(o)
  /\ UNCHANGED <<pcmStream, owner, dmaOn, portOn, codec, faults, crossed, pcmCalls>>

McaNext == \E o \in Outputs :
  \/ \E op \in {"configure", "start", "stop", "release"} : BeginCall(o, op)
  \/ RequestDma(o) \/ SetSyncRate(o) \/ EnableClocks(o) \/ ConfigureCodec(o) \/ PrepareDma(o)
  \/ Unwind(o) \/ UnwindCodec(o) \/ UnwindDone(o)
  \/ StartDma(o) \/ Unmute(o) \/ Remute(o) \/ StartReturns(o)
  \/ Mute(o) \/ StopDma(o) \/ StopIdle(o) \/ DropStream(o) \/ Unpower(o) \/ Unclock(o)

McaSpec == McaInit /\ [][McaNext]_mcaVars
-----------------------------------------------------------------------------
Obeys(o) == \A i \in DOMAIN CodecsOf[o] : codec[CodecsOf[o][i]].obeys
Audible(c) == codec[c].powered /\ ~codec[c].muted

(* A stream that is configured has its ports, its clocks and the channel, and  *)
(* a running one its SERDES, whatever the other device tries and fails at,     *)
(* unless that device was still in the teardown of the front end it shares.    *)
(* Only the SERDES can be cut off by a stop on the other device when that has  *)
(* no stream.                                                                  *)
Samples == cluster.serdes \/ cluster.cut
StreamIsFed == \A o \in Outputs :
  pcmStream[o] # "none" /\ o \notin crossed /\ pcm[o].op \in {"none", "start", "stop"} =>
    /\ owner = o /\ portOn[o] /\ cluster.gen /\ cluster.clock > 0
    /\ pcmStream[o] = "running" /\ pcm[o].op = "none" => dmaOn /\ Samples

(* A codec makes sound only while samples reach it: channel, SERDES (unless    *)
(* cut off) and clocks run, in every step of every call and after every        *)
(* failure a codec itself answered.                                            *)
AudibleIsFed == \A o \in Outputs : Obeys(o) /\ o \notin crossed =>
  \A i \in DOMAIN CodecsOf[o] :
    Audible(CodecsOf[o][i]) => /\ cluster.gen /\ Samples /\ portOn[o]
                               /\ dmaOn \/ pcm[o].at = "remute"

(* With no stream and no call under way everything is off again, however the   *)
(* calls before ended.                                                         *)
RestIsQuiet ==
  (\A o \in Outputs : pcmStream[o] = "none" /\ pcm[o] = Resting) =>
    /\ owner = "free" /\ ~dmaOn /\ ~cluster.gen /\ ~cluster.serdes
    /\ \A o \in Outputs : ~portOn[o] /\ (Obeys(o) => \A i \in DOMAIN CodecsOf[o] : ~codec[CodecsOf[o][i]].powered)

(* The two devices keep apart through every failed call: a stream and an       *)
(* audible codec are fed unless the other device was still taking the front    *)
(* end down when the channel changed hands, or, for the SERDES alone, was      *)
(* stopped while it had no stream; and an idle card is off.                    *)
SoundIsFed == StreamIsFed /\ AudibleIsFed /\ RestIsQuiet

-----------------------------------------------------------------------------
(* How the sound card is put together (audio/apple-mca): the machine driver    *)
(* walks the DAI links of the device tree, attaches speaker codecs to the MCA  *)
(* and registers the headphone output.  The devices it needs come up in any    *)
(* order; until they have, the probe is put off and later runs again from the  *)
(* start.  Then the slots of the frame that carry data.                        *)

CONSTANTS
  Cards,        \* device trees: sequences of links [kind, cpus, codecs]; a cpu is a port
  SlotCounts,   \* channels a stream may have
  SlotMasks     \* slot masks, as sets of slots

VARIABLES
  card,      \* the device tree at hand
  present,   \* codecs and controllers that are registered
  mca,       \* the controller: routes [codec, mask], ports
  outputs,   \* ports registered as outputs, in order
  link,      \* the link the probe is at; 0 between probes
  probed,    \* how the last probe ended
  slots      \* a slot mask and a channel count to compute with

linkVars == <<card, present, mca, outputs, link, probed, slots>>

Devices(c) == {"mca"} \cup UNION {ToSet(c[i].codecs) : i \in DOMAIN c}
IsKind(i, k) == card[i].kind = k

McaLinkInit ==
  /\ card \in Cards
  /\ present = {} /\ link = 0 /\ probed = "none"
  /\ mca = [routes |-> <<>>, ports |-> <<>>] /\ outputs = <<>>
  /\ slots = [mask |-> {}, channels |-> 1]

Registers(d) ==
  /\ d \in Devices(card) \ present
  /\ present' = present \cup {d}
  /\ UNCHANGED <<card, mca, outputs, link, probed, slots>>

(* probe_macaudio_fn begins; it is never given up while it is put off. *)
BeginProbe ==
  /\ link = 0 /\ probed \in {"none", "deferred"} /\ card # <<>>
  /\ link' = 1
  /\ UNCHANGED <<card, present, mca, outputs, probed, slots>>

Ends(how) == link' = 0 /\ probed' = how

(* parse_cpu_sound_dais and parse_codec_sound_dais: every device of the link   *)
(* is looked up before anything is attached.                                   *)
LinkWaits ==
  /\ link # 0 /\ card[link].kind # "other"
  /\ ~({"mca"} \cup ToSet(card[link].codecs) \subseteq present)
  /\ Ends("deferred")
  /\ UNCHANGED <<card, present, mca, outputs, slots>>

LinkReady(k) ==
  /\ link # 0 /\ IsKind(link, k)
  /\ {"mca"} \cup ToSet(card[link].codecs) \subseteq present

NextLink ==
  IF link < Len(card) THEN link' = link + 1 /\ UNCHANGED probed
  ELSE Ends(IF \A i \in DOMAIN card : IsKind(i, "other") THEN "noLink" ELSE "ok")

SkipLink ==
  /\ link # 0 /\ IsKind(link, "other") /\ NextLink
  /\ UNCHANGED <<card, present, mca, outputs, slots>>

(* The mask of a speaker codec: one slot each for two controllers' ports, both *)
(* slots otherwise.                                                            *)
TxMask(i, cpu) == IF Len(card[i].cpus) = 2 THEN {cpu - 1} ELSE {0, 1}
(* Mutant: the codecs after the first of each port are lost. *)
FirstRoutes(i) ==
  [n \in DOMAIN card[i].cpus |-> [codec |-> card[i].codecs[n], mask |-> TxMask(i, n), port |-> card[i].cpus[n]]]
PerCpu(i) == Len(card[i].codecs) \div Len(card[i].cpus)
CodecRoutes(i) ==
  [n \in DOMAIN card[i].codecs |->
     LET cpu == ((n - 1) \div PerCpu(i)) + 1
     IN  [codec |-> card[i].codecs[n], mask |-> TxMask(i, cpu), port |-> card[i].cpus[cpu]]]

(* Mutant: the controller is not asked whether it has the codec already. *)
AttachAgain(m, r) ==
  [routes |-> Append(m.routes, [codec |-> r.codec, mask |-> r.mask]),
   ports |-> IF r.port \in ToSet(m.ports) THEN m.ports ELSE Append(m.ports, r.port)]
(* attach_playback_codec_tdm *)
Attach(m, r) ==
  IF [codec |-> r.codec, mask |-> r.mask] \in ToSet(m.routes) THEN m
  ELSE [routes |-> Append(m.routes, [codec |-> r.codec, mask |-> r.mask]),
        ports |-> IF r.port \in ToSet(m.ports) THEN m.ports ELSE Append(m.ports, r.port)]

SpeakerLink ==
  /\ LinkReady("speakers")
  /\ IF Len(card[link].codecs) % Len(card[link].cpus) # 0
     THEN Ends("failed") /\ UNCHANGED mca
     ELSE mca' = FoldLeft(Attach, mca, CodecRoutes(link)) /\ NextLink
  /\ UNCHANGED <<card, present, outputs, slots>>

(* Mutant: the output is entered on every run of the probe. *)
RegisterAgain ==
  /\ LinkReady("headphones")
  /\ outputs' = Append(outputs, card[link].cpus[1]) /\ NextLink
  /\ UNCHANGED <<card, present, mca, slots>>
(* The headphone link and register_mca_output_once. *)
HeadphoneLink ==
  /\ LinkReady("headphones")
  /\ IF Len(card[link].cpus) # 1 THEN Ends("failed") /\ UNCHANGED outputs
     ELSE /\ outputs' = IF card[link].cpus[1] \in ToSet(outputs) THEN outputs
                        ELSE Append(outputs, card[link].cpus[1])
          /\ NextLink
  /\ UNCHANGED <<card, present, mca, slots>>
-----------------------------------------------------------------------------
(* crop_mask: the highest slot goes until as many are left as there are        *)
(* channels.  Mutant: the lowest goes.                                         *)
DropLow(mask, n) ==
  LET crop[S \in SUBSET mask] == IF Cardinality(S) <= n THEN S ELSE crop[S \ {Min(S)}] IN crop[mask]
CropMask(mask, n) ==
  LET crop[S \in SUBSET mask] == IF Cardinality(S) <= n THEN S ELSE crop[S \ {Max(S)}] IN crop[mask]

PickSlots(m, n) ==
  /\ link = 0
  /\ slots' = [mask |-> m, channels |-> n]
  /\ UNCHANGED <<card, present, mca, outputs, link, probed>>

McaLinkNext ==
  \/ \E d \in Devices(card) : Registers(d)
  \/ BeginProbe \/ LinkWaits \/ SkipLink \/ SpeakerLink \/ HeadphoneLink
  \/ \E m \in SlotMasks, n \in SlotCounts : PickSlots(m, n)

McaLinkSpec == McaLinkInit /\ [][McaLinkNext]_linkVars
-----------------------------------------------------------------------------
NoRepeat(s) == Cardinality(ToSet(s)) = Len(s)

(* However often the probe was put off half way, a codec is driven once per    *)
(* slot mask and an output is offered once.                                    *)
AttachedOnce == NoRepeat(mca.routes) /\ NoRepeat(mca.ports) /\ NoRepeat(outputs)

(* A card that came up drives every codec of its speaker links and offers      *)
(* every headphone link, and nothing else.                                     *)
CardIsComplete == probed = "ok" =>
  /\ {r.codec : r \in ToSet(mca.routes)}
       = UNION {ToSet(card[i].codecs) : i \in {j \in DOMAIN card : IsKind(j, "speakers")}}
  /\ ToSet(outputs) = {card[i].cpus[1] : i \in {j \in DOMAIN card : IsKind(j, "headphones")}}

(* A stream of n channels fills the first n slots of the mask, so that the     *)
(* codecs of a stereo pair find theirs.                                        *)
FirstSlotsFilled ==
  LET data == CropMask(slots.mask, slots.channels)
  IN  /\ data \subseteq slots.mask
      /\ Cardinality(data) = Min({slots.channels, Cardinality(slots.mask)})
      /\ \A a \in data, b \in slots.mask \ data : a < b

=============================================================================
