------------------------------ MODULE MCDevices -------------------------------
(* Small instances of the device drivers for TLC: the platform's components,   *)
(* sound (controller, DMA, codecs, DisplayPort audio), input, and the buses    *)
(* they sit on.  They share no variable: one is stepped at a time and the      *)
(* others rest.                                                                *)
EXTENDS MsiVectors, PmgrDomains, DartDomain, ClockRates, Watchdog, Pinctrl,
        McaPlayback, AdmacChannel, DpAudio, SpiHid, SerialBuses, AudioCodecs, TypecPort

VARIABLE part

Diamond == [d \in Domains |-> CASE d = "leaf" -> <<"left", "right">>
                                [] d \in {"left", "right", "side"} -> <<"root">>
                                [] OTHER -> <<>>]
TwoUsers == [u \in PmUsers |-> IF u = "u1" THEN "leaf" ELSE "side"]

(* Two runs of pages in the same leaf table, one of them into the next. *)
TwoRuns == [t \in DartTasks |-> IF t = "t1" THEN <<<<0, 1>>, <<1, 0>>>> ELSE <<<<1, 1>>>>]
FwPage == {<<1, 2>>}

ThreeClusters == <<"e", "p", "x">>
Tables == [n \in {"e", "p", "x"} |->
            <<[level |-> 1, turbo |-> FALSE], [level |-> 9, turbo |-> TRUE],
              [level |-> IF n = "e" THEN 5 ELSE 7, turbo |-> FALSE]>>]
Layouts == [n \in {"e", "p", "x"} |-> IF n = "e" THEN "t8103" ELSE "s5l8960x"]
BootLevels == [n \in {"e", "p", "x"} |-> IF n = "e" THEN 5 ELSE 0]

PlatformParts == {"msi", "pmgr", "dart", "nco", "freq", "wdt", "pin"}
PlatformInit ==
  /\ MsiInit /\ FreqInit /\ PinInit
  /\ IF part = "pmgr" THEN PmInit ELSE PmInit /\ \A d \in Domains : target[d] = "off"
  /\ IF part = "dart" THEN DartInit ELSE DartInit /\ bypassable /\ largePage /\ \A s \in Streams : s # FwStream => tcr[s] = "off"
  /\ IF part = "nco" THEN NcoInit ELSE NcoInit /\ outOn /\ parentRate = 0
  /\ IF part = "wdt" THEN WdInit ELSE WdInit /\ resetEn /\ bite = 0 /\ rate = 1000

PlatformNext ==
  \/ part = "msi" /\ MsiNext /\ UNCHANGED <<pmVars, dartVars, ncoVars, freqVars, wdVars, pinVars>>
  \/ part = "pmgr" /\ PmNext /\ UNCHANGED <<msiVars, dartVars, ncoVars, freqVars, wdVars, pinVars>>
  \/ part = "dart" /\ DartNext /\ UNCHANGED <<msiVars, pmVars, ncoVars, freqVars, wdVars, pinVars>>
  \/ part = "nco" /\ NcoNext /\ UNCHANGED <<msiVars, pmVars, dartVars, freqVars, wdVars, pinVars>>
  \/ part = "freq" /\ FreqNext /\ UNCHANGED <<msiVars, pmVars, dartVars, ncoVars, wdVars, pinVars>>
  \/ part = "wdt" /\ WdNext /\ UNCHANGED <<msiVars, pmVars, dartVars, ncoVars, freqVars, pinVars>>
  \/ part = "pin" /\ PinNext /\ UNCHANGED <<msiVars, pmVars, dartVars, ncoVars, freqVars, wdVars>>

platformVars == <<msiVars, pmVars, dartVars, ncoVars, freqVars, wdVars, pinVars>>

Codecs == [o \in Outputs |-> IF o = "speakers" THEN <<"left", "right">> ELSE <<"jack">>]

(* Links of device trees: two speakers on one port each or on one, a codec     *)
(* missing from a pair, headphones, a link the driver does not know.           *)
Link(kind, cpus, codecs) == [kind |-> kind, cpus |-> cpus, codecs |-> codecs]
Spk2 == Link("speakers", <<0, 1>>, <<"l1", "l2", "r1", "r2">>)
Spk1 == Link("speakers", <<0>>, <<"l1", "r1">>)
Odd == Link("speakers", <<0, 1>>, <<"l1", "l2", "r1">>)
Hp == Link("headphones", <<2>>, <<"jack">>)
Other == Link("other", <<3>>, <<>>)
DeviceTrees == {<<Spk2, Hp>>, <<Hp, Spk1>>, <<Odd, Hp>>, <<Other>>, <<Spk1, Other, Hp>>, <<Hp, Spk2, Other>>}
Masks == {{}, {0}, {0, 1}, {1, 3}, 0..3, 0..7, {0, 2, 5, 6}}

(* Six keys of a report cut to two; two fingers' worth of movement.            *)
Reports2 == {<<NoKey, NoKey>>, <<"a", NoKey>>, <<"a", "b">>, <<"b", "a">>, <<"x", "x">>}
Fingers == {<<>>, <<0, 0>>, <<24, -12>>}

(* I2C transfers: a write, a write and a read after a repeated start, a read.  *)
Msg(r, n, s) == [read |-> r, n |-> n, stop |-> s]
Transfers == {<<Msg(FALSE, 1, TRUE)>>, <<Msg(FALSE, 1, FALSE), Msg(TRUE, 2, TRUE)>>, <<Msg(TRUE, 1, TRUE)>>}

DeviceParts == {"mca", "links", "admac", "dp", "input", "hid", "spi", "cs", "tas", "i2c", "typec"}
Init ==
  /\ part \in PlatformParts \cup DeviceParts /\ PlatformInit
  /\ McaInit /\ AdmacInit /\ DpInit /\ HidInputInit /\ SpiHidInit /\ SpiInit /\ CsInit /\ TasInit /\ I2cInit
  /\ IF part = "typec" THEN TcInit ELSE TcInit /\ sysPower = 0 /\ cmd1 = "none" /\ plug = "none"
  /\ IF part = "links" THEN McaLinkInit ELSE McaLinkInit /\ card = <<Other>>

DeviceNext ==
  \/ part = "mca" /\ McaNext
     /\ UNCHANGED <<linkVars, admacVars, dpVars, hidInputVars, spiHidVars, spiVars, csVars, tasVars, i2cVars, tcVars>>
  \/ part = "links" /\ McaLinkNext
     /\ UNCHANGED <<mcaVars, admacVars, dpVars, hidInputVars, spiHidVars, spiVars, csVars, tasVars, i2cVars, tcVars>>
  \/ part = "admac" /\ AdmacNext
     /\ UNCHANGED <<mcaVars, linkVars, dpVars, hidInputVars, spiHidVars, spiVars, csVars, tasVars, i2cVars, tcVars>>
  \/ part = "dp" /\ DpNext
     /\ UNCHANGED <<mcaVars, linkVars, admacVars, hidInputVars, spiHidVars, spiVars, csVars, tasVars, i2cVars, tcVars>>
  \/ part = "input" /\ HidInputNext
     /\ UNCHANGED <<mcaVars, linkVars, admacVars, dpVars, spiHidVars, spiVars, csVars, tasVars, i2cVars, tcVars>>
  \/ part = "hid" /\ SpiHidNext
     /\ UNCHANGED <<mcaVars, linkVars, admacVars, dpVars, hidInputVars, spiVars, csVars, tasVars, i2cVars, tcVars>>
  \/ part = "spi" /\ SpiNext
     /\ UNCHANGED <<mcaVars, linkVars, admacVars, dpVars, hidInputVars, spiHidVars, csVars, tasVars, i2cVars, tcVars>>
  \/ part = "cs" /\ CsNext
     /\ UNCHANGED <<mcaVars, linkVars, admacVars, dpVars, hidInputVars, spiHidVars, spiVars, tasVars, i2cVars, tcVars>>
  \/ part = "tas" /\ TasNext
     /\ UNCHANGED <<mcaVars, linkVars, admacVars, dpVars, hidInputVars, spiHidVars, spiVars, csVars, i2cVars, tcVars>>
  \/ part = "i2c" /\ I2cNext
     /\ UNCHANGED <<mcaVars, linkVars, admacVars, dpVars, hidInputVars, spiHidVars, spiVars, csVars, tasVars, tcVars>>
  \/ part = "typec" /\ TcNext
     /\ UNCHANGED <<mcaVars, linkVars, admacVars, dpVars, hidInputVars, spiHidVars, spiVars, csVars, tasVars, i2cVars>>

deviceVars == <<mcaVars, linkVars, admacVars, dpVars, hidInputVars, spiHidVars, spiVars, csVars, tasVars, i2cVars, tcVars>>

Next ==
  \/ PlatformNext /\ UNCHANGED <<part, deviceVars>>
  \/ DeviceNext /\ UNCHANGED <<part, platformVars>>

vars == <<part, platformVars, deviceVars>>
Spec == Init /\ [][Next]_vars

(* What is programmed is what was asked: the clock's three registers, the      *)
(* cluster's performance level, the watchdog's time, at the limits of their    *)
(* fields and with several callers.                                            *)
ProgrammedIsAsked ==
  /\ [](OutputConsistent /\ RateExact /\ RoundedAccepted /\ IndexUnique /\ ScannedOnce /\ BiteIsPromised)
  /\ NoCommandLost /\ LevelIsClamped /\ StartLeavesTime

(* Nothing that happens outside goes unheard or is made up: edges of pins,     *)
(* reports of the keyboard and the trackpad, and the events made of them.      *)
InputsHeard ==
  /\ [](NoEdgeLost /\ LivePinHasHandler /\ NeverDeaf /\ RepeatsAreHeld /\ EventsMirrorReports)
  /\ NoJumpAfterLift

(* Audio DMA never runs over memory given back or another channel's block, and *)
(* its books count each period once, through stops, failures and retries.      *)
PeriodsAreCounted ==
  /\ [](BlocksDisjoint /\ CountedOnce /\ PlaysMappedBuffer /\ ResidueIsCurrent /\ HalvesAreKnown /\ LinkFollowsStream)
  /\ BounceOutlivesDma

(* The codecs are those of the device tree, each attached once and sent its    *)
(* slots however often the probe was put off, and a codec does what the driver *)
(* believes, after every failure of its bus.                                   *)
CodecsObey ==
  /\ [](AttachedOnce /\ CardIsComplete /\ FirstSlotsFilled)
  /\ [](WritesLandRight /\ OffIsMuted /\ AudibleIsClocked /\ PllMakesMclk /\ ConfiguredIsExact /\ LastWishWins)
  /\ ClockNeverStops

(* What a bus transfer returns is its own, after timeouts, lost or damaged     *)
(* packets and transfers given up half way; and what several transfers read of *)
(* a port describes one connection.                                            *)
TransfersAreOwn ==
  /\ LanesNegotiated /\ PortIsPowered /\ SpiReadIsOwn /\ WireIsTransfer /\ OkIsAcked /\ I2cReadIsOwn /\ WholeReports /\ AnswerIsOwn

=============================================================================
