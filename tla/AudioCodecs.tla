----------------------------- MODULE AudioCodecs ------------------------------
(* The two codecs behind I2C, for headphones and for speakers. *)
EXTENDS Naturals, Sequences, SequencesExt, FiniteSetsExt, FiniteSets

(* The headphone codec (audio/cs42l83) behind I2C: registers on pages, of      *)
(* which the driver remembers the selected one, a PLL that is set up from a    *)
(* table, and the calls that configure, power and mute playback.  Each access  *)
(* may fail, and a write may fail although the codec took it.                  *)

CONSTANTS CsRates,      \* sample rates asked for
          MaxCsFaults,  \* accesses that fail
          MaxCsCalls    \* bound: calls of the client

VARIABLES
  csPage,    \* the codec's page, and the one the driver remembers
  csDev,     \* the codec
  csKnown,   \* powered, stream_active, pll_config
  csCall,    \* the call and the accesses it has still to make
  csClient,  \* what the client did: configured, muted, calls
  csFaults   \* failures: all, lost answers, failed mutes and power downs, misdirected accesses

csVars == <<csPage, csDev, csKnown, csCall, csClient, csFaults>>

(* PLL_RATIO_TABLE in units of 100 Hz; the fraction in sixteenths. *)
PllRow(sclk, sel, prediv, int, frac, mode, mclk, n) ==
  [sclk |-> sclk, sel |-> sel, prediv |-> prediv, int |-> int, frac |-> frac, mode |-> mode, mclk |-> mclk, n |-> n]
PllTable == <<
  PllRow(14112, 1, 0, 128, 0, 3, 112896, 2), PllRow(15360, 1, 0, 125, 0, 3, 120000, 2),
  PllRow(23040, 1, 0, 85, 12, 2, 122880, 2), PllRow(24000, 1, 0, 80, 0, 3, 120000, 2),
  PllRow(28224, 1, 0, 64, 0, 3, 112896, 1),  PllRow(30000, 1, 0, 64, 0, 3, 120000, 1),
  PllRow(30720, 1, 0, 62, 8, 3, 120000, 1),  PllRow(40000, 1, 0, 48, 8, 3, 120000, 1),
  PllRow(40960, 1, 0, 46, 14, 3, 120000, 1), PllRow(48000, 1, 1, 80, 0, 3, 120000, 2),
  PllRow(56448, 1, 1, 64, 0, 3, 112896, 1),  PllRow(60000, 1, 1, 64, 0, 3, 120000, 1),
  PllRow(61440, 1, 1, 62, 8, 3, 120000, 1),  PllRow(96000, 1, 2, 80, 0, 3, 120000, 2),
  PllRow(112896, 0, 0, 0, 0, 0, 112896, 1),  PllRow(120000, 0, 0, 0, 0, 0, 120000, 1),
  PllRow(122880, 0, 0, 0, 0, 0, 122880, 1),  PllRow(192000, 1, 3, 80, 0, 3, 120000, 2),
  PllRow(225792, 1, 3, 64, 0, 3, 112896, 1), PllRow(240000, 1, 3, 64, 0, 3, 120000, 1),
  PllRow(245760, 1, 3, 64, 0, 3, 122880, 1)>>
Divides(rate, hundreds) == (hundreds * 100) % rate = 0

(* Mutant: the first row for the bit clock will do. *)
RowsOfClock(rate) == {i \in DOMAIN PllTable : PllTable[i].sclk * 100 = rate * 64}
RowsFor(rate) == {i \in DOMAIN PllTable : PllTable[i].sclk * 100 = rate * 64 /\ Divides(rate, PllTable[i].mclk)}
Usable(rate) == RowsFor(rate) # {} /\ (rate * 64) \div rate = 64
NoRow == [PllRow(0, 0, 0, 0, 0, 0, 0, 1) EXCEPT !.sclk = 0]
RowFor(rate) == PllTable[Min(RowsFor(rate))]
-----------------------------------------------------------------------------
(* The registers and their pages. *)
CsPageOf == [mute |-> 32, osc |-> 17, src |-> 18, pll |-> 21, ctl3 |-> 21, hp |-> 17, dac |-> 17, asp |-> 18,
             div |-> 21, frame |-> 18, width |-> 42, volume |-> 35, fs |-> 16, lock |-> 19]

CsInit ==
  /\ csPage = [dev |-> 0, cache |-> 0]
  /\ csDev = [mute |-> TRUE, osc |-> FALSE, src |-> "sclk", pll |-> FALSE, ctl3 |-> "run",
              hp |-> FALSE, dac |-> FALSE, asp |-> FALSE, div |-> NoRow]
  /\ csKnown = [powered |-> FALSE, active |-> FALSE, row |-> NoRow]
  /\ csCall = [op |-> "none", todo |-> <<>>]
  /\ csClient = [configured |-> FALSE, rate |-> 0, muted |-> TRUE, calls |-> 0]
  /\ csFaults = [all |-> 0, lost |-> FALSE, down |-> FALSE, astray |-> FALSE]

(* What each call writes, in order; "known" items are the driver's own flags.  *)
Access(reg, val) == <<reg, val>>
Remember(flag, val) == <<"known", flag, val>>
Only(b, steps) == IF b THEN steps ELSE <<>>

PowerUp == Only(~csKnown.powered, <<Access("hp", TRUE), Access("dac", TRUE), Access("asp", TRUE), Remember("powered", TRUE)>>)
(* Mutant: the output stays as it is. *)
PowerDownOnly ==
  Only(csKnown.powered, <<Access("asp", FALSE), Access("dac", FALSE), Access("hp", FALSE), Remember("powered", FALSE)>>)
PowerDown ==
  Only(csKnown.powered, <<Access("mute", TRUE), Access("asp", FALSE), Access("dac", FALSE), Access("hp", FALSE), Remember("powered", FALSE)>>)
StopClock == <<Access("osc", FALSE), Access("src", "sclk"), Access("pll", FALSE), Remember("active", FALSE)>>
MuteSteps == <<Access("mute", TRUE)>> \o Only(csKnown.active, StopClock)
(* Mutant: the clock is switched before the PLL is started. *)
SwitchFirst == <<Access("src", "pll")>> \o Only(csKnown.row.n > 1, <<Access("ctl3", "run")>>) \o <<Access("pll", TRUE)>>
(* Five polls for the lock, 250 of 1250 us each; the clock is switched without *)
(* it after the last.                                                          *)
LockPolls == [poll \in 1 .. 5 |-> <<"lock">>]
StartPll ==
  <<Access("pll", TRUE)>> \o Only(csKnown.row.n > 1, <<Access("ctl3", "run")>>) \o LockPolls \o <<Access("src", "pll")>>
StartClock == Only(csKnown.row.sel # 0, StartPll) \o <<Access("osc", TRUE), Remember("active", TRUE)>>
(* Mutant: the stream counts as active before its clock runs. *)
ActiveFirst == PowerUp \o Only(~csKnown.active, <<Remember("active", TRUE)>> \o StartClock) \o <<Access("mute", FALSE)>>
UnmuteSteps == PowerUp \o Only(~csKnown.active, StartClock) \o <<Access("mute", FALSE)>>
ConfigurePll(r) ==
  <<Access("fs", r.mclk)>> \o Only(r.sel = 0, <<Access("pll", FALSE)>>)
    \o Only(r.sel # 0, <<Access("frame", "prediv"), Access("div", r), Access("ctl3", IF r.n = 1 THEN "run" ELSE "start")>>)
    \o <<Remember("row", r)>>
ConfigurePlayback(rate) ==
  <<Access("frame", "i2s"), Access("width", 1), Access("volume", 1)>> \o ConfigurePll(RowFor(rate)) \o <<Access("frame", "fsync")>>

CsBegin(op, todo) ==
  /\ csCall.op = "none" /\ csClient.calls < MaxCsCalls
  /\ csCall' = [op |-> op, todo |-> todo] /\ UNCHANGED <<csPage, csDev, csKnown, csFaults>>
(* The client configures with the output muted, as far as it was told, and     *)
(* unmutes only what it configured.                                            *)
CsConfigure(rate) ==
  /\ csClient.muted
  /\ IF Usable(rate)
     THEN /\ CsBegin("configure", ConfigurePlayback(rate))
          /\ csClient' = [csClient EXCEPT !.configured = FALSE, !.rate = rate, !.calls = @ + 1]
     ELSE UNCHANGED csVars
CsPower(on) ==
  /\ on => csClient.configured
  /\ CsBegin(IF on THEN "power" ELSE "off", IF on THEN PowerUp ELSE PowerDown) /\ csClient' = [csClient EXCEPT !.calls = @ + 1]
CsMute ==
  /\ ~csClient.muted
  /\ CsBegin("mute", MuteSteps) /\ csClient' = [csClient EXCEPT !.muted = TRUE, !.calls = @ + 1]
CsUnmute ==
  /\ csClient.configured
  /\ CsBegin("unmute", UnmuteSteps) /\ csClient' = [csClient EXCEPT !.muted = FALSE, !.calls = @ + 1]

CsItem == Head(csCall.todo)
CsNow == csCall.todo # <<>>
CsTakes == csCall' = [csCall EXCEPT !.todo = Tail(@)]
(* A failing access ends the call; one of a poll only ends that poll. *)
CsFails(lost) ==
  /\ csFaults.all < MaxCsFaults
  /\ csFaults' = [csFaults EXCEPT !.all = @ + 1, !.lost = @ \/ lost, !.down = @ \/ csCall.op \in {"mute", "off"}]
  /\ IF CsItem[1] = "lock" THEN CsTakes ELSE csCall' = [op |-> "none", todo |-> <<>>]
CsAway == CsNow /\ CsItem[1] # "known" /\ csPage.cache # CsPageOf[CsItem[1]]
CsHere == CsNow /\ CsItem[1] # "known" /\ csPage.cache = CsPageOf[CsItem[1]]

(* Mutant: the page is remembered before it is known to be selected. *)
RememberFirst ==
  /\ CsAway /\ UNCHANGED <<csDev, csKnown, csClient>>
  /\ LET p == CsPageOf[CsItem[1]] IN
     \/ csPage' = [dev |-> p, cache |-> p] /\ UNCHANGED <<csCall, csFaults>>
     \/ csPage' = [csPage EXCEPT !.cache = p] /\ CsFails(FALSE)
SelectPage ==
  /\ CsAway /\ UNCHANGED <<csDev, csKnown, csClient>>
  /\ LET p == CsPageOf[CsItem[1]] IN
     \/ csPage' = [dev |-> p, cache |-> p] /\ UNCHANGED <<csCall, csFaults>>
     \/ CsFails(FALSE) /\ UNCHANGED csPage
     \/ csPage' = [csPage EXCEPT !.dev = p] /\ CsFails(TRUE)

CsLands == csPage.dev = csPage.cache
CsWritten == IF CsLands /\ CsItem[1] \in DOMAIN csDev THEN [csDev EXCEPT ![CsItem[1]] = CsItem[2]] ELSE csDev
CsWriteRegister ==
  /\ CsHere /\ CsItem[1] # "lock" /\ UNCHANGED <<csPage, csKnown, csClient>>
  /\ \/ csDev' = CsWritten /\ CsTakes /\ csFaults' = [csFaults EXCEPT !.astray = @ \/ ~CsLands]
     \/ CsFails(FALSE) /\ UNCHANGED csDev
     \/ csDev' = CsWritten /\ CsFails(TRUE)
(* The PLL has locked, has not, or the read fails and counts as that. *)
PollLock ==
  /\ CsHere /\ CsItem[1] = "lock" /\ UNCHANGED <<csPage, csDev, csKnown, csClient>>
  /\ \/ csCall' = [csCall EXCEPT !.todo = SelectSeq(@, LAMBDA item : item # <<"lock">>)] /\ UNCHANGED csFaults
     \/ CsTakes /\ UNCHANGED csFaults
     \/ CsFails(FALSE)
SetKnown ==
  /\ CsNow /\ CsItem[1] = "known"
  /\ csKnown' = [csKnown EXCEPT ![CsItem[2]] = CsItem[3]]
  /\ CsTakes /\ UNCHANGED <<csPage, csDev, csClient, csFaults>>
CsDone ==
  /\ csCall.op # "none" /\ csCall.todo = <<>>
  /\ csCall' = [csCall EXCEPT !.op = "none"]
  /\ csClient' = [csClient EXCEPT !.configured = @ \/ csCall.op = "configure"]
  /\ UNCHANGED <<csPage, csDev, csKnown, csFaults>>

CsNext ==
  \/ (\E r \in CsRates : CsConfigure(r)) \/ (\E on \in BOOLEAN : CsPower(on)) \/ CsMute \/ CsUnmute
  \/ SelectPage \/ CsWriteRegister \/ PollLock \/ SetKnown \/ CsDone

CsSpec == CsInit /\ [][CsNext]_csVars
-----------------------------------------------------------------------------
(* No register is written on a page other than its own, unless the answer to   *)
(* a page write was lost.                                                      *)
WritesLandRight == csFaults.astray => csFaults.lost

(* A codec that the driver takes for powered down is muted, whatever failed on *)
(* the way there and although an unmute powers it up by itself.                *)
OffIsMuted == ~csFaults.lost /\ csCall.op = "none" /\ ~csKnown.powered => csDev.mute

(* Muting and unmuting never leave the codec on a PLL that is not started,     *)
(* wherever they fail: only a reconfiguration may stop the PLL under it.  A    *)
(* PLL that has not locked after the last poll is used all the same.           *)
ClockNeverStops == [][
  ~csFaults'.lost /\ csDev'.src = "pll" /\ ~csDev'.pll
    => csCall.op = "configure" \/ (csDev.src = "pll" /\ ~csDev.pll)]_csVars

(* Once unmuted, a configured stream has power, and the PLL of its own rate    *)
(* when it needs one,                                                          *)
(* even after earlier calls failed; mutes and power downs that fail are the     *)
(* exception: they leave the driver believing in what they took back.          *)
AudibleIsClocked ==
  ~csDev.mute /\ ~csClient.muted /\ csCall.op = "none" /\ ~csFaults.lost /\ ~csFaults.down /\ csKnown.powered =>
    /\ csDev.hp /\ csDev.dac /\ csDev.asp /\ csDev.osc
    /\ csKnown.row.sel # 0 => csDev.src = "pll" /\ csDev.div = csKnown.row /\ csDev.ctl3 = "run"

(* The table's PLL turns the bit clock into the master clock exactly, and that *)
(* is a multiple of the rate.                                                  *)
PllMakesMclk == LET r == csKnown.row IN r # NoRow =>
  /\ Divides(csClient.rate, r.mclk) \/ ~csClient.configured
  /\ r.sel # 0 /\ r.mode = 3 => (r.sclk \div (2 ^ r.prediv)) * (r.int * 16 + r.frac) = r.mclk * 16 * 16

------------------------------------------------------------------------------
(* A speaker amplifier (audio/tas5770l) behind I2C: calls that configure       *)
(* playback, power and mute it, each a sequence of register updates that stops *)
(* at the first one that fails.  A write that fails may have reached the chip. *)

CONSTANTS
  TasFormats, TasRates, TasMasks, TasSlots, TasWidths,  \* arguments tried; masks are sets of slots
  MaxTasFaults,  \* accesses that fail
  MaxTasCalls    \* bound: calls of the client

VARIABLES
  tasChip,   \* the chip's registers
  tasFlags,  \* powered, unmuted
  tasCall,   \* the call, its arguments and the updates still to make
  tasDone,   \* the arguments of the last configure that succeeded, until the next one begins
  tasWish,   \* what the client last asked of power and mute, and whether the last call succeeded
  tasFaults  \* failures and calls so far

tasVars == <<tasChip, tasFlags, tasCall, tasDone, tasWish, tasFaults>>

TasArgs == [format : TasFormats, rate : TasRates, mask : TasMasks, slots : TasSlots, width : TasWidths]
NoArgs == [format |-> "none", rate |-> 0, mask |-> {}, slots |-> 0, width |-> 0]
TasRest == [op |-> "none", args |-> NoArgs, todo |-> <<>>]

(* initialize leaves the chip configured with the defaults, powered and muted. *)
TasInit ==
  /\ tasChip = [rate |-> 48000, word |-> 16, rxs |-> 16, left |-> 0, right |-> 1, power |-> "mute"]
  /\ tasFlags = [powered |-> TRUE, unmuted |-> FALSE]
  /\ tasCall = TasRest /\ tasDone = NoArgs
  /\ tasWish = [powered |-> TRUE, unmuted |-> FALSE, told |-> TRUE] /\ tasFaults = [n |-> 0, calls |-> 0]

Update(reg, val) == <<[reg |-> reg, val |-> val]>>
Refused == <<[reg |-> "refuse", val |-> 0]>>

(* configure_bitwidth also sets the slot to the width of the sample. *)
WordOf(f) == CASE f = "s16" -> 16 [] f = "s24" -> 24 [] f = "s32" -> 32
Bitwidth(f) == IF f \in {"s16", "s24", "s32"} THEN Update("word", WordOf(f)) \o Update("rxs", WordOf(f)) ELSE Refused
SampleRate(r) == IF r \in {44100, 48000, 88200, 96000, 176400, 192000} THEN Update("rate", r) ELSE Refused

(* The lowest slot of the mask is the left one, the next the right one; a mask *)
(* of one slot plays it on both.                                               *)
LeftSlot(m) == Min(m)
RightSlot(m) == IF Cardinality(m) = 1 THEN Min(m) ELSE Min(m \ {Min(m)})
TdmSlot(m, slots, width) ==
  IF m = {} \/ slots = 0 THEN Refused
  ELSE IF Cardinality(m) > 2 \/ RightSlot(m) >= slots \/ RightSlot(m) > 15 \/ width \notin {16, 24, 32} THEN Refused
  ELSE Update("left", LeftSlot(m)) \o Update("right", RightSlot(m)) \o Update("rxs", width)
(* Mutant: the sample's width is set last. *)
BitwidthLast(a) == SampleRate(a.rate) \o TdmSlot(a.mask, a.slots, a.width) \o Bitwidth(a.format) \o Update("sense", 0)
PlaybackSteps(a) == Bitwidth(a.format) \o SampleRate(a.rate) \o TdmSlot(a.mask, a.slots, a.width) \o Update("sense", 0)

(* update_power_ctrl: from the two flags. *)
PowerMode(flags) == IF ~flags.powered THEN "shutdown" ELSE IF flags.unmuted THEN "active" ELSE "mute"
-----------------------------------------------------------------------------
TasConfigure(a) ==
  /\ tasCall = TasRest /\ tasFaults.calls < MaxTasCalls
  /\ tasCall' = [op |-> "configure", args |-> a, todo |-> PlaybackSteps(a)]
  /\ tasDone' = NoArgs /\ tasFaults' = [tasFaults EXCEPT !.calls = @ + 1]
  /\ UNCHANGED <<tasChip, tasFlags, tasWish>>
(* set_powered, set_muted: the flag, then one write. *)
(* Mutant: the flag is set only for a chip that is not shut down. *)
RecordsLate(flag, on) == IF tasChip.power = "shutdown" THEN tasFlags ELSE [tasFlags EXCEPT ![flag] = on]
Records(flag, on) == [tasFlags EXCEPT ![flag] = on]
TasSwitch(flag, on) ==
  /\ tasCall = TasRest /\ tasFaults.calls < MaxTasCalls
  /\ tasFlags' = Records(flag, on) /\ tasWish' = [tasWish EXCEPT ![flag] = on, !.told = FALSE]
  /\ tasCall' = [op |-> "power", args |-> NoArgs, todo |-> Update("power", PowerMode(Records(flag, on)))]
  /\ tasFaults' = [tasFaults EXCEPT !.calls = @ + 1]
  /\ UNCHANGED <<tasChip, tasDone>>

(* One register; a call ends at the first that fails or is refused. *)
TasStep == Head(tasCall.todo)
TasFault == tasFaults.n < MaxTasFaults /\ tasFaults' = [tasFaults EXCEPT !.n = @ + 1]
TasWritten == IF TasStep.reg \in DOMAIN tasChip THEN [tasChip EXCEPT ![TasStep.reg] = TasStep.val] ELSE tasChip
TasUpdate ==
  /\ tasCall.todo # <<>> /\ TasStep.reg # "refuse" /\ UNCHANGED <<tasFlags, tasDone, tasWish>>
  /\ \/ tasChip' = TasWritten /\ tasCall' = [tasCall EXCEPT !.todo = Tail(@)] /\ UNCHANGED tasFaults
     \/ tasChip' \in {tasChip, TasWritten} /\ tasCall' = TasRest /\ TasFault
TasRefuse ==
  /\ tasCall.todo # <<>> /\ TasStep.reg = "refuse" /\ tasCall' = TasRest
  /\ UNCHANGED <<tasChip, tasFlags, tasDone, tasWish, tasFaults>>
TasReturn ==
  /\ tasCall # TasRest /\ tasCall.todo = <<>> /\ tasCall' = TasRest
  /\ tasDone' = IF tasCall.op = "configure" THEN tasCall.args ELSE tasDone
  /\ tasWish' = IF tasCall.op = "power" THEN [tasWish EXCEPT !.told = TRUE] ELSE tasWish
  /\ UNCHANGED <<tasChip, tasFlags, tasFaults>>

TasNext ==
  \/ (\E a \in TasArgs : TasConfigure(a)) \/ (\E f \in {"powered", "unmuted"}, on \in BOOLEAN : TasSwitch(f, on))
  \/ TasUpdate \/ TasRefuse \/ TasReturn

TasSpec == TasInit /\ [][TasNext]_tasVars
-----------------------------------------------------------------------------
(* A configure that succeeds leaves the chip exactly as asked, whatever an     *)
(* earlier one left half done: the sample's width, the slot's width, the rate, *)
(* and two slots that lie in the frame and belong to the mask.                 *)
ConfiguredIsExact == tasDone # NoArgs =>
  /\ tasChip.word = WordOf(tasDone.format) /\ tasChip.rxs = tasDone.width /\ tasChip.rate = tasDone.rate
  /\ {tasChip.left, tasChip.right} = tasDone.mask
  /\ tasChip.left <= tasChip.right /\ tasChip.right < tasDone.slots

(* After a power or mute call that succeeds, the chip obeys the client's last  *)
(* word on both, also the one of a call that failed.                           *)
LastWishWins == tasWish.told => tasChip.power = PowerMode(tasWish)
===============================================================================
