------------------------------- MODULE Watchdog -------------------------------
(* The Apple watchdog, drivers/watchdog/apple-wdt.                           *)
(*                                                                           *)
(* The bite time is a number of clock ticks in a register W wide; the        *)
(* counter runs by itself.  Nothing is locked: the kernel's watchdog layer   *)
(* calls one operation at a time, each a few register writes.                *)
EXTENDS Naturals

CONSTANTS
  WdW,           \* 2 to the width of the bite register
  ClockRates,    \* ticks per millisecond, times 1000, of the clocks there are
  Timeouts,      \* timeouts asked for, in milliseconds
  DefaultMs      \* APPLE_WDT_DEFAULT_TIMEOUT_MS

VARIABLES
  rate,          \* clk_rate_hz
  resetEn,       \* WD1_CTRL
  bite, cur,     \* WD1_BITE_TIME and WD1_CUR_TIME
  timeoutMs,     \* timeout_ms, zero before the first set_timeout
  promised,      \* history: milliseconds the last accepted timeout asked for
  wpc            \* "off" before the probe, then "idle" or the next step of start

wdVars == <<rate, resetEn, bite, cur, timeoutMs, promised, wpc>>

(* What firmware left may be running. *)
WdInit ==
  /\ rate \in ClockRates /\ resetEn \in BOOLEAN /\ bite \in {0, WdW - 1} /\ cur = 0
  /\ timeoutMs = 0 /\ promised = 0 /\ wpc = "off"

WdProbe ==
  /\ wpc = "off" /\ wpc' = "idle" /\ resetEn' = FALSE
  /\ UNCHANGED <<rate, bite, cur, timeoutMs, promised>>

Ticks(ms) == (ms * rate) \div 1000
Accepts(ms) == ms # 0 /\ Ticks(ms) \in 1 .. WdW - 1

(* Mutant: ticks beyond the register are cut off. *)
SetTimeoutCut(ms) ==
  /\ bite' = Ticks(ms) % WdW /\ timeoutMs' = (bite' * 1000) \div rate
  /\ promised' = ms

(* set_timeout and ticks_to_timeout_ms *)
SetTimeoutTo(ms) ==
  /\ Accepts(ms)
  /\ bite' = Ticks(ms) /\ timeoutMs' = (Ticks(ms) * 1000) \div rate
  /\ promised' = ms

SetTimeout(ms) ==
  /\ wpc = "idle" /\ SetTimeoutTo(ms)
  /\ UNCHANGED <<rate, resetEn, cur, wpc>>

(* start: an own timeout, or the default when there never was one. *)
Start(ms) ==
  /\ wpc = "idle" /\ ~resetEn
  /\ IF ms # 0 THEN SetTimeoutTo(ms)
     ELSE IF timeoutMs = 0 THEN SetTimeoutTo(DefaultMs)
     ELSE UNCHANGED <<bite, timeoutMs, promised>>
  /\ wpc' = "ping"
  /\ UNCHANGED <<rate, resetEn, cur>>

(* Mutant: started where the counter stands. *)
StartNoPing == wpc = "ping" /\ wpc' = "arm" /\ UNCHANGED <<rate, resetEn, bite, cur, timeoutMs, promised>>

StartPing ==
  /\ wpc = "ping" /\ cur' = 0 /\ wpc' = "arm"
  /\ UNCHANGED <<rate, resetEn, bite, timeoutMs, promised>>

StartArm ==
  /\ wpc = "arm" /\ resetEn' = TRUE /\ wpc' = "idle"
  /\ UNCHANGED <<rate, bite, cur, timeoutMs, promised>>

Ping ==
  /\ wpc = "idle" /\ cur' = 0
  /\ UNCHANGED <<rate, resetEn, bite, timeoutMs, promised, wpc>>

Stop ==
  /\ wpc = "idle" /\ resetEn' = FALSE
  /\ UNCHANGED <<rate, bite, cur, timeoutMs, promised, wpc>>

(* External: the counter; the machine resets when it reaches the bite time.  *)
(* It stands still between the two writes of a start, some nanoseconds.      *)
Tick ==
  /\ wpc # "arm" /\ ~(resetEn /\ cur >= bite) /\ cur < WdW - 1
  /\ cur' = cur + 1
  /\ UNCHANGED <<rate, resetEn, bite, timeoutMs, promised, wpc>>

WdNext ==
  \/ WdProbe \/ StartPing \/ StartArm \/ Ping \/ Stop \/ Tick
  \/ \E ms \in Timeouts : SetTimeout(ms) \/ Start(ms)

WdSpec == WdInit /\ [][WdNext]_wdVars

------------------------------------------------------------------------------
(* Armed, the watchdog gives at least the time that was accepted last, to a  *)
(* tick: a timeout whose ticks do not fit is refused, never cut to a short   *)
(* one or to zero.                                                           *)
BiteIsPromised == promised # 0 => (bite + 1) * 1000 > promised * rate

(* Starting never bites at once: whatever was in the counter and the bite    *)
(* register before, there is time left when the reset is enabled.            *)
StartLeavesTime == [][~resetEn /\ resetEn' => cur' < bite']_wdVars
=============================================================================
