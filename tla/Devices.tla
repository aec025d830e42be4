------------------------------ MODULE Devices ------------------------------
(***************************************************************************)
(* The timed devices of emu_go on the CPU's clock: the timers, the RTC,    *)
(* the battery converter, and the decimal unit beside them.  A program     *)
(* writes registers, cycles pass, the bus polls the devices, the host      *)
(* sets the clock's rate and resumes save-states.                          *)
(***************************************************************************)
EXTENDS GTimer, Rtc, Adc, Bcd

CONSTANT MaxOps     \* bound by unit: register writes, rate changes and save-states together

VARIABLES
  using,    \* the unit the program drives
  ops

vars == <<clockVars, timerVars, rtcVars, adcVars, bcdVars, using, ops>>

Units == {"timers", "rtc", "adc", "bcd"}

\* The requests of the units are told apart.
ASSUME DevicesAssumption == Chans \cap {"rtc", "adc"} = {}

Init ==
  /\ ClockInit /\ TimerInit /\ RtcInit /\ AdcInit /\ BcdInit /\ ops = 0
  /\ using \in Units
  /\ (using = "rtc") <=> (epochSec # 0)   \* elsewhere the calendar stays at its epoch

Counted == ops < MaxOps[using] /\ ops' = ops + 1 /\ UNCHANGED using

---------------------------------------------------------------------------

\* MMIOBus.tick after n cycles.
Elapse(n, asleep) ==
  /\ using # "bcd" /\ (asleep => using = "adc")   \* only the converter reads idle
  /\ Passes(n, asleep)
  /\ TimersTick(cycles') /\ RtcTick(cycles') /\ AdcTick(cycles', idle')
  /\ asked' = asked \cup TimersAsk(cycles')
              \cup {s \in {"rtc"} : RtcDue(cycles')} \cup {s \in {"adc"} : AdcAsks(cycles', idle')}
  /\ UNCHANGED <<bcdVars, using, ops>>

Accepted(s) ==
  /\ s \in asked /\ asked' = asked \ {s}
  /\ UNCHANGED <<cycles, idle, ips, timerVars, rtcVars, adcVars, bcdVars, using, ops>>

Write ==
  /\ Counted
  /\ \/ using = "timers" /\ TimerWrite /\ UNCHANGED <<rtcVars, adcVars, bcdVars>>
     \/ using = "rtc" /\ RtcWrite /\ UNCHANGED <<timerVars, adcVars, bcdVars>>
     \/ using = "adc" /\ AdcWrite /\ UNCHANGED <<timerVars, rtcVars, bcdVars>>
     \/ using = "bcd" /\ BcdWrite /\ UNCHANGED <<timerVars, rtcVars, adcVars, clockVars>>

\* SetInstrPerSecond.
SetRate(rate) ==
  /\ Counted
  /\ ips' = rate /\ RtcRate(rate) /\ TimersRate(rate)
  /\ UNCHANGED <<cycles, idle, asked, adcVars, bcdVars>>

\* The host's clock.
HostClock == Counted /\ using = "rtc" /\ SetClock /\ UNCHANGED <<timerVars, adcVars, bcdVars>>

\* A snapshot resumed at once, in a machine of this rate.
Reopen(rate) ==
  /\ Counted
  /\ cycles' = 0 /\ idle' = 0 /\ ips' = rate /\ asked' = {}
  /\ TimersRestored(rate) /\ RtcRestored /\ AdcRestored
  /\ UNCHANGED bcdVars

Next ==
  \/ \E n \in Steps, asleep \in BOOLEAN : Elapse(n, asleep)
  \/ \E s \in Chans \cup {"rtc", "adc"} : Accepted(s)
  \/ Write \/ HostClock
  \/ \E rate \in Rates : SetRate(rate) \/ Reopen(rate)

Spec == Init /\ [][Next]_vars


=============================================================================
