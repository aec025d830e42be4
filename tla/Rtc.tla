-------------------------------- MODULE Rtc --------------------------------
(***************************************************************************)
(* The real-time clock (emu_go/rtc.go): a calendar computed from the       *)
(* CPU's cycles, and a periodic interrupt kept on the phase of that clock  *)
(* however often the OS re-arms it.  A day is DaySeconds long and the year *)
(* has its real months.                                                    *)
(***************************************************************************)
EXTENDS Clock

CONSTANTS
  PeriodOf(_, _),  \* instructions between periodic events, of instrPerSec and PES (0: off)
  Pes,             \* PES values the program writes, with 0
  DaySeconds,      \* 86400
  ClockSets,       \* times a host sets, seconds since 2010-01-01
  Wide,            \* 2^64: what the calendar's seconds wrap at
  Unit             \* history: parts of a second, a multiple of every rate

ASSUME RtcAssumption ==
  /\ 0 \in Pes /\ DaySeconds \in Nat \ {0} /\ Wide \in Nat \ {0} /\ ClockSets \subseteq 0..(Wide - 1)
  /\ \A r \in Rates, p \in Pes : PeriodOf(r, p) \in Nat /\ (PeriodOf(r, p) = 0 <=> p = 0)
  /\ Unit \in Nat \ {0} /\ \A r \in Rates : Unit % r = 0

VARIABLES
  pes, pef,        \* RCR2: period select, event flag
  nextPeriodic,    \* cycle of the next event, 0 when none was scheduled
  epochSec,        \* the calendar at cycle 0
  wall             \* history: time the machine has run, from the calendar's start, in Units

rtcVars == <<pes, pef, nextPeriodic, epochSec, wall>>

RtcInit == pes = 0 /\ pef = FALSE /\ nextPeriodic = 0 /\ epochSec \in ClockSets /\ wall = epochSec * Unit

Seconds == (epochSec + cycles \div ips) % Wide

---------------------------------------------------------------------------
(* The date registers. *)

LeapYear(y) == y % 4 = 0 /\ (y % 100 # 0 \/ y % 400 = 0)
YearDays(y) == IF LeapYear(y) THEN 366 ELSE 365

MonthDays(y) == <<31, IF LeapYear(y) THEN 29 ELSE 28, 31, 30, 31, 30, 31, 31, 30, 31, 30, 31>>

\* Days from 2010 to the first of January of y, and within y to the first of month m.
LeapYears(y) == y \div 4 - y \div 100 + y \div 400
DaysToYear(y) == 365 * (y - 2010) + LeapYears(y - 1) - LeapYears(2009)
DaysToMonth(y, m) ==
  LET upto[k \in 1..12] == IF k = 1 THEN 0 ELSE upto[k - 1] + MonthDays(y)[k - 1]
  IN upto[m]

\* The loops count down whole years and then whole months.
YearOf(days) == CHOOSE y \in (2010 + days \div 366)..(2010 + days \div 365) :
  DaysToYear(y) <= days /\ days < DaysToYear(y) + YearDays(y)
MonthOfLate(y, rest) == CHOOSE m \in 1..12 :
  DaysToMonth(y, m) <= rest /\ rest <= DaysToMonth(y, m) + MonthDays(y)[m]
MonthOf(y, rest) == CHOOSE m \in 1..12 :
  DaysToMonth(y, m) <= rest /\ rest < DaysToMonth(y, m) + MonthDays(y)[m]

\* Year, month, day and weekday (0: Sunday; 2010 began on a Friday).
Date(days) ==
  LET y == YearOf(days)
      rest == days - DaysToYear(y)
      m == MonthOf(y, rest) IN
  [year |-> y, month |-> m, day |-> rest - DaysToMonth(y, m) + 1, weekday |-> (days + 5) % 7]

Today == Date(Seconds \div DaySeconds)

---------------------------------------------------------------------------
(* The periodic interrupt. *)

AlignedToNow(rate, sel) == cycles + PeriodOf(rate, sel)

\* The event after the present cycle on the grid of the period.
Aligned(rate, sel) == (cycles \div PeriodOf(rate, sel) + 1) * PeriodOf(rate, sel)

RtcDue(now) == pes # 0 /\ nextPeriodic <= now

RtcTick(now) ==
  /\ nextPeriodic' = IF RtcDue(now) THEN nextPeriodic + PeriodOf(ips, pes) ELSE nextPeriodic
  /\ pef' = (pef \/ RtcDue(now))
  /\ wall' = wall + (now - cycles) * (Unit \div ips)
  /\ UNCHANGED <<pes, epochSec>>

\* The OS re-arms PES on every idle iteration.
WriteRCR2(sel, flag) ==
  /\ pes' = sel /\ pef' = flag
  /\ nextPeriodic' = IF sel # 0 /\ (sel # pes \/ nextPeriodic = 0) THEN Aligned(ips, sel) ELSE nextPeriodic
  /\ UNCHANGED <<epochSec, wall, clockVars>>

RtcRate(rate) ==
  /\ nextPeriodic' = IF pes # 0 THEN Aligned(rate, pes) ELSE nextPeriodic
  /\ UNCHANGED <<pes, pef, epochSec, wall>>

\* The host sets the calendar to the time it has.
SetClock ==
  /\ epochSec' = ((wall \div Unit) - cycles \div ips) % Wide
  /\ UNCHANGED <<pes, pef, nextPeriodic, wall, clockVars>>

\* A save-state keeps RCR1 and RCR2, not the event flag nor the schedule; the new machine's
\* calendar stands at its start until the host sets it.
RtcRestored ==
  /\ pef' = FALSE /\ nextPeriodic' = 0 /\ epochSec' = 0
  /\ UNCHANGED <<pes, wall>>

RtcWrite == \E sel \in Pes, flag \in BOOLEAN : WriteRCR2(sel, flag)

---------------------------------------------------------------------------
(* Properties. *)

\* The periodic event stays on the clock's own grid and is never more than a period away, so
\* that a program which re-arms it before every sleep is woken at the rate it asked for.
PeriodicOnPhase ==
  pes # 0 =>
    /\ nextPeriodic % PeriodOf(ips, pes) = 0
    /\ nextPeriodic <= cycles + PeriodOf(ips, pes)

\* Midnight brings the day after, in the calendar's sense: months of the right length, leap
\* days, weekdays without a gap.
DayFollows(d, e) ==
  /\ e.weekday = (d.weekday + 1) % 7
  /\ IF d.day < MonthDays(d.year)[d.month] THEN <<e.year, e.month, e.day>> = <<d.year, d.month, d.day + 1>>
     ELSE e.day = 1 /\ IF d.month < 12 THEN e.month = d.month + 1 /\ e.year = d.year
                       ELSE e.month = 1 /\ e.year = d.year + 1

DatesFollow ==
  [][Seconds' = Seconds + DaySeconds =>
       \A d \in {Today}, e \in {Today'} : DayFollows(d, e)]_<<rtcVars, clockVars>>

=============================================================================
