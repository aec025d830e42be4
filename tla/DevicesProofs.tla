---------------------------- MODULE DevicesProofs ----------------------------
(***************************************************************************)
(* What holds of Devices for every rate, period, conversion time and       *)
(* program: the periodic event stays on the clock's grid, every conversion *)
(* is answered, a chain of decimal commands is exact, each timer is where  *)
(* a clocked counter would be, and each midnight brings the day after.     *)
(***************************************************************************)
EXTENDS Devices, TLAPS, WellFoundedInduction, SequenceTheorems

ClockType == cycles \in Nat /\ idle \in Nat /\ ips \in Rates

\* The next event is a multiple of the period, no more than a period away.
OnGrid(now, next, period) ==
  /\ \E k \in Nat : next = k * period
  /\ next <= now + period

\* RCR2 and the schedule it asked for.
GridInv ==
  /\ ClockType
  /\ pes \in Pes /\ nextPeriodic \in Nat
  /\ pes # 0 => OnGrid(cycles, nextPeriodic, PeriodOf(ips, pes))

\* A conversion under way is seen by the tick (adcMode) and lies ahead.
ConversionInv ==
  /\ ClockType
  /\ {adcMode, armed, swArmed} \subseteq BOOLEAN /\ doneAt \in Nat /\ swDoneAt \in Nat
  /\ owed # {} => adcMode
  /\ ConversionsReported

---------------------------------------------------------------------------
(* Arithmetic of the grid. *)

LEMMA Multiples ==
  ASSUME NEW p \in Nat \ {0}, NEW k \in Nat
  PROVE  (k * p) % p = 0
OBVIOUS

LEMMA NextMultiple ==
  ASSUME NEW p \in Nat \ {0}, NEW now \in Nat
  PROVE  OnGrid(now, (now \div p + 1) * p, p) /\ (now \div p + 1) * p \in Nat
<1>1. now \div p + 1 \in Nat /\ (now \div p + 1) * p <= now + p
  OBVIOUS
<1>2. \E k \in Nat : (now \div p + 1) * p = k * p
  BY <1>1
<1>3. (now \div p + 1) * p \in Nat
  BY <1>1
<1> QED BY <1>1, <1>2, <1>3 DEF OnGrid

LEMMA GridIsOnPhase == GridInv => PeriodicOnPhase
<1> SUFFICES ASSUME GridInv, pes # 0
             PROVE  /\ nextPeriodic % PeriodOf(ips, pes) = 0
                    /\ nextPeriodic <= cycles + PeriodOf(ips, pes)
  BY DEF PeriodicOnPhase
<1>1. PeriodOf(ips, pes) \in Nat \ {0}
  BY RtcAssumption DEF GridInv, ClockType
<1>2. PICK k \in Nat : nextPeriodic = k * PeriodOf(ips, pes)
  BY DEF GridInv, OnGrid
<1> QED BY <1>1, <1>2, Multiples DEF GridInv, OnGrid

---------------------------------------------------------------------------
(* The clock. *)

LEMMA ClockStep ==
  ASSUME ClockType, [Next]_vars
  PROVE  ClockType'
<1> USE DEF ClockType
<1>1. ASSUME NEW n \in Steps, NEW asleep \in BOOLEAN, Elapse(n, asleep) PROVE ClockType'
  BY <1>1, ClockAssumption DEF Elapse, Passes
<1>2. ASSUME NEW s, Accepted(s) PROVE ClockType'
  BY <1>2 DEF Accepted
<1>3. CASE Write \/ HostClock
  <2>1. UNCHANGED clockVars
    BY <1>3
    DEF Write, HostClock, SetClock, TimerWrite, EtmuWrite, TmuWrite, WriteTSTR, WriteESTR, WriteChan,
        CountWrite, WriteTCOR, WriteTCNT, WriteTCR, RtcWrite, WriteRCR2, AdcWrite, ClearEnd,
        SoftStart, IdleStart
  <2> QED BY <2>1 DEF clockVars
<1>4. ASSUME NEW rate \in Rates, SetRate(rate) \/ Reopen(rate) PROVE ClockType'
  BY <1>4 DEF SetRate, Reopen
<1>5. CASE UNCHANGED vars
  BY <1>5 DEF vars, clockVars
<1> QED BY <1>1, <1>2, <1>3, <1>4, <1>5 DEF Next

---------------------------------------------------------------------------
(* The periodic event. *)

\* Time passes: a due event moves on by one period.
LEMMA GridElapse ==
  ASSUME GridInv, ClockType', NEW n \in Steps, NEW asleep, Elapse(n, asleep)
  PROVE  GridInv'
<1> DEFINE p == PeriodOf(ips, pes)
<1>1. pes' = pes /\ ips' = ips /\ cycles' \in Nat /\ cycles <= cycles'
  BY ClockAssumption DEF Elapse, Passes, RtcTick, GridInv, ClockType
<1>2. nextPeriodic' = IF RtcDue(cycles') THEN nextPeriodic + p ELSE nextPeriodic
  BY DEF Elapse, RtcTick
<1>3. CASE ~RtcDue(cycles')
  BY <1>1, <1>2, <1>3, RtcAssumption DEF GridInv, OnGrid, ClockType
<1>4. CASE RtcDue(cycles')
  <2>1. pes # 0 /\ nextPeriodic <= cycles' /\ p \in Nat
    BY <1>4, RtcAssumption DEF RtcDue, GridInv, ClockType
  <2>2. PICK k \in Nat : nextPeriodic = k * p
    BY <2>1 DEF GridInv, OnGrid
  <2>3. nextPeriodic + p = (k + 1) * p /\ k + 1 \in Nat
    BY <2>1, <2>2
  <2>4. nextPeriodic' = (k + 1) * p /\ nextPeriodic' <= cycles' + p /\ nextPeriodic' \in Nat
    BY <1>1, <1>2, <1>4, <2>1, <2>3 DEF GridInv
  <2> QED BY <1>1, <2>3, <2>4 DEF GridInv, OnGrid
<1> QED BY <1>3, <1>4

\* An event scheduled anew, for any rate and select.
LEMMA AlignedOnGrid ==
  ASSUME GridInv, NEW rate \in Rates, NEW sel \in Pes, sel # 0
  PROVE  OnGrid(cycles, Aligned(rate, sel), PeriodOf(rate, sel)) /\ Aligned(rate, sel) \in Nat
<1>1. PeriodOf(rate, sel) \in Nat \ {0}
  BY RtcAssumption
<1> QED BY <1>1, NextMultiple DEF Aligned, GridInv, ClockType

\* The OS writes RCR2: the schedule stays when the select does.
LEMMA GridWrite ==
  ASSUME GridInv, NEW sel \in Pes, NEW flag, WriteRCR2(sel, flag)
  PROVE  GridInv'
<1>1. pes' = sel /\ UNCHANGED <<cycles, idle, ips>>
  BY DEF WriteRCR2, clockVars
<1>2. CASE sel # 0 /\ (sel # pes \/ nextPeriodic = 0)
  <2>1. nextPeriodic' = Aligned(ips, sel)
    BY <1>2 DEF WriteRCR2
  <2> QED BY <1>1, <1>2, <2>1, AlignedOnGrid DEF GridInv, ClockType
<1>3. CASE ~(sel # 0 /\ (sel # pes \/ nextPeriodic = 0))
  BY <1>1, <1>3 DEF WriteRCR2, GridInv, ClockType
<1> QED BY <1>2, <1>3

LEMMA GridStep ==
  ASSUME GridInv, [Next]_vars
  PROVE  GridInv'
<1>1. ClockType'
  BY ClockStep DEF GridInv
<1>2. ASSUME UNCHANGED <<cycles, ips, pes, nextPeriodic>> PROVE GridInv'
  BY <1>1, <1>2 DEF GridInv
<1>3. ASSUME NEW n \in Steps, NEW asleep \in BOOLEAN, Elapse(n, asleep) PROVE GridInv'
  BY <1>1, <1>3, GridElapse
<1>4. ASSUME NEW s, Accepted(s) PROVE GridInv'
  BY <1>2, <1>4 DEF Accepted, rtcVars
<1>5. CASE Write
  <2>1. ASSUME NEW sel \in Pes, NEW flag \in BOOLEAN, WriteRCR2(sel, flag) PROVE GridInv'
    BY <2>1, GridWrite
  <2>2. CASE UNCHANGED rtcVars
    <3>1. UNCHANGED clockVars
      BY <1>5, <2>2
      DEF Write, TimerWrite, EtmuWrite, TmuWrite, WriteTSTR, WriteESTR, WriteChan, CountWrite,
          WriteTCOR, WriteTCNT, WriteTCR, RtcWrite, WriteRCR2, AdcWrite, ClearEnd, SoftStart, IdleStart
    <3> QED BY <1>2, <2>2, <3>1 DEF rtcVars, clockVars
  <2> QED BY <1>5, <2>1, <2>2 DEF Write, RtcWrite
<1>6. CASE HostClock
  BY <1>2, <1>6 DEF HostClock, SetClock, clockVars
<1>7. ASSUME NEW rate \in Rates, SetRate(rate) PROVE GridInv'
  <2>1. pes' = pes /\ ips' = rate /\ cycles' = cycles
    BY <1>7 DEF SetRate, RtcRate
  <2>2. nextPeriodic' = IF pes # 0 THEN Aligned(rate, pes) ELSE nextPeriodic
    BY <1>7 DEF SetRate, RtcRate
  <2> QED BY <1>1, <2>1, <2>2, AlignedOnGrid DEF GridInv
<1>8. ASSUME NEW rate \in Rates, Reopen(rate) PROVE GridInv'
  <2>1. pes' = pes /\ nextPeriodic' = 0 /\ cycles' = 0 /\ ips' = rate
    BY <1>8 DEF Reopen, RtcRestored
  <2>2. PeriodOf(rate, pes) \in Nat
    BY RtcAssumption DEF GridInv
  <2>3. 0 = 0 * PeriodOf(rate, pes) /\ 0 <= 0 + PeriodOf(rate, pes)
    BY <2>2
  <2> QED BY <1>1, <2>1, <2>3 DEF GridInv, OnGrid
<1>9. CASE UNCHANGED vars
  BY <1>2, <1>9 DEF vars, clockVars, rtcVars
<1> QED BY <1>3, <1>4, <1>5, <1>6, <1>7, <1>8, <1>9 DEF Next

\* The periodic event is on the clock's grid and never more than a period away, however often the
\* OS re-arms it, across changes of rate and save-states (alignPeriodic).
THEOREM EventsOnPhase == Spec => []PeriodicOnPhase
<1>1. Init => GridInv
  BY RtcAssumption DEF Init, ClockInit, RtcInit, GridInv, ClockType
<1> QED
  BY <1>1, GridStep, GridIsOnPhase, PTL DEF Spec

---------------------------------------------------------------------------
(* The battery converter. *)

\* Time passes: a conversion whose time has come is reported in the same tick.
LEMMA ConversionElapse ==
  ASSUME ConversionInv, ClockType', NEW n \in Steps, NEW asleep, Elapse(n, asleep)
  PROVE  ConversionInv'
<1>1. /\ adcMode' = adcMode /\ doneAt' = doneAt /\ swDoneAt' = swDoneAt
      /\ swArmed' = (swArmed /\ ~SoftDone(cycles')) /\ armed' = (armed /\ ~IdleDone(idle'))
      /\ owed' = owed \ Completing(cycles', idle')
  BY DEF Elapse, AdcTick
<1>2. cycles <= cycles' /\ idle <= idle' /\ cycles' \in Nat /\ idle' \in Nat
  BY ClockAssumption DEF Elapse, Passes, ConversionInv, ClockType
<1>3. ASSUME "soft" \in owed' PROVE ~SoftDone(cycles') /\ "soft" \in owed
  BY <1>1, <1>3 DEF Completing
<1>4. ASSUME "idle" \in owed' PROVE ~IdleDone(idle') /\ "idle" \in owed
  BY <1>1, <1>4 DEF Completing
<1>5. ASSUME "soft" \in owed'
      PROVE  swArmed' /\ cycles' < swDoneAt' /\ \E r \in Rates : swDoneAt' <= cycles' + SoftTime(r)
  <2>1. swArmed /\ adcMode /\ ~(swDoneAt <= cycles')
    BY <1>3, <1>5 DEF ConversionInv, ConversionsReported, SoftDone
  <2>2. PICK r \in Rates : swDoneAt <= cycles + SoftTime(r)
    BY <1>3, <1>5 DEF ConversionInv, ConversionsReported
  <2>3. SoftTime(r) \in Nat
    BY AdcAssumption
  <2>4. swDoneAt <= cycles' + SoftTime(r) /\ cycles' < swDoneAt
    BY <1>2, <2>1, <2>2, <2>3 DEF ConversionInv, ClockType
  <2> QED BY <1>1, <1>3, <1>5, <2>1, <2>4
<1>6. ASSUME "idle" \in owed'
      PROVE  armed' /\ idle' < doneAt' /\ \E r \in Rates : doneAt' <= idle' + SleepTime(r)
  <2>1. armed /\ adcMode /\ ~(doneAt <= idle')
    BY <1>4, <1>6 DEF ConversionInv, ConversionsReported, IdleDone
  <2>2. PICK r \in Rates : doneAt <= idle + SleepTime(r)
    BY <1>4, <1>6 DEF ConversionInv, ConversionsReported
  <2>3. SleepTime(r) \in Nat
    BY AdcAssumption
  <2>4. doneAt <= idle' + SleepTime(r) /\ idle' < doneAt
    BY <1>2, <2>1, <2>2, <2>3 DEF ConversionInv, ClockType
  <2> QED BY <1>1, <1>4, <1>6, <2>1, <2>4
<1>7. {adcMode', armed', swArmed'} \subseteq BOOLEAN
  BY <1>1 DEF ConversionInv
<1>8. owed' # {} => adcMode'
  BY <1>1 DEF ConversionInv
<1> QED BY <1>1, <1>5, <1>6, <1>7, <1>8 DEF ConversionInv, ConversionsReported

\* The OS starts or drops a conversion.
LEMMA ConversionWrite ==
  ASSUME ConversionInv, AdcWrite
  PROVE  ConversionInv'
<1> USE DEF ConversionInv
<1>1. CASE ClearEnd
  BY <1>1 DEF ClearEnd, clockVars, ClockType, ConversionsReported
<1>2. ASSUME NEW flag \in BOOLEAN, SoftStart(flag) PROVE ConversionInv'
  <2>1. /\ adcMode' /\ swArmed' /\ swDoneAt' = cycles + SoftTime(ips) /\ owed' = owed \cup {"soft"}
        /\ UNCHANGED <<armed, doneAt, cycles, idle, ips>>
    BY <1>2 DEF SoftStart, clockVars
  <2>2. SoftTime(ips) \in Nat \ {0}
    BY AdcAssumption DEF ClockType
  <2>3. swDoneAt' \in Nat /\ cycles' < swDoneAt' /\ swDoneAt' <= cycles' + SoftTime(ips)
    BY <2>1, <2>2 DEF ClockType
  <2>4. ConversionsReported'
    BY <2>1, <2>3 DEF ConversionsReported, ClockType
  <2> QED BY <1>2, <2>1, <2>3, <2>4 DEF SoftStart, ClockType
<1>3. ASSUME NEW on \in BOOLEAN, IdleStart(on) PROVE ConversionInv'
  <2>1. /\ armed' = on /\ adcMode' = (adcMode \/ on)
        /\ doneAt' = IF on THEN idle + SleepTime(ips) ELSE doneAt
        /\ owed' = IF on THEN owed \cup {"idle"} ELSE owed \ {"idle"}
        /\ UNCHANGED <<swArmed, swDoneAt, cycles, idle, ips>>
    BY <1>3 DEF IdleStart, clockVars
  <2>2. SleepTime(ips) \in Nat \ {0}
    BY AdcAssumption DEF ClockType
  <2>3. CASE on
    <3>1. doneAt' \in Nat /\ idle' < doneAt' /\ doneAt' <= idle' + SleepTime(ips)
      BY <2>1, <2>2, <2>3 DEF ClockType
    <3>2. ConversionsReported'
      BY <2>1, <2>3, <3>1 DEF ConversionsReported, ClockType
    <3> QED BY <2>1, <2>3, <3>1, <3>2 DEF ClockType
  <2>4. CASE ~on
    <3>1. ConversionsReported'
      BY <2>1, <2>4 DEF ConversionsReported
    <3> QED BY <2>1, <2>4, <3>1 DEF ClockType
  <2> QED BY <2>3, <2>4
<1> QED BY <1>1, <1>2, <1>3 DEF AdcWrite

\* A save-state keeps what is left of each conversion.
LEMMA ConversionReopen ==
  ASSUME ConversionInv, ClockType', NEW rate \in Rates, Reopen(rate)
  PROVE  ConversionInv'
<1>1. /\ doneAt' = IF armed THEN Remaining(doneAt, idle) ELSE 0
      /\ swDoneAt' = IF swArmed THEN Remaining(swDoneAt, cycles) ELSE 0
      /\ UNCHANGED <<adcMode, armed, swArmed, owed>> /\ cycles' = 0 /\ idle' = 0
  BY DEF Reopen, AdcRestored
<1>2. doneAt' \in Nat /\ swDoneAt' \in Nat
  BY <1>1 DEF Remaining, ConversionInv, ClockType
<1>3. ASSUME "soft" \in owed
      PROVE  swArmed' /\ cycles' < swDoneAt' /\ \E r \in Rates : swDoneAt' <= cycles' + SoftTime(r)
  <2>1. swArmed /\ cycles < swDoneAt
    BY <1>3 DEF ConversionInv, ConversionsReported
  <2>2. PICK r \in Rates : swDoneAt <= cycles + SoftTime(r)
    BY <1>3 DEF ConversionInv, ConversionsReported
  <2>3. swDoneAt' = swDoneAt - cycles /\ SoftTime(r) \in Nat
    BY <1>1, <2>1, AdcAssumption DEF Remaining
  <2>4. 0 < swDoneAt' /\ swDoneAt' <= 0 + SoftTime(r)
    BY <2>1, <2>2, <2>3 DEF ConversionInv, ClockType
  <2> QED BY <1>1, <2>1, <2>4
<1>4. ASSUME "idle" \in owed
      PROVE  armed' /\ idle' < doneAt' /\ \E r \in Rates : doneAt' <= idle' + SleepTime(r)
  <2>1. armed /\ idle < doneAt
    BY <1>4 DEF ConversionInv, ConversionsReported
  <2>2. PICK r \in Rates : doneAt <= idle + SleepTime(r)
    BY <1>4 DEF ConversionInv, ConversionsReported
  <2>3. doneAt' = doneAt - idle /\ SleepTime(r) \in Nat
    BY <1>1, <2>1, AdcAssumption DEF Remaining
  <2>4. 0 < doneAt' /\ doneAt' <= 0 + SleepTime(r)
    BY <2>1, <2>2, <2>3 DEF ConversionInv, ClockType
  <2> QED BY <1>1, <2>1, <2>4
<1> QED BY <1>1, <1>2, <1>3, <1>4 DEF ConversionInv, ConversionsReported

LEMMA ConversionStep ==
  ASSUME ConversionInv, [Next]_vars
  PROVE  ConversionInv'
<1>1. ClockType'
  BY ClockStep DEF ConversionInv
<1>2. ASSUME UNCHANGED <<adcVars, cycles, idle>> PROVE ConversionInv'
  BY <1>1, <1>2 DEF ConversionInv, ConversionsReported, adcVars
<1>3. ASSUME NEW n \in Steps, NEW asleep \in BOOLEAN, Elapse(n, asleep) PROVE ConversionInv'
  BY <1>1, <1>3, ConversionElapse
<1>4. ASSUME NEW s, Accepted(s) PROVE ConversionInv'
  BY <1>2, <1>4 DEF Accepted
<1>5. CASE Write
  <2>1. CASE AdcWrite
    BY <2>1, ConversionWrite
  <2>2. CASE UNCHANGED adcVars
    <3>1. UNCHANGED clockVars
      BY <1>5, <2>2
      DEF Write, TimerWrite, EtmuWrite, TmuWrite, WriteTSTR, WriteESTR, WriteChan, CountWrite,
          WriteTCOR, WriteTCNT, WriteTCR, RtcWrite, WriteRCR2, AdcWrite, ClearEnd, SoftStart, IdleStart
    <3> QED BY <1>2, <2>2, <3>1 DEF clockVars
  <2> QED BY <1>5, <2>1, <2>2 DEF Write
<1>6. CASE HostClock
  BY <1>2, <1>6 DEF HostClock, SetClock, clockVars
<1>7. ASSUME NEW rate \in Rates, SetRate(rate) PROVE ConversionInv'
  BY <1>2, <1>7 DEF SetRate
<1>8. ASSUME NEW rate \in Rates, Reopen(rate) PROVE ConversionInv'
  BY <1>1, <1>8, ConversionReopen
<1>9. CASE UNCHANGED vars
  BY <1>2, <1>9 DEF vars, clockVars
<1> QED BY <1>3, <1>4, <1>5, <1>6, <1>7, <1>8, <1>9 DEF Next

\* Every conversion the OS starts ends in the end flags within its time, asleep or awake, across
\* changes of rate, restarts of a conversion and save-states (adcTick, restoreRegionRegs).
THEOREM ConversionsEnd == Spec => []ConversionsReported
<1>1. ASSUME Init PROVE ConversionInv
  <2>1. ClockType /\ owed = {} /\ doneAt \in Nat /\ swDoneAt \in Nat
    BY <1>1 DEF Init, ClockInit, AdcInit, ClockType
  <2>2. {adcMode, armed, swArmed} \subseteq BOOLEAN
    BY <1>1 DEF Init, AdcInit
  <2>3. ConversionsReported
    BY <2>1 DEF ConversionsReported
  <2> QED BY <2>1, <2>2, <2>3 DEF ConversionInv
<1> QED
  BY <1>1, ConversionStep, PTL DEF Spec, ConversionInv

---------------------------------------------------------------------------
(* Induction, and functions defined by it. *)

Below == {p \in Nat \X Nat : p[1] < p[2]}

LEMMA BelowIsWellFounded == IsWellFoundedOn(Below, Nat)
BY NatLessThanWellFounded DEF OpToRel, Below

\* Induction over a set of numbers, from the least number that is not in it.
LEMMA SetInduction ==
  ASSUME NEW S, 0 \in S, \A n \in Nat : n \in S => n + 1 \in S
  PROVE  \A n \in Nat : n \in S
<1> SUFFICES ASSUME Nat \ S # {} PROVE FALSE
  OBVIOUS
<1>1. PICK n \in Nat \ S : \A m \in Nat \ S : <<m, n>> \notin Below
  BY BelowIsWellFounded, WFMin
<1>2. n # 0 /\ n - 1 \in Nat /\ (n - 1) + 1 = n
  BY <1>1
<1>3. <<n - 1, n>> \in Below
  BY <1>2 DEF Below
<1>4. n - 1 \in S
  BY <1>1, <1>2, <1>3
<1> QED BY <1>1, <1>2, <1>4

\* f is what n applications of the step functions g come to, from start.
Iterates(f, n, S, start, g) ==
  f \in [0..n -> S] /\ f[0] = start /\ \A i \in 1..n : f[i] = g[i][f[i - 1]]

LEMMA IterationExists ==
  ASSUME NEW n \in Nat, NEW S, NEW start \in S, NEW g \in [1..n -> [S -> S]]
  PROVE  \E f : Iterates(f, n, S, start, g)
<1> DEFINE Upto(f, m) == Iterates(f, m, S, start, g)
<1> DEFINE Good == {m \in Nat : m <= n => \E f : Upto(f, m)}
<1>1. 0 \in Good
  <2> DEFINE f == [i \in 0..0 |-> start]
  <2>1. Upto(f, 0)
    BY DEF Iterates
  <2> QED BY <2>1
<1>2. ASSUME NEW m \in Nat, m \in Good PROVE m + 1 \in Good
  <2> SUFFICES ASSUME m + 1 <= n PROVE \E f : Upto(f, m + 1)
    OBVIOUS
  <2>1. PICK f : Upto(f, m)
    BY <1>2
  <2> DEFINE h == [i \in 0..(m + 1) |-> IF i = m + 1 THEN g[m + 1][f[m]] ELSE f[i]]
  <2>2. f[m] \in S /\ m + 1 \in 1..n
    BY <2>1 DEF Iterates
  <2>3. g[m + 1][f[m]] \in S
    BY <2>2
  <2>4. h \in [0..(m + 1) -> S]
    BY <2>1, <2>3 DEF Iterates
  <2>5. h[0] = start
    BY <2>1 DEF Iterates
  <2>6. ASSUME NEW i \in 1..(m + 1) PROVE h[i] = g[i][h[i - 1]]
    <3>1. h[i - 1] = f[i - 1]
      OBVIOUS
    <3>2. CASE i = m + 1
      <4>1. i - 1 = m /\ h[i] = g[m + 1][f[m]]
        BY <3>2
      <4> HIDE DEF h
      <4> QED BY <3>1, <3>2, <4>1
    <3>3. CASE i # m + 1
      <4>1. i \in 1..m /\ h[i] = f[i]
        BY <3>3
      <4> QED BY <2>1, <3>1, <4>1 DEF Iterates
    <3> QED BY <3>2, <3>3
  <2> HIDE DEF h
  <2>7. Upto(h, m + 1)
    BY <2>4, <2>5, <2>6 DEF Iterates
  <2> QED BY <2>7
<1> HIDE DEF Good
<1>3. n \in Good
  BY <1>1, <1>2, SetInduction
<1> QED BY <1>3 DEF Good

\* A function that takes the steps where the one before is in S has all its values in S.
LEMMA IterationStays ==
  ASSUME NEW n \in Nat, NEW S, NEW start \in S, NEW g \in [1..n -> [S -> S]], NEW h,
         h = [i \in 0..n |-> h[i]], h[0] = start,
         \A i \in 1..n : h[i - 1] \in S => h[i] = g[i][h[i - 1]]
  PROVE  Iterates(h, n, S, start, g)
<1> DEFINE Good == {m \in Nat : m <= n => h[m] \in S}
<1>1. 0 \in Good
  OBVIOUS
<1>2. ASSUME NEW m \in Nat, m \in Good PROVE m + 1 \in Good
  <2> SUFFICES ASSUME m + 1 <= n PROVE h[m + 1] \in S
    OBVIOUS
  <2>1. m + 1 \in 1..n /\ (m + 1) - 1 = m /\ h[m] \in S
    BY <1>2
  <2>2. h[m + 1] = g[m + 1][h[m]]
    BY <2>1
  <2> QED BY <2>1, <2>2
<1> HIDE DEF Good
<1>3. \A m \in Nat : m \in Good
  BY <1>1, <1>2, SetInduction
<1>4. \A m \in 0..n : h[m] \in S
  BY <1>3 DEF Good
<1>5. \A i \in 1..n : h[i - 1] \in S
  BY <1>4
<1> QED BY <1>4, <1>5 DEF Iterates

---------------------------------------------------------------------------
(* The decimal unit. *)

LEMMA Weights ==
  /\ Weight \in [0..Digits -> Nat] /\ Weight[0] = 1
  /\ \A i \in 1..Digits : Weight[i] = Radix * Weight[i - 1]
<1> DEFINE g == [i \in 1..Digits |-> [v \in Nat |-> Radix * v]]
<1>1. Digits \in Nat /\ Radix \in Nat
  BY BcdAssumption
<1>2. g \in [1..Digits -> [Nat -> Nat]]
  BY <1>1
<1>3. \A i \in 1..Digits, v \in Nat : g[i][v] = Radix * v
  OBVIOUS
<1> HIDE DEF g
<1>4. PICK f : Iterates(f, Digits, Nat, 1, g)
  BY <1>1, <1>2, IterationExists
<1>5. f = [i \in 0..Digits |-> IF i = 0 THEN 1 ELSE Radix * f[i - 1]]
  <2>1. ASSUME NEW i \in 0..Digits, i # 0 PROVE f[i] = Radix * f[i - 1]
    <3>1. i \in 1..Digits /\ i - 1 \in 0..Digits
      BY <1>1, <2>1
    <3> QED BY <1>3, <1>4, <3>1 DEF Iterates
  <2> QED BY <1>4, <2>1 DEF Iterates
<1>6. Weight = [i \in 0..Digits |-> IF i = 0 THEN 1 ELSE Radix * Weight[i - 1]]
  BY <1>5 DEF Weight
<1>7. Weight[0] = 1 /\ \A i \in 1..Digits : Weight[i] = Radix * Weight[i - 1]
  BY <1>1, <1>6
<1>8. Iterates(Weight, Digits, Nat, 1, g)
  BY <1>1, <1>2, <1>3, <1>6, <1>7, IterationStays
<1> QED BY <1>7, <1>8 DEF Iterates

\* The numbers that the first digits of a word spell.
Spelt(w) ==
  LET upto[i \in 0..Digits] == IF i = 0 THEN 0 ELSE upto[i - 1] + w[i] * Weight[i - 1] IN upto

LEMMA Spells ==
  ASSUME NEW w \in [1..Digits -> Int]
  PROVE  /\ Spelt(w) \in [0..Digits -> Int] /\ Spelt(w)[0] = 0
         /\ \A i \in 1..Digits : Spelt(w)[i] = Spelt(w)[i - 1] + w[i] * Weight[i - 1]
         /\ Value(w) = Spelt(w)[Digits] /\ Value(w) \in Int
<1> DEFINE g == [i \in 1..Digits |-> [v \in Int |-> v + w[i] * Weight[i - 1]]]
<1>1. Digits \in Nat /\ Digits \in 0..Digits /\ \A i \in 1..Digits : w[i] * Weight[i - 1] \in Int
  BY BcdAssumption, Weights
<1>2. Digits \in Nat /\ 0 \in Int /\ g \in [1..Digits -> [Int -> Int]]
  BY <1>1
<1>3. \A i \in 1..Digits, v \in Int : g[i][v] = v + w[i] * Weight[i - 1]
  OBVIOUS
<1> HIDE DEF g
<1>4. PICK f : Iterates(f, Digits, Int, 0, g)
  BY ONLY <1>2, IterationExists
<1>5. f = [i \in 0..Digits |-> IF i = 0 THEN 0 ELSE f[i - 1] + w[i] * Weight[i - 1]]
  <2>1. ASSUME NEW i \in 0..Digits, i # 0 PROVE f[i] = f[i - 1] + w[i] * Weight[i - 1]
    <3>1. i \in 1..Digits /\ i - 1 \in 0..Digits
      BY <1>1, <2>1
    <3> QED BY <1>3, <1>4, <3>1 DEF Iterates
  <2> QED BY <1>4, <2>1 DEF Iterates
<1>6. Spelt(w) = [i \in 0..Digits |-> IF i = 0 THEN 0 ELSE Spelt(w)[i - 1] + w[i] * Weight[i - 1]]
  BY <1>5 DEF Spelt
<1>7. Value(w) = Spelt(w)[Digits]
  BY DEF Value, Spelt
<1> DEFINE s == Spelt(w)
<1> HIDE DEF s
<1>8. s[0] = 0 /\ \A i \in 1..Digits : s[i] = s[i - 1] + w[i] * Weight[i - 1]
  BY <1>1, <1>6 DEF s
<1>9. Iterates(s, Digits, Int, 0, g)
  <2>1. s = [i \in 0..Digits |-> s[i]]
    BY <1>6 DEF s
  <2>2. \A i \in 1..Digits : s[i - 1] \in Int => s[i] = g[i][s[i - 1]]
    BY <1>3, <1>8
  <2>3. s[0] = 0
    BY <1>8
  <2> QED BY ONLY <1>2, <2>1, <2>2, <2>3, IterationStays
<1> QED BY <1>1, <1>7, <1>8, <1>9 DEF Iterates, s

\* What Add has after each digit: the digits so far and the carry.
AddUpto(x, y, carry) ==
  LET upto[i \in 0..Digits] ==
        IF i = 0 THEN <<<<>>, carry>>
        ELSE LET d == ADigit(x[i] + y[i] + upto[i - 1][2]) IN <<Append(upto[i - 1][1], d[1]), d[2]>>
  IN upto

LEMMA AddSteps ==
  ASSUME NEW x \in [1..Digits -> Int], NEW y \in [1..Digits -> Int], NEW carry \in {0, 1}
  PROVE  /\ Iterates(AddUpto(x, y, carry), Digits, Seq(Int) \X {0, 1}, <<<<>>, carry>>,
                     [i \in 1..Digits |-> [v \in Seq(Int) \X {0, 1} |->
                        <<Append(v[1], ADigit(x[i] + y[i] + v[2])[1]), ADigit(x[i] + y[i] + v[2])[2]>>]])
         /\ Add(x, y, carry) = AddUpto(x, y, carry)[Digits]
<1> DEFINE S == Seq(Int) \X {0, 1}
<1> DEFINE start == <<<<>>, carry>>
<1> DEFINE step(i, v) == <<Append(v[1], ADigit(x[i] + y[i] + v[2])[1]), ADigit(x[i] + y[i] + v[2])[2]>>
<1> DEFINE g == [i \in 1..Digits |-> [v \in S |-> step(i, v)]]
<1>1. Digits \in Nat /\ start \in S
  BY BcdAssumption, EmptySeq
<1>2. ASSUME NEW i \in 1..Digits, NEW v \in S PROVE step(i, v) \in S
  <2>1. ADigit(x[i] + y[i] + v[2])[1] \in Int /\ ADigit(x[i] + y[i] + v[2])[2] \in {0, 1}
    BY BcdAssumption DEF ADigit
  <2>2. v[1] \in Seq(Int)
    OBVIOUS
  <2>3. Append(v[1], ADigit(x[i] + y[i] + v[2])[1]) \in Seq(Int)
    BY <2>1, <2>2, AppendProperties
  <2> QED BY <2>1, <2>3
<1> HIDE DEF S, start, step
<1>3. g \in [1..Digits -> [S -> S]]
  BY <1>2
<1>4. \A i \in 1..Digits, v \in S : g[i][v] = step(i, v)
  OBVIOUS
<1> HIDE DEF g
<1>5. PICK f : Iterates(f, Digits, S, start, g)
  BY ONLY <1>1, <1>3, IterationExists
<1>6. f = [i \in 0..Digits |-> IF i = 0 THEN start ELSE step(i, f[i - 1])]
  <2>1. ASSUME NEW i \in 0..Digits, i # 0 PROVE f[i] = step(i, f[i - 1])
    <3>1. i \in 1..Digits /\ i - 1 \in 0..Digits
      BY <1>1, <2>1
    <3> QED BY <1>4, <1>5, <3>1 DEF Iterates
  <2> QED BY <1>5, <2>1 DEF Iterates
<1> DEFINE u == AddUpto(x, y, carry)
<1>7. u = [i \in 0..Digits |-> IF i = 0 THEN start ELSE step(i, u[i - 1])]
  BY <1>6 DEF AddUpto, start, step
<1>8. Add(x, y, carry) = u[Digits]
  BY DEF Add, AddUpto
<1> HIDE DEF u
<1>9. Iterates(u, Digits, S, start, g)
  <2>1. u = [i \in 0..Digits |-> u[i]]
    BY <1>7
  <2>2. u[0] = start /\ \A i \in 1..Digits : u[i] = step(i, u[i - 1])
    BY <1>1, <1>7
  <2>3. \A i \in 1..Digits : u[i - 1] \in S => u[i] = g[i][u[i - 1]]
    BY <1>4, <2>2
  <2> QED BY ONLY <1>1, <1>3, <2>1, <2>2, <2>3, IterationStays
<1> QED BY <1>8, <1>9 DEF u, S, start, g, step

AddCarries(x, y, carry) == [i \in 0..Digits |-> AddUpto(x, y, carry)[i][2]]

\* The digit and the carry of each place.
LEMMA AddPlaces ==
  ASSUME NEW x \in [1..Digits -> Int], NEW y \in [1..Digits -> Int], NEW carry \in {0, 1}
  PROVE  /\ Add(x, y, carry)[1] \in [1..Digits -> Int]
         /\ AddCarries(x, y, carry) \in [0..Digits -> {0, 1}] /\ AddCarries(x, y, carry)[0] = carry
         /\ AddCarries(x, y, carry)[Digits] = Add(x, y, carry)[2]
         /\ \A i \in 1..Digits : <<Add(x, y, carry)[1][i], AddCarries(x, y, carry)[i]>>
                               = ADigit(x[i] + y[i] + AddCarries(x, y, carry)[i - 1])
<1> DEFINE u == AddUpto(x, y, carry)
<1> DEFINE S == Seq(Int) \X {0, 1}
<1>1. Digits \in Nat
  BY BcdAssumption
<1>2. Add(x, y, carry) = u[Digits]
  BY AddSteps
<1>3. /\ u \in [0..Digits -> S] /\ u[0] = <<<<>>, carry>>
      /\ \A i \in 1..Digits : u[i] = <<Append(u[i - 1][1], ADigit(x[i] + y[i] + u[i - 1][2])[1]),
                                      ADigit(x[i] + y[i] + u[i - 1][2])[2]>>
  <2>1. /\ u \in [0..Digits -> S] /\ u[0] = <<<<>>, carry>>
        /\ \A i \in 1..Digits : u[i] = [j \in 1..Digits |-> [v \in S |->
             <<Append(v[1], ADigit(x[j] + y[j] + v[2])[1]), ADigit(x[j] + y[j] + v[2])[2]>>]][i][u[i - 1]]
    BY AddSteps DEF Iterates
  <2>2. \A i \in 1..Digits : i - 1 \in 0..Digits
    BY <1>1
  <2> HIDE DEF u, S
  <2> QED BY <2>1, <2>2
<1> HIDE DEF u, S
<1> DEFINE r(n) == u[n][1]
<1> DEFINE digit(i) == ADigit(x[i] + y[i] + u[i - 1][2])[1]
<1> DEFINE Good == {n \in Nat : n <= Digits => Len(r(n)) = n /\ \A j \in 1..n : r(n)[j] = digit(j)}
<1>4. 0 \in Good
  BY <1>3
<1>5. ASSUME NEW n \in Nat, n \in Good PROVE n + 1 \in Good
  <2> SUFFICES ASSUME n + 1 <= Digits
               PROVE  Len(r(n + 1)) = n + 1 /\ \A j \in 1..(n + 1) : r(n + 1)[j] = digit(j)
    OBVIOUS
  <2>1. n + 1 \in 1..Digits /\ (n + 1) - 1 = n /\ n \in 0..Digits /\ n + 1 \in 0..Digits
    BY <1>1
  <2>2. r(n) \in Seq(Int) /\ digit(n + 1) \in Int /\ r(n + 1) = Append(r(n), digit(n + 1))
    <3>1. u[n] \in S /\ u[n + 1] \in S
      BY <1>3, <2>1
    <3>2. u[n][1] \in Seq(Int) /\ u[n][2] \in {0, 1}
      BY <3>1 DEF S
    <3>3. u[n + 1] = <<Append(u[n][1], digit(n + 1)), ADigit(x[n + 1] + y[n + 1] + u[n][2])[2]>>
      BY <1>3, <2>1
    <3>4. digit(n + 1) \in Int
      BY <2>1, <3>2, BcdAssumption DEF ADigit
    <3> HIDE DEF digit
    <3> QED BY <3>2, <3>3, <3>4
  <2>3. Len(r(n)) = n /\ \A j \in 1..n : r(n)[j] = digit(j)
    BY <1>5, <2>1
  <2> HIDE DEF r, digit
  <2>4. Len(r(n + 1)) = n + 1
    BY <2>2, <2>3, AppendProperties
  <2>5. ASSUME NEW j \in 1..(n + 1) PROVE r(n + 1)[j] = digit(j)
    <3>1. CASE j = n + 1
      BY <2>2, <2>3, <3>1, AppendProperties
    <3>2. CASE j # n + 1
      <4>1. j \in 1..n
        BY <3>2
      <4>2. Append(r(n), digit(n + 1))[j] = r(n)[j]
        BY <2>2, <2>3, <4>1, AppendProperties
      <4> QED BY <2>2, <2>3, <4>1, <4>2
    <3> QED BY <3>1, <3>2
  <2> QED BY <2>4, <2>5
<1> HIDE DEF Good
<1>6. Digits \in Good
  BY <1>1, <1>4, <1>5, SetInduction
<1>7. /\ r(Digits) \in Seq(Int) /\ Len(r(Digits)) = Digits
      /\ \A j \in 1..Digits : r(Digits)[j] = digit(j)
  BY <1>1, <1>3, <1>6 DEF Good, S
<1>8. r(Digits) \in [1..Digits -> Int]
  BY <1>7
<1>9. ASSUME NEW i \in 1..Digits PROVE <<r(Digits)[i], u[i][2]>> = ADigit(x[i] + y[i] + u[i - 1][2])
  <2>1. u[i][2] = ADigit(x[i] + y[i] + u[i - 1][2])[2]
    BY <1>3
  <2> QED BY <1>7, <2>1 DEF ADigit
<1>10. \A i \in 0..Digits : u[i][2] \in {0, 1}
  BY <1>3 DEF S
<1>11. \A i \in 1..Digits : i - 1 \in 0..Digits /\ i \in 0..Digits
  BY <1>1
<1> DEFINE c == [i \in 0..Digits |-> u[i][2]]
<1>11a. AddCarries(x, y, carry) = c
  BY DEF AddCarries, u
<1>12. c \in [0..Digits -> {0, 1}] /\ c[0] = carry /\ c[Digits] = u[Digits][2]
  BY <1>1, <1>3, <1>10
<1>13. \A i \in 1..Digits : <<r(Digits)[i], c[i]>> = ADigit(x[i] + y[i] + c[i - 1])
  BY <1>9, <1>11
<1> HIDE DEF c
<1> QED BY <1>2, <1>8, <1>11a, <1>12, <1>13

\* Add loses nothing: the carry stands for what the digits cannot hold.
LEMMA AddExact ==
  ASSUME NEW x \in [1..Digits -> Int], NEW y \in [1..Digits -> Int], NEW carry \in {0, 1}
  PROVE  LET out == Add(x, y, carry)
         IN /\ out[1] \in [1..Digits -> Int] /\ out[2] \in {0, 1}
            /\ Value(out[1]) + out[2] * WordSize = Value(x) + Value(y) + carry
<1> DEFINE r == Add(x, y, carry)[1]
<1> DEFINE c == AddCarries(x, y, carry)
<1>1. Digits \in Nat
  BY BcdAssumption
<1>2. /\ r \in [1..Digits -> Int] /\ c \in [0..Digits -> {0, 1}] /\ c[0] = carry
      /\ c[Digits] = Add(x, y, carry)[2]
      /\ \A i \in 1..Digits : <<r[i], c[i]>> = ADigit(x[i] + y[i] + c[i - 1])
  BY AddPlaces
<1> HIDE DEF r, c
<1> DEFINE holds(n) == Spelt(r)[n] + c[n] * Weight[n] = Spelt(x)[n] + Spelt(y)[n] + carry
<1> DEFINE Good == {n \in Nat : n <= Digits => holds(n)}
<1>3. 0 \in Good
  <2>1. Weight[0] = 1 /\ Spelt(r)[0] = 0 /\ Spelt(x)[0] = 0 /\ Spelt(y)[0] = 0
    BY <1>2, Weights, Spells
  <2> QED BY <1>2, <2>1
<1>4. ASSUME NEW n \in Nat, n \in Good PROVE n + 1 \in Good
  <2> SUFFICES ASSUME n + 1 <= Digits PROVE holds(n + 1)
    OBVIOUS
  <2> DEFINE i == n + 1
  <2>1. i \in 1..Digits /\ i - 1 = n /\ n \in 0..Digits /\ holds(n)
    BY <1>1, <1>4
  <2>2. Weight[i] = Radix * Weight[n] /\ Weight[n] \in Nat
    BY <2>1, Weights
  <2>3. /\ Spelt(r)[i] = Spelt(r)[n] + r[i] * Weight[n] /\ Spelt(r)[n] \in Int
        /\ Spelt(x)[i] = Spelt(x)[n] + x[i] * Weight[n] /\ Spelt(x)[n] \in Int
        /\ Spelt(y)[i] = Spelt(y)[n] + y[i] * Weight[n] /\ Spelt(y)[n] \in Int
    BY <1>2, <2>1, Spells
  <2>4. <<r[i], c[i]>> = ADigit(x[i] + y[i] + c[n]) /\ c[i] \in {0, 1} /\ c[n] \in {0, 1}
    BY <1>2, <2>1
  <2>5. r[i] \in Int /\ x[i] \in Int /\ y[i] \in Int
    BY <1>2, <2>1
  <2>6. r[i] * Weight[n] + c[i] * (Radix * Weight[n]) = x[i] * Weight[n] + y[i] * Weight[n] + c[n] * Weight[n]
    <3> DEFINE r1 == r[i]
    <3> DEFINE c1 == c[i]
    <3> DEFINE x1 == x[i]
    <3> DEFINE y1 == y[i]
    <3> DEFINE k1 == c[n]
    <3> DEFINE w == Weight[n]
    <3>1. /\ r1 \in Int /\ c1 \in {0, 1} /\ x1 \in Int /\ y1 \in Int /\ k1 \in {0, 1} /\ w \in Nat
          /\ <<r1, c1>> = ADigit(x1 + y1 + k1)
      BY <2>2, <2>4, <2>5
    <3> HIDE DEF r1, c1, x1, y1, k1, w
    <3>2. r1 = x1 + y1 + k1 - c1 * Radix /\ Radix \in Nat
      BY <3>1, BcdAssumption DEF ADigit
    <3>3. r1 * w + c1 * (Radix * w) = x1 * w + y1 * w + k1 * w
      BY ONLY <3>1, <3>2
    <3> QED BY <3>3 DEF r1, c1, x1, y1, k1, w
  <2>7. Weight[i] = Radix * Weight[n] /\ Weight[i] \in Nat
    BY <2>1, <2>2, Weights
  <2> DEFINE rw == r[i] * Weight[n]
  <2> DEFINE cw == c[i] * Weight[i]
  <2> DEFINE xw == x[i] * Weight[n]
  <2> DEFINE yw == y[i] * Weight[n]
  <2> DEFINE kw == c[n] * Weight[n]
  <2>8. carry \in Int /\ rw \in Int /\ cw \in Int /\ xw \in Int /\ yw \in Int /\ kw \in Int
    <3>1. \A p, q \in Int : p * q \in Int
      OBVIOUS
    <3>2. c[i] \in Int /\ c[n] \in Int /\ Weight[n] \in Int /\ Weight[i] \in Int /\ carry \in Int
      BY <2>2, <2>4, <2>7
    <3> HIDE DEF i
    <3> QED BY ONLY <2>5, <3>1, <3>2 DEF rw, cw, xw, yw, kw
  <2>9. rw + cw = xw + yw + kw
    BY <2>6, <2>7
  <2>10. Spelt(r)[n] + kw = Spelt(x)[n] + Spelt(y)[n] + carry
    BY <2>1
  <2>11. Spelt(r)[i] = Spelt(r)[n] + rw /\ Spelt(x)[i] = Spelt(x)[n] + xw /\ Spelt(y)[i] = Spelt(y)[n] + yw
    BY <2>3
  <2> DEFINE a1 == Spelt(r)[n]
  <2> DEFINE a2 == Spelt(x)[n]
  <2> DEFINE a3 == Spelt(y)[n]
  <2>12. a1 \in Int /\ a2 \in Int /\ a3 \in Int /\ a1 + kw = a2 + a3 + carry
    BY <2>3, <2>10
  <2>13. holds(i) <=> (a1 + rw) + cw = (a2 + xw) + (a3 + yw) + carry
    BY <2>11
  <2> HIDE DEF rw, cw, xw, yw, kw, a1, a2, a3
  <2>14. (a1 + rw) + cw = (a2 + xw) + (a3 + yw) + carry
    BY ONLY <2>8, <2>9, <2>12
  <2> QED BY <2>13, <2>14
<1> HIDE DEF Good
<1>5. Digits \in Good
  BY <1>1, <1>3, <1>4, SetInduction
<1>6. holds(Digits)
  BY <1>1, <1>5 DEF Good
<1>7. Value(r) = Spelt(r)[Digits] /\ Value(x) = Spelt(x)[Digits] /\ Value(y) = Spelt(y)[Digits]
  BY <1>2, Spells
<1>8. c[Digits] \in {0, 1}
  BY <1>1, <1>2
<1> QED BY <1>2, <1>6, <1>7, <1>8 DEF r, WordSize

\* What Sub has after each digit: the digits so far and the borrow.
SubUpto(x, y, borrow) ==
  LET upto[i \in 0..Digits] ==
        IF i = 0 THEN <<<<>>, borrow>>
        ELSE LET d == SDigit(x[i] - y[i] - upto[i - 1][2]) IN <<Append(upto[i - 1][1], d[1]), d[2]>>
  IN upto

LEMMA SubSteps ==
  ASSUME NEW x \in [1..Digits -> Int], NEW y \in [1..Digits -> Int], NEW carry \in {0, 1}
  PROVE  /\ Iterates(SubUpto(x, y, carry), Digits, Seq(Int) \X {0, 1}, <<<<>>, carry>>,
                     [i \in 1..Digits |-> [v \in Seq(Int) \X {0, 1} |->
                        <<Append(v[1], SDigit(x[i] - y[i] - v[2])[1]), SDigit(x[i] - y[i] - v[2])[2]>>]])
         /\ Sub(x, y, carry) = SubUpto(x, y, carry)[Digits]
<1> DEFINE S == Seq(Int) \X {0, 1}
<1> DEFINE start == <<<<>>, carry>>
<1> DEFINE step(i, v) == <<Append(v[1], SDigit(x[i] - y[i] - v[2])[1]), SDigit(x[i] - y[i] - v[2])[2]>>
<1> DEFINE g == [i \in 1..Digits |-> [v \in S |-> step(i, v)]]
<1>1. Digits \in Nat /\ start \in S
  BY BcdAssumption, EmptySeq
<1>2. ASSUME NEW i \in 1..Digits, NEW v \in S PROVE step(i, v) \in S
  <2>1. SDigit(x[i] - y[i] - v[2])[1] \in Int /\ SDigit(x[i] - y[i] - v[2])[2] \in {0, 1}
    BY BcdAssumption DEF SDigit
  <2>2. v[1] \in Seq(Int)
    OBVIOUS
  <2>3. Append(v[1], SDigit(x[i] - y[i] - v[2])[1]) \in Seq(Int)
    BY <2>1, <2>2, AppendProperties
  <2> QED BY <2>1, <2>3
<1> HIDE DEF S, start, step
<1>3. g \in [1..Digits -> [S -> S]]
  BY <1>2
<1>4. \A i \in 1..Digits, v \in S : g[i][v] = step(i, v)
  OBVIOUS
<1> HIDE DEF g
<1>5. PICK f : Iterates(f, Digits, S, start, g)
  BY ONLY <1>1, <1>3, IterationExists
<1>6. f = [i \in 0..Digits |-> IF i = 0 THEN start ELSE step(i, f[i - 1])]
  <2>1. ASSUME NEW i \in 0..Digits, i # 0 PROVE f[i] = step(i, f[i - 1])
    <3>1. i \in 1..Digits /\ i - 1 \in 0..Digits
      BY <1>1, <2>1
    <3> QED BY <1>4, <1>5, <3>1 DEF Iterates
  <2> QED BY <1>5, <2>1 DEF Iterates
<1> DEFINE u == SubUpto(x, y, carry)
<1>7. u = [i \in 0..Digits |-> IF i = 0 THEN start ELSE step(i, u[i - 1])]
  BY <1>6 DEF SubUpto, start, step
<1>8. Sub(x, y, carry) = u[Digits]
  BY DEF Sub, SubUpto
<1> HIDE DEF u
<1>9. Iterates(u, Digits, S, start, g)
  <2>1. u = [i \in 0..Digits |-> u[i]]
    BY <1>7
  <2>2. u[0] = start /\ \A i \in 1..Digits : u[i] = step(i, u[i - 1])
    BY <1>1, <1>7
  <2>3. \A i \in 1..Digits : u[i - 1] \in S => u[i] = g[i][u[i - 1]]
    BY <1>4, <2>2
  <2> QED BY ONLY <1>1, <1>3, <2>1, <2>2, <2>3, IterationStays
<1> QED BY <1>8, <1>9 DEF u, S, start, g, step

SubBorrows(x, y, borrow) == [i \in 0..Digits |-> SubUpto(x, y, borrow)[i][2]]

\* The digit and the borrow of each place.
LEMMA SubPlaces ==
  ASSUME NEW x \in [1..Digits -> Int], NEW y \in [1..Digits -> Int], NEW carry \in {0, 1}
  PROVE  /\ Sub(x, y, carry)[1] \in [1..Digits -> Int]
         /\ SubBorrows(x, y, carry) \in [0..Digits -> {0, 1}] /\ SubBorrows(x, y, carry)[0] = carry
         /\ SubBorrows(x, y, carry)[Digits] = Sub(x, y, carry)[2]
         /\ \A i \in 1..Digits : <<Sub(x, y, carry)[1][i], SubBorrows(x, y, carry)[i]>>
                               = SDigit(x[i] - y[i] - SubBorrows(x, y, carry)[i - 1])
<1> DEFINE u == SubUpto(x, y, carry)
<1> DEFINE S == Seq(Int) \X {0, 1}
<1>1. Digits \in Nat
  BY BcdAssumption
<1>2. Sub(x, y, carry) = u[Digits]
  BY SubSteps
<1>3. /\ u \in [0..Digits -> S] /\ u[0] = <<<<>>, carry>>
      /\ \A i \in 1..Digits : u[i] = <<Append(u[i - 1][1], SDigit(x[i] - y[i] - u[i - 1][2])[1]),
                                      SDigit(x[i] - y[i] - u[i - 1][2])[2]>>
  <2>1. /\ u \in [0..Digits -> S] /\ u[0] = <<<<>>, carry>>
        /\ \A i \in 1..Digits : u[i] = [j \in 1..Digits |-> [v \in S |->
             <<Append(v[1], SDigit(x[j] - y[j] - v[2])[1]), SDigit(x[j] - y[j] - v[2])[2]>>]][i][u[i - 1]]
    BY SubSteps DEF Iterates
  <2>2. \A i \in 1..Digits : i - 1 \in 0..Digits
    BY <1>1
  <2> HIDE DEF u, S
  <2> QED BY <2>1, <2>2
<1> HIDE DEF u, S
<1> DEFINE r(n) == u[n][1]
<1> DEFINE digit(i) == SDigit(x[i] - y[i] - u[i - 1][2])[1]
<1> DEFINE Good == {n \in Nat : n <= Digits => Len(r(n)) = n /\ \A j \in 1..n : r(n)[j] = digit(j)}
<1>4. 0 \in Good
  BY <1>3
<1>5. ASSUME NEW n \in Nat, n \in Good PROVE n + 1 \in Good
  <2> SUFFICES ASSUME n + 1 <= Digits
               PROVE  Len(r(n + 1)) = n + 1 /\ \A j \in 1..(n + 1) : r(n + 1)[j] = digit(j)
    OBVIOUS
  <2>1. n + 1 \in 1..Digits /\ (n + 1) - 1 = n /\ n \in 0..Digits /\ n + 1 \in 0..Digits
    BY <1>1
  <2>2. r(n) \in Seq(Int) /\ digit(n + 1) \in Int /\ r(n + 1) = Append(r(n), digit(n + 1))
    <3>1. u[n] \in S /\ u[n + 1] \in S
      BY <1>3, <2>1
    <3>2. u[n][1] \in Seq(Int) /\ u[n][2] \in {0, 1}
      BY <3>1 DEF S
    <3>3. u[n + 1] = <<Append(u[n][1], digit(n + 1)), SDigit(x[n + 1] - y[n + 1] - u[n][2])[2]>>
      BY <1>3, <2>1
    <3>4. digit(n + 1) \in Int
      BY <2>1, <3>2, BcdAssumption DEF SDigit
    <3> HIDE DEF digit
    <3> QED BY <3>2, <3>3, <3>4
  <2>3. Len(r(n)) = n /\ \A j \in 1..n : r(n)[j] = digit(j)
    BY <1>5, <2>1
  <2> HIDE DEF r, digit
  <2>4. Len(r(n + 1)) = n + 1
    BY <2>2, <2>3, AppendProperties
  <2>5. ASSUME NEW j \in 1..(n + 1) PROVE r(n + 1)[j] = digit(j)
    <3>1. CASE j = n + 1
      BY <2>2, <2>3, <3>1, AppendProperties
    <3>2. CASE j # n + 1
      <4>1. j \in 1..n
        BY <3>2
      <4>2. Append(r(n), digit(n + 1))[j] = r(n)[j]
        BY <2>2, <2>3, <4>1, AppendProperties
      <4> QED BY <2>2, <2>3, <4>1, <4>2
    <3> QED BY <3>1, <3>2
  <2> QED BY <2>4, <2>5
<1> HIDE DEF Good
<1>6. Digits \in Good
  BY <1>1, <1>4, <1>5, SetInduction
<1>7. /\ r(Digits) \in Seq(Int) /\ Len(r(Digits)) = Digits
      /\ \A j \in 1..Digits : r(Digits)[j] = digit(j)
  BY <1>1, <1>3, <1>6 DEF Good, S
<1>8. r(Digits) \in [1..Digits -> Int]
  BY <1>7
<1>9. ASSUME NEW i \in 1..Digits PROVE <<r(Digits)[i], u[i][2]>> = SDigit(x[i] - y[i] - u[i - 1][2])
  <2>1. u[i][2] = SDigit(x[i] - y[i] - u[i - 1][2])[2]
    BY <1>3
  <2> QED BY <1>7, <2>1 DEF SDigit
<1>10. \A i \in 0..Digits : u[i][2] \in {0, 1}
  BY <1>3 DEF S
<1>11. \A i \in 1..Digits : i - 1 \in 0..Digits /\ i \in 0..Digits
  BY <1>1
<1> DEFINE c == [i \in 0..Digits |-> u[i][2]]
<1>11a. SubBorrows(x, y, carry) = c
  BY DEF SubBorrows, u
<1>12. c \in [0..Digits -> {0, 1}] /\ c[0] = carry /\ c[Digits] = u[Digits][2]
  BY <1>1, <1>3, <1>10
<1>13. \A i \in 1..Digits : <<r(Digits)[i], c[i]>> = SDigit(x[i] - y[i] - c[i - 1])
  BY <1>9, <1>11
<1> HIDE DEF c
<1> QED BY <1>2, <1>8, <1>11a, <1>12, <1>13

\* Sub loses nothing: the borrow stands for what the digits cannot hold.
LEMMA SubExact ==
  ASSUME NEW x \in [1..Digits -> Int], NEW y \in [1..Digits -> Int], NEW carry \in {0, 1}
  PROVE  LET out == Sub(x, y, carry)
         IN /\ out[1] \in [1..Digits -> Int] /\ out[2] \in {0, 1}
            /\ Value(out[1]) - out[2] * WordSize = Value(x) - Value(y) - carry
<1> DEFINE r == Sub(x, y, carry)[1]
<1> DEFINE c == SubBorrows(x, y, carry)
<1>1. Digits \in Nat
  BY BcdAssumption
<1>2. /\ r \in [1..Digits -> Int] /\ c \in [0..Digits -> {0, 1}] /\ c[0] = carry
      /\ c[Digits] = Sub(x, y, carry)[2]
      /\ \A i \in 1..Digits : <<r[i], c[i]>> = SDigit(x[i] - y[i] - c[i - 1])
  BY SubPlaces
<1> HIDE DEF r, c
<1> DEFINE holds(n) == Spelt(r)[n] - c[n] * Weight[n] = Spelt(x)[n] - Spelt(y)[n] - carry
<1> DEFINE Good == {n \in Nat : n <= Digits => holds(n)}
<1>3. 0 \in Good
  <2>1. Weight[0] = 1 /\ Spelt(r)[0] = 0 /\ Spelt(x)[0] = 0 /\ Spelt(y)[0] = 0
    BY <1>2, Weights, Spells
  <2> QED BY <1>2, <2>1
<1>4. ASSUME NEW n \in Nat, n \in Good PROVE n + 1 \in Good
  <2> SUFFICES ASSUME n + 1 <= Digits PROVE holds(n + 1)
    OBVIOUS
  <2> DEFINE i == n + 1
  <2>1. i \in 1..Digits /\ i - 1 = n /\ n \in 0..Digits /\ holds(n)
    BY <1>1, <1>4
  <2>2. Weight[i] = Radix * Weight[n] /\ Weight[n] \in Nat
    BY <2>1, Weights
  <2>3. /\ Spelt(r)[i] = Spelt(r)[n] + r[i] * Weight[n] /\ Spelt(r)[n] \in Int
        /\ Spelt(x)[i] = Spelt(x)[n] + x[i] * Weight[n] /\ Spelt(x)[n] \in Int
        /\ Spelt(y)[i] = Spelt(y)[n] + y[i] * Weight[n] /\ Spelt(y)[n] \in Int
    BY <1>2, <2>1, Spells
  <2>4. <<r[i], c[i]>> = SDigit(x[i] - y[i] - c[n]) /\ c[i] \in {0, 1} /\ c[n] \in {0, 1}
    BY <1>2, <2>1
  <2>5. r[i] \in Int /\ x[i] \in Int /\ y[i] \in Int
    BY <1>2, <2>1
  <2>6. r[i] * Weight[n] - c[i] * (Radix * Weight[n]) = x[i] * Weight[n] - y[i] * Weight[n] - c[n] * Weight[n]
    <3> DEFINE r1 == r[i]
    <3> DEFINE c1 == c[i]
    <3> DEFINE x1 == x[i]
    <3> DEFINE y1 == y[i]
    <3> DEFINE k1 == c[n]
    <3> DEFINE w == Weight[n]
    <3>1. /\ r1 \in Int /\ c1 \in {0, 1} /\ x1 \in Int /\ y1 \in Int /\ k1 \in {0, 1} /\ w \in Nat
          /\ <<r1, c1>> = SDigit(x1 - y1 - k1)
      BY <2>2, <2>4, <2>5
    <3> HIDE DEF r1, c1, x1, y1, k1, w
    <3>2. r1 = x1 - y1 - k1 + c1 * Radix /\ Radix \in Nat
      BY <3>1, BcdAssumption DEF SDigit
    <3>3. r1 * w - c1 * (Radix * w) = x1 * w - y1 * w - k1 * w
      BY ONLY <3>1, <3>2
    <3> QED BY <3>3 DEF r1, c1, x1, y1, k1, w
  <2>7. Weight[i] = Radix * Weight[n] /\ Weight[i] \in Nat
    BY <2>1, <2>2, Weights
  <2> DEFINE rw == r[i] * Weight[n]
  <2> DEFINE cw == c[i] * Weight[i]
  <2> DEFINE xw == x[i] * Weight[n]
  <2> DEFINE yw == y[i] * Weight[n]
  <2> DEFINE kw == c[n] * Weight[n]
  <2>8. carry \in Int /\ rw \in Int /\ cw \in Int /\ xw \in Int /\ yw \in Int /\ kw \in Int
    <3>1. \A p, q \in Int : p * q \in Int
      OBVIOUS
    <3>2. c[i] \in Int /\ c[n] \in Int /\ Weight[n] \in Int /\ Weight[i] \in Int /\ carry \in Int
      BY <2>2, <2>4, <2>7
    <3> HIDE DEF i
    <3> QED BY ONLY <2>5, <3>1, <3>2 DEF rw, cw, xw, yw, kw
  <2>9. rw - cw = xw - yw - kw
    BY <2>6, <2>7
  <2>10. Spelt(r)[n] - kw = Spelt(x)[n] - Spelt(y)[n] - carry
    BY <2>1
  <2>11. Spelt(r)[i] = Spelt(r)[n] + rw /\ Spelt(x)[i] = Spelt(x)[n] + xw /\ Spelt(y)[i] = Spelt(y)[n] + yw
    BY <2>3
  <2> DEFINE a1 == Spelt(r)[n]
  <2> DEFINE a2 == Spelt(x)[n]
  <2> DEFINE a3 == Spelt(y)[n]
  <2>12. a1 \in Int /\ a2 \in Int /\ a3 \in Int /\ a1 - kw = a2 - a3 - carry
    BY <2>3, <2>10
  <2>13. holds(i) <=> (a1 + rw) - cw = (a2 + xw) - (a3 + yw) - carry
    BY <2>11
  <2> HIDE DEF rw, cw, xw, yw, kw, a1, a2, a3
  <2>14. (a1 + rw) - cw = (a2 + xw) - (a3 + yw) - carry
    BY ONLY <2>8, <2>9, <2>12
  <2> QED BY <2>13, <2>14
<1> HIDE DEF Good
<1>5. Digits \in Good
  BY <1>1, <1>3, <1>4, SetInduction
<1>6. holds(Digits)
  BY <1>1, <1>5 DEF Good
<1>7. Value(r) = Spelt(r)[Digits] /\ Value(x) = Spelt(x)[Digits] /\ Value(y) = Spelt(y)[Digits]
  BY <1>2, Spells
<1>8. c[Digits] \in {0, 1}
  BY <1>1, <1>2
<1> QED BY <1>2, <1>6, <1>7, <1>8 DEF r, WordSize

---------------------------------------------------------------------------
(* The chain of commands. *)

BcdType ==
  /\ a \in [1..Digits -> Int] /\ b \in [1..Digits -> Int] /\ latch \in {0, 1}
  /\ chain \in [add : BOOLEAN, words : Nat, unit : Int, x : Int, y : Int, r : Int]

\* Every chain so far is exact, and the registers hold words.
ChainInv == BcdType /\ ChainExact

LEMMA ComputeExact ==
  ASSUME BcdType, NEW add \in BOOLEAN, NEW latched \in BOOLEAN, NEW one \in BOOLEAN,
         Compute(add, latched, one)
  PROVE  /\ Value(result') \in Int /\ latch' \in {0, 1} /\ a' = a /\ b' = b
         /\ FlagIn(latched, one) \in {0, 1}
         /\ add => Value(result') + latch' * WordSize = Value(a) + Value(b) + FlagIn(latched, one)
         /\ ~add => Value(result') - latch' * WordSize = Value(a) - Value(b) - FlagIn(latched, one)
<1>1. FlagIn(latched, one) \in {0, 1}
  BY DEF BcdType, FlagIn
<1>2. a \in [1..Digits -> Int] /\ b \in [1..Digits -> Int] /\ a' = a /\ b' = b
  BY DEF BcdType, Compute
<1> DEFINE f == FlagIn(latched, one)
<1>3. CASE add
  <2> DEFINE out == Add(a, b, f)
  <2>1. result' = out[1] /\ latch' = out[2]
    BY <1>3 DEF Compute
  <2>2. /\ out[1] \in [1..Digits -> Int] /\ out[2] \in {0, 1}
        /\ Value(out[1]) + out[2] * WordSize = Value(a) + Value(b) + f
    BY <1>1, <1>2, AddExact
  <2>3. Value(out[1]) \in Int
    BY <2>2, Spells
  <2> QED BY <1>1, <1>2, <1>3, <2>1, <2>2, <2>3
<1>4. CASE ~add
  <2> DEFINE out == Sub(a, b, f)
  <2>1. result' = out[1] /\ latch' = out[2]
    BY <1>4 DEF Compute
  <2>2. /\ out[1] \in [1..Digits -> Int] /\ out[2] \in {0, 1}
        /\ Value(out[1]) - out[2] * WordSize = Value(a) - Value(b) - f
    BY <1>1, <1>2, SubExact
  <2>3. Value(out[1]) \in Int
    BY <2>2, Spells
  <2> QED BY <1>1, <1>2, <1>4, <2>1, <2>2, <2>3
<1> QED BY <1>3, <1>4

LEMMA WordIsInt == WordSize \in Int
<1>1. Digits \in Nat /\ Digits \in 0..Digits
  BY BcdAssumption
<1> QED BY <1>1, Weights DEF WordSize

LEMMA FirstWordExact ==
  ASSUME BcdType, NEW add \in BOOLEAN, NEW one \in BOOLEAN, FirstWord(add, one)
  PROVE  ChainInv'
<1> DEFINE f == IF one THEN 1 ELSE 0
<1>1. /\ Value(result') \in Int /\ latch' \in {0, 1} /\ a' = a /\ b' = b
      /\ add => Value(result') + latch' * WordSize = Value(a) + Value(b) + f
      /\ ~add => Value(result') - latch' * WordSize = Value(a) - Value(b) - f
  <2>1. Compute(add, FALSE, one) /\ FlagIn(FALSE, one) = f
    BY DEF FirstWord, FlagIn
  <2> QED BY <2>1, ComputeExact
<1>2. chain' = [add |-> add, words |-> 1, unit |-> WordSize,
                x |-> Value(a), y |-> Value(b) + f, r |-> Value(result')]
  BY DEF FirstWord
<1>3. Value(a) \in Int /\ Value(b) \in Int /\ WordSize \in Int /\ f \in {0, 1}
  BY Spells, WordIsInt DEF BcdType
<1> HIDE DEF f
<1>4. BcdType'
  <2>1. Value(b) + f \in Int
    BY <1>3
  <2>2. chain' \in [add : BOOLEAN, words : Nat, unit : Int, x : Int, y : Int, r : Int]
    BY <1>1, <1>2, <1>3, <2>1
  <2> QED BY <1>1, <2>2 DEF BcdType
<1>5. ChainExact'
  <2>1. /\ chain'.add = add /\ chain'.unit = WordSize /\ chain'.x = Value(a)
        /\ chain'.y = Value(b) + f /\ chain'.r = Value(result')
    BY <1>2
  <2> DEFINE va == Value(a)
  <2> DEFINE vb == Value(b)
  <2> DEFINE vr == Value(result')
  <2> DEFINE lw == latch' * WordSize
  <2>2. va \in Int /\ vb \in Int /\ vr \in Int /\ f \in {0, 1} /\ lw \in Int
    BY <1>1, <1>3
  <2>3. add => vr + lw = va + vb + f
    BY <1>1
  <2>4. ~add => vr - lw = va - vb - f
    BY <1>1
  <2> HIDE DEF va, vb, vr, lw
  <2>5. add => vr + lw = va + (vb + f)
    BY ONLY <2>2, <2>3
  <2>6. ~add => vr - lw = va - (vb + f)
    BY ONLY <2>2, <2>4
  <2> QED BY <2>1, <2>5, <2>6 DEF ChainExact, va, vb, vr, lw
<1> QED BY <1>4, <1>5 DEF ChainInv

LEMMA NextWordExact ==
  ASSUME ChainInv, NextWord
  PROVE  ChainInv'
<1> DEFINE add == chain.add
<1> DEFINE vr == Value(result')
<1> DEFINE va == Value(a)
<1> DEFINE vb == Value(b)
<1> DEFINE u == chain.unit
<1> DEFINE w == WordSize
<1>1. /\ vr \in Int /\ latch' \in {0, 1} /\ a' = a /\ b' = b
      /\ add => vr + latch' * w = va + vb + latch
      /\ ~add => vr - latch' * w = va - vb - latch
  <2>1. BcdType /\ add \in BOOLEAN /\ Compute(add, TRUE, FALSE) /\ FlagIn(TRUE, FALSE) = latch
    BY DEF ChainInv, BcdType, NextWord, FlagIn
  <2> QED BY <2>1, ComputeExact
<1>2. va \in Int /\ vb \in Int /\ w \in Int /\ latch \in {0, 1}
  BY Spells, WordIsInt DEF ChainInv, BcdType
<1>3. /\ chain.words \in Nat /\ chain.words > 0 /\ add \in BOOLEAN
      /\ u \in Int /\ chain.x \in Int /\ chain.y \in Int /\ chain.r \in Int
      /\ add => chain.r + latch * u = chain.x + chain.y
      /\ ~add => chain.r - latch * u = chain.x - chain.y
  <2>1. chain.words > 0 /\ chain.words \in Nat
    BY DEF NextWord, ChainInv, BcdType
  <2> QED BY <2>1 DEF ChainInv, BcdType, ChainExact
<1>4. /\ chain' \in [add : BOOLEAN, words : Nat, unit : Int, x : Int, y : Int, r : Int]
      /\ chain'.add = add /\ chain'.unit = u * w
      /\ chain'.x = chain.x + va * u /\ chain'.y = chain.y + vb * u /\ chain'.r = chain.r + vr * u
  <2>1. chain' = [chain EXCEPT !.words = chain.words + 1, !.unit = u * w, !.x = chain.x + va * u,
                               !.y = chain.y + vb * u, !.r = chain.r + vr * u]
    BY DEF NextWord
  <2>2. /\ u * w \in Int /\ chain.x + va * u \in Int /\ chain.y + vb * u \in Int
        /\ chain.r + vr * u \in Int /\ chain.words + 1 \in Nat
    <3> HIDE DEF u, w, va, vb, vr
    <3> QED BY <1>1, <1>2, <1>3
  <2>3. chain \in [add : BOOLEAN, words : Nat, unit : Int, x : Int, y : Int, r : Int]
    BY DEF ChainInv, BcdType
  <2> HIDE DEF u, w, va, vb, vr
  <2> QED BY <2>1, <2>2, <2>3 DEF add
<1>5. BcdType'
  BY <1>1, <1>4 DEF ChainInv, BcdType
<1> DEFINE r == chain.r
<1> DEFINE x == chain.x
<1> DEFINE y == chain.y
<1> DEFINE l == latch'
<1> HIDE DEF add, vr, va, vb, u, w
<1> DEFINE ru == vr * u
<1> DEFINE au == va * u
<1> DEFINE bu == vb * u
<1> DEFINE lu == latch * u
<1> DEFINE lw == l * (u * w)
<1>6. /\ r \in Int /\ x \in Int /\ y \in Int /\ u \in Int /\ w \in Int /\ latch \in {0, 1} /\ l \in {0, 1}
      /\ vr \in Int /\ va \in Int /\ vb \in Int
      /\ ru \in Int /\ au \in Int /\ bu \in Int /\ lu \in Int /\ lw \in Int
  <2>1. /\ r \in Int /\ x \in Int /\ y \in Int /\ u \in Int /\ w \in Int /\ latch \in Int /\ l \in Int
        /\ vr \in Int /\ va \in Int /\ vb \in Int
    BY <1>1, <1>2, <1>3 DEF r, x, y, l
  <2>2. \A p, q \in Int : p * q \in Int
    OBVIOUS
  <2>3. ru \in Int /\ au \in Int /\ bu \in Int /\ lu \in Int /\ u * w \in Int
    BY ONLY <2>1, <2>2 DEF ru, au, bu, lu
  <2>4. lw \in Int
    BY ONLY <2>1, <2>2, <2>3 DEF lw
  <2> QED BY <1>1, <1>2, <2>1, <2>3, <2>4 DEF l
<1> HIDE DEF r, x, y, l, ru, au, bu, lu, lw
<1>7. CASE add
  <2>1. vr + l * w = va + vb + latch /\ r + latch * u = x + y
    BY <1>1, <1>3, <1>7 DEF add, vr, va, vb, u, w, r, x, y, l
  <2>2. (vr + l * w) * u = (va + vb + latch) * u
    BY <2>1
  <2>3. (vr + l * w) * u = ru + lw
    BY ONLY <1>6 DEF ru, lw
  <2>4. (va + vb + latch) * u = au + bu + lu
    BY ONLY <1>6 DEF au, bu, lu
  <2>5. ru + lw = au + bu + lu /\ r + lu = x + y
    BY <2>1, <2>2, <2>3, <2>4 DEF lu
  <2>6. (r + ru) + lw = (x + au) + (y + bu)
    BY ONLY <1>6, <2>5
  <2>7. ChainExact'
    BY <1>4, <1>7, <2>6 DEF ChainExact, add, ru, lw, au, bu, u, w, vr, va, vb, r, x, y, l
  <2> QED BY <1>5, <2>7 DEF ChainInv
<1>8. CASE ~add
  <2>1. vr - l * w = va - vb - latch /\ r - latch * u = x - y
    BY <1>1, <1>3, <1>8 DEF add, vr, va, vb, u, w, r, x, y, l
  <2>2. (vr - l * w) * u = (va - vb - latch) * u
    BY <2>1
  <2>3. (vr - l * w) * u = ru - lw
    BY ONLY <1>6 DEF ru, lw
  <2>4. (va - vb - latch) * u = au - bu - lu
    BY ONLY <1>6 DEF au, bu, lu
  <2>5. ru - lw = au - bu - lu /\ r - lu = x - y
    BY <2>1, <2>2, <2>3, <2>4 DEF lu
  <2>6. (r + ru) - lw = (x + au) - (y + bu)
    BY ONLY <1>6, <2>5
  <2>7. ChainExact'
    BY <1>4, <1>8, <2>6 DEF ChainExact, add, ru, lw, au, bu, u, w, vr, va, vb, r, x, y, l
  <2> QED BY <1>5, <2>7 DEF ChainInv
<1> QED BY <1>7, <1>8

LEMMA ChainStep ==
  ASSUME ChainInv, [Next]_vars
  PROVE  ChainInv'
<1>1. ASSUME UNCHANGED <<latch, chain>>, a' \in [1..Digits -> Int], b' \in [1..Digits -> Int]
      PROVE  ChainInv'
  BY <1>1 DEF ChainInv, BcdType, ChainExact
<1>2. ASSUME UNCHANGED bcdVars PROVE ChainInv'
  BY <1>1, <1>2 DEF bcdVars, ChainInv, BcdType
<1>3. CASE BcdWrite
  <2>1. ASSUME NEW w \in Words, WriteA(w) \/ WriteB(w) PROVE ChainInv'
    <3>1. w \in [1..Digits -> Int]
      BY BcdAssumption
    <3> QED BY <1>1, <2>1, <3>1 DEF WriteA, WriteB, ChainInv, BcdType
  <2>2. ASSUME NEW add \in BOOLEAN, NEW one \in BOOLEAN, FirstWord(add, one) PROVE ChainInv'
    BY <2>2, FirstWordExact DEF ChainInv
  <2>3. CASE NextWord
    BY <2>3, NextWordExact
  <2> QED BY <1>3, <2>1, <2>2, <2>3 DEF BcdWrite
<1>4. CASE Write
  BY <1>2, <1>3, <1>4 DEF Write
<1>5. CASE HostClock
  BY <1>2, <1>5 DEF HostClock
<1>6. ASSUME NEW n \in Steps, NEW asleep \in BOOLEAN, Elapse(n, asleep) PROVE ChainInv'
  BY <1>2, <1>6 DEF Elapse, bcdVars
<1>7. ASSUME NEW s, Accepted(s) PROVE ChainInv'
  BY <1>2, <1>7 DEF Accepted
<1>8. ASSUME NEW rate \in Rates, SetRate(rate) \/ Reopen(rate) PROVE ChainInv'
  BY <1>2, <1>8 DEF SetRate, Reopen
<1>9. CASE UNCHANGED vars
  BY <1>2, <1>9 DEF vars
<1> QED BY <1>4, <1>5, <1>6, <1>7, <1>8, <1>9 DEF Next

\* A chain of decimal commands of any length, in any radix and word size, computes the sum or the
\* difference of the numbers its words spell, whatever happens to the other units meanwhile.
THEOREM ChainsAreExact == Spec => []ChainExact
<1>1. ASSUME Init PROVE ChainInv
  <2>1. a = Zero /\ b = Zero /\ latch = 0 /\ chain = NoChain
    BY <1>1 DEF Init, BcdInit
  <2>2. Zero \in [1..Digits -> Int]
    BY DEF Zero
  <2>3. /\ NoChain \in [add : BOOLEAN, words : Nat, unit : Int, x : Int, y : Int, r : Int]
        /\ NoChain.words = 0
    BY DEF NoChain
  <2> QED BY <2>1, <2>2, <2>3 DEF ChainInv, BcdType, ChainExact
<1> QED BY <1>1, ChainStep, PTL DEF Spec, ChainInv

---------------------------------------------------------------------------
(* A counter in closed form: a running channel, n cycles after its start. *)

\* The count of a channel started at v, its reload r and its clock d, and the cycles to the next clock.
CountAfter(v, r, d, n) ==
  IF n \div d <= v THEN v - n \div d ELSE r - ((n \div d - v - 1) % (r + 1))
LeftAfter(d, n) == d - (n % d)

\* The first of the times N, N + P, N + 2P.. that is after m.
DueAfter(N, P, m) == IF N <= m THEN N + ((m - N) \div P + 1) * P ELSE N

LEMMA Quotient ==
  ASSUME NEW d \in Nat \ {0}, NEW n \in Nat, NEW q \in Nat, NEW r \in 0..(d - 1), n = q * d + r
  PROVE  n \div d = q /\ n % d = r
OBVIOUS

LEMMA Division ==
  ASSUME NEW d \in Nat \ {0}, NEW n \in Nat
  PROVE  n \div d \in Nat /\ n % d \in 0..(d - 1) /\ n = (n \div d) * d + (n % d)
OBVIOUS

LEMMA NextQuotient ==
  ASSUME NEW d \in Nat \ {0}, NEW n \in Nat
  PROVE  /\ n % d = d - 1 => (n + 1) \div d = n \div d + 1 /\ (n + 1) % d = 0
         /\ n % d # d - 1 => (n + 1) \div d = n \div d /\ (n + 1) % d = (n % d) + 1
<1> DEFINE q == n \div d
<1> DEFINE r == n % d
<1>1. q \in Nat /\ r \in 0..(d - 1) /\ n = q * d + r
  BY Division
<1> HIDE DEF q, r
<1>2. CASE r = d - 1
  <2>1. n + 1 = (q + 1) * d + 0
    BY <1>1, <1>2
  <2>2. (n + 1) \div d = q + 1 /\ (n + 1) % d = 0
    BY <1>1, <2>1, Quotient
  <2> QED BY <1>2, <2>2 DEF q, r
<1>3. CASE r # d - 1
  <2>1. n + 1 = q * d + (r + 1) /\ r + 1 \in 0..(d - 1)
    BY <1>1, <1>3
  <2>2. (n + 1) \div d = q /\ (n + 1) % d = r + 1
    BY <1>1, <2>1, Quotient
  <2> QED BY <1>3, <2>2 DEF q, r
<1> QED BY <1>2, <1>3

\* What one clock does.
TakesOneClock(v, r, d, n) ==
  /\ CountAfter(v, r, d, n) \in Nat /\ LeftAfter(d, n) \in 1..d
  /\ LeftAfter(d, n) > 1 => /\ LeftAfter(d, n + 1) = LeftAfter(d, n) - 1
                            /\ CountAfter(v, r, d, n + 1) = CountAfter(v, r, d, n)
  /\ LeftAfter(d, n) = 1 => /\ LeftAfter(d, n + 1) = d
                            /\ CountAfter(v, r, d, n + 1) =
                                 IF CountAfter(v, r, d, n) > 0 THEN CountAfter(v, r, d, n) - 1 ELSE r

LEMMA OneClock ==
  ASSUME NEW v \in Nat, NEW r \in Nat, NEW d \in Nat \ {0}, NEW n \in Nat
  PROVE  TakesOneClock(v, r, d, n)
<1> DEFINE e == n \div d
<1> DEFINE m == n % d
<1>1. e \in Nat /\ m \in 0..(d - 1)
  BY Division
<1>2. /\ m = d - 1 => (n + 1) \div d = e + 1 /\ (n + 1) % d = 0
      /\ m # d - 1 => (n + 1) \div d = e /\ (n + 1) % d = m + 1
  BY NextQuotient
<1>3. LeftAfter(d, n) = d - m
  BY DEF LeftAfter
<1> HIDE DEF e, m
<1> DEFINE count(k) == IF k <= v THEN v - k ELSE r - ((k - v - 1) % (r + 1))
<1>4. CountAfter(v, r, d, n) = count(e) /\ CountAfter(v, r, d, n + 1) = count((n + 1) \div d)
  BY DEF CountAfter, e
<1>5. ASSUME NEW k \in Nat PROVE count(k) \in Nat
  <2>1. CASE k <= v
    BY <2>1
  <2>2. CASE k > v
    <3>1. k - v - 1 \in Nat /\ r + 1 \in Nat \ {0}
      BY <2>2
    <3>2. (k - v - 1) % (r + 1) \in 0..r
      BY <3>1, Division
    <3> QED BY <2>2, <3>2
  <2> QED BY <2>1, <2>2
<1>6. count(e + 1) = IF count(e) > 0 THEN count(e) - 1 ELSE r
  <2>1. CASE e < v
    BY <1>1, <2>1
  <2>2. CASE e = v
    <3>1. (e + 1) - v - 1 = 0 /\ r + 1 \in Nat \ {0}
      BY <1>1, <2>2
    <3>2. 0 % (r + 1) = 0
      BY <3>1, Quotient
    <3> QED BY <1>1, <2>2, <3>1, <3>2
  <2>3. CASE e > v
    <3> DEFINE k == e - v - 1
    <3> DEFINE p == k % (r + 1)
    <3>1. k \in Nat /\ r + 1 \in Nat \ {0} /\ (e + 1) - v - 1 = k + 1
      BY <1>1, <2>3
    <3>2. p \in 0..r
      BY <3>1, Division
    <3>3. /\ p = r => (k + 1) % (r + 1) = 0
          /\ p # r => (k + 1) % (r + 1) = p + 1
      BY <3>1, NextQuotient
    <3>4. count(e) = r - p /\ count(e + 1) = r - ((k + 1) % (r + 1))
      BY <1>1, <2>3, <3>1
    <3> HIDE DEF k, p, count
    <3> QED BY <3>2, <3>3, <3>4
  <2> QED BY <1>1, <2>1, <2>2, <2>3
<1> HIDE DEF count
<1>7. CASE m = d - 1
  <2>1. LeftAfter(d, n) = 1 /\ LeftAfter(d, n + 1) = d
    BY <1>1, <1>2, <1>3, <1>7 DEF LeftAfter
  <2>2. (n + 1) \div d = e + 1
    BY <1>2, <1>7
  <2> QED BY <1>1, <1>4, <1>5, <1>6, <2>1, <2>2 DEF TakesOneClock
<1>8. CASE m # d - 1
  <2>1. LeftAfter(d, n) \in 2..d /\ LeftAfter(d, n + 1) = LeftAfter(d, n) - 1
    BY <1>1, <1>2, <1>3, <1>8 DEF LeftAfter
  <2>2. (n + 1) \div d = e
    BY <1>2, <1>8
  <2> QED BY <1>1, <1>4, <1>5, <2>1, <2>2 DEF TakesOneClock
<1> QED BY <1>7, <1>8

LEMMA NextDue ==
  ASSUME NEW N \in Nat, NEW P \in Nat \ {0}, NEW m \in Nat
  PROVE  /\ DueAfter(N, P, m) \in Nat /\ DueAfter(N, P, m) > m
         /\ DueAfter(N, P, m) > m + 1 =>
              DueAfter(N, P, m + 1) = DueAfter(N, P, m) /\ (N <= m + 1 <=> N <= m)
         /\ DueAfter(N, P, m) = m + 1 => DueAfter(N, P, m + 1) = m + 1 + P /\ N <= m + 1
<1>1. CASE N > m
  <2>1. DueAfter(N, P, m) = N
    BY <1>1 DEF DueAfter
  <2>2. CASE N = m + 1
    <3>1. (m + 1) - N = 0 /\ 0 \div P = 0
      BY <2>2, Quotient
    <3>2. DueAfter(N, P, m + 1) = N + (0 + 1) * P
      BY <2>2, <3>1 DEF DueAfter
    <3> QED BY <2>1, <2>2, <3>2
  <2>3. CASE N > m + 1
    BY <2>1, <2>3 DEF DueAfter
  <2> QED BY <1>1, <2>2, <2>3
<1>2. CASE N <= m
  <2> DEFINE k == m - N
  <2> DEFINE q == k \div P
  <2> DEFINE r == k % P
  <2>1. k \in Nat /\ (m + 1) - N = k + 1
    BY <1>2
  <2>2. q \in Nat /\ r \in 0..(P - 1) /\ k = q * P + r
    BY <2>1, Division
  <2>3. /\ r = P - 1 => (k + 1) \div P = q + 1
        /\ r # P - 1 => (k + 1) \div P = q
    BY <2>1, NextQuotient
  <2>4. DueAfter(N, P, m) = N + (q + 1) * P /\ DueAfter(N, P, m + 1) = N + ((k + 1) \div P + 1) * P
    BY <1>2, <2>1 DEF DueAfter
  <2>5. k = m - N
    OBVIOUS
  <2> DEFINE qp == q * P
  <2>6. (q + 1) * P = qp + P /\ ((q + 1) + 1) * P = qp + P + P /\ qp \in Nat /\ k = qp + r
    <3> HIDE DEF k, q, r
    <3> QED BY <2>2
  <2> HIDE DEF k, q, r, qp
  <2>7. DueAfter(N, P, m) = N + qp + P
    BY <2>4, <2>6
  <2>8. CASE r = P - 1
    <3>1. DueAfter(N, P, m + 1) = N + qp + P + P
      BY <2>3, <2>4, <2>6, <2>8
    <3> QED BY <1>2, <2>2, <2>5, <2>6, <2>7, <2>8, <3>1
  <2>9. CASE r # P - 1
    <3>1. DueAfter(N, P, m + 1) = N + qp + P
      BY <2>3, <2>4, <2>6, <2>9
    <3> QED BY <1>2, <2>2, <2>5, <2>6, <2>7, <2>9, <3>1
  <2> QED BY <2>8, <2>9
<1> QED BY <1>1, <1>2

---------------------------------------------------------------------------
(* A channel of the unit and the counter it stands for. *)

\* The underflow a running channel waits for is the one its count leads to.
OnTime(c) ==
  c.running => c.startCyc <= cycles /\ c.nextUnf = cycles + Cur(c) * Div(c) + Left(c)

\* The counter of channel c, n cycles from now.
ClockState(c, n) ==
  [count |-> CountAfter(c.startCnt, c.tcor, Div(c), cycles - c.startCyc + n),
   left |-> LeftAfter(Div(c), cycles - c.startCyc + n),
   under |-> c.nextUnf <= cycles + n]

\* One clock of the counter's specification.
Clocked(st, reload, div) ==
  IF st.left > 1 THEN [st EXCEPT !.left = @ - 1]
  ELSE IF st.count > 0 THEN [st EXCEPT !.left = div, !.count = @ - 1]
  ELSE [count |-> reload, left |-> div, under |-> TRUE]

LEMMA DivIsPositive ==
  ASSUME ClockType, NEW c \in Chan
  PROVE  Div(c) \in Nat \ {0} /\ (c.tcor + 1) * Div(c) \in Nat \ {0}
<1>1. Div(c) \in Nat \ {0} /\ c.tcor \in Nat
  BY TimerAssumption DEF ClockType, Div, Chan
<1> DEFINE d == Div(c)
<1> HIDE DEF d
<1>2. d \in Nat \ {0} /\ c.tcor + 1 \in Nat \ {0}
  BY <1>1 DEF d
<1>3. (c.tcor + 1) * d \in Nat \ {0}
  BY <1>2
<1> QED BY <1>2, <1>3 DEF d

LEMMA ClosedForm ==
  ASSUME ClockType, NEW c \in Chan, c.running, c.startCyc <= cycles
  PROVE  /\ Cur(c) = CountAfter(c.startCnt, c.tcor, Div(c), cycles - c.startCyc)
         /\ Left(c) = LeftAfter(Div(c), cycles - c.startCyc)
BY DEF ClockType, Chan, Cur, Left, CountAfter, LeftAfter

\* The counter's state leads to the next underflow, however many cycles pass.
LEMMA DueFollows ==
  ASSUME ClockType, NEW c \in Chan, c.running, OnTime(c)
  PROVE  \A n \in Nat :
           DueAfter(c.nextUnf, (c.tcor + 1) * Div(c), cycles + n)
             = cycles + n + ClockState(c, n).count * Div(c) + ClockState(c, n).left
<1> DEFINE d == Div(c)
<1> DEFINE P == (c.tcor + 1) * Div(c)
<1> DEFINE N == c.nextUnf
<1> DEFINE k(n) == CountAfter(c.startCnt, c.tcor, Div(c), cycles - c.startCyc + n)
<1> DEFINE l(n) == LeftAfter(Div(c), cycles - c.startCyc + n)
<1> DEFINE due(n) == DueAfter(N, P, cycles + n)
<1>1. /\ d \in Nat \ {0} /\ P \in Nat \ {0} /\ N \in Nat /\ cycles \in Nat /\ P = (c.tcor + 1) * d
      /\ c.startCnt \in Nat /\ c.tcor \in Nat /\ cycles - c.startCyc \in Nat
  BY DivIsPositive DEF OnTime, ClockType, Chan
<1> HIDE DEF d
<1>2. \A n \in Nat : ClockState(c, n).count = k(n) /\ ClockState(c, n).left = l(n)
  BY DEF ClockState
<1>3. ASSUME NEW n \in Nat
      PROVE  /\ k(n) \in Nat /\ l(n) \in 1..d
             /\ l(n) > 1 => l(n + 1) = l(n) - 1 /\ k(n + 1) = k(n)
             /\ l(n) = 1 => l(n + 1) = d /\ k(n + 1) = IF k(n) > 0 THEN k(n) - 1 ELSE c.tcor
  <2> DEFINE s == cycles - c.startCyc + n
  <2>1. s \in Nat /\ cycles - c.startCyc + (n + 1) = s + 1
    BY <1>1
  <2> HIDE DEF s
  <2>2. /\ k(n) = CountAfter(c.startCnt, c.tcor, d, s) /\ l(n) = LeftAfter(d, s)
        /\ k(n + 1) = CountAfter(c.startCnt, c.tcor, d, s + 1) /\ l(n + 1) = LeftAfter(d, s + 1)
    BY <2>1 DEF s, d
  <2> DEFINE v == c.startCnt
  <2> DEFINE r == c.tcor
  <2>3. v \in Nat /\ r \in Nat /\ d \in Nat \ {0} /\ s \in Nat
    BY <1>1, <2>1
  <2> HIDE DEF v, r
  <2>4. TakesOneClock(v, r, d, s)
    BY ONLY <2>3, OneClock
  <2> HIDE DEF k, l
  <2> QED BY <2>2, <2>4 DEF TakesOneClock, v, r
<1>4. ASSUME NEW n \in Nat
      PROVE  /\ due(n) \in Nat /\ due(n) > cycles + n
             /\ due(n) > cycles + n + 1 => due(n + 1) = due(n)
             /\ due(n) = cycles + n + 1 => due(n + 1) = cycles + n + 1 + P
  <2> DEFINE m == cycles + n
  <2>1. m \in Nat /\ cycles + (n + 1) = m + 1
    BY <1>1
  <2>2. N \in Nat /\ P \in Nat \ {0}
    BY <1>1
  <2> HIDE DEF N, P, m
  <2>3. /\ DueAfter(N, P, m) \in Nat /\ DueAfter(N, P, m) > m
        /\ DueAfter(N, P, m) > m + 1 => DueAfter(N, P, m + 1) = DueAfter(N, P, m)
        /\ DueAfter(N, P, m) = m + 1 => DueAfter(N, P, m + 1) = m + 1 + P
    BY ONLY <2>1, <2>2, NextDue
  <2> QED BY <2>1, <2>3 DEF m
<1>5. due(0) = cycles + k(0) * d + l(0)
  <2>1. N = cycles + Cur(c) * d + Left(c) /\ c.startCyc <= cycles
    BY DEF OnTime, d
  <2>2. Cur(c) = k(0) /\ Left(c) = l(0)
    BY <1>1, <2>1, ClosedForm
  <2>3. k(0) \in Nat /\ l(0) \in 1..d
    BY <1>3
  <2> DEFINE kd == k(0) * d
  <2>4. kd \in Nat
    <3> HIDE DEF k
    <3> QED BY <1>1, <2>3
  <2>5. N = cycles + kd + l(0)
    BY <2>1, <2>2
  <2>6. N > cycles + 0
    <3> HIDE DEF kd, l, N
    <3> QED BY <1>1, <2>3, <2>4, <2>5
  <2>7. due(0) = N
    BY <1>1, <2>6 DEF DueAfter
  <2> QED BY <2>5, <2>7
<1> HIDE DEF k, l, due, P, N
<1> DEFINE Good == {n \in Nat : due(n) = cycles + n + k(n) * d + l(n)}
<1>6. 0 \in Good
  BY <1>1, <1>3, <1>5
<1>7. ASSUME NEW n \in Nat, n \in Good PROVE n + 1 \in Good
  <2> DEFINE kd == k(n) * d
  <2>1. kd \in Nat /\ kd = k(n) * d
    BY <1>1, <1>3
  <2> HIDE DEF kd
  <2>2. due(n) = cycles + n + kd + l(n)
    BY <1>7, <2>1
  <2>3. CASE l(n) > 1
    <3>1. due(n + 1) = due(n) /\ k(n + 1) = k(n) /\ l(n + 1) = l(n) - 1
      BY <1>1, <1>3, <1>4, <2>1, <2>2, <2>3
    <3>2. due(n + 1) = cycles + (n + 1) + kd + l(n + 1)
      BY <1>1, <1>3, <2>1, <2>2, <3>1
    <3> QED BY <2>1, <3>1, <3>2
  <2>4. CASE l(n) = 1 /\ k(n) > 0
    <3>1. k(n + 1) = k(n) - 1 /\ l(n + 1) = d /\ k(n) \in Nat
      BY <1>3, <2>4
    <3>2. kd = k(n + 1) * d + d /\ kd > 0 /\ k(n + 1) * d \in Nat
      BY <1>1, <2>1, <2>4, <3>1
    <3>3. due(n + 1) = due(n)
      BY <1>1, <1>4, <2>1, <2>2, <2>4, <3>2
    <3> DEFINE kd2 == k(n + 1) * d
    <3>4. kd = kd2 + d /\ kd2 \in Nat
      BY <3>2
    <3> HIDE DEF kd2
    <3>5. due(n + 1) = cycles + (n + 1) + kd2 + l(n + 1)
      BY <1>1, <2>2, <2>4, <3>1, <3>3, <3>4
    <3> QED BY <3>5 DEF kd2
  <2>5. CASE l(n) = 1 /\ k(n) = 0
    <3>1. k(n + 1) = c.tcor /\ l(n + 1) = d
      BY <1>3, <2>5
    <3>2. kd = 0
      BY <1>1, <2>1, <2>5
    <3>3. due(n + 1) = cycles + n + 1 + P
      BY <1>1, <1>4, <2>2, <2>5, <3>2
    <3>4. P = c.tcor * d + d /\ c.tcor * d \in Nat
      BY <1>1
    <3> DEFINE td == c.tcor * d
    <3>5. P = td + d /\ td \in Nat
      BY <3>4
    <3> HIDE DEF td
    <3>6. due(n + 1) = cycles + (n + 1) + td + l(n + 1)
      BY <1>1, <3>1, <3>3, <3>5
    <3> QED BY <3>1, <3>6 DEF td
  <2> QED BY <1>1, <1>3, <2>3, <2>4, <2>5
<1> HIDE DEF Good
<1>8. \A n \in Nat : n \in Good
  BY <1>6, <1>7, SetInduction
<1>9. \A n \in Nat : due(n) = cycles + n + k(n) * d + l(n)
  BY <1>8 DEF Good
<1> QED BY <1>2, <1>9 DEF due, d, P, N

\* The counters of the specification, cycle by cycle.
Counting(st, reload, div, n) ==
  LET after[i \in 0..n] == IF i = 0 THEN st ELSE Clocked(after[i - 1], reload, div) IN after

\* Channel c is where the counter that steps cycle by cycle is.
LEMMA StateClocks ==
  ASSUME ClockType, NEW c \in Chan, c.running, OnTime(c), NEW n \in Nat
  PROVE  /\ ClockState(c, n) \in [count : Nat, left : Nat, under : BOOLEAN]
         /\ ClockState(c, n + 1) = Clocked(ClockState(c, n), c.tcor, Div(c))
<1> DEFINE d == Div(c)
<1> DEFINE v == c.startCnt
<1> DEFINE r == c.tcor
<1> DEFINE s == cycles - c.startCyc + n
<1> DEFINE k == CountAfter(v, r, d, s)
<1> DEFINE l == LeftAfter(d, s)
<1> DEFINE N == c.nextUnf
<1> DEFINE P == (c.tcor + 1) * Div(c)
<1> DEFINE m == cycles + n
<1> DEFINE kd == k * d
<1>1. /\ d \in Nat \ {0} /\ v \in Nat /\ r \in Nat /\ s \in Nat /\ N \in Nat /\ P \in Nat \ {0}
      /\ m \in Nat /\ cycles - c.startCyc + (n + 1) = s + 1 /\ cycles + (n + 1) = m + 1
  BY DivIsPositive DEF OnTime, ClockType, Chan
<1>2. ClockState(c, n) = [count |-> k, left |-> l, under |-> N <= m]
  BY DEF ClockState
<1>3. ClockState(c, n + 1) = [count |-> CountAfter(v, r, d, s + 1), left |-> LeftAfter(d, s + 1),
                              under |-> N <= m + 1]
  BY <1>1 DEF ClockState
<1>4. DueAfter(N, P, m) = m + kd + l
  <2>1. DueAfter(N, P, m) = m + ClockState(c, n).count * Div(c) + ClockState(c, n).left
    BY DueFollows
  <2> QED BY <1>2, <2>1
<1> HIDE DEF d, v, r, s, N, P, m
<1>5. TakesOneClock(v, r, d, s)
  BY ONLY <1>1, OneClock
<1>6. /\ DueAfter(N, P, m) > m + 1 => (N <= m + 1 <=> N <= m)
      /\ DueAfter(N, P, m) = m + 1 => N <= m + 1
  BY ONLY <1>1, NextDue
<1>7. k \in Nat /\ l \in 1..d
  BY <1>5 DEF TakesOneClock
<1>8. kd \in Nat /\ (k > 0 => kd > 0) /\ (k = 0 => kd = 0)
  <2> HIDE DEF k
  <2> QED BY <1>1, <1>7
<1>9. /\ l > 1 => LeftAfter(d, s + 1) = l - 1 /\ CountAfter(v, r, d, s + 1) = k
      /\ l = 1 => LeftAfter(d, s + 1) = d /\ CountAfter(v, r, d, s + 1) = IF k > 0 THEN k - 1 ELSE r
  BY <1>5 DEF TakesOneClock
<1> DEFINE st == ClockState(c, n)
<1>10. st = [count |-> k, left |-> l, under |-> N <= m]
  BY <1>2
<1> HIDE DEF k, l, kd, st
<1>11. st \in [count : Nat, left : Nat, under : BOOLEAN] /\ st.count = k /\ st.left = l /\ st.under = (N <= m)
  BY <1>1, <1>7, <1>10
<1>12. CASE l > 1
  <2>1. (N <= m + 1) = (N <= m)
    BY <1>1, <1>4, <1>6, <1>7, <1>8, <1>12
  <2>2. Clocked(st, r, d) = [count |-> k, left |-> l - 1, under |-> N <= m]
    BY <1>10, <1>11, <1>12 DEF Clocked
  <2>3. ClockState(c, n + 1) = [count |-> k, left |-> l - 1, under |-> N <= m]
    BY <1>3, <1>9, <1>12, <2>1
  <2> QED BY <1>11, <2>2, <2>3 DEF st, r, d
<1>13. CASE l = 1 /\ k > 0
  <2>1. (N <= m + 1) = (N <= m)
    BY <1>1, <1>4, <1>6, <1>8, <1>13
  <2>2. Clocked(st, r, d) = [count |-> k - 1, left |-> d, under |-> N <= m]
    <3>1. Clocked(st, r, d) = [st EXCEPT !.left = d, !.count = @ - 1]
      BY <1>1, <1>11, <1>13 DEF Clocked
    <3> QED BY <1>1, <1>10, <1>11, <3>1
  <2>3. ClockState(c, n + 1) = [count |-> k - 1, left |-> d, under |-> N <= m]
    BY <1>3, <1>9, <1>13, <2>1
  <2> QED BY <1>11, <2>2, <2>3 DEF st, r, d
<1>14. CASE l = 1 /\ ~(k > 0)
  <2>1. (N <= m + 1) = TRUE
    BY <1>1, <1>4, <1>6, <1>7, <1>8, <1>14
  <2>2. Clocked(st, r, d) = [count |-> r, left |-> d, under |-> TRUE]
    BY <1>11, <1>14 DEF Clocked
  <2>3. ClockState(c, n + 1) = [count |-> r, left |-> d, under |-> TRUE]
    BY <1>3, <1>9, <1>14, <2>1
  <2> QED BY <1>11, <2>2, <2>3 DEF st, r, d
<1>15. l > 1 \/ (l = 1 /\ k > 0) \/ (l = 1 /\ ~(k > 0))
  BY <1>1, <1>7
<1> QED BY <1>12, <1>13, <1>14, <1>15

LEMMA CountingIs ==
  ASSUME ClockType, NEW c \in Chan, c.running, OnTime(c), NEW n \in Nat
  PROVE  Counting([count |-> Cur(c), left |-> Left(c), under |-> FALSE], c.tcor, Div(c), n)[n]
           = ClockState(c, n)
<1> DEFINE st == [count |-> Cur(c), left |-> Left(c), under |-> FALSE]
<1> DEFINE f == [i \in 0..n |-> ClockState(c, i)]
<1> DEFINE g == Counting(st, c.tcor, Div(c), n)
<1>1. ClockState(c, 0) = st
  <2>1. cycles - c.startCyc + 0 = cycles - c.startCyc /\ cycles + 0 = cycles /\ c.startCyc <= cycles
        /\ c.nextUnf = cycles + Cur(c) * Div(c) + Left(c)
    BY DEF OnTime, ClockType, Chan
  <2>2. Cur(c) = ClockState(c, 0).count /\ Left(c) = ClockState(c, 0).left
    BY <2>1, ClosedForm DEF ClockState
  <2>3. Cur(c) \in Nat /\ Left(c) \in Nat \ {0}
    <3> DEFINE s == cycles - c.startCyc
    <3>1. /\ c.startCnt \in Nat /\ c.tcor \in Nat /\ Div(c) \in Nat \ {0} /\ s \in Nat
          /\ Cur(c) = CountAfter(c.startCnt, c.tcor, Div(c), s) /\ Left(c) = LeftAfter(Div(c), s)
      BY <2>1, ClosedForm, DivIsPositive DEF ClockType, Chan
    <3> HIDE DEF s
    <3>2. TakesOneClock(c.startCnt, c.tcor, Div(c), s)
      BY <3>1, OneClock
    <3> QED BY <3>1, <3>2 DEF TakesOneClock
  <2> DEFINE kd == Cur(c) * Div(c)
  <2>4. kd \in Nat
    <3> DEFINE d == Div(c)
    <3>1. d \in Nat /\ Cur(c) \in Nat
      BY <2>3, DivIsPositive
    <3> HIDE DEF d
    <3>2. Cur(c) * d \in Nat
      BY <3>1
    <3> QED BY <3>2 DEF d
  <2>5. c.nextUnf = cycles + kd + Left(c) /\ cycles \in Nat
    BY <2>1 DEF ClockType
  <2> HIDE DEF kd
  <2>6. (c.nextUnf <= cycles) = FALSE
    BY <2>3, <2>4, <2>5
  <2> QED BY <2>1, <2>2, <2>6 DEF ClockState
<1>2. \A i \in 0..n : i # 0 => i - 1 \in 0..n /\ ClockState(c, i) = Clocked(ClockState(c, i - 1), c.tcor, Div(c))
  <2> SUFFICES ASSUME NEW i \in 0..n, i # 0
               PROVE  i - 1 \in 0..n /\ ClockState(c, i) = Clocked(ClockState(c, i - 1), c.tcor, Div(c))
    OBVIOUS
  <2> DEFINE j == i - 1
  <2>1. j \in Nat /\ j \in 0..n /\ i = j + 1
    OBVIOUS
  <2> HIDE DEF j
  <2>2. ClockState(c, j + 1) = Clocked(ClockState(c, j), c.tcor, Div(c))
    BY <2>1, StateClocks
  <2> QED BY <2>1, <2>2 DEF j
<1>3. f = [i \in 0..n |-> IF i = 0 THEN st ELSE Clocked(f[i - 1], c.tcor, Div(c))]
  <2> HIDE DEF st
  <2>1. \A i \in 0..n : f[i] = IF i = 0 THEN st ELSE Clocked(f[i - 1], c.tcor, Div(c))
    BY <1>1, <1>2
  <2>2. f = [i \in 0..n |-> f[i]]
    OBVIOUS
  <2> HIDE DEF f
  <2> QED BY <2>1, <2>2
<1>4. g = [i \in 0..n |-> IF i = 0 THEN st ELSE Clocked(g[i - 1], c.tcor, Div(c))]
  <2> HIDE DEF st, f
  <2> QED BY <1>3 DEF Counting
<1> HIDE DEF st, g
<1> DEFINE Good == {i \in Nat : i <= n => g[i] = ClockState(c, i)}
<1>5. 0 \in Good
  BY <1>1, <1>4
<1>6. ASSUME NEW i \in Nat, i \in Good PROVE i + 1 \in Good
  <2> SUFFICES ASSUME i + 1 <= n PROVE g[i + 1] = ClockState(c, i + 1)
    OBVIOUS
  <2>1. i + 1 \in 0..n /\ (i + 1) - 1 = i /\ i + 1 # 0 /\ g[i] = ClockState(c, i)
    BY <1>6
  <2>2. g[i + 1] = Clocked(g[i], c.tcor, Div(c))
    BY <1>4, <2>1
  <2> QED BY <1>2, <2>1, <2>2
<1> HIDE DEF Good
<1>7. n \in Good
  BY <1>5, <1>6, SetInduction
<1> QED BY <1>7 DEF Good, g, st

---------------------------------------------------------------------------
(* The steps of a channel. *)

\* A channel nobody has written counts from zero to zero.
Untouched(c) == ~c.owned => c.tcor = 0 /\ c.tcnt = 0 /\ c.startCnt = 0 /\ c.tpsc = 0 /\ ~c.unie

\* A countdown has begun.
Begun(c) == c.running => c.startCyc <= cycles

ChanOK(i) ==
  /\ ch[i] \in Chan /\ Begun(ch[i]) /\ (i \in skewed \/ OnTime(ch[i]))
  /\ Untouched(ch[i]) /\ (i \in asked => ch[i].owned)

TimersInv ==
  /\ ClockType /\ ch \in [Chans -> Chan]
  /\ \A i \in Chans : ChanOK(i)

ChanStep(i) ==
  \/ i \in skewed \cup skewed'
  \/ Ticking(i)!Next \/ Ticking(i)!vars' = Ticking(i)!vars
  \/ Reread(i) /\ Ticking(i)!Jump

LEMMA CurIsNat ==
  ASSUME ClockType, NEW c \in Chan, c.running => c.startCyc <= cycles
  PROVE  Cur(c) \in Nat /\ Left(c) \in Nat
<1>1. CASE ~c.running
  BY <1>1 DEF Cur, Left, Chan
<1>2. CASE c.running
  <2> DEFINE s == cycles - c.startCyc
  <2>1. /\ c.startCnt \in Nat /\ c.tcor \in Nat /\ Div(c) \in Nat \ {0} /\ s \in Nat
        /\ Cur(c) = CountAfter(c.startCnt, c.tcor, Div(c), s) /\ Left(c) = LeftAfter(Div(c), s)
    BY <1>2, ClosedForm, DivIsPositive DEF ClockType, Chan
  <2> HIDE DEF s
  <2>2. TakesOneClock(c.startCnt, c.tcor, Div(c), s)
    BY <2>1, OneClock
  <2> QED BY <2>1, <2>2 DEF TakesOneClock
<1> QED BY <1>1, <1>2

\* A channel nobody has written reads zero.
LEMMA UntouchedReadsZero ==
  ASSUME ClockType, NEW c \in Chan, Begun(c), Untouched(c), ~c.owned
  PROVE  Cur(c) = 0
<1>1. CASE ~c.running
  BY <1>1 DEF Cur, Untouched
<1>2. CASE c.running
  <2> DEFINE e == (cycles - c.startCyc) \div Div(c)
  <2>1. e \in Nat /\ c.tcor = 0 /\ c.startCnt = 0
    <3>1. Div(c) \in Nat \ {0} /\ cycles - c.startCyc \in Nat
      BY <1>2, DivIsPositive DEF Begun, ClockType, Chan
    <3> QED BY <3>1, Division DEF Untouched
  <2>2. Cur(c) = IF e <= 0 THEN 0 - e ELSE 0 - ((e - 0 - 1) % (0 + 1))
    BY <1>2, <2>1 DEF Cur, Begun, ClockType, Chan
  <2> HIDE DEF e
  <2>3. CASE e = 0
    BY <2>2, <2>3
  <2>4. CASE e # 0
    <3>1. e - 0 - 1 \in Nat /\ (e - 0 - 1) % (0 + 1) \in 0..0
      BY <2>1, <2>4
    <3> QED BY <2>1, <2>2, <2>4, <3>1
  <2> QED BY <2>3, <2>4
<1> QED BY <1>1, <1>2

\* A countdown that starts now.
LEMMA StartsOnTime ==
  ASSUME ClockType, NEW c \in Chan, NEW v \in Nat
  PROVE  /\ From(c, v) \in Chan /\ OnTime(From(c, v)) /\ Begun(From(c, v)) /\ Cur(From(c, v)) = v
         /\ Left(From(c, v)) = (IF c.running THEN Div(c) ELSE 0) /\ Div(From(c, v)) = Div(c)
         /\ From(c, v).running = c.running /\ From(c, v).tcor = c.tcor /\ From(c, v).unf = c.unf
         /\ From(c, v).unie = c.unie /\ From(c, v).owned = c.owned /\ From(c, v).tpsc = c.tpsc
         /\ From(c, v).startCnt = v /\ From(c, v).tcnt = v
<1> DEFINE d == Div(c)
<1> DEFINE f == From(c, v)
<1>1. d \in Nat \ {0} /\ cycles \in Nat
  BY DivIsPositive DEF ClockType
<1>2. f = [c EXCEPT !.tcnt = v, !.startCyc = cycles, !.startCnt = v, !.nextUnf = cycles + (v + 1) * d]
  BY DEF From
<1>3. Div(f) = d
  BY <1>2 DEF Div, Chan
<1> HIDE DEF d, f
<1> DEFINE vd == v * d
<1>4. (v + 1) * d = vd + d /\ vd \in Nat
  BY <1>1
<1> HIDE DEF vd
<1>5. cycles + vd + d \in Nat
  BY <1>1, <1>4
<1>6. f = [c EXCEPT !.tcnt = v, !.startCyc = cycles, !.startCnt = v, !.nextUnf = cycles + vd + d]
  <2>1. cycles + (v + 1) * d = cycles + vd + d
    BY <1>1, <1>4
  <2> QED BY <1>2, <2>1
<1>7. /\ f \in Chan /\ f.tcnt = v /\ f.startCyc = cycles /\ f.startCnt = v /\ f.nextUnf = cycles + vd + d
      /\ f.running = c.running /\ f.tcor = c.tcor /\ f.unf = c.unf
      /\ f.unie = c.unie /\ f.owned = c.owned /\ f.tpsc = c.tpsc
  BY <1>1, <1>5, <1>6 DEF Chan
<1>8. cycles - f.startCyc = 0 /\ 0 \div d = 0 /\ 0 % d = 0
  BY <1>1, <1>7, Quotient
<1>9. Cur(f) = v
  BY <1>1, <1>3, <1>7, <1>8 DEF Cur
<1>10. Left(f) = IF c.running THEN d ELSE 0
  BY <1>1, <1>3, <1>7, <1>8 DEF Left
<1>11. OnTime(f) /\ Begun(f)
  BY <1>1, <1>3, <1>4, <1>7, <1>9, <1>10 DEF OnTime, Begun, vd
<1> QED BY <1>3, <1>7, <1>9, <1>10, <1>11 DEF f, d

\* What is true of a record now is true of it after a step that leaves the clock alone.
LEMMA SameClock ==
  ASSUME UNCHANGED <<cycles, ips>>, NEW i \in Chans, NEW c, ch'[i] = c
  PROVE  /\ Cur(ch[i])' = Cur(c) /\ Left(ch[i])' = Left(c) /\ Div(ch[i])' = Div(c)
         /\ OnTime(c) => OnTime(ch[i])'
         /\ Begun(c) => Begun(ch[i])'
         /\ Untouched(c) => Untouched(ch[i])'
BY DEF Cur, Left, Div, OnTime, Begun, Untouched

\* What a write makes of the channel: a record that is on time, and the same clock.
LEMMA Becomes ==
  ASSUME UNCHANGED clockVars, NEW i \in Chans, NEW c \in Chan, ch'[i] = c,
         Begun(c), i \in skewed' \/ OnTime(c), Untouched(c), i \in asked => c.owned
  PROVE  ChanOK(i)'
BY SameClock DEF ChanOK, clockVars

LEMMA SwitchStep ==
  ASSUME TimersInv, UNCHANGED clockVars, NEW i \in Chans, NEW on \in BOOLEAN,
         NEW c, c = ch[i] \/ c = [ch[i] EXCEPT !.owned = TRUE], ch'[i] = SetRunning(c, on),
         i \in skewed' <=> (i \in skewed /\ on)
  PROVE  ChanOK(i)' /\ ChanStep(i)
<1> DEFINE s == SetRunning(c, on)
<1>1. ClockType /\ ChanOK(i)
  BY DEF TimersInv
<1>2. /\ c \in Chan /\ Begun(c) /\ (i \in skewed \/ OnTime(c)) /\ Untouched(c) /\ (i \in asked => c.owned)
      /\ Cur(c) = Cur(ch[i]) /\ Left(c) = Left(ch[i]) /\ Div(c) = Div(ch[i]) /\ c.running = ch[i].running
      /\ c.tcor = ch[i].tcor /\ c.unf = ch[i].unf /\ c.unie = ch[i].unie
  <2>1. CASE c = ch[i]
    BY <1>1, <2>1 DEF ChanOK
  <2>2. CASE c = [ch[i] EXCEPT !.owned = TRUE]
    <3>1. /\ c \in Chan /\ c.owned /\ c.running = ch[i].running /\ c.tcnt = ch[i].tcnt
          /\ c.tcor = ch[i].tcor /\ c.unf = ch[i].unf /\ c.unie = ch[i].unie /\ c.tpsc = ch[i].tpsc
          /\ c.startCyc = ch[i].startCyc /\ c.startCnt = ch[i].startCnt /\ c.nextUnf = ch[i].nextUnf
      BY <1>1, <2>2 DEF ChanOK, Chan
    <3>2. Div(c) = Div(ch[i])
      BY <3>1 DEF Div
    <3>3. Cur(c) = Cur(ch[i]) /\ Left(c) = Left(ch[i])
      BY <3>1, <3>2 DEF Cur, Left
    <3> QED BY <1>1, <3>1, <3>2, <3>3 DEF ChanOK, OnTime, Begun, Untouched
  <2> QED BY <2>1, <2>2
<1>3. Cur(c) \in Nat /\ Left(c) \in Nat
  BY <1>1, <1>2, CurIsNat DEF Begun
<1>4. /\ s \in Chan /\ Begun(s) /\ (i \in skewed' \/ OnTime(s)) /\ Untouched(s) /\ s.owned = c.owned /\ s.running = on
      /\ Cur(s) = Cur(c) /\ Div(s) = Div(c)
      /\ Left(s) = IF on = c.running THEN Left(c) ELSE IF on THEN Div(c) ELSE 0
      /\ s.tcor = c.tcor /\ s.unf = c.unf /\ s.unie = c.unie
  <2>1. CASE on /\ ~c.running
    <3> DEFINE r == [c EXCEPT !.running = TRUE]
    <3>1. /\ r \in Chan /\ r.running /\ r.owned = c.owned /\ r.tcor = c.tcor /\ r.unf = c.unf /\ r.unie = c.unie
          /\ r.tpsc = c.tpsc /\ r.tcnt = c.tcnt /\ c.tcnt \in Nat /\ Div(r) = Div(c) /\ Cur(c) = c.tcnt
      BY <1>2, <2>1 DEF Chan, Div, Cur
    <3>2. s = From(r, c.tcnt)
      BY <2>1 DEF SetRunning
    <3> HIDE DEF r, s
    <3>3. /\ s \in Chan /\ OnTime(s) /\ Begun(s) /\ Cur(s) = c.tcnt /\ Left(s) = Div(c) /\ Div(s) = Div(c)
          /\ s.running /\ s.tcor = c.tcor /\ s.unf = c.unf /\ s.unie = c.unie /\ s.owned = c.owned
          /\ s.tpsc = c.tpsc /\ s.startCnt = c.tcnt /\ s.tcnt = c.tcnt
      BY <1>1, <3>1, <3>2, StartsOnTime
    <3>4. Untouched(s)
      BY <1>2, <3>3 DEF Untouched
    <3>5. s.running \in BOOLEAN /\ c.running \in BOOLEAN
      BY <1>2, <3>3 DEF Chan
    <3>6. s.running = on /\ on # c.running
      BY <2>1, <3>3, <3>5
    <3> QED BY <2>1, <3>1, <3>3, <3>4, <3>6
  <2>2. CASE ~on /\ c.running
    <3>1. s = [c EXCEPT !.running = FALSE, !.tcnt = Cur(c)]
      BY <2>2 DEF SetRunning
    <3>2. /\ s \in Chan /\ ~s.running /\ s.owned = c.owned /\ s.tcor = c.tcor /\ s.unf = c.unf /\ s.unie = c.unie
          /\ s.tpsc = c.tpsc /\ s.tcnt = Cur(c) /\ s.startCnt = c.startCnt
      BY <1>2, <1>3, <3>1 DEF Chan
    <3> HIDE DEF s
    <3>3. Cur(s) = Cur(c) /\ Left(s) = 0 /\ Div(s) = Div(c) /\ OnTime(s) /\ Begun(s)
      BY <3>2 DEF Cur, Left, Div, OnTime, Begun
    <3>4. ~c.owned => Cur(c) = 0
      BY <1>1, <1>2, UntouchedReadsZero
    <3>5. Untouched(s)
      BY <1>2, <3>2, <3>4 DEF Untouched
    <3>6. s.running \in BOOLEAN /\ c.running \in BOOLEAN
      BY <1>2, <3>2 DEF Chan
    <3>7. s.running = on /\ on # c.running /\ on = FALSE
      BY <2>2, <3>2, <3>6
    <3> QED BY <2>2, <3>2, <3>3, <3>5, <3>7
  <2>3. CASE on = c.running
    <3>1. s = c
      BY <2>3 DEF SetRunning
    <3>2. on \in BOOLEAN /\ (~on => OnTime(c))
      BY <2>3 DEF OnTime
    <3> QED BY <1>2, <2>3, <3>1, <3>2
  <2>4. c.running \in BOOLEAN
    BY <1>2 DEF Chan
  <2> QED BY <2>1, <2>2, <2>3, <2>4
<1> HIDE DEF s
<1>5. ch'[i] = s
  BY DEF s
<1>6. ChanOK(i)'
  BY <1>2, <1>4, <1>5, Becomes
<1>7. Cur(ch[i])' = Cur(s) /\ Left(ch[i])' = Left(s) /\ Div(ch[i])' = Div(s) /\ asked' = asked
  BY <1>5, SameClock DEF clockVars
<1>8. Ticking(i)!Switch(on)
  BY <1>2, <1>4, <1>5, <1>7 DEF Ticking!Switch, Ticking!Phase
<1> QED BY <1>6, <1>8 DEF ChanStep, Ticking!Next

LEMMA ReloadStep ==
  ASSUME TimersInv, UNCHANGED clockVars, NEW i \in Chans, NEW v \in Counts,
         ch'[i] = Rebased([ch[i] EXCEPT !.owned = TRUE, !.tcor = v])
  PROVE  ChanOK(i)' /\ ChanStep(i)
<1> DEFINE c == [ch[i] EXCEPT !.owned = TRUE, !.tcor = v]
<1> DEFINE s == Rebased(c)
<1>1. ClockType /\ ChanOK(i) /\ v \in Nat
  BY TimerAssumption DEF TimersInv
<1>2. /\ c \in Chan /\ c.owned /\ c.running = ch[i].running /\ c.tcnt = ch[i].tcnt
      /\ c.tcor = v /\ c.unf = ch[i].unf /\ c.unie = ch[i].unie /\ c.tpsc = ch[i].tpsc
      /\ c.startCyc = ch[i].startCyc /\ c.startCnt = ch[i].startCnt /\ c.nextUnf = ch[i].nextUnf
  BY <1>1 DEF ChanOK, Chan
<1> HIDE DEF c
<1>3. Div(c) = Div(ch[i])
  BY <1>2 DEF Div
<1>4. \/ Cur(c) = Cur(ch[i])
      \/ ch[i].running /\ ~FirstRound(ch[i]) /\ ch[i].tcor # v /\ Cur(c) \in 0..v
  <2> DEFINE e == (cycles - c.startCyc) \div Div(c)
  <2>1. CASE ~c.running \/ v = ch[i].tcor
    BY <1>2, <1>3, <2>1 DEF Cur
  <2>2. CASE c.running /\ FirstRound(ch[i])
    BY <1>2, <1>3, <2>2 DEF Cur, FirstRound
  <2>3. CASE c.running /\ ~FirstRound(ch[i]) /\ v # ch[i].tcor
    <3>1. e \in Nat /\ ~(e <= c.startCnt) /\ c.startCnt \in Nat /\ ~(cycles < c.startCyc)
      <4>1. Div(c) \in Nat \ {0} /\ cycles - c.startCyc \in Nat /\ cycles \in Nat /\ c.startCyc \in Nat
        BY <1>1, <1>2, <2>3, DivIsPositive DEF ChanOK, Begun, ClockType, Chan
      <4> QED BY <1>2, <1>3, <2>3, <4>1, Division DEF FirstRound, Chan
    <3>2. Cur(c) = v - ((e - c.startCnt - 1) % (v + 1))
      BY <1>2, <2>3, <3>1 DEF Cur
    <3> HIDE DEF e
    <3>3. e - c.startCnt - 1 \in Nat
      BY <3>1
    <3>4. (e - c.startCnt - 1) % (v + 1) \in 0..v
      BY <1>1, <3>3
    <3>5. Cur(c) \in 0..v
      BY <1>1, <3>2, <3>4
    <3> QED BY <1>2, <2>3, <3>5
  <2> QED BY <2>1, <2>2, <2>3
<1>5. Cur(c) \in Nat
  BY <1>1, <1>2, CurIsNat DEF ChanOK, Begun
<1>6. /\ s \in Chan /\ OnTime(s) /\ Begun(s) /\ s.owned /\ s.running = c.running /\ s.tcor = v
      /\ s.unf = c.unf /\ s.unie = c.unie /\ Cur(s) = Cur(c) /\ Div(s) = Div(c)
      /\ Left(s) = IF c.running THEN Div(c) ELSE 0
  <2>1. CASE c.running
    <3> DEFINE k == Cur(c)
    <3>1. s = From(c, k) /\ k \in Nat /\ k = Cur(c) /\ c \in Chan /\ ClockType
      BY <1>1, <1>2, <1>5, <2>1 DEF Rebased
    <3> HIDE DEF s, k
    <3>2. /\ s \in Chan /\ OnTime(s) /\ Begun(s) /\ Cur(s) = k /\ Left(s) = (IF c.running THEN Div(c) ELSE 0)
          /\ Div(s) = Div(c) /\ s.running = c.running /\ s.tcor = c.tcor /\ s.unf = c.unf
          /\ s.unie = c.unie /\ s.owned = c.owned
      BY ONLY <3>1, StartsOnTime
    <3> QED BY <1>2, <3>1, <3>2
  <2>2. CASE ~c.running
    <3>1. s = c
      BY <2>2 DEF Rebased
    <3> QED BY <1>2, <2>2, <3>1 DEF OnTime, Begun, Left
  <2>3. c.running \in BOOLEAN
    BY <1>2 DEF Chan
  <2> HIDE DEF s
  <2> QED BY <2>1, <2>2, <2>3
<1>7. ch'[i] = s
  BY DEF s, c
<1> HIDE DEF s
<1>8. ChanOK(i)'
  BY <1>6, <1>7, Becomes DEF Untouched
<1>9. Cur(ch[i])' = Cur(s) /\ Left(ch[i])' = Left(s) /\ Div(ch[i])' = Div(s) /\ asked' = asked
  BY <1>7, SameClock DEF clockVars
<1>10. CASE Cur(c) = Cur(ch[i])
  <2>1. Ticking(i)!SetReload(v)
    BY <1>2, <1>3, <1>6, <1>7, <1>9, <1>10 DEF Ticking!SetReload, Ticking!Phase
  <2> QED BY <1>8, <2>1 DEF ChanStep, Ticking!Next
<1>11. CASE ch[i].running /\ ~FirstRound(ch[i]) /\ ch[i].tcor # v /\ Cur(c) \in 0..v
  <2>1. Reread(i)
    BY <1>6, <1>7, <1>11 DEF Reread
  <2>2. Ticking(i)!Jump
    BY <1>2, <1>3, <1>6, <1>7, <1>9, <1>11 DEF Ticking!Jump, Ticking!Phase
  <2> QED BY <1>8, <2>1, <2>2 DEF ChanStep
<1> QED BY <1>4, <1>10, <1>11

LEMMA CountStep ==
  ASSUME TimersInv, UNCHANGED clockVars, NEW i \in Chans, NEW v \in Counts,
         NEW c, c = [ch[i] EXCEPT !.owned = TRUE, !.tcnt = v],
         NEW s, s = IF c.running THEN From(c, v) ELSE c, ch'[i] = s
  PROVE  ChanOK(i)' /\ ChanStep(i)
<1>1. ClockType /\ ChanOK(i) /\ v \in Nat
  BY TimerAssumption DEF TimersInv
<1>2. /\ c \in Chan /\ c.owned /\ c.running = ch[i].running /\ c.tcnt = v
      /\ c.tcor = ch[i].tcor /\ c.unf = ch[i].unf /\ c.unie = ch[i].unie /\ c.tpsc = ch[i].tpsc
  BY <1>1 DEF ChanOK, Chan
<1>3. Div(c) = Div(ch[i])
  BY <1>2 DEF Div
<1>4. /\ s \in Chan /\ OnTime(s) /\ Begun(s) /\ s.owned /\ s.running = c.running /\ s.tcor = c.tcor
      /\ s.unf = c.unf /\ s.unie = c.unie /\ Cur(s) = v /\ Div(s) = Div(c)
      /\ Left(s) = IF c.running THEN Div(c) ELSE 0
  <2>1. CASE c.running
    <3>1. s = From(c, v)
      BY <2>1
    <3>2. ClockType /\ c \in Chan /\ v \in Nat /\ c.owned /\ c.running
      BY <1>1, <1>2, <2>1
    <3> QED BY ONLY <3>1, <3>2, StartsOnTime
  <2>2. CASE ~c.running
    <3>1. s = c
      BY <2>2
    <3>2. OnTime(c) /\ Begun(c) /\ Cur(c) = v /\ Left(c) = 0
      BY <1>2, <2>2 DEF OnTime, Begun, Left, Cur
    <3> QED BY <1>2, <2>2, <3>1, <3>2
  <2> QED BY <2>1, <2>2
<1>5. ch'[i] = s
  OBVIOUS
<1>6. ChanOK(i)'
  BY <1>4, <1>5, Becomes DEF Untouched
<1>7. Cur(ch[i])' = Cur(s) /\ Left(ch[i])' = Left(s) /\ Div(ch[i])' = Div(s) /\ asked' = asked
  BY <1>5, SameClock DEF clockVars
<1>8. Ticking(i)!SetCount(v)
  BY <1>2, <1>3, <1>4, <1>5, <1>7 DEF Ticking!SetCount, Ticking!Phase
<1> QED BY <1>6, <1>8 DEF ChanStep, Ticking!Next

LEMMA ReadsAtStart ==
  ASSUME ClockType, NEW c \in Chan, c.running, cycles = c.startCyc
  PROVE  Cur(c) = c.startCnt /\ Left(c) = Div(c)
<1>1. Div(c) \in Nat \ {0} /\ c.startCnt \in Nat /\ cycles - c.startCyc = 0
  BY DivIsPositive DEF ClockType, Chan
<1>2. 0 \div Div(c) = 0 /\ 0 % Div(c) = 0
  <2> DEFINE d == Div(c)
  <2>1. d \in Nat \ {0}
    BY <1>1
  <2> HIDE DEF d
  <2>2. 0 = 0 * d + 0 /\ 0 \in 0..(d - 1)
    BY <2>1
  <2>3. 0 \div d = 0 /\ 0 % d = 0
    BY <2>1, <2>2, Quotient
  <2> QED BY <2>3 DEF d
<1> QED BY <1>1, <1>2 DEF Cur, Left, Chan

LEMMA ControlStep ==
  ASSUME TimersInv, UNCHANGED clockVars, NEW i \in Chans, NEW one \in BOOLEAN, NEW on \in BOOLEAN,
         NEW p \in Prescalers, p = ch[i].tpsc => (i \in skewed => i \in skewed'),
         NEW c, c = [ch[i] EXCEPT !.owned = TRUE, !.unf = @ /\ one, !.unie = on, !.tpsc = p],
         NEW s, s = IF p = ch[i].tpsc THEN c ELSE Rebased(c), ch'[i] = s
  PROVE  ChanOK(i)' /\ ChanStep(i)
<1>1. ClockType /\ ChanOK(i) /\ ch[i] \in Chan
  BY DEF TimersInv, ChanOK
<1>2. /\ c \in Chan /\ c.owned /\ c.running = ch[i].running /\ c.tcnt = ch[i].tcnt
      /\ c.tcor = ch[i].tcor /\ c.unf = (ch[i].unf /\ one) /\ c.unie = on /\ c.tpsc = p
      /\ c.startCyc = ch[i].startCyc /\ c.startCnt = ch[i].startCnt /\ c.nextUnf = ch[i].nextUnf
  <2>1. (ch[i].unf /\ one) \in BOOLEAN
    OBVIOUS
  <2> QED BY <1>1, <2>1 DEF Chan
<1>3. Div(c) \in Divisors
  BY <1>1, <1>2 DEF Divisors, Div, ClockType
<1>4. CASE p = ch[i].tpsc
  <2>1. Div(c) = Div(ch[i]) /\ s = c
    BY <1>2, <1>4 DEF Div
  <2>2. Cur(c) = Cur(ch[i]) /\ Left(c) = Left(ch[i])
    BY <1>2, <2>1 DEF Cur, Left
  <2>3. Begun(c) /\ (i \in skewed' \/ OnTime(c))
    BY <1>1, <1>2, <1>4, <2>1, <2>2 DEF ChanOK, OnTime, Begun
  <2>4. ChanOK(i)'
    BY <1>2, <2>1, <2>3, Becomes DEF Untouched
  <2>5. Cur(ch[i])' = Cur(s) /\ Left(ch[i])' = Left(s) /\ Div(ch[i])' = Div(s) /\ asked' = asked
    BY SameClock DEF clockVars
  <2>6. Ticking(i)!Control(one, on, Div(c))
    BY <1>2, <2>1, <2>2, <2>5 DEF Ticking!Control
  <2> QED BY <1>3, <2>4, <2>6 DEF ChanStep, Ticking!Next
<1>5. CASE p # ch[i].tpsc /\ ~c.running
  <2>1. s = c
    BY <1>5 DEF Rebased
  <2>2. Cur(c) = Cur(ch[i]) /\ Left(c) = 0 /\ Left(ch[i]) = 0 /\ OnTime(c) /\ Begun(c)
    BY <1>2, <1>5 DEF Cur, Left, OnTime, Begun
  <2>3. ChanOK(i)'
    BY <1>2, <2>1, <2>2, Becomes DEF Untouched
  <2>4. Cur(ch[i])' = Cur(s) /\ Left(ch[i])' = Left(s) /\ Div(ch[i])' = Div(s) /\ asked' = asked
    BY SameClock DEF clockVars
  <2>5. /\ s.unf = c.unf /\ s.unie = c.unie /\ s.running = c.running /\ s.tcor = c.tcor
        /\ Cur(s) = Cur(ch[i]) /\ Div(s) = Div(c)
        /\ Left(s) = IF Div(c) = Div(ch[i]) THEN Left(ch[i]) ELSE IF c.running THEN Div(c) ELSE 0
    BY <1>5, <2>1, <2>2
  <2>6. Ticking(i)!Control(one, on, Div(c))
    BY <1>2, <2>4, <2>5 DEF Ticking!Control, Ticking!Phase
  <2> QED BY <1>3, <2>3, <2>6 DEF ChanStep, Ticking!Next
<1>6. CASE p # ch[i].tpsc /\ c.running
  <2> DEFINE k == Cur(c)
  <2>1. s = From(c, k) /\ k \in Nat /\ c \in Chan /\ ClockType /\ c.running /\ c.owned
    <3>1. Begun(c)
      BY <1>1, <1>2 DEF ChanOK, Begun
    <3>2. k \in Nat
      BY <1>1, <1>2, <3>1, CurIsNat DEF Begun
    <3> QED BY <1>1, <1>2, <1>6, <3>2 DEF Rebased
  <2>2. k = Cur(c)
    OBVIOUS
  <2> HIDE DEF k
  <2>3. /\ s \in Chan /\ OnTime(s) /\ Begun(s) /\ s.owned /\ s.running = c.running /\ s.tcor = c.tcor
        /\ s.unf = c.unf /\ s.unie = c.unie /\ s.tpsc = c.tpsc /\ Cur(s) = k /\ Div(s) = Div(c)
        /\ Left(s) = Div(c)
    BY ONLY <2>1, StartsOnTime
  <2>4. ChanOK(i)'
    BY <2>3, Becomes DEF Untouched
  <2>5. Cur(ch[i])' = Cur(s) /\ Left(ch[i])' = Left(s) /\ Div(ch[i])' = Div(s) /\ asked' = asked
    BY SameClock DEF clockVars
  <2>6. CASE cycles = c.startCyc
    <3>1. ch[i].running /\ cycles = ch[i].startCyc
      BY <1>2, <1>6, <2>6
    <3>2. k = c.startCnt /\ Left(ch[i]) = Div(ch[i]) /\ Cur(ch[i]) = c.startCnt
      BY <1>1, <1>2, <1>6, <2>2, <2>6, <3>1, ReadsAtStart
    <3>3. /\ Cur(s) = Cur(ch[i])
          /\ Left(s) = IF Div(c) = Div(ch[i]) THEN Left(ch[i]) ELSE IF c.running THEN Div(c) ELSE 0
      BY <1>6, <2>3, <3>2
    <3>4. Ticking(i)!Control(one, on, Div(c))
      BY <1>2, <2>3, <2>5, <3>3 DEF Ticking!Control, Ticking!Phase
    <3> QED BY <1>3, <2>4, <3>4 DEF ChanStep, Ticking!Next
  <2>7. CASE cycles # c.startCyc
    <3>1. Reread(i)
      BY <1>2, <1>6, <2>3, <2>7 DEF Reread
    <3>2. Ticking(i)!Jump
      BY <1>2, <1>6, <2>1, <2>3, <2>5 DEF Ticking!Jump, Ticking!Phase
    <3> QED BY <2>4, <3>1, <3>2 DEF ChanStep
  <2> QED BY <2>6, <2>7
<1> QED BY <1>4, <1>5, <1>6

\* The channels a step leaves alone.
LEMMA OtherChan ==
  ASSUME TimersInv, UNCHANGED clockVars, NEW i \in Chans, ch'[i] = ch[i], i \in skewed => i \in skewed'
  PROVE  ChanOK(i)' /\ ChanStep(i)
<1>1. ChanOK(i)
  BY DEF TimersInv
<1>2. ChanOK(i)'
  BY <1>1, Becomes DEF ChanOK
<1>3. Cur(ch[i])' = Cur(ch[i]) /\ Left(ch[i])' = Left(ch[i]) /\ Div(ch[i])' = Div(ch[i]) /\ asked' = asked
  BY SameClock DEF clockVars
<1> QED BY <1>2, <1>3 DEF ChanStep, Ticking!vars

\* A write to one channel.
LEMMA OneChan ==
  ASSUME TimersInv, NEW i \in Chans, NEW c \in Chan, WriteChan(i, c), skewed \ {i} \subseteq skewed',
         ch'[i] = c => ChanOK(i)' /\ ChanStep(i)
  PROVE  /\ ch' \in [Chans -> Chan]
         /\ \A j \in Chans : ChanOK(j)' /\ ChanStep(j)
<1>1. ch' = [ch EXCEPT ![i] = c] /\ UNCHANGED clockVars /\ ch \in [Chans -> Chan]
  BY DEF WriteChan, TimersInv
<1>2. ch' \in [Chans -> Chan] /\ ch'[i] = c
  BY <1>1
<1>3. ASSUME NEW j \in Chans, j # i PROVE ch'[j] = ch[j]
  BY <1>1, <1>3
<1> QED BY <1>1, <1>2, <1>3, OtherChan

LEMMA TimerWriteStep ==
  ASSUME TimersInv, TimerWrite
  PROVE  /\ ch' \in [Chans -> Chan] /\ UNCHANGED clockVars
         /\ \A j \in Chans : ChanOK(j)' /\ ChanStep(j)
<1>1. ASSUME NEW on \in SUBSET Tmu, WriteTSTR(on)
      PROVE  /\ ch' \in [Chans -> Chan] /\ UNCHANGED clockVars
             /\ \A j \in Chans : ChanOK(j)' /\ ChanStep(j)
  <2>1. UNCHANGED clockVars /\ ch' = [j \in Chans |-> IF j \in Tmu THEN SetRunning(ch[j], j \in on) ELSE ch[j]]
        /\ skewed' = skewed \ (Tmu \ on)
    BY <1>1 DEF WriteTSTR
  <2>2. ASSUME NEW j \in Chans PROVE ChanOK(j)' /\ ChanStep(j)
    <3>1. CASE j \in Tmu
      <4> DEFINE turns == j \in on
      <4>1. turns \in BOOLEAN /\ ch'[j] = SetRunning(ch[j], turns) /\ (j \in skewed' <=> (j \in skewed /\ turns))
        BY <2>1, <3>1
      <4> HIDE DEF turns
      <4> QED BY <2>1, <4>1, SwitchStep
    <3>2. CASE j \notin Tmu
      BY <2>1, <3>2, OtherChan
    <3> QED BY <3>1, <3>2
  <2>3. \A j \in Chans : ch'[j] \in Chan
    BY <2>2 DEF ChanOK
  <2>4. ch' = [j \in Chans |-> ch'[j]]
    BY <2>1
  <2> QED BY <2>1, <2>2, <2>3, <2>4
<1>2. ASSUME NEW i \in Chans, NEW on \in BOOLEAN, WriteESTR(i, on)
      PROVE  /\ ch' \in [Chans -> Chan] /\ UNCHANGED clockVars
             /\ \A j \in Chans : ChanOK(j)' /\ ChanStep(j)
  <2> DEFINE s == SetRunning([ch[i] EXCEPT !.owned = TRUE], on)
  <2>1. /\ WriteChan(i, s) /\ UNCHANGED clockVars /\ ch \in [Chans -> Chan]
        /\ skewed \ {i} \subseteq skewed' /\ (i \in skewed' <=> (i \in skewed /\ on))
    BY <1>2 DEF WriteESTR, WriteChan, TimersInv
  <2>2. ch'[i] = s
    BY <2>1 DEF WriteChan
  <2>3. ChanOK(i)' /\ ChanStep(i)
    BY <2>1, <2>2, SwitchStep
  <2>4. s \in Chan
    BY <2>2, <2>3 DEF ChanOK
  <2> HIDE DEF s
  <2> QED BY <2>1, <2>3, <2>4, OneChan
<1>3. ASSUME NEW i \in Chans, NEW v \in Counts, WriteTCOR(i, v)
      PROVE  /\ ch' \in [Chans -> Chan] /\ UNCHANGED clockVars
             /\ \A j \in Chans : ChanOK(j)' /\ ChanStep(j)
  <2> DEFINE s == Rebased([ch[i] EXCEPT !.owned = TRUE, !.tcor = v])
  <2>1. WriteChan(i, s) /\ UNCHANGED clockVars /\ ch \in [Chans -> Chan] /\ skewed \ {i} \subseteq skewed'
    BY <1>3 DEF WriteTCOR, WriteChan, TimersInv
  <2>2. ch'[i] = s
    BY <2>1 DEF WriteChan
  <2>3. ChanOK(i)' /\ ChanStep(i)
    BY <2>1, <2>2, ReloadStep
  <2>4. s \in Chan
    BY <2>2, <2>3 DEF ChanOK
  <2> HIDE DEF s
  <2> QED BY <2>1, <2>3, <2>4, OneChan
<1>4. ASSUME NEW i \in Chans, NEW v \in Counts, WriteTCNT(i, v)
      PROVE  /\ ch' \in [Chans -> Chan] /\ UNCHANGED clockVars
             /\ \A j \in Chans : ChanOK(j)' /\ ChanStep(j)
  <2> DEFINE c == [ch[i] EXCEPT !.owned = TRUE, !.tcnt = v]
  <2> DEFINE s == IF c.running THEN From(c, v) ELSE c
  <2>1. WriteChan(i, s) /\ UNCHANGED clockVars /\ ch \in [Chans -> Chan] /\ skewed \ {i} \subseteq skewed'
    BY <1>4 DEF WriteTCNT, WriteChan, TimersInv
  <2>2. ch'[i] = s
    BY <2>1 DEF WriteChan
  <2>3. ChanOK(i)' /\ ChanStep(i)
    BY <2>1, <2>2, CountStep
  <2>4. s \in Chan
    BY <2>2, <2>3 DEF ChanOK
  <2> HIDE DEF s
  <2> QED BY <2>1, <2>3, <2>4, OneChan
<1>5. ASSUME NEW i \in Chans, NEW one \in BOOLEAN, NEW on \in BOOLEAN, NEW p \in Prescalers,
             WriteTCR(i, one, on, p)
      PROVE  /\ ch' \in [Chans -> Chan] /\ UNCHANGED clockVars
             /\ \A j \in Chans : ChanOK(j)' /\ ChanStep(j)
  <2> DEFINE c == [ch[i] EXCEPT !.owned = TRUE, !.unf = @ /\ one, !.unie = on, !.tpsc = p]
  <2> DEFINE s == IF p = ch[i].tpsc THEN c ELSE Rebased(c)
  <2>1. /\ WriteChan(i, s) /\ UNCHANGED clockVars /\ ch \in [Chans -> Chan]
        /\ skewed \ {i} \subseteq skewed' /\ (p = ch[i].tpsc => skewed' = skewed)
    BY <1>5 DEF WriteTCR, WriteChan, TimersInv
  <2>2. ch'[i] = s
    BY <2>1 DEF WriteChan
  <2>3. ChanOK(i)' /\ ChanStep(i)
    BY <2>1, <2>2, ControlStep
  <2>4. s \in Chan
    BY <2>2, <2>3 DEF ChanOK
  <2> HIDE DEF s
  <2> QED BY <2>1, <2>3, <2>4, OneChan
<1>6. Etmu \subseteq Chans /\ Tmu \subseteq Chans /\ 0 \in Prescalers
  BY TimerAssumption DEF Chans
<1> QED BY <1>1, <1>2, <1>3, <1>4, <1>5, <1>6 DEF TimerWrite, EtmuWrite, TmuWrite, CountWrite

---------------------------------------------------------------------------
(* Time passes. *)

LEMMA ElapseStep ==
  ASSUME TimersInv, NEW n \in Steps, NEW asleep \in BOOLEAN, Elapse(n, asleep), NEW i \in Chans
  PROVE  ch'[i] = Service(ch[i], cycles + n) /\ ChanOK(i)' /\ ChanStep(i)
<1> DEFINE c == ch[i]
<1> DEFINE s == ch'[i]
<1>1. ClockType /\ c \in Chan /\ Begun(c) /\ (i \in skewed \/ OnTime(c)) /\ Untouched(c) /\ (i \in asked => c.owned)
  BY DEF TimersInv, ChanOK
<1>2. /\ cycles' = cycles + n /\ ips' = ips /\ n \in Nat \ {0}
      /\ s = Service(c, cycles + n) /\ skewed' = skewed
      /\ (i \in asked') = (i \in asked \/ (IsDue(c, cycles + n) /\ c.unie))
  <2>1. cycles' = cycles + n /\ ips' = ips /\ n \in Nat \ {0}
    BY ClockAssumption DEF Elapse, Passes
  <2>2. ch' = [j \in Chans |-> Service(ch[j], cycles')] /\ skewed' = skewed
    BY DEF Elapse, TimersTick
  <2>3. asked' = asked \cup {j \in Chans : IsDue(ch[j], cycles') /\ ch[j].unie}
                \cup {j \in {"rtc"} : RtcDue(cycles')} \cup {j \in {"adc"} : AdcAsks(cycles', idle')}
    BY DEF Elapse, TimersAsk
  <2>4. i \notin {"rtc", "adc"}
    BY DevicesAssumption
  <2>5. i \in asked' <=> (i \in asked \/ (IsDue(c, cycles + n) /\ c.unie))
    BY <2>1, <2>3, <2>4
  <2> QED BY <2>1, <2>2, <2>5
<1> DEFINE due == IsDue(c, cycles + n)
<1> DEFINE N == DueAfter(c.nextUnf, (c.tcor + 1) * Div(c), cycles + n)
<1>3. Div(c) \in Nat \ {0} /\ (c.tcor + 1) * Div(c) \in Nat \ {0} /\ cycles \in Nat
  BY <1>1, DivIsPositive DEF ClockType
<1>4. N \in Nat
  <2> DEFINE P == (c.tcor + 1) * Div(c)
  <2> DEFINE m == cycles + n
  <2> DEFINE u == c.nextUnf
  <2>1. P \in Nat \ {0} /\ m \in Nat /\ u \in Nat
    BY <1>1, <1>2, <1>3 DEF Chan
  <2> HIDE DEF P, m, u
  <2>2. DueAfter(u, P, m) \in Nat
    BY ONLY <2>1, NextDue
  <2> QED BY <2>2 DEF u, P, m
<1>5. /\ s \in Chan /\ s.tcnt = c.tcnt /\ s.tcor = c.tcor /\ s.unie = c.unie /\ s.tpsc = c.tpsc
      /\ s.running = c.running /\ s.owned = c.owned /\ s.startCyc = c.startCyc /\ s.startCnt = c.startCnt
      /\ s.unf = (c.unf \/ due) /\ s.nextUnf = IF due THEN N ELSE c.nextUnf
  <2>1. CASE due
    <3>1. AfterUnderflows(c, cycles + n) = N
      BY <2>1 DEF IsDue, DueAfter, AfterUnderflows
    <3>2. s = [c EXCEPT !.unf = TRUE, !.nextUnf = N]
      BY <1>2, <2>1, <3>1 DEF Service
    <3> HIDE DEF N, s
    <3> QED BY <1>1, <1>4, <2>1, <3>2 DEF Chan
  <2>2. CASE ~due
    <3>1. s = c
      BY <1>2, <2>2 DEF Service
    <3> QED BY <1>1, <2>2, <3>1 DEF Chan
  <2> QED BY <2>1, <2>2
<1> HIDE DEF s, N
<1>6. ch'[i] = s
  BY DEF s
<1>7. Div(ch[i])' = Div(c)
  BY <1>2, <1>5, <1>6 DEF Div
<1>8. Untouched(ch[i])' /\ (i \in asked' => s.owned) /\ Begun(ch[i])'
  <2>1. c.running => s.startCyc <= cycles'
    BY <1>1, <1>2, <1>3, <1>5 DEF Begun, Chan
  <2> QED BY <1>1, <1>2, <1>5, <1>6, <2>1 DEF Untouched, Begun
<1>0. CASE i \in skewed
  <2>1. ChanOK(i)' /\ ChanStep(i)
    BY <1>0, <1>2, <1>5, <1>6, <1>8 DEF ChanOK, ChanStep
  <2> QED BY <1>2, <1>6, <2>1
<1>9. CASE ~c.running
  <2>1. ~due
    BY <1>9 DEF IsDue
  <2>2. Cur(ch[i])' = Cur(c) /\ Left(ch[i])' = Left(c)
    BY <1>5, <1>6, <1>9 DEF Cur, Left
  <2>3. OnTime(ch[i])'
    BY <1>5, <1>6, <1>9 DEF OnTime
  <2>4. s.unf = c.unf /\ (i \in asked') = (i \in asked)
    BY <1>1, <1>2, <1>5, <2>1 DEF Chan
  <2>5. Ticking(i)!Elapse(n)
    BY <1>5, <1>6, <1>7, <1>9, <2>2, <2>4 DEF Ticking!Elapse
  <2>6. ChanOK(i)'
    BY <1>5, <1>6, <1>8, <2>3 DEF ChanOK
  <2> QED BY <1>2, <1>6, <2>5, <2>6 DEF ChanStep, Ticking!Next
<1>10. CASE c.running /\ i \notin skewed
  <2>0. OnTime(c)
    BY <1>1, <1>10
  <2> DEFINE e == ClockState(c, n)
  <2>1. /\ Cur(ch[i])' = e.count /\ Left(ch[i])' = e.left /\ e.under = due
    <3>1. cycles' - s.startCyc = cycles - c.startCyc + n /\ ~(cycles' < s.startCyc)
      BY <1>1, <1>2, <1>3, <1>5, <1>10 DEF Begun, Chan
    <3>2. /\ Cur(ch[i])' = CountAfter(c.startCnt, c.tcor, Div(c), cycles - c.startCyc + n)
          /\ Left(ch[i])' = LeftAfter(Div(c), cycles - c.startCyc + n)
      BY <1>5, <1>6, <1>7, <1>10, <3>1 DEF Cur, Left, CountAfter, LeftAfter
    <3> QED BY <1>10, <3>2 DEF ClockState, IsDue
  <2>2. s.nextUnf = N
    BY <1>5, <1>10 DEF N, DueAfter, IsDue
  <2>3. N = cycles + n + e.count * Div(c) + e.left
    BY <1>1, <1>2, <1>10, <2>0, DueFollows DEF N
  <2>4. OnTime(ch[i])'
    <3>1. c.startCyc <= cycles'
      BY <1>1, <1>2, <1>3, <1>10 DEF Begun, Chan
    <3>2. s.nextUnf = cycles' + Cur(ch[i])' * Div(ch[i])' + Left(ch[i])'
      BY <1>2, <1>7, <2>1, <2>2, <2>3
    <3> QED BY <1>5, <1>6, <3>1, <3>2 DEF OnTime
  <2>5. Ticking(i)!Elapsed([count |-> Cur(c), left |-> Left(c), under |-> FALSE], n) = e
    <3>1. Counting([count |-> Cur(c), left |-> Left(c), under |-> FALSE], c.tcor, Div(c), n)[n] = e
      BY <1>1, <1>2, <1>10, <2>0, CountingIs
    <3> HIDE DEF e
    <3> QED BY <3>1 DEF Ticking!Elapsed, Counting, Clocked
  <2>6. Ticking(i)!Elapse(n)
    <3> HIDE DEF e
    <3> QED BY <1>2, <1>5, <1>6, <1>7, <1>10, <2>1, <2>5 DEF Ticking!Elapse
  <2>7. ChanOK(i)'
    BY <1>5, <1>6, <1>8, <2>4 DEF ChanOK
  <2> QED BY <1>2, <1>6, <2>6, <2>7 DEF ChanStep, Ticking!Next
<1> QED BY <1>0, <1>9, <1>10

LEMMA AcceptedChan ==
  ASSUME TimersInv, NEW k, Accepted(k), NEW i \in Chans
  PROVE  ChanOK(i)' /\ ChanStep(i)
<1>1. UNCHANGED <<cycles, ips, ch, skewed>> /\ asked' = asked \ {k} /\ k \in asked
  BY DEF Accepted, timerVars
<1>2. ch'[i] = ch[i] /\ ChanOK(i)
  BY <1>1 DEF TimersInv
<1>3. Cur(ch[i])' = Cur(ch[i]) /\ Left(ch[i])' = Left(ch[i]) /\ Div(ch[i])' = Div(ch[i])
  BY <1>1, <1>2, SameClock
<1>4. ChanOK(i)'
  BY <1>1, <1>2, SameClock DEF ChanOK
<1>5. CASE i = k
  <2>1. Ticking(i)!Accepted
    BY <1>1, <1>2, <1>3, <1>5 DEF Ticking!Accepted
  <2> QED BY <1>4, <2>1 DEF ChanStep, Ticking!Next
<1>6. CASE i # k
  <2>1. (i \in asked') = (i \in asked)
    BY <1>1, <1>6
  <2>2. Ticking(i)!vars' = Ticking(i)!vars
    BY <1>2, <1>3, <2>1 DEF Ticking!vars
  <2> QED BY <1>4, <2>2 DEF ChanStep
<1> QED BY <1>5, <1>6

\* The rate changes: a running channel is skewed, or has the clock it had.
LEMMA RateChan ==
  ASSUME TimersInv, NEW rate \in Rates, SetRate(rate), NEW i \in Chans
  PROVE  ChanOK(i)' /\ ChanStep(i)
<1>1. /\ cycles' = cycles /\ ips' = rate /\ ch' = ch /\ asked' = asked /\ ChanOK(i)
      /\ i \in skewed' <=> (i \in skewed \/ (ch[i].running /\ ClockOf(rate, ch[i].tpsc) # Div(ch[i])))
  BY DEF SetRate, TimersRate, TimersInv
<1>2. ch[i] \in Chan /\ Begun(ch[i])' /\ Untouched(ch[i])'
  BY <1>1 DEF ChanOK, Begun, Untouched
<1>3. Div(ch[i])' = ClockOf(rate, ch[i].tpsc) /\ ClockOf(rate, ch[i].tpsc) \in Divisors
  BY <1>1, <1>2 DEF Div, Divisors, Chan
<1>4. CASE i \in skewed'
  BY <1>1, <1>2, <1>4 DEF ChanOK, ChanStep
<1>5. CASE ~ch[i].running /\ i \notin skewed'
  <2>1. Cur(ch[i])' = Cur(ch[i]) /\ Left(ch[i])' = 0 /\ Left(ch[i]) = 0
    BY <1>1, <1>5 DEF Cur, Left
  <2>2. ChanOK(i)'
    BY <1>1, <1>2, <1>5 DEF ChanOK, OnTime
  <2>3. ch[i].unf \in BOOLEAN /\ ch[i].unie \in BOOLEAN
    BY <1>2 DEF Chan
  <2>4. Ticking(i)!Control(TRUE, ch[i].unie, ClockOf(rate, ch[i].tpsc))
    BY <1>1, <1>3, <1>5, <2>1, <2>3 DEF Ticking!Control, Ticking!Phase
  <2> QED BY <1>3, <2>2, <2>3, <2>4 DEF ChanStep, Ticking!Next
<1>6. CASE ch[i].running /\ i \notin skewed'
  <2>1. Div(ch[i])' = Div(ch[i]) /\ OnTime(ch[i])
    BY <1>1, <1>3, <1>6 DEF ChanOK
  <2>2. Cur(ch[i])' = Cur(ch[i]) /\ Left(ch[i])' = Left(ch[i])
    BY <1>1, <2>1 DEF Cur, Left
  <2>3. OnTime(ch[i])'
    BY <1>1, <2>1, <2>2 DEF OnTime
  <2>4. Ticking(i)!vars' = Ticking(i)!vars
    BY <1>1, <2>1, <2>2 DEF Ticking!vars
  <2> QED BY <1>1, <1>2, <2>3, <2>4 DEF ChanOK, ChanStep
<1> QED BY <1>4, <1>5, <1>6

\* A save-state, in a machine of this rate.
LEMMA ReopenChan ==
  ASSUME TimersInv, NEW rate \in Rates, Reopen(rate), NEW i \in Chans
  PROVE  ChanOK(i)' /\ ChanStep(i)
<1> DEFINE c == ch[i]
<1> DEFINE s == ch'[i]
<1> DEFINE d == ClockOf(rate, s.tpsc)
<1>1. ClockType /\ c \in Chan /\ Begun(c) /\ Untouched(c) /\ (i \in asked => c.owned)
  BY DEF TimersInv, ChanOK
<1>2. cycles' = 0 /\ ips' = rate /\ asked' = {} /\ s = Restored(c, rate)
  BY DEF Reopen, TimersRestored
<1>3. Cur(c) \in Nat
  BY <1>1, CurIsNat DEF Begun
<1>4. CASE ~Saved(c)
  <2>1. s = ResetChan /\ ~c.owned /\ ~c.running
    BY <1>2, <1>4 DEF Restored, Saved
  <2>2. s \in Chan
    BY <2>1, TimerAssumption DEF ResetChan, Chan
  <2>3. c.tcor = 0 /\ c.tcnt = 0 /\ c.tpsc = 0 /\ ~c.unie /\ i \notin asked /\ c.unie \in BOOLEAN
    BY <1>1, <2>1 DEF Untouched, Chan
  <2>4. ChanOK(i)'
    BY <1>2, <2>1, <2>2 DEF ChanOK, OnTime, Begun, Untouched, ResetChan
  <2>5. Cur(c)  = 0 /\ Left(c) = 0 /\ Cur(ch[i])' = 0 /\ Left(ch[i])' = 0
    BY <2>1, <2>3 DEF Cur, Left, ResetChan
  <2>6. Div(ch[i])' = ClockOf(rate, 0) /\ ClockOf(rate, 0) \in Divisors
    BY <1>2, <2>1, TimerAssumption DEF Div, Divisors, ResetChan
  <2>7. s.tcor = 0 /\ s.running = FALSE /\ s.unf = FALSE /\ s.unie = FALSE /\ c.running = FALSE /\ c.unie = FALSE
    BY <1>1, <2>1, <2>3 DEF ResetChan, Chan
  <2>8. (i \in asked') = (i \in asked)
    BY <1>2, <2>3
  <2> HIDE DEF s
  <2>9. ch'[i] = s
    BY DEF s
  <2>10. Ticking(i)!Control(FALSE, FALSE, ClockOf(rate, 0))
    BY <2>3, <2>5, <2>6, <2>7, <2>8, <2>9 DEF Ticking!Control, Ticking!Phase
  <2> QED BY <2>4, <2>6, <2>7, <2>9, <2>10 DEF ChanStep, Ticking!Next
<1>5. CASE Saved(c)
  <2> DEFINE k == Cur(c)
  <2> DEFINE u == IF c.running THEN (Cur(c) + 1) * ClockOf(rate, c.tpsc) ELSE 0
  <2>1. s = [c EXCEPT !.tcnt = k, !.startCyc = 0, !.startCnt = IF c.running THEN k ELSE 0, !.nextUnf = u]
    BY <1>2, <1>5 DEF Restored
  <2> DEFINE f == ClockOf(rate, c.tpsc)
  <2>2. f \in Nat \ {0} /\ f \in Divisors
    BY <1>1, TimerAssumption DEF Chan, Divisors
  <2>3. u = IF c.running THEN (k + 1) * f ELSE 0
    OBVIOUS
  <2> HIDE DEF k, u, f, s
  <2>4. k \in Nat /\ u \in Nat /\ (k + 1) * f = k * f + f
    <3>1. k \in Nat
      BY <1>3 DEF k
    <3>2. (k + 1) * f \in Nat /\ (k + 1) * f = k * f + f
      BY <2>2, <3>1
    <3> QED BY <2>3, <3>1, <3>2
  <2>5. /\ s \in Chan /\ s.tcnt = k /\ s.startCyc = 0 /\ s.nextUnf = u
        /\ s.startCnt = (IF c.running THEN k ELSE 0)
        /\ s.tcor = c.tcor /\ s.unf = c.unf /\ s.unie = c.unie /\ s.tpsc = c.tpsc
        /\ s.running = c.running /\ s.owned = c.owned
    BY <1>1, <2>1, <2>4 DEF Chan
  <2>6. ch'[i] = s
    BY DEF s
  <2>7. Div(ch[i])' = f
    BY <1>2, <2>5, <2>6 DEF Div, f
  <2>8. 0 - 0 = 0 /\ 0 \div f = 0 /\ 0 % f = 0
    BY <2>2, Quotient
  <2>9. Cur(ch[i])' = k
    BY <1>2, <2>2, <2>4, <2>5, <2>6, <2>7, <2>8 DEF Cur
  <2>10. Left(ch[i])' = IF c.running THEN f ELSE 0
    BY <1>2, <2>2, <2>5, <2>6, <2>7, <2>8 DEF Left
  <2>11. OnTime(ch[i])' /\ Begun(ch[i])'
    <3>1. s.running => s.startCyc <= cycles' /\ s.nextUnf = cycles' + Cur(ch[i])' * Div(ch[i])' + Left(ch[i])'
      <4> SUFFICES ASSUME c.running PROVE s.startCyc <= cycles' /\ u = 0 + k * f + f
        BY <1>2, <2>5, <2>7, <2>9, <2>10
      <4> DEFINE kf == k * f
      <4>1. u = kf + f /\ kf \in Nat
        BY <2>2, <2>3, <2>4
      <4> HIDE DEF kf
      <4>2. u = 0 + kf + f
        BY <2>2, <4>1
      <4> QED BY <1>2, <2>5, <4>2 DEF kf
    <3> QED BY <2>6, <3>1 DEF OnTime, Begun
  <2>12. Untouched(ch[i])'
    <3>1. ~c.owned => k = 0
      BY <1>1, UntouchedReadsZero DEF k
    <3> QED BY <1>1, <2>5, <2>6, <3>1 DEF Untouched
  <2>13. ChanOK(i)'
    BY <1>2, <2>5, <2>6, <2>11, <2>12 DEF ChanOK
  <2>14. (i \in asked') = FALSE
    BY <1>2
  <2>15. Ticking(i)!Reopened(f)
    BY <2>5, <2>6, <2>7, <2>9, <2>10, <2>14 DEF Ticking!Reopened, Ticking!Phase, k
  <2> QED BY <2>2, <2>5, <2>6, <2>13, <2>15 DEF ChanStep, Ticking!Next
<1> QED BY <1>4, <1>5

LEMMA TimersStep ==
  ASSUME TimersInv, [Next]_vars
  PROVE  TimersInv' /\ \A i \in Chans : ChanStep(i)
<1>1. ClockType'
  BY ClockStep DEF TimersInv
<1>2. ASSUME ch' \in [Chans -> Chan], using' = using,
             \A i \in Chans : ChanOK(i)' /\ ChanStep(i)
      PROVE  TimersInv' /\ \A i \in Chans : ChanStep(i)
  BY <1>1, <1>2 DEF TimersInv
<1>3. ASSUME UNCHANGED <<timerVars, clockVars, using>> PROVE TimersInv' /\ \A i \in Chans : ChanStep(i)
  BY <1>2, <1>3, OtherChan DEF TimersInv, timerVars
<1>4. ASSUME NEW n \in Steps, NEW asleep \in BOOLEAN, Elapse(n, asleep)
      PROVE  TimersInv' /\ \A i \in Chans : ChanStep(i)
  <2>1. ch' = [i \in Chans |-> Service(ch[i], cycles')] /\ using' = using
    BY <1>4 DEF Elapse, TimersTick
  <2>2. \A i \in Chans : ch'[i] = Service(ch[i], cycles + n) /\ ChanOK(i)' /\ ChanStep(i)
    BY <1>4, ElapseStep
  <2>3. ch' \in [Chans -> Chan]
    BY <2>1, <2>2 DEF ChanOK
  <2> QED BY <1>2, <2>1, <2>2, <2>3
<1>5. ASSUME NEW k, Accepted(k) PROVE TimersInv' /\ \A i \in Chans : ChanStep(i)
  <2>1. ch' = ch /\ using' = using
    BY <1>5 DEF Accepted, timerVars
  <2>2. \A i \in Chans : ChanOK(i)' /\ ChanStep(i)
    BY <1>5, AcceptedChan
  <2> QED BY <1>2, <2>1, <2>2 DEF TimersInv
<1>6. CASE Write
  <2>1. CASE using = "timers" /\ TimerWrite
    <3>1. ch' \in [Chans -> Chan] /\ \A i \in Chans : ChanOK(i)' /\ ChanStep(i)
      BY <2>1, TimerWriteStep
    <3>2. using' = using
      BY <1>6 DEF Write, Counted
    <3> QED BY <1>2, <2>1, <3>1, <3>2
  <2>2. CASE UNCHANGED timerVars /\ (RtcWrite \/ AdcWrite \/ UNCHANGED clockVars)
    <3>1. UNCHANGED clockVars
      BY <2>2 DEF RtcWrite, WriteRCR2, AdcWrite, ClearEnd, SoftStart, IdleStart
    <3>2. using' = using
      BY <1>6 DEF Write, Counted
    <3> QED BY <1>3, <2>2, <3>1, <3>2
  <2> QED BY <1>6, <2>1, <2>2 DEF Write
<1>7. CASE HostClock
  BY <1>3, <1>7 DEF HostClock, SetClock, Counted
<1>8. ASSUME NEW rate \in Rates, SetRate(rate) PROVE TimersInv' /\ \A i \in Chans : ChanStep(i)
  <2>1. ch' = ch /\ using' = using
    BY <1>8 DEF SetRate, TimersRate, Counted
  <2>2. \A i \in Chans : ChanOK(i)' /\ ChanStep(i)
    BY <1>8, RateChan
  <2> QED BY <1>2, <2>1, <2>2 DEF TimersInv
<1>9. ASSUME NEW rate \in Rates, Reopen(rate) PROVE TimersInv' /\ \A i \in Chans : ChanStep(i)
  <2>1. ch' = [i \in Chans |-> Restored(ch[i], rate)] /\ using' = using
    BY <1>9 DEF Reopen, TimersRestored, Counted
  <2>2. \A i \in Chans : ChanOK(i)' /\ ChanStep(i)
    BY <1>9, ReopenChan
  <2>3. ch' \in [Chans -> Chan]
    BY <2>1, <2>2 DEF ChanOK
  <2> QED BY <1>2, <2>1, <2>2, <2>3 DEF TimersInv
<1>10. CASE UNCHANGED vars
  BY <1>3, <1>10 DEF vars
<1> QED BY <1>4, <1>5, <1>6, <1>7, <1>8, <1>9, <1>10 DEF Next

LEMMA TimersInit ==
  ASSUME Init
  PROVE  TimersInv /\ \A i \in Chans : Ticking(i)!Init
<1>1. cycles = 0 /\ ips \in Rates /\ asked = {} /\ idle = 0 /\ ch = [i \in Chans |-> ResetChan]
  BY DEF Init, ClockInit, TimerInit
<1>2. ResetChan \in Chan
  BY TimerAssumption DEF ResetChan, Chan
<1>3. ASSUME NEW i \in Chans PROVE ch[i] = ResetChan /\ ~ch[i].running /\ ChanOK(i)
  BY <1>1, <1>2 DEF ChanOK, OnTime, Begun, Untouched, ResetChan
<1>4. TimersInv
  BY <1>1, <1>2, <1>3 DEF TimersInv, ClockType
<1>5. ASSUME NEW i \in Chans PROVE Ticking(i)!Init
  <2>1. Div(ch[i]) \in Divisors
    BY <1>1, <1>3, TimerAssumption DEF Div, Divisors, ResetChan
  <2> QED BY <1>1, <1>3, <2>1 DEF Ticking!Init, ResetChan, Cur, Left
<1> QED BY <1>4, <1>5

\* No timer is ever clocked, and each is at every moment where a counter clocked cycle by cycle
\* would be: its count, its flag and its interrupt request, for every rate, prescaler and reload,
\* whatever number of cycles passes at once, across writes, stops and save-states; but for a
\* channel whose rate the host changed under way until it is started over, and for the jump of the
\* count when the reload of a running channel is written after its first wrap or its prescaler
\* after its first cycle.
THEOREM TimersCount == Spec => ImplementsCounter
<1> DEFINE AllInit == \A i \in Chans : Ticking(i)!Init
<1> DEFINE AllStep == \A i \in Chans : \/ i \in skewed \cup skewed'
                                       \/ Ticking(i)!Next \/ Ticking(i)!vars' = Ticking(i)!vars
                                       \/ Reread(i) /\ Ticking(i)!Jump
<1>1. Init => TimersInv /\ AllInit
  BY TimersInit
<1>2. TimersInv /\ [Next]_vars => TimersInv' /\ AllStep
  <2>1. (\A i \in Chans : ChanStep(i)) <=> AllStep
    BY DEF ChanStep
  <2> HIDE DEF AllStep
  <2> QED BY <2>1, TimersStep
<1> HIDE DEF AllInit, AllStep
<1>3. Spec => AllInit /\ [][AllStep]_<<timerVars, clockVars>>
  BY <1>1, <1>2, PTL DEF Spec
<1> QED BY <1>3 DEF ImplementsCounter, AllInit, AllStep

---------------------------------------------------------------------------
(* The calendar. *)

LEMMA LeapCount ==
  ASSUME NEW y \in Int
  PROVE  LeapYears(y) = LeapYears(y - 1) + IF LeapYear(y) THEN 1 ELSE 0
BY DEF LeapYears, LeapYear

\* Years follow one another.
LEMMA NextYear ==
  ASSUME NEW y \in Int
  PROVE  /\ DaysToYear(y) \in Int /\ YearDays(y) \in {365, 366}
         /\ DaysToYear(y + 1) = DaysToYear(y) + YearDays(y)
<1>1. LeapYears(y) \in Int /\ LeapYears(y - 1) \in Int /\ LeapYears(2009) \in Int
  BY DEF LeapYears
<1>2. LeapYears(y) = LeapYears(y - 1) + IF LeapYear(y) THEN 1 ELSE 0
  BY LeapCount
<1>3. DaysToYear(y + 1) = 365 * (y - 2010) + 365 + LeapYears(y) - LeapYears(2009)
  <2>1. (y + 1) - 1 = y /\ 365 * ((y + 1) - 2010) = 365 * (y - 2010) + 365
    OBVIOUS
  <2> QED BY <2>1 DEF DaysToYear
<1> HIDE DEF LeapYears
<1> QED BY <1>1, <1>2, <1>3 DEF DaysToYear, YearDays

\* A number of years takes between 365 and 366 days each.
LEMMA YearsLater ==
  ASSUME NEW y \in Int
  PROVE  \A k \in Nat : /\ DaysToYear(y) + 365 * k <= DaysToYear(y + k)
                        /\ DaysToYear(y + k) <= DaysToYear(y) + 366 * k
<1> DEFINE Good == {k \in Nat : /\ DaysToYear(y) + 365 * k <= DaysToYear(y + k)
                                /\ DaysToYear(y + k) <= DaysToYear(y) + 366 * k}
<1>1. DaysToYear(y) \in Int
  BY NextYear
<1>2. 0 \in Good
  BY <1>1
<1>3. ASSUME NEW k \in Nat, k \in Good PROVE k + 1 \in Good
  <2> DEFINE z == y + k
  <2>1. z \in Int /\ y + (k + 1) = z + 1
    OBVIOUS
  <2> HIDE DEF z
  <2>2. DaysToYear(z) \in Int /\ YearDays(z) \in {365, 366} /\ DaysToYear(z + 1) = DaysToYear(z) + YearDays(z)
    BY <2>1, NextYear
  <2>3. DaysToYear(y) + 365 * k <= DaysToYear(z) /\ DaysToYear(z) <= DaysToYear(y) + 366 * k
    BY <1>3 DEF z
  <2> QED BY <1>1, <2>1, <2>2, <2>3
<1> HIDE DEF Good
<1>4. \A k \in Nat : k \in Good
  BY <1>2, <1>3, SetInduction
<1> QED BY <1>4 DEF Good

InYear(y, days) == DaysToYear(y) <= days /\ days < DaysToYear(y) + YearDays(y)
InMonth(y, m, rest) == DaysToMonth(y, m) <= rest /\ rest < DaysToMonth(y, m) + MonthDays(y)[m]

LEMMA YearExists ==
  ASSUME NEW days \in Nat
  PROVE  \E y \in Nat : y >= 2010 /\ InYear(y, days)
<1> DEFINE Good == {d \in Nat : \E y \in Nat : y >= 2010 /\ InYear(y, d)}
<1>1. 0 \in Good
  <2>1. DaysToYear(2010) = 0
    BY DEF DaysToYear, LeapYears
  <2>2. YearDays(2010) \in {365, 366}
    BY NextYear
  <2> QED BY <2>1, <2>2 DEF InYear
<1>2. ASSUME NEW d \in Nat, d \in Good PROVE d + 1 \in Good
  <2>1. PICK y \in Nat : y >= 2010 /\ InYear(y, d)
    BY <1>2
  <2>2. /\ DaysToYear(y) \in Int /\ YearDays(y) \in {365, 366} /\ YearDays(y + 1) \in {365, 366}
        /\ DaysToYear(y + 1) = DaysToYear(y) + YearDays(y)
    BY NextYear
  <2>3. CASE d + 1 < DaysToYear(y) + YearDays(y)
    BY <2>1, <2>2, <2>3 DEF InYear
  <2>4. CASE d + 1 >= DaysToYear(y) + YearDays(y)
    BY <2>1, <2>2, <2>4 DEF InYear
  <2> QED BY <2>2, <2>3, <2>4
<1> HIDE DEF Good
<1>3. days \in Good
  BY <1>1, <1>2, SetInduction
<1> QED BY <1>3 DEF Good

\* No day lies in two years.
LEMMA OneYear ==
  ASSUME NEW days \in Nat, NEW y \in Int, NEW z \in Int, InYear(y, days), InYear(z, days)
  PROVE  ~(y < z)
<1> SUFFICES ASSUME y < z PROVE FALSE
  OBVIOUS
<1> DEFINE k == z - y - 1
<1>1. k \in Nat /\ (y + 1) + k = z /\ y + 1 \in Int
  OBVIOUS
<1> HIDE DEF k
<1>2. DaysToYear(y + 1) + 365 * k <= DaysToYear(z)
  <2> DEFINE w == y + 1
  <2>1. w \in Int
    OBVIOUS
  <2> HIDE DEF w
  <2>2. DaysToYear(w) + 365 * k <= DaysToYear(w + k)
    BY <1>1, <2>1, YearsLater
  <2> QED BY <1>1, <2>2 DEF w
<1>3. DaysToYear(y) \in Int /\ DaysToYear(z) \in Int /\ YearDays(y) \in {365, 366} /\ YearDays(z) \in {365, 366}
      /\ DaysToYear(y + 1) = DaysToYear(y) + YearDays(y)
  BY NextYear
<1> QED BY <1>1, <1>2, <1>3 DEF InYear

LEMMA YearIs ==
  ASSUME NEW days \in Nat, NEW y \in Nat, y >= 2010, InYear(y, days)
  PROVE  YearOf(days) = y
<1> DEFINE S == (2010 + days \div 366)..(2010 + days \div 365)
<1>1. y \in S
  <2> DEFINE k == y - 2010
  <2>1. k \in Nat /\ 2010 + k = y
    OBVIOUS
  <2>2. DaysToYear(2010) = 0
    BY DEF DaysToYear, LeapYears
  <2>3. 365 * k <= DaysToYear(2010 + k) /\ DaysToYear(2010 + k) <= 366 * k
    <3> HIDE DEF k
    <3> QED BY <2>1, <2>2, YearsLater
  <2>4. DaysToYear(y) \in Int /\ YearDays(y) \in {365, 366}
    BY NextYear
  <2>5. 365 * k <= days /\ days < 366 * k + 366
    BY <2>1, <2>3, <2>4 DEF InYear
  <2>6. k <= days \div 365 /\ days \div 366 <= k
    <3> HIDE DEF k
    <3> QED BY <2>1, <2>5
  <2> QED BY <2>1, <2>6
<1>2. \A z \in S : InYear(z, days) => z = y
  <2> SUFFICES ASSUME NEW z \in S, InYear(z, days) PROVE z = y
    OBVIOUS
  <2>1. z \in Int
    OBVIOUS
  <2> QED BY <2>1, OneYear
<1>3. YearOf(days) = CHOOSE z \in S : InYear(z, days)
  BY DEF YearOf, InYear
<1> HIDE DEF S
<1> QED BY <1>1, <1>2, <1>3

\* The day of the year each month begins on, in a leap year or not.
Starts(l) == <<0, 31, 59 + l, 90 + l, 120 + l, 151 + l, 181 + l, 212 + l, 243 + l, 273 + l, 304 + l, 334 + l>>

LEMMA MonthLengths ==
  ASSUME NEW y
  PROVE  \E l \in {0, 1} :
           /\ YearDays(y) = 365 + l
           /\ MonthDays(y) = <<31, 28 + l, 31, 30, 31, 30, 31, 31, 30, 31, 30, 31>>
<1>1. CASE LeapYear(y)
  BY <1>1 DEF MonthDays, YearDays
<1>2. CASE ~LeapYear(y)
  BY <1>2 DEF MonthDays, YearDays
<1> QED BY <1>1, <1>2

LEMMA MonthStarts ==
  ASSUME NEW y, NEW l \in {0, 1},
         MonthDays(y) = <<31, 28 + l, 31, 30, 31, 30, 31, 31, 30, 31, 30, 31>>
  PROVE  \A m \in 1..12 : DaysToMonth(y, m) = Starts(l)[m]
<1> DEFINE D == MonthDays(y)
<1> DEFINE upto == CHOOSE u : u = [k \in 1..12 |-> IF k = 1 THEN 0 ELSE u[k - 1] + D[k - 1]]
<1> DEFINE f == [k \in 1..12 |-> Starts(l)[k]]
<1>1. f = [k \in 1..12 |-> IF k = 1 THEN 0 ELSE f[k - 1] + D[k - 1]]
  <2>1. ASSUME NEW k \in 1..12, k # 1 PROVE Starts(l)[k] = Starts(l)[k - 1] + D[k - 1]
    <3>1. k \in {2, 3, 4, 5, 6, 7, 8, 9, 10, 11, 12}
      BY <2>1
    <3> QED BY <3>1 DEF Starts
  <2>2. Starts(l)[1] = 0
    BY DEF Starts
  <2>3. \A k \in 1..12 : f[k] = IF k = 1 THEN 0 ELSE f[k - 1] + D[k - 1]
    <3> SUFFICES ASSUME NEW k \in 1..12 PROVE f[k] = IF k = 1 THEN 0 ELSE f[k - 1] + D[k - 1]
      OBVIOUS
    <3>1. CASE k = 1
      BY <2>2, <3>1
    <3>2. CASE k # 1
      <4>1. k - 1 \in 1..12
        BY <3>2
      <4> QED BY <2>1, <3>2, <4>1
    <3> QED BY <3>1, <3>2
  <2>4. f = [k \in 1..12 |-> f[k]]
    OBVIOUS
  <2> HIDE DEF f, D
  <2> QED BY <2>3, <2>4
<1> DEFINE u == upto
<1>2. u = [k \in 1..12 |-> IF k = 1 THEN 0 ELSE u[k - 1] + D[k - 1]]
  <2> HIDE DEF f, D
  <2> QED BY <1>1
<1>3. \A m \in 1..12 : DaysToMonth(y, m) = u[m]
  BY DEF DaysToMonth
<1> HIDE DEF u, upto, D
<1>4. u[1] = 0 /\ \A k \in 2..12 : u[k] = u[k - 1] + D[k - 1]
  BY <1>2
<1>5. u[2] = u[1] + D[1] /\ u[3] = u[2] + D[2] /\ u[4] = u[3] + D[3] /\ u[5] = u[4] + D[4]
      /\ u[6] = u[5] + D[5] /\ u[7] = u[6] + D[6] /\ u[8] = u[7] + D[7] /\ u[9] = u[8] + D[8]
      /\ u[10] = u[9] + D[9] /\ u[11] = u[10] + D[10] /\ u[12] = u[11] + D[11]
  BY <1>4
<1>6. D[1] = 31 /\ D[2] = 28 + l /\ D[3] = 31 /\ D[4] = 30 /\ D[5] = 31 /\ D[6] = 30 /\ D[7] = 31
      /\ D[8] = 31 /\ D[9] = 30 /\ D[10] = 31 /\ D[11] = 30
  BY DEF D
<1>7. /\ u[1] = 0 /\ u[2] = 31 /\ u[3] = 59 + l /\ u[4] = 90 + l /\ u[5] = 120 + l /\ u[6] = 151 + l
      /\ u[7] = 181 + l /\ u[8] = 212 + l /\ u[9] = 243 + l /\ u[10] = 273 + l /\ u[11] = 304 + l
      /\ u[12] = 334 + l
  BY <1>4, <1>5, <1>6
<1>8. ASSUME NEW m \in 1..12 PROVE u[m] = Starts(l)[m]
  <2>1. m \in {1, 2, 3, 4, 5, 6, 7, 8, 9, 10, 11, 12}
    OBVIOUS
  <2> QED BY <1>7, <2>1 DEF Starts
<1> QED BY <1>3, <1>8

\* Months follow one another and fill the year.
LEMMA NextMonth ==
  ASSUME NEW y
  PROVE  /\ DaysToMonth(y, 1) = 0 /\ YearDays(y) \in Nat
         /\ \A m \in 1..12 : DaysToMonth(y, m) \in Nat /\ MonthDays(y)[m] \in Nat \ {0}
         /\ \A m \in 1..11 : DaysToMonth(y, m + 1) = DaysToMonth(y, m) + MonthDays(y)[m]
         /\ DaysToMonth(y, 12) + MonthDays(y)[12] = YearDays(y)
<1>1. PICK l \in {0, 1} : /\ YearDays(y) = 365 + l
                          /\ MonthDays(y) = <<31, 28 + l, 31, 30, 31, 30, 31, 31, 30, 31, 30, 31>>
  BY MonthLengths
<1>2. \A m \in 1..12 : DaysToMonth(y, m) = Starts(l)[m]
  BY <1>1, MonthStarts
<1>3. ASSUME NEW m \in 1..12 PROVE Starts(l)[m] \in Nat /\ MonthDays(y)[m] \in Nat \ {0}
  <2>1. m \in {1, 2, 3, 4, 5, 6, 7, 8, 9, 10, 11, 12}
    OBVIOUS
  <2> QED BY <1>1, <2>1 DEF Starts
<1>4. ASSUME NEW m \in 1..11 PROVE Starts(l)[m + 1] = Starts(l)[m] + MonthDays(y)[m]
  <2>1. m \in {1, 2, 3, 4, 5, 6, 7, 8, 9, 10, 11}
    OBVIOUS
  <2> QED BY <1>1, <2>1 DEF Starts
<1>5. Starts(l)[1] = 0 /\ Starts(l)[12] + MonthDays(y)[12] = 365 + l
  BY <1>1 DEF Starts
<1>6. ASSUME NEW m \in 1..11 PROVE DaysToMonth(y, m + 1) = DaysToMonth(y, m) + MonthDays(y)[m]
  BY <1>2, <1>4
<1> QED BY <1>1, <1>2, <1>3, <1>5, <1>6

\* Later months begin after this one ends.
LEMMA LaterMonth ==
  ASSUME NEW y, NEW m \in 1..12, NEW n \in 1..12, m < n
  PROVE  DaysToMonth(y, m) + MonthDays(y)[m] <= DaysToMonth(y, n)
<1> DEFINE Good == {k \in Nat : m + 1 + k <= 12 => DaysToMonth(y, m) + MonthDays(y)[m] <= DaysToMonth(y, m + 1 + k)}
<1>1. 0 \in Good
  <2>1. m \in 1..11 /\ m + 1 + 0 = m + 1 /\ m + 1 \in 1..12
    OBVIOUS
  <2> QED BY <2>1, NextMonth
<1>2. ASSUME NEW k \in Nat, k \in Good PROVE k + 1 \in Good
  <2> SUFFICES ASSUME m + 1 + (k + 1) <= 12
               PROVE  DaysToMonth(y, m) + MonthDays(y)[m] <= DaysToMonth(y, m + 1 + (k + 1))
    OBVIOUS
  <2> DEFINE j == m + 1 + k
  <2>1. j \in 1..11 /\ j \in 1..12 /\ m + 1 + (k + 1) = j + 1 /\ j + 1 \in 1..12
    OBVIOUS
  <2>2. DaysToMonth(y, m) + MonthDays(y)[m] <= DaysToMonth(y, j)
    BY <1>2, <2>1
  <2> HIDE DEF j
  <2>3. /\ DaysToMonth(y, j + 1) = DaysToMonth(y, j) + MonthDays(y)[j]
        /\ DaysToMonth(y, j) \in Nat /\ MonthDays(y)[j] \in Nat
        /\ DaysToMonth(y, m) \in Nat /\ MonthDays(y)[m] \in Nat
    BY <2>1, NextMonth
  <2> QED BY <2>1, <2>2, <2>3
<1> HIDE DEF Good
<1> DEFINE i == n - m - 1
<1>3. i \in Nat /\ m + 1 + i = n
  OBVIOUS
<1> HIDE DEF i
<1>4. i \in Good
  BY <1>1, <1>2, <1>3, SetInduction
<1> QED BY <1>3, <1>4 DEF Good

LEMMA OneMonth ==
  ASSUME NEW y, NEW rest \in Nat, NEW m \in 1..12, NEW n \in 1..12, InMonth(y, m, rest), InMonth(y, n, rest)
  PROVE  ~(m < n)
<1> SUFFICES ASSUME m < n PROVE FALSE
  OBVIOUS
<1>1. DaysToMonth(y, m) + MonthDays(y)[m] <= DaysToMonth(y, n)
  BY LaterMonth
<1>2. DaysToMonth(y, m) \in Nat /\ MonthDays(y)[m] \in Nat /\ DaysToMonth(y, n) \in Nat
  BY NextMonth
<1> QED BY <1>1, <1>2 DEF InMonth

LEMMA MonthExists ==
  ASSUME NEW y, NEW rest \in Nat, rest < YearDays(y)
  PROVE  \E m \in 1..12 : InMonth(y, m, rest)
<1> SUFFICES ASSUME \A m \in 1..12 : ~InMonth(y, m, rest) PROVE FALSE
  OBVIOUS
<1> DEFINE Past == {k \in Nat : k + 1 \in 1..12 => DaysToMonth(y, k + 1) <= rest}
<1>1. 0 \in Past
  BY NextMonth
<1>2. ASSUME NEW k \in Nat, k \in Past PROVE k + 1 \in Past
  <2> SUFFICES ASSUME (k + 1) + 1 \in 1..12 PROVE DaysToMonth(y, (k + 1) + 1) <= rest
    OBVIOUS
  <2> DEFINE m == k + 1
  <2>1. m \in 1..11 /\ m \in 1..12
    OBVIOUS
  <2>2. DaysToMonth(y, m) <= rest /\ ~InMonth(y, m, rest)
    BY <1>2, <2>1
  <2> HIDE DEF m
  <2>3. /\ DaysToMonth(y, m + 1) = DaysToMonth(y, m) + MonthDays(y)[m]
        /\ DaysToMonth(y, m) \in Nat /\ MonthDays(y)[m] \in Nat
    BY <2>1, NextMonth
  <2>4. DaysToMonth(y, m + 1) <= rest
    BY <2>2, <2>3 DEF InMonth
  <2> QED BY <2>4 DEF m
<1> HIDE DEF Past
<1>3. 11 \in Past
  BY <1>1, <1>2, SetInduction
<1>4. DaysToMonth(y, 12) <= rest
  BY <1>3 DEF Past
<1>5. DaysToMonth(y, 12) \in Nat /\ MonthDays(y)[12] \in Nat /\ DaysToMonth(y, 12) + MonthDays(y)[12] = YearDays(y)
  BY NextMonth
<1>6. ~InMonth(y, 12, rest)
  OBVIOUS
<1> QED BY <1>4, <1>5, <1>6 DEF InMonth

LEMMA DateIs ==
  ASSUME NEW days \in Nat, NEW y \in Nat, y >= 2010, InYear(y, days),
         NEW m \in 1..12, InMonth(y, m, days - DaysToYear(y))
  PROVE  Date(days) = [year |-> y, month |-> m,
                       day |-> days - DaysToYear(y) - DaysToMonth(y, m) + 1, weekday |-> (days + 5) % 7]
<1> DEFINE rest == days - DaysToYear(y)
<1>1. YearOf(days) = y
  BY YearIs
<1>2. rest \in Nat
  <2>1. DaysToYear(y) \in Int
    BY NextYear
  <2> QED BY <2>1 DEF InYear
<1>3. MonthOf(y, rest) = m
  <2>1. \A n \in 1..12 : InMonth(y, n, rest) => n = m
    <3> SUFFICES ASSUME NEW n \in 1..12, InMonth(y, n, rest) PROVE n = m
      OBVIOUS
    <3> QED BY <1>2, OneMonth
  <2>2. MonthOf(y, rest) = CHOOSE n \in 1..12 : InMonth(y, n, rest)
    BY DEF MonthOf, InMonth
  <2> HIDE DEF rest
  <2>3. InMonth(y, m, rest)
    BY DEF rest
  <2> QED BY <2>1, <2>2, <2>3
<1> QED BY <1>1, <1>3 DEF Date

\* The day after, in the calendar's sense.
LEMMA NextDay ==
  ASSUME NEW days \in Nat
  PROVE  DayFollows(Date(days), Date(days + 1))
<1>1. PICK y \in Nat : y >= 2010 /\ InYear(y, days)
  BY YearExists
<1> DEFINE Y == DaysToYear(y)
<1> DEFINE rest == days - Y
<1>2. /\ Y \in Int /\ YearDays(y) \in {365, 366} /\ rest \in Nat /\ rest < YearDays(y)
      /\ DaysToYear(y + 1) = Y + YearDays(y) /\ YearDays(y + 1) \in {365, 366} /\ y + 1 \in Nat /\ y + 1 >= 2010
  <2>1. DaysToYear(y) \in Int /\ YearDays(y) \in {365, 366} /\ YearDays(y + 1) \in {365, 366}
        /\ DaysToYear(y + 1) = DaysToYear(y) + YearDays(y)
    BY NextYear
  <2> QED BY <1>1, <2>1 DEF InYear
<1>3. PICK m \in 1..12 : InMonth(y, m, rest)
  BY <1>2, MonthExists
<1> DEFINE M == DaysToMonth(y, m)
<1> DEFINE L == MonthDays(y)[m]
<1>4. M \in Nat /\ L \in Nat \ {0} /\ M <= rest /\ rest < M + L
  BY <1>3, NextMonth DEF InMonth
<1>5. Date(days) = [year |-> y, month |-> m, day |-> rest - M + 1, weekday |-> (days + 5) % 7]
  BY <1>1, <1>3, DateIs
<1>6. (days + 1 + 5) % 7 = (((days + 5) % 7) + 1) % 7
  OBVIOUS
<1>7. days + 1 \in Nat
  OBVIOUS
<1>8. M + L <= YearDays(y)
  <2>1. CASE m = 12
    BY <2>1, NextMonth
  <2>2. CASE m # 12
    <3>1. M + L <= DaysToMonth(y, 12)
      <4>1. m < 12 /\ 12 \in 1..12
        BY <2>2
      <4> QED BY <4>1, LaterMonth
    <3>2. /\ DaysToMonth(y, 12) \in Nat /\ MonthDays(y)[12] \in Nat
          /\ DaysToMonth(y, 12) + MonthDays(y)[12] = YearDays(y)
      BY NextMonth
    <3> HIDE DEF M, L
    <3> QED BY <1>2, <1>4, <3>1, <3>2
  <2> QED BY <2>1, <2>2
<1>9. CASE rest + 1 < M + L
  <2>1. InYear(y, days + 1) /\ InMonth(y, m, (days + 1) - DaysToYear(y))
    <3>1. (days + 1) - Y = rest + 1 /\ days + 1 < Y + YearDays(y) /\ Y <= days + 1
      <4> HIDE DEF Y, M, L
      <4> QED BY <1>2, <1>4, <1>8, <1>9
    <3>2. M <= rest + 1 /\ rest + 1 < M + L
      <4> HIDE DEF Y, M, L
      <4> QED BY <1>2, <1>4, <1>9
    <3>3. InYear(y, days + 1)
      BY <3>1 DEF InYear
    <3>4. InMonth(y, m, rest + 1)
      BY <3>2 DEF InMonth
    <3> QED BY <3>1, <3>3, <3>4
  <2>2. Date(days + 1) = [year |-> y, month |-> m, day |-> (days + 1) - Y - M + 1, weekday |-> (days + 1 + 5) % 7]
    BY <1>1, <1>7, <2>1, DateIs
  <2>3. rest - M + 1 < L /\ (days + 1) - Y - M + 1 = (rest - M + 1) + 1
    <3> HIDE DEF Y, M, L
    <3> QED BY <1>2, <1>4, <1>9
  <2> HIDE DEF Y, M
  <2> QED BY <1>5, <1>6, <2>2, <2>3 DEF DayFollows
<1>10. CASE rest + 1 = M + L /\ m # 12
  <2> DEFINE n == m + 1
  <2>1. n \in 1..12 /\ DaysToMonth(y, n) = M + L /\ MonthDays(y)[n] \in Nat \ {0} /\ m < 12
    <3>1. m \in 1..11 /\ m + 1 \in 1..12 /\ m < 12
      BY <1>10
    <3> QED BY <3>1, NextMonth
  <2> HIDE DEF n
  <2>2. (days + 1) - Y = rest + 1 /\ days + 1 < Y + YearDays(y) /\ Y <= days + 1
    <3>1. M + L < YearDays(y)
      <4>1. CASE n = 12
        <5>1. DaysToMonth(y, 12) + MonthDays(y)[12] = YearDays(y)
          BY NextMonth
        <5> HIDE DEF M, L
        <5> QED BY <1>2, <1>4, <2>1, <4>1, <5>1
      <4>2. CASE n # 12
        <5>1. DaysToMonth(y, n) + MonthDays(y)[n] <= DaysToMonth(y, 12)
          BY <2>1, <4>2, LaterMonth
        <5>2. /\ DaysToMonth(y, 12) \in Nat /\ MonthDays(y)[12] \in Nat
              /\ DaysToMonth(y, 12) + MonthDays(y)[12] = YearDays(y)
          BY NextMonth
        <5> HIDE DEF M, L
        <5> QED BY <1>2, <1>4, <2>1, <5>1, <5>2
      <4> QED BY <4>1, <4>2
    <3> HIDE DEF Y, M, L
    <3> QED BY <1>2, <1>4, <1>10, <3>1
  <2>3. InYear(y, days + 1) /\ InMonth(y, n, (days + 1) - DaysToYear(y))
    <3>1. InYear(y, days + 1)
      BY <2>2 DEF InYear
    <3>2. DaysToMonth(y, n) <= rest + 1 /\ rest + 1 < DaysToMonth(y, n) + MonthDays(y)[n]
      <4> HIDE DEF Y, M, L
      <4> QED BY <1>2, <1>4, <1>10, <2>1
    <3>3. InMonth(y, n, rest + 1)
      BY <3>2 DEF InMonth
    <3> QED BY <2>2, <3>1, <3>3
  <2>4. Date(days + 1) = [year |-> y, month |-> n, day |-> (days + 1) - Y - DaysToMonth(y, n) + 1,
                          weekday |-> (days + 1 + 5) % 7]
    BY <1>1, <1>7, <2>1, <2>3, DateIs
  <2>5. (days + 1) - Y - DaysToMonth(y, n) + 1 = 1 /\ ~(rest - M + 1 < L) /\ n = m + 1
    <3>1. n = m + 1
      BY DEF n
    <3> HIDE DEF Y, M, L
    <3> QED BY <1>2, <1>4, <1>10, <2>1, <2>2, <3>1
  <2> HIDE DEF Y, M
  <2> QED BY <1>5, <1>6, <2>1, <2>4, <2>5 DEF DayFollows
<1>11. CASE rest + 1 = M + L /\ m = 12
  <2>1. M + L = YearDays(y)
    BY <1>11, NextMonth
  <2>2. days + 1 = DaysToYear(y + 1) /\ (days + 1) - DaysToYear(y + 1) = 0
    <3> HIDE DEF M, L
    <3> QED BY <1>2, <1>4, <1>11, <2>1
  <2>3. DaysToMonth(y + 1, 1) = 0 /\ MonthDays(y + 1)[1] \in Nat \ {0} /\ 1 \in 1..12
    BY NextMonth
  <2>4. InYear(y + 1, days + 1) /\ InMonth(y + 1, 1, (days + 1) - DaysToYear(y + 1))
    BY <1>2, <2>2, <2>3 DEF InYear, InMonth
  <2>5. Date(days + 1) = [year |-> y + 1, month |-> 1,
                          day |-> (days + 1) - DaysToYear(y + 1) - DaysToMonth(y + 1, 1) + 1,
                          weekday |-> (days + 1 + 5) % 7]
    BY <1>2, <1>7, <2>3, <2>4, DateIs
  <2>6. /\ (days + 1) - DaysToYear(y + 1) - DaysToMonth(y + 1, 1) + 1 = 1
        /\ ~(rest - M + 1 < L)
    <3> HIDE DEF M, L
    <3> QED BY <1>2, <1>4, <1>11, <2>2, <2>3
  <2> HIDE DEF Y, M
  <2> QED BY <1>5, <1>6, <1>11, <2>5, <2>6 DEF DayFollows
<1>12. rest + 1 < M + L \/ rest + 1 = M + L
  <2> HIDE DEF M, L
  <2> QED BY <1>2, <1>4
<1> QED BY <1>9, <1>10, <1>11, <1>12

LEMMA NextMidnight ==
  ASSUME NEW d \in Nat \ {0}, NEW n \in Nat
  PROVE  n \div d \in Nat /\ (n + d) \div d = n \div d + 1
<1> DEFINE q == n \div d
<1> DEFINE r == n % d
<1>1. q \in Nat /\ r \in 0..(d - 1) /\ n = q * d + r
  OBVIOUS
<1> HIDE DEF q, r
<1>2. n + d = (q + 1) * d + r
  BY <1>1
<1>3. (n + d) \div d = q + 1
  BY <1>1, <1>2
<1> QED BY <1>1, <1>3 DEF q

\* Each midnight of the emulated calendar brings the day after, month ends, leap years and
\* weekdays included, for every number of seconds the clock can hold.
THEOREM CalendarFollows == Spec => DatesFollow
<1> DEFINE CalendarType == ClockType /\ epochSec \in Int /\ wall \in Int
<1>1. ASSUME Init PROVE CalendarType
  BY <1>1, RtcAssumption DEF Init, ClockInit, RtcInit, ClockType
<1>2. ASSUME CalendarType, [Next]_vars PROVE CalendarType'
  <2>1. ClockType'
    BY <1>2, ClockStep
  <2>2. Unit \div ips \in Int /\ cycles \div ips \in Int /\ wall \div Unit \in Int /\ Wide \in Nat \ {0}
    BY <1>2, ClockAssumption, RtcAssumption DEF ClockType
  <2>3. epochSec' \in Int
    <3>1. UNCHANGED epochSec \/ epochSec' = 0 \/ SetClock
      BY <1>2
      DEF Next, Elapse, RtcTick, Accepted, Write, RtcWrite, WriteRCR2, HostClock, SetRate, RtcRate,
          Reopen, RtcRestored, rtcVars, vars
    <3> QED BY <1>2, <2>2, <3>1 DEF SetClock
  <2>4. wall' \in Int
    <3>1. UNCHANGED wall \/ wall' = wall + (cycles' - cycles) * (Unit \div ips)
      BY <1>2
      DEF Next, Elapse, RtcTick, Accepted, Write, RtcWrite, WriteRCR2, HostClock, SetClock, SetRate, RtcRate,
          Reopen, RtcRestored, rtcVars, vars
    <3> DEFINE w == (cycles' - cycles) * (Unit \div ips)
    <3>2. w \in Int
      <4>1. cycles' - cycles \in Int
        BY <1>2, <2>1 DEF ClockType
      <4> QED BY <2>2, <4>1
    <3> HIDE DEF w
    <3>3. wall' = wall \/ wall' = wall + w
      BY <3>1 DEF w
    <3> QED BY <1>2, <3>2, <3>3
  <2> QED BY <2>1, <2>3, <2>4
<1>3. ASSUME CalendarType, Seconds' = Seconds + DaySeconds
      PROVE  DayFollows(Today, Today')
  <2> DEFINE n == Seconds
  <2>1. n \in Nat /\ DaySeconds \in Nat \ {0}
    <3>1. cycles \div ips \in Int /\ epochSec \in Int /\ Wide \in Nat \ {0}
      BY <1>3, ClockAssumption, RtcAssumption DEF ClockType
    <3>2. epochSec + cycles \div ips \in Int
      BY <3>1
    <3> QED BY <3>1, <3>2, RtcAssumption DEF Seconds
  <2>2. Today = Date(n \div DaySeconds)
    BY DEF Today
  <2>3. Today' = Date((n + DaySeconds) \div DaySeconds)
    <3>1. Today' = Date(Seconds' \div DaySeconds)
      BY DEF Today
    <3> QED BY <1>3, <3>1
  <2> HIDE DEF n
  <2> DEFINE d == n \div DaySeconds
  <2>4. d \in Nat /\ (n + DaySeconds) \div DaySeconds = d + 1
    BY <2>1, NextMidnight
  <2> HIDE DEF d
  <2>5. DayFollows(Date(d), Date(d + 1))
    BY <2>4, NextDay
  <2> QED BY <2>2, <2>3, <2>4, <2>5 DEF d
<1> DEFINE Follows == Seconds' = Seconds + DaySeconds =>
                        \A d \in {Today}, e \in {Today'} : DayFollows(d, e)
<1>4. CalendarType => Follows
  BY <1>3
<1> HIDE DEF CalendarType, Follows
<1>5. Spec => [][Follows]_<<rtcVars, clockVars>>
  BY <1>1, <1>2, <1>4, PTL DEF Spec
<1> QED BY <1>5 DEF DatesFollow, Follows
=============================================================================
