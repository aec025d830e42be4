-------------------------------- MODULE Adc --------------------------------
(***************************************************************************)
(* The battery converter (periphIRQ in emu_go/mmio.go): a conversion       *)
(* started before `sleep` completes after the CPU has slept, one started   *)
(* by software after a time, and until the OS starts its first one the     *)
(* unit ticks periodically.                                                *)
(***************************************************************************)
EXTENDS Clock

CONSTANTS
  SleepTime(_), SoftTime(_),   \* instrPerSec / adcSleepDiv, / adcSoftDiv
  TimerPeriod                  \* of the legacy tick

ASSUME AdcAssumption ==
  /\ TimerPeriod \in Nat \ {0}
  /\ \A r \in Rates : SleepTime(r) \in Nat \ {0} /\ SoftTime(r) \in Nat \ {0}

VARIABLES
  adcMode,             \* the OS has started a conversion
  armed, doneAt,       \* an idle-routine conversion, and the value of idle that ends it
  swArmed, swDoneAt,   \* a software conversion, and the cycle that ends it
  ended,               \* the end flags, bits 14 and 15 of +0x88
  timerNext,           \* next legacy tick
  owed                 \* history: conversions started and not yet reported

adcVars == <<adcMode, armed, doneAt, swArmed, swDoneAt, ended, timerNext, owed>>

AdcInit ==
  /\ adcMode = FALSE /\ armed = FALSE /\ swArmed = FALSE /\ ended = FALSE /\ doneAt = 0 /\ swDoneAt = 0
  /\ timerNext = 0 /\ owed = {}

SoftDoneLate(now) == adcMode /\ swArmed /\ swDoneAt < now
SoftDone(now) == adcMode /\ swArmed /\ swDoneAt <= now
IdleDone(slept) == adcMode /\ armed /\ doneAt <= slept
LegacyDue(now) == ~adcMode /\ timerNext <= now

Completing(now, slept) ==
  {s \in {"soft", "idle"} : IF s = "soft" THEN SoftDone(now) ELSE IdleDone(slept)}

AdcAsks(now, slept) == Completing(now, slept) # {} \/ LegacyDue(now)

AdcTick(now, slept) ==
  /\ swArmed' = (swArmed /\ ~SoftDone(now))
  /\ armed' = (armed /\ ~IdleDone(slept))
  /\ ended' = (ended \/ AdcAsks(now, slept))
  /\ timerNext' = IF LegacyDue(now) THEN now + TimerPeriod ELSE timerNext
  /\ owed' = owed \ Completing(now, slept)
  /\ UNCHANGED <<adcMode, doneAt, swDoneAt>>

\* +0x88 with the start bit: the flags take the written value.
SoftStart(flags) ==
  /\ adcMode' = TRUE /\ swArmed' = TRUE
  /\ swDoneAt' = cycles + SoftTime(ips)
  /\ ended' = flags
  /\ owed' = owed \cup {"soft"}
  /\ UNCHANGED <<armed, doneAt, timerNext, clockVars>>

\* +0x88 by the interrupt routine.
ClearEnd == ended' = FALSE /\ UNCHANGED <<adcMode, armed, doneAt, swArmed, swDoneAt, timerNext, owed, clockVars>>

\* +0x8C: bit 15 starts the idle conversion, or takes it back.
IdleStart(on) ==
  /\ armed' = on
  /\ adcMode' = (adcMode \/ on)
  /\ doneAt' = IF on THEN idle + SleepTime(ips) ELSE doneAt
  /\ owed' = IF on THEN owed \cup {"idle"} ELSE owed \ {"idle"}
  /\ UNCHANGED <<swArmed, swDoneAt, ended, timerNext, clockVars>>

Remaining(at, now) == IF at > now THEN at - now ELSE 0

\* A save-state keeps what is left of each conversion; the clock it resumes on starts at 0.
AdcRestored ==
  /\ doneAt' = IF armed THEN Remaining(doneAt, idle) ELSE 0
  /\ swDoneAt' = IF swArmed THEN Remaining(swDoneAt, cycles) ELSE 0
  /\ timerNext' = TimerPeriod
  /\ UNCHANGED <<adcMode, armed, swArmed, ended, owed>>

AdcWrite == ClearEnd \/ \E flag \in BOOLEAN : SoftStart(flag) \/ IdleStart(flag)

---------------------------------------------------------------------------
(* Properties. *)

\* Every conversion the OS started is still under way with no more than its time to go, or has
\* set the end flags: the battery monitor, which waits for them, is answered.
ConversionsReported ==
  /\ "soft" \in owed => swArmed /\ cycles < swDoneAt /\ \E r \in Rates : swDoneAt <= cycles + SoftTime(r)
  /\ "idle" \in owed => armed /\ idle < doneAt /\ \E r \in Rates : doneAt <= idle + SleepTime(r)
=============================================================================
