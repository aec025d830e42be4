------------------------------ MODULE PollLoop ------------------------------
(***************************************************************************)
(* What Emulator.Step promises (emu_go/emulator.go, the comment above      *)
(* stepLocked's loop): the devices behave as if they were polled before    *)
(* every instruction, and the tap driver and the deferred key calls after  *)
(* it, however the host cuts time into Steps.                              *)
(*                                                                         *)
(* A device that acts at a scheduled cycle is a member of Timers with the  *)
(* time of its next event, Never when it has none.  The battery converter  *)
(* of the idle routine is the one device whose deadline counts cycles of   *)
(* sleep.  What a CPU instruction does is any of the effects that matter   *)
(* to the schedule.                                                        *)
(*                                                                         *)
(* Spec is the promise.  LateSpec is the same but for two allowances, the  *)
(* operators that take `late`: a key call may act one turn late, and a     *)
(* conversion completed by the cycle that woke the CPU may wait.           *)
(***************************************************************************)
EXTENDS Integers

CONSTANTS
  Timers,      \* devices, of "keysc", "tick", "rtc", "count", "conv"
  PeriodOf,    \* their periods
  Delays,      \* how far ahead the program may schedule a device
  Masked,      \* devices whose request the INTC masks: it does not wake the CPU
  IdleTime,    \* cycles of sleep an idle-routine conversion takes
  KeyDelays,   \* how far ahead a tap or a deferred key call may be due
  Blits,       \* cycles a native blit may take
  MaxCycles,   \* bound: the clock stops here
  Never        \* no event is scheduled (math.MaxUint64)

\* What the module that composes these devices assumes of them.
PollAssumption ==
  /\ Timers \subseteq {"keysc", "tick", "rtc", "count", "conv"}
  /\ PeriodOf \in [Timers -> Nat \ {0}]
  /\ Delays \subseteq Nat \ {0} /\ KeyDelays \subseteq Nat \ {0} /\ Blits \subseteq Nat \ {0}
  /\ Masked \subseteq Timers \cup {"idleconv"}
  /\ IdleTime \in Nat \ {0}
  /\ MaxCycles \in Nat /\ Never \in Nat /\ MaxCycles < Never

VARIABLES
  cycles, idle,   \* cpu.cycles, cpu.idle
  asleep,         \* cpu.sleeping
  pend,           \* sources with a pending request
  next,           \* time of each device's next event
  conv,           \* value of idle at which the idle-routine conversion completes
  tapAt,          \* when the tap driver acts next
  keyAt           \* when the next deferred release or queued press is due

devVars == <<asleep, pend, next, conv, tapAt, keyAt>>
vars == <<cycles, idle, devVars>>

Requesters == Timers \cup {"idleconv"}

TypeOK ==
  /\ cycles \in Nat /\ idle \in Nat
  /\ asleep \in BOOLEAN
  /\ pend \subseteq Requesters
  /\ next \in [Timers -> Nat]
  /\ conv \in Nat /\ tapAt \in Nat /\ keyAt \in Nat

Init ==
  /\ cycles = 0 /\ idle = 0 /\ asleep = FALSE /\ pend = {}
  /\ next = [t \in Timers |-> IF t \in {"keysc", "tick"} THEN 0 ELSE Never]
  /\ conv = Never /\ tapAt = Never /\ keyAt = Never

---------------------------------------------------------------------------
(* mmio.tick at the present cycle. *)

Due(t) == next[t] <= cycles
ConvDone == conv # Never /\ conv <= idle

\* The event after one that is due.  A counter catches up; the RTC adds one period.
Reload(t) ==
  CASE t = "conv" -> Never
    [] t = "rtc" -> next[t] + PeriodOf[t]
    [] t = "count" -> next[t] + ((cycles - next[t]) \div PeriodOf[t] + 1) * PeriodOf[t]
    [] t \in {"keysc", "tick"} -> cycles + PeriodOf[t]

NextTicked == [t \in Timers |-> IF Due(t) THEN Reload(t) ELSE next[t]]

\* A conversion completes in the tick that finds it done.  When late, one that is done by the
\* cycle that woke the CPU may wait, at most until the CPU sleeps again with nothing pending.
ConvTicked(late) ==
  {IF ConvDone THEN Never ELSE conv} \cup {c \in {conv} : late /\ ~(asleep /\ pend = {})}

\* A device that acts need not request an interrupt (no key held, its enable bit clear, the
\* INTC gate closed).
Acting == {t \in Timers : Due(t)} \cup {s \in {"idleconv"} : ConvDone}
PendTicked == {pend \cup acting : acting \in SUBSET Acting}

---------------------------------------------------------------------------
(* cpu.step with the requests pd pending, and the devices at nx and cv. *)

Advance(d) == cycles + d <= MaxCycles /\ cycles' = cycles + d

\* The instruction may be the first of an interrupt handler.
Accepting(pd) == {pd} \cup {pd \ {s} : s \in pd \ Masked}

\* An instruction that writes no MMIO register, a `sleep`, or the native blitter.
Execute(pd) ==
  /\ ~asleep /\ UNCHANGED idle
  /\ pend' \in Accepting(pd)
  /\ \/ Advance(1) /\ asleep' \in BOOLEAN
     \/ \E d \in Blits : Advance(d) /\ UNCHANGED asleep

\* Halted: any request that is not masked wakes the CPU.
Halted(pd) ==
  /\ asleep /\ Advance(1) /\ idle' = idle + 1
  /\ asleep' = (pd \ Masked = {})
  /\ pend' = pd

\* An instruction that programs or stops a device, or starts or stops the idle conversion: what
\* it leaves of the schedule.
Reprogrammed(nx) ==
  UNION {{[nx EXCEPT ![t] = v] : v \in {cycles + d : d \in Delays} \cup {Never}} :
           t \in Timers \ {"keysc"}}
Programs(nx, cv) == (Reprogrammed(nx) \X {cv}) \cup ({nx} \X {idle + IdleTime, Never})

Program(pd) == ~asleep /\ Advance(1) /\ pend' \in Accepting(pd) /\ UNCHANGED <<idle, asleep>>

---------------------------------------------------------------------------
(* After the step: the tap driver and flushReleases.  Either may press a key into the empty    *)
(* matrix, which makes the scan due at once.                                                   *)

KeyTimes(now) == {now + d : d \in KeyDelays} \cup {Never}

\* A key call whose time is t acts in the turn that reaches t; when late, that turn may leave it
\* to the next one.
Acts(late, t, new) ==
  \/ t <= cycles' /\ new \in KeyTimes(cycles')
  \/ (IF late THEN t > cycles ELSE t > cycles') /\ new = t

AfterStep(late, nx) ==
  /\ tapAt' \in KeyTimes(cycles') \cup {tapAt} /\ Acts(late, tapAt, tapAt')
  /\ keyAt' \in KeyTimes(cycles') \cup {keyAt} /\ Acts(late, keyAt, keyAt')
  /\ \/ next' = nx
     \/ /\ tapAt' # tapAt \/ keyAt' # keyAt
        /\ "keysc" \in Timers /\ next' = [nx EXCEPT !["keysc"] = 0]

\* One turn: tick, one CPU step, the key calls.
Turn(late) ==
  \E pd \in PendTicked, cv \in ConvTicked(late) :
    \/ /\ Execute(pd) \/ Halted(pd)
       /\ conv' = cv
       /\ AfterStep(late, NextTicked)
    \/ /\ Program(pd)
       /\ \E w \in Programs(NextTicked, cv) : conv' = w[2] /\ AfterStep(late, w[1])

\* n turns of a halted CPU with nothing pending, none of which finds anything to do.
Doze(n) ==
  /\ asleep /\ pend = {}
  /\ Advance(n) /\ idle' = idle + n
  /\ \A t \in Timers : next[t] >= cycles + n
  /\ conv # Never => conv >= idle + n
  /\ tapAt > cycles + n /\ keyAt >= cycles + n
  /\ UNCHANGED devVars

\* The host queues a tap, or a key call that must wait, or presses a key at once.
HostCall ==
  /\ \/ tapAt = Never /\ tapAt' \in KeyTimes(cycles) \cup {0} /\ UNCHANGED <<keyAt, next>>
     \/ keyAt = Never /\ keyAt' \in KeyTimes(cycles) /\ UNCHANGED <<tapAt, next>>
     \/ /\ "keysc" \in Timers /\ next' = [next EXCEPT !["keysc"] = 0]
        /\ UNCHANGED <<tapAt, keyAt>>
  /\ UNCHANGED <<cycles, idle, asleep, pend, conv>>

Next(late) == Turn(late) \/ HostCall \/ \E n \in 1..MaxCycles : Doze(n)

Spec == Init /\ [][Next(FALSE)]_vars
LateSpec == Init /\ [][Next(TRUE)]_vars
=============================================================================
