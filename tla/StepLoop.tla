------------------------------ MODULE StepLoop ------------------------------
(***************************************************************************)
(* Emulator.stepLocked and nextDue (emu_go/emulator.go) with cpu.run       *)
(* (cpu.go): the loop polls the devices only at or after `due`, after an   *)
(* MMIO write and at the start of a Step; in between the CPU runs alone,   *)
(* and a halted CPU with nothing pending jumps to the next event.  Shown   *)
(* to implement PollLoop's LateSpec, and not its Spec.  The variables and  *)
(* the effects of an instruction are PollLoop's; an action is one          *)
(* instruction or one jump.                                                *)
(*                                                                         *)
(* Not modelled: the debugger's variant of the loop, exactTick, which      *)
(* polls every turn, and the drop of requests of disabled sources.         *)
(***************************************************************************)
EXTENDS Integers

CONSTANTS Timers, PeriodOf, Delays, Masked, IdleTime, KeyDelays, Blits, MaxCycles, Never,
          StepSizes    \* n of Step(n)

VARIABLES cycles, idle, asleep, pend, next, conv, tapAt, keyAt,
          end,         \* where the running Step ends; none runs when cycles >= end
          due,         \* the loop need not poll before this cycle
          dirty        \* MMIO was written since the last poll, or a Step begins

Poll == INSTANCE PollLoop

ASSUME StepAssumption == Poll!PollAssumption /\ StepSizes \subseteq Nat \ {0}

pollVars == <<cycles, idle, asleep, pend, next, conv, tapAt, keyAt>>
vars == <<pollVars, end, due, dirty>>

TypeOK == Poll!TypeOK /\ end \in Nat /\ due \in Nat /\ dirty \in BOOLEAN

Init == Poll!Init /\ end = 0 /\ due = 0 /\ dirty = TRUE

Looping == cycles < end

---------------------------------------------------------------------------
(* nextDue *)

\* The tap driver runs after the step that reaches its time, so the turn before it polls.
TapTimes == {IF t > 0 THEN t - 1 ELSE 0 : t \in {tapAt} \ {Never}}

\* Cycles of sleep advance cycles and idle together.
ConvTimes == {IF c > idle THEN cycles + (c - idle) ELSE cycles :
               c \in {c \in {conv} \ {Never} : asleep}}

DueTimes == {Never} \cup {next[t] : t \in Timers} \cup ConvTimes \cup {keyAt} \cup TapTimes

IsEarliest(d, times) == d \in times /\ \A t \in times : d <= t

---------------------------------------------------------------------------
(* The slow path: a turn that polls. *)

PollsIfWritten == Looping /\ dirty
Polls == Looping /\ (dirty \/ cycles >= due)

\* drive, then flushReleases.
KeyCalls(nx) ==
  /\ IF tapAt <= cycles' THEN tapAt' \in Poll!KeyTimes(cycles') ELSE UNCHANGED tapAt
  /\ IF keyAt <= cycles' THEN keyAt' \in Poll!KeyTimes(cycles') ELSE UNCHANGED keyAt
  /\ \/ next' = nx
     \/ /\ tapAt <= cycles' \/ keyAt <= cycles'
        /\ "keysc" \in Timers /\ next' = [nx EXCEPT !["keysc"] = 0]

ConvTicked == IF Poll!ConvDone THEN Never ELSE conv

\* dirty is cleared before the tick, so a write of the instruction stays noted.
WriteNoted == TRUE
PollingTurn ==
  /\ Polls
  /\ \E pd \in Poll!PendTicked :
       \/ /\ Poll!Execute(pd) \/ Poll!Halted(pd)
          /\ conv' = ConvTicked
          /\ dirty' = FALSE
          /\ KeyCalls(Poll!NextTicked)
       \/ /\ Poll!Program(pd)
          /\ dirty' = WriteNoted
          /\ \E w \in Poll!Programs(Poll!NextTicked, ConvTicked) : conv' = w[2] /\ KeyCalls(w[1])
  /\ IsEarliest(due', DueTimes')
  /\ UNCHANGED end

---------------------------------------------------------------------------
(* The fast path. *)

\* One instruction of cpu.run.
RunOn ==
  /\ Looping /\ ~Polls /\ ~asleep
  /\ \/ Poll!Execute(pend) /\ UNCHANGED <<next, conv, dirty>>
     \/ /\ Poll!Program(pend)
        /\ \E w \in Poll!Programs(next, conv) : next' = w[1] /\ conv' = w[2]
        /\ dirty' = WriteNoted
  /\ UNCHANGED <<tapAt, keyAt, end, due>>

DueAsleepStale(d) == d = due
\* Entering sleep can bring a conversion forward, so due is computed again.
DueAsleep(d) == IsEarliest(d, DueTimes)

Earlier(a, b) == IF a <= b THEN a ELSE b

\* Nothing can wake the CPU before the next event.
JumpTo(stop) ==
  /\ cycles' = stop /\ idle' = idle + (stop - cycles)
  /\ UNCHANGED <<asleep, pend>>

Sleep ==
  /\ Looping /\ ~Polls /\ asleep
  /\ DueAsleep(due')
  /\ IF pend = {} THEN JumpTo(Earlier(due', end)) ELSE Poll!Halted(pend)
  /\ UNCHANGED <<next, conv, tapAt, keyAt, end, dirty>>

---------------------------------------------------------------------------
(* The host, between Steps. *)

Step(n) ==
  /\ ~Looping /\ cycles + n <= MaxCycles
  /\ end' = cycles + n /\ dirty' = TRUE
  /\ UNCHANGED <<pollVars, due>>

HostCall == ~Looping /\ Poll!HostCall /\ UNCHANGED <<end, due, dirty>>

Loop == PollingTurn \/ RunOn \/ Sleep

Next == Loop \/ HostCall \/ \E n \in StepSizes : Step(n)

Spec == Init /\ [][Next]_vars
FairSpec == Spec /\ WF_vars(Loop)

---------------------------------------------------------------------------
(* Properties. *)

\* What the comment above stepLocked's loop says: the loop is polling before every instruction,
\* exactly.  Whatever the size of the host's Steps, every device, tap, deferred key call and
\* interrupt acts at the instruction it would act at if each turn polled.  Refuted (loop_exact).
ImplementsPolling == Poll!Spec

\* What the loop does implement: polling before every instruction, but for two things that come
\* late.  A tap or a deferred key call that an instruction between two polls reaches waits for
\* the next turn, and never for another; and a conversion of the idle routine that the cycle of
\* sleep which woke the CPU completes waits until some poll.  No device, count or interrupt of
\* a device is late, whatever the size of the host's Steps.
ImplementsLatePolling == Poll!LateSpec

\* A Step returns.  (A jump over no time would repeat for ever.)
StepReturns == Looping ~> ~Looping

\* The invariant behind ImplementsLatePolling: while the loop need not poll, nothing is due.
DueIsEarliest ==
  Looping /\ ~dirty =>
    /\ \A t \in Timers : due <= next[t]
    /\ due <= keyAt
    /\ tapAt # Never /\ cycles < due => due < tapAt

=============================================================================
