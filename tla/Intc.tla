-------------------------------- MODULE Intc --------------------------------
(***************************************************************************)
(* The path of an interrupt: a device's request through the INTC gate      *)
(* (emu_go/intc.go), the requests pending at the CPU, their gate at        *)
(* acceptance, acceptance with and without CPUOPM.INTMU, and the wake from *)
(* sleep (cpu.go).                                                         *)
(*                                                                         *)
(* The programs are external.  There are two worlds, the OS and an add-in  *)
(* kernel (gint); each gives a priority only to its own sources, and a     *)
(* world switch, with interrupts blocked, saves the INTC, register by      *)
(* register brings it to the state the other world left, and sets INTMU    *)
(* to what that world uses.  A handler may unblock interrupts, as gint's   *)
(* callbacks do; it blocks them again before it returns.                   *)
(***************************************************************************)
EXTENDS Integers, Sequences

CONSTANTS
  Sources,     \* interrupt sources, by INTEVT code
  Fields,      \* priority fields of IPRA..IPRL
  FieldOf,     \* the field of each source (the DMAC channels share one)
  LevelOf,     \* fixed level of an OS source, 0 for a source that takes its priority field
  Priorities,  \* nonzero priorities the programs use
  Worlds, Own, \* the worlds, and the sources each gives a priority
  FirstWorld,  \* the one that runs first
  MultiLevel,  \* the worlds that set CPUOPM.INTMU
  Masks,       \* values of SR.IMASK a thread sets
  MaxOpen      \* bound: handlers open at once

Levels == 0..15

ASSUME IntcAssumption ==
  /\ Sources \subseteq Nat
  /\ FieldOf \in [Sources -> Fields]
  /\ LevelOf \in [Sources -> Levels]
  /\ Priorities \subseteq Levels \ {0}
  /\ Own \in [Worlds -> SUBSET Sources]
  /\ FirstWorld \in Worlds /\ MultiLevel \subseteq Worlds
  /\ Masks \subseteq Levels
  /\ MaxOpen \in Nat \ {0}

VARIABLES
  ipr, imr,              \* intcUnit: priority of each field, masked sources
  pending,               \* cpu.pending: level of each source's request, 0 without one
  bl, imask, sleeping,   \* SR.BL, SR.IMASK, cpu.sleeping
  intmu,                 \* CPUOPM.INTMU
  open,                  \* the handlers entered and not yet left, with the SR each saved
  world, going,          \* the running world, and the one it switches to (itself otherwise)
  saved                  \* the INTC as each world left it

intcVars == <<ipr, imr>>
cpuVars == <<bl, imask, sleeping, open>>
worldVars == <<intmu, world, going, saved>>
allVars == <<intcVars, pending, cpuVars, worldVars>>

IntcState == [ipr : [Fields -> Levels], imr : SUBSET Sources]
Handler == [src : Sources, level : Levels, imask : Levels, multi : BOOLEAN]

IntcTypeOK ==
  /\ ipr \in [Fields -> Levels] /\ imr \subseteq Sources
  /\ pending \in [Sources -> Levels]
  /\ bl \in BOOLEAN /\ imask \in Levels /\ sleeping \in BOOLEAN
  /\ intmu \in BOOLEAN
  /\ open \in Seq(Handler)
  /\ world \in Worlds /\ going \in Worlds
  /\ saved \in [Worlds -> IntcState]

\* Nothing enabled, interrupts blocked.
IntcInit ==
  /\ ipr = [f \in Fields |-> 0] /\ imr = {}
  /\ pending = [s \in Sources |-> 0]
  /\ bl = TRUE /\ imask = 15 /\ sleeping = FALSE /\ open = <<>>
  /\ intmu = (FirstWorld \in MultiLevel)
  /\ world = FirstWorld /\ going = FirstWorld
  /\ saved = [w \in Worlds |-> [ipr |-> [f \in Fields |-> 0], imr |-> {}]]

---------------------------------------------------------------------------
(* The gate. *)

Priority(s) == ipr[FieldOf[s]]
Enabled(s) == Priority(s) # 0 /\ s \notin imr

RequestLevel(s) == IF LevelOf[s] # 0 THEN LevelOf[s] ELSE Priority(s)

\* MMIOBus.raise and raiseIRQ: a request that does not pass the gate is lost; a second one of a
\* source is the first.
Raise(s) ==
  /\ Priority(s) # 0
  /\ pending' = IF Enabled(s) /\ pending[s] = 0 THEN [pending EXCEPT ![s] = RequestLevel(s)]
                ELSE pending
  /\ UNCHANGED <<intcVars, cpuVars, worldVars>>

GatedAsRaised == pending
GatedMaskedToo == [s \in Sources |-> IF Enabled(s) THEN pending[s] ELSE 0]
\* gatePending drops the requests of sources whose priority is now 0.
Gated == [s \in Sources |-> IF Priority(s) = 0 THEN 0 ELSE pending[s]]

\* It offers the CPU the one of the highest level, then the highest code, that is not masked.
Offered == {s \in Sources : Gated[s] # 0 /\ s \notin imr}
IsTop(s) ==
  /\ s \in Offered
  /\ \A t \in Offered : Gated[t] < Gated[s] \/ (Gated[t] = Gated[s] /\ t <= s)

\* acceptInterrupt takes the request of s.
Accepts(s) == ~bl /\ IsTop(s) /\ Gated[s] > imask

---------------------------------------------------------------------------
(* The CPU.  Interrupts are accepted before an instruction. *)

\* SR.IMASK during a handler entered at this level.
HandlerMaskKept(level) == imask
HandlerMask(level) == IF intmu THEN level ELSE imask

\* Acceptance; the handler's first instruction saves a register.
Accept(s) ==
  /\ ~sleeping /\ Accepts(s)
  /\ pending' = [Gated EXCEPT ![s] = 0]
  /\ open' = Append(open, [src |-> s, level |-> Gated[s], imask |-> imask, multi |-> intmu])
  /\ bl' = TRUE /\ imask' = HandlerMask(Gated[s])
  /\ UNCHANGED <<intcVars, sleeping, worldVars>>

\* What the attempt to accept leaves when it accepts nothing.
Instruction ==
  /\ ~sleeping /\ \A s \in Sources : ~Accepts(s)
  /\ pending' = IF bl THEN pending ELSE Gated

Unblock ==
  /\ Instruction
  /\ going = world /\ Len(open) < MaxOpen
  /\ bl' = FALSE
  /\ UNCHANGED <<intcVars, imask, sleeping, open, worldVars>>

Block ==
  /\ Instruction
  /\ bl' = TRUE
  /\ UNCHANGED <<intcVars, imask, sleeping, open, worldVars>>

\* `rte`: SR as it was at the acceptance, when BL was clear.
Return ==
  /\ Instruction
  /\ bl /\ open # <<>>
  /\ imask' = open[Len(open)].imask /\ bl' = FALSE
  /\ open' = SubSeq(open, 1, Len(open) - 1)
  /\ UNCHANGED <<intcVars, sleeping, worldVars>>

\* `sleep`, also with BL set, as the OS does.
GoToSleep ==
  /\ Instruction
  /\ going = world /\ sleeping' = TRUE
  /\ UNCHANGED <<intcVars, bl, imask, open, worldVars>>

WakesIfAccepts == \E s \in Sources : Accepts(s)
\* A request that is not masked wakes the CPU, whatever SR says.
Wakes == Offered # {}

\* A cycle of sleep.
SleepOn ==
  /\ sleeping
  /\ pending' = Gated
  /\ sleeping' = ~Wakes
  /\ UNCHANGED <<intcVars, bl, imask, open, worldVars>>

---------------------------------------------------------------------------
(* The programs. *)

\* A thread keeps out interrupts up to a level.
SetIMask(m) ==
  /\ Instruction
  /\ open = <<>> /\ imask' = m
  /\ UNCHANGED <<intcVars, bl, sleeping, open, worldVars>>

\* intcUnit.write, of IPRA..IPRL: a field of the world's own sources.
WriteIpr(f, p) ==
  /\ Instruction
  /\ going = world /\ {s \in Sources : FieldOf[s] = f} \subseteq Own[world]
  /\ ipr' = [ipr EXCEPT ![f] = p]
  /\ UNCHANGED <<imr, cpuVars, worldVars>>

\* ... of IMR0..IMR12, which sets mask bits, and of the registers that clear them.
WriteImr(s) ==
  /\ Instruction
  /\ going = world /\ s \in Own[world]
  /\ imr' \in {imr \cup {s}, imr \ {s}}
  /\ UNCHANGED <<ipr, cpuVars, worldVars>>

BeginSwitch(w) ==
  /\ Instruction
  /\ bl /\ open = <<>> /\ going = world /\ w # world
  /\ going' = w
  /\ saved' = [saved EXCEPT ![world] = [ipr |-> ipr, imr |-> imr]]
  /\ UNCHANGED <<intcVars, cpuVars, intmu, world>>

\* One register on the way to the other world's state.
SwitchIpr(f) ==
  /\ Instruction
  /\ going # world /\ ipr[f] # saved[going].ipr[f]
  /\ ipr' = [ipr EXCEPT ![f] = saved[going].ipr[f]]
  /\ UNCHANGED <<imr, cpuVars, worldVars>>

SwitchImr ==
  /\ Instruction
  /\ going # world /\ imr' = saved[going].imr
  /\ UNCHANGED <<ipr, cpuVars, worldVars>>

EndSwitch ==
  /\ Instruction
  /\ going # world /\ ipr = saved[going].ipr /\ imr = saved[going].imr
  /\ world' = going /\ intmu' = (going \in MultiLevel)
  /\ UNCHANGED <<intcVars, cpuVars, going, saved>>

---------------------------------------------------------------------------
Device == \E s \in Sources : Raise(s)

Program ==
  \/ Unblock \/ Block \/ Return \/ GoToSleep
  \/ \E m \in Masks : SetIMask(m)
  \/ \E f \in Fields, p \in Priorities \cup {0} : WriteIpr(f, p)
  \/ \E s \in Sources : WriteImr(s)
  \/ \E w \in Worlds : BeginSwitch(w)
  \/ (\E f \in Fields : SwitchIpr(f)) \/ SwitchImr \/ EndSwitch

IntcNext == Device \/ (\E s \in Sources : Accept(s)) \/ SleepOn \/ Program

IntcSpec == IntcInit /\ [][IntcNext]_allVars

\* Time passes for a halted CPU.
IntcFairSpec == IntcSpec /\ WF_allVars(SleepOn)

---------------------------------------------------------------------------
(* Properties. *)

\* A world's handlers are only ever entered for its own sources: a request raised before a world
\* switch (intc.go: gint's key-scan tick) does not reach the other world.
WorldIsolation == \A i \in DOMAIN open : open[i].src \in Own[world]

\* With INTMU, a handler that unblocks interrupts is only interrupted by a higher level, so a
\* timer faster than its callback cannot nest until the stack runs over.
NestingByLevel ==
  \A i, j \in DOMAIN open : i < j /\ open[i].multi => open[i].level < open[j].level

\* A request goes away by being accepted, or because its source was disabled; a mask keeps it.
RequestKept ==
  [][\A s \in Sources : pending[s] # 0 /\ pending'[s] = 0 =>
       \/ Priority(s) = 0
       \/ Len(open') > Len(open) /\ open'[Len(open')].src = s]_allVars

\* A request the gate lets through wakes a halted CPU, though BL or IMASK keep it from being
\* accepted: the OS sleeps with BL set.
RequestWakes == sleeping /\ Offered # {} ~> ~sleeping
=============================================================================
