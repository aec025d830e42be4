------------------------------- MODULE Clock -------------------------------
(***************************************************************************)
(* What the devices of emu_go share: the CPU's clock, the number of        *)
(* instructions the host says it runs in a second, and the interrupt       *)
(* requests the CPU has not accepted (cpu.pending; the gate is Intc's).    *)
(***************************************************************************)
EXTENDS Integers

CONSTANTS
  Rates,       \* values of instrPerSec
  Steps,       \* cycles between two polls: one, or more after a native blit or a jump
  MaxCycles    \* bound: the clock stops here

ASSUME ClockAssumption ==
  /\ Rates \subseteq Nat \ {0} /\ Rates # {}
  /\ Steps \subseteq Nat \ {0} /\ MaxCycles \in Nat

VARIABLES
  cycles, idle,   \* cpu.cycles, cpu.idle
  ips,            \* MMIOBus.instrPerSec
  asked           \* sources with a request in cpu.pending

clockVars == <<cycles, idle, ips, asked>>

ClockInit == cycles = 0 /\ idle = 0 /\ ips \in Rates /\ asked = {}

\* n cycles pass, awake or halted; the devices' ticks see the new time.
Passes(n, asleep) ==
  /\ cycles + n <= MaxCycles
  /\ cycles' = cycles + n /\ idle' = idle + (IF asleep THEN n ELSE 0)
  /\ UNCHANGED ips
=============================================================================
