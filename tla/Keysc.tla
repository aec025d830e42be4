------------------------------- MODULE Keysc -------------------------------
(***************************************************************************)
(* The SH7305 key-scan unit, emu_go/keysc.go: the key matrix, the control  *)
(* and interrupt registers, the periodic scan, and the OS interrupt        *)
(* routine that reads it (external: the ROM; the file's header comment     *)
(* says what it reads and writes).                                         *)
(*                                                                         *)
(* A key is a member of Keys instead of a bit of held[6]; the bits of the  *)
(* flag and interrupt-enable bytes that the unit itself sets are the       *)
(* members "scan" (0x02) and "detect" (0x08); the mode register is named   *)
(* by its values 0, 0x400, 0x200, 0x800.  Time is cpu.cycles.              *)
(***************************************************************************)
EXTENDS Integers, FiniteSets

CONSTANTS
  Keys,        \* keys of the matrix
  OnKey,       \* AC/ON, the only key enabled while the calculator is off
  Periods,     \* scan periods a host sets (scanPeriod)
  Configs,     \* <<on, mode, enabled>> settings the OS writes
  MaxCycles,   \* bound: the clock stops here
  Quiet,       \* bound: no host or OS configuration step in the last Quiet cycles
  MaxMoves,    \* bound: number of host and OS configuration steps
  IsrLatency   \* the OS finishes serving a KEYSC interrupt within this many cycles

ASSUME KeyscAssumption ==
  /\ OnKey \in Keys
  /\ Periods \subseteq Nat \ {0}
  /\ Periods # {}
  /\ {MaxCycles, Quiet, MaxMoves, IsrLatency} \subseteq Nat
  /\ Configs \subseteq BOOLEAN \X {"off", "detect", "normal", "sync"} \X SUBSET Keys

VARIABLES
  cycles,      \* cpu.cycles
  held,        \* the live matrix
  enabled,     \* keys inside the column and row enables (+0x1A, +0x1C)
  on, mode,    \* ctrl bit 15, mode
  ie, flags,   \* interrupt enables and status flags (+0x14)
  scanPeriod, scanNext, scanLeft, wasHeld,
  irq,         \* INTEVT 0xBE0 is in cpu.pending
  irqAt,       \* when the oldest request not served yet was raised (0: none)
  isr,         \* the OS interrupt routine: <<>>, or the <<data, flags>> it has read
  osSaw,       \* state of the OS driver: "idle", "held", "released"
  moves        \* host and configuration steps taken

unitVars == <<enabled, on, mode, ie, flags, scanLeft, wasHeld, irq, irqAt, isr, osSaw>>
keyscVars == <<unitVars, cycles, held, scanPeriod, scanNext, moves>>

Flag == {"scan", "detect"}

KeyscTypeOK ==
  /\ cycles \in Nat /\ scanNext \in Nat /\ irqAt \in Nat /\ moves \in Nat
  /\ held \subseteq Keys /\ enabled \subseteq Keys
  /\ on \in BOOLEAN /\ wasHeld \in BOOLEAN /\ irq \in BOOLEAN
  /\ mode \in {"off", "detect", "normal", "sync"}
  /\ ie \subseteq Flag /\ flags \subseteq Flag
  /\ scanPeriod \in Periods
  /\ scanLeft \in 0..2
  /\ isr \in {<<>>} \cup (SUBSET Keys) \X (SUBSET Flag)
  /\ osSaw \in {"idle", "held", "released"}

\* The unit after the OS booted: newKeysc, then the configuration resumeDefaults names.
KeyscInit ==
  /\ cycles = 0 /\ scanNext = 0 /\ irqAt = 0 /\ moves = 0
  /\ held = {} /\ enabled = Keys
  /\ on = TRUE /\ mode = "normal"
  /\ ie = {"detect"} /\ flags = {}
  /\ scanPeriod \in Periods
  /\ scanLeft = 0 /\ wasHeld = FALSE
  /\ irq = FALSE /\ isr = <<>> /\ osSaw = "idle"

---------------------------------------------------------------------------
(* press and release, on the part of the unit they touch. *)

Matrix(h, next) == [held |-> h, scanNext |-> next]

\* A press into an empty matrix makes the next tick scan at once.
Press(m, k) == Matrix(m.held \cup {k}, IF m.held = {} THEN 0 ELSE m.scanNext)

Release(m, k) == Matrix(m.held \ {k}, m.scanNext)

---------------------------------------------------------------------------
(* tick.  A definition whose name ends in a defect (LeftAtScanOne) is a faulty variant of the   *)
(* one it precedes; PROJECT.json lists what each of them breaks.                            *)

\* data() and anyEnabled(): what the unit can see.
Sensed == held \cap enabled

ScanDue == cycles >= scanNext
NextScan == IF ScanDue THEN cycles + scanPeriod ELSE scanNext

Active == on /\ mode # "off"
LeftAtScanOne == IF Sensed # {} THEN 1 ELSE scanLeft
LeftAtScan == IF Sensed # {} THEN 2 ELSE scanLeft
Detects == Sensed # {} /\ ~wasHeld
Reports ==
  \/ mode = "sync"
  \/ mode = "normal" /\ (Sensed # {} \/ LeftAtScan > 0)

\* The body of keyscUnit.tick past its first return; scanNext is the caller's.
Scan ==
  IF Active
  THEN /\ flags' = flags \cup {f \in Flag : \/ f = "detect" /\ Detects
                                            \/ f = "scan" /\ Reports}
       /\ scanLeft' = IF Reports /\ Sensed = {} /\ LeftAtScan > 0
                      THEN LeftAtScan - 1 ELSE LeftAtScan
       /\ wasHeld' = (Sensed # {})
       /\ irq' = (irq \/ flags' \cap ie # {})
       /\ irqAt' = IF irq' /\ ~irq /\ isr = <<>> THEN cycles ELSE irqAt
  ELSE /\ wasHeld' = (Sensed # {})
       /\ UNCHANGED <<flags, scanLeft, irq, irqAt>>

UnitTick ==
  /\ IF ScanDue THEN Scan ELSE UNCHANGED <<flags, scanLeft, wasHeld, irq, irqAt>>
  /\ UNCHANGED <<enabled, on, mode, ie, isr, osSaw>>

\* The OS keeps up: the clock may not run past the deadline of a request it has not served.
IsrInTime(d) == irq \/ isr # <<>> => cycles + d <= irqAt + IsrLatency

---------------------------------------------------------------------------
(* The OS side (external). *)

\* Interrupt acceptance, then the routine's reads of the data words and of the flags.
IsrRead ==
  /\ irq /\ isr = <<>>
  /\ irq' = FALSE
  /\ isr' = <<Sensed, flags>>
  /\ UNCHANGED <<cycles, held, enabled, on, mode, ie, flags, scanPeriod, scanNext,
                 scanLeft, wasHeld, irqAt, osSaw, moves>>

\* The routine's driver step on what it read: "just released" lasts for one empty read.
NextOsSaw(data) ==
  CASE data # {} -> "held"
    [] data = {} /\ osSaw = "held" -> "released"
    [] OTHER -> "idle"

\* write of +0x14: enables for the next interrupt, and the flags it read acknowledged.
IsrAck ==
  /\ isr # <<>>
  /\ osSaw' = NextOsSaw(isr[1])
  /\ ie' = IF osSaw' = "idle" THEN {"detect"} ELSE {"scan"}
  /\ flags' = flags \ isr[2]
  /\ isr' = <<>>
  /\ irqAt' = IF irq THEN cycles ELSE 0
  /\ UNCHANGED <<cycles, held, enabled, on, mode, irq, scanPeriod, scanNext, scanLeft,
                 wasHeld, moves>>

MayMove == moves < MaxMoves /\ cycles + Quiet <= MaxCycles

\* The OS writes ctrl, mode and the enables (turning the calculator off, a sync scan).
Configure(c) ==
  /\ MayMove /\ moves' = moves + 1
  /\ <<on, mode, enabled>> # c
  /\ on' = c[1] /\ mode' = c[2] /\ enabled' = c[3]
  /\ UNCHANGED <<cycles, held, ie, flags, scanPeriod, scanNext, scanLeft, wasHeld, irq,
                 irqAt, isr, osSaw>>

=============================================================================
