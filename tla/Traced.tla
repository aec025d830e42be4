------------------------------- MODULE Traced -------------------------------
(***************************************************************************)
(* What the debugger sees of the CPU (emu_go/cpu.go): where it is, its     *)
(* calls, the handlers it is in and the memory accesses of each            *)
(* instruction.  Cpu.tla has the instructions themselves; here an          *)
(* instruction is its control flow and its accesses, and a delayed branch  *)
(* is one instruction with its slot, as the core runs them.                *)
(*                                                                         *)
(* A CPU is a record: pc; frames, the return addresses of the calls it is  *)
(* in (PR and the stack); saved, the SPC and SSR.BL of the handlers it is  *)
(* in, innermost last, with SSR.RB; bl (SR.BL, or an IMASK that lets       *)
(* nothing in) and rb (SR.RB, the bank R0-R7 name); pending, whether a     *)
(* request waits; sleeping; resident, whether the TLB has the page that    *)
(* "paged" accesses are on; exchanged, whether the two banks have each     *)
(* other's values, which no instruction does.                              *)
(***************************************************************************)
EXTENDS Integers, Sequences

CONSTANTS
  Code,       \* the instruction at each address: [op, to, acc]
  IrqEntry,   \* VBR+0x600
  ExcEntry,   \* VBR+0x100 and VBR+0x400
  HlePC,      \* the function that can run natively
  OsReturn,   \* where a host call returns to: caught, never fetched
  Nowhere,    \* no address
  MaxFrames   \* bound: calls a conditional branch still lets a program nest

Ops == {"plain", "sleep", "fill", "flush", "jmp", "bt", "bts", "call", "rts", "rte", "enter", "trapa"}
Access == [va : Nat, kind : {"read", "write"}, paged : BOOLEAN]

Cpu ==
  [pc : DOMAIN Code, frames : Seq(DOMAIN Code), bl : BOOLEAN, rb : BOOLEAN,
   saved : Seq([pc : DOMAIN Code, bl : BOOLEAN, rb : BOOLEAN]), pending : BOOLEAN,
   sleeping : BOOLEAN, resident : BOOLEAN, exchanged : BOOLEAN]

ASSUME TracedAssumption ==
  /\ DOMAIN Code \subseteq Nat /\ MaxFrames \in Nat
  /\ \A a \in DOMAIN Code : Code[a].op \in Ops /\ Code[a].acc \in Seq(Access)
  /\ {IrqEntry, ExcEntry} \subseteq DOMAIN Code
  /\ {Nowhere, OsReturn} \cap DOMAIN Code = {} /\ Nowhere \notin {OsReturn, HlePC}

Top(s) == s[Len(s)]
Popped(s) == SubSeq(s, 1, Len(s) - 1)

Enter(c, spc, entry) ==
  [c EXCEPT !.saved = Append(c.saved, [pc |-> spc, bl |-> c.bl, rb |-> c.rb]),
            !.bl = TRUE, !.rb = TRUE, !.pc = entry]

Acceptable(c) == c.pending /\ ~c.bl
acceptInterrupt(c) ==
  IF Acceptable(c) THEN [Enter(c, c.pc, IrqEntry) EXCEPT !.pending = FALSE] ELSE c

\* Asleep: a request wakes it, even one that SR.BL keeps out.
Slept(c) == [c EXCEPT !.sleeping = ~c.pending]

---------------------------------------------------------------------------
(* One instruction. *)

Return(c) == [c EXCEPT !.pc = Top(c.frames), !.frames = Popped(c.frames)]
Leave(c) ==
  [c EXCEPT !.pc = Top(c.saved).pc, !.bl = Top(c.saved).bl, !.rb = Top(c.saved).rb,
            !.saved = Popped(c.saved)]

\* The states an instruction that takes no exception can leave.
Flows(c) ==
  LET i == Code[c.pc]
      on == [c EXCEPT !.pc = c.pc + 1]
      taken == [c EXCEPT !.pc = i.to]
  IN CASE i.op = "plain" -> {on}
       [] i.op = "sleep" -> {[on EXCEPT !.sleeping = TRUE]}
       [] i.op = "fill" -> {[on EXCEPT !.resident = TRUE]}
       [] i.op = "flush" -> {[on EXCEPT !.resident = FALSE]}
       [] i.op = "jmp" -> {taken}
       [] i.op \in {"bt", "bts"} -> IF Len(c.frames) >= MaxFrames THEN {taken} ELSE {on, taken}
       [] i.op = "call" -> {[taken EXCEPT !.frames = Append(c.frames, c.pc + 1)]}
       [] i.op = "rts" -> {Return(c)}
       [] i.op = "rte" -> {Leave(c)}
       \* the OS's way into its interrupt functions: an rte with PR at a return stub, to the
       \* bank of the code interrupted, with interrupts masked
       [] i.op = "enter" -> {[taken EXCEPT !.frames = Append(c.frames, c.pc + 1),
                                           !.rb = Top(c.saved).rb]}

\* The first access the TLB has no entry for: the instruction is rolled back there.
FirstMiss(c) ==
  LET acc == Code[c.pc].acc
      missing == {k \in DOMAIN acc : acc[k].paged /\ ~c.resident}
  IN IF missing = {} THEN 0 ELSE CHOOSE k \in missing : \A j \in missing : k <= j

\* What running the instruction at c.pc can do: the CPU after it, the exception it took, the
\* accesses it made, and whether it returned natively.
execute(c) ==
  LET acc == Code[c.pc].acc
      k == FirstMiss(c)
  IN IF c.pc \notin DOMAIN Code THEN {}   \* nothing is fetched outside the program
     ELSE IF k # 0
     THEN {[c |-> Enter(c, c.pc, ExcEntry), exc |-> "miss", acc |-> SubSeq(acc, 1, k - 1),
            ret |-> FALSE]}
     ELSE IF Code[c.pc].op = "trapa"
     THEN {[c |-> Enter(c, c.pc + 1, ExcEntry), exc |-> "trapa", acc |-> acc, ret |-> FALSE]}
     ELSE {[c |-> n, exc |-> "none", acc |-> acc, ret |-> FALSE] : n \in Flows(c)}

\* The native blitter answers for the function at HlePC, or declines.
Native(c) == {[c |-> Return(c), exc |-> "none", acc |-> <<>>, ret |-> TRUE] : p \in {HlePC} \cap {c.pc}}

Runs(c) == Native(c) \cup execute(c)

\* The instruction completed, unless it was rolled back to run again.
Completed(x, pc) == x.exc = "none" \/ Top(x.c.saved).pc # pc

\* isCallOp: bsr, bsrf, jsr.
isCallOp(pc) == Code[pc].op = "call"
IsRte(pc) == Code[pc].op \in {"rte", "enter"}
=============================================================================
