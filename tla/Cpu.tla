-------------------------------- MODULE Cpu --------------------------------
(***************************************************************************)
(* The CPU of emu_go/cpu.go with its memory, MMU and user breaks.  A       *)
(* machine c is a record of the CPU's fields; an instruction i is a record *)
(*   [k, op, n, m, d, s, x]: its group, its operation or addressing mode,  *)
(*   two registers, a displacement or immediate, a size, a control         *)
(*   register.                                                             *)
(* Executing returns the machine after it; a memory access that faults     *)
(* leaves its fault in c.fault, as the code panics, and a state the real   *)
(* CPU would reset from sets c.dead.                                       *)
(***************************************************************************)
EXTENDS Alu, Mmu, Ubc, Functions

CONSTANTS
  Banked, Unbanked,          \* R0-R7 and R8-R15
  SP,                        \* R15
  GeneralVector, MissVector, IrqVector,   \* offsets from VBR
  Sentinel,                  \* the address callInject waits for
  InjectBudget,
  Text(_, _),                \* the program's instruction at a physical address
  OsWork(_, _)               \* external: what the OS does in an instruction that stands for much code

ASSUME RegsAssumption ==
  /\ Banked \cap Unbanked = {} /\ SP \in Unbanked /\ B >= 2
  /\ {GeneralVector, MissVector, IrqVector, Sentinel, InjectBudget} \subseteq Nat

Regs == Banked \cup Unbanked
P1 == 2^(W - 1)              \* addresses from here on are not translated

---------------------------------------------------------------------------
\* SR and the banks.

SrFields == <<"T", "S", "Q", "M", "IMASK", "MD", "RB", "BL">>
SrWord(sr) == LET bit(k) == sr[SrFields[k]] * 2^(k - 1)
              IN bit(1) + bit(2) + bit(3) + bit(4) + bit(5) + bit(6) + bit(7) + bit(8)
SrOf(v) == [f \in Range(SrFields) |-> (v \div 2^((CHOOSE k \in 1..8 : SrFields[k] = f) - 1)) % 2]

bank1(sr) == sr.MD = 1 /\ sr.RB = 1

setSR(c, sr) ==
  IF bank1(c.sr) = bank1(sr) THEN [c EXCEPT !.sr = sr]
  ELSE [c EXCEPT !.sr = sr, !.rbank1 = [i \in Banked |-> c.r[i]],
                 !.r = [i \in Regs |-> IF i \in Banked THEN c.rbank1[i] ELSE c.r[i]]]

Blocked(sr) == [sr EXCEPT !.MD = 1, !.RB = 1, !.BL = 1]

Stopped(c) == c.fault # {} \/ c.dead
Then(c, next) == IF Stopped(c) THEN c ELSE next

\* After an access that went through: a register stepped on, a register loaded.
Increased(c, n, by) == Then(c, [c EXCEPT !.r[n] = U(@ + by)])
Into(c, n, v) == Then(c, [c EXCEPT !.r[n] = v])

---------------------------------------------------------------------------
\* Exception entry.

Entered(c, expevt, spc, vector) ==
  [setSR([c EXCEPT !.ssr = c.sr, !.spc = spc, !.sgr = c.r[SP], !.mmu.expevt = expevt, !.lastExc = expevt],
         Blocked(c.sr)) EXCEPT !.pc = U(vector)]

GeneralException(c, expevt, spc) ==
  IF c.sr.BL = 1 THEN [c EXCEPT !.dead = TRUE]
  ELSE [Entered(c, expevt, spc, c.vbr + GeneralVector) EXCEPT !.ldst = FALSE, !.excTaken = c.inSlot]

illegal(c) ==
  IF c.inSlot THEN GeneralException(c, "1A0", c.slotPC) ELSE GeneralException(c, "180", U(c.pc - 2))

MmuRaise(c, f, spc) ==
  IF c.sr.BL = 1 THEN [c EXCEPT !.dead = TRUE]
  ELSE Entered([c EXCEPT !.mmu.tea = f.va, !.mmu.pteh.vpn = PageOf(f.va, PageBytes), !.faulted = TRUE],
               f.expevt, spc, c.vbr + (IF f.vector = "miss" THEN MissVector ELSE GeneralVector))

UserBreak(c, spc) ==
  [Entered(c, "1E0", spc, IF c.ubc.ubde THEN c.dbr ELSE c.vbr + GeneralVector) EXCEPT !.ubc.breaks = @ + 1]

InterruptedKeepingReservation(c, level) ==
  LET sr == [Blocked(c.sr) EXCEPT !.IMASK = IF c.intmu THEN level ELSE @]
  IN [setSR([c EXCEPT !.ssr = c.sr, !.spc = c.pc, !.sgr = c.r[SP]], sr) EXCEPT !.pc = U(c.vbr + IrqVector)]
\* acceptInterrupt's entry, for a request the controller lets through.
Interrupted(c, level) ==
  LET sr == [Blocked(c.sr) EXCEPT !.IMASK = IF c.intmu THEN level ELSE @]
  IN [setSR([c EXCEPT !.ssr = c.sr, !.spc = c.pc, !.sgr = c.r[SP], !.ldst = FALSE], sr)
        EXCEPT !.pc = U(c.vbr + IrqVector)]
Accepts(c, level) == c.sr.BL = 0 /\ level > c.sr.IMASK

---------------------------------------------------------------------------
\* Memory.

Translated(c, va) == c.mmu.at /\ va < P1
Priv(c) == c.sr.MD = 1
FaultOf(c, va, write) == IF Translated(c, va) THEN FaultAt(c.mmu, va, write, Priv(c)) ELSE {}
Physical(c, va) == IF Translated(c, va) THEN PhysicalOf(c.mmu, va, Priv(c)) ELSE va % P1
Looked(c, va) == IF Translated(c, va) THEN [c EXCEPT !.mmu = LookedUp(c.mmu, va, Priv(c))] ELSE c

beRead(mem, pa, size) ==
  LET byte(i) == IF i < size THEN mem[pa + i] * 2^(B * (size - 1 - i)) ELSE 0
  IN byte(0) + byte(1) + byte(2) + byte(3)
beWrite(mem, pa, size, val) ==
  [a \in DOMAIN mem |-> IF a \in pa .. pa + size - 1 THEN (val \div 2^(B * (pa + size - 1 - a))) % 2^B
                        ELSE mem[a]]

Watch(c, va, size, val, write) ==
  IF c.ops THEN [c EXCEPT !.ubc = Operand(c.ubc, va, size, val, write, c.mmu.pteh.asid)] ELSE c

Value(c, va, size) == beRead(c.mem, Physical(c, va), size)

\* Read and opRead: the watch sees the value, so a read that faults is not seen.
Loaded(c, va, size) ==
  LET read(d, pa) == IF pa .. pa + size - 1 \subseteq DOMAIN c.mem
                     THEN Watch(d, va, size, beRead(c.mem, pa, size), FALSE) ELSE [c EXCEPT !.dead = TRUE]
      got(d, f) == IF f = {} THEN read(d, Physical(c, va)) ELSE [d EXCEPT !.fault = f]
  IN got(Looked(c, va), FaultOf(c, va, FALSE))

\* Write and opWrite: the watch comes first.
Stored(c, va, size, val) ==
  LET v == val % 2^(B * size)
      written(d, pa) == IF pa .. pa + size - 1 \subseteq DOMAIN c.mem
                        THEN [d EXCEPT !.mem = beWrite(d.mem, pa, size, v)] ELSE [c EXCEPT !.dead = TRUE]
      put(d, f) == IF f = {} THEN written(d, Physical(c, va)) ELSE [d EXCEPT !.fault = f]
  IN put(Looked(Watch(c, va, size, v, TRUE), va), FaultOf(c, va, TRUE))

\* fetch16.
Fetched(c, pc) == [Looked(c, pc) EXCEPT !.fault = FaultOf(c, pc, FALSE)]
InstrAt(c, pc) == Text(c.prog, Physical(c, pc))

---------------------------------------------------------------------------
\* Instructions that compute.

Operands(c, n, rm) ==
  [rn |-> c.r[n], rm |-> rm, T |-> c.sr.T, Q |-> c.sr.Q, M |-> c.sr.M, S |-> c.sr.S,
   mach |-> c.mach, macl |-> c.macl]
WithResult(c, n, a) ==
  [c EXCEPT !.r[n] = a.rn, !.sr = [c.sr EXCEPT !.T = a.T, !.Q = a.Q, !.M = a.M, !.S = a.S],
            !.mach = a.mach, !.macl = a.macl]

\* An 8-bit immediate is a signed byte, except for the logical operations on R0.
Source(c, i) == IF i.k = "alu" THEN c.r[i.m] ELSE IF i.op \in LogicOps THEN i.d ELSE U(s8(i.d))
ExecRegister(c, i) == WithResult(c, i.n, Compute(i.op, Operands(c, i.n, Source(c, i))))

Accumulated(c, i, tn, tm) ==
  LET a == [Operands(c, i.n, tm) EXCEPT !.rn = tn]
      mac == IF i.op = "mac.l" THEN MacL(a) ELSE MacW(a)
  IN Then(c, [c EXCEPT !.mach = mac.mach, !.macl = mac.macl])

Popped(c, n, size) == Increased(Loaded(c, c.r[n], size), n, size)
ExecMac(c, i) ==
  LET size == IF i.op = "mac.l" THEN 4 ELSE 2
      second(d) == Accumulated(Popped(d, i.m, size), i, Value(c, c.r[i.n], size), Value(d, d.r[i.m], size))
      first(d) == Then(d, second(d))
  IN first(Popped(c, i.n, size))

---------------------------------------------------------------------------
\* Loads and stores.

Extended(v, size) == U(Signed(v, B * size))

LoadAddress(c, i) ==
  CASE i.op \in {"at", "inc"} -> c.r[i.m]
    [] i.op = "disp" -> U(c.r[i.m] + i.d * i.s)
    [] i.op = "r0" -> U(c.r[0] + c.r[i.m])
    [] i.op = "gbr" -> U(c.gbr + i.d * i.s)
    [] i.op = "pc" -> LET at == c.pc + 2 IN U((IF i.s = 4 THEN at - (at % 4) ELSE at) + i.d * i.s)

ExecLoad(c, i) ==
  LET va == LoadAddress(c, i)
      d == Into(Loaded(c, va, i.s), i.n, Extended(Value(c, va, i.s), i.s))
  IN Increased(d, i.m, IF i.op = "inc" THEN i.s ELSE 0)

ExecStore(c, i) ==
  LET d == IF i.op = "dec" THEN [c EXCEPT !.r[i.n] = U(@ - i.s)] ELSE c
      va == CASE i.op \in {"at", "dec"} -> d.r[i.n]
              [] i.op = "disp" -> U(d.r[i.n] + i.d * i.s)
              [] i.op = "r0" -> U(d.r[0] + d.r[i.n])
              [] i.op = "gbr" -> U(d.gbr + i.d * i.s)
  IN Stored(d, va, i.s, d.r[i.m])

\* Read, combine, write: tas.b @Rn and the GBR operations on a byte.
ExecModify(c, i) ==
  LET va == IF i.op = "tas.b" THEN c.r[i.n] ELSE U(c.gbr + c.r[0])
      wv(v) == CASE i.op = "and" -> And(v, i.d)
                 [] i.op = "xor" -> Xor(v, i.d)
                 [] OTHER -> Or(v, IF i.op = "tas.b" THEN 2^(B - 1) ELSE i.d)
      tested(d, zero) == [d EXCEPT !.sr.T = b2u(zero)]
      modified(d, v) == CASE i.op = "tst" -> tested(d, And(v, i.d) = 0)
                          [] i.op # "tst" -> Stored(IF i.op = "tas.b" THEN tested(d, v = 0) ELSE d, va, 1, wv(v))
      read(d) == Then(d, modified(d, Value(c, va, 1)))
  IN read(Loaded(c, va, 1))

\* movua.l @Rm(+),R0: four bytes from anywhere.
ExecUnaligned(c, i) ==
  LET at(k) == U(c.r[i.n] + k)
      next(d, k) == Then(d, Loaded(d, at(k), 1))
      read[k \in 0..4] == IF k = 0 THEN c ELSE next(read[k - 1], k - 1)
      v == [k \in 0..3 |-> Value(c, at(k), 1)]
  IN Into(Increased(read[4], i.n, IF i.op = "inc" THEN 4 ELSE 0), 0, ((v[0] * 2^B + v[1]) * 2^B + v[2]) * 2^B + v[3])

---------------------------------------------------------------------------
\* Control registers: stc/sts and ldc/lds, from a register or memory.

ControlOf(c, i) ==
  CASE i.x \in {"sr", "ssr"} -> SrWord(c[i.x])
    [] i.x = "bank" -> c.rbank1[i.m]
    [] OTHER -> c[i.x]

Controls == {"sr", "ssr", "bank", "gbr", "vbr", "spc", "sgr", "dbr", "mach", "macl", "pr"}
WithControl(c, i, v) ==
  CASE i.x = "sr" -> setSR(c, SrOf(v))
    [] i.x = "ssr" -> [c EXCEPT !.ssr = SrOf(v)]
    [] i.x = "bank" -> [c EXCEPT !.rbank1[i.m] = v]
    [] OTHER -> [c EXCEPT ![i.x] = v]

ExecStoreControl(c, i) ==
  LET d == [c EXCEPT !.r[i.n] = U(@ - 4)]
  IN IF i.op = "dec" THEN Stored(d, d.r[i.n], 4, ControlOf(c, i))
     ELSE [c EXCEPT !.r[i.n] = ControlOf(c, i)]

ExecLoadControl(c, i) ==
  LET got(d) == Then(d, Increased(WithControl(d, i, Value(c, c.r[i.n], 4)), i.n, 4))
  IN IF i.op = "inc" THEN got(Loaded(c, c.r[i.n], 4)) ELSE WithControl(c, i, c.r[i.n])

---------------------------------------------------------------------------
\* The rest.

\* movli.l reserves, movco.l stores while the reservation holds.
ExecLinked(c, i) ==
  LET reserved(d) == Then(d, [d EXCEPT !.r[0] = Value(c, c.r[i.n], 4), !.ldst = TRUE])
      stored(d) == Then(d, [d EXCEPT !.sr.T = b2u(c.ldst), !.ldst = FALSE])
  IN IF i.op = "movli" THEN reserved(Loaded(c, c.r[i.n], 4))
     ELSE stored(IF c.ldst THEN Stored(c, c.r[i.n], 4, c.r[0]) ELSE c)

ExecSystem(c, i) ==
  CASE i.op \in {"nop", "fpu"} -> c
    [] i.op = "sleep" -> [c EXCEPT !.sleeping = TRUE]
    [] i.op = "ldtlb" -> [c EXCEPT !.mmu = ldtlb(c.mmu)]
    [] i.op = "trapa" -> GeneralException(c, "160", c.pc)
    [] i.op = "mova" -> LET at == c.pc + 2 IN [c EXCEPT !.r[0] = U(at - (at % 4) + i.d * 4)]
    [] OTHER -> illegal(c)

Branches == {"rts", "rte", "bra", "bsr", "braf", "bsrf", "jmp", "jsr", "bt/s", "bf/s"}
IsDelayedBranch(i) == i.k = "branch" /\ i.op \in Branches
SlotIllegal(i) == \/ i.k = "branch" \/ (i.k = "system" /\ i.op = "trapa")
                  \/ i.k = "ldc" /\ i.x = "sr"

\* Everything but branches; what no case decodes is illegal.
Simple(c, i) ==
  CASE i.k \in {"alu", "imm"} -> ExecRegister(c, i)
    [] i.k = "mac" -> ExecMac(c, i)
    [] i.k = "load" -> ExecLoad(c, i)
    [] i.k = "store" -> ExecStore(c, i)
    [] i.k = "modify" -> ExecModify(c, i)
    [] i.k = "movua" -> ExecUnaligned(c, i)
    [] i.k = "stc" -> ExecStoreControl(c, i)
    [] i.k = "ldc" /\ i.x \in Controls -> ExecLoadControl(c, i)
    [] i.k = "linked" -> ExecLinked(c, i)
    [] i.k = "system" -> ExecSystem(c, i)
    [] i.k = "os" -> OsWork(c, i)
    [] OTHER -> illegal(c)

\* The slot, executed as the branch's own: an exception in it is the branch's.
BranchDelayed(c, target) ==
  LET f == Fetched(c, c.pc)
      slot == InstrAt(c, c.pc)
      arrived(d) == Then(d, [d EXCEPT !.inSlot = FALSE, !.excTaken = FALSE,
                                      !.pc = IF d.excTaken THEN @ ELSE U(target)])
  IN Then(f, IF SlotIllegal(slot) THEN GeneralException(f, "1A0", U(c.pc - 2))
             ELSE arrived(Simple([f EXCEPT !.pc = U(@ + 2), !.inSlot = TRUE, !.slotPC = U(c.pc - 2)], slot)))

Taken(c, i) ==
  CASE i.op \in {"bt", "bt/s"} -> c.sr.T = 1
    [] i.op \in {"bf", "bf/s"} -> c.sr.T = 0
    [] OTHER -> TRUE

Target(c, i) ==
  CASE i.op = "rts" -> c.pr
    [] i.op = "rte" -> c.spc
    [] i.op \in {"jmp", "jsr"} -> c.r[i.n]
    [] i.op \in {"braf", "bsrf"} -> c.pc + 2 + c.r[i.n]
    [] OTHER -> c.pc + 2 + i.d * 2

ExecBranch(c, i) ==
  LET d == CASE i.op = "rte" -> setSR(c, c.ssr)
             [] i.op \in {"bsr", "bsrf", "jsr"} -> [c EXCEPT !.pr = U(c.pc + 2)]
             [] OTHER -> c
  IN IF ~Taken(c, i) THEN c
     ELSE IF i.op \in {"bt", "bf"} THEN [c EXCEPT !.pc = U(Target(c, i))]
     ELSE BranchDelayed(d, Target(c, i))

Execute(c, i) == IF i.k = "branch" THEN ExecBranch(c, i) ELSE Simple(c, i)

---------------------------------------------------------------------------
\* One instruction at c.pc.

Plain(c) ==
  LET f == Fetched(c, c.pc) IN Then(f, Execute([f EXCEPT !.pc = U(@ + 2)], InstrAt(c, c.pc)))

\* Without the registers.
RolledBackPartly(m, c) ==
  [m EXCEPT !.pr = c.pr, !.sr = c.sr, !.gbr = c.gbr, !.mach = c.mach, !.macl = c.macl,
            !.rbank1 = c.rbank1, !.inSlot = FALSE, !.excTaken = FALSE, !.ldst = FALSE, !.fault = {}]
RolledBack(m, c) ==
  [m EXCEPT !.r = c.r, !.rbank1 = c.rbank1, !.pr = c.pr, !.sr = c.sr, !.gbr = c.gbr, !.mach = c.mach,
            !.macl = c.macl, !.inSlot = FALSE, !.excTaken = FALSE, !.ldst = FALSE, !.fault = {}]

\* stepMMU: precise exceptions.
StepMMU(c) ==
  LET precise(m) == IF m.fault = {} THEN m
                    ELSE LET f == CHOOSE x \in m.fault : TRUE IN MmuRaise(RolledBack(m, c), f, c.pc)
  IN precise(Plain(c))

\* peekOp: what would be fetched, or something that is no branch.
DelayedAt(c, pc) == FaultOf(c, pc, FALSE) = {} /\ IsDelayedBranch(InstrAt(c, pc))
\* A bt/s or bf/s that has just not been taken.
Untaken(c, pc0) ==
  FaultOf(c, pc0, FALSE) = {} /\ InstrAt(c, pc0).op \in {"bt/s", "bf/s"} /\ c.pc = U(pc0 + 2)

\* With SR.BL not looked at.
AlwaysLive(c) == c.ubc.powered
Live(c) == c.sr.BL = 0 /\ c.ubc.powered

StepUBC(c) ==
  LET asid == c.mmu.pteh.asid
      idle == [c.ubc EXCEPT !.fetchHit = FALSE]
      before == IF Live(c) THEN FetchMatch(c.ubc, c.pc, DelayedAt(c, c.pc), FALSE, asid) ELSE idle
      watched(after) == [c EXCEPT !.ubc = [after EXCEPT !.opHit = FALSE], !.faulted = FALSE,
                                  !.ops = Live(c) /\ OpArmed(c.ubc)]
      withSlot(m) == IF Untaken(m, c.pc) /\ ~m.faulted THEN StepMMU(m) ELSE m
      broken(m, hit) == IF ~Live(c) \/ m.faulted \/ m.sleeping \/ m.dead \/ ~(hit \/ m.ubc.opHit) THEN m
                        ELSE UserBreak(m, m.pc)
      run(after) == broken([withSlot(StepMMU(watched(after))) EXCEPT !.ops = FALSE], after.fetchHit)
  IN IF before.fetchHit THEN UserBreak([c EXCEPT !.ubc = before], c.pc)
     ELSE run(IF Live(c) THEN FetchMatch(before, c.pc, DelayedAt(c, c.pc), TRUE, asid) ELSE before)

\* step on an awake CPU, after the interrupt.  Nothing faults while the MMU is
\* off, and stepMMU is then the plain step that the code takes.
Instruction(c) == IF UbcOn(c.ubc) THEN StepUBC(c) ELSE StepMMU(c)

---------------------------------------------------------------------------
\* callInject: a function of the OS run to its return, with the interrupts
\* blocked, and every register as before.

Injected(c, addr, arg) ==
  LET called == [c EXCEPT !.r = [c.r EXCEPT ![SP] = U(c.r[SP] - 8), ![SP - 1] = arg],
                          !.pr = Sentinel, !.pc = addr, !.sr.BL = 1]
      run[k \in 0..InjectBudget] ==
        IF k = 0 THEN called
        ELSE LET m == run[k - 1] IN
             IF m.pc = Sentinel \/ m.sleeping THEN m ELSE Instruction(m)
      ran == run[InjectBudget]
      kept == {"r", "rbank1", "pc", "pr", "sr", "gbr", "vbr", "ssr", "spc", "sgr", "mach", "macl"}
  IN [f \in DOMAIN c |-> IF f \in kept THEN c[f] ELSE ran[f]]

\* A save-state resumed in the same machine: what the snapshot leaves out.
Resumed(c) == [c EXCEPT !.mmu = RestoreState(StateMap(c.mmu)), !.sleeping = FALSE]
=============================================================================
