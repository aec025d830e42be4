------------------------------- MODULE MCCore -------------------------------
(***************************************************************************)
(* Core with words of 8 bits: OS code and data below 64, the programs'     *)
(* text from 64, their data from 96 to 119, one spare frame.               *)
(***************************************************************************)
EXTENDS Core, SequencesExt

MCBanked == 0..2
MCUnbanked == 3..5
MCDataPages == {96, 104, 112}

---------------------------------------------------------------------------
\* Instructions.
I(k, op, n, m, d, s) == [k |-> k, op |-> op, n |-> n, m |-> m, d |-> d, s |-> s, x |-> ""]
A(op, n, m) == I("alu", op, n, m, 0, 4)
Imm(op, d, n) == I("imm", op, n, n, d, 4)
Ld(mode, m, n, s) == I("load", mode, n, m, 0, s)
St(mode, m, n, s) == I("store", mode, n, m, 0, s)
Stc(mode, reg, n) == [I("stc", mode, n, 0, 0, 4) EXCEPT !.x = reg]
Ldc(mode, n, reg) == [I("ldc", mode, n, 0, 0, 4) EXCEPT !.x = reg]
Br(op, d) == I("branch", op, 0, 0, d, 4)
Sys(op) == I("system", op, 0, 0, 0, 4)
Os(op) == I("os", op, 0, 0, 0, 4)
Nop == Sys("nop")

Serve == <<Imm("mov", 1, 0), Os("serve"), Br("rte", 0), Nop>>
OsText ==     \* from 0, 8, 16, 32 and 46
  <<Br("rts", 0), St("at", 4, 4, 4), Nop, Nop>> \o Serve
  \o <<Imm("mov", 1, 0), Os("page"), Sys("ldtlb"), Br("rte", 0), Nop, Nop, Nop, Nop>>
  \o <<Ld("at", 1, 0, 4), Imm("add", 1, 0), St("at", 0, 1, 4), Os("memory"), Br("rte", 0), Nop, Nop>> \o Serve

\* Loads, pushes in slots, a call across pages, a loop.
Calls == <<Ld("inc", 3, 1, 4), Br("bsr", 7), St("dec", 1, 5, 4), A("add", 2, 1), A("dt", 4, 4),
           Br("bf/s", -7), A("add", 2, 1), Br("bra", 5), Nop, Nop,
           Stc("dec", "pr", 5), Ldc("inc", 5, "pr"), Br("rts", 0), Ld("at", 5, 1, 4)>>
\* Two operands in memory, read-modify-writes, accesses of every size.
Memory == <<I("mac", "mac.l", 3, 4, 0, 4), A("dt", 2, 2), Br("bf/s", -4), Stc("at", "macl", 1),
            I("mac", "mac.w", 3, 3, 0, 2), I("movua", "inc", 3, 3, 0, 4), Imm("mov", 1, 0),
            I("modify", "tas.b", 4, 0, 0, 1), I("modify", "or", 0, 0, 2, 1), I("modify", "tst", 0, 0, 1, 1),
            St("dec", 1, 4, 1), Ld("r0", 4, 1, 2), St("gbr", 0, 0, 2), Ldc("inc", 5, "mach")>>
\* Traps, a branch not taken, an illegal instruction, sleep, a call by register.
Traps == <<I("system", "trapa", 0, 0, 3, 4), Br("bt/s", 5), A("add", 2, 1), Sys("illegal"), Br("bra", 1),
           Ld("at", 3, 1, 4), Nop, Sys("sleep"), I("branch", "jsr", 4, 4, 0, 4), Stc("at", "gbr", 2),
           Ldc("at", 1, "bank"), A("movt", 2, 2), Br("bra", 0), St("at", 2, 3, 4)>>
\* What may not stand in a slot: an undefined instruction, a branch.
Slot == <<Imm("add", 1, 0), Br("bra", 4), Sys("illegal"), Nop>>
SlotBranch == <<Imm("add", 1, 0), Br("bra", 4), Br("bt", 1), Nop>>
\* A counter shared with the interrupt handler.
Count == <<I("linked", "movli", 4, 4, 0, 4), Imm("add", 1, 0), I("linked", "movco", 4, 4, 0, 4), Br("bf", -5),
           A("dt", 3, 3), Br("bf", -7), Br("bra", 6), Nop>>

Div1Step == <<A("rotcl", 2, 2), A("div1", 1, 0)>>
Times8(s) == s \o s \o s \o s \o s \o s \o s \o s
Routine ==
  [udiv |-> <<A("div0u", 0, 0)>> \o Times8(Div1Step) \o <<A("rotcl", 2, 2)>>,
   udivw |-> <<A("shll2", 0, 0), A("shll2", 0, 0), A("div0u", 0, 0), A("div1", 2, 0), A("div1", 2, 0),
               A("div1", 2, 0), A("div1", 2, 0), A("rotcl", 2, 2), A("extu.w", 2, 2)>>,
   sdiv |-> <<A("mov", 3, 2), A("rotcl", 3, 3), A("subc", 1, 1), A("xor", 3, 3), A("subc", 2, 3), A("div0s", 1, 0)>>
            \o Times8(Div1Step) \o <<A("rotcl", 2, 2), A("addc", 2, 3)>>,
   sum |-> <<A("clrt", 0, 0), A("addc", 2, 0), A("addc", 1, 4)>>,
   difference |-> <<A("clrt", 0, 0), A("subc", 2, 0), A("subc", 1, 4)>>,
   negate |-> <<A("clrt", 0, 0), A("negc", 2, 2), A("negc", 1, 1)>>,
   halve |-> <<A("shar", 1, 1), A("rotcr", 2, 2)>>,
   double |-> <<A("shll", 2, 2), A("rotcl", 1, 1)>>,
   reverse |-> <<A("swap.b", 2, 2), A("swap.w", 2, 2), A("swap.b", 2, 2)>>,
   scale |-> <<A("shad", 2, 0)>>,
   product |-> <<A("mul.l", 1, 0), Stc("at", "macl", 1), A("dmulu.l", 2, 0), Stc("at", "macl", 2),
                 Stc("at", "mach", 3), A("add", 1, 3)>>,
   biggest |-> <<A("cmp/gt", 2, 0), Br("bt", 0), A("mov", 2, 0)>>]
Arithmetics == DOMAIN Routine

Texts == [calls |-> Calls, memory |-> Memory, traps |-> Traps, slot |-> Slot, slotbranch |-> SlotBranch,
          count |-> Count] @@ Routine
Programs == DOMAIN Texts \ Arithmetics
MCText(prog, pa) ==
  LET text == IF pa < 64 THEN OsText ELSE Texts[prog]
      k == (pa % 64) \div 2 + 1
  IN IF k <= Len(text) THEN text[k] ELSE Nop
MCEnd(prog) == IF prog \in Arithmetics THEN 64 + 2 * Len(Routine[prog]) ELSE 92

---------------------------------------------------------------------------
\* Breaks: a name, the MMU on or off, a count, and the unit.
Fetch(car, pcb) == [NoChannel EXCEPT !.ce = TRUE, !.id = "fetch", !.car = car, !.bie = TRUE, !.pcb = pcb]
Access(car, span, rw) == [NoChannel EXCEPT !.ce = TRUE, !.id = "operand", !.car = car, !.span = span, !.rw = rw, !.bie = TRUE]
Unit(k0, k1, count, ubde) == [UbcInit EXCEPT !.ch = [i \in Channels |-> IF i = 0 THEN k0 ELSE k1], !.cet = count, !.ubde = ubde]
Units(prog) ==
  CASE prog = "calls" ->
         {Unit(Fetch(76, FALSE), NoChannel, 0, TRUE), Unit(Access(112, 8, "write"), Access(184, 4, "any"), 0, FALSE),
          Unit(NoChannel, [Fetch(72, TRUE) EXCEPT !.etbe = TRUE], 2, TRUE),
          Unit([Fetch(84, FALSE) EXCEPT !.bie = FALSE], [Fetch(72, TRUE) EXCEPT !.mfe = TRUE], 0, TRUE)}
    [] prog = "memory" ->
         {Unit(Access(96, 8, "read"), [Access(112, 8, "any") EXCEPT !.dbe = TRUE, !.cdr = 1, !.aie = TRUE, !.aiv = 1], 0, TRUE)}
    [] prog = "traps" -> {Unit(Fetch(66, TRUE), NoChannel, 0, FALSE), Unit(Fetch(78, FALSE), Access(96, 1, "any"), 0, TRUE)}
    [] OTHER -> {}

SR(bit) == [T |-> bit, S |-> 0, Q |-> bit, M |-> bit, IMASK |-> 0, MD |-> 1, RB |-> 0, BL |-> 0]
Data == [a \in 56..63 \cup 96..127 |-> IF a \in 96..119 THEN (a * 5 + a \div 7) % 4 ELSE 0]
Machine(prog, r, translates, ubc) ==
  [prog |-> prog, r |-> r, rbank1 |-> 0 :> 0 @@ 1 :> (IF prog = "count" THEN 240 ELSE 184) @@ 2 :> 0,
   pc |-> 64, pr |-> 0, gbr |-> 112, vbr |-> 128, ssr |-> SR(0), spc |-> 0, sgr |-> 0, dbr |-> 174, mach |-> 0, macl |-> 0,
   sr |-> SR(IF prog \in Arithmetics THEN 1 ELSE 0), intmu |-> TRUE, ldst |-> FALSE, sleeping |-> FALSE, inSlot |-> FALSE, slotPC |-> 0, excTaken |-> FALSE,
   fault |-> {}, faulted |-> FALSE, dead |-> FALSE, lastExc |-> "", irqCnt |-> 0, ops |-> FALSE,
   mem |-> Data, mmu |-> MmuInit(translates), ubc |-> ubc,
   os |-> [next |-> 0, frame |-> 112, choice |-> "nothing", args |-> r, count |-> ubc.cet]]

Start(prog) ==
  CASE prog = "calls" -> <<0, 0, 1, 96, 2, 120>>
    [] prog = "memory" -> <<0, 0, 2, 96, 104, 112>>
    [] prog = "traps" -> <<0, 0, 1, 96, 84, 120>>
    [] prog = "count" -> <<0, 0, 0, 3, 112, 120>>
    [] OTHER -> <<0, 0, 0, 0, 0, 0>>
Registers(s) == 0 :> s[1] @@ 1 :> s[2] @@ 2 :> s[3] @@ 3 :> s[4] @@ 4 :> s[5] @@ 5 :> s[6]

Sample == {0, 1, 2, 7, 85, 127, 128, 200, 255}
Corners == {0, 1, 127, 128, 255}
Arguments(prog) ==
  CASE prog = "udiv" -> {x \in Sample \X Sample \X Sample : x[2] < x[1]}
    [] prog = "udivw" -> {x \in (1..15) \X {0} \X Sample : x[3] < 16 * x[1]}
    [] prog = "sdiv" -> {x \in Sample \X {0} \X Sample : x[1] # 0 /\ ~(x[1] = 255 /\ x[3] = 128)}
    [] prog \in {"sum", "difference"} -> Corners \X Corners \X Corners
    [] prog = "product" -> Corners \X Corners \X Sample
    [] prog \in {"scale", "biggest"} -> {x \in Sample \cup {248, 251} : prog = "biggest" \/ s32(x) \in -8..7} \X {0} \X Sample
    [] OTHER -> {0} \X Corners \X Sample
MCMachines ==
  {Machine(p, Registers(Start(p)), mapped, UbcInit) : p \in Programs, mapped \in BOOLEAN}
  \cup UNION {{Machine(p, Registers(Start(p)), u.cet = 0, u) : u \in Units(p)} : p \in Programs}
  \cup UNION {{Machine(p, Registers(<<x[1], x[2], x[3], 0, 128, 0>>), FALSE, UbcInit) : x \in Arguments(p)} : p \in Arithmetics}

\* A program's views of itself, from its start to its end.
UndisturbedRun(prog) ==
  LET run[k \in 0..60] ==
        IF k = 0 THEN <<Machine(prog, Registers(Start(prog)), FALSE, UbcInit)>>
        ELSE CHOOSE next \in {IF Finished(Last(ms)) THEN ms ELSE Append(ms, Undisturbed(Last(ms))) : ms \in {run[k - 1]}} : TRUE
  IN CHOOSE views \in {[k \in 1 .. Len(ms) |-> View(ms[k])] : ms \in {run[60]}} : TRUE
Views == [prog \in Programs \ {"count"} |-> UndisturbedRun(prog)]
MCProgress(prog) == IF prog \in Programs \ {"count"} THEN Views[prog] ELSE <<>>

MCMaxEvents(prog) == IF prog \in Arithmetics THEN 0 ELSE 1

---------------------------------------------------------------------------
Wide(h, l) == h * 256 + l
Truncated(x, y) == LET q == (IF x < 0 THEN -x ELSE x) \div (IF y < 0 THEN -y ELSE y)
                   IN IF (x < 0) # (y < 0) THEN -q ELSE q
\* What a routine of several instructions leaves is what it is written to
\* compute: quotients by div0u, div0s, div1 (gcc's divisions), sums and
\* products of two words through the carry.
ResultsExact ==
  LET m == c.os.args[0]  hi == c.os.args[1]  lo == c.os.args[2]
      both == Wide(hi, lo)
      got == Wide(c.r[1], c.r[2])
  IN Finished(c) =>
     CASE c.prog = "udiv" -> c.r[2] = both \div m
       [] c.prog = "udivw" -> c.r[2] = lo \div m
       [] c.prog = "sdiv" -> c.r[2] = U(Truncated(s32(lo), s32(m)))
       [] c.prog = "sum" -> got = (both + Wide(128, m)) % 65536
       [] c.prog = "difference" -> got = (both - Wide(128, m)) % 65536
       [] c.prog = "negate" -> got = (-both) % 65536
       [] c.prog = "halve" -> got = (Signed(both, 16) \div 2) % 65536
       [] c.prog = "double" -> got = (2 * both) % 65536
       [] c.prog = "reverse" -> \A i \in 0..3 : ByteOf(c.r[2], i) = ByteOf(lo, 3 - i)
       [] c.prog = "scale" -> c.r[2] = U(IF s32(m) >= 0 THEN lo * 2^m ELSE s32(lo) \div 2^(256 - m))
       [] c.prog = "product" -> got = (both * m) % 65536
       [] c.prog = "biggest" -> s32(c.r[2]) = Max({s32(m), s32(lo)})
       [] OTHER -> TRUE

\* No increment of a counter is lost between a program that updates it by
\* movli.l and movco.l and the interrupts that add to it.
IncrementsCounted ==
  (Finished(c) /\ c.prog = "count") => beRead(c.mem, c.os.frame, 4) = beRead(Data, 112, 4) + 3 + c.irqCnt
=============================================================================
