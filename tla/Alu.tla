-------------------------------- MODULE Alu --------------------------------
(***************************************************************************)
(* The arithmetic of emu_go/cpu.go: what an instruction without memory     *)
(* access computes from its two registers, the flags and the               *)
(* multiply-accumulate pair.  Words are four bytes of B bits (the code's   *)
(* B is 8), every shift count, sign and carry scales with them.            *)
(***************************************************************************)
EXTENDS Integers

CONSTANT B          \* bits of a byte

ASSUME BAssumption == B \in {2^k : k \in 0..3}

W == 4 * B
Word == 0 .. 2^W - 1

U(x) == x % 2^W
Signed(x, bits) == LET u == x % 2^bits IN IF u < 2^(bits - 1) THEN u ELSE u - 2^bits
s8(x)  == Signed(x, B)
s16(x) == Signed(x, 2 * B)
s32(x) == Signed(x, W)

Msb(x) == x \div 2^(W - 1)
Complement(x) == 2^W - 1 - x
ByteOf(x, i) == (x \div 2^(B * i)) % 2^B
Half(x) == x % 2^(2 * B)
b2u(b) == IF b THEN 1 ELSE 0

\* The word of W bits, lowest first, and Go's operators on it.
OfBits(bit) ==
  LET low[k \in 0..W] == IF k = 0 THEN 0 ELSE low[k - 1] + bit[k - 1] * 2^(k - 1) IN low[W]
Bit(x, k) == (x \div 2^k) % 2
And(x, y) == OfBits([k \in 0 .. W - 1 |-> Bit(x, k) * Bit(y, k)])
Or(x, y)  == x + y - And(x, y)
Xor(x, y) == x + y - 2 * And(x, y)

(***************************************************************************)
(* The operands a: rn, rm, the flags T Q M S (0 or 1), mach and macl.      *)
(***************************************************************************)
Flag(a, cond) == [a EXCEPT !.T = b2u(cond)]
Rn(a, v) == [a EXCEPT !.rn = U(v)]
Mac(a, v) == [a EXCEPT !.mach = U(v \div 2^W), !.macl = U(v)]
MacOf(a) == Signed(a.mach * 2^W + a.macl, 2 * W)

Div0u(a) == [a EXCEPT !.Q = 0, !.M = 0, !.T = 0]

Flags(op, a) ==
  CASE op = "clrt" -> Flag(a, FALSE)
    [] op = "sett" -> Flag(a, TRUE)
    [] op = "div0u" -> Div0u(a)
    [] op = "clrmac" -> Mac(a, 0)
    [] op = "clrs" -> [a EXCEPT !.S = 0]
    [] op = "sets" -> [a EXCEPT !.S = 1]
    [] op = "movt" -> Rn(a, a.T)
    [] op = "mul.l" -> [a EXCEPT !.macl = U(a.rn * a.rm)]

Div0s(a) == [Flag(a, Msb(a.rn) # Msb(a.rm)) EXCEPT !.Q = Msb(a.rn), !.M = Msb(a.rm)]

\* cmp/str: some byte of the two is the same.
SameByte(a) == \E i \in 0..3 : ByteOf(a.rn, i) = ByteOf(a.rm, i)

Logic(op, a) ==
  CASE op = "div0s" -> Div0s(a)
    [] op = "tst" -> Flag(a, And(a.rn, a.rm) = 0)
    [] op = "and" -> Rn(a, And(a.rn, a.rm))
    [] op = "xor" -> Rn(a, Xor(a.rn, a.rm))
    [] op = "or" -> Rn(a, Or(a.rn, a.rm))
    [] op = "cmp/str" -> Flag(a, SameByte(a))
    [] op = "xtrct" -> Rn(a, Half(a.rm) * 2^(2 * B) + (a.rn \div 2^(2 * B)))
    [] op = "mulu.w" -> [a EXCEPT !.macl = U(Half(a.rn) * Half(a.rm))]
    [] op = "muls.w" -> [a EXCEPT !.macl = U(s16(a.rn) * s16(a.rm))]

\* One step of a division: subtract the divisor when the signs so far agree,
\* else add it; the new quotient bit is whether the sign agrees with M.
DividedBy(a, M) ==
  LET shifted == U(2 * a.rn + a.T)
      subtracts == a.Q = a.M
      res == U(IF subtracts THEN shifted - a.rm ELSE shifted + a.rm)
      wrapped == b2u(IF subtracts THEN res > shifted ELSE res < shifted)
      q == (wrapped + Msb(a.rn) + M) % 2
  IN [Flag(a, q = a.M) EXCEPT !.rn = res, !.Q = q]
\* As if every divisor were positive.
Div1Unsigned(a) == DividedBy(a, 0)
Div1(a) == DividedBy(a, a.M)

Sum(a, v, overflows) == Flag(Rn(a, v), overflows)
OutOfRange(v) == v < -(2^(W - 1)) \/ v > 2^(W - 1) - 1

Arithmetic(op, a) ==
  LET rn == a.rn  rm == a.rm IN
  CASE op = "cmp/eq" -> Flag(a, rn = rm)
    [] op = "cmp/hs" -> Flag(a, rn >= rm)
    [] op = "cmp/ge" -> Flag(a, s32(rn) >= s32(rm))
    [] op = "cmp/hi" -> Flag(a, rn > rm)
    [] op = "cmp/gt" -> Flag(a, s32(rn) > s32(rm))
    [] op = "sub" -> Rn(a, rn - rm)
    [] op = "add" -> Rn(a, rn + rm)
    [] op = "subc" -> Sum(a, rn - rm - a.T, rn - rm - a.T < 0)
    [] op = "addc" -> Sum(a, rn + rm + a.T, rn + rm + a.T >= 2^W)
    [] op = "subv" -> Sum(a, rn - rm, OutOfRange(s32(rn) - s32(rm)))
    [] op = "addv" -> Sum(a, rn + rm, OutOfRange(s32(rn) + s32(rm)))
    [] op = "div1" -> Div1(a)
    [] op = "dmulu.l" -> Mac(a, rn * rm)
    [] op = "dmuls.l" -> Mac(a, s32(rn) * s32(rm))

Moves(op, a) ==
  LET rm == a.rm IN
  CASE op = "mov" -> Rn(a, rm)
    [] op = "not" -> Rn(a, Complement(rm))
    [] op = "swap.b" -> Rn(a, rm - Half(rm) + ByteOf(rm, 0) * 2^B + ByteOf(rm, 1))
    [] op = "swap.w" -> Rn(a, Half(rm) * 2^(2 * B) + rm \div 2^(2 * B))
    [] op = "negc" -> Sum(a, 0 - rm - a.T, 0 - rm - a.T < 0)
    [] op = "neg" -> Rn(a, 0 - rm)
    [] op = "extu.b" -> Rn(a, ByteOf(rm, 0))
    [] op = "extu.w" -> Rn(a, Half(rm))
    [] op = "exts.b" -> Rn(a, s8(rm))
    [] op = "exts.w" -> Rn(a, s16(rm))

Shifts(op, a) ==
  LET rn == a.rn  top == Msb(a.rn)  low == a.rn % 2 IN
  CASE op \in {"shll", "shal"} -> Flag(Rn(a, 2 * rn), top = 1)
    [] op = "shlr" -> Flag(Rn(a, rn \div 2), low = 1)
    [] op = "shar" -> Flag(Rn(a, s32(rn) \div 2), low = 1)
    [] op = "rotl" -> Flag(Rn(a, 2 * rn + top), top = 1)
    [] op = "rotr" -> Flag(Rn(a, rn \div 2 + low * 2^(W - 1)), low = 1)
    [] op = "rotcl" -> Flag(Rn(a, 2 * rn + a.T), top = 1)
    [] op = "rotcr" -> Flag(Rn(a, rn \div 2 + a.T * 2^(W - 1)), low = 1)
    [] op = "shll2" -> Rn(a, rn * 4)
    [] op = "shlr2" -> Rn(a, rn \div 4)
    [] op = "shll8" -> Rn(a, rn * 2^B)
    [] op = "shlr8" -> Rn(a, rn \div 2^B)
    [] op = "shll16" -> Rn(a, rn * 2^(2 * B))
    [] op = "shlr16" -> Rn(a, rn \div 2^(2 * B))
    [] op = "dt" -> Flag(Rn(a, rn - 1), U(rn - 1) = 0)
    [] op = "cmp/pz" -> Flag(a, s32(rn) >= 0)
    [] op = "cmp/pl" -> Flag(a, s32(rn) > 0)

\* By the low bits of the count; only minus the word's width empties the word.
DynamicShift(op, a) ==
  LET sh == s32(a.rm)
      left == sh % W
      right == IF op = "shad" /\ sh = -W THEN W - 1 ELSE (-sh) % W
  IN CASE sh >= 0 -> Rn(a, a.rn * 2^left)
       [] sh < 0 /\ op = "shad" -> Rn(a, s32(a.rn) \div 2^right)
       [] sh < 0 /\ op = "shld" -> Rn(a, IF sh = -W THEN 0 ELSE a.rn \div 2^right)

Clipped(v, bits) ==
  CASE v > 2^(bits - 1) - 1 -> 2^(bits - 1) - 1
    [] v < -(2^(bits - 1)) -> -(2^(bits - 1))
    [] OTHER -> v

\* mac.l and mac.w, rn and rm being the operands read from memory.
MacL(a) ==
  LET mac == MacOf(a) + s32(a.rn) * s32(a.rm)
  IN Mac(a, IF a.S = 1 THEN Clipped(mac, 12 * B) ELSE mac)

MacW(a) ==
  LET p == s16(a.rn) * s16(a.rm)
      v == s32(a.macl) + p
  IN IF a.S = 0 THEN Mac(a, MacOf(a) + p)
     ELSE [a EXCEPT !.macl = U(Clipped(v, W)), !.mach = IF OutOfRange(v) THEN Or(@, 1) ELSE @]

FlagOps  == {"clrt", "sett", "div0u", "clrmac", "clrs", "sets", "movt", "mul.l"}
LogicOps == {"div0s", "tst", "and", "xor", "or", "cmp/str", "xtrct", "mulu.w", "muls.w"}
MoveOps  == {"mov", "not", "swap.b", "swap.w", "negc", "neg", "extu.b", "extu.w", "exts.b", "exts.w"}
ArithmeticOps == {"cmp/eq", "cmp/hs", "cmp/ge", "cmp/hi", "cmp/gt", "sub", "add", "subc", "addc",
                  "subv", "addv", "div1", "dmulu.l", "dmuls.l"}
DynamicOps == {"shad", "shld"}

Compute(op, a) ==
  CASE op \in FlagOps -> Flags(op, a)
    [] op \in LogicOps -> Logic(op, a)
    [] op \in ArithmeticOps -> Arithmetic(op, a)
    [] op \in MoveOps -> Moves(op, a)
    [] op \in DynamicOps -> DynamicShift(op, a)
    [] OTHER -> Shifts(op, a)
=============================================================================
