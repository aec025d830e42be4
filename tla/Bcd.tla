-------------------------------- MODULE Bcd --------------------------------
(***************************************************************************)
(* The decimal unit (bcdALU in emu_go/mmio.go): one word of digits at a    *)
(* time, with a single carry latch that additions and subtractions share.  *)
(* A number of several words is the library's chain of commands, lowest    *)
(* word first; the chain is the model's, the unit only sees its commands.  *)
(***************************************************************************)
EXTENDS Integers, Sequences

CONSTANTS
  Radix, Digits,    \* 10 and 8
  Words,            \* operands the library writes, digits below Radix, lowest first
  MaxChain          \* bound: words of a number

ASSUME BcdAssumption ==
  /\ Radix \in Nat \ {0, 1} /\ Digits \in Nat \ {0} /\ MaxChain \in Nat
  /\ Words \subseteq [1..Digits -> 0..(Radix - 1)]

VARIABLES
  a, b, result, latch,
  chain     \* history: the chain of commands under way, its numbers and the weight of its next word

bcdVars == <<a, b, result, latch, chain>>

Zero == [i \in 1..Digits |-> 0]
NoChain == [add |-> TRUE, words |-> 0, unit |-> 1, x |-> 0, y |-> 0, r |-> 0]

BcdInit == a = Zero /\ b = Zero /\ result = Zero /\ latch = 0 /\ chain = NoChain

ADigit(s) == IF s >= Radix THEN <<s - Radix, 1>> ELSE <<s, 0>>
SDigit(s) == IF s < 0 THEN <<s + Radix, 1>> ELSE <<s, 0>>

\* <<digits, carry>> after the first i digits.
Add(x, y, carry) ==
  LET upto[i \in 0..Digits] ==
        IF i = 0 THEN <<<<>>, carry>>
        ELSE LET d == ADigit(x[i] + y[i] + upto[i - 1][2]) IN <<Append(upto[i - 1][1], d[1]), d[2]>>
  IN upto[Digits]

Sub(x, y, borrow) ==
  LET upto[i \in 0..Digits] ==
        IF i = 0 THEN <<<<>>, borrow>>
        ELSE LET d == SDigit(x[i] - y[i] - upto[i - 1][2]) IN <<Append(upto[i - 1][1], d[1]), d[2]>>
  IN upto[Digits]

FlagInFixed(latched, one) == IF one THEN 1 ELSE 0

\* Command bits 0 (add), 1 (the latch comes in) and 2 (a one comes in).
FlagIn(latched, one) == IF one THEN 1 ELSE IF latched THEN latch ELSE 0

Compute(add, latched, one) ==
  LET out == IF add THEN Add(a, b, FlagIn(latched, one)) ELSE Sub(a, b, FlagIn(latched, one)) IN
  result' = out[1] /\ latch' = out[2] /\ UNCHANGED <<a, b>>

WriteA(w) == a' = w /\ UNCHANGED <<b, result, latch, chain>>
WriteB(w) == b' = w /\ UNCHANGED <<a, result, latch, chain>>

---------------------------------------------------------------------------
(* The library's chains: commands 1 then 3, or 0 then 2; 5 and 4 add and take one more. *)

\* What a one counts for after i digits, and the number a word spells.
Weight[i \in 0..Digits] == IF i = 0 THEN 1 ELSE Radix * Weight[i - 1]
WordSize == Weight[Digits]

Value(w) ==
  LET upto[i \in 0..Digits] == IF i = 0 THEN 0 ELSE upto[i - 1] + w[i] * Weight[i - 1]
  IN upto[Digits]

FirstWord(add, one) ==
  /\ Compute(add, FALSE, one)
  /\ LET extra == IF one THEN 1 ELSE 0 IN
     chain' = [add |-> add, words |-> 1, unit |-> WordSize,
               x |-> Value(a), y |-> Value(b) + extra, r |-> Value(result')]

NextWord ==
  /\ chain.words \in 1..(MaxChain - 1)
  /\ Compute(chain.add, TRUE, FALSE)
  /\ chain' = [chain EXCEPT !.words = @ + 1, !.unit = @ * WordSize,
                            !.x = @ + Value(a) * chain.unit, !.y = @ + Value(b) * chain.unit,
                            !.r = @ + Value(result') * chain.unit]

BcdWrite ==
  \/ \E w \in Words : WriteA(w) \/ WriteB(w)
  \/ \E add, one \in BOOLEAN : FirstWord(add, one)
  \/ NextWord

---------------------------------------------------------------------------
\* A chain of words computes the sum or the difference of the numbers they spell, its last
\* carry or borrow being the latch: digits, words and the shared latch lose nothing.
ChainExact ==
  chain.words > 0 =>
    IF chain.add THEN chain.r + latch * chain.unit = chain.x + chain.y
    ELSE chain.r - latch * chain.unit = chain.x - chain.y
=============================================================================
