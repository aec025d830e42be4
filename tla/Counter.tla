------------------------------ MODULE Counter ------------------------------
(***************************************************************************)
(* A timer channel as the program that owns it sees it: a down-counter     *)
(* clocked every div cycles.  The clock that finds it at zero reloads it,  *)
(* sets the underflow flag and, if enabled, requests the interrupt.  This  *)
(* is what gtimer.go computes without ever clocking anything.              *)
(***************************************************************************)
EXTENDS Integers

CONSTANTS
  Counts,      \* values of the counter
  Divisors,    \* cycles per clock
  Steps        \* cycles the CPU may take at once

VARIABLES
  count, reload,    \* TCNT, TCOR
  running,          \* the bit of TSTR
  flag, enable,     \* TCR: underflow flag, underflow interrupt enable
  div, left,        \* cycles per clock, and until the next clock (0: stopped)
  asked             \* the channel's interrupt request, until the CPU accepts it

vars == <<count, reload, running, flag, enable, div, left, asked>>

Init ==
  /\ count = 0 /\ reload = 0 /\ ~running /\ ~flag /\ ~enable /\ ~asked
  /\ div \in Divisors /\ left = 0

\* The counter after n cycles.
Elapsed(c, n) ==
  LET after[i \in 0..n] ==
        IF i = 0 THEN c ELSE
        LET b == after[i - 1] IN
        IF b.left > 1 THEN [b EXCEPT !.left = @ - 1]
        ELSE IF b.count > 0 THEN [b EXCEPT !.left = div, !.count = @ - 1]
        ELSE [count |-> reload, left |-> div, under |-> TRUE]
  IN after[n]

Elapse(n) ==
  /\ IF running
     THEN LET c == Elapsed([count |-> count, left |-> left, under |-> FALSE], n) IN
          /\ count' = c.count /\ left' = c.left
          /\ flag' = (flag \/ c.under)
          /\ asked' = (asked \/ (c.under /\ enable))
     ELSE UNCHANGED <<count, left, flag, asked>>
  /\ UNCHANGED <<reload, running, enable, div>>

Accepted == asked /\ asked' = FALSE /\ UNCHANGED <<count, reload, running, flag, enable, div, left>>

---------------------------------------------------------------------------
(* Register writes. One that touches a running counter restarts the clock's phase. *)

Phase == IF running' THEN div' ELSE 0

Switch(on) ==
  /\ running' = on /\ left' = IF on = running THEN left ELSE Phase
  /\ UNCHANGED <<count, reload, flag, enable, div, asked>>

\* The counter goes on from where it is.
SetReload(v) ==
  /\ reload' = v /\ left' = Phase
  /\ UNCHANGED <<count, running, flag, enable, div, asked>>

SetCount(v) ==
  /\ count' = v /\ left' = Phase
  /\ UNCHANGED <<reload, running, flag, enable, div, asked>>

\* Writing 0 clears the flag; nothing sets it by writing.
Control(keep, on, d) ==
  /\ flag' = (flag /\ keep) /\ enable' = on /\ div' = d
  /\ left' = IF d = div THEN left ELSE Phase
  /\ UNCHANGED <<count, reload, running, asked>>

\* The count jumps to one the new reload value or the new clock allows, and goes on from there.
Jump ==
  /\ left' = Phase
  /\ \/ count' \in 0..reload' /\ UNCHANGED <<running, flag, enable, div, asked>>
     \/ /\ count' \in Nat /\ enable' \in BOOLEAN
        /\ \E keep \in BOOLEAN : flag' = (flag /\ keep)
        /\ UNCHANGED <<reload, running, asked>>

\* A save-state brings back all but the request and the phase.
Reopened(d) ==
  /\ div' = d /\ left' = Phase /\ asked' = FALSE
  /\ UNCHANGED <<count, reload, running, flag, enable>>

Next ==
  \/ \E n \in Steps : Elapse(n)
  \/ Accepted
  \/ \E on \in BOOLEAN : Switch(on)
  \/ \E v \in Counts : SetReload(v) \/ SetCount(v)
  \/ \E keep, on \in BOOLEAN, d \in Divisors : Control(keep, on, d)
  \/ \E d \in Divisors : Reopened(d)

Spec == Init /\ [][Next]_vars
=============================================================================
