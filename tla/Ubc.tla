-------------------------------- MODULE Ubc --------------------------------
(***************************************************************************)
(* The user break controller of emu_go/ubc.go.  A channel is a record      *)
(*   [ce, id, rw, sz, car, span, bie, pcb, etbe, dbe, cdr, aie, aiv, mfe,  *)
(*    mfi]; the unit u holds both, the match flags, the execution count    *)
(*   and what the instruction being executed has asked for.                *)
(***************************************************************************)
EXTENDS Integers, Sequences

Channels == 0..1

\* CAMR leaves the low bits out of the compare: an aligned block of `span`.
Addr(k, a) == a \div k.span = k.car \div k.span

WatchesFetch(k) == k.ce /\ k.id # "operand"
OpArmed(u) == \E i \in Channels : u.ch[i].ce /\ u.ch[i].id # "fetch"
UbcOn(u) == \E i \in Channels : u.ch[i].ce

Cond(u, i, asid) ==
  /\ u.ch[i].aie => asid = u.ch[i].aiv
  /\ u.ch[i].mfe => u.mf[u.ch[i].mfi]

HitLate(u, i, asks) ==
  LET counts == i = 1 /\ u.ch[1].etbe /\ u.cet > 0
  IN [u EXCEPT !.mf[i] = TRUE, !.cet = IF counts THEN @ - 1 ELSE @,
               ![asks] = @ \/ (~counts /\ u.ch[i].bie)]
\* A match: its flag, the count, and the break it asks for.
Hit(u, i, asks) ==
  LET counts == i = 1 /\ u.ch[1].etbe /\ u.cet > 1
  IN [u EXCEPT !.mf[i] = TRUE, !.cet = IF counts THEN @ - 1 ELSE @,
               ![asks] = @ \/ (~counts /\ u.ch[i].bie)]

\* Both channels in order: the first's flag may be the second's condition.
InTurn(u, matched, asid, asks) ==
  LET one(v, i) == IF i \in matched /\ Cond(v, i, asid) THEN Hit(v, i, asks) ELSE v
  IN one(one(u, 0), 1)

\* delayed: the instruction at pc is a delayed branch, matched on its slot too.
FetchMatch(u, pc, delayed, after, asid) ==
  LET matches(k) ==
        /\ WatchesFetch(k) /\ k.rw # "write" /\ k.pcb = after
        /\ Addr(k, pc) \/ (Addr(k, pc + 2) /\ delayed)
  IN InTurn([u EXCEPT !.fetchHit = FALSE], {i \in Channels : matches(u.ch[i])}, asid, "fetchHit")

Operand(u, va, size, val, write, asid) ==
  LET matches(k, i) ==
        /\ k.ce /\ k.id # "fetch"
        /\ k.rw # (IF write THEN "read" ELSE "write")
        /\ k.sz \in {0, size}
        /\ Addr(k, va)
        /\ (i = 1 /\ k.dbe) => val = k.cdr
  IN InTurn(u, {i \in Channels : matches(u.ch[i], i)}, asid, "opHit")

NoChannel == [ce |-> FALSE, id |-> "any", rw |-> "any", sz |-> 0, car |-> 0, span |-> 1, bie |-> FALSE,
              pcb |-> FALSE, etbe |-> FALSE, dbe |-> FALSE, cdr |-> 0, aie |-> FALSE, aiv |-> 0,
              mfe |-> FALSE, mfi |-> 0]

UbcInit == [ch |-> [i \in Channels |-> NoChannel], mf |-> [i \in Channels |-> FALSE], cet |-> 0,
            ubde |-> FALSE, powered |-> TRUE, fetchHit |-> FALSE, opHit |-> FALSE, breaks |-> 0]
=============================================================================
