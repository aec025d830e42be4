-------------------------------- MODULE Mmu --------------------------------
(***************************************************************************)
(* The MMU of emu_go/mmu.go.  An entry of the UTLB is a record              *)
(*   [vpn, asid, v, sz, pr, d, sh, ppn]                                     *)
(* with sz the bytes of its page; the unit u holds the UTLB, the index of  *)
(* the last hit, and the control registers.                                *)
(***************************************************************************)
EXTENDS Integers, FiniteSets, FiniteSetsExt

CONSTANTS UtlbSize, PageBytes     \* entries; bytes of the smallest page

ASSUME MmuAssumption == UtlbSize \in Nat \ {0} /\ PageBytes \in Nat \ {0}

Slots == 0 .. UtlbSize - 1

NoEntry == [vpn |-> 0, asid |-> 0, v |-> FALSE, sz |-> PageBytes, pr |-> 0, d |-> FALSE, sh |-> FALSE, ppn |-> 0]

PageOf(a, sz) == a - (a % sz)

Matches(u, e, va, md) ==
  /\ e.v /\ PageOf(va, e.sz) = PageOf(e.vpn, e.sz)
  /\ e.sh \/ (md /\ u.sv) \/ e.asid = u.pteh.asid

Hits(u, va, md) == {i \in Slots : Matches(u, u.utlb[i], va, md)}

\* The fast path first, then the lowest index.
Index(u, va, md) ==
  LET first(hits) == IF u.last \in hits THEN u.last ELSE Min(hits) IN first(Hits(u, va, md))

\* What translate panics with: {} or one mmuFault.
FaultAt(u, va, write, md) ==
  LET fault(expevt, vector) == {[va |-> va, expevt |-> expevt, vector |-> vector]}
      refused(e) == IF (md /\ write /\ e.pr = 0) \/ (~md /\ (e.pr < 2 \/ (write /\ e.pr = 2)))
                      THEN fault(IF write THEN "0C0" ELSE "0A0", "general")
                    ELSE IF write /\ ~e.d THEN fault("080", "general")
                    ELSE {}
  IN IF Hits(u, va, md) = {} THEN fault(IF write THEN "060" ELSE "040", "miss")
     ELSE refused(u.utlb[Index(u, va, md)])

Within(e, va) == PageOf(e.ppn, e.sz) + (va % e.sz)
PhysicalOf(u, va, md) == Within(u.utlb[Index(u, va, md)], va)

\* The state a translation leaves: a hit is remembered, even one it then refuses.
LookedUp(u, va, md) ==
  IF Hits(u, va, md) = {} THEN u ELSE [u EXCEPT !.last = Index(u, va, md)]

\* MMUCR: TI invalidates every entry and reads back 0.
WriteMMUCR(u, at, ti, urc, sv) ==
  [u EXCEPT !.utlb = [i \in Slots |-> IF ti THEN [u.utlb[i] EXCEPT !.v = FALSE] ELSE u.utlb[i]],
            !.at = at, !.urc = urc, !.sv = sv]

\* With URC not looked at.
ldtlbFirst(u) == [u EXCEPT !.utlb[0] = [u.ptel EXCEPT !.vpn = u.pteh.vpn, !.asid = u.pteh.asid]]
ldtlb(u) == [u EXCEPT !.utlb[u.urc] = [u.ptel EXCEPT !.vpn = u.pteh.vpn, !.asid = u.pteh.asid]]

\* The address array, by entry and by association; the data array.
WriteAddress(u, i, vpn, asid, v, d) ==
  [u EXCEPT !.utlb[i] = [u.utlb[i] EXCEPT !.vpn = vpn, !.asid = asid, !.v = v, !.d = d]]

Associated(u, e, vpn, asid) ==
  PageOf(vpn, e.sz) = PageOf(e.vpn, e.sz) /\ (e.sh \/ u.sv \/ e.asid = asid)
WriteAssociative(u, vpn, asid, v, d) ==
  [u EXCEPT !.utlb = [i \in Slots |->
     IF Associated(u, u.utlb[i], vpn, asid) THEN [u.utlb[i] EXCEPT !.v = v, !.d = d] ELSE u.utlb[i]]]

WriteData(u, i, e) ==
  [u EXCEPT !.utlb[i] = [e EXCEPT !.vpn = u.utlb[i].vpn, !.asid = u.utlb[i].asid]]

\* A save-state keeps the entries that hold anything, and the registers.
StateMap(u) ==
  [entries |-> {<<i, u.utlb[i]>> : i \in {j \in Slots : u.utlb[j] # NoEntry}},
   regs |-> [u EXCEPT !.utlb = [i \in Slots |-> NoEntry], !.last = 0]]

RestoreState(m) ==
  [m.regs EXCEPT !.utlb = [i \in Slots |->
     IF \E x \in m.entries : x[1] = i THEN (CHOOSE x \in m.entries : x[1] = i)[2] ELSE NoEntry]]

MmuInit(at) ==
  [utlb |-> [i \in Slots |-> NoEntry], last |-> 0, at |-> at, sv |-> FALSE, urc |-> 0,
   pteh |-> [vpn |-> 0, asid |-> 1], ptel |-> NoEntry, tea |-> 0, expevt |-> "0A02"]
=============================================================================
