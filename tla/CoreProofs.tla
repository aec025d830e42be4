----------------------------- MODULE CoreProofs -----------------------------
(***************************************************************************)
(* Proofs about Core, for words, TLBs, programs and requests of any size.  *)
(* Between two steps no instruction is half done (NothingHalfDone): a      *)
(* fault undoes whatever the instruction, or its branch, had done          *)
(* (FaultsArePrecise), a handler keeps the registers it returns by while   *)
(* exceptions are blocked (ReturnIsKept), a break was asked for by some    *)
(* channel (BreaksAreAsked), and a save-state resumed translates every     *)
(* address as before (ResumedTranslates).                                  *)
(*                                                                         *)
(* The OS, which is outside the code, may do whatever OsKeeps allows; what *)
(* the model has it do is shown to be of that kind (OsDoesKeeps).          *)
(***************************************************************************)
EXTENDS Core, TLAPS, WellFoundedInduction

---------------------------------------------------------------------------
(* Machines that differ in a few fields. *)

\* d is c but for the fields of S.
Same(m, d, S) == DOMAIN m = Fields /\ DOMAIN d = Fields /\ \A f \in Fields \ S : d[f] = m[f]

\* The MMU but for the memory of the last hit; the break unit but for its marks.
SameTlb(u, v) == [v EXCEPT !.last = 0] = [u EXCEPT !.last = 0]
SameUnit(u, v) ==
  /\ DOMAIN v = DOMAIN u
  /\ \A f \in DOMAIN u \ {"mf", "cet", "fetchHit", "opHit"} : v[f] = u[f]

\* Nothing changes but the fields named: reflexive, transitive, monotone; one field set.
LEMMA SameSelf == ASSUME NEW m, DOMAIN m = Fields, NEW S PROVE Same(m, m, S)
BY DEF Same

LEMMA SameOn ==
  ASSUME NEW m, NEW d, NEW e, NEW S, NEW T, Same(m, d, S), Same(d, e, T)
  PROVE  Same(m, e, S \cup T)
BY DEF Same

LEMMA SameMore ==
  ASSUME NEW m, NEW d, NEW S, NEW T, Same(m, d, S), S \subseteq T
  PROVE  Same(m, d, T)
BY DEF Same

LEMMA SetField ==
  ASSUME NEW m, NEW x, NEW v, DOMAIN m = Fields
  PROVE  /\ Same(m, [m EXCEPT ![x] = v], {x})
         /\ x \in Fields => [m EXCEPT ![x] = v][x] = v
BY DEF Same

\* A look-up in the UTLB remembers the last hit and changes nothing else.
LEMMA LookedSame ==
  ASSUME NEW m, NEW va, DOMAIN m = Fields
  PROVE  /\ Same(m, Looked(m, va), {"mmu"})
         /\ SameTlb(m.mmu, Looked(m, va).mmu)
<1> "mmu" \in Fields
  BY DEF Fields
<1>1. CASE ~Translated(m, va)
  BY <1>1 DEF Looked, Same, SameTlb
<1>2. CASE Translated(m, va)
  <2> DEFINE u == LookedUp(m.mmu, va, Priv(m))
  <2>1. SameTlb(m.mmu, u)
    BY DEF LookedUp, SameTlb
  <2> HIDE DEF u
  <2>2. Looked(m, va) = [m EXCEPT !.mmu = u]
    BY <1>2 DEF Looked, u
  <2> QED
    BY <2>1, <2>2, SetField
<1> QED
  BY <1>1, <1>2

---------------------------------------------------------------------------
(* The break unit. *)

\* Some channel asks for a break at an operand.
Asking(u) == \E i \in Channels : u.ch[i].ce /\ u.ch[i].bie /\ u.ch[i].id # "fetch"
\* A unit after matches: only its flags, and a break only if a channel asks for one.
Flagged(u, v) ==
  /\ SameUnit(u, v)
  /\ v.opHit => u.opHit \/ Asking(u)

\* No operand break is flagged, or may be, that was not before.
AsksNoMore(u, v) == v.opHit \/ Asking(v) => u.opHit \/ Asking(u)

\* What a break unit keeps while it watches an instruction.
LEMMA SameUnitOn ==
  ASSUME NEW u, NEW v, NEW w, SameUnit(u, v), SameUnit(v, w)
  PROVE  SameUnit(u, w)
BY DEF SameUnit

LEMMA FlaggedUnit ==
  ASSUME NEW u, NEW v, BreakUnit(u), Flagged(u, v)
  PROVE  BreakUnit(v) /\ v.ch = u.ch
BY DEF Flagged, SameUnit, BreakUnit

LEMMA FlaggedAsks == ASSUME NEW u, NEW v, BreakUnit(u), Flagged(u, v) PROVE AsksNoMore(u, v)
<1>1. v.ch = u.ch
  BY FlaggedUnit
<1> QED
  BY <1>1 DEF AsksNoMore, Flagged, Asking

LEMMA FlaggedOn ==
  ASSUME NEW u, NEW v, NEW w, BreakUnit(u), Flagged(u, v), Flagged(v, w)
  PROVE  Flagged(u, w)
<1>1. v.ch = u.ch
  BY DEF Flagged, SameUnit, BreakUnit
<1>2. Asking(v) <=> Asking(u)
  BY <1>1 DEF Asking
<1> QED
  BY <1>2, SameUnitOn DEF Flagged

\* Matches of some channels: the break they ask for, if one of them does.
Marked(u, v, asks, matched) ==
  /\ SameUnit(u, v)
  /\ v[asks] => u[asks] \/ \E i \in Channels \cap matched : u.ch[i].bie
  /\ \A x \in {"opHit", "fetchHit"} \ {asks} : v[x] = u[x]

\* Hit: a channel that matches raises the break it asks for, at its count.
LEMMA HitMarked ==
  ASSUME NEW u, NEW matched, NEW i \in Channels \cap matched, NEW asks \in {"opHit", "fetchHit"}, BreakUnit(u)
  PROVE  Marked(u, Hit(u, i, asks), asks, matched)
<1> DEFINE counts == i = 1 /\ u.ch[1].etbe /\ u.cet > 1
           cet == IF counts THEN u.cet - 1 ELSE u.cet
           ask == u[asks] \/ (~counts /\ u.ch[i].bie)
           mf == [u.mf EXCEPT ![i] = TRUE]
           v == [[[u EXCEPT !.mf = mf] EXCEPT !.cet = cet] EXCEPT ![asks] = ask]
<1>0. Hit(u, i, asks) = v
  BY DEF Hit
<1>1. ask => u[asks] \/ \E j \in Channels \cap matched : u.ch[j].bie
  OBVIOUS
<1> DEFINE w == [[u EXCEPT !.mf = mf] EXCEPT !.cet = cet]
<1> HIDE DEF counts, cet, ask, mf
<1>2. /\ DOMAIN w = DOMAIN u
      /\ \A x \in DOMAIN u \ {"mf", "cet"} : w[x] = u[x]
  OBVIOUS
<1> HIDE DEF w
<1>3. /\ DOMAIN v = DOMAIN w /\ v[asks] = ask
      /\ \A x \in DOMAIN w \ {asks} : v[x] = w[x]
  BY <1>2 DEF BreakUnit, w
<1>4. SameUnit(u, v)
  BY <1>2, <1>3 DEF SameUnit
<1>5. \A x \in {"opHit", "fetchHit"} \ {asks} : v[x] = u[x]
  BY <1>2, <1>3 DEF BreakUnit
<1> QED
  BY <1>0, <1>1, <1>3, <1>4, <1>5 DEF Marked

\* InTurn: so do the channels one after another.
LEMMA InTurnMarked ==
  ASSUME NEW u, BreakUnit(u), NEW matched, NEW asid, NEW asks \in {"opHit", "fetchHit"}
  PROVE  Marked(u, InTurn(u, matched, asid, asks), asks, matched)
<1> DEFINE one(v, i) == IF i \in matched /\ Cond(v, i, asid) THEN Hit(v, i, asks) ELSE v
           first == one(u, 0)
           last == one(first, 1)
<1>0. 0 \in Channels /\ 1 \in Channels
  BY DEF Channels
<1>1. \A v : Marked(v, v, asks, matched)
  BY DEF Marked, SameUnit
<1>2. Marked(u, first, asks, matched)
  BY <1>0, <1>1, HitMarked
<1> HIDE DEF first
<1>3. BreakUnit(first) /\ first.ch = u.ch
  BY <1>2 DEF Marked, SameUnit, BreakUnit
<1>4. Marked(first, last, asks, matched)
  BY <1>0, <1>1, <1>3, HitMarked
<1> HIDE DEF last
<1>5. Marked(u, last, asks, matched)
  BY <1>2, <1>3, <1>4, SameUnitOn DEF Marked
<1> QED
  BY <1>5 DEF InTurn, first, last

\* An access watched flags an operand break only for a channel that asks for one.
LEMMA OperandFlagged ==
  ASSUME NEW u, BreakUnit(u), NEW va, NEW size, NEW val, NEW write, NEW asid
  PROVE  Flagged(u, Operand(u, va, size, val, write, asid))
<1> DEFINE matches(k, i) ==
        /\ k.ce /\ k.id # "fetch"
        /\ k.rw # (IF write THEN "read" ELSE "write")
        /\ k.sz \in {0, size}
        /\ Addr(k, va)
        /\ (i = 1 /\ k.dbe) => val = k.cdr
      matched == {i \in Channels : matches(u.ch[i], i)}
<1>1. \A i \in Channels \cap matched : u.ch[i].ce /\ u.ch[i].id # "fetch"
  OBVIOUS
<1> HIDE DEF matched
<1>2. Marked(u, InTurn(u, matched, asid, "opHit"), "opHit", matched)
  BY InTurnMarked
<1>3. Flagged(u, InTurn(u, matched, asid, "opHit"))
  BY <1>1, <1>2 DEF Marked, Flagged, Asking
<1> QED
  BY <1>3 DEF Operand, matched

\* A fetch: a channel that watches it, before or after.
FetchAsks(u, pc, delayed, after) ==
  \E i \in Channels : LET k == u.ch[i] IN
    /\ WatchesFetch(k) /\ k.bie /\ k.pcb = after
    /\ Addr(k, pc) \/ (Addr(k, pc + 2) /\ delayed)

\* A fetch watched flags a break only for a channel that watches this fetch.
LEMMA FetchMarked ==
  ASSUME NEW u, BreakUnit(u), NEW pc, NEW delayed, NEW after, NEW asid
  PROVE  LET v == FetchMatch(u, pc, delayed, after, asid) IN
         /\ SameUnit(u, v) /\ v.opHit = u.opHit
         /\ v.fetchHit => FetchAsks(u, pc, delayed, after)
<1> DEFINE matches(k) ==
        /\ WatchesFetch(k) /\ k.rw # "write" /\ k.pcb = after
        /\ Addr(k, pc) \/ (Addr(k, pc + 2) /\ delayed)
      matched == {i \in Channels : matches(u.ch[i])}
      w == [u EXCEPT !.fetchHit = FALSE]
      v == InTurn(w, matched, asid, "fetchHit")
<1>1. \A i \in Channels \cap matched : u.ch[i].bie => FetchAsks(u, pc, delayed, after)
  BY DEF FetchAsks
<1>2. FetchMatch(u, pc, delayed, after, asid) = v
  BY DEF FetchMatch
<1> HIDE DEF matched
<1>3. SameUnit(u, w) /\ w.fetchHit = FALSE /\ w.opHit = u.opHit /\ w.ch = u.ch /\ BreakUnit(w)
  BY DEF BreakUnit, SameUnit
<1> HIDE DEF w
<1>4. Marked(w, v, "fetchHit", matched)
  BY <1>3, InTurnMarked
<1> HIDE DEF v
<1>5. SameUnit(u, v) /\ v.opHit = u.opHit /\ (v.fetchHit => FetchAsks(u, pc, delayed, after))
  BY <1>1, <1>3, <1>4, SameUnitOn DEF Marked
<1> QED
  BY <1>2, <1>5

---------------------------------------------------------------------------
(* Accesses to memory. *)

\* A machine that executes.
Ready(m) == Shape(m) /\ m.fault = {} /\ ~m.dead

\* What an access to memory does to the machine.
Access(m, d, S) ==
  /\ Same(m, d, {"mmu", "ubc", "fault", "dead"} \cup S)
  /\ SameTlb(m.mmu, d.mmu) /\ Flagged(m.ubc, d.ubc)
  /\ d.dead \in {m.dead, TRUE}
  /\ d.fault # {} => d.dead = m.dead /\ d.mem = m.mem

\* The watch on an access changes the break unit only.
LEMMA WatchSame ==
  ASSUME NEW m, DOMAIN m = Fields, BreakUnit(m.ubc), NEW va, NEW size, NEW val, NEW write
  PROVE  /\ Same(m, Watch(m, va, size, val, write), {"ubc"})
         /\ Flagged(m.ubc, Watch(m, va, size, val, write).ubc)
<1> "ubc" \in Fields
  BY DEF Fields
<1> DEFINE u == Operand(m.ubc, va, size, val, write, m.mmu.pteh.asid)
<1>1. Flagged(m.ubc, u) /\ Flagged(m.ubc, m.ubc)
  BY OperandFlagged DEF Flagged, SameUnit
<1> HIDE DEF u
<1>2. Watch(m, va, size, val, write) = IF m.ops THEN [m EXCEPT !.ubc = u] ELSE m
  BY DEF Watch, u
<1>3. /\ Same(m, [m EXCEPT !.ubc = u], {"ubc"}) /\ [m EXCEPT !.ubc = u].ubc = u
      /\ Same(m, m, {"ubc"})
  BY SetField, SameSelf
<1> QED
  BY <1>1, <1>2, <1>3

\* A read: memory as it was; at a fault the machine is as it was.
LEMMA LoadedAccess ==
  ASSUME NEW m, Ready(m), NEW va, NEW size
  PROVE  Access(m, Loaded(m, va, size), {})
<1> DEFINE l == Looked(m, va)
           f == FaultOf(m, va, FALSE)
           ok == Physical(m, va) .. Physical(m, va) + size - 1 \subseteq DOMAIN m.mem
           w == Watch(l, va, size, beRead(m.mem, Physical(m, va), size), FALSE)
           d == Loaded(m, va, size)
<1>0. {"mmu", "ubc", "fault", "dead", "mem"} \subseteq Fields
  BY DEF Fields
<1>1. d = IF f = {} THEN (IF ok THEN w ELSE [m EXCEPT !.dead = TRUE]) ELSE [l EXCEPT !.fault = f]
  BY DEF Loaded
<1>2. Same(m, l, {"mmu"}) /\ SameTlb(m.mmu, l.mmu)
  BY LookedSame DEF Ready, Shape
<1>3. DOMAIN l = Fields /\ l.ubc = m.ubc /\ l.fault = m.fault /\ l.dead = m.dead /\ l.mem = m.mem
  BY <1>0, <1>2 DEF Same
<1>4. Same(l, w, {"ubc"}) /\ Flagged(l.ubc, w.ubc)
  BY <1>3, WatchSame DEF Ready, Shape
<1>5. SameTlb(m.mmu, m.mmu) /\ Flagged(m.ubc, m.ubc)
  BY DEF SameTlb, Flagged, SameUnit
<1> SUFFICES Access(m, d, {})
  OBVIOUS
<1> HIDE DEF l, f, ok, w, d
<1>6. CASE f = {} /\ ok
  <2>1. d = w
    BY <1>1, <1>6
  <2>2. Same(m, w, {"mmu", "ubc"})
    BY <1>2, <1>4 DEF Same
  <2>3. w.fault = {} /\ w.mmu = l.mmu /\ w.dead = m.dead
    BY <1>0, <1>3, <1>4 DEF Same, Ready, Shape
  <2>4. Same(m, w, {"mmu", "ubc", "fault", "dead"} \cup {})
    BY ONLY <2>2, SameMore
  <2> QED
    BY ONLY <1>2, <1>3, <1>4, <2>1, <2>3, <2>4 DEF Access
<1>7. CASE f = {} /\ ~ok
  <2>1. d = [m EXCEPT !.dead = TRUE]
    BY <1>1, <1>7
  <2>2. Same(m, d, {"dead"})
    BY <2>1, SetField DEF Ready, Shape
  <2>3. d.fault = {} /\ d.mmu = m.mmu /\ d.ubc = m.ubc /\ d.dead = TRUE
    BY <1>0, <2>1, <2>2 DEF Same, Ready, Shape
  <2>4. Same(m, d, {"mmu", "ubc", "fault", "dead"} \cup {})
    BY ONLY <2>2, SameMore
  <2> QED
    BY ONLY <1>5, <2>3, <2>4 DEF Access
<1>8. CASE f # {}
  <2>1. d = [l EXCEPT !.fault = f]
    BY <1>1, <1>8
  <2>2. Same(l, d, {"fault"})
    BY <1>3, <2>1, SetField
  <2>3. Same(m, d, {"mmu", "fault"})
    BY <1>2, <2>2 DEF Same
  <2>4. d.mmu = l.mmu /\ d.ubc = m.ubc /\ d.dead = m.dead /\ d.mem = m.mem
    BY <1>0, <1>3, <2>2 DEF Same
  <2>5. Same(m, d, {"mmu", "ubc", "fault", "dead"} \cup {})
    BY ONLY <2>3, SameMore
  <2> QED
    BY ONLY <1>2, <1>5, <2>4, <2>5, Ready(m) DEF Access, Ready, Shape
<1> QED
  BY <1>6, <1>7, <1>8 DEF d

\* A write: at a fault the memory, too, is as it was.
LEMMA StoredAccess ==
  ASSUME NEW m, Ready(m), NEW va, NEW size, NEW val
  PROVE  Access(m, Stored(m, va, size, val), {"mem"})
<1> DEFINE v == val % 2^(B * size)
           w == Watch(m, va, size, v, TRUE)
           l == Looked(w, va)
           f == FaultOf(m, va, TRUE)
           pa == Physical(m, va)
           ok == pa .. pa + size - 1 \subseteq DOMAIN m.mem
           mem == beWrite(l.mem, pa, size, v)
           d == Stored(m, va, size, val)
<1>0. {"mmu", "ubc", "fault", "dead", "mem"} \subseteq Fields
  BY DEF Fields
<1>1. d = IF f = {} THEN (IF ok THEN [l EXCEPT !.mem = mem] ELSE [m EXCEPT !.dead = TRUE])
          ELSE [l EXCEPT !.fault = f]
  BY DEF Stored
<1>2. Same(m, w, {"ubc"}) /\ Flagged(m.ubc, w.ubc)
  BY WatchSame DEF Ready, Shape
<1>3. DOMAIN w = Fields /\ w.mmu = m.mmu /\ w.fault = m.fault /\ w.dead = m.dead /\ w.mem = m.mem
  BY <1>0, <1>2 DEF Same
<1>4. Same(w, l, {"mmu"}) /\ SameTlb(w.mmu, l.mmu)
  BY <1>3, LookedSame
<1>5. SameTlb(m.mmu, m.mmu) /\ Flagged(m.ubc, m.ubc)
  BY DEF SameTlb, Flagged, SameUnit
<1>6. /\ Same(m, l, {"mmu", "ubc"}) /\ l.ubc = w.ubc /\ l.fault = m.fault /\ l.dead = m.dead /\ l.mem = m.mem
      /\ SameTlb(m.mmu, l.mmu) /\ DOMAIN l = Fields
  BY <1>0, <1>2, <1>3, <1>4 DEF Same
<1> SUFFICES Access(m, d, {"mem"})
  OBVIOUS
<1> HIDE DEF v, l, f, ok, w, d, mem
<1>7. CASE f = {} /\ ok
  <2>1. d = [l EXCEPT !.mem = mem]
    BY <1>1, <1>7
  <2>2. Same(l, d, {"mem"})
    BY <1>6, <2>1, SetField
  <2>3. d.fault = {} /\ d.mmu = l.mmu /\ d.ubc = l.ubc /\ d.dead = m.dead
    BY <1>0, <1>6, <2>2 DEF Same, Ready, Shape
  <2>4. Same(m, d, {"mmu", "ubc", "fault", "dead"} \cup {"mem"})
    <3>1. Same(m, d, {"mmu", "ubc"} \cup {"mem"})
      BY ONLY <1>6, <2>2, SameOn
    <3> QED
      BY ONLY <3>1, SameMore
  <2> QED
    BY ONLY <1>2, <1>6, <2>3, <2>4 DEF Access
<1>8. CASE f = {} /\ ~ok
  <2>1. d = [m EXCEPT !.dead = TRUE]
    BY <1>1, <1>8
  <2>2. Same(m, d, {"dead"})
    BY <2>1, SetField DEF Ready, Shape
  <2>3. d.fault = {} /\ d.mmu = m.mmu /\ d.ubc = m.ubc /\ d.dead = TRUE
    BY <1>0, <2>1, <2>2 DEF Same, Ready, Shape
  <2>4. Same(m, d, {"mmu", "ubc", "fault", "dead"} \cup {"mem"})
    BY ONLY <2>2, SameMore
  <2> QED
    BY ONLY <1>5, <2>3, <2>4 DEF Access
<1>9. CASE f # {}
  <2>1. d = [l EXCEPT !.fault = f]
    BY <1>1, <1>9
  <2>2. Same(l, d, {"fault"})
    BY <1>6, <2>1, SetField
  <2>3. Same(m, d, {"mmu", "ubc", "fault"})
    BY <1>6, <2>2 DEF Same
  <2>4. d.mmu = l.mmu /\ d.ubc = l.ubc /\ d.dead = m.dead /\ d.mem = m.mem
    BY <1>0, <1>6, <2>2 DEF Same
  <2>5. Same(m, d, {"mmu", "ubc", "fault", "dead"} \cup {"mem"})
    BY ONLY <2>3, SameMore
  <2> QED
    BY ONLY <1>2, <1>6, <2>4, <2>5, Ready(m) DEF Access, Ready, Shape
<1> QED
  BY <1>7, <1>8, <1>9 DEF d

---------------------------------------------------------------------------
(* Instructions that are no branches. *)

\* What an instruction that has only read, so far, has done to the machine.
Mid(m, d) ==
  /\ Same(m, d, {"r", "sr", "mmu", "ubc", "fault", "dead"})
  /\ Shape(d)
  /\ SameTlb(m.mmu, d.mmu) /\ Flagged(m.ubc, d.ubc)
  /\ d.fault # {} => d.dead = m.dead

\* What no instruction touches; what the rollback restores, or the entry rewrites;
\* where a handler returns to.
Fixed == {"prog", "ops", "inSlot", "slotPC", "faulted", "intmu", "irqCnt"}
Restored == {"r", "rbank1", "pr", "sr", "gbr", "mach", "macl", "pc", "ldst", "inSlot", "excTaken", "slotPC",
             "fault", "mmu", "ubc"}
Pure == {"r", "rbank1", "pc", "pr", "gbr", "vbr", "dbr", "mach", "macl", "sr", "ldst", "sleeping", "mmu", "mem",
         "os"}

\* A whole instruction that is no branch.
Work(m, d, i) ==
  /\ Same(m, d, Fields \ Fixed)
  /\ Shape(d)
  /\ d.ubc.breaks = m.ubc.breaks /\ d.ubc.powered = m.ubc.powered /\ AsksNoMore(m.ubc, d.ubc)
  /\ d.excTaken \in {m.excTaken, m.inSlot}
  /\ d.fault # {} => /\ d.dead = m.dead /\ Same(m, d, Restored)
                     /\ SameTlb(m.mmu, d.mmu) /\ Flagged(m.ubc, d.ubc)
  /\ m.sr.BL = 1 => \A f \in Return : d[f] = m[f] \/ Writes(i, f)

\* The UTLB but for the memory of the last hit.
LEMMA SameTlbOn ==
  ASSUME NEW u, NEW v, NEW w, SameTlb(u, v), SameTlb(v, w)
  PROVE  SameTlb(u, w)
BY DEF SameTlb

LEMMA TlbShape ==
  ASSUME NEW u, NEW v, SameTlb(u, v), {"utlb", "last", "at", "sv", "pteh"} \subseteq DOMAIN u
  PROVE  DOMAIN v = DOMAIN u /\ v.utlb = u.utlb
<1>1. DOMAIN [v EXCEPT !.last = 0] = DOMAIN v /\ DOMAIN [u EXCEPT !.last = 0] = DOMAIN u
  OBVIOUS
<1>2. DOMAIN v = DOMAIN u
  BY <1>1 DEF SameTlb
<1>3. [v EXCEPT !.last = 0].utlb = v.utlb /\ [u EXCEPT !.last = 0].utlb = u.utlb
  BY <1>2
<1> QED
  BY <1>2, <1>3 DEF SameTlb

\* An access leaves a machine that is one.
LEMMA AccessShape ==
  ASSUME NEW m, NEW d, NEW S, Shape(m), Access(m, d, S), S \subseteq {"mem"}
  PROVE  Shape(d)
<1>0. {"mmu", "ubc", "sr", "ssr"} \subseteq Fields
  BY DEF Fields
<1>1. d.sr = m.sr /\ d.ssr = m.ssr /\ DOMAIN d = Fields /\ d.dead \in BOOLEAN
  BY <1>0 DEF Access, Same, Shape
<1>2. BreakUnit(d.ubc)
  BY FlaggedUnit DEF Access, Shape
<1>3. DOMAIN d.mmu = DOMAIN m.mmu /\ d.mmu.utlb = m.mmu.utlb
  BY TlbShape DEF Access, Shape
<1> QED
  BY <1>1, <1>2, <1>3 DEF Shape

\* An instruction may read again after what it has only read so far.
LEMMA MidSelf == ASSUME NEW m, Ready(m) PROVE Mid(m, m)
BY SameSelf DEF Mid, Ready, Shape, SameTlb, Flagged, SameUnit

LEMMA MidLoad ==
  ASSUME NEW m, NEW d, Ready(m), Mid(m, d), Ready(d), NEW va, NEW size
  PROVE  Mid(m, Loaded(d, va, size))
<1> DEFINE e == Loaded(d, va, size)
<1>1. Access(d, e, {})
  BY LoadedAccess
<1> SUFFICES Mid(m, e)
  OBVIOUS
<1> HIDE DEF e
<1>2. Shape(e)
  BY <1>1, AccessShape DEF Ready
<1>3. SameTlb(m.mmu, e.mmu) /\ Flagged(m.ubc, e.ubc)
  BY <1>1, SameTlbOn, FlaggedOn DEF Access, Mid, Ready, Shape
<1>4. Same(m, e, {"r", "sr", "mmu", "ubc", "fault", "dead"} \cup ({"mmu", "ubc", "fault", "dead"} \cup {}))
  BY <1>1, SameOn DEF Access, Mid
<1>5. Same(m, e, {"r", "sr", "mmu", "ubc", "fault", "dead"})
  BY <1>4, SameMore
<1>6. d.dead = m.dead
  BY DEF Ready, Shape
<1> QED
  BY <1>1, <1>2, <1>3, <1>5, <1>6 DEF Mid, Access

\* And set its registers and flags, which a fault later puts back.
LEMMA MidSet ==
  ASSUME NEW m, NEW d, NEW e, Mid(m, d), Same(d, e, {"r", "sr"}), {"MD", "RB", "BL"} \subseteq DOMAIN e.sr
  PROVE  Mid(m, e)
<1>0. {"mmu", "ubc", "fault", "dead", "ssr"} \subseteq Fields
  BY DEF Fields
<1>1. e.mmu = d.mmu /\ e.ubc = d.ubc /\ e.fault = d.fault /\ e.dead = d.dead /\ e.ssr = d.ssr /\ DOMAIN e = Fields
  BY <1>0 DEF Same
<1>2. Same(m, e, {"r", "sr", "mmu", "ubc", "fault", "dead"} \cup {"r", "sr"})
  BY SameOn DEF Mid
<1>3. Same(m, e, {"r", "sr", "mmu", "ubc", "fault", "dead"})
  BY <1>2, SameMore
<1> QED
  BY <1>1, <1>3 DEF Mid, Shape

\* An instruction that only reads is a whole instruction.
LEMMA MidWork ==
  ASSUME NEW m, NEW d, NEW i, Ready(m), Mid(m, d)
  PROVE  Work(m, d, i)
<1>0. {"r", "sr", "mmu", "ubc", "fault", "dead"} \subseteq Fields \ Fixed
      /\ Return \subseteq Fields \ {"r", "sr", "mmu", "ubc", "fault", "dead"}
      /\ "excTaken" \in Fields \ {"r", "sr", "mmu", "ubc", "fault", "dead"}
      /\ "dead" \in Fields
  BY DEF Fields, Fixed, Return
<1>1. Same(m, d, Fields \ Fixed)
  BY <1>0, SameMore DEF Mid
<1>2. d.ubc.breaks = m.ubc.breaks /\ d.ubc.powered = m.ubc.powered /\ AsksNoMore(m.ubc, d.ubc)
  BY FlaggedAsks DEF Mid, Ready, Shape, Flagged, SameUnit, BreakUnit
<1>3. d.excTaken = m.excTaken /\ \A f \in Return : d[f] = m[f]
  BY <1>0 DEF Mid, Same
<1>4. ASSUME d.fault # {} PROVE Same(m, d, Restored)
  <2>1. d.dead = m.dead
    BY <1>4 DEF Mid
  <2> QED
    BY <2>1 DEF Mid, Same, Restored
<1> QED
  BY <1>1, <1>2, <1>3, <1>4 DEF Work, Mid

\* After a store, nothing more may fault.
LEMMA StoreWork ==
  ASSUME NEW m, NEW d, NEW i, Ready(m), Mid(m, d), Ready(d), NEW va, NEW size, NEW val
  PROVE  Work(m, Stored(d, va, size, val), i)
<1> DEFINE e == Stored(d, va, size, val)
           all == {"r", "sr", "mmu", "ubc", "fault", "dead"} \cup ({"mmu", "ubc", "fault", "dead"} \cup {"mem"})
<1>1. Access(d, e, {"mem"})
  BY StoredAccess
<1> SUFFICES Work(m, e, i)
  OBVIOUS
<1> HIDE DEF e
<1>2. Shape(e)
  BY <1>1, AccessShape DEF Ready
<1>3. SameTlb(m.mmu, e.mmu) /\ Flagged(m.ubc, e.ubc)
  BY <1>1, SameTlbOn, FlaggedOn DEF Access, Mid, Ready, Shape
<1>4. Same(m, e, all)
  BY <1>1, SameOn DEF Access, Mid
<1>5. /\ all \subseteq Fields \ Fixed /\ Return \subseteq Fields \ all /\ "excTaken" \in Fields \ all
      /\ {"dead", "mem"} \subseteq Fields
  BY DEF Fields, Fixed, Return
<1>6. e.ubc.breaks = m.ubc.breaks /\ e.ubc.powered = m.ubc.powered /\ AsksNoMore(m.ubc, e.ubc)
  BY <1>3, FlaggedAsks DEF Ready, Shape, Flagged, SameUnit, BreakUnit
<1>7. e.excTaken = m.excTaken /\ \A f \in Return : e[f] = m[f]
  BY <1>4, <1>5 DEF Same
<1>8. ASSUME e.fault # {} PROVE e.dead = m.dead /\ Same(m, e, Restored)
  <2>1. d.dead = m.dead
    BY DEF Ready, Shape
  <2>2. d.mem = m.mem
    BY <1>5 DEF Mid, Same, Fields
  <2>3. e.dead = m.dead /\ e.mem = m.mem
    BY <1>1, <1>8, <2>1, <2>2 DEF Access
  <2> QED
    BY <1>4, <2>3 DEF Same, Restored
<1>9. Same(m, e, Fields \ Fixed)
  BY <1>4, <1>5, SameMore
<1> QED
  BY <1>2, <1>3, <1>6, <1>7, <1>8, <1>9 DEF Work

\* What follows an access that went through.
LEMMA EndWork ==
  ASSUME NEW m, NEW d, NEW e, NEW i, NEW S, Ready(m), Work(m, d, i), Ready(d), Shape(e), Same(d, e, S),
         \A f \in S : f \in Pure \/ Loads(i, f), S \subseteq Fields \ (Fixed \cup {"ubc", "fault", "excTaken"})
  PROVE  Work(m, e, i)
<1>1. Same(m, e, (Fields \ Fixed) \cup S)
  BY SameOn DEF Work
<1>2. Same(m, e, Fields \ Fixed)
  BY <1>1, SameMore
<1>3. e.ubc = d.ubc /\ e.fault = {} /\ e.excTaken = d.excTaken
  BY DEF Same, Ready, Fields
<1>4. Return \subseteq Fields /\ Return \cap Pure = {}
  BY DEF Return, Fields, Pure
<1>5. ASSUME m.sr.BL = 1, NEW f \in Return PROVE e[f] = m[f] \/ Writes(i, f)
  <2>1. d[f] = m[f] \/ Writes(i, f)
    BY <1>5 DEF Work
  <2>2. CASE f \in S
    BY <1>4, <2>2 DEF Writes
  <2>3. CASE f \notin S
    BY <1>4, <2>1, <2>3 DEF Same
  <2> QED
    BY <2>2, <2>3
<1> QED
  BY <1>2, <1>3, <1>5 DEF Work

\* ALU instructions, which cannot fault.
LEMMA WithResultWork ==
  ASSUME NEW m, NEW n, NEW a, NEW i, Ready(m)
  PROVE  Work(m, WithResult(m, n, a), i)
<1> DEFINE r == [m.r EXCEPT ![n] = a.rn]
           sr == [m.sr EXCEPT !.T = a.T, !.Q = a.Q, !.M = a.M, !.S = a.S]
           e == [m EXCEPT !.r = r, !.sr = sr, !.mach = a.mach, !.macl = a.macl]
<1>1. WithResult(m, n, a) = e
  BY DEF WithResult
<1>2. DOMAIN sr = DOMAIN m.sr
  OBVIOUS
<1> HIDE DEF r, sr
<1>3. Same(m, e, {"r", "sr", "mach", "macl"}) /\ e.sr = sr
  BY DEF Same, Ready, Shape, Fields
<1>4. e.ubc = m.ubc /\ e.mmu = m.mmu /\ e.ssr = m.ssr /\ e.dead = m.dead
  BY <1>3 DEF Same, Fields
<1> HIDE DEF e
<1>5. Shape(e)
  BY <1>2, <1>3, <1>4 DEF Ready, Shape, Same
<1>6. {"r", "sr", "mach", "macl"} \subseteq Pure \cap (Fields \ (Fixed \cup {"ubc", "fault", "excTaken"}))
  BY DEF Pure, Fields, Fixed
<1> QED
  BY <1>1, <1>3, <1>5, <1>6, MidSelf, MidWork, EndWork

\* Then: what follows an access happens only if the machine has not stopped.
LEMMA StoppedOrReady == ASSUME NEW d, Shape(d), ~Stopped(d) PROVE Ready(d)
BY DEF Stopped, Ready

LEMMA ThenWork ==
  ASSUME NEW m, NEW d, NEW e, NEW i, Work(m, d, i), Ready(d) => Work(m, e, i)
  PROVE  Work(m, Then(d, e), i)
<1>1. CASE Stopped(d)
  BY <1>1 DEF Then
<1>2. CASE ~Stopped(d)
  BY <1>2, StoppedOrReady DEF Then, Work
<1> QED
  BY <1>1, <1>2

LEMMA ThenMid ==
  ASSUME NEW m, NEW d, NEW e, Mid(m, d), Ready(d) => Mid(m, e)
  PROVE  Mid(m, Then(d, e))
<1>1. CASE Stopped(d)
  BY <1>1 DEF Then
<1>2. CASE ~Stopped(d)
  BY <1>2, StoppedOrReady DEF Then, Mid
<1> QED
  BY <1>1, <1>2

\* A register set, stepped on, loaded, popped.
LEMMA SetRegister ==
  ASSUME NEW d, NEW v, Shape(d)
  PROVE  /\ Same(d, [d EXCEPT !.r = v], {"r", "sr"})
         /\ [d EXCEPT !.r = v].sr = d.sr
         /\ Shape([d EXCEPT !.r = v])
         /\ Ready(d) => Ready([d EXCEPT !.r = v])
<1> DEFINE e == [d EXCEPT !.r = v]
<1>1. Same(d, e, {"r"})
  BY SetField DEF Shape
<1> HIDE DEF e
<1>2. /\ e.sr = d.sr /\ e.ubc = d.ubc /\ e.mmu = d.mmu /\ e.ssr = d.ssr /\ e.dead = d.dead /\ e.fault = d.fault
      /\ DOMAIN e = Fields
  BY <1>1 DEF Same, Fields
<1>3. Shape(e)
  BY <1>2 DEF Shape
<1>4. Same(d, e, {"r", "sr"})
  BY <1>1, SameMore
<1>5. Ready(d) => Ready(e)
  BY <1>2, <1>3 DEF Ready
<1> QED
  BY <1>2, <1>3, <1>4, <1>5 DEF e

LEMMA SetRegisterMid ==
  ASSUME NEW m, NEW d, NEW v, Mid(m, d)
  PROVE  Mid(m, [d EXCEPT !.r = v])
<1> DEFINE e == [d EXCEPT !.r = v]
<1>1. Shape(d)
  BY DEF Mid
<1>2. Same(d, e, {"r", "sr"}) /\ e.sr = d.sr
  BY <1>1, SetRegister
<1> HIDE DEF e
<1>3. Mid(m, e)
  BY <1>1, <1>2, MidSet DEF Shape
<1> QED
  BY <1>3 DEF e

LEMMA IncreasedMid ==
  ASSUME NEW m, NEW d, NEW n, NEW by, Mid(m, d)
  PROVE  Mid(m, Increased(d, n, by))
<1> DEFINE v == [d.r EXCEPT ![n] = U(@ + by)]
<1>1. Increased(d, n, by) = Then(d, [d EXCEPT !.r = v])
  BY DEF Increased
<1> HIDE DEF v
<1> QED
  BY <1>1, SetRegisterMid, ThenMid

LEMMA IntoMid ==
  ASSUME NEW m, NEW d, NEW n, NEW x, Mid(m, d)
  PROVE  Mid(m, Into(d, n, x))
<1> DEFINE v == [d.r EXCEPT ![n] = x]
<1>1. Into(d, n, x) = Then(d, [d EXCEPT !.r = v])
  BY DEF Into
<1> HIDE DEF v
<1> QED
  BY <1>1, SetRegisterMid, ThenMid

LEMMA PoppedMid ==
  ASSUME NEW m, NEW d, NEW n, NEW size, Ready(m), Mid(m, d), Ready(d)
  PROVE  Mid(m, Popped(d, n, size))
BY MidLoad, IncreasedMid DEF Popped

\* Changes outside the MMU, the break unit and the modes keep the machine one.
LEMMA PureShape ==
  ASSUME NEW d, NEW e, NEW S, Shape(d), Same(d, e, S), S \cap {"ubc", "mmu", "sr", "ssr", "dead"} = {}
  PROVE  Shape(e)
<1>1. /\ e.sr = d.sr /\ e.ubc = d.ubc /\ e.mmu = d.mmu /\ e.ssr = d.ssr /\ e.dead = d.dead
      /\ DOMAIN e = Fields
  BY DEF Same, Fields
<1> QED
  BY <1>1 DEF Shape

\* And may end an instruction.
LEMMA PureWork ==
  ASSUME NEW m, NEW d, NEW e, NEW i, NEW S, Ready(m), Work(m, d, i), Ready(d), Same(d, e, S),
         S \subseteq Pure, S \cap {"mmu", "sr", "prog"} = {}
  PROVE  Work(m, e, i)
<1>1. Pure \subseteq Fields \ (Fixed \cup {"ubc", "fault", "excTaken"}) /\ Pure \cap {"ubc", "ssr", "dead"} = {}
  BY DEF Pure, Fields, Fixed
<1>2. Shape(e)
  BY <1>1, PureShape DEF Ready
<1> QED
  BY <1>1, <1>2, EndWork

\* mac.l and mac.w: two reads, both of which may fault, before any result.
LEMMA MacWork == ASSUME NEW m, NEW i, Ready(m) PROVE Work(m, ExecMac(m, i), i)
<1> DEFINE size == IF i.op = "mac.l" THEN 4 ELSE 2
           p == Popped(m, i.n, size)
           q == Popped(p, i.m, size)
           tn == Value(m, m.r[i.n], size)
           tm == Value(p, p.r[i.m], size)
           f == Accumulated(q, i, tn, tm)
<1>1. Mid(m, p)
  BY MidSelf, PoppedMid
<1>2. ExecMac(m, i) = Then(p, Then(p, f)) \/ ExecMac(m, i) = Then(p, f)
  BY DEF ExecMac
<1> HIDE DEF size, p, q, tn, tm, f
<1>3. ASSUME Ready(p) PROVE Work(m, f, i)
  <2> DEFINE a == [Operands(q, i.n, tm) EXCEPT !.rn = tn]
             mac == IF i.op = "mac.l" THEN MacL(a) ELSE MacW(a)
             e == [q EXCEPT !.mach = mac.mach, !.macl = mac.macl]
  <2>1. Mid(m, q)
    BY <1>1, <1>3, PoppedMid DEF q
  <2>2. f = Then(q, e)
    BY DEF f, Accumulated
  <2> HIDE DEF mac
  <2>3. Same(q, e, {"mach", "macl"})
    BY <2>1 DEF Same, Mid, Shape
  <2> HIDE DEF e
  <2>4. Work(m, q, i)
    BY <2>1, MidWork
  <2>5. {"mach", "macl"} \subseteq Pure
    BY DEF Pure
  <2>6. Ready(q) => Work(m, e, i)
    BY <2>3, <2>4, <2>5, PureWork
  <2> QED
    BY <2>2, <2>4, <2>6, ThenWork
<1>4. Work(m, p, i)
  BY <1>1, MidWork
<1>5. Work(m, Then(p, f), i)
  BY <1>3, <1>4, ThenWork
<1> QED
  BY <1>2, <1>4, <1>5, ThenWork

\* Loads, with their increments.
LEMMA LoadWork == ASSUME NEW m, NEW i, Ready(m) PROVE Work(m, ExecLoad(m, i), i)
<1> DEFINE va == LoadAddress(m, i)
           v == Extended(Value(m, va, i.s), i.s)
           by == IF i.op = "inc" THEN i.s ELSE 0
<1>1. ExecLoad(m, i) = Increased(Into(Loaded(m, va, i.s), i.n, v), i.m, by)
  BY DEF ExecLoad
<1> HIDE DEF va, v, by
<1>2. Mid(m, Loaded(m, va, i.s))
  BY MidSelf, MidLoad
<1>3. Mid(m, Into(Loaded(m, va, i.s), i.n, v))
  BY <1>2, IntoMid
<1> QED
  BY <1>1, <1>3, IncreasedMid, MidWork

\* Stores, with their decrements: the register is set only after the write.
LEMMA ExecStoreWork == ASSUME NEW m, NEW i, Ready(m) PROVE Work(m, ExecStore(m, i), i)
<1> DEFINE v == [m.r EXCEPT ![i.n] = U(@ - i.s)]
           d == IF i.op = "dec" THEN [m EXCEPT !.r = v] ELSE m
           va == CASE i.op \in {"at", "dec"} -> d.r[i.n]
                   [] i.op = "disp" -> U(d.r[i.n] + i.d * i.s)
                   [] i.op = "r0" -> U(d.r[0] + d.r[i.n])
                   [] i.op = "gbr" -> U(d.gbr + i.d * i.s)
<1>1. ExecStore(m, i) = Stored(d, va, i.s, d.r[i.m])
  BY DEF ExecStore
<1> HIDE DEF v, va
<1>2. Mid(m, d) /\ Ready(d)
  BY MidSelf, SetRegisterMid, SetRegister DEF Ready
<1> HIDE DEF d
<1> QED
  BY <1>1, <1>2, StoreWork

\* The T bit set between a read and a write.
LEMMA SetT ==
  ASSUME NEW d, NEW v, Shape(d)
  PROVE  LET e == [d EXCEPT !.sr.T = v] IN
         /\ Same(d, e, {"r", "sr"}) /\ DOMAIN e.sr = DOMAIN d.sr /\ Shape(e)
         /\ Ready(d) => Ready(e)
<1> DEFINE sr == [d.sr EXCEPT !.T = v]
           e == [d EXCEPT !.sr = sr]
<1>1. DOMAIN sr = DOMAIN d.sr
  OBVIOUS
<1>2. [d EXCEPT !.sr.T = v] = e
  OBVIOUS
<1> HIDE DEF sr
<1>3. Same(d, e, {"sr"}) /\ e.sr = sr
  BY SetField DEF Shape, Fields
<1> HIDE DEF e
<1>4. /\ e.ubc = d.ubc /\ e.mmu = d.mmu /\ e.ssr = d.ssr /\ e.dead = d.dead /\ e.fault = d.fault
      /\ DOMAIN e = Fields
  BY <1>3 DEF Same, Fields
<1>5. Shape(e)
  BY <1>1, <1>3, <1>4 DEF Shape
<1>6. Same(d, e, {"r", "sr"})
  BY <1>3, SameMore
<1> QED
  BY <1>1, <1>2, <1>3, <1>4, <1>5, <1>6 DEF Ready

LEMMA SetTMid ==
  ASSUME NEW m, NEW d, NEW v, Mid(m, d)
  PROVE  Mid(m, [d EXCEPT !.sr.T = v])
<1> DEFINE e == [d EXCEPT !.sr.T = v]
<1>1. Shape(d)
  BY DEF Mid
<1>2. Same(d, e, {"r", "sr"}) /\ DOMAIN e.sr = DOMAIN d.sr
  BY <1>1, SetT
<1> HIDE DEF e
<1>3. Mid(m, e)
  BY <1>1, <1>2, MidSet DEF Shape
<1> QED
  BY <1>3 DEF e

\* Read-modify-writes: tas.b, and.b, or.b, xor.b, tst.b.
LEMMA ModifyWork == ASSUME NEW m, NEW i, Ready(m) PROVE Work(m, ExecModify(m, i), i)
<1> DEFINE va == IF i.op = "tas.b" THEN m.r[i.n] ELSE U(m.gbr + m.r[0])
           l == Loaded(m, va, 1)
           v == Value(m, va, 1)
           wv == CASE i.op = "and" -> And(v, i.d)
                   [] i.op = "xor" -> Xor(v, i.d)
                   [] OTHER -> Or(v, IF i.op = "tas.b" THEN 2^(B - 1) ELSE i.d)
           T == IF i.op = "tst" THEN b2u(And(v, i.d) = 0) ELSE b2u(v = 0)
           t == [l EXCEPT !.sr.T = T]
           d == IF i.op = "tas.b" THEN t ELSE l
           e == IF i.op = "tst" THEN t ELSE Stored(d, va, 1, wv)
<1>1. ExecModify(m, i) = Then(l, e)
  <2>1. CASE i.op = "tst"
    BY <2>1 DEF ExecModify
  <2>2. CASE i.op = "tas.b"
    BY <2>2 DEF ExecModify
  <2>3. CASE i.op # "tst" /\ i.op # "tas.b"
    <3> DEFINE s(y, x) == Stored(y, va, 1, x)
    <3>1. ExecModify(m, i) = Then(l, s(l, wv))
      BY <2>3 DEF ExecModify
    <3>2. e = s(l, wv)
      BY <2>3
    <3> QED
      BY <3>1, <3>2
  <2> QED
    BY <2>1, <2>2, <2>3
<1>2. Mid(m, l)
  BY MidSelf, MidLoad
<1> HIDE DEF va, l, v, wv, T
<1>3. Mid(m, t)
  BY <1>2, SetTMid
<1>4. Ready(l) => Ready(t)
  BY <1>2, SetT DEF Mid
<1> HIDE DEF t
<1>5. ASSUME Ready(l) PROVE Work(m, e, i)
  BY <1>2, <1>3, <1>4, <1>5, StoreWork, MidWork
<1> QED
  BY <1>1, <1>2, <1>5, MidWork, ThenWork

\* movua.l: four reads of a byte, each of which may fault.
LEMMA UnalignedWork == ASSUME NEW m, NEW i, Ready(m) PROVE Work(m, ExecUnaligned(m, i), i)
<1> DEFINE next(d, k) == Then(d, Loaded(d, U(m.r[i.n] + k), 1))
           read == CHOOSE f : f = [k \in 0..4 |-> IF k = 0 THEN m ELSE next(f[k - 1], k - 1)]
           v == [k \in 0..3 |-> Value(m, U(m.r[i.n] + k), 1)]
           w == ((v[0] * 2^B + v[1]) * 2^B + v[2]) * 2^B + v[3]
           by == IF i.op = "inc" THEN 4 ELSE 0
<1>1. ExecUnaligned(m, i) = Into(Increased(read[4], i.n, by), 0, w)
  BY DEF ExecUnaligned
<1>2. \A d, k : Mid(m, d) => Mid(m, next(d, k))
  BY ThenMid, MidLoad
<1> HIDE DEF next, v, w, by
<1>3. read = [k \in 0..4 |-> IF k = 0 THEN m ELSE next(read[k - 1], k - 1)]
  <2> DEFINE d1 == next(m, 0)
             d2 == next(d1, 1)
             d3 == next(d2, 2)
             d4 == next(d3, 3)
             f == [k \in 0..4 |-> IF k = 0 THEN m ELSE IF k = 1 THEN d1 ELSE IF k = 2 THEN d2 ELSE IF k = 3 THEN d3 ELSE d4]
  <2>1. f = [k \in 0..4 |-> IF k = 0 THEN m ELSE next(f[k - 1], k - 1)]
    OBVIOUS
  <2> QED
    BY <2>1
<1> HIDE DEF read
<1>4. read[0] = m /\ \A k \in 1..4 : read[k] = next(read[k - 1], k - 1)
  BY <1>3
<1>5. Mid(m, read[1])
  BY <1>2, <1>4, MidSelf
<1>6. Mid(m, read[2])
  BY <1>2, <1>4, <1>5
<1>7. Mid(m, read[3])
  BY <1>2, <1>4, <1>6
<1>8. Mid(m, read[4])
  BY <1>2, <1>4, <1>7
<1> QED
  BY <1>1, <1>8, IncreasedMid, IntoMid, MidWork

\* stc and sts, to a register or to memory.
LEMMA StoreControlWork == ASSUME NEW m, NEW i, Ready(m) PROVE Work(m, ExecStoreControl(m, i), i)
<1> DEFINE v == [m.r EXCEPT ![i.n] = U(@ - 4)]
           x == ControlOf(m, i)
           w == [m.r EXCEPT ![i.n] = x]
           d == [m EXCEPT !.r = v]
<1>1. ExecStoreControl(m, i) = IF i.op = "dec" THEN Stored(d, d.r[i.n], 4, x) ELSE [m EXCEPT !.r = w]
  BY DEF ExecStoreControl
<1> HIDE DEF v, x, w
<1>2. Mid(m, d) /\ Ready(d) /\ Mid(m, [m EXCEPT !.r = w])
  BY MidSelf, SetRegisterMid, SetRegister DEF Ready
<1> HIDE DEF d
<1> QED
  BY <1>1, <1>2, StoreWork, MidWork

\* movli.l and movco.l, with the reservation.
LEMMA LinkedWork == ASSUME NEW m, NEW i, Ready(m) PROVE Work(m, ExecLinked(m, i), i)
<1>1. {"r", "ldst"} \subseteq Pure /\ {"r", "ldst"} \cap {"mmu", "sr", "prog"} = {}
  BY DEF Pure
<1>2. CASE i.op = "movli"
  <2> DEFINE l == Loaded(m, m.r[i.n], 4)
             e == [l EXCEPT !.r[0] = Value(m, m.r[i.n], 4), !.ldst = TRUE]
  <2>1. ExecLinked(m, i) = Then(l, e)
    BY <1>2 DEF ExecLinked
  <2>2. Mid(m, l)
    BY MidSelf, MidLoad
  <2> HIDE DEF l
  <2>3. Same(l, e, {"r", "ldst"})
    BY <2>2 DEF Same, Mid, Shape
  <2> HIDE DEF e
  <2> QED
    BY <1>1, <2>1, <2>2, <2>3, MidWork, PureWork, ThenWork
<1>3. CASE i.op # "movli"
  <2> DEFINE s == IF m.ldst THEN Stored(m, m.r[i.n], 4, m.r[0]) ELSE m
             t == [s EXCEPT !.sr.T = b2u(m.ldst)]
             e == [t EXCEPT !.ldst = FALSE]
  <2>1. ExecLinked(m, i) = Then(s, [s EXCEPT !.sr.T = b2u(m.ldst), !.ldst = FALSE])
    BY <1>3 DEF ExecLinked
  <2>2. [s EXCEPT !.sr.T = b2u(m.ldst), !.ldst = FALSE] = e
    OBVIOUS
  <2>3. Work(m, s, i)
    BY MidSelf, MidWork, StoreWork
  <2> HIDE DEF s
  <2>4. ASSUME Ready(s) PROVE Work(m, e, i)
    <3>1. Same(s, t, {"r", "sr"}) /\ Shape(t) /\ Ready(t)
      BY <2>4, SetT DEF Ready
    <3> HIDE DEF t
    <3>2. {"r", "sr"} \subseteq Pure /\ {"r", "sr"} \subseteq Fields \ (Fixed \cup {"ubc", "fault", "excTaken"})
      BY DEF Pure, Fields, Fixed
    <3>3. Work(m, t, i)
      BY <2>3, <2>4, <3>1, <3>2, EndWork
    <3>4. Same(t, e, {"ldst"})
      BY <3>1, SetField DEF Shape
    <3> HIDE DEF e
    <3> QED
      BY <1>1, <3>1, <3>3, <3>4, PureWork
  <2> QED
    BY <2>1, <2>2, <2>3, <2>4, ThenWork
<1> QED
  BY <1>2, <1>3

---------------------------------------------------------------------------
(* The modes, exceptions and system instructions. *)

\* The modes of SR.
SrFlags == {"MD", "RB", "BL"}

\* SR set, the banks swapped with it.
LEMMA SetSr ==
  ASSUME NEW d, NEW sr, DOMAIN d = Fields
  PROVE  Same(d, setSR(d, sr), {"sr", "rbank1", "r"}) /\ setSR(d, sr).sr = sr
<1> DEFINE bank == [k \in Banked |-> d.r[k]]
           regs == [k \in Regs |-> IF k \in Banked THEN d.rbank1[k] ELSE d.r[k]]
<1>1. setSR(d, sr) = IF bank1(d.sr) = bank1(sr) THEN [d EXCEPT !.sr = sr]
                     ELSE [d EXCEPT !.sr = sr, !.rbank1 = bank, !.r = regs]
  BY DEF setSR
<1> HIDE DEF bank, regs
<1>2. /\ Same(d, [d EXCEPT !.sr = sr], {"sr", "rbank1", "r"}) /\ [d EXCEPT !.sr = sr].sr = sr
  BY DEF Same, Fields
<1>3. /\ Same(d, [d EXCEPT !.sr = sr, !.rbank1 = bank, !.r = regs], {"sr", "rbank1", "r"})
      /\ [d EXCEPT !.sr = sr, !.rbank1 = bank, !.r = regs].sr = sr
  BY DEF Same, Fields
<1> QED
  BY <1>1, <1>2, <1>3

LEMMA SetSrShape ==
  ASSUME NEW d, NEW sr, Shape(d), SrFlags \subseteq DOMAIN sr
  PROVE  /\ Shape(setSR(d, sr)) /\ Same(d, setSR(d, sr), {"sr", "rbank1", "r"})
         /\ Ready(d) => Ready(setSR(d, sr))
<1> DEFINE e == setSR(d, sr)
<1>1. Same(d, e, {"sr", "rbank1", "r"}) /\ e.sr = sr
  BY SetSr DEF Shape
<1> HIDE DEF e
<1>2. /\ e.ubc = d.ubc /\ e.mmu = d.mmu /\ e.ssr = d.ssr /\ e.dead = d.dead /\ e.fault = d.fault
      /\ DOMAIN e = Fields
  BY <1>1 DEF Same, Fields
<1>3. Shape(e)
  BY <1>1, <1>2 DEF Shape, SrFlags
<1> QED
  BY <1>1, <1>2, <1>3 DEF e, Ready

\* A word read as SR has its flags.
LEMMA SrOfFlags == ASSUME NEW v PROVE SrFlags \subseteq DOMAIN SrOf(v)
<1>1. DOMAIN SrOf(v) = {SrFields[k] : k \in DOMAIN SrFields}
  BY DEF SrOf, Range
<1>2. DOMAIN SrFields = 1..8 /\ SrFields[6] = "MD" /\ SrFields[7] = "RB" /\ SrFields[8] = "BL"
  BY DEF SrFields
<1>3. 6 \in DOMAIN SrFields /\ 7 \in DOMAIN SrFields /\ 8 \in DOMAIN SrFields
  BY <1>2
<1> QED
  BY <1>1, <1>2, <1>3 DEF SrFlags

\* ldc and lds: from memory the read comes first, so a fault changes no control register.
LEMMA LoadControlWork ==
  ASSUME NEW m, NEW i, Ready(m), i.k = "ldc", i.x \in Controls
  PROVE  Work(m, ExecLoadControl(m, i), i)
<1>1. ASSUME NEW d, Ready(d), Work(m, d, i), NEW v
      PROVE  Work(m, WithControl(d, i, v), i)
  <2>0. /\ {"sr", "rbank1", "r"} \subseteq Fields \ (Fixed \cup {"ubc", "fault", "excTaken"})
        /\ {"sr", "rbank1", "r"} \subseteq Pure
        /\ Shape(d) /\ DOMAIN d = Fields
    BY <1>1 DEF Fields, Fixed, Pure, Ready, Shape
  <2>1. CASE i.x = "sr"
    <3> DEFINE e == setSR(d, SrOf(v))
    <3>1. WithControl(d, i, v) = e
      BY <2>1 DEF WithControl
    <3>2. Shape(e) /\ Same(d, e, {"sr", "rbank1", "r"})
      BY <2>0, SrOfFlags, SetSrShape
    <3> HIDE DEF e
    <3> QED
      BY <1>1, <2>0, <3>1, <3>2, EndWork
  <2>2. CASE i.x = "ssr"
    <3> DEFINE w == SrOf(v)
               e == [d EXCEPT !.ssr = w]
    <3>1. WithControl(d, i, v) = e
      BY <2>2 DEF WithControl
    <3>2. SrFlags \subseteq DOMAIN w
      BY SrOfFlags
    <3> HIDE DEF w
    <3>3. Same(d, e, {"ssr"}) /\ e.ssr = w
      BY <2>0 DEF Fields, Same
    <3> HIDE DEF e
    <3>4. /\ e.ubc = d.ubc /\ e.mmu = d.mmu /\ e.sr = d.sr /\ e.dead = d.dead /\ DOMAIN e = Fields
      BY <3>3 DEF Same, Fields
    <3>5. Shape(e)
      BY <2>0, <3>2, <3>3, <3>4 DEF Shape, SrFlags
    <3>6. {"ssr"} \subseteq Fields \ (Fixed \cup {"ubc", "fault", "excTaken"}) /\ Loads(i, "ssr")
      BY <2>2 DEF Fields, Fixed, Loads
    <3> QED
      BY <1>1, <3>1, <3>3, <3>5, <3>6, EndWork
  <2>3. CASE i.x = "bank"
    <3> DEFINE w == [d.rbank1 EXCEPT ![i.m] = v]
               e == [d EXCEPT !.rbank1 = w]
    <3>1. WithControl(d, i, v) = e
      BY <2>3 DEF WithControl
    <3> HIDE DEF w
    <3>2. Same(d, e, {"rbank1"})
      BY <2>0, SetField
    <3> HIDE DEF e
    <3>3. {"rbank1"} \subseteq Pure /\ {"rbank1"} \cap {"mmu", "sr", "prog"} = {}
      BY DEF Pure
    <3> QED
      BY <1>1, <3>1, <3>2, <3>3, PureWork
  <2>4. CASE i.x \notin {"sr", "ssr", "bank"}
    <3> DEFINE e == [d EXCEPT ![i.x] = v]
    <3>1. WithControl(d, i, v) = e
      BY <2>4 DEF WithControl
    <3>2. Same(d, e, {i.x})
      BY <2>0, SetField
    <3> HIDE DEF e
    <3>3. {i.x} \subseteq Fields \ (Fixed \cup {"ubc", "fault", "excTaken"}) /\ Loads(i, i.x)
      BY <2>4 DEF Fields, Fixed, Loads, Controls
    <3>4. {i.x} \cap {"ubc", "mmu", "sr", "ssr", "dead"} = {}
      BY <2>4 DEF Controls
    <3>5. Shape(e)
      BY <2>0, <3>2, <3>4, PureShape
    <3> QED
      BY <1>1, <3>1, <3>2, <3>3, <3>5, EndWork
  <2> QED
    BY <2>1, <2>2, <2>3, <2>4
<1>2. CASE i.op # "inc"
  <2>1. ExecLoadControl(m, i) = WithControl(m, i, m.r[i.n])
    BY <1>2 DEF ExecLoadControl
  <2> QED
    BY <1>1, <2>1, MidSelf, MidWork
<1>3. CASE i.op = "inc"
  <2> DEFINE l == Loaded(m, m.r[i.n], 4)
             v == Value(m, m.r[i.n], 4)
             w == WithControl(l, i, v)
             r == [w.r EXCEPT ![i.n] = U(@ + 4)]
             e == [w EXCEPT !.r = r]
  <2>1. ExecLoadControl(m, i) = Then(l, Then(w, e))
    BY <1>3 DEF ExecLoadControl, Increased
  <2>2. Work(m, l, i)
    BY MidSelf, MidLoad, MidWork
  <2> HIDE DEF l, v
  <2>3. ASSUME Ready(l) PROVE Work(m, Then(w, e), i)
    <3>1. Work(m, w, i)
      BY <1>1, <2>2, <2>3
    <3> HIDE DEF w, r
    <3>2. ASSUME Ready(w) PROVE Work(m, e, i)
      <4>1. Same(w, e, {"r"})
        BY <3>2, SetField DEF Ready, Shape
      <4>2. {"r"} \subseteq Pure /\ {"r"} \cap {"mmu", "sr", "prog"} = {}
        BY DEF Pure
      <4> HIDE DEF e
      <4> QED
        BY <3>1, <3>2, <4>1, <4>2, PureWork
    <3> QED
      BY <3>1, <3>2, ThenWork
  <2> QED
    BY <2>1, <2>2, <2>3, ThenWork
<1> QED
  BY <1>2, <1>3

\* An exception entry sets MD, RB and BL.
LEMMA BlockedFlags ==
  ASSUME NEW sr, SrFlags \subseteq DOMAIN sr
  PROVE  DOMAIN Blocked(sr) = DOMAIN sr /\ Blocked(sr).BL = 1 /\ Blocked(sr).MD = 1 /\ Blocked(sr).RB = 1
BY DEF SrFlags, Blocked

\* The entry into a handler: where it returns to, in SSR and SPC, and the handler
\* in the bank of its own with exceptions blocked.
Rewritten == {"ssr", "spc", "sgr", "mmu", "lastExc", "sr", "rbank1", "r", "pc"}
\* What an exception entry writes.
LEMMA EnteredShape ==
  ASSUME NEW d, Shape(d), NEW expevt, NEW spc, NEW vector
  PROVE  LET e == Entered(d, expevt, spc, vector) IN
         /\ Same(d, e, Rewritten) /\ Shape(e)
         /\ e.spc = spc /\ e.ssr = d.sr /\ e.sr.BL = 1
<1> DEFINE mmu == [d.mmu EXCEPT !.expevt = expevt]
           a == [d EXCEPT !.ssr = d.sr, !.spc = spc, !.sgr = d.r[SP], !.mmu = mmu, !.lastExc = expevt]
           sr == Blocked(d.sr)
           b == setSR(a, sr)
           pc == U(vector)
           e == [b EXCEPT !.pc = pc]
<1>1. Entered(d, expevt, spc, vector) = e
  BY DEF Entered
<1>2. DOMAIN mmu = DOMAIN d.mmu /\ ({"utlb", "last", "at", "sv", "pteh"} \subseteq DOMAIN d.mmu => mmu.utlb = d.mmu.utlb)
  OBVIOUS
<1>3. SrFlags \subseteq DOMAIN sr /\ sr.BL = 1
  BY BlockedFlags DEF Shape, SrFlags
<1> HIDE DEF mmu, sr, pc
<1>4. /\ Same(d, a, {"ssr", "spc", "sgr", "mmu", "lastExc"})
      /\ a.ssr = d.sr /\ a.spc = spc /\ a.mmu = mmu
  BY DEF Same, Shape, Fields
<1> HIDE DEF a
<1>5. DOMAIN a = Fields /\ a.ubc = d.ubc /\ a.dead = d.dead /\ a.sr = d.sr
  BY <1>4 DEF Same, Fields
<1>6. Shape(a)
  BY <1>2, <1>4, <1>5 DEF Shape
<1>7. Shape(b) /\ Same(a, b, {"sr", "rbank1", "r"}) /\ b.sr = sr
  BY <1>3, <1>5, <1>6, SetSrShape, SetSr
<1> HIDE DEF b
<1>8. Same(b, e, {"pc"})
  BY <1>7, SetField DEF Shape
<1> HIDE DEF e
<1>9. Same(d, e, ({"ssr", "spc", "sgr", "mmu", "lastExc"} \cup {"sr", "rbank1", "r"}) \cup {"pc"})
  BY <1>4, <1>7, <1>8, SameOn
<1>10. Same(d, e, Rewritten)
  BY <1>9, SameMore DEF Rewritten
<1>11. Shape(e)
  BY <1>7, <1>8, PureShape
<1>12. e.spc = a.spc /\ e.ssr = a.ssr /\ e.sr = b.sr /\ e.mmu = a.mmu
  BY <1>7, <1>8 DEF Same, Fields
<1> QED
  BY <1>1, <1>3, <1>4, <1>7, <1>10, <1>11, <1>12 DEF mmu

\* A general exception: entered, or with exceptions blocked the machine is dead.
LEMMA ExceptionShape ==
  ASSUME NEW d, Ready(d), NEW expevt, NEW spc
  PROVE  LET e == GeneralException(d, expevt, spc) IN
         /\ Shape(e) /\ Same(d, e, Rewritten \cup {"dead", "ldst", "excTaken"})
         /\ d.sr.BL = 1 => Same(d, e, {"dead"})
         /\ e.excTaken \in {d.excTaken, d.inSlot}
<1> DEFINE a == Entered(d, expevt, spc, d.vbr + GeneralVector)
           b == [a EXCEPT !.ldst = FALSE, !.excTaken = d.inSlot]
           x == [d EXCEPT !.dead = TRUE]
           e == GeneralException(d, expevt, spc)
<1>1. e = IF d.sr.BL = 1 THEN x ELSE b
  BY DEF GeneralException
<1>2. Shape(a) /\ Same(d, a, Rewritten)
  BY EnteredShape DEF Ready
<1> HIDE DEF a
<1>3. Same(a, b, {"ldst", "excTaken"}) /\ b.excTaken = d.inSlot
  BY <1>2 DEF Same, Shape, Fields
<1> HIDE DEF b
<1>4. Shape(b)
  BY <1>2, <1>3, PureShape
<1>5. Same(d, b, Rewritten \cup {"ldst", "excTaken"})
  BY <1>2, <1>3, SameOn
<1>6. Same(d, b, Rewritten \cup {"dead", "ldst", "excTaken"})
  BY <1>5, SameMore
<1>7. Same(d, x, {"dead"}) /\ x.dead = TRUE
  BY DEF Same, Ready, Shape, Fields
<1> HIDE DEF x, e
<1>8. /\ x.ubc = d.ubc /\ x.mmu = d.mmu /\ x.sr = d.sr /\ x.ssr = d.ssr /\ DOMAIN x = Fields
      /\ x.excTaken = d.excTaken
  BY <1>7 DEF Same, Fields
<1>9. Shape(x)
  BY <1>7, <1>8 DEF Ready, Shape
<1>10. Same(d, x, Rewritten \cup {"dead", "ldst", "excTaken"})
  BY <1>7, SameMore
<1> QED
  BY <1>1, <1>3, <1>4, <1>6, <1>7, <1>8, <1>9, <1>10 DEF e

\* As an instruction: trapa, and an illegal instruction.
LEMMA ExceptionWork ==
  ASSUME NEW m, Ready(m), NEW expevt, NEW spc, NEW i
  PROVE  Work(m, GeneralException(m, expevt, spc), i)
<1> DEFINE e == GeneralException(m, expevt, spc)
<1>1. /\ Shape(e) /\ Same(m, e, Rewritten \cup {"dead", "ldst", "excTaken"})
      /\ m.sr.BL = 1 => Same(m, e, {"dead"})
      /\ e.excTaken \in {m.excTaken, m.inSlot}
  BY ExceptionShape
<1> HIDE DEF e
<1>2. Rewritten \cup {"dead", "ldst", "excTaken"} \subseteq Fields \ Fixed
  BY DEF Rewritten, Fields, Fixed
<1>3. Same(m, e, Fields \ Fixed)
  BY <1>1, <1>2, SameMore
<1>4. e.fault = {} /\ e.ubc = m.ubc
  BY <1>1 DEF Same, Fields, Rewritten, Ready
<1>5. m.sr.BL = 1 => \A f \in Return : e[f] = m[f]
  BY <1>1 DEF Same, Return, Fields
<1> QED
  BY <1>1, <1>3, <1>4, <1>5 DEF Work, e, AsksNoMore

LEMMA IllegalWork == ASSUME NEW m, Ready(m), NEW i PROVE Work(m, illegal(m), i)
BY ExceptionWork DEF illegal

\* ldtlb loads one entry.
LEMMA LdtlbWork == ASSUME NEW m, Ready(m), NEW i PROVE Work(m, [m EXCEPT !.mmu = ldtlb(m.mmu)], i)
<1> DEFINE x == [m.mmu.ptel EXCEPT !.vpn = m.mmu.pteh.vpn, !.asid = m.mmu.pteh.asid]
           utlb == [m.mmu.utlb EXCEPT ![m.mmu.urc] = x]
           u == [m.mmu EXCEPT !.utlb = utlb]
           e == [m EXCEPT !.mmu = u]
<1>1. ldtlb(m.mmu) = u
  BY DEF ldtlb
<1>2. utlb = [k \in Slots |-> utlb[k]]
  BY DEF Ready, Shape
<1> HIDE DEF utlb, x
<1>3. DOMAIN u = DOMAIN m.mmu /\ u.utlb = utlb
  BY DEF Ready, Shape
<1> HIDE DEF u
<1>4. Same(m, e, {"mmu"}) /\ e.mmu = u
  BY DEF Same, Ready, Shape, Fields
<1> HIDE DEF e
<1>5. /\ e.ubc = m.ubc /\ e.ssr = m.ssr /\ e.sr = m.sr /\ e.dead = m.dead /\ DOMAIN e = Fields
  BY <1>4 DEF Same, Fields
<1>6. Shape(e)
  BY <1>2, <1>3, <1>4, <1>5 DEF Ready, Shape
<1>7. {"mmu"} \subseteq Fields \ (Fixed \cup {"ubc", "fault", "excTaken"}) /\ {"mmu"} \subseteq Pure
  BY DEF Fields, Fixed, Pure
<1> QED
  BY <1>1, <1>4, <1>6, <1>7, MidSelf, MidWork, EndWork DEF e

\* The system instructions.
LEMMA SystemWork == ASSUME NEW m, Ready(m), NEW i PROVE Work(m, ExecSystem(m, i), i)
<1>0. \A f \in {"r", "sleeping"} : {f} \subseteq Pure /\ {f} \cap {"mmu", "sr", "prog"} = {}
  BY DEF Pure
<1>1. ASSUME NEW f \in {"r", "sleeping"}, NEW v PROVE Work(m, [m EXCEPT ![f] = v], i)
  <2> DEFINE e == [m EXCEPT ![f] = v]
  <2>1. Same(m, e, {f})
    BY SetField DEF Ready, Shape
  <2> HIDE DEF e
  <2>2. Work(m, e, i)
    BY <1>0, <2>1, MidSelf, MidWork, PureWork
  <2> QED
    BY <2>2 DEF e
<1>2. CASE i.op \in {"nop", "fpu"}
  BY <1>2, MidSelf, MidWork DEF ExecSystem
<1>3. CASE i.op = "sleep"
  <2>1. ExecSystem(m, i) = [m EXCEPT !.sleeping = TRUE]
    BY <1>3 DEF ExecSystem
  <2> QED
    BY <1>1, <2>1
<1>4. CASE i.op = "ldtlb"
  BY <1>4, LdtlbWork DEF ExecSystem
<1>5. CASE i.op = "trapa"
  BY <1>5, ExceptionWork DEF ExecSystem
<1>6. CASE i.op = "mova"
  <2> DEFINE a == m.pc + 2
             w == [m.r EXCEPT ![0] = U(a - (a % 4) + i.d * 4)]
  <2>1. ExecSystem(m, i) = [m EXCEPT !.r = w]
    BY <1>6 DEF ExecSystem
  <2> HIDE DEF w
  <2> QED
    BY <1>1, <2>1
<1>7. CASE i.op \notin {"nop", "fpu", "sleep", "ldtlb", "trapa", "mova"}
  BY <1>7, IllegalWork DEF ExecSystem
<1> QED
  BY <1>2, <1>3, <1>4, <1>5, <1>6, <1>7

\* What the OS does in its handlers, as a step of the machine: SPC, the MMU,
\* the memory and the break channels, and its own state.
OsKeeps ==
  \A m, i : Ready(m) /\ i.k = "os" =>
    LET d == OsWork(m, i) IN
      /\ Same(m, d, {"spc", "mmu", "mem", "ubc", "os"}) /\ Shape(d)
      /\ d.ubc.breaks = m.ubc.breaks /\ d.ubc.powered = m.ubc.powered /\ AsksNoMore(m.ubc, d.ubc)

\* What the OS does.
LEMMA OsWorkWork == ASSUME OsKeeps, NEW m, Ready(m), NEW i, i.k = "os" PROVE Work(m, OsWork(m, i), i)
<1> DEFINE d == OsWork(m, i)
<1>1. /\ Same(m, d, {"spc", "mmu", "mem", "ubc", "os"}) /\ Shape(d)
      /\ d.ubc.breaks = m.ubc.breaks /\ d.ubc.powered = m.ubc.powered /\ AsksNoMore(m.ubc, d.ubc)
  BY DEF OsKeeps
<1> HIDE DEF d
<1>2. {"spc", "mmu", "mem", "ubc", "os"} \subseteq Fields \ Fixed
  BY DEF Fields, Fixed
<1>3. Same(m, d, Fields \ Fixed)
  BY <1>1, <1>2, SameMore
<1>4. d.fault = {} /\ d.excTaken = m.excTaken
  BY <1>1 DEF Same, Fields, Ready
<1> QED
  BY <1>1, <1>3, <1>4 DEF Work, Writes, d

\* Every instruction that is no branch.
LEMMA SimpleWork == ASSUME OsKeeps, NEW m, Ready(m), NEW i PROVE Work(m, Simple(m, i), i)
<1>1. CASE i.k \in {"alu", "imm"}
  BY <1>1, WithResultWork DEF Simple, ExecRegister
<1>2. CASE i.k = "mac"
  BY <1>2, MacWork DEF Simple
<1>3. CASE i.k = "load"
  BY <1>3, LoadWork DEF Simple
<1>4. CASE i.k = "store"
  BY <1>4, ExecStoreWork DEF Simple
<1>5. CASE i.k = "modify"
  BY <1>5, ModifyWork DEF Simple
<1>6. CASE i.k = "movua"
  BY <1>6, UnalignedWork DEF Simple
<1>7. CASE i.k = "stc"
  BY <1>7, StoreControlWork DEF Simple
<1>8. CASE i.k = "ldc" /\ i.x \in Controls
  BY <1>8, LoadControlWork DEF Simple
<1>9. CASE i.k = "linked"
  BY <1>9, LinkedWork DEF Simple
<1>10. CASE i.k = "system"
  BY <1>10, SystemWork DEF Simple
<1>11. CASE i.k = "os"
  BY <1>11, OsWorkWork DEF Simple
<1>12. CASE /\ i.k \notin {"alu", "imm", "mac", "load", "store", "modify", "movua", "stc", "linked", "system", "os"}
            /\ ~(i.k = "ldc" /\ i.x \in Controls)
  <2>1. Simple(m, i) = illegal(m)
    BY <1>12 DEF Simple
  <2> QED
    BY <2>1, IllegalWork
<1> QED
  BY <1>1, <1>2, <1>3, <1>4, <1>5, <1>6, <1>7, <1>8, <1>9, <1>10, <1>11, <1>12

---------------------------------------------------------------------------
(* Whole instructions, branches with their slots included. *)

\* What no instruction changes, its slot included.
Whole == {"prog", "ops", "faulted", "intmu", "irqCnt"}

\* Between two instructions.
Quiet(m) == Ready(m) /\ m.inSlot = FALSE /\ m.excTaken = FALSE

\* A whole instruction, its slot included; it writes no field of Return but those of Ws.
Done(m, d, Ws) ==
  /\ Same(m, d, Fields \ Whole)
  /\ Shape(d)
  /\ d.ubc.breaks = m.ubc.breaks /\ d.ubc.powered = m.ubc.powered /\ AsksNoMore(m.ubc, d.ubc)
  /\ ~Stopped(d) => d.inSlot = FALSE /\ d.excTaken = FALSE
  /\ d.fault # {} => /\ d.dead = m.dead /\ Same(m, d, Restored)
                     /\ SameTlb(m.mmu, d.mmu) /\ Flagged(m.ubc, d.ubc)
  /\ m.sr.BL = 1 => \A f \in Return \ Ws : d[f] = m[f]

\* An instruction that is no branch, as a whole one.
LEMMA WorkDone ==
  ASSUME NEW m, NEW d, NEW i, NEW Ws, Quiet(m), Work(m, d, i), \A f \in Return : Writes(i, f) => f \in Ws
  PROVE  Done(m, d, Ws)
<1>1. Same(m, d, Fields \ Whole)
  <2>1. Fields \ Fixed \subseteq Fields \ Whole
    BY DEF Fixed, Whole
  <2> QED
    BY <2>1, SameMore DEF Work
<1>2. d.inSlot = FALSE /\ d.excTaken = FALSE
  BY DEF Work, Same, Fixed, Fields, Quiet
<1> QED
  BY <1>1, <1>2 DEF Work, Done

\* A fetch remembers the last hit, and may fault.
LEMMA FetchedSame ==
  ASSUME NEW m, Ready(m), NEW pc
  PROVE  LET f == Fetched(m, pc) IN
         /\ Same(m, f, {"mmu", "fault"}) /\ SameTlb(m.mmu, f.mmu) /\ Shape(f)
<1> DEFINE l == Looked(m, pc)
           x == FaultOf(m, pc, FALSE)
           f == [l EXCEPT !.fault = x]
<1>1. Fetched(m, pc) = f
  BY DEF Fetched
<1>2. Same(m, l, {"mmu"}) /\ SameTlb(m.mmu, l.mmu)
  BY LookedSame DEF Ready, Shape
<1> HIDE DEF l, x
<1>3. Same(l, f, {"fault"})
  BY <1>2, SetField DEF Same
<1> HIDE DEF f
<1>4. Same(m, f, {"mmu", "fault"})
  BY <1>2, <1>3 DEF Same
<1>5. f.mmu = l.mmu /\ f.sr = m.sr /\ f.ssr = m.ssr /\ f.ubc = m.ubc /\ f.dead = m.dead /\ DOMAIN f = Fields
  BY <1>2, <1>3 DEF Same, Fields
<1>6. DOMAIN f.mmu = DOMAIN m.mmu /\ f.mmu.utlb = m.mmu.utlb
  BY <1>2, <1>5, TlbShape DEF Ready, Shape
<1>7. Shape(f)
  BY <1>5, <1>6 DEF Ready, Shape
<1> QED
  BY <1>1, <1>2, <1>4, <1>5, <1>7

\* Composition: what came before the instruction proper.
LEMMA DoneAfter ==
  ASSUME NEW m, NEW d, NEW e, NEW Ws, Same(m, d, {"mmu", "fault", "pc"}), SameTlb(m.mmu, d.mmu), Ready(m), Ready(d),
         Done(d, e, Ws)
  PROVE  Done(m, e, Ws)
<1>1. /\ d.ubc = m.ubc /\ d.sr = m.sr /\ d.dead = m.dead /\ DOMAIN d = Fields
      /\ \A f \in Return : d[f] = m[f]
  BY DEF Same, Fields, Return
<1>2. /\ {"mmu", "fault", "pc"} \cup (Fields \ Whole) \subseteq Fields \ Whole
      /\ {"mmu", "fault", "pc"} \cup Restored \subseteq Restored
  BY DEF Fields, Whole, Restored
<1>3. Same(m, e, Fields \ Whole)
  <2>1. Same(m, e, {"mmu", "fault", "pc"} \cup (Fields \ Whole))
    BY SameOn DEF Done
  <2> QED
    BY <1>2, <2>1, SameMore
<1>4. ASSUME e.fault # {} PROVE Same(m, e, Restored) /\ SameTlb(m.mmu, e.mmu)
  <2>1. Same(d, e, Restored) /\ SameTlb(d.mmu, e.mmu)
    BY <1>4 DEF Done
  <2>2. Same(m, e, {"mmu", "fault", "pc"} \cup Restored)
    BY <2>1, SameOn
  <2> QED
    BY <1>2, <2>1, <2>2, SameMore, SameTlbOn
<1> QED
  BY <1>1, <1>3, <1>4 DEF Done

\* The machine an instruction executes in: past its fetch.
LEMMA PastFetch ==
  ASSUME NEW m, Quiet(m), NEW pc, NEW to, Ready(Fetched(m, pc))
  PROVE  LET e == [Fetched(m, pc) EXCEPT !.pc = to] IN
         Same(m, e, {"mmu", "fault", "pc"}) /\ SameTlb(m.mmu, e.mmu) /\ Quiet(e) /\ e.pc = to
<1> DEFINE f == Fetched(m, pc)
           e == [f EXCEPT !.pc = to]
<1>1. Same(m, f, {"mmu", "fault"}) /\ SameTlb(m.mmu, f.mmu) /\ Shape(f)
  BY FetchedSame DEF Quiet
<1>2. Ready(f)
  OBVIOUS
<1> HIDE DEF f
<1>3. Same(f, e, {"pc"}) /\ e.pc = to
  BY <1>1 DEF Same, Shape, Fields
<1> HIDE DEF e
<1>4. Same(m, e, {"mmu", "fault", "pc"})
  BY <1>1, <1>3 DEF Same
<1>5. e.mmu = f.mmu /\ e.fault = f.fault /\ e.dead = f.dead
  BY <1>3 DEF Same, Fields
<1>6. Shape(e)
  BY <1>1, <1>3, PureShape
<1>7. e.inSlot = m.inSlot /\ e.excTaken = m.excTaken
  BY <1>4 DEF Same, Fields
<1> QED
  BY <1>1, <1>2, <1>3, <1>4, <1>5, <1>6, <1>7 DEF Quiet, Ready, e, f

\* A branch with its slot: a fault in the slot is the fault of the whole.
LEMMA DelayedDone ==
  ASSUME OsKeeps, NEW m, Quiet(m), NEW target, NEW Ws,
         \A f \in Return : Writes(InstrAt(m, m.pc), f) => f \in Ws
  PROVE  Done(m, BranchDelayed(m, target), Ws)
<1> DEFINE f == Fetched(m, m.pc)
           slot == InstrAt(m, m.pc)
           to == U(f.pc + 2)
           from == U(m.pc - 2)
           s == [f EXCEPT !.pc = to, !.inSlot = TRUE, !.slotPC = from]
           w == Simple(s, slot)
           pc == IF w.excTaken THEN w.pc ELSE U(target)
           z == [w EXCEPT !.inSlot = FALSE, !.excTaken = FALSE, !.pc = pc]
           g == GeneralException(f, "1A0", from)
           d == BranchDelayed(m, target)
<1>1. d = Then(f, IF SlotIllegal(slot) THEN g ELSE Then(w, z))
  BY DEF BranchDelayed
<1>2. Same(m, f, {"mmu", "fault"}) /\ SameTlb(m.mmu, f.mmu) /\ Shape(f)
  BY FetchedSame DEF Quiet
<1> HIDE DEF f
<1>3. /\ f.ubc = m.ubc /\ f.sr = m.sr /\ f.dead = m.dead /\ f.inSlot = FALSE /\ f.excTaken = FALSE
      /\ \A x \in Return : f[x] = m[x]
  BY <1>2 DEF Same, Fields, Return, Quiet
<1>4. {"mmu", "fault"} \subseteq (Fields \ Whole) \cap Restored /\ {"mmu", "fault"} \subseteq {"mmu", "fault", "pc"}
  BY DEF Fields, Whole, Restored
<1>5. Done(m, f, Ws)
  <2>1. Same(m, f, Fields \ Whole) /\ Same(m, f, Restored)
    BY <1>2, <1>4, SameMore
  <2>2. Flagged(m.ubc, f.ubc)
    BY <1>3 DEF Flagged, SameUnit
  <2> QED
    BY <1>2, <1>3, <2>1, <2>2 DEF Done, AsksNoMore
<1>6. ASSUME Ready(f), SlotIllegal(slot) PROVE Done(m, g, Ws)
  <2>1. Quiet(f)
    BY <1>3, <1>6 DEF Quiet
  <2>2. Done(f, g, Ws)
    BY <1>6, <2>1, ExceptionWork, WorkDone
  <2>3. Same(m, f, {"mmu", "fault", "pc"})
    BY <1>2, <1>4, SameMore
  <2> QED
    BY <1>2, <1>6, <2>2, <2>3, DoneAfter DEF Quiet
<1>7. ASSUME Ready(f), ~SlotIllegal(slot) PROVE Done(m, Then(w, z), Ws)
  <2> HIDE DEF slot, to, from, pc
  <2>1. /\ Same(f, s, {"pc", "inSlot", "slotPC"}) /\ s.inSlot = TRUE
    BY <1>2 DEF Same, Fields
  <2> HIDE DEF s
  <2>2. Ready(s)
    <3>1. Shape(s)
      BY <1>2, <2>1, PureShape
    <3>2. s.fault = f.fault /\ s.dead = f.dead
      BY <2>1 DEF Same, Fields
    <3> QED
      BY <1>7, <3>1, <3>2 DEF Ready
  <2>3. Work(s, w, slot)
    BY <2>2, SimpleWork
  <2> HIDE DEF w
  <2>4. Same(m, s, {"mmu", "fault", "pc", "inSlot", "slotPC"})
    BY <1>2, <2>1 DEF Same
  <2>5. /\ s.ubc = m.ubc /\ s.sr = m.sr /\ s.dead = m.dead /\ s.mmu = f.mmu
        /\ \A x \in Return : s[x] = m[x]
    BY <1>3, <2>1, <2>4 DEF Same, Fields, Return
  <2>6. /\ {"mmu", "fault", "pc", "inSlot", "slotPC"} \cup (Fields \ Fixed) \subseteq Fields \ Whole
        /\ {"mmu", "fault", "pc", "inSlot", "slotPC"} \cup Restored \subseteq Restored
        /\ (Fields \ Whole) \cup {"inSlot", "excTaken", "pc"} \subseteq Fields \ Whole
    BY DEF Fields, Whole, Fixed, Restored
  <2>7. Same(m, w, Fields \ Whole)
    <3>1. Same(m, w, {"mmu", "fault", "pc", "inSlot", "slotPC"} \cup (Fields \ Fixed))
      BY <2>3, <2>4, SameOn DEF Work
    <3> QED
      BY <2>6, <3>1, SameMore
  <2>8. m.sr.BL = 1 => \A x \in Return \ Ws : w[x] = m[x]
    BY <2>3, <2>5 DEF Work, slot
  <2>9. CASE Stopped(w)
    <3>1. ASSUME w.fault # {} PROVE Same(m, w, Restored) /\ SameTlb(m.mmu, w.mmu)
      <4>1. Same(s, w, Restored) /\ SameTlb(s.mmu, w.mmu)
        BY <2>3, <3>1 DEF Work
      <4>2. Same(m, w, {"mmu", "fault", "pc", "inSlot", "slotPC"} \cup Restored)
        BY <2>4, <4>1, SameOn
      <4> QED
        BY <1>2, <2>5, <2>6, <4>1, <4>2, SameMore, SameTlbOn
    <3>2. Done(m, w, Ws)
      BY <2>3, <2>5, <2>7, <2>8, <2>9, <3>1 DEF Done, Work
    <3> QED
      BY <2>9, <3>2 DEF Then
  <2>10. CASE ~Stopped(w)
    <3>1. Same(w, z, {"inSlot", "excTaken", "pc"}) /\ z.inSlot = FALSE /\ z.excTaken = FALSE
      BY <2>3 DEF Same, Fields, Work
    <3> HIDE DEF z
    <3>2. Shape(z)
      BY <2>3, <3>1, PureShape DEF Work
    <3>3. Same(m, z, Fields \ Whole)
      <4>1. Same(m, z, (Fields \ Whole) \cup {"inSlot", "excTaken", "pc"})
        BY <2>7, <3>1, SameOn
      <4> QED
        BY <2>6, <4>1, SameMore
    <3>4. z.ubc = w.ubc /\ z.fault = w.fault /\ \A x \in Return : z[x] = w[x]
      BY <3>1 DEF Same, Fields, Return
    <3>5. Done(m, z, Ws)
      BY <2>3, <2>5, <2>8, <2>10, <3>1, <3>2, <3>3, <3>4 DEF Done, Work, Stopped
    <3> QED
      BY <2>10, <3>5 DEF Then
  <2> QED
    BY <2>9, <2>10
<1> SUFFICES Done(m, d, Ws)
  OBVIOUS
<1> HIDE DEF d, s, w, z, g
<1>8. CASE Stopped(f)
  BY <1>1, <1>5, <1>8 DEF Then
<1>9. CASE ~Stopped(f)
  BY <1>1, <1>2, <1>6, <1>7, <1>9, StoppedOrReady DEF Then
<1> QED
  BY <1>8, <1>9

\* Composition with what the branch did before its slot.
LEMMA DoneOn ==
  ASSUME NEW m, NEW d, NEW e, NEW Ws, NEW S, Quiet(m), Quiet(d), Same(m, d, S), S \subseteq {"sr", "rbank1", "r", "pr"},
         Done(d, e, Ws), "sr" \in S => Return \subseteq Ws
  PROVE  Done(m, e, Ws)
<1>1. /\ d.ubc = m.ubc /\ d.mmu = m.mmu /\ d.dead = m.dead
      /\ \A f \in Return : d[f] = m[f]
  BY DEF Same, Fields, Return, Quiet, Ready, Shape
<1>2. S \cup (Fields \ Whole) \subseteq Fields \ Whole /\ S \cup Restored \subseteq Restored
  BY DEF Fields, Whole, Restored
<1>3. Same(m, e, Fields \ Whole)
  <2>1. Same(m, e, S \cup (Fields \ Whole))
    BY SameOn DEF Done
  <2> QED
    BY <1>2, <2>1, SameMore
<1>4. ASSUME e.fault # {} PROVE Same(m, e, Restored) /\ SameTlb(m.mmu, e.mmu)
  <2>1. Same(d, e, Restored) /\ SameTlb(d.mmu, e.mmu)
    BY <1>4 DEF Done
  <2>2. Same(m, e, S \cup Restored)
    BY <2>1, SameOn
  <2> QED
    BY <1>1, <1>2, <2>1, <2>2, SameMore
<1>5. ASSUME m.sr.BL = 1, NEW f \in Return \ Ws PROVE e[f] = m[f]
  <2>1. d.sr = m.sr
    BY <1>5 DEF Same, Fields
  <2> QED
    BY <1>1, <1>5, <2>1 DEF Done
<1> QED
  BY <1>1, <1>3, <1>4, <1>5 DEF Done

\* What is fetched depends on the program, the MMU and the mode only.
LEMMA InstrSame ==
  ASSUME NEW m, NEW d, NEW pc, m.prog = d.prog, m.mmu = d.mmu, m.sr = d.sr
  PROVE  InstrAt(m, pc) = InstrAt(d, pc)
BY DEF InstrAt, Physical, Translated, Priv

\* A branch taken with no slot, and one not taken.
LEMMA PcDone ==
  ASSUME NEW m, Quiet(m), NEW to, NEW Ws
  PROVE  Done(m, [m EXCEPT !.pc = to], Ws)
<1> DEFINE d == [m EXCEPT !.pc = to]
<1>1. Same(m, d, {"pc"}) /\ Same(m, d, {"pc"} \cup (Fields \ Whole)) /\ Same(m, d, {"pc"} \cup Restored)
  BY DEF Same, Quiet, Ready, Shape
<1> HIDE DEF d
<1>2. {"pc"} \cup (Fields \ Whole) = Fields \ Whole /\ {"pc"} \cup Restored = Restored
  BY DEF Fields, Whole, Restored
<1>3. Shape(d)
  BY <1>1, PureShape DEF Quiet, Ready
<1>4. /\ d.ubc = m.ubc /\ d.mmu = m.mmu /\ d.fault = m.fault /\ d.dead = m.dead
      /\ d.inSlot = FALSE /\ d.excTaken = FALSE /\ \A f \in Return : d[f] = m[f]
  BY <1>1 DEF Same, Fields, Return, Quiet
<1>5. Done(m, d, Ws)
  BY <1>1, <1>2, <1>3, <1>4 DEF Done, Quiet, Ready, SameTlb, Flagged, SameUnit, AsksNoMore
<1> QED
  BY <1>5 DEF d

LEMMA SelfDone == ASSUME NEW m, Quiet(m), NEW Ws PROVE Done(m, m, Ws)
<1>1. Same(m, m, Fields \ Whole) /\ Same(m, m, Restored)
  BY SameSelf DEF Quiet, Ready, Shape
<1> QED
  BY <1>1 DEF Done, Quiet, Ready, SameTlb, Flagged, SameUnit, AsksNoMore

\* Every branch.
LEMMA BranchDone ==
  ASSUME OsKeeps, NEW m, Quiet(m), NEW i, NEW Ws, i.k = "branch",
         i.op = "rte" => Ws = Return,
         i.op \notin {"bt", "bf"} => \A f \in Return : Writes(InstrAt(m, m.pc), f) => f \in Ws
  PROVE  Done(m, ExecBranch(m, i), Ws)
<1> DEFINE pr == [m EXCEPT !.pr = U(m.pc + 2)]
           sr == setSR(m, m.ssr)
<1>0. Shape(m) /\ Ready(m) /\ m.inSlot = FALSE /\ m.excTaken = FALSE
  BY DEF Quiet, Ready
<1>1. CASE ~Taken(m, i)
  BY <1>1, SelfDone DEF ExecBranch
<1>2. CASE Taken(m, i) /\ i.op \in {"bt", "bf"}
  BY <1>2, PcDone DEF ExecBranch
<1>3. CASE Taken(m, i) /\ i.op = "rte"
  <2>1. ExecBranch(m, i) = BranchDelayed(sr, Target(m, i))
    BY <1>3 DEF ExecBranch
  <2>2. Same(m, sr, {"sr", "rbank1", "r"}) /\ Ready(sr)
    BY <1>0, SetSrShape DEF Shape, SrFlags
  <2> HIDE DEF sr
  <2>3. Quiet(sr)
    BY <1>0, <2>2 DEF Quiet, Same, Fields
  <2> DEFINE to == Target(m, i)
             e == BranchDelayed(sr, to)
  <2>4. Done(sr, e, Ws)
    BY <1>3, <2>3, DelayedDone
  <2> HIDE DEF e
  <2>5. Done(m, e, Ws)
    BY <1>3, <2>2, <2>3, <2>4, DoneOn
  <2> QED
    BY <2>1, <2>5 DEF e
<1>4. CASE Taken(m, i) /\ i.op \in {"bsr", "bsrf", "jsr"}
  <2>1. ExecBranch(m, i) = BranchDelayed(pr, Target(m, i)) /\ i.op \notin {"bt", "bf"}
    BY <1>4 DEF ExecBranch
  <2>2. Same(m, pr, {"pr"})
    BY <1>0 DEF Same, Shape
  <2> HIDE DEF pr
  <2>3. Quiet(pr)
    <3>1. Shape(pr)
      BY <1>0, <2>2, PureShape
    <3> QED
      BY <1>0, <2>2, <3>1 DEF Quiet, Ready, Same, Fields
  <2>4. InstrAt(pr, pr.pc) = InstrAt(m, m.pc)
    BY <2>2, InstrSame DEF Same, Fields
  <2> DEFINE to == Target(m, i)
             e == BranchDelayed(pr, to)
  <2>5. Done(pr, e, Ws)
    BY <2>1, <2>3, <2>4, DelayedDone
  <2> HIDE DEF e
  <2>6. Done(m, e, Ws)
    BY <2>2, <2>3, <2>5, DoneOn
  <2> QED
    BY <2>1, <2>6 DEF e
<1>5. CASE Taken(m, i) /\ i.op \notin {"bsr", "bsrf", "jsr", "rte", "bt", "bf"}
  <2>1. ExecBranch(m, i) = BranchDelayed(m, Target(m, i))
    BY <1>5 DEF ExecBranch
  <2> QED
    BY <1>5, <2>1, DelayedDone
<1> QED
  BY <1>1, <1>2, <1>3, <1>4, <1>5

\* One instruction from its fetch to its end.
LEMMA PlainDone ==
  ASSUME OsKeeps, NEW m, Quiet(m)
  PROVE  Done(m, Plain(m), Reloads(m))
<1> DEFINE f == Fetched(m, m.pc)
           i == InstrAt(m, m.pc)
           to == U(f.pc + 2)
           e == [f EXCEPT !.pc = to]
           x == Execute(e, i)
           Ws == Reloads(m)
<1>1. Plain(m) = Then(f, x)
  BY DEF Plain
<1>2. Same(m, f, {"mmu", "fault"}) /\ SameTlb(m.mmu, f.mmu) /\ Shape(f)
  BY FetchedSame DEF Quiet
<1>3. CASE Stopped(f)
  <2> HIDE DEF f
  <2>1. /\ {"mmu", "fault"} \subseteq Fields \ Whole /\ {"mmu", "fault"} \subseteq Restored
        /\ {"mmu", "fault"} \cap ({"ubc", "dead", "sr"} \cup Return) = {}
    BY DEF Fields, Whole, Restored, Return
  <2>2. Same(m, f, Fields \ Whole) /\ Same(m, f, Restored)
    BY <1>2, <2>1, SameMore
  <2>3. /\ f.ubc = m.ubc /\ f.dead = m.dead /\ f.inSlot = FALSE /\ f.excTaken = FALSE
        /\ \A y \in Return : f[y] = m[y]
    BY <1>2 DEF Same, Fields, Return, Quiet
  <2>4. Done(m, f, Ws)
    BY <1>2, <2>2, <2>3 DEF Done, Flagged, SameUnit, AsksNoMore
  <2> QED
    BY <1>1, <1>3, <2>4 DEF Then
<1>4. CASE ~Stopped(f)
  <2>1. Ready(f)
    BY <1>2, <1>4, StoppedOrReady
  <2> HIDE DEF to
  <2>2. Same(m, e, {"mmu", "fault", "pc"}) /\ SameTlb(m.mmu, e.mmu) /\ Quiet(e) /\ e.pc = to
    BY <2>1, PastFetch
  <2>3. /\ f.prog = e.prog /\ f.mmu = e.mmu /\ f.sr = e.sr
    BY <1>2 DEF Shape
  <2>4. to = U(m.pc + 2)
    BY <1>2 DEF to, Same, Fields
  <2>5. InstrAt(e, e.pc) = Second(m)
    <3>1. Second(m) = InstrAt(f, to)
      BY <2>4 DEF Second
    <3> HIDE DEF f, e
    <3> QED
      BY <2>2, <2>3, <3>1, InstrSame
  <2> HIDE DEF f, e, i, x
  <2>6. Done(e, x, Ws)
    <3>1. CASE i.k = "branch"
      <4>1. x = ExecBranch(e, i)
        BY <3>1 DEF x, Execute
      <4>2. i.op = "rte" => Ws = Return
        BY <3>1 DEF Reloads, i
      <4>3. i.op \notin {"bt", "bf"} => \A y \in Return : Writes(InstrAt(e, e.pc), y) => y \in Ws
        BY <2>5, <3>1 DEF Reloads, SlotOf, i
      <4> HIDE DEF Ws
      <4> QED
        BY <2>2, <3>1, <4>1, <4>2, <4>3, BranchDone
    <3>2. CASE i.k # "branch"
      <4>1. x = Simple(e, i)
        BY <3>2 DEF x, Execute
      <4>2. \A y \in Return : Writes(i, y) => y \in Ws
        BY DEF Reloads, i
      <4> HIDE DEF Ws
      <4> QED
        BY <2>2, <4>1, <4>2, SimpleWork, WorkDone DEF Quiet
    <3> QED
      BY <3>1, <3>2
  <2>7. Done(m, x, Ws)
    BY <2>2, <2>6, DoneAfter DEF Quiet
  <2> QED
    BY <1>1, <1>4, <2>7 DEF Then
<1> QED
  BY <1>3, <1>4

---------------------------------------------------------------------------
(* Faults are precise: one stepMMU. *)

\* What stepMMU never changes.
Kept == {"prog", "ops", "intmu", "irqCnt"}

\* The machine elsewhere.
Moved(d, to) == [d EXCEPT !.pc = to]

\* Neither a bank switch nor an entry looks at where the machine was.
LEMMA SetSrPc ==
  ASSUME NEW a, NEW b, NEW sr, NEW to, Same(a, b, {"pc"})
  PROVE  Moved(setSR(a, sr), to) = Moved(setSR(b, sr), to)
<1> a.sr = b.sr /\ a.r = b.r /\ a.rbank1 = b.rbank1
  BY DEF Same, Fields
<1>1. CASE bank1(a.sr) = bank1(sr)
  BY <1>1 DEF setSR, Same, Moved
<1>2. CASE bank1(a.sr) # bank1(sr)
  <2> DEFINE rb == [i \in Banked |-> a.r[i]]
             r == [i \in Regs |-> IF i \in Banked THEN a.rbank1[i] ELSE a.r[i]]
  <2>1. /\ setSR(a, sr) = [a EXCEPT !.sr = sr, !.rbank1 = rb, !.r = r]
        /\ setSR(b, sr) = [b EXCEPT !.sr = sr, !.rbank1 = rb, !.r = r]
    BY <1>2 DEF setSR
  <2> HIDE DEF rb, r
  <2> QED
    BY <2>1 DEF Same, Moved
<1> QED
  BY <1>1, <1>2

\* An entry forgets where the machine was.
LEMMA EnteredPc ==
  ASSUME NEW a, NEW b, NEW expevt, NEW spc, NEW vector, Same(a, b, {"pc"})
  PROVE  Entered(a, expevt, spc, vector) = Entered(b, expevt, spc, vector)
<1> DEFINE x(d) == [d EXCEPT !.ssr = d.sr, !.spc = spc, !.sgr = d.r[SP], !.mmu.expevt = expevt, !.lastExc = expevt]
<1>1. a.sr = b.sr /\ a.r = b.r /\ a.mmu = b.mmu
  BY DEF Same, Fields
<1>2. Same(x(a), x(b), {"pc"})
  BY <1>1 DEF Same
<1>3. /\ Entered(a, expevt, spc, vector) = [setSR(x(a), Blocked(a.sr)) EXCEPT !.pc = U(vector)]
      /\ Entered(b, expevt, spc, vector) = [setSR(x(b), Blocked(b.sr)) EXCEPT !.pc = U(vector)]
  BY DEF Entered
<1> DEFINE xa == x(a)
           xb == x(b)
           sr == Blocked(a.sr)
           to == U(vector)
<1>4. /\ Entered(a, expevt, spc, vector) = [setSR(xa, sr) EXCEPT !.pc = to]
      /\ Entered(b, expevt, spc, vector) = [setSR(xb, sr) EXCEPT !.pc = to]
  BY <1>1, <1>3
<1>5. Same(xa, xb, {"pc"})
  BY <1>2
<1> HIDE DEF xa, xb, sr, to
<1>6. Moved(setSR(xa, sr), to) = Moved(setSR(xb, sr), to)
  BY <1>5, SetSrPc
<1> QED
  BY <1>4, <1>6 DEF Moved

\* Nor does the entry of a fault.
LEMMA RaisePc ==
  ASSUME NEW a, NEW b, NEW f, NEW spc, Same(a, b, {"pc"}), a.sr.BL = 0
  PROVE  MmuRaise(a, f, spc) = MmuRaise(b, f, spc)
<1> DEFINE x(d) == [d EXCEPT !.mmu.tea = f.va, !.mmu.pteh.vpn = PageOf(f.va, PageBytes), !.faulted = TRUE]
<1>1. a.sr = b.sr /\ a.vbr = b.vbr /\ a.mmu = b.mmu
  BY DEF Same, Fields
<1>2. Same(x(a), x(b), {"pc"})
  BY <1>1 DEF Same
<1> DEFINE vector == a.vbr + (IF f.vector = "miss" THEN MissVector ELSE GeneralVector)
<1>3. /\ MmuRaise(a, f, spc) = Entered(x(a), f.expevt, spc, vector)
      /\ MmuRaise(b, f, spc) = Entered(x(b), f.expevt, spc, vector)
  BY <1>1 DEF MmuRaise
<1> HIDE DEF x, vector
<1> QED
  BY <1>2, <1>3, EnteredPc

\* What stepMMU puts back when the instruction has faulted.
LEMMA RolledBackSame ==
  ASSUME NEW m, NEW p, NEW Ws, Quiet(m), Done(m, p, Ws), p.fault # {}
  PROVE  LET b == RolledBack(p, m)
             e == [m EXCEPT !.slotPC = p.slotPC, !.mmu = p.mmu, !.ubc = p.ubc, !.ldst = FALSE] IN
         /\ Same(b, e, {"pc"}) /\ Same(m, b, {"pc", "slotPC", "mmu", "ubc", "ldst"})
         /\ b.mmu = p.mmu /\ b.ubc = p.ubc
<1> DEFINE b == RolledBack(p, m)
           e == [m EXCEPT !.slotPC = p.slotPC, !.mmu = p.mmu, !.ubc = p.ubc, !.ldst = FALSE]
<1>1. Same(m, p, Restored)
  BY DEF Done
<1>2. m.fault = {} /\ m.inSlot = FALSE /\ m.excTaken = FALSE /\ DOMAIN m = Fields /\ DOMAIN p = Fields
  BY <1>1 DEF Same, Quiet, Ready, Shape
<1>3. DOMAIN b = Fields /\ DOMAIN e = Fields
  BY <1>2 DEF RolledBack
<1>4. /\ b.r = m.r /\ b.rbank1 = m.rbank1 /\ b.pr = m.pr /\ b.sr = m.sr /\ b.gbr = m.gbr /\ b.mach = m.mach
      /\ b.macl = m.macl /\ b.inSlot = m.inSlot /\ b.excTaken = m.excTaken /\ b.fault = m.fault
      /\ b.ldst = FALSE /\ b.slotPC = p.slotPC /\ b.mmu = p.mmu /\ b.ubc = p.ubc
  BY <1>2 DEF RolledBack, Fields
<1>5. \A f \in Fields \ Restored : b[f] = m[f]
  <2>1. \A f \in Fields \ Restored : b[f] = p[f]
    BY <1>2 DEF RolledBack, Restored, Fields
  <2> QED
    BY <1>1, <2>1 DEF Same
<1>6. /\ e.slotPC = p.slotPC /\ e.mmu = p.mmu /\ e.ubc = p.ubc /\ e.ldst = FALSE
      /\ \A f \in Fields \ {"slotPC", "mmu", "ubc", "ldst"} : e[f] = m[f]
  BY <1>2 DEF Fields
<1> SUFFICES /\ Same(b, e, {"pc"}) /\ Same(m, b, {"pc", "slotPC", "mmu", "ubc", "ldst"})
             /\ b.mmu = p.mmu /\ b.ubc = p.ubc
  OBVIOUS
<1> HIDE DEF b, e
<1>7. \A f \in Restored \ {"pc", "slotPC", "mmu", "ubc", "ldst"} : b[f] = m[f]
  BY <1>4 DEF Restored
<1>8. Same(m, b, {"pc", "slotPC", "mmu", "ubc", "ldst"})
  BY <1>2, <1>3, <1>5, <1>7 DEF Same
<1>9. Same(b, e, {"pc"})
  BY <1>3, <1>4, <1>6, <1>8 DEF Same
<1> QED
  BY <1>4, <1>8, <1>9

\* A fault leaves the machine it found, but for what the walk and the watch keep.
LEMMA StepFaults ==
  ASSUME OsKeeps, NEW m, Quiet(m), NEW p, p = Plain(m), p.fault # {}
  PROVE  /\ SameTlb(m.mmu, p.mmu) /\ Flagged(m.ubc, p.ubc)
         /\ m.sr.BL = 0 =>
              \E f \in p.fault : StepMMU(m) = MmuRaise([m EXCEPT !.slotPC = p.slotPC, !.mmu = p.mmu, !.ubc = p.ubc,
                                                                 !.ldst = FALSE], f, m.pc)
         /\ m.sr.BL = 1 => \A f \in Return \cup {"r", "rbank1", "sr", "mem"} : StepMMU(m)[f] = m[f]
<1> DEFINE f == CHOOSE x \in p.fault : TRUE
           b == RolledBack(p, m)
           e == [m EXCEPT !.slotPC = p.slotPC, !.mmu = p.mmu, !.ubc = p.ubc, !.ldst = FALSE]
           Ws == Reloads(m)
<1>1. Done(m, p, Ws)
  BY PlainDone
<1>2. f \in p.fault
  OBVIOUS
<1>3. StepMMU(m) = MmuRaise(b, f, m.pc)
  BY DEF StepMMU
<1> HIDE DEF Ws, f
<1>4. Same(b, e, {"pc"}) /\ Same(m, b, {"pc", "slotPC", "mmu", "ubc", "ldst"})
  BY <1>1, RolledBackSame
<1> HIDE DEF b
<1>5. b.sr = m.sr /\ DOMAIN b = Fields
  BY <1>4 DEF Same, Fields
<1>6. ASSUME m.sr.BL = 0 PROVE StepMMU(m) = MmuRaise(e, f, m.pc)
  <2> HIDE DEF e
  <2> QED
    BY <1>3, <1>4, <1>5, <1>6, RaisePc
<1>7. ASSUME m.sr.BL = 1 PROVE \A x \in Return \cup {"r", "rbank1", "sr", "mem"} : StepMMU(m)[x] = m[x]
  <2>1. StepMMU(m) = [b EXCEPT !.dead = TRUE]
    BY <1>3, <1>5, <1>7 DEF MmuRaise
  <2> QED
    BY <1>4, <2>1 DEF Same, Fields, Return
<1> QED
  BY <1>1, <1>2, <1>6, <1>7 DEF Done

\* What the entry of a fault writes.
LEMMA RaiseShape ==
  ASSUME NEW b, Shape(b), NEW f, NEW spc
  PROVE  LET e == MmuRaise(b, f, spc) IN
         /\ Shape(e) /\ Same(b, e, Rewritten \cup {"faulted", "dead"}) /\ (e.dead = b.dead \/ e.dead = TRUE)
         /\ b.sr.BL = 1 => Same(b, e, {"dead"})
<1> DEFINE mmu == [b.mmu EXCEPT !.tea = f.va, !.pteh.vpn = PageOf(f.va, PageBytes)]
           x == [b EXCEPT !.mmu = mmu, !.faulted = TRUE]
           vector == b.vbr + (IF f.vector = "miss" THEN MissVector ELSE GeneralVector)
           e == Entered(x, f.expevt, spc, vector)
           z == [b EXCEPT !.dead = TRUE]
<1>1. MmuRaise(b, f, spc) = IF b.sr.BL = 1 THEN z ELSE e
  <2>1. [b EXCEPT !.mmu.tea = f.va, !.mmu.pteh.vpn = PageOf(f.va, PageBytes), !.faulted = TRUE] = x
    OBVIOUS
  <2> QED
    BY <2>1 DEF MmuRaise
<1>2. DOMAIN mmu = DOMAIN b.mmu /\ mmu.utlb = b.mmu.utlb
  OBVIOUS
<1> HIDE DEF mmu
<1>3. Same(b, x, {"mmu", "faulted"}) /\ x.mmu = mmu /\ x.dead = b.dead
  BY DEF Same, Shape, Fields
<1> HIDE DEF x
<1>4. Shape(x)
  <2>1. x.sr = b.sr /\ x.ssr = b.ssr /\ x.ubc = b.ubc /\ DOMAIN x = Fields
    BY <1>3 DEF Same, Fields
  <2> QED
    BY <1>2, <1>3, <2>1 DEF Shape
<1> HIDE DEF vector
<1>5. Same(x, e, Rewritten) /\ Shape(e)
  BY <1>4, EnteredShape
<1>6. Same(b, z, {"dead"}) /\ z.dead = TRUE
  BY SetField DEF Shape, Fields
<1> HIDE DEF e, z
<1>7. Shape(z)
  <2>1. z.sr = b.sr /\ z.ssr = b.ssr /\ z.ubc = b.ubc /\ z.mmu = b.mmu /\ DOMAIN z = Fields
    BY <1>6 DEF Same, Fields
  <2> QED
    BY <1>6, <2>1 DEF Shape
<1>8. Same(b, e, Rewritten \cup {"faulted", "dead"}) /\ e.dead = b.dead
  BY <1>3, <1>5 DEF Same, Rewritten, Fields
<1>9. Same(b, z, Rewritten \cup {"faulted", "dead"})
  BY <1>6, SameMore
<1> SUFFICES LET d == MmuRaise(b, f, spc) IN
         /\ Shape(d) /\ Same(b, d, Rewritten \cup {"faulted", "dead"}) /\ (d.dead = b.dead \/ d.dead = TRUE)
         /\ b.sr.BL = 1 => Same(b, d, {"dead"})
  OBVIOUS
<1> QED
  BY <1>1, <1>5, <1>6, <1>7, <1>8, <1>9

\* A machine put back is one, with no instruction under way.
LEMMA RolledBackShape ==
  ASSUME NEW m, NEW p, Shape(m), Shape(p)
  PROVE  /\ Shape(RolledBack(p, m))
         /\ Same(p, RolledBack(p, m), Restored)
         /\ RolledBack(p, m).fault = {} /\ RolledBack(p, m).inSlot = FALSE /\ RolledBack(p, m).excTaken = FALSE
         /\ RolledBack(p, m).ubc = p.ubc
<1> DEFINE b == RolledBack(p, m)
<1>1. /\ DOMAIN b = Fields /\ b.fault = {} /\ b.inSlot = FALSE /\ b.excTaken = FALSE /\ b.ubc = p.ubc
      /\ b.mmu = p.mmu /\ b.sr = m.sr /\ b.ssr = p.ssr /\ b.dead = p.dead
      /\ \A f \in Fields \ Restored : b[f] = p[f]
  BY DEF Shape, RolledBack, Fields, Restored
<1> SUFFICES Shape(b) /\ Same(p, b, Restored) /\ b.fault = {} /\ b.inSlot = FALSE /\ b.excTaken = FALSE /\ b.ubc = p.ubc
  OBVIOUS
<1> HIDE DEF b
<1> QED
  BY <1>1 DEF Shape, Same

\* The machine after stepMMU.
After(m, e) ==
  /\ Between(e) /\ Same(m, e, Fields \ Kept)
  /\ m.dead => e.dead
  /\ e.ubc.breaks = m.ubc.breaks /\ e.ubc.powered = m.ubc.powered /\ AsksNoMore(m.ubc, e.ubc)

\* One stepMMU: no instruction is left half done, and with exceptions blocked the return
\* registers change only by what the instruction loads into them.
LEMMA StepAfter ==
  ASSUME OsKeeps, NEW m, Between(m)
  PROVE  /\ After(m, StepMMU(m))
         /\ ~m.dead /\ m.sr.BL = 1 => \A x \in Return \ Reloads(m) : StepMMU(m)[x] = m[x]
<1> DEFINE p == Plain(m)
           f == CHOOSE x \in p.fault : TRUE
           b == RolledBack(p, m)
           spc == m.pc
           e == MmuRaise(b, f, spc)
           Ws == Reloads(m)
<1>1. StepMMU(m) = IF p.fault = {} THEN p ELSE e
  BY DEF StepMMU
<1>2. ~m.dead => Done(m, p, Ws)
  BY PlainDone, StoppedOrReady DEF Between, Quiet, Ready
<1>3. /\ Same(m, p, Fields \ Kept) /\ Shape(p)
      /\ p.ubc.breaks = m.ubc.breaks /\ p.ubc.powered = m.ubc.powered /\ AsksNoMore(m.ubc, p.ubc)
      /\ m.dead => p.dead
  <2>1. CASE ~m.dead
    <3>1. Fields \ Whole \subseteq Fields \ Kept
      BY DEF Whole, Kept
    <3> HIDE DEF p, Ws
    <3> QED
      BY <1>2, <2>1, <3>1, SameMore DEF Done
  <2>2. CASE m.dead
    <3> DEFINE g == Fetched(m, spc)
    <3>1. p = Then(g, Execute([g EXCEPT !.pc = U(@ + 2)], InstrAt(m, m.pc)))
      BY DEF Plain
    <3>2. Same(m, g, {"mmu", "fault"}) /\ Shape(g)
      <4> DEFINE l == Looked(m, spc)
                 x == FaultOf(m, spc, FALSE)
      <4>1. g = [l EXCEPT !.fault = x]
        BY DEF Fetched
      <4>2. Same(m, l, {"mmu"}) /\ SameTlb(m.mmu, l.mmu)
        BY LookedSame DEF Between, Shape
      <4> HIDE DEF l, x, g
      <4>3. Same(l, g, {"fault"})
        BY <4>1, <4>2, SetField DEF Same
      <4>4. Same(m, g, {"mmu", "fault"}) /\ g.mmu = l.mmu
        BY <4>2, <4>3 DEF Same, Fields
      <4>5. DOMAIN g.mmu = DOMAIN m.mmu /\ g.mmu.utlb = m.mmu.utlb
        BY <4>2, <4>4, TlbShape DEF Between, Shape
      <4>6. g.sr = m.sr /\ g.ssr = m.ssr /\ g.ubc = m.ubc /\ g.dead = m.dead /\ DOMAIN g = Fields
        BY <4>4 DEF Same, Fields
      <4> QED
        BY <4>4, <4>5, <4>6 DEF Between, Shape
    <3> HIDE DEF g
    <3>3. g.dead = m.dead /\ g.ubc = m.ubc
      BY <3>2 DEF Same, Fields
    <3>4. p = g
      BY <2>2, <3>1, <3>3 DEF Then, Stopped
    <3>5. {"mmu", "fault"} \subseteq Fields \ Kept
      BY DEF Fields, Kept
    <3> HIDE DEF p
    <3> QED
      BY <2>2, <3>2, <3>3, <3>4, <3>5, SameMore DEF AsksNoMore, Asking
  <2> QED
    BY <2>1, <2>2
<1> HIDE DEF p, f, Ws
<1>4. CASE p.fault = {}
  <2>1. ~p.dead => p.inSlot = FALSE /\ p.excTaken = FALSE
    BY <1>2, <1>3, <1>4 DEF Done, Stopped
  <2>2. Between(p)
    BY <1>3, <1>4, <2>1 DEF Between
  <2>3. ~m.dead /\ m.sr.BL = 1 => \A x \in Return \ Ws : p[x] = m[x]
    BY <1>2 DEF Done
  <2> QED
    BY <1>1, <1>3, <1>4, <2>2, <2>3 DEF After, Ws
<1>5. CASE p.fault # {}
  <2>1. Shape(b) /\ Same(p, b, Restored) /\ b.fault = {} /\ b.inSlot = FALSE /\ b.excTaken = FALSE /\ b.ubc = p.ubc
    BY <1>3, RolledBackShape DEF Between
  <2>2. ~m.dead => Same(m, b, {"pc", "slotPC", "mmu", "ubc", "ldst"})
    BY <1>2, <1>5, StoppedOrReady, RolledBackSame DEF Between, Quiet, Ready
  <2> HIDE DEF b
  <2>3. /\ Shape(e) /\ Same(b, e, Rewritten \cup {"faulted", "dead"}) /\ (e.dead = b.dead \/ e.dead = TRUE)
        /\ b.sr.BL = 1 => Same(b, e, {"dead"})
    BY <2>1, RaiseShape
  <2> HIDE DEF e, spc
  <2>4. /\ (Fields \ Kept) \cup Restored \subseteq Fields \ Kept
        /\ (Fields \ Kept) \cup (Rewritten \cup {"faulted", "dead"}) \subseteq Fields \ Kept
    BY DEF Fields, Kept, Restored, Rewritten
  <2>5. Same(m, b, Fields \ Kept)
    <3>1. Same(m, b, (Fields \ Kept) \cup Restored)
      BY <1>3, <2>1, SameOn
    <3> QED
      BY <2>4, <3>1, SameMore
  <2>6. Same(m, e, Fields \ Kept)
    <3>1. Same(m, e, (Fields \ Kept) \cup (Rewritten \cup {"faulted", "dead"}))
      BY <2>3, <2>5, SameOn
    <3> QED
      BY <2>4, <3>1, SameMore
  <2>7. e.fault = {} /\ e.inSlot = FALSE /\ e.excTaken = FALSE /\ e.ubc = p.ubc
    BY <2>1, <2>3 DEF Same, Fields, Rewritten
  <2>8. m.dead => e.dead
    BY <1>3, <2>1, <2>3 DEF Same, Fields, Restored, Shape
  <2>9. ~m.dead /\ m.sr.BL = 1 => \A x \in Return : e[x] = m[x]
    BY <2>2, <2>3 DEF Same, Fields, Return
  <2> QED
    BY <1>1, <1>3, <1>5, <2>3, <2>6, <2>7, <2>8, <2>9 DEF After, Between
<1> QED
  BY <1>4, <1>5

---------------------------------------------------------------------------
(* Breaks: one stepUBC. *)

\* One stepMMU after another, and none.
LEMMA AfterOn ==
  ASSUME NEW m, NEW d, NEW e, After(m, d), After(d, e)
  PROVE  After(m, e)
<1>1. Same(m, e, (Fields \ Kept) \cup (Fields \ Kept))
  BY SameOn DEF After
<1>2. Same(m, e, Fields \ Kept)
  BY <1>1, SameMore
<1> QED
  BY <1>2 DEF After, AsksNoMore

LEMMA AfterSelf == ASSUME NEW m, Between(m) PROVE After(m, m)
BY SameSelf DEF After, AsksNoMore, Between, Shape

\* What the entry of a user break writes.
LEMMA UserBreakShape ==
  ASSUME NEW m, Between(m), NEW spc
  PROVE  LET e == UserBreak(m, spc) IN
         /\ Between(e) /\ Same(m, e, Rewritten \cup {"ubc"})
         /\ e.spc = spc /\ e.ssr = m.sr /\ e.sr.BL = 1 /\ e.ubc.ch = m.ubc.ch
<1> DEFINE vector == IF m.ubc.ubde THEN m.dbr ELSE m.vbr + GeneralVector
           code == "1E0"
           d == Entered(m, code, spc, vector)
           ubc == [d.ubc EXCEPT !.breaks = @ + 1]
           e == [d EXCEPT !.ubc = ubc]
<1>1. UserBreak(m, spc) = e
  BY DEF UserBreak
<1> HIDE DEF vector, code
<1>2. /\ Same(m, d, Rewritten) /\ Shape(d) /\ d.spc = spc /\ d.ssr = m.sr /\ d.sr.BL = 1
  <2> HIDE DEF e, ubc
  <2>1. Shape(m)
    BY DEF Between
  <2> QED
    BY <2>1, EnteredShape
<1> HIDE DEF d
<1>3. BreakUnit(ubc) /\ ubc.ch = d.ubc.ch
  BY <1>2 DEF Shape, BreakUnit
<1> HIDE DEF ubc
<1>4. Same(d, e, {"ubc"}) /\ e.ubc = ubc
  BY <1>2, SetField DEF Shape, Fields
<1> HIDE DEF e
<1>5. /\ e.spc = d.spc /\ e.ssr = d.ssr /\ e.sr = d.sr /\ e.mmu = d.mmu /\ e.dead = d.dead /\ DOMAIN e = Fields
      /\ d.dead = m.dead /\ d.ubc = m.ubc
      /\ e.fault = m.fault /\ e.inSlot = m.inSlot /\ e.excTaken = m.excTaken
  BY <1>2, <1>4 DEF Same, Fields, Rewritten
<1>6. Shape(e)
  BY <1>2, <1>3, <1>4, <1>5 DEF Shape
<1>7. Same(m, e, Rewritten \cup {"ubc"})
  BY <1>2, <1>4, SameOn
<1> SUFFICES /\ Between(e) /\ Same(m, e, Rewritten \cup {"ubc"})
             /\ e.spc = spc /\ e.ssr = m.sr /\ e.sr.BL = 1 /\ e.ubc.ch = m.ubc.ch
  BY <1>1
<1> QED
  BY <1>2, <1>3, <1>4, <1>5, <1>6, <1>7 DEF Between

\* Where a user break comes from.
BrokenBefore(m, e) ==
  /\ FetchAsks(m.ubc, m.pc, DelayedAt(m, m.pc), FALSE)
  /\ e.spc = m.pc /\ e.ssr = m.sr /\ e.mem = m.mem
BrokenAfter(m) == FetchAsks(m.ubc, m.pc, DelayedAt(m, m.pc), TRUE) \/ Asking(m.ubc)
BreakAsked(m, e) == e.ubc.breaks # m.ubc.breaks => Live(m) /\ (BrokenBefore(m, e) \/ BrokenAfter(m))

\* What stepUBC never changes.
Step1 == {"prog", "intmu", "irqCnt"}

\* The break unit marked between two instructions.
LEMMA SetUbc ==
  ASSUME NEW m, Between(m), NEW u, SameUnit(m.ubc, u), NEW S, NEW d, Same(m, d, S), d.ubc = u,
         S \subseteq {"ubc", "ops", "faulted"}
  PROVE  Between(d) /\ d.ubc.ch = m.ubc.ch /\ d.ubc.breaks = m.ubc.breaks /\ d.ubc.powered = m.ubc.powered
<1>1. /\ d.sr = m.sr /\ d.ssr = m.ssr /\ d.mmu = m.mmu /\ d.dead = m.dead /\ DOMAIN d = Fields
      /\ d.fault = m.fault /\ d.inSlot = m.inSlot /\ d.excTaken = m.excTaken
  BY DEF Same, Fields
<1>2. BreakUnit(u) /\ u.ch = m.ubc.ch /\ u.breaks = m.ubc.breaks /\ u.powered = m.ubc.powered
  BY DEF SameUnit, BreakUnit, Between, Shape
<1> QED
  BY <1>1, <1>2 DEF Between, Shape

\* One stepUBC: no instruction is left half done, and a break taken was asked for.
LEMMA UbcStep ==
  ASSUME OsKeeps, NEW m, Rest(m)
  PROVE  LET e == StepUBC(m) IN
         /\ Rest(e) /\ Same(m, e, Fields \ Step1) /\ (m.dead => e.dead) /\ BreakAsked(m, e)
<1> DEFINE asid == m.mmu.pteh.asid
           delayed == DelayedAt(m, m.pc)
           idle == [m.ubc EXCEPT !.fetchHit = FALSE]
           before == IF Live(m) THEN FetchMatch(m.ubc, m.pc, delayed, FALSE, asid) ELSE idle
           after == IF Live(m) THEN FetchMatch(before, m.pc, delayed, TRUE, asid) ELSE before
           u == [after EXCEPT !.opHit = FALSE]
           ops == Live(m) /\ OpArmed(m.ubc)
           d == [m EXCEPT !.ubc = u, !.faulted = FALSE, !.ops = ops]
           one == StepMMU(d)
           two == IF Untaken(one, m.pc) /\ ~one.faulted THEN StepMMU(one) ELSE one
           done == [two EXCEPT !.ops = FALSE]
           lost == ~Live(m) \/ done.faulted \/ done.sleeping \/ done.dead \/ ~(after.fetchHit \/ done.ubc.opHit)
           b == [m EXCEPT !.ubc = before]
           spc == m.pc
           to == done.pc
           e == IF before.fetchHit THEN UserBreak(b, spc) ELSE IF lost THEN done ELSE UserBreak(done, to)
<1>1. StepUBC(m) = e
  BY DEF StepUBC
<1> HIDE DEF asid, delayed
<1>2. Between(m) /\ BreakUnit(m.ubc) /\ Shape(m)
  BY DEF Rest, Between, Shape
<1>3. /\ SameUnit(m.ubc, before)
      /\ before.fetchHit => Live(m) /\ FetchAsks(m.ubc, m.pc, delayed, FALSE)
  <2>1. SameUnit(m.ubc, idle) /\ ~idle.fetchHit
    BY <1>2 DEF SameUnit, BreakUnit
  <2> HIDE DEF idle
  <2> QED
    BY <1>2, <2>1, FetchMarked
<1> HIDE DEF before, idle
<1>4. BreakUnit(before) /\ before.ch = m.ubc.ch
  BY <1>2, <1>3 DEF BreakUnit, SameUnit
<1>5. CASE before.fetchHit
  <2>1. Same(m, b, {"ubc"}) /\ b.ubc = before
    BY <1>2, SetField DEF Shape, Fields
  <2> HIDE DEF b, spc
  <2>2. Between(b)
    BY <1>2, <1>3, <2>1, SetUbc
  <2> DEFINE x == UserBreak(b, spc)
  <2>3. Between(x) /\ Same(b, x, Rewritten \cup {"ubc"}) /\ x.spc = spc /\ x.ssr = b.sr
    BY <2>2, UserBreakShape
  <2>4. e = x
    BY <1>5
  <2> HIDE DEF x, e
  <2>5. /\ Same(m, x, {"ubc"} \cup (Rewritten \cup {"ubc"}))
        /\ {"ubc"} \cup (Rewritten \cup {"ubc"}) \subseteq Fields \ Step1
    BY <2>1, <2>3, SameOn DEF Rewritten, Fields, Step1
  <2>6. Same(m, x, Fields \ Step1)
    BY <2>5, SameMore
  <2>7. x.ops = m.ops /\ x.mem = m.mem /\ x.dead = m.dead /\ b.sr = m.sr
    BY <2>1, <2>5 DEF Same, Fields, Rewritten
  <2>8. BreakAsked(m, x)
    BY <1>3, <1>5, <2>3, <2>7 DEF BreakAsked, BrokenBefore, spc, delayed
  <2> QED
    BY <1>1, <2>3, <2>4, <2>6, <2>7, <2>8 DEF Rest
<1>6. CASE ~before.fetchHit
  <2>1. /\ SameUnit(before, after) /\ (after.fetchHit => FetchAsks(before, m.pc, delayed, TRUE))
    <3>1. SameUnit(before, before)
      BY DEF SameUnit
    <3> QED
      BY <1>4, <1>6, <3>1, FetchMarked
  <2> HIDE DEF after
  <2>2. SameUnit(m.ubc, u) /\ u.opHit = FALSE
    <3>1. SameUnit(m.ubc, after)
      BY <1>3, <2>1, SameUnitOn
    <3>2. SameUnit(after, u) /\ u.opHit = FALSE
      BY <1>2, <3>1 DEF SameUnit, BreakUnit
    <3> QED
      BY <3>1, <3>2, SameUnitOn
  <2> HIDE DEF u, ops
  <2>3. Same(m, d, {"ubc", "faulted", "ops"}) /\ d.ubc = u
    BY <1>2 DEF Same, Shape, Fields
  <2> HIDE DEF d
  <2>4. /\ Between(d) /\ d.ubc.ch = m.ubc.ch /\ d.ubc.breaks = m.ubc.breaks /\ d.ubc.powered = m.ubc.powered
        /\ d.dead = m.dead
    <3>1. Between(d) /\ d.ubc.ch = m.ubc.ch /\ d.ubc.breaks = m.ubc.breaks /\ d.ubc.powered = m.ubc.powered
      BY <1>2, <2>2, <2>3, SetUbc
    <3> QED
      BY <2>3, <3>1 DEF Same, Fields
  <2>5. After(d, one)
    BY <2>4, StepAfter
  <2> HIDE DEF one
  <2>6. After(one, two)
    BY <2>5, StepAfter, AfterSelf DEF After
  <2> HIDE DEF two
  <2>7. After(d, two)
    BY <2>5, <2>6, AfterOn
  <2>8. Same(two, done, {"ops"}) /\ done.ops = FALSE
    BY <2>7, SetField DEF After, Same, Fields
  <2> HIDE DEF done
  <2>9. done.ubc = two.ubc /\ done.dead = two.dead
    BY <2>8 DEF Same, Fields
  <2>10. Between(done)
    <3>1. SameUnit(two.ubc, done.ubc)
      BY <2>9 DEF SameUnit
    <3> QED
      BY <2>7, <2>8, <3>1, SetUbc DEF After
  <2>11. Same(m, done, Fields \ Step1)
    <3>1. Same(m, two, {"ubc", "faulted", "ops"} \cup (Fields \ Kept))
      BY <2>3, <2>7, SameOn DEF After
    <3>2. Same(m, done, ({"ubc", "faulted", "ops"} \cup (Fields \ Kept)) \cup {"ops"})
      BY <2>8, <3>1, SameOn
    <3>3. ({"ubc", "faulted", "ops"} \cup (Fields \ Kept)) \cup {"ops"} \subseteq Fields \ Step1
      BY DEF Fields, Kept, Step1
    <3> QED
      BY <3>2, <3>3, SameMore
  <2>12. done.ubc.breaks = m.ubc.breaks /\ (m.dead => done.dead) /\ (done.ubc.opHit => Asking(m.ubc))
    BY <2>2, <2>3, <2>4, <2>7, <2>9 DEF After, AsksNoMore, Asking
  <2> HIDE DEF lost
  <2>13. CASE lost
    <3>1. e = done
      BY <1>6, <2>13
    <3> HIDE DEF e
    <3> QED
      BY <1>1, <2>8, <2>10, <2>11, <2>12, <3>1 DEF Rest, BreakAsked
  <2>14. CASE ~lost
    <3> DEFINE x == UserBreak(done, to)
    <3>1. e = x
      BY <1>6, <2>14
    <3> HIDE DEF e, to
    <3>2. Between(x) /\ Same(done, x, Rewritten \cup {"ubc"})
      BY <2>10, UserBreakShape
    <3> HIDE DEF x
    <3>3. Same(m, x, (Fields \ Step1) \cup (Rewritten \cup {"ubc"}))
      BY <2>11, <3>2, SameOn
    <3>4. (Fields \ Step1) \cup (Rewritten \cup {"ubc"}) \subseteq Fields \ Step1
      BY DEF Fields, Rewritten, Step1
    <3>5. Same(m, x, Fields \ Step1)
      BY <3>3, <3>4, SameMore
    <3>6. x.ops = FALSE /\ x.dead = done.dead
      BY <2>8, <3>2 DEF Same, Fields, Rewritten
    <3>7. Live(m) /\ BrokenAfter(m)
      <4>1. Live(m) /\ (after.fetchHit \/ done.ubc.opHit)
        BY <2>14 DEF lost
      <4>2. after.fetchHit => FetchAsks(m.ubc, m.pc, delayed, TRUE)
        BY <1>4, <2>1 DEF FetchAsks
      <4> QED
        BY <2>12, <4>1, <4>2 DEF BrokenAfter, delayed
    <3> QED
      BY <1>1, <2>12, <3>1, <3>2, <3>5, <3>6, <3>7 DEF Rest, BreakAsked
  <2> QED
    BY <2>13, <2>14
<1> QED
  BY <1>5, <1>6

---------------------------------------------------------------------------
(* The actions that are no step. *)

\* One instruction, with breaks or without.
LEMMA InstructionRest ==
  ASSUME OsKeeps, NEW m, Rest(m)
  PROVE  LET e == Instruction(m) IN
         Rest(e) /\ Same(m, e, Fields \ Step1) /\ (m.dead => e.dead) /\ BreakAsked(m, e)
<1>1. CASE UbcOn(m.ubc)
  <2> DEFINE e == StepUBC(m)
  <2>1. Rest(e) /\ Same(m, e, Fields \ Step1) /\ (m.dead => e.dead) /\ BreakAsked(m, e)
    BY UbcStep
  <2> HIDE DEF e
  <2>2. Instruction(m) = e
    BY <1>1 DEF Instruction, e
  <2> QED
    BY <2>1, <2>2
<1>2. CASE ~UbcOn(m.ubc)
  <2> DEFINE e == StepMMU(m)
  <2>1. After(m, e)
    BY StepAfter DEF Rest
  <2> HIDE DEF e
  <2>2. Instruction(m) = e
    BY <1>2 DEF Instruction, e
  <2>3. e.ops = m.ops
    BY <2>1 DEF After, Same, Fields, Kept
  <2>4. Fields \ Kept \subseteq Fields \ Step1
    BY DEF Kept, Step1
  <2>5. Same(m, e, Fields \ Step1)
    BY <2>1, <2>4, SameMore DEF After
  <2> QED
    BY <2>1, <2>2, <2>3, <2>5 DEF After, Rest, BreakAsked
<1> QED
  BY <1>1, <1>2

\* A change that the invariant does not see.
LEMMA RestOn ==
  ASSUME NEW m, NEW d, NEW S, Rest(m), Same(m, d, S),
         S \cap {"ubc", "mmu", "sr", "ssr", "dead", "fault", "inSlot", "excTaken", "ops"} = {}
  PROVE  Rest(d)
<1>1. Shape(d)
  BY PureShape DEF Rest, Between
<1> QED
  BY <1>1 DEF Rest, Between, Same, Fields

\* The entry of an interrupt.
LEMMA InterruptedRest ==
  ASSUME NEW m, Rest(m), NEW level
  PROVE  LET e == Interrupted(m, level) IN
         /\ Rest(e) /\ Same(m, e, Rewritten \cup {"ldst"}) /\ e.sr.BL = 1 /\ e.spc = m.pc /\ e.ssr = m.sr
<1> DEFINE z == Blocked(m.sr)
           mask == IF m.intmu THEN level ELSE z.IMASK
           sr == [z EXCEPT !.IMASK = mask]
           a == [m EXCEPT !.ssr = m.sr, !.spc = m.pc, !.sgr = m.r[SP], !.ldst = FALSE]
           b == setSR(a, sr)
           pc == U(m.vbr + IrqVector)
           e == [b EXCEPT !.pc = pc]
<1>1. Interrupted(m, level) = e
  BY DEF Interrupted
<1>2. Shape(m) /\ DOMAIN m = Fields /\ SrFlags \subseteq DOMAIN m.sr
  BY DEF Rest, Between, Shape, SrFlags
<1>3. DOMAIN z = DOMAIN m.sr /\ z.BL = 1
  BY <1>2, BlockedFlags
<1> HIDE DEF z, mask
<1>4. SrFlags \subseteq DOMAIN sr /\ sr.BL = 1
  BY <1>2, <1>3 DEF SrFlags
<1> HIDE DEF sr, pc
<1>5. Same(m, a, {"ssr", "spc", "sgr", "ldst"}) /\ a.ssr = m.sr /\ a.spc = m.pc
  BY <1>2 DEF Same, Fields
<1> HIDE DEF a
<1>6. Shape(a)
  BY <1>2, <1>5 DEF Same, Shape, Fields
<1>7. Shape(b) /\ Same(a, b, {"sr", "rbank1", "r"}) /\ b.sr = sr
  BY <1>4, <1>6, SetSrShape, SetSr DEF Shape
<1> HIDE DEF b
<1>8. Same(b, e, {"pc"})
  BY <1>7, SetField DEF Shape
<1> HIDE DEF e
<1>9. Shape(e)
  BY <1>7, <1>8, PureShape
<1>10. Same(m, e, ({"ssr", "spc", "sgr", "ldst"} \cup {"sr", "rbank1", "r"}) \cup {"pc"})
  BY <1>5, <1>7, <1>8, SameOn
<1>11. Same(m, e, Rewritten \cup {"ldst"})
  BY <1>10, SameMore DEF Rewritten
<1>12. e.sr = sr /\ e.spc = m.pc /\ e.ssr = m.sr
  BY <1>5, <1>7, <1>8 DEF Same, Fields
<1>13. Rest(e)
  BY <1>9, <1>11 DEF Rest, Between, Same, Fields, Rewritten
<1> SUFFICES /\ Rest(e) /\ Same(m, e, Rewritten \cup {"ldst"})
             /\ e.sr.BL = 1 /\ e.spc = m.pc /\ e.ssr = m.sr
  BY <1>1
<1> QED
  BY <1>4, <1>11, <1>12, <1>13

\* A save-state resumed.
LEMMA ResumedRest ==
  ASSUME NEW m, Rest(m)
  PROVE  Rest(Resumed(m)) /\ Same(m, Resumed(m), {"mmu", "sleeping"})
<1> DEFINE u == RestoreState(StateMap(m.mmu))
           e == [m EXCEPT !.mmu = u, !.sleeping = FALSE]
           s == StateMap(m.mmu)
           utlb == [i \in Slots |-> IF \E x \in s.entries : x[1] = i
                                    THEN (CHOOSE x \in s.entries : x[1] = i)[2] ELSE NoEntry]
<1>1. Resumed(m) = e
  BY DEF Resumed
<1>2. DOMAIN s.regs = DOMAIN m.mmu
  BY DEF StateMap
<1>3. u = [s.regs EXCEPT !.utlb = utlb]
  BY DEF RestoreState
<1>4. utlb = [i \in Slots |-> utlb[i]]
  OBVIOUS
<1> HIDE DEF s, utlb
<1>5. {"utlb", "last", "at", "sv", "pteh"} \subseteq DOMAIN u /\ u.utlb = [i \in Slots |-> u.utlb[i]]
  <2>1. {"utlb", "last", "at", "sv", "pteh"} \subseteq DOMAIN s.regs
    BY <1>2 DEF Rest, Between, Shape
  <2>2. DOMAIN u = DOMAIN s.regs /\ u.utlb = utlb
    BY <1>3, <2>1
  <2> QED
    BY <1>4, <2>1, <2>2
<1> HIDE DEF u
<1>6. Same(m, e, {"mmu", "sleeping"}) /\ e.mmu = u
  BY DEF Rest, Between, Shape, Same, Fields
<1> HIDE DEF e
<1>7. e.ubc = m.ubc /\ e.sr = m.sr /\ e.ssr = m.ssr /\ e.dead = m.dead /\ DOMAIN e = Fields
      /\ e.fault = m.fault /\ e.inSlot = m.inSlot /\ e.excTaken = m.excTaken /\ e.ops = m.ops
  BY <1>6 DEF Same, Fields
<1>8. Rest(e)
  BY <1>5, <1>6, <1>7 DEF Rest, Between, Shape
<1> QED
  BY <1>1, <1>6, <1>8

---------------------------------------------------------------------------
\* The order of the numbers, as a set of pairs.
Below == {p \in Nat \X Nat : p[1] < p[2]}

\* Induction on a set of numbers.
LEMMA SetInduction ==
  ASSUME NEW S, 0 \in S, \A n \in Nat : n \in S => n + 1 \in S
  PROVE  \A n \in Nat : n \in S
<1> SUFFICES ASSUME Nat \ S # {} PROVE FALSE
  OBVIOUS
<1>0. IsWellFoundedOn(Below, Nat)
  BY NatLessThanWellFounded DEF OpToRel, Below
<1>1. PICK n \in Nat \ S : \A m \in Nat \ S : <<m, n>> \notin Below
  BY <1>0, WFMin
<1>2. n # 0 /\ n - 1 \in Nat /\ (n - 1) + 1 = n
  BY <1>1
<1>3. <<n - 1, n>> \in Below
  BY <1>2 DEF Below
<1>4. n - 1 \in S
  BY <1>1, <1>2, <1>3
<1> QED
  BY <1>1, <1>2, <1>4

\* The instructions of an injected call, one after another.
Called(m) == IF m.pc = Sentinel \/ m.sleeping THEN m ELSE Instruction(m)
Ran(f, n, m) == DOMAIN f = 0..n /\ f[0] = m /\ \A k \in 1..n : f[k] = Called(f[k - 1])

\* The instructions of a call exist, for any budget.
LEMMA RanExists == ASSUME NEW n \in Nat, NEW m PROVE \E f : Ran(f, n, m)
<1> DEFINE Good == {k \in Nat : \E f : Ran(f, k, m)}
<1>1. 0 \in Good
  <2> DEFINE f == [k \in 0..0 |-> m]
  <2>1. Ran(f, 0, m)
    BY DEF Ran
  <2> QED
    BY <2>1
<1>2. ASSUME NEW k \in Nat, k \in Good PROVE k + 1 \in Good
  <2>1. PICK f : Ran(f, k, m)
    BY <1>2
  <2> DEFINE h == [j \in 0..(k + 1) |-> IF j = k + 1 THEN Called(f[k]) ELSE f[j]]
  <2>2. DOMAIN h = 0..(k + 1) /\ h[0] = m
    BY <2>1 DEF Ran
  <2>3. ASSUME NEW j \in 1..(k + 1) PROVE h[j] = Called(h[j - 1])
    <3>1. h[j - 1] = f[j - 1]
      OBVIOUS
    <3>2. CASE j = k + 1
      <4>1. j - 1 = k /\ h[j] = Called(f[k])
        BY <3>2
      <4> HIDE DEF h
      <4> QED
        BY <3>1, <4>1
    <3>3. CASE j # k + 1
      <4>1. j \in 1..k /\ h[j] = f[j]
        BY <3>3
      <4> HIDE DEF h
      <4> QED
        BY <2>1, <3>1, <4>1 DEF Ran
    <3> QED
      BY <3>2, <3>3
  <2> HIDE DEF h
  <2>4. Ran(h, k + 1, m)
    BY <2>2, <2>3 DEF Ran
  <2> QED
    BY <2>4
<1> HIDE DEF Good
<1>3. n \in Good
  BY <1>1, <1>2, SetInduction
<1> QED
  BY <1>3 DEF Good

\* No instruction of a call is left half done.
LEMMA RanRest ==
  ASSUME OsKeeps, NEW n \in Nat, NEW m, Rest(m), NEW f, Ran(f, n, m)
  PROVE  \A k \in 0..n : Rest(f[k])
<1> DEFINE Good == {k \in Nat : k <= n => Rest(f[k])}
<1>1. 0 \in Good
  BY DEF Ran
<1>2. ASSUME NEW k \in Nat, k \in Good PROVE k + 1 \in Good
  <2> SUFFICES ASSUME k + 1 <= n PROVE Rest(f[k + 1])
    OBVIOUS
  <2> DEFINE d == f[k]
  <2>1. Rest(d)
    BY <1>2
  <2>2. f[k + 1] = Called(d)
    <3>1. k + 1 \in 1..n /\ (k + 1) - 1 = k
      OBVIOUS
    <3> QED
      BY <3>1 DEF Ran
  <2> HIDE DEF d
  <2>3. Rest(Instruction(d))
    BY <2>1, InstructionRest
  <2> QED
    BY <2>1, <2>2, <2>3 DEF Called
<1> HIDE DEF Good
<1>3. \A k \in Nat : k \in Good
  BY <1>1, <1>2, SetInduction
<1> QED
  BY <1>3 DEF Good

\* A call injected, run to its end or to its budget.
LEMMA InjectedRest ==
  ASSUME OsKeeps, NEW m, Rest(m), NEW addr, NEW arg
  PROVE  Rest(Injected(m, addr, arg))
<1> DEFINE r == [m.r EXCEPT ![SP] = U(m.r[SP] - 8), ![SP - 1] = arg]
           called == [m EXCEPT !.r = r, !.pr = Sentinel, !.pc = addr, !.sr.BL = 1]
           run == CHOOSE f : f = [k \in 0..InjectBudget |-> IF k = 0 THEN called ELSE Called(f[k - 1])]
           ran == run[InjectBudget]
           kept == {"r", "rbank1", "pc", "pr", "sr", "gbr", "vbr", "ssr", "spc", "sgr", "mach", "macl"}
           e == [f \in DOMAIN m |-> IF f \in kept THEN m[f] ELSE ran[f]]
<1>0. InjectBudget \in Nat
  BY RegsAssumption
<1>1. Injected(m, addr, arg) = e
  BY DEF Injected, Called
<1> HIDE DEF r
<1>2. Rest(called)
  <2> DEFINE sr == [m.sr EXCEPT !.BL = 1]
             d == [m EXCEPT !.r = r, !.pr = Sentinel, !.pc = addr, !.sr = sr]
  <2>1. called = d
    OBVIOUS
  <2>2. DOMAIN sr = DOMAIN m.sr
    OBVIOUS
  <2> HIDE DEF sr
  <2>3. Same(m, d, {"r", "pr", "pc", "sr"}) /\ d.sr = sr
    BY DEF Rest, Between, Shape, Same, Fields
  <2> HIDE DEF d
  <2>4. d.ubc = m.ubc /\ d.mmu = m.mmu /\ d.ssr = m.ssr /\ d.dead = m.dead /\ DOMAIN d = Fields
        /\ d.fault = m.fault /\ d.inSlot = m.inSlot /\ d.excTaken = m.excTaken /\ d.ops = m.ops
    BY <2>3 DEF Same, Fields
  <2>5. Rest(d)
    BY <2>2, <2>3, <2>4 DEF Rest, Between, Shape
  <2> QED
    BY <2>1, <2>5
<1> HIDE DEF called
<1>3. \E f : f = [k \in 0..InjectBudget |-> IF k = 0 THEN called ELSE Called(f[k - 1])]
  <2>1. PICK f : Ran(f, InjectBudget, called)
    BY <1>0, RanExists
  <2> DEFINE g == [k \in 0..InjectBudget |-> IF k = 0 THEN called ELSE Called(f[k - 1])]
  <2>2. \A k \in 0..InjectBudget : g[k] = f[k]
    BY <1>0, <2>1 DEF Ran
  <2>3. g = [k \in 0..InjectBudget |-> IF k = 0 THEN called ELSE Called(g[k - 1])]
    <3>1. \A k \in 0..InjectBudget : k # 0 => g[k - 1] = f[k - 1]
      BY <1>0, <2>2
    <3> QED
      BY <1>0, <3>1
  <2> QED
    BY <2>3
<1>4. run = [k \in 0..InjectBudget |-> IF k = 0 THEN called ELSE Called(run[k - 1])]
  BY <1>3
<1> HIDE DEF run
<1>5. Ran(run, InjectBudget, called)
  BY <1>0, <1>4 DEF Ran
<1>6. Rest(ran)
  BY <1>0, <1>2, <1>5, RanRest
<1> HIDE DEF ran
<1>7. /\ DOMAIN e = Fields /\ e.sr = m.sr /\ e.ssr = m.ssr
      /\ e.ubc = ran.ubc /\ e.mmu = ran.mmu /\ e.dead = ran.dead /\ e.fault = ran.fault
      /\ e.inSlot = ran.inSlot /\ e.excTaken = ran.excTaken /\ e.ops = ran.ops
  BY DEF Rest, Between, Shape, Fields
<1> HIDE DEF e
<1>8. Rest(e)
  BY <1>6, <1>7 DEF Rest, Between, Shape
<1> QED
  BY <1>1, <1>8

---------------------------------------------------------------------------
(* The OS. *)

\* The OS of the runs is one of those.
THEOREM OsDoesKeeps == ASSUME \A m, i : OsWork(m, i) = OsDoes(m, i) PROVE OsKeeps
<1> SUFFICES ASSUME NEW m, NEW i, Ready(m), i.k = "os"
             PROVE  /\ Same(m, OsDoes(m, i), {"spc", "mmu", "mem", "ubc", "os"}) /\ Shape(OsDoes(m, i))
                    /\ OsDoes(m, i).ubc.breaks = m.ubc.breaks /\ OsDoes(m, i).ubc.powered = m.ubc.powered
                    /\ AsksNoMore(m.ubc, OsDoes(m, i).ubc)
  BY DEF OsKeeps
<1> DEFINE Good(d) == /\ Same(m, d, {"spc", "mmu", "mem", "ubc", "os"}) /\ Shape(d)
                      /\ d.ubc.breaks = m.ubc.breaks /\ d.ubc.powered = m.ubc.powered /\ AsksNoMore(m.ubc, d.ubc)
           Tlb(u) == {"utlb", "last", "at", "sv", "pteh"} \subseteq DOMAIN u /\ u.utlb = [j \in Slots |-> u.utlb[j]]
           asid == m.mmu.pteh.asid
<1>0. Shape(m) /\ DOMAIN m = Fields /\ Tlb(m.mmu)
  BY DEF Ready, Shape
<1>1. Good(m)
  BY <1>0, SameSelf DEF AsksNoMore
<1>2. ASSUME NEW d, Same(m, d, {"spc", "mmu", "mem", "os"}), Tlb(d.mmu) PROVE Good(d)
  <2>1. d.ubc = m.ubc /\ d.sr = m.sr /\ d.ssr = m.ssr /\ d.dead = m.dead /\ DOMAIN d = Fields
    BY <1>2 DEF Same, Fields
  <2>2. Shape(d)
    BY <1>0, <1>2, <2>1 DEF Shape
  <2> QED
    BY <1>2, <2>1, <2>2, SameMore DEF AsksNoMore
<1> HIDE DEF Good, Tlb
<1>3. ASSUME NEW u, Tlb(u) PROVE Good([m EXCEPT !.mmu = u])
  <2> DEFINE d == [m EXCEPT !.mmu = u]
  <2>1. Same(m, d, {"spc", "mmu", "mem", "os"}) /\ d.mmu = u
    BY <1>0 DEF Same, Fields
  <2> HIDE DEF d
  <2>2. Good(d)
    BY <1>2, <1>3, <2>1
  <2> QED
    BY <2>2 DEF d
<1>4. Good(OsPage(m))
  <2> DEFINE page == m.mmu.pteh.vpn
             map == MapOf(m.os, page)
             e == [NoEntry EXCEPT !.v = TRUE, !.pr = 3, !.sz = map.sz, !.ppn = map.ppn]
             u == [m.mmu EXCEPT !.ptel = e, !.urc = m.os.next]
             os == [m.os EXCEPT !.next = (m.os.next + 1) % UtlbSize]
             d == [m EXCEPT !.mmu = u, !.os = os]
  <2>1. OsPage(m) = d
    BY DEF OsPage
  <2> HIDE DEF e, os, page, map
  <2>2. DOMAIN u = DOMAIN m.mmu /\ u.utlb = m.mmu.utlb
    OBVIOUS
  <2> HIDE DEF u
  <2>3. Same(m, d, {"spc", "mmu", "mem", "os"}) /\ d.mmu = u
    BY <1>0 DEF Same, Fields
  <2> HIDE DEF d
  <2>4. Good(d)
    BY <1>0, <1>2, <2>2, <2>3 DEF Tlb
  <2> QED
    BY <2>1, <2>4
<1>5. ASSUME NEW u, Tlb(u), NEW j, NEW vpn, NEW of, NEW v, NEW dirty
      PROVE  Tlb(WriteAddress(u, j, vpn, of, v, dirty))
  <2> DEFINE e == [u.utlb[j] EXCEPT !.vpn = vpn, !.asid = of, !.v = v, !.d = dirty]
             tlb == [u.utlb EXCEPT ![j] = e]
             w == [u EXCEPT !.utlb = tlb]
  <2>1. WriteAddress(u, j, vpn, of, v, dirty) = w
    BY DEF WriteAddress
  <2> HIDE DEF e
  <2>2. tlb = [k \in Slots |-> tlb[k]]
    <3>1. DOMAIN u.utlb = Slots
      BY <1>5 DEF Tlb
    <3> QED
      BY <3>1
  <2> HIDE DEF tlb
  <2> QED
    BY <1>5, <2>1, <2>2 DEF Tlb
<1>6. Good(OsServe(m))
  <2>1. CASE m.mmu.expevt = "080"
    <3> DEFINE j == Min(Hits(m.mmu, m.mmu.tea, TRUE))
               vpn == m.mmu.utlb[j].vpn
               u == WriteAddress(m.mmu, j, vpn, asid, TRUE, TRUE)
    <3>1. OsServe(m) = [m EXCEPT !.mmu = u]
      BY <2>1 DEF OsServe
    <3> HIDE DEF j, vpn, asid
    <3>2. Tlb(u)
      BY <1>0, <1>5
    <3> HIDE DEF u
    <3> QED
      BY <1>3, <3>1, <3>2
  <2>2. CASE m.mmu.expevt = "160"
    BY <1>1, <2>2 DEF OsServe
  <2>3. CASE m.mmu.expevt = "1E0"
    <3> DEFINE ch == [j \in Channels |-> [m.ubc.ch[j] EXCEPT !.ce = FALSE]]
               u == [m.ubc EXCEPT !.ch = ch]
               d == [m EXCEPT !.ubc = u]
    <3>1. OsServe(m) = d
      BY <2>3 DEF OsServe
    <3>2. \A j \in Channels : ~ch[j].ce
      BY <1>0 DEF Shape, BreakUnit
    <3>0. \A j \in Channels : "ce" \in DOMAIN ch[j]
      BY <1>0 DEF Shape, BreakUnit
    <3> HIDE DEF ch
    <3>3. BreakUnit(u) /\ u.breaks = m.ubc.breaks /\ u.powered = m.ubc.powered /\ u.opHit = m.ubc.opHit /\ u.ch = ch
      BY <1>0, <3>0 DEF Shape, BreakUnit
    <3> HIDE DEF u
    <3>4. AsksNoMore(m.ubc, u)
      BY <3>2, <3>3 DEF AsksNoMore, Asking
    <3>5. Same(m, d, {"ubc"}) /\ d.ubc = u
      BY <1>0, SetField DEF Fields
    <3> HIDE DEF d
    <3>6. d.mmu = m.mmu /\ d.sr = m.sr /\ d.ssr = m.ssr /\ d.dead = m.dead /\ DOMAIN d = Fields
      BY <3>5 DEF Same, Fields
    <3>7. Shape(d)
      BY <1>0, <3>3, <3>5, <3>6 DEF Shape
    <3> QED
      BY <3>1, <3>3, <3>4, <3>5, <3>7, SameMore DEF Good
  <2>4. ASSUME NEW x PROVE Good([m EXCEPT !.spc = x])
    <3> DEFINE d == [m EXCEPT !.spc = x]
    <3>1. Same(m, d, {"spc", "mmu", "mem", "os"}) /\ d.mmu = m.mmu
      BY <1>0 DEF Same, Fields
    <3> HIDE DEF d
    <3>2. Good(d)
      BY <1>0, <1>2, <3>1
    <3> QED
      BY <3>2 DEF d
  <2> DEFINE code == m.mmu.expevt
  <2>5. CASE code # "080" /\ code # "160" /\ code # "1E0"
    <3>1. CASE m.mmu.expevt = "180"
      <4> DEFINE x == U(m.spc + 2)
      <4>1. OsServe(m) = [m EXCEPT !.spc = x]
        BY <2>5, <3>1 DEF OsServe
      <4> HIDE DEF x
      <4> QED
        BY <2>4, <4>1
    <3>2. CASE m.mmu.expevt # "180"
      <4> DEFINE x == End(m.prog)
      <4>1. OsServe(m) = [m EXCEPT !.spc = x]
        BY <2>5, <3>2 DEF OsServe
      <4> HIDE DEF x
      <4> QED
        BY <2>4, <4>1
    <3> QED
      BY <3>1, <3>2
  <2> HIDE DEF code
  <2> QED
    BY <2>1, <2>2, <2>3, <2>5 DEF code
<1>7. Good(OsMemory(m))
  <2> DEFINE from == m.os.frame
             to == IF from = MovedPage THEN SparePage ELSE MovedPage
             page == [b \in 0 .. PageBytes - 1 |-> m.mem[from + b]]
             dropped == WriteAssociative(m.mmu, MovedPage, m.mmu.pteh.asid, FALSE, FALSE)
             other == [NoEntry EXCEPT !.v = TRUE, !.pr = 3, !.d = TRUE, !.sz = PageBytes, !.ppn = to]
             flushed == WriteMMUCR(m.mmu, m.mmu.at, TRUE, m.mmu.urc, m.mmu.sv)
             last == m.mmu.last
             vpn == m.mmu.utlb[last].vpn
             free == m.os.next
             evicted == WriteAddress(m.mmu, last, vpn, asid, FALSE, FALSE)
             named == WriteAddress(m.mmu, free, MovedPage, 2, TRUE, TRUE)
             written == WriteData(named, free, other)
             mem == [a \in DOMAIN m.mem |-> IF a \in to .. to + PageBytes - 1 THEN page[a - to]
                                           ELSE IF a \in from .. from + PageBytes - 1 THEN 0 ELSE m.mem[a]]
             moved == [m.os EXCEPT !.frame = to]
             next == [m.os EXCEPT !.next = (m.os.next + 1) % UtlbSize]
             choice == m.os.choice
  <2>1. OsMemory(m) = CASE choice = "flush" -> [m EXCEPT !.mmu = flushed]
                        [] choice = "drop" -> [m EXCEPT !.mmu = dropped]
                        [] choice = "evict" -> [m EXCEPT !.mmu = evicted]
                        [] choice = "move" -> [m EXCEPT !.mmu = dropped, !.os = moved, !.mem = mem]
                        [] choice = "other" -> [m EXCEPT !.mmu = written, !.os = next]
                        [] OTHER -> m
    <3>1. /\ [m EXCEPT !.mmu = dropped, !.os.frame = to, !.mem = mem] = [m EXCEPT !.mmu = dropped, !.os = moved, !.mem = mem]
          /\ [m EXCEPT !.mmu = written, !.os.next = (m.os.next + 1) % UtlbSize] = [m EXCEPT !.mmu = written, !.os = next]
      OBVIOUS
    <3> QED
      BY <3>1 DEF OsMemory
  <2>2. Tlb(flushed)
    <3> DEFINE tlb == [k \in Slots |-> [m.mmu.utlb[k] EXCEPT !.v = FALSE]]
    <3>1. flushed = [m.mmu EXCEPT !.utlb = tlb, !.at = m.mmu.at, !.urc = m.mmu.urc, !.sv = m.mmu.sv]
      BY DEF WriteMMUCR
    <3>2. tlb = [k \in Slots |-> tlb[k]]
      OBVIOUS
    <3> HIDE DEF flushed, tlb
    <3> QED
      BY <1>0, <3>1, <3>2 DEF Tlb
  <2>3. Tlb(dropped)
    <3> DEFINE e(k) == IF Associated(m.mmu, m.mmu.utlb[k], MovedPage, m.mmu.pteh.asid)
                       THEN [m.mmu.utlb[k] EXCEPT !.v = FALSE, !.d = FALSE] ELSE m.mmu.utlb[k]
               tlb == [k \in Slots |-> e(k)]
    <3>1. dropped = [m.mmu EXCEPT !.utlb = tlb]
      BY DEF WriteAssociative
    <3>2. tlb = [k \in Slots |-> tlb[k]]
      OBVIOUS
    <3> HIDE DEF dropped, tlb
    <3> QED
      BY <1>0, <3>1, <3>2 DEF Tlb
  <2>4. Tlb(evicted) /\ Tlb(named)
    <3> HIDE DEF last, vpn, free, asid
    <3> QED
      BY <1>0, <1>5
  <2> HIDE DEF named, dropped, evicted, flushed
  <2>5. Tlb(written)
    <3> DEFINE e == [other EXCEPT !.vpn = named.utlb[free].vpn, !.asid = named.utlb[free].asid]
               tlb == [named.utlb EXCEPT ![free] = e]
    <3>1. written = [named EXCEPT !.utlb = tlb]
      BY DEF WriteData
    <3> HIDE DEF e, other
    <3>2. tlb = [k \in Slots |-> tlb[k]]
      <4>1. DOMAIN named.utlb = Slots
        BY <2>4 DEF Tlb
      <4> QED
        BY <4>1
    <3> HIDE DEF written, tlb
    <3> QED
      BY <2>4, <3>1, <3>2 DEF Tlb
  <2> HIDE DEF written, other, page, to, from, mem, moved, next, choice
  <2>6. Good([m EXCEPT !.mmu = dropped, !.os = moved, !.mem = mem])
    <3> DEFINE d == [m EXCEPT !.mmu = dropped, !.os = moved, !.mem = mem]
    <3>1. Same(m, d, {"spc", "mmu", "mem", "os"}) /\ d.mmu = dropped
      BY <1>0 DEF Same, Fields
    <3> HIDE DEF d
    <3>2. Good(d)
      BY <1>2, <2>3, <3>1
    <3> QED
      BY <3>2 DEF d
  <2>7. Good([m EXCEPT !.mmu = written, !.os = next])
    <3> DEFINE d == [m EXCEPT !.mmu = written, !.os = next]
    <3>1. Same(m, d, {"spc", "mmu", "mem", "os"}) /\ d.mmu = written
      BY <1>0 DEF Same, Fields
    <3> HIDE DEF d
    <3>2. Good(d)
      BY <1>2, <2>5, <3>1
    <3> QED
      BY <3>2 DEF d
  <2>8. /\ Good([m EXCEPT !.mmu = flushed]) /\ Good([m EXCEPT !.mmu = dropped])
        /\ Good([m EXCEPT !.mmu = evicted])
    BY <1>3, <2>2, <2>3, <2>4
  <2> QED
    BY <1>1, <2>1, <2>6, <2>7, <2>8
<1>8. Good(OsDoes(m, i))
  BY <1>4, <1>6, <1>7 DEF OsDoes
<1> QED
  BY <1>8 DEF Good

---------------------------------------------------------------------------
(* The invariant. *)

\* What the OS would do is no part of the machine proper.
LEMMA ChosenRest ==
  ASSUME NEW m, Rest(m), NEW work
  PROVE  LET d == Chosen(m, work) IN Rest(d) /\ Same(m, d, {"os"})
<1> DEFINE os == [m.os EXCEPT !.choice = work]
           d == [m EXCEPT !.os = os]
<1>1. Chosen(m, work) = d
  BY DEF Chosen
<1> HIDE DEF os
<1>2. Same(m, d, {"os"})
  BY SetField DEF Rest, Between, Shape, Fields
<1> HIDE DEF d
<1>3. Rest(d)
  BY <1>2, RestOn
<1> QED
  BY <1>1, <1>2, <1>3

\* An interrupt taken by step.
LEMMA EnteringRest ==
  ASSUME NEW m, Rest(m)
  PROVE  LET d == Entering(m) IN Rest(d) /\ Same(m, d, Rewritten \cup {"ldst", "irqCnt"}) /\ d.sr.BL = 1
<1> DEFINE b == Interrupted(m, 1)
           n == m.irqCnt + 1
           d == [b EXCEPT !.irqCnt = n]
<1>1. Rest(b) /\ Same(m, b, Rewritten \cup {"ldst"}) /\ b.sr.BL = 1
  BY InterruptedRest
<1>2. Entering(m) = d
  BY DEF Entering
<1> HIDE DEF b, n
<1>3. Same(b, d, {"irqCnt"})
  BY <1>1, SetField DEF Rest, Between, Shape
<1> HIDE DEF d
<1>4. Rest(d) /\ d.sr = b.sr
  <2>1. Rest(d)
    BY <1>1, <1>3, RestOn
  <2> QED
    BY <1>3, <2>1 DEF Same, Fields
<1>5. Same(m, d, (Rewritten \cup {"ldst"}) \cup {"irqCnt"})
  BY <1>1, <1>3, SameOn
<1>6. Same(m, d, Rewritten \cup {"ldst", "irqCnt"})
  BY <1>5, SameMore
<1> QED
  BY <1>1, <1>2, <1>4, <1>6

\* Step, by the machine its instruction starts on.
LEMMA StepOf == ASSUME Step PROVE \E work \in OsWorks : c' = Instruction(Chosen(Started, work))
<1>1. \E work \in WorksAt(Started) : c' = Instruction(Chosen(Started, work))
  BY DEF Step, Chosen
<1>2. WorksAt(Started) \subseteq OsWorks
  BY DEF WorksAt, OsWorks
<1> QED
  BY <1>1, <1>2

\* That machine is the one before, or is blocked by the interrupt just taken.
LEMMA StartedRest ==
  ASSUME Rest(c)
  PROVE  /\ Rest(Started) /\ Started.dead = c.dead /\ Started.ubc = c.ubc
         /\ (~Taking /\ Started = c) \/ (Taking /\ Started.sr.BL = 1)
<1>1. CASE Taking
  <2> DEFINE e == Entering(c)
  <2>1. Rest(e) /\ Same(c, e, Rewritten \cup {"ldst", "irqCnt"}) /\ e.sr.BL = 1
    BY EnteringRest
  <2>2. Started = e
    BY <1>1 DEF Started
  <2> HIDE DEF e
  <2>3. e.ubc = c.ubc /\ e.dead = c.dead
    BY <2>1 DEF Same, Fields, Rewritten
  <2> QED
    BY <1>1, <2>1, <2>2, <2>3
<1>2. CASE ~Taking
  BY <1>2 DEF Started
<1> QED
  BY <1>1, <1>2

\* One step.
LEMMA StepRest ==
  ASSUME OsKeeps, Rest(c), Step
  PROVE  Rest(c') /\ BreakAsked(c, c')
<1> DEFINE d == Started
<1>1. PICK work \in OsWorks : c' = Instruction(Chosen(d, work))
  BY StepOf
<1> DEFINE x == Chosen(d, work)
<1>2. Rest(d) /\ (d = c \/ (d.sr.BL = 1 /\ d.ubc = c.ubc))
  BY StartedRest
<1> HIDE DEF d
<1>3. Rest(x) /\ Same(d, x, {"os"})
  BY <1>2, ChosenRest
<1> HIDE DEF x
<1> DEFINE e == Instruction(x)
<1>4. Rest(e) /\ BreakAsked(x, e)
  BY <1>3, InstructionRest
<1>5. c' = e
  BY <1>1 DEF x
<1> HIDE DEF e
<1>6. x.ubc = d.ubc /\ x.sr = d.sr /\ x.mmu = d.mmu /\ x.prog = d.prog /\ x.pc = d.pc /\ x.mem = d.mem
  BY <1>3 DEF Same, Fields
<1>7. BreakAsked(c, e)
  <2>1. CASE d = c
    <3>1. DelayedAt(x, x.pc) = DelayedAt(c, c.pc)
      BY <1>6, <2>1 DEF DelayedAt, FaultOf, Translated, Priv, InstrAt, Physical
    <3> QED
      BY <1>4, <1>6, <2>1, <3>1 DEF BreakAsked, BrokenBefore, BrokenAfter, Live
  <2>2. CASE d # c
    BY <1>2, <1>4, <1>6, <2>2 DEF BreakAsked, Live
  <2> QED
    BY <2>1, <2>2
<1> QED
  BY <1>4, <1>5, <1>7

\* Every action keeps the invariant.
LEMMA NextRest == ASSUME OsKeeps, Rest(c), [Next]_vars PROVE Rest(c)'
<1>1. CASE Step
  BY <1>1, StepRest DEF Rest, Between, Shape, BreakUnit
<1>2. CASE Asleep
  <2> DEFINE e == [c EXCEPT !.sleeping = FALSE]
  <2>1. c' = e
    BY <1>2 DEF Asleep
  <2>2. Same(c, e, {"sleeping"})
    BY SetField DEF Rest, Between, Shape
  <2> HIDE DEF e
  <2>3. Rest(e)
    BY <2>2, RestOn
  <2> QED
    BY <2>1, <2>3 DEF Rest, Between, Shape, BreakUnit
<1>3. CASE Resume
  <2> DEFINE e == Resumed(c)
  <2>1. c' = e /\ Rest(e)
    BY <1>3, ResumedRest DEF Resume
  <2> HIDE DEF e
  <2> QED
    BY <2>1 DEF Rest, Between, Shape, BreakUnit
<1>4. CASE Inject
  <2> DEFINE e == Injected(c, EnqueueAddr, EnqueueArg)
  <2>1. c' = e /\ Rest(e)
    BY <1>4, InjectedRest DEF Inject
  <2> HIDE DEF e
  <2> QED
    BY <2>1 DEF Rest, Between, Shape, BreakUnit
<1>5. CASE Raise \/ Stop \/ UNCHANGED vars
  <2>1. c' = c
    BY <1>5 DEF Raise, Stop, vars
  <2> QED
    BY <2>1 DEF Rest, Between, Shape, BreakUnit
<1> QED
  BY <1>1, <1>2, <1>3, <1>4, <1>5 DEF Next

\* Between two steps of the CPU no instruction is half done: no fault waits, no slot is
\* being executed, no access is watched, and every field of the machine is there.  That is
\* what interrupts, injected calls and save-states rely on (cpu.step, callInject, SaveState).
THEOREM NothingHalfDone == ASSUME OsKeeps PROVE Spec => []Rest(c)
<1>1. Init => Rest(c)
  BY MachinesAtRest DEF Init
<1>2. Rest(c) /\ [Next]_vars => Rest(c)'
  BY NextRest
<1> QED
  BY <1>1, <1>2, PTL DEF Spec

---------------------------------------------------------------------------
(* What a fault leaves, field by field. *)

\* The instruction is broken at before it executes; it faults.
BrokenFirst(m) == UbcOn(m.ubc) /\ Before(m).fetchHit
Faults(m) == ~BrokenFirst(m) /\ Plain(Watching(m)).fault # {}

\* After a fault: the exception entered from the address of the instruction (of the branch, when
\* its slot faults), in the other bank, and of the machine nothing else but what the walk, the
\* watch and the reservation keep.
FaultLeaves(m, e) ==
  /\ e.spc = m.pc /\ e.ssr = m.sr /\ e.sgr = m.r[SP] /\ e.sr = Blocked(m.sr)
  /\ e.r = setSR(m, Blocked(m.sr)).r /\ e.rbank1 = setSR(m, Blocked(m.sr)).rbank1
  /\ e.mmu.utlb = m.mmu.utlb /\ SameUnit(m.ubc, e.ubc) /\ e.ldst = FALSE
  /\ Same(m, e, Rewritten \cup {"faulted", "slotPC", "ubc", "ldst"})

\* The fields of an entry, one by one: the return registers, the bank, the UTLB.
LEMMA EnteredFields ==
  ASSUME NEW d, DOMAIN d = Fields, NEW expevt, NEW spc, NEW vector
  PROVE  LET e == Entered(d, expevt, spc, vector) IN
         /\ Same(d, e, Rewritten) /\ e.spc = spc /\ e.ssr = d.sr /\ e.sgr = d.r[SP] /\ e.sr = Blocked(d.sr)
         /\ e.r = setSR(d, Blocked(d.sr)).r /\ e.rbank1 = setSR(d, Blocked(d.sr)).rbank1
         /\ e.mmu.utlb = d.mmu.utlb
<1> DEFINE mmu == [d.mmu EXCEPT !.expevt = expevt]
           sgr == d.r[SP]
           a == [d EXCEPT !.ssr = d.sr, !.spc = spc, !.sgr = sgr, !.mmu = mmu, !.lastExc = expevt]
           sr == Blocked(d.sr)
           b == setSR(a, sr)
           s == setSR(d, sr)
           pc == U(vector)
           e == [b EXCEPT !.pc = pc]
<1>1. Entered(d, expevt, spc, vector) = e
  BY DEF Entered
<1>2. mmu.utlb = d.mmu.utlb
  OBVIOUS
<1> HIDE DEF mmu, sr, pc, sgr
<1>3. /\ Same(d, a, {"ssr", "spc", "sgr", "mmu", "lastExc"})
      /\ a.ssr = d.sr /\ a.spc = spc /\ a.mmu = mmu /\ a.sgr = sgr
  BY DEF Same, Fields
<1> HIDE DEF a
<1>4. DOMAIN a = Fields /\ a.sr = d.sr /\ a.r = d.r /\ a.rbank1 = d.rbank1
  BY <1>3 DEF Same, Fields
<1>5. Same(a, b, {"sr", "rbank1", "r"}) /\ b.sr = sr
  BY <1>4, SetSr
<1>6. b.r = s.r /\ b.rbank1 = s.rbank1
  <2>1. CASE bank1(d.sr) = bank1(sr)
    BY <1>4, <2>1 DEF setSR, Fields
  <2>2. CASE bank1(d.sr) # bank1(sr)
    <3> DEFINE rb == [i \in Banked |-> d.r[i]]
               r == [i \in Regs |-> IF i \in Banked THEN d.rbank1[i] ELSE d.r[i]]
    <3>1. /\ b = [a EXCEPT !.sr = sr, !.rbank1 = rb, !.r = r]
          /\ s = [d EXCEPT !.sr = sr, !.rbank1 = rb, !.r = r]
      BY <1>4, <2>2 DEF setSR
    <3> HIDE DEF rb, r, b, s
    <3> QED
      BY <1>4, <3>1 DEF Fields
  <2> QED
    BY <2>1, <2>2
<1> HIDE DEF b, s
<1>7. Same(b, e, {"pc"})
  BY <1>5, SetField DEF Same
<1> HIDE DEF e
<1>8. Same(d, e, ({"ssr", "spc", "sgr", "mmu", "lastExc"} \cup {"sr", "rbank1", "r"}) \cup {"pc"})
  BY <1>3, <1>5, <1>7, SameOn
<1>9. Same(d, e, Rewritten)
  BY <1>8, SameMore DEF Rewritten
<1>10. /\ e.spc = a.spc /\ e.ssr = a.ssr /\ e.sr = b.sr /\ e.mmu = a.mmu /\ e.sgr = a.sgr
       /\ e.r = b.r /\ e.rbank1 = b.rbank1
  BY <1>5, <1>7 DEF Same, Fields
<1> SUFFICES /\ Same(d, e, Rewritten) /\ e.spc = spc /\ e.ssr = d.sr /\ e.sgr = sgr /\ e.sr = sr
             /\ e.r = s.r /\ e.rbank1 = s.rbank1
             /\ e.mmu.utlb = d.mmu.utlb
  BY <1>1 DEF sr, s, sgr
<1> QED
  BY <1>2, <1>3, <1>5, <1>6, <1>9, <1>10

\* The same, for the entry of a fault.
LEMMA RaiseFields ==
  ASSUME NEW b, DOMAIN b = Fields, b.sr.BL = 0, NEW f, NEW spc
  PROVE  LET e == MmuRaise(b, f, spc) IN
         /\ Same(b, e, Rewritten \cup {"faulted"}) /\ e.spc = spc /\ e.ssr = b.sr /\ e.sgr = b.r[SP] /\ e.sr = Blocked(b.sr)
         /\ e.r = setSR(b, Blocked(b.sr)).r /\ e.rbank1 = setSR(b, Blocked(b.sr)).rbank1
         /\ e.mmu.utlb = b.mmu.utlb /\ e.faulted = TRUE
<1> DEFINE mmu == [b.mmu EXCEPT !.tea = f.va, !.pteh.vpn = PageOf(f.va, PageBytes)]
           x == [b EXCEPT !.mmu = mmu, !.faulted = TRUE]
           vector == b.vbr + (IF f.vector = "miss" THEN MissVector ELSE GeneralVector)
           code == f.expevt
           sr == Blocked(b.sr)
           e == Entered(x, code, spc, vector)
           s == setSR(x, sr)
           t == setSR(b, sr)
<1>1. MmuRaise(b, f, spc) = e
  <2>1. [b EXCEPT !.mmu.tea = f.va, !.mmu.pteh.vpn = PageOf(f.va, PageBytes), !.faulted = TRUE] = x
    OBVIOUS
  <2> QED
    BY <2>1 DEF MmuRaise
<1>2. mmu.utlb = b.mmu.utlb
  OBVIOUS
<1> HIDE DEF mmu, vector, code, sr
<1>3. Same(b, x, {"mmu", "faulted"}) /\ x.mmu = mmu /\ x.faulted = TRUE
  BY DEF Same, Fields
<1>4. DOMAIN x = Fields /\ x.sr = b.sr /\ x.r = b.r /\ x.rbank1 = b.rbank1
  BY <1>3 DEF Same, Fields
<1>5. s.r = t.r /\ s.rbank1 = t.rbank1
  <2> HIDE DEF x
  <2>1. CASE bank1(b.sr) = bank1(sr)
    BY <1>4, <2>1 DEF setSR, Fields
  <2>2. CASE bank1(b.sr) # bank1(sr)
    <3> DEFINE rb == [i \in Banked |-> b.r[i]]
               r == [i \in Regs |-> IF i \in Banked THEN b.rbank1[i] ELSE b.r[i]]
    <3>1. /\ s = [x EXCEPT !.sr = sr, !.rbank1 = rb, !.r = r]
          /\ t = [b EXCEPT !.sr = sr, !.rbank1 = rb, !.r = r]
      BY <1>4, <2>2 DEF setSR
    <3> HIDE DEF rb, r, s, t
    <3> QED
      BY <1>4, <3>1 DEF Fields
  <2> QED
    BY <2>1, <2>2
<1> HIDE DEF x
<1>6. /\ Same(x, e, Rewritten) /\ e.spc = spc /\ e.ssr = x.sr /\ e.sgr = x.r[SP] /\ e.sr = Blocked(x.sr)
      /\ e.r = setSR(x, Blocked(x.sr)).r /\ e.rbank1 = setSR(x, Blocked(x.sr)).rbank1
      /\ e.mmu.utlb = x.mmu.utlb
  BY <1>4, EnteredFields
<1> HIDE DEF e, s, t
<1>7. Same(b, e, Rewritten \cup {"faulted"}) /\ e.faulted = TRUE
  BY <1>3, <1>6 DEF Same, Rewritten, Fields
<1> SUFFICES /\ Same(b, e, Rewritten \cup {"faulted"}) /\ e.spc = spc /\ e.ssr = b.sr /\ e.sgr = b.r[SP] /\ e.sr = sr
             /\ e.r = t.r /\ e.rbank1 = t.rbank1 /\ e.mmu.utlb = b.mmu.utlb /\ e.faulted = TRUE
  BY <1>1 DEF sr, t
<1> QED
  BY <1>2, <1>3, <1>4, <1>5, <1>6, <1>7 DEF sr, s

\* The machine that watches differs in its break unit only.
LEMMA WatchingRest ==
  ASSUME NEW m, Rest(m)
  PROVE  LET d == Watching(m) IN
         /\ Between(d) /\ SameUnit(m.ubc, d.ubc) /\ Same(m, d, {"ubc", "faulted", "ops"})
         /\ UbcOn(m.ubc) => d.faulted = FALSE
<1> DEFINE delayed == DelayedAt(m, m.pc)
           asid == m.mmu.pteh.asid
           before == Before(m)
           idle == [m.ubc EXCEPT !.fetchHit = FALSE]
           after == IF Live(m) THEN FetchMatch(before, m.pc, delayed, TRUE, asid) ELSE before
           u == [after EXCEPT !.opHit = FALSE]
           ops == Live(m) /\ OpArmed(m.ubc)
           d == [m EXCEPT !.ubc = u, !.faulted = FALSE, !.ops = ops]
<1>0. Between(m) /\ BreakUnit(m.ubc) /\ Shape(m)
  BY DEF Rest, Between, Shape
<1>1. Watching(m) = IF UbcOn(m.ubc) THEN d ELSE m
  BY DEF Watching
<1>2. before = IF Live(m) THEN FetchMatch(m.ubc, m.pc, delayed, FALSE, asid) ELSE idle
  BY DEF Before
<1> HIDE DEF delayed, asid, before
<1>3. SameUnit(m.ubc, before)
  <2>1. SameUnit(m.ubc, idle)
    BY <1>0 DEF SameUnit, BreakUnit
  <2> HIDE DEF idle
  <2> QED
    BY <1>0, <1>2, <2>1, FetchMarked
<1>4. BreakUnit(before)
  BY <1>0, <1>3 DEF BreakUnit, SameUnit
<1>5. SameUnit(before, after)
  <2>1. SameUnit(before, before)
    BY DEF SameUnit
  <2> QED
    BY <1>4, <2>1, FetchMarked
<1> HIDE DEF after
<1>6. SameUnit(m.ubc, after)
  BY <1>3, <1>5, SameUnitOn
<1>7. SameUnit(m.ubc, u)
  <2>1. SameUnit(after, u)
    BY DEF SameUnit
  <2> HIDE DEF u
  <2> QED
    BY <1>6, <2>1, SameUnitOn
<1> HIDE DEF u, ops
<1>8. Same(m, d, {"ubc", "faulted", "ops"}) /\ d.ubc = u /\ d.faulted = FALSE
  BY <1>0 DEF Same, Shape, Fields
<1> HIDE DEF d
<1>9. Between(d)
  BY <1>0, <1>7, <1>8, SetUbc
<1>10. SameUnit(m.ubc, m.ubc) /\ Same(m, m, {"ubc", "faulted", "ops"})
  BY <1>0, SameSelf DEF SameUnit, Shape
<1> QED
  BY <1>0, <1>1, <1>7, <1>8, <1>9, <1>10

\* The instruction itself: StepMMU on the machine that watches.
LEMMA WatchedInstruction ==
  ASSUME NEW m, ~BrokenFirst(m), StepMMU(Watching(m)).faulted = TRUE, DOMAIN StepMMU(Watching(m)) = Fields
  PROVE  Instruction(m) = IF UbcOn(m.ubc) THEN [StepMMU(Watching(m)) EXCEPT !.ops = FALSE] ELSE StepMMU(m)
<1>1. CASE ~UbcOn(m.ubc)
  BY <1>1 DEF Instruction
<1>2. CASE UbcOn(m.ubc)
  <2> DEFINE asid == m.mmu.pteh.asid
             delayed == DelayedAt(m, m.pc)
             idle == [m.ubc EXCEPT !.fetchHit = FALSE]
             before == IF Live(m) THEN FetchMatch(m.ubc, m.pc, delayed, FALSE, asid) ELSE idle
             after == IF Live(m) THEN FetchMatch(before, m.pc, delayed, TRUE, asid) ELSE before
             u == [after EXCEPT !.opHit = FALSE]
             ops == Live(m) /\ OpArmed(m.ubc)
             d == [m EXCEPT !.ubc = u, !.faulted = FALSE, !.ops = ops]
             one == StepMMU(d)
             two == IF Untaken(one, m.pc) /\ ~one.faulted THEN StepMMU(one) ELSE one
             done == [two EXCEPT !.ops = FALSE]
             lost == ~Live(m) \/ done.faulted \/ done.sleeping \/ done.dead \/ ~(after.fetchHit \/ done.ubc.opHit)
             b == [m EXCEPT !.ubc = before]
             spc == m.pc
             to == done.pc
             e == IF before.fetchHit THEN UserBreak(b, spc) ELSE IF lost THEN done ELSE UserBreak(done, to)
  <2>1. StepUBC(m) = e
    BY DEF StepUBC
  <2>2. before = Before(m) /\ Watching(m) = d
    BY <1>2 DEF Before, Watching
  <2> HIDE DEF before, after, d, spc, b
  <2>3. ~before.fetchHit
    BY <1>2, <2>2 DEF BrokenFirst
  <2>4. one.faulted = TRUE /\ DOMAIN one = Fields
    BY <2>2
  <2> HIDE DEF one
  <2>5. two = one
    BY <2>4
  <2> HIDE DEF two
  <2>6. done.faulted = TRUE
    BY <2>4, <2>5 DEF Fields
  <2>7. lost
    BY <2>6
  <2> HIDE DEF done, to, lost
  <2>8. StepUBC(m) = done
    BY <2>1, <2>3, <2>7
  <2> QED
    BY <1>2, <2>2, <2>5, <2>8 DEF Instruction, done, one
<1> QED
  BY <1>1, <1>2

\* An instruction that faults, with breaks or without.
LEMMA InstructionFaults ==
  ASSUME OsKeeps, NEW m, Rest(m), ~m.dead, m.sr.BL = 0, Faults(m)
  PROVE  FaultLeaves(m, Instruction(m))
<1> DEFINE d == Watching(m)
           p == Plain(d)
           f == CHOOSE x \in p.fault : TRUE
           b == RolledBack(p, d)
           spc == d.pc
           x == MmuRaise(b, f, spc)
           keeps == {"ubc", "faulted", "ops"}
           all == Rewritten \cup {"faulted", "slotPC", "ubc", "ldst"}
<1>1. p.fault # {} /\ ~BrokenFirst(m)
  BY DEF Faults
<1>2. StepMMU(d) = x
  BY <1>1 DEF StepMMU
<1>3. Between(d) /\ SameUnit(m.ubc, d.ubc) /\ Same(m, d, keeps)
  BY WatchingRest
<1> HIDE DEF d
<1>4. d.sr = m.sr /\ d.r = m.r /\ d.pc = m.pc /\ d.dead = m.dead /\ d.mmu = m.mmu /\ d.rbank1 = m.rbank1 /\ DOMAIN d = Fields
  BY <1>3 DEF Same, Fields
<1>5. Quiet(d)
  BY <1>3, <1>4 DEF Quiet, Ready, Between
<1> DEFINE Ws == Reloads(d)
<1>6. Done(d, p, Ws)
  BY <1>5, PlainDone
<1> HIDE DEF p, f, Ws
<1>7. /\ Same(b, [d EXCEPT !.slotPC = p.slotPC, !.mmu = p.mmu, !.ubc = p.ubc, !.ldst = FALSE], {"pc"})
      /\ Same(d, b, {"pc", "slotPC", "mmu", "ubc", "ldst"})
      /\ b.mmu = p.mmu /\ b.ubc = p.ubc
  BY <1>1, <1>5, <1>6, RolledBackSame
<1>8. b.ldst = FALSE /\ DOMAIN b = Fields
  BY <1>4, <1>7 DEF Same, Fields
<1> HIDE DEF b
<1>9. /\ b.sr = m.sr /\ b.r = m.r /\ b.rbank1 = m.rbank1 /\ b.mmu.utlb = m.mmu.utlb /\ SameUnit(m.ubc, b.ubc)
  <2>1. b.sr = d.sr /\ b.r = d.r /\ b.rbank1 = d.rbank1
    BY <1>7 DEF Same, Fields
  <2>2. b.mmu.utlb = d.mmu.utlb
    <3>1. {"utlb", "last", "at", "sv", "pteh"} \subseteq DOMAIN d.mmu /\ SameTlb(d.mmu, b.mmu)
      BY <1>1, <1>3, <1>6, <1>7 DEF Between, Shape, Done
    <3> QED
      BY <3>1, TlbShape
  <2>3. SameUnit(d.ubc, b.ubc)
    BY <1>1, <1>6, <1>7 DEF Done, Flagged
  <2> QED
    BY <1>3, <1>4, <2>1, <2>2, <2>3, SameUnitOn
<1>10. /\ Same(b, x, Rewritten \cup {"faulted"}) /\ x.spc = spc /\ x.ssr = b.sr /\ x.sgr = b.r[SP] /\ x.sr = Blocked(b.sr)
       /\ x.r = setSR(b, Blocked(b.sr)).r /\ x.rbank1 = setSR(b, Blocked(b.sr)).rbank1
       /\ x.mmu.utlb = b.mmu.utlb /\ x.faulted = TRUE
  BY <1>8, <1>9, RaiseFields
<1> HIDE DEF x, spc
<1> DEFINE sr == Blocked(m.sr)
           s == setSR(b, sr)
           t == setSR(m, sr)
<1>11. s.r = t.r /\ s.rbank1 = t.rbank1
  <2>0. DOMAIN m = Fields /\ DOMAIN b = Fields
    BY <1>3, <1>8 DEF Same
  <2> HIDE DEF sr
  <2>1. CASE bank1(m.sr) = bank1(sr)
    BY <1>9, <2>1 DEF setSR, Fields
  <2>2. CASE bank1(m.sr) # bank1(sr)
    <3> DEFINE rb == [i \in Banked |-> m.r[i]]
               r == [i \in Regs |-> IF i \in Banked THEN m.rbank1[i] ELSE m.r[i]]
    <3>1. /\ s = [b EXCEPT !.sr = sr, !.rbank1 = rb, !.r = r]
          /\ t = [m EXCEPT !.sr = sr, !.rbank1 = rb, !.r = r]
      BY <1>9, <2>2 DEF setSR
    <3> HIDE DEF rb, r, s, t
    <3> QED
      BY <2>0, <3>1 DEF Fields
  <2> QED
    BY <2>1, <2>2
<1>12. Same(m, x, all \cup {"ops"}) /\ x.ubc = b.ubc /\ x.ldst = b.ldst
  <2>1. Same(m, x, (keeps \cup {"pc", "slotPC", "mmu", "ubc", "ldst"}) \cup (Rewritten \cup {"faulted"}))
    <3>1. Same(m, b, keeps \cup {"pc", "slotPC", "mmu", "ubc", "ldst"})
      BY <1>3, <1>7, SameOn
    <3> QED
      BY <1>10, <3>1, SameOn
  <2>2. (keeps \cup {"pc", "slotPC", "mmu", "ubc", "ldst"}) \cup (Rewritten \cup {"faulted"}) \subseteq all \cup {"ops"}
    BY DEF Rewritten
  <2>3. Same(m, x, all \cup {"ops"})
    BY <2>1, <2>2, SameMore
  <2> QED
    BY <1>10, <2>3 DEF Same, Rewritten, Fields
<1> HIDE DEF s, t
<1> DEFINE Left(e) == /\ e.spc = m.pc /\ e.ssr = m.sr /\ e.sgr = m.r[SP] /\ e.sr = Blocked(m.sr)
                      /\ e.r = t.r /\ e.rbank1 = t.rbank1
                      /\ e.mmu.utlb = m.mmu.utlb /\ SameUnit(m.ubc, e.ubc) /\ e.ldst = FALSE
                      /\ DOMAIN e = Fields /\ Same(m, e, all \cup {"ops"})
<1>13. Left(x)
  BY <1>4, <1>8, <1>9, <1>10, <1>11, <1>12 DEF spc, s, sr, Same
<1>14. ASSUME NEW e, Left(e), e.ops = m.ops PROVE FaultLeaves(m, e)
  <2>1. Same(m, e, all)
    BY <1>14 DEF Same
  <2> HIDE DEF all
  <2> QED
    BY <1>14, <2>1 DEF FaultLeaves, t, sr, all
<1>15. Instruction(m) = IF UbcOn(m.ubc) THEN [x EXCEPT !.ops = FALSE] ELSE StepMMU(m)
  BY <1>1, <1>2, <1>10, <1>13, WatchedInstruction DEF d
<1>16. CASE UbcOn(m.ubc)
  <2> DEFINE e == [x EXCEPT !.ops = FALSE]
  <2>1. Same(x, e, {"ops"}) /\ e.ops = FALSE
    BY <1>13, SetField DEF Same, Fields
  <2> HIDE DEF e
  <2>2. Left(e)
    <3>1. /\ e.spc = x.spc /\ e.ssr = x.ssr /\ e.sgr = x.sgr /\ e.sr = x.sr /\ e.r = x.r /\ e.rbank1 = x.rbank1
          /\ e.mmu = x.mmu /\ e.ubc = x.ubc /\ e.ldst = x.ldst /\ DOMAIN e = Fields
      BY <2>1 DEF Same, Fields
    <3>2. Same(m, e, all \cup {"ops"})
      BY <1>13, <2>1 DEF Same
    <3> HIDE DEF all
    <3> QED
      BY <1>13, <3>1, <3>2
  <2>3. FaultLeaves(m, e)
    BY <1>14, <2>1, <2>2 DEF Rest
  <2> QED
    BY <1>15, <1>16, <2>3 DEF e
<1>17. CASE ~UbcOn(m.ubc)
  <2>1. d = m
    BY <1>17 DEF Watching, d
  <2>2. x.ops = m.ops
    BY <1>7, <1>10, <2>1 DEF Same, Fields, Rewritten
  <2>3. FaultLeaves(m, x)
    BY <1>13, <1>14, <2>2
  <2> QED
    BY <1>2, <1>15, <1>17, <2>1, <2>3
<1> QED
  BY <1>16, <1>17

---------------------------------------------------------------------------
(* Action properties. *)

\* A break is taken only where some channel asks for it, never while exceptions are blocked.
BreaksAsked == [][Step => BreakAsked(c, c')]_vars

\* stepUBC's breaks: whatever the channels count and whatever faults between the match and
\* the break, a break taken before the instruction was asked for by a channel that watches
\* its address and finds the machine as it was; one taken after it, by a channel that
\* watches its address or an operand; and none is taken of an instruction that starts
\* with exceptions blocked.
THEOREM BreaksAreAsked == ASSUME OsKeeps PROVE Spec => BreaksAsked
<1>1. Rest(c) /\ [Next]_vars => [Step => BreakAsked(c, c')]_vars
  BY StepRest
<1>2. Spec => []Rest(c)
  BY NothingHalfDone
<1> QED
  BY <1>1, <1>2, PTL DEF Spec, BreaksAsked

\* Whatever an instruction had done when it faulted is undone, as seen from the handler.
FaultsPrecise ==
  [][Step /\ ~Taking /\ c.sr.BL = 0 =>
       \E work \in OsWorks : LET d == Chosen(c, work) IN c' = Instruction(d) /\ (Faults(d) => FaultLeaves(d, c'))]_vars

\* stepMMU's exceptions are precise: an instruction that faults, alone, in the slot of a
\* branch, at its second operand, with breaks armed or not, leaves the registers, the
\* memory and the UTLB as they were before it, or before its branch, and the handler
\* returns to it.
THEOREM FaultsArePrecise == ASSUME OsKeeps PROVE Spec => FaultsPrecise
<1>1. ASSUME Rest(c), Step, ~Taking, c.sr.BL = 0
      PROVE  \E work \in OsWorks : LET d == Chosen(c, work) IN c' = Instruction(d) /\ (Faults(d) => FaultLeaves(d, c'))
  <2>1. PICK work \in OsWorks : c' = Instruction(Chosen(c, work))
    <3>1. Started = c
      BY <1>1 DEF Started
    <3> QED
      BY <1>1, <3>1, StepOf
  <2> DEFINE d == Chosen(c, work)
  <2>2. Rest(d) /\ Same(c, d, {"os"})
    BY <1>1, ChosenRest
  <2> HIDE DEF d
  <2>3. d.sr.BL = 0 /\ ~d.dead
    BY <1>1, <2>2 DEF Same, Fields, Step, Running
  <2>4. Faults(d) => FaultLeaves(d, Instruction(d))
    BY <2>2, <2>3, InstructionFaults
  <2> QED
    BY <2>1, <2>4 DEF d
<1>2. Rest(c) /\ [Next]_vars =>
        [Step /\ ~Taking /\ c.sr.BL = 0 =>
           \E work \in OsWorks : LET d == Chosen(c, work) IN c' = Instruction(d) /\ (Faults(d) => FaultLeaves(d, c'))]_vars
  BY <1>1
<1>3. Spec => []Rest(c)
  BY NothingHalfDone
<1> QED
  BY <1>2, <1>3, PTL DEF Spec, FaultsPrecise

\* What an instruction may load depends on what is fetched, and nothing else.
LEMMA ReloadsSame ==
  ASSUME NEW m, NEW d, "mmu" \in DOMAIN m, "mmu" \in DOMAIN d,
         d.sr = m.sr, d.mmu = m.mmu, d.prog = m.prog, d.pc = m.pc
  PROVE  Reloads(d) = Reloads(m)
<1>1. InstrAt(d, d.pc) = InstrAt(m, m.pc)
  BY InstrSame
<1>2. Second(d) = Second(m)
  <2> DEFINE fd == Fetched(d, d.pc)
             fm == Fetched(m, m.pc)
             to == U(m.pc + 2)
             u == LookedUp(m.mmu, m.pc, Priv(m))
  <2>1. /\ Looked(m, m.pc) = IF Translated(m, m.pc) THEN [m EXCEPT !.mmu = u] ELSE m
        /\ Looked(d, d.pc) = IF Translated(m, m.pc) THEN [d EXCEPT !.mmu = u] ELSE d
    BY DEF Looked, Translated, Priv
  <2> HIDE DEF u
  <2>2. /\ Looked(d, d.pc).prog = Looked(m, m.pc).prog /\ Looked(d, d.pc).mmu = Looked(m, m.pc).mmu
        /\ Looked(d, d.pc).sr = Looked(m, m.pc).sr
    BY <2>1
  <2>3. fd.prog = fm.prog /\ fd.mmu = fm.mmu /\ fd.sr = fm.sr
    BY <2>2 DEF Fetched
  <2>4. Second(d) = InstrAt(fd, to) /\ Second(m) = InstrAt(fm, to)
    BY DEF Second
  <2> HIDE DEF fd, fm, to
  <2> QED
    BY <2>3, <2>4, InstrSame
<1> QED
  BY <1>1, <1>2 DEF Reloads, SlotOf

\* With exceptions blocked stepUBC takes no break: the step is the one stepMMU makes.
LEMMA BlockedInstruction ==
  ASSUME NEW m, BreakUnit(m.ubc), m.sr.BL = 1, UbcOn(m.ubc) => ~Untaken(StepMMU(Watching(m)), m.pc), NEW f \in Return, DOMAIN StepMMU(Watching(m)) = Fields
  PROVE  Instruction(m)[f] = StepMMU(Watching(m))[f]
<1>1. CASE ~UbcOn(m.ubc)
  BY <1>1 DEF Instruction, Watching
<1>2. CASE UbcOn(m.ubc)
  <2> DEFINE asid == m.mmu.pteh.asid
             delayed == DelayedAt(m, m.pc)
             idle == [m.ubc EXCEPT !.fetchHit = FALSE]
             before == IF Live(m) THEN FetchMatch(m.ubc, m.pc, delayed, FALSE, asid) ELSE idle
             after == IF Live(m) THEN FetchMatch(before, m.pc, delayed, TRUE, asid) ELSE before
             u == [after EXCEPT !.opHit = FALSE]
             ops == Live(m) /\ OpArmed(m.ubc)
             d == [m EXCEPT !.ubc = u, !.faulted = FALSE, !.ops = ops]
             one == StepMMU(d)
             two == IF Untaken(one, m.pc) /\ ~one.faulted THEN StepMMU(one) ELSE one
             done == [two EXCEPT !.ops = FALSE]
             lost == ~Live(m) \/ done.faulted \/ done.sleeping \/ done.dead \/ ~(after.fetchHit \/ done.ubc.opHit)
             b == [m EXCEPT !.ubc = before]
             spc == m.pc
             to == done.pc
             e == IF before.fetchHit THEN UserBreak(b, spc) ELSE IF lost THEN done ELSE UserBreak(done, to)
  <2>1. StepUBC(m) = e
    BY DEF StepUBC
  <2>2. ~Live(m)
    BY DEF Live
  <2>3. before = idle /\ lost /\ Watching(m) = d
    BY <1>2, <2>2 DEF Before, Watching
  <2>4. ~before.fetchHit
    BY <2>3 DEF BreakUnit
  <2> HIDE DEF before, after, d, spc, b, to, lost
  <2>5. two = one
    BY <1>2, <2>3
  <2>6. DOMAIN one = Fields
    BY <2>3
  <2> HIDE DEF one, two
  <2>7. done[f] = one[f]
    BY <2>5, <2>6 DEF Return, Fields
  <2> HIDE DEF done
  <2>8. Instruction(m) = done
    BY <1>2, <2>1, <2>3, <2>4 DEF Instruction
  <2> QED
    BY <2>3, <2>7, <2>8 DEF one
<1> QED
  BY <1>1, <1>2

\* While exceptions are blocked nothing is entered over them: whatever step runs,
\* with breaks armed or requests waiting, keeps SSR, SPC and SGR but where the
\* instruction itself loads them (acceptInterrupt, raise, userBreak, mmuRaise).
THEOREM ReturnIsKept == ASSUME OsKeeps PROVE Spec => ReturnKept
<1>1. ASSUME Rest(c), Step, Started.sr.BL = 1, ~Paired(Started)
      PROVE  \A f \in Return \ Reloads(Started) : c'[f] = Started[f]
  <2> DEFINE m == Started
  <2>1. PICK work \in OsWorks : c' = Instruction(Chosen(m, work))
    BY <1>1, StepOf
  <2>2. Rest(m) /\ ~m.dead /\ m.sr.BL = 1 /\ ~Paired(m)
    BY <1>1, StartedRest DEF Step, Running
  <2> SUFFICES \A f \in Return \ Reloads(m) : c'[f] = m[f]
    OBVIOUS
  <2> HIDE DEF m
  <2> DEFINE d == Chosen(m, work)
             w == Watching(d)
             e == StepMMU(w)
  <2>3. Rest(d) /\ Same(m, d, {"os"})
    BY <2>2, ChosenRest
  <2>4. UbcOn(d.ubc) => ~Untaken(StepMMU(Watching(d)), d.pc)
    <3>1. d.ubc = m.ubc /\ d.pc = m.pc
      BY <2>3 DEF Same, Fields
    <3> HIDE DEF e, w
    <3> QED
      BY <2>2, <3>1 DEF Paired
  <2>5. c' = Instruction(d)
    BY <2>1
  <2> HIDE DEF d
  <2>6. Between(w) /\ Same(d, w, {"ubc", "faulted", "ops"})
    BY <2>3, WatchingRest
  <2> HIDE DEF w
  <2>7. /\ w.sr = m.sr /\ w.dead = m.dead /\ w.mmu = m.mmu /\ w.prog = m.prog /\ w.pc = m.pc
        /\ d.sr = m.sr /\ \A f \in Return : w[f] = m[f]
    BY <2>3, <2>6 DEF Same, Fields, Return
  <2>8. After(w, e) /\ \A f \in Return \ Reloads(w) : e[f] = w[f]
    BY <2>2, <2>6, <2>7, StepAfter
  <2>9. Reloads(w) = Reloads(m)
    BY <2>2, <2>6, <2>7, ReloadsSame DEF Rest, Between, Shape, Fields
  <2>10. ASSUME NEW f \in Return PROVE c'[f] = e[f]
    <3>1. Instruction(d)[f] = StepMMU(Watching(d))[f]
      BY <2>2, <2>3, <2>4, <2>7, <2>8, BlockedInstruction DEF After, Between, Shape, w, Rest
    <3> QED
      BY <2>5, <3>1 DEF w
  <2> HIDE DEF e
  <2> QED
    BY <2>7, <2>8, <2>9, <2>10
<1>2. Rest(c) /\ [Next]_vars =>
        [Step /\ Started.sr.BL = 1 /\ ~Paired(Started) =>
           \A f \in Return \ Reloads(Started) : c'[f] = Started[f]]_vars
  BY <1>1
<1>3. Spec => []Rest(c)
  BY NothingHalfDone
<1> QED
  BY <1>2, <1>3, PTL DEF Spec, ReturnKept

\* What a save-state of the MMU keeps: all but the memory of the last hit.
Resaved(u, v) == /\ DOMAIN v = DOMAIN u /\ v.last = 0
                 /\ \A x \in DOMAIN u \ {"last"} : v[x] = u[x]

\* The save-state written and read back.
LEMMA SavedMmu ==
  ASSUME NEW u, {"utlb", "last", "at", "sv", "pteh"} \subseteq DOMAIN u, u.utlb = [i \in Slots |-> u.utlb[i]]
  PROVE  Resaved(u, RestoreState(StateMap(u)))
<1> DEFINE entries == {<<i, u.utlb[i]>> : i \in {j \in Slots : u.utlb[j] # NoEntry}}
           none == [i \in Slots |-> NoEntry]
           regs == [u EXCEPT !.utlb = none, !.last = 0]
           of(i) == IF \E x \in entries : x[1] = i THEN (CHOOSE x \in entries : x[1] = i)[2] ELSE NoEntry
           tlb == [i \in Slots |-> of(i)]
<1>1. RestoreState(StateMap(u)) = [regs EXCEPT !.utlb = tlb]
  BY DEF RestoreState, StateMap
<1>2. ASSUME NEW i \in Slots PROVE of(i) = u.utlb[i]
  <2>1. CASE u.utlb[i] = NoEntry
    <3>1. ~ \E x \in entries : x[1] = i
      BY <2>1
    <3> QED
      BY <2>1, <3>1
  <2>2. CASE u.utlb[i] # NoEntry
    <3>1. <<i, u.utlb[i]>> \in entries
      BY <2>2
    <3>2. \A x \in entries : x[1] = i => x[2] = u.utlb[i]
      OBVIOUS
    <3> HIDE DEF entries
    <3>3. \E x \in entries : x[1] = i
      BY <3>1
    <3> QED
      BY <3>2, <3>3
  <2> QED
    BY <2>1, <2>2
<1> HIDE DEF of
<1>3. tlb = u.utlb
  BY <1>2
<1> DEFINE v == [regs EXCEPT !.utlb = tlb]
<1> HIDE DEF tlb, none
<1>4. DOMAIN v = DOMAIN u /\ v.last = 0 /\ \A x \in DOMAIN u \ {"last"} : v[x] = u[x]
  BY <1>3
<1> HIDE DEF v
<1> QED
  BY <1>1, <1>4 DEF v, Resaved

\* Where at most one entry matches, the memory of the last hit decides nothing.
LEMMA LastDecidesNothing ==
  ASSUME NEW u, NEW v, {"utlb", "last", "at", "sv", "pteh"} \subseteq DOMAIN u, Resaved(u, v), NEW va, NEW write, NEW md,
         \A i, j \in Hits(u, va, md) : i = j
  PROVE  FaultAt(v, va, write, md) = FaultAt(u, va, write, md)
         /\ (Hits(u, va, md) # {} => PhysicalOf(v, va, md) = PhysicalOf(u, va, md))
<1>1. v.utlb = u.utlb /\ v.sv = u.sv /\ v.pteh = u.pteh
  BY DEF Resaved
<1>2. Hits(v, va, md) = Hits(u, va, md)
  BY <1>1 DEF Hits, Matches
<1>3. CASE Hits(u, va, md) = {}
  BY <1>2, <1>3 DEF FaultAt
<1>4. CASE Hits(u, va, md) # {}
  <2>1. PICK i \in Slots : Hits(u, va, md) = {i}
    BY <1>4 DEF Hits
  <2>2. Min({i}) = i
    BY MmuAssumption DEF Slots, Min
  <2>3. Index(u, va, md) = i /\ Index(v, va, md) = i
    BY <1>2, <2>1, <2>2 DEF Index
  <2> QED
    BY <1>1, <1>2, <2>3 DEF FaultAt, PhysicalOf
<1> QED
  BY <1>3, <1>4

\* What translation decides at an address: the fault, or the physical address.
SameTranslation(m, d, va, write) ==
  /\ FaultOf(d, va, write) = FaultOf(m, va, write)
  /\ FaultOf(m, va, write) = {} => Physical(d, va) = Physical(m, va)

\* A save-state resumed: where at most one entry matches, every address translates, or faults, as before.
ResumeTranslates ==
  [][Resume => \A va, write : (\A i, j \in Hits(c.mmu, va, Priv(c)) : i = j) => SameTranslation(c, c', va, write)]_vars

\* Resuming a save-state loses the memory of the last hit, and that is all: where at most
\* one entry of the UTLB matches, every address translates, or faults, as before
\* (state.go's stateMap and restoreState).
THEOREM ResumedTranslates == ASSUME OsKeeps PROVE Spec => ResumeTranslates
<1>1. ASSUME Rest(c), Resume, NEW va, NEW write, \A i, j \in Hits(c.mmu, va, Priv(c)) : i = j
      PROVE  SameTranslation(c, c', va, write)
  <2> DEFINE u == c.mmu
             v == RestoreState(StateMap(u))
             md == Priv(c)
  <2>1. c' = [c EXCEPT !.mmu = v, !.sleeping = FALSE]
    BY <1>1 DEF Resume, Resumed
  <2>2. {"utlb", "last", "at", "sv", "pteh"} \subseteq DOMAIN u /\ u.utlb = [i \in Slots |-> u.utlb[i]] /\ DOMAIN c = Fields
    BY <1>1 DEF Rest, Between, Shape
  <2>3. Resaved(u, v)
    BY <2>2, SavedMmu
  <2> HIDE DEF v
  <2>4. c'.mmu = v /\ c'.sr = c.sr
    BY <2>1, <2>2 DEF Fields
  <2>5. /\ FaultAt(v, va, write, md) = FaultAt(u, va, write, md)
        /\ (Hits(u, va, md) # {} => PhysicalOf(v, va, md) = PhysicalOf(u, va, md))
    BY <1>1, <2>2, <2>3, LastDecidesNothing
  <2>6. v.at = u.at
    BY <2>2, <2>3 DEF Resaved
  <2>7. Translated(c', va) = Translated(c, va) /\ Priv(c') = md
    BY <2>4, <2>6 DEF Translated, Priv
  <2>8. FaultAt(u, va, write, md) = {} => Hits(u, va, md) # {}
    BY DEF FaultAt
  <2> HIDE DEF u, md
  <2> QED
    BY <2>4, <2>5, <2>7, <2>8 DEF SameTranslation, FaultOf, Physical, u, md
<1>2. Rest(c) /\ [Next]_vars =>
        [Resume => \A va, write : (\A i, j \in Hits(c.mmu, va, Priv(c)) : i = j) => SameTranslation(c, c', va, write)]_vars
  BY <1>1
<1>3. Spec => []Rest(c)
  BY NothingHalfDone
<1> QED
  BY <1>2, <1>3, PTL DEF Spec, ResumeTranslates
=============================================================================
