------------------------- MODULE DebugSessionProofs -------------------------
(***************************************************************************)
(* Proofs about DebugSession: the emulator breaks where the list of the    *)
(* open dump says, and an entry that stays at its target keeps its hits.   *)
(*                                                                         *)
(* The breakpoints of the emulator and the entries of the list go together *)
(* one to one at every step (Matched), halfway through a change of the     *)
(* list too; what the emulator and the stops do leaves that alone (Quiet). *)
(***************************************************************************)
EXTENDS DebugSession, FiniteSetTheorems, WellFoundedInduction, TLAPS

USE SessionAssumption

---------------------------------------------------------------------------
(* The invariant. *)

Places == {"idle", "pause", "look", "note", "read", "running", "continue", "step", "was", "resume"}
Starting == {"unpublish", "prepare", "publish"}

Breakpoint == [addr : Int, on : BOOLEAN, hits : 0..MaxHits]

IsCore(e) ==
  /\ e = [bps |-> e.bps, next |-> e.next, codes |-> e.codes, stop |-> e.stop,
          goal |-> e.goal, clock |-> e.clock]
  /\ e.next \in Nat \ {0}
  /\ DOMAIN e.bps \subseteq 1..(e.next - 1)
  /\ e.bps \in [DOMAIN e.bps -> Breakpoint]

IsSession(d) ==
  /\ d = [hash |-> d.hash, specs |-> d.specs, applied |-> d.applied, hits |-> d.hits,
          seq |-> d.seq, last |-> d.last, seen |-> d.seen]
  /\ d.hash \in Dumps \cup {None}
  /\ IsList(d.specs)
  /\ IsFiniteSet(DOMAIN d.applied) /\ DOMAIN d.applied \subseteq Int
  /\ d.applied \in [DOMAIN d.applied -> [spec : Entry, core : Nat]]
  /\ d.hits \in [DOMAIN d.hits -> 0..MaxHits]

Exec(applied) == {i \in DOMAIN applied : applied[i].spec.kind = "exec"}

Matched(e, applied) ==
  /\ \A i \in Exec(applied) :
       /\ applied[i].core \in DOMAIN e.bps
       /\ e.bps[applied[i].core].addr = applied[i].spec.addr
       /\ e.bps[applied[i].core].on = applied[i].spec.on
  /\ \A i, j \in Exec(applied) : applied[i].core = applied[j].core => i = j
  /\ \A c \in DOMAIN e.bps : \E i \in Exec(applied) : applied[i].core = c
  /\ \A i \in DOMAIN applied \ Exec(applied) : applied[i].core = 0

Sound(x) == IsCore(x.emu) /\ IsSession(x.dbg)
Consistent(x) == Sound(x) /\ Matched(x.emu, x.dbg.applied)

HitsIn(e, d, i) ==
  IF d.applied[i].core \in DOMAIN e.bps THEN e.bps[d.applied[i].core].hits
  ELSE IF i \in DOMAIN d.hits THEN d.hits[i] ELSE 0

---------------------------------------------------------------------------
(* What the parts of a change of the list do. *)

LEMMA DropStep ==
  ASSUME NEW x, Sound(x), NEW specs, IsList(specs), NEW y, y = Drop(x, specs)
  PROVE  /\ Sound(y)
         /\ y.dbg.hash = x.dbg.hash /\ y.dbg.specs = x.dbg.specs /\ y.emu.codes = x.emu.codes
         /\ DOMAIN y.dbg.applied = Kept(x.dbg.applied, specs)
         /\ \A i \in DOMAIN y.dbg.applied :
              /\ y.dbg.applied[i] = x.dbg.applied[i]
              /\ HitsIn(x.emu, y.dbg, i) = HitsIn(x.emu, x.dbg, i)
         /\ Matched(x.emu, x.dbg.applied) =>
              /\ Matched(y.emu, y.dbg.applied)
              /\ \A i \in DOMAIN y.dbg.applied :
                   HitsIn(y.emu, y.dbg, i) = HitsIn(x.emu, x.dbg, i)
<1> DEFINE e == x.emu
           d == x.dbg
           kept == Kept(d.applied, specs)
           gone == {d.applied[i].core : i \in DOMAIN d.applied \ kept}
           bps == [c \in DOMAIN e.bps \ gone |-> e.bps[c]]
           applied == [i \in kept |-> d.applied[i]]
           hits == [i \in kept \cap DOMAIN d.hits |-> d.hits[i]]
<1>1. kept \subseteq DOMAIN d.applied /\ IsFiniteSet(kept)
  <2>1. IsFiniteSet(DOMAIN d.applied)
    BY DEF Sound, IsSession
  <2>2. kept \subseteq DOMAIN d.applied
    BY DEF Kept
  <2> QED BY <2>1, <2>2, FS_Subset
<1>2. /\ y.emu = [e EXCEPT !.bps = bps]
      /\ y.dbg = [d EXCEPT !.applied = applied, !.hits = hits]
  BY DEF Drop, Restrict
<1> HIDE DEF kept
<1>3. IsCore(e) /\ IsSession(d)
  BY DEF Sound
<1> HIDE DEF e, d
<1>4. /\ y.emu = [bps |-> bps, next |-> e.next, codes |-> e.codes, stop |-> e.stop,
                  goal |-> e.goal, clock |-> e.clock]
      /\ y.dbg = [hash |-> d.hash, specs |-> d.specs, applied |-> applied, hits |-> hits,
                  seq |-> d.seq, last |-> d.last, seen |-> d.seen]
  <2> HIDE DEF bps, applied, hits
  <2> QED BY <1>2, <1>3 DEF IsCore, IsSession
<1>5. IsCore(y.emu)
  <2>1. bps \in [DOMAIN bps -> Breakpoint] /\ DOMAIN bps \subseteq DOMAIN e.bps
    BY <1>3 DEF IsCore
  <2> HIDE DEF bps
  <2> QED BY <1>3, <1>4, <2>1 DEF IsCore
<1>6. IsSession(y.dbg)
  <2>1. /\ applied \in [kept -> [spec : Entry, core : Nat]] /\ DOMAIN applied = kept
        /\ hits \in [DOMAIN hits -> 0..MaxHits]
    BY <1>1, <1>3 DEF IsSession
  <2> HIDE DEF applied, hits
  <2> QED BY <1>1, <1>3, <1>4, <2>1 DEF IsSession
<1>7. Exec(applied) = Exec(d.applied) \cap kept
  BY <1>1 DEF Exec
<1>8. y.dbg.applied = applied /\ DOMAIN applied = kept /\ \A i \in kept : applied[i] = d.applied[i]
  BY <1>4
<1>9. ASSUME Matched(e, d.applied)
      PROVE  /\ Matched(y.emu, applied)
             /\ \A i \in kept : HitsIn(y.emu, y.dbg, i) = HitsIn(e, d, i)
  <2>1. \A i \in Exec(applied) : applied[i].core \in DOMAIN bps
    <3> SUFFICES ASSUME NEW i \in Exec(applied) PROVE d.applied[i].core \notin gone
      BY <1>7, <1>9 DEF Matched
    <3> SUFFICES ASSUME NEW j \in DOMAIN d.applied \ kept, d.applied[j].core = d.applied[i].core
                 PROVE  FALSE
      OBVIOUS
    <3>1. d.applied[i].core # 0
      BY <1>3, <1>7, <1>9 DEF Matched, IsCore
    <3> QED BY <1>7, <1>9, <3>1 DEF Matched
  <2>2. \A c \in DOMAIN bps : \E i \in Exec(applied) : applied[i].core = c
    BY <1>7, <1>9 DEF Matched, Exec
  <2>3. \A i, j \in Exec(applied) : applied[i].core = applied[j].core => i = j
    BY <1>7, <1>9 DEF Matched
  <2>4. \A i \in Exec(applied) : /\ bps[applied[i].core].addr = applied[i].spec.addr
                                 /\ bps[applied[i].core].on = applied[i].spec.on
    BY <1>7, <1>9, <2>1 DEF Matched
  <2>5. \A i \in DOMAIN applied \ Exec(applied) : applied[i].core = 0
    BY <1>1, <1>7, <1>9 DEF Matched
  <2>6. y.emu.bps = bps /\ y.dbg.hits = hits
    BY <1>4
  <2>7. Matched(y.emu, applied)
    <3> HIDE DEF bps, applied, hits
    <3> QED BY <2>1, <2>2, <2>3, <2>4, <2>5, <2>6 DEF Matched
  <2>8. ASSUME NEW i \in kept PROVE HitsIn(y.emu, y.dbg, i) = HitsIn(e, d, i)
    <3>1. CASE i \in Exec(d.applied)
      <4>1. d.applied[i].core \in DOMAIN bps
        BY <1>7, <1>8, <2>1, <3>1
      <4>2. bps[d.applied[i].core] = e.bps[d.applied[i].core] /\ d.applied[i].core \in DOMAIN e.bps
        BY <4>1
      <4> HIDE DEF bps, applied, hits
      <4> QED BY <1>8, <2>6, <4>1, <4>2 DEF HitsIn
    <3>2. CASE i \notin Exec(d.applied)
      <4>1. d.applied[i].core = 0
        BY <1>1, <1>9, <3>2 DEF Matched
      <4>2. 0 \notin DOMAIN e.bps /\ 0 \notin DOMAIN bps
        BY <1>3 DEF IsCore
      <4> QED BY <1>8, <2>6, <4>1, <4>2 DEF HitsIn
    <3> QED BY <3>1, <3>2
  <2> QED BY <2>7, <2>8
<1>10. \A i \in kept : HitsIn(e, y.dbg, i) = HitsIn(e, d, i)
  <2>1. y.dbg.hits = hits
    BY <1>4
  <2>2. \A i \in kept : /\ (i \in DOMAIN hits) = (i \in DOMAIN d.hits)
                        /\ i \in DOMAIN hits => hits[i] = d.hits[i]
    OBVIOUS
  <2> HIDE DEF bps, applied, hits
  <2> QED BY <1>8, <2>1, <2>2 DEF HitsIn
<1>11. y.dbg.hash = d.hash /\ y.dbg.specs = d.specs /\ y.emu.codes = e.codes
  BY <1>4
<1>12. Sound(y)
  BY <1>5, <1>6 DEF Sound
<1> QED BY <1>8, <1>9, <1>10, <1>11, <1>12 DEF e, d, kept

\* Ids are given to the new entries in their order.
LEMMA RankBelow ==
  ASSUME NEW N, IsFiniteSet(N), N \subseteq Int
  PROVE  /\ \A i \in N : Cardinality({j \in N : j < i}) \in 0..(Cardinality(N) - 1)
         /\ \A i, k \in N : i < k =>
              Cardinality({j \in N : j < i}) < Cardinality({j \in N : j < k})
<1> DEFINE below(i) == {j \in N : j < i}
<1>1. \A i : below(i) \subseteq N /\ IsFiniteSet(below(i)) /\ Cardinality(below(i)) \in Nat
  <2> TAKE i
  <2>1. below(i) \subseteq N
    OBVIOUS
  <2> HIDE DEF below
  <2>2. IsFiniteSet(below(i))
    BY <2>1, FS_Subset
  <2> QED BY <2>1, <2>2, FS_CardinalityType
<1>2. Cardinality(N) \in Nat
  BY FS_CardinalityType
<1>3. ASSUME NEW i \in N
      PROVE  Cardinality(below(i)) \in 0..(Cardinality(N) - 1)
  <2>1. i \notin below(i)
    OBVIOUS
  <2> HIDE DEF below
  <2>2. below(i) # N
    BY <2>1
  <2>3. /\ Cardinality(below(i)) <= Cardinality(N)
        /\ Cardinality(N) = Cardinality(below(i)) => N = below(i)
    BY <1>1, FS_Subset
  <2> QED BY <1>1, <1>2, <2>2, <2>3
<1>4. ASSUME NEW i \in N, NEW k \in N, i < k
      PROVE  Cardinality(below(i)) < Cardinality(below(k))
  <2>1. i \notin below(i) /\ i \in below(k)
    BY <1>4
  <2>2. below(i) \subseteq below(k)
    <3> SUFFICES ASSUME NEW j \in N, j < i PROVE j < k
      OBVIOUS
    <3>1. i \in Int /\ j \in Int /\ k \in Int
      OBVIOUS
    <3> QED BY <1>4, <3>1
  <2> HIDE DEF below
  <2>3. /\ Cardinality(below(i)) <= Cardinality(below(k))
        /\ Cardinality(below(k)) = Cardinality(below(i)) => below(k) = below(i)
    BY <1>1, <2>2, FS_Subset
  <2> QED BY <1>1, <2>1, <2>3
<1> QED BY <1>3, <1>4

\* The last of some entries is one of them: below no other is there more.
LEMMA MaxAmong ==
  ASSUME NEW N, IsFiniteSet(N), N \subseteq Int, N # {}
  PROVE  Max(N) \in N /\ \A i \in N : Max(N) >= i
<1> DEFINE rank(i) == Cardinality({j \in N : j < i})
           left(i) == Cardinality(N) - rank(i)
           T == {left(i) : i \in N}
<1>1. /\ \A i \in N : rank(i) \in 0..(Cardinality(N) - 1)
      /\ \A i, k \in N : i < k => rank(i) < rank(k)
  BY RankBelow
<1>2. Cardinality(N) \in Nat
  BY FS_CardinalityType
<1> HIDE DEF rank
<1>3. T \subseteq Nat /\ T # {}
  <2>1. \A i \in N : left(i) \in Nat
    BY <1>1, <1>2
  <2> HIDE DEF left
  <2> QED BY <2>1
<1>4. PICK m \in T : \A n \in T : ~(n < m)
  <2>1. \E m \in T : \A n \in T : ~(<<n, m>> \in OpToRel(<, Nat))
    BY <1>3, NatLessThanWellFounded, WFMin
  <2> QED BY <1>3, <2>1 DEF OpToRel
<1>5. PICK i \in N : m = left(i)
  OBVIOUS
<1>6. \A k \in N : ~(left(k) < left(i))
  BY <1>4, <1>5
<1> HIDE DEF T
<1>7. \A k \in N : ~(i < k)
  BY <1>1, <1>2, <1>6
<1>8. \A k \in N : i >= k
  BY <1>7
<1> QED BY <1>8 DEF Max

\* The entries that stay have the targets they had.
Stays(applied, specs) ==
  /\ DOMAIN applied \subseteq DOMAIN specs
  /\ \A i \in DOMAIN applied : sameTarget(specs[i], applied[i].spec)

LEMMA AddStep ==
  ASSUME NEW x, Sound(x), NEW specs, IsList(specs), NEW y, y = Add(x, specs)
  PROVE  /\ Sound(y)
         /\ y.dbg.hash = x.dbg.hash /\ y.dbg.specs = x.dbg.specs /\ y.emu.codes = x.emu.codes
         /\ DOMAIN y.dbg.applied = DOMAIN specs
         /\ \A i \in DOMAIN specs : y.dbg.applied[i].spec = specs[i]
         /\ Matched(x.emu, x.dbg.applied) /\ Stays(x.dbg.applied, specs) =>
              /\ Matched(y.emu, y.dbg.applied)
              /\ \A i \in DOMAIN x.dbg.applied :
                   HitsIn(y.emu, y.dbg, i) = HitsIn(x.emu, x.dbg, i)
<1> DEFINE e == x.emu
           d == x.dbg
           new == {i \in DOMAIN specs \ DOMAIN d.applied : specs[i].kind = "exec"}
           id(i) == e.next + Cardinality({j \in new : j < i})
           cr(i) == IF i \in new THEN id(i)
                    ELSE IF i \in DOMAIN d.applied THEN d.applied[i].core ELSE 0
           applied == [i \in DOMAIN specs |-> [spec |-> specs[i], core |-> cr(i)]]
           owners(c) == {i \in DOMAIN applied : applied[i].core = c}
           fresh == {id(i) : i \in new}
           entry(c) == CHOOSE i \in new : id(i) = c
           addr(c) == IF c \in fresh THEN specs[entry(c)].addr ELSE e.bps[c].addr
           on(c) == IF owners(c) = {} THEN e.bps[c].on ELSE specs[Max(owners(c))].on
           hits(c) == IF c \in fresh THEN 0 ELSE e.bps[c].hits
           bps == [c \in DOMAIN e.bps \cup fresh |->
                    [addr |-> addr(c), on |-> on(c), hits |-> hits(c)]]
           next == e.next + Cardinality(new)
<1>1. /\ y.emu = [e EXCEPT !.next = next, !.bps = bps]
      /\ y.dbg = [d EXCEPT !.applied = applied]
  BY DEF Add
<1>2. new \subseteq DOMAIN specs /\ new \cap DOMAIN d.applied = {}
      /\ \A i \in new : specs[i].kind = "exec"
  OBVIOUS
<1>3. \A i \in DOMAIN specs \ new : specs[i].kind = "exec" => i \in DOMAIN d.applied
  OBVIOUS
<1> HIDE DEF new
<1>4. IsFiniteSet(new) /\ new \subseteq Int
  <2>1. IsFiniteSet(DOMAIN specs) /\ DOMAIN specs \subseteq Int
    BY DEF IsList
  <2> QED BY <1>2, <2>1, FS_Subset
<1>5. IsCore(e) /\ IsSession(d)
  BY DEF Sound
<1> HIDE DEF e, d
<1>6. Cardinality(new) \in Nat /\ e.next \in Nat \ {0} /\ next \in Nat \ {0}
  BY <1>4, <1>5, FS_CardinalityType DEF IsCore
<1>7. \A i \in new : id(i) \in e.next..(next - 1)
  <2> DEFINE rank(i) == Cardinality({j \in new : j < i})
  <2>1. \A i \in new : rank(i) \in 0..(Cardinality(new) - 1)
    BY <1>4, RankBelow
  <2> HIDE DEF rank
  <2>2. \A i \in new : e.next + rank(i) \in e.next..(next - 1)
    BY <1>6, <2>1
  <2> QED BY <2>2 DEF rank
<1>8. \A i, j \in new : id(i) = id(j) => i = j
  <2> DEFINE rank(i) == Cardinality({j \in new : j < i})
  <2>1. \A i \in new : rank(i) \in 0..(Cardinality(new) - 1)
    BY <1>4, RankBelow
  <2>2. \A i, k \in new : i < k => rank(i) < rank(k)
    BY <1>4, RankBelow
  <2> HIDE DEF rank
  <2>3. \A i, j \in new : e.next + rank(i) = e.next + rank(j) => i = j
    BY <1>4, <1>6, <2>1, <2>2
  <2> QED BY <2>3 DEF rank
<1> HIDE DEF next, id
<1>9. \A i \in new : id(i) \in Nat \ {0} /\ id(i) >= e.next
  BY <1>6, <1>7
<1>10. fresh \cap DOMAIN e.bps = {}
  <2>1. \A c \in DOMAIN e.bps : c \in Nat /\ c < e.next
    BY <1>5 DEF IsCore
  <2> QED BY <1>6, <1>9, <2>1
<1>11. \A i \in new : cr(i) = id(i) /\ cr(i) \in fresh
  OBVIOUS
<1>12. /\ DOMAIN applied = DOMAIN specs
       /\ \A i \in DOMAIN specs : applied[i].spec = specs[i] /\ applied[i].core = cr(i)
  OBVIOUS
<1>13. \A i \in DOMAIN specs : cr(i) \in Nat
  <2>1. \A i \in DOMAIN d.applied : d.applied[i].core \in Nat
    BY <1>5 DEF IsSession
  <2> QED BY <1>9, <2>1
<1>14. applied \in [DOMAIN specs -> [spec : Entry, core : Nat]]
  <2>1. \A i \in DOMAIN specs : specs[i] \in Entry
    BY DEF IsList
  <2> HIDE DEF cr
  <2> QED BY <1>13, <2>1
<1>15. \A c \in fresh : /\ entry(c) \in new /\ id(entry(c)) = c
                        /\ entry(c) \in owners(c)
  <2> SUFFICES ASSUME NEW c \in fresh
               PROVE  entry(c) \in new /\ id(entry(c)) = c /\ entry(c) \in owners(c)
    OBVIOUS
  <2>1. entry(c) \in new /\ id(entry(c)) = c
    OBVIOUS
  <2> HIDE DEF entry, applied
  <2> QED BY <1>2, <1>11, <1>12, <2>1
<1>16. \A i \in new : entry(id(i)) = i
  BY <1>8
<1>17. \A c : owners(c) # {} => Max(owners(c)) \in owners(c)
  <2> SUFFICES ASSUME NEW c, owners(c) # {} PROVE Max(owners(c)) \in owners(c)
    OBVIOUS
  <2>1. owners(c) \subseteq DOMAIN specs
    BY <1>12
  <2>2. IsFiniteSet(DOMAIN specs) /\ DOMAIN specs \subseteq Int
    BY DEF IsList
  <2> HIDE DEF owners
  <2>3. IsFiniteSet(owners(c)) /\ owners(c) \subseteq Int
    BY <2>1, <2>2, FS_Subset
  <2> QED BY <2>3, MaxAmong
<1> HIDE DEF entry, addr, on, hits
<1>18. /\ DOMAIN bps = DOMAIN e.bps \cup fresh
       /\ \A c \in DOMAIN e.bps \cup fresh :
            bps[c].addr = addr(c) /\ bps[c].on = on(c) /\ bps[c].hits = hits(c)
  OBVIOUS
<1>19. /\ y.emu = [bps |-> bps, next |-> next, codes |-> e.codes, stop |-> e.stop,
                   goal |-> e.goal, clock |-> e.clock]
       /\ y.dbg = [hash |-> d.hash, specs |-> d.specs, applied |-> applied, hits |-> d.hits,
                   seq |-> d.seq, last |-> d.last, seen |-> d.seen]
  <2> HIDE DEF bps, applied
  <2> QED BY <1>1, <1>5 DEF IsCore, IsSession
<1> HIDE DEF applied, cr
<1>20. IsCore(y.emu)
  <2>1. \A c \in DOMAIN e.bps \cup fresh : bps[c] \in Breakpoint
    <3> SUFFICES ASSUME NEW c \in DOMAIN e.bps \cup fresh PROVE bps[c] \in Breakpoint
      OBVIOUS
    <3>1. \A i \in DOMAIN specs : specs[i].addr \in Int /\ specs[i].on \in BOOLEAN
      BY DEF IsList, Entry
    <3>2. c \notin fresh => /\ e.bps[c].addr \in Int /\ e.bps[c].on \in BOOLEAN
                           /\ e.bps[c].hits \in 0..MaxHits
      BY <1>5 DEF IsCore, Breakpoint
    <3>3. addr(c) \in Int
      BY <1>2, <1>15, <3>1, <3>2 DEF addr
    <3>4. on(c) \in BOOLEAN
      <4>1. CASE owners(c) = {}
        <5>1. c \notin fresh
          BY <1>15, <4>1
        <5> HIDE DEF owners
        <5> QED BY <3>2, <4>1, <5>1 DEF on
      <4>2. CASE owners(c) # {}
        <5>1. Max(owners(c)) \in DOMAIN specs
          BY <1>12, <1>17, <4>2
        <5> HIDE DEF owners
        <5> QED BY <3>1, <4>2, <5>1 DEF on
      <4> QED BY <4>1, <4>2
    <3>5. hits(c) \in 0..MaxHits
      BY <3>2 DEF hits
    <3>6. bps[c] = [addr |-> addr(c), on |-> on(c), hits |-> hits(c)]
      OBVIOUS
    <3> HIDE DEF bps
    <3> QED BY <3>3, <3>4, <3>5, <3>6 DEF Breakpoint
  <2>2. bps \in [DOMAIN bps -> Breakpoint]
    BY <1>18, <2>1
  <2>3. DOMAIN bps \subseteq 1..(next - 1)
    <3>1. DOMAIN e.bps \subseteq 1..(next - 1)
      BY <1>5, <1>6 DEF IsCore, next
    <3>2. fresh \subseteq 1..(next - 1)
      BY <1>6, <1>7
    <3> QED BY <1>18, <3>1, <3>2
  <2> HIDE DEF bps
  <2> QED BY <1>6, <1>19, <2>2, <2>3 DEF IsCore
<1>21. IsSession(y.dbg)
  BY <1>5, <1>12, <1>14, <1>19 DEF IsSession, IsList
<1>22. ASSUME Matched(e, d.applied), Stays(d.applied, specs)
       PROVE  /\ Matched(y.emu, applied)
              /\ \A i \in DOMAIN d.applied : HitsIn(y.emu, y.dbg, i) = HitsIn(e, d, i)
  <2> DEFINE exec == {i \in DOMAIN specs : specs[i].kind = "exec"}
  <2>1. /\ exec \ new = Exec(d.applied)
        /\ \A i \in DOMAIN d.applied : i \in DOMAIN specs /\ specs[i].kind = d.applied[i].spec.kind
    <3>1. \A i \in DOMAIN d.applied : i \in DOMAIN specs /\ specs[i].kind = d.applied[i].spec.kind
      BY <1>22 DEF Stays, sameTarget
    <3> QED BY <1>2, <1>3, <3>1 DEF Exec
  <2>2. \A i \in exec \ new : cr(i) = d.applied[i].core /\ cr(i) \in DOMAIN e.bps
    BY <1>22, <2>1 DEF Matched, Exec, cr
  <2>3. \A i \in exec \ new : e.bps[cr(i)].addr = specs[i].addr
    <3>1. \A i \in Exec(d.applied) : specs[i].addr = d.applied[i].spec.addr
      BY <1>22 DEF Stays, sameTarget, Exec
    <3> HIDE DEF exec
    <3> QED BY <1>22, <2>1, <2>2, <3>1 DEF Matched
  <2>4. \A i, j \in exec : cr(i) = cr(j) => i = j
    <3> SUFFICES ASSUME NEW i \in exec, NEW j \in exec, cr(i) = cr(j) PROVE i = j
      OBVIOUS
    <3>1. CASE i \in new /\ j \in new
      BY <1>8, <1>11, <3>1
    <3>2. CASE i \notin new /\ j \notin new
      <4> HIDE DEF exec
      <4> QED BY <1>22, <2>1, <2>2, <3>2 DEF Matched
    <3>3. CASE (i \in new) # (j \in new)
      <4> HIDE DEF exec, fresh
      <4> QED BY <1>10, <1>11, <2>2, <3>3
    <3> QED BY <3>1, <3>2, <3>3
  <2>5. \A i \in DOMAIN specs \ exec : cr(i) = 0
    BY <1>2, <1>22, <2>1 DEF Matched, Exec, cr
  <2>6. \A c \in DOMAIN e.bps \cup fresh : \E i \in exec : cr(i) = c
    <3>1. ASSUME NEW c \in DOMAIN e.bps PROVE \E i \in exec : cr(i) = c
      <4>1. PICK i \in Exec(d.applied) : d.applied[i].core = c
        BY <1>22 DEF Matched
      <4>2. i \in exec \ new
        BY <2>1, <4>1
      <4> HIDE DEF exec
      <4> QED BY <2>2, <4>1, <4>2
    <3>2. ASSUME NEW c \in fresh PROVE \E i \in exec : cr(i) = c
      BY <1>2, <1>11
    <3> QED BY <3>1, <3>2
  <2>7. \A c \in DOMAIN e.bps \cup fresh : c # 0
    <3>1. \A c \in DOMAIN e.bps : c # 0
      BY <1>5 DEF IsCore
    <3> QED BY <1>9, <3>1
  <2>8. \A i \in exec : cr(i) \in DOMAIN e.bps \cup fresh
    BY <1>11, <2>2
  <2>9. exec \subseteq DOMAIN specs /\ Exec(applied) = exec
    BY <1>12 DEF Exec
  <2> HIDE DEF exec
  <2>10. \A i \in exec : owners(cr(i)) = {i}
    <3> SUFFICES ASSUME NEW i \in exec, NEW k \in DOMAIN applied, applied[k].core = cr(i)
                 PROVE  k = i
      BY <1>12, <2>9
    <3>1. cr(k) = cr(i) /\ k \in DOMAIN specs
      BY <1>12
    <3>2. k \in exec
      BY <2>5, <2>7, <2>8, <3>1
    <3> QED BY <2>4, <3>1, <3>2
  <2>11. \A i \in exec : on(cr(i)) = specs[i].on
    <3> SUFFICES ASSUME NEW i \in exec PROVE on(cr(i)) = specs[i].on
      OBVIOUS
    <3>1. owners(cr(i)) = {i}
      BY <2>10
    <3> HIDE DEF owners
    <3>2. Max(owners(cr(i))) \in owners(cr(i))
      BY <1>17, <3>1
    <3> QED BY <3>1, <3>2 DEF on
  <2>12. \A i \in exec : addr(cr(i)) = specs[i].addr
    <3> SUFFICES ASSUME NEW i \in exec PROVE addr(cr(i)) = specs[i].addr
      OBVIOUS
    <3>1. CASE i \in new
      BY <1>11, <1>16, <3>1 DEF addr
    <3>2. CASE i \notin new
      <4>1. cr(i) \notin fresh
        BY <1>10, <2>2, <3>2
      <4> QED BY <2>3, <3>2, <4>1 DEF addr
    <3> QED BY <3>1, <3>2
  <2> HIDE DEF bps, owners
  <2>13. Matched(y.emu, applied)
    <3> HIDE DEF fresh
    <3>1. y.emu.bps = bps
      BY <1>19
    <3>2. \A i \in exec : /\ applied[i].core \in DOMAIN bps
                          /\ bps[applied[i].core].addr = applied[i].spec.addr
                          /\ bps[applied[i].core].on = applied[i].spec.on
      BY <1>12, <1>18, <2>8, <2>9, <2>11, <2>12
    <3>3. \A i, j \in exec : applied[i].core = applied[j].core => i = j
      BY <1>12, <2>4, <2>9
    <3>4. \A c \in DOMAIN bps : \E i \in exec : applied[i].core = c
      BY <1>12, <1>18, <2>6, <2>9
    <3>5. \A i \in DOMAIN applied \ exec : applied[i].core = 0
      BY <1>12, <2>5
    <3> QED BY <2>9, <3>1, <3>2, <3>3, <3>4, <3>5 DEF Matched
  <2>14. ASSUME NEW i \in DOMAIN d.applied
         PROVE  HitsIn(y.emu, y.dbg, i) = HitsIn(e, d, i)
    <3>1. y.emu.bps = bps /\ y.dbg.applied = applied /\ y.dbg.hits = d.hits
      BY <1>19
    <3>2. i \in DOMAIN specs /\ i \notin new
      BY <1>2, <2>1
    <3>3. applied[i].core = d.applied[i].core
      BY <1>12, <3>2 DEF cr
    <3>4. CASE i \in exec
      <4>1. d.applied[i].core \in DOMAIN e.bps
        BY <2>2, <3>2, <3>4
      <4>2. /\ d.applied[i].core \in DOMAIN bps
            /\ bps[d.applied[i].core].hits = e.bps[d.applied[i].core].hits
        BY <1>10, <1>18, <4>1 DEF hits
      <4> QED BY <3>1, <3>3, <4>1, <4>2 DEF HitsIn
    <3>5. CASE i \notin exec
      <4>1. applied[i].core = 0
        BY <1>12, <2>5, <3>2, <3>5
      <4>2. 0 \notin DOMAIN e.bps /\ 0 \notin DOMAIN bps
        BY <1>18, <2>7
      <4> QED BY <3>1, <3>3, <4>1, <4>2 DEF HitsIn
    <3> QED BY <3>4, <3>5
  <2> QED BY <2>13, <2>14
<1>23. y.dbg.hash = d.hash /\ y.dbg.specs = d.specs /\ y.emu.codes = e.codes
       /\ y.dbg.applied = applied
  BY <1>19
<1>24. Sound(y)
  BY <1>20, <1>21 DEF Sound
<1> QED BY <1>12, <1>22, <1>23, <1>24 DEF e, d

---------------------------------------------------------------------------
(* What the emulator and a stop do. *)

\* The breakpoints are as they were, and no hit is lost.
Grown(e, f) ==
  /\ IsCore(f)
  /\ f.next = e.next /\ f.codes = e.codes /\ DOMAIN f.bps = DOMAIN e.bps
  /\ \A c \in DOMAIN e.bps :
       /\ f.bps[c].addr = e.bps[c].addr /\ f.bps[c].on = e.bps[c].on
       /\ f.bps[c].hits >= e.bps[c].hits

LEMMA CappedType ==
  ASSUME NEW n \in 0..MaxHits
  PROVE  Capped(n + 1) \in 0..MaxHits /\ Capped(n + 1) >= n
<1> DEFINE S == {n + 1, MaxHits}
<1>1. \E x \in S : \A y \in S : x <= y
  OBVIOUS
<1>2. Min(S) \in S /\ \A y \in S : Min(S) <= y
  <2> HIDE DEF S
  <2> QED BY <1>1 DEF Min
<1> QED BY <1>2 DEF Capped

LEMMA GrownSame == ASSUME NEW e, IsCore(e) PROVE Grown(e, e)
<1>1. \A c \in DOMAIN e.bps : e.bps[c].hits \in 0..MaxHits
  BY DEF IsCore, Breakpoint
<1> QED BY <1>1 DEF Grown

\* A stop, a goal or a clock that changes leaves the breakpoints.
LEMMA GrownAside ==
  ASSUME NEW e, IsCore(e), NEW stop, NEW goal, NEW clock, NEW f,
         f = [e EXCEPT !.stop = stop, !.goal = goal, !.clock = clock]
  PROVE  Grown(e, f)
<1>1. f = [bps |-> e.bps, next |-> e.next, codes |-> e.codes, stop |-> stop,
          goal |-> goal, clock |-> clock]
  BY DEF IsCore
<1>2. IsCore(f)
  BY <1>1 DEF IsCore
<1>3. \A c \in DOMAIN e.bps : e.bps[c].hits \in 0..MaxHits
  BY DEF IsCore, Breakpoint
<1> QED BY <1>1, <1>2, <1>3 DEF Grown

LEMMA GrownHit ==
  ASSUME NEW e, IsCore(e), NEW c \in DOMAIN e.bps, NEW f,
         f = [e EXCEPT !.bps[c].hits = Capped(@ + 1)]
  PROVE  Grown(e, f)
<1> DEFINE bps == [e.bps EXCEPT ![c].hits = Capped(@ + 1)]
<1>1. f = [bps |-> bps, next |-> e.next, codes |-> e.codes, stop |-> e.stop,
          goal |-> e.goal, clock |-> e.clock]
  BY DEF IsCore
<1>2. e.bps[c] \in Breakpoint
  BY DEF IsCore
<1>3. /\ Capped(e.bps[c].hits + 1) \in 0..MaxHits
      /\ Capped(e.bps[c].hits + 1) >= e.bps[c].hits
  BY <1>2, CappedType DEF Breakpoint
<1>4. /\ DOMAIN bps = DOMAIN e.bps
      /\ \A i \in DOMAIN e.bps : i # c => bps[i] = e.bps[i]
      /\ bps[c] = [e.bps[c] EXCEPT !.hits = Capped(@ + 1)]
  BY DEF IsCore
<1>5. bps[c] = [addr |-> e.bps[c].addr, on |-> e.bps[c].on, hits |-> Capped(e.bps[c].hits + 1)]
  BY <1>2, <1>4 DEF Breakpoint
<1>6. bps \in [DOMAIN bps -> Breakpoint]
  <2>1. bps[c] \in Breakpoint
    BY <1>2, <1>3, <1>5 DEF Breakpoint
  <2>2. \A i \in DOMAIN e.bps : bps[i] \in Breakpoint
    BY <1>4, <2>1 DEF IsCore
  <2> QED BY <1>4, <2>2
<1> HIDE DEF bps
<1>7. IsCore(f)
  BY <1>1, <1>4, <1>6 DEF IsCore
<1>8. \A i \in DOMAIN e.bps : e.bps[i].hits \in 0..MaxHits
  BY DEF IsCore, Breakpoint
<1>9. \A i \in DOMAIN e.bps : /\ bps[i].addr = e.bps[i].addr /\ bps[i].on = e.bps[i].on
                            /\ bps[i].hits >= e.bps[i].hits
  BY <1>3, <1>4, <1>5, <1>8
<1>10. f.bps = bps /\ f.next = e.next /\ f.codes = e.codes
  BY <1>1
<1> QED BY <1>4, <1>7, <1>9, <1>10 DEF Grown

LEMMA GrownTwice ==
  ASSUME NEW e, NEW f, NEW g, IsCore(e), Grown(e, f), Grown(f, g)
  PROVE  Grown(e, g)
<1>1. \A c \in DOMAIN e.bps : /\ e.bps[c].hits \in Int /\ f.bps[c].hits \in Int
                            /\ g.bps[c].hits \in Int
  <2>1. \A c \in DOMAIN e.bps :
          e.bps[c] \in Breakpoint /\ f.bps[c] \in Breakpoint /\ g.bps[c] \in Breakpoint
    BY DEF Grown, IsCore
  <2> QED BY <2>1 DEF Breakpoint
<1> QED BY <1>1 DEF Grown

LEMMA GrownHalted ==
  ASSUME NEW e, IsCore(e), NEW s
  PROVE  Grown(e, Halted(e, s))
BY GrownAside DEF Halted

LEMMA GrownTurns ==
  ASSUME NEW e, IsCore(e), NEW f \in Turns(e)
  PROVE  Grown(e, f)
<1> DEFINE at(why, id) == Stop(why, id, e.clock + 1)
           hit(i) == [e EXCEPT !.bps[i].hits = Capped(@ + 1)]
           on == {i \in DOMAIN e.bps : e.bps[i].on}
           ends == {"fault"} \cup IF e.goal THEN {"step"} ELSE {}
<1>1. \/ f = e
      \/ \E i \in on : f = Halted(hit(i), at("breakpoint", i))
      \/ \E c \in e.codes : f = Halted(e, at("code", c))
      \/ \E why \in ends : f = Halted(e, at(why, 0))
  BY DEF Turns
<1>2. ASSUME NEW i \in on, f = Halted(hit(i), at("breakpoint", i)) PROVE Grown(e, f)
  <2> DEFINE g == hit(i)
             s == at("breakpoint", i)
  <2>1. i \in DOMAIN e.bps
    OBVIOUS
  <2>2. Grown(e, g)
    BY <2>1, GrownHit
  <2>3. f = Halted(g, s)
    BY <1>2
  <2> HIDE DEF g, s
  <2>4. IsCore(g)
    BY <2>2 DEF Grown
  <2>5. Grown(g, Halted(g, s))
    BY <2>4, GrownHalted
  <2> QED BY <2>2, <2>3, <2>5, GrownTwice
<1>3. ASSUME NEW s, f = Halted(e, s) PROVE Grown(e, f)
  BY <1>3, GrownHalted
<1> HIDE DEF at, hit, on, ends
<1> QED BY <1>1, <1>2, <1>3, GrownSame

LEMMA GrownResumed ==
  ASSUME NEW e, IsCore(e), NEW goal
  PROVE  Grown(e, Resumed(e, goal))
<1>1. CASE e.stop.why = "fault"
  BY <1>1, GrownSame DEF Resumed
<1>2. CASE e.stop.why # "fault"
  <2> DEFINE f == [e EXCEPT !.stop = NoStop, !.goal = goal]
             clock == e.clock
             stop == NoStop
  <2>1. f = [e EXCEPT !.stop = stop, !.goal = goal, !.clock = clock]
    BY DEF IsCore
  <2>2. Resumed(e, goal) = f
    BY <1>2 DEF Resumed
  <2> HIDE DEF f, clock, stop
  <2>3. Grown(e, f)
    BY <2>1, GrownAside
  <2> QED BY <2>2, <2>3
<1> QED BY <1>1, <1>2

LEMMA GrownPaused == ASSUME NEW e, IsCore(e) PROVE Grown(e, Paused(e))
BY GrownSame, GrownHalted DEF Paused

\* Entries and their breakpoints go together through all this, and their hits do not get fewer.
LEMMA GrownMatched ==
  ASSUME NEW e, NEW f, NEW a, Matched(e, a), Grown(e, f)
  PROVE  Matched(f, a)
<1>1. \A i \in Exec(a) : a[i].core \in DOMAIN e.bps
  BY DEF Matched
<1> QED BY <1>1 DEF Matched, Grown

---------------------------------------------------------------------------
\* A stop that is noted leaves the list and what is applied, and no hit is lost.
Noting(d, b) ==
  /\ IsSession(b)
  /\ b.hash = d.hash /\ b.specs = d.specs /\ b.applied = d.applied
  /\ DOMAIN d.hits \subseteq DOMAIN b.hits
  /\ \A i \in DOMAIN d.hits : b.hits[i] >= d.hits[i]

LEMMA NotingSame == ASSUME NEW d, IsSession(d) PROVE Noting(d, d)
<1>1. \A i \in DOMAIN d.hits : d.hits[i] \in 0..MaxHits
  BY DEF IsSession
<1> QED BY <1>1 DEF Noting

LEMMA NotingStop ==
  ASSUME IsSession(dbg), NEW s, noteStop(s)
  PROVE  Noting(dbg, dbg')
<1>1. CASE Noted(s)
  <2>1. dbg' = dbg
    BY <1>1 DEF noteStop
  <2> QED BY <2>1, NotingSame
<1>2. CASE ~Noted(s)
  <2> DEFINE hit == IF s.why = "code" THEN findSpec(s.id) ELSE {}
             old(i) == IF i \in DOMAIN dbg.hits THEN dbg.hits[i] ELSE 0
             hits == [i \in DOMAIN dbg.hits \cup hit |->
                       IF i \in hit THEN Capped(old(i) + 1) ELSE dbg.hits[i]]
             last == [seq |-> dbg.seq + 1, stop |-> s]
  <2>1. dbg' = [dbg EXCEPT !.seq = @ + 1, !.seen = s, !.hits = hits, !.last = last]
    BY <1>2 DEF noteStop, CountHit
  <2>2. \A i \in DOMAIN dbg.hits : dbg.hits[i] \in 0..MaxHits
    BY DEF IsSession
  <2>3. \A i \in DOMAIN hits : old(i) \in 0..MaxHits
    BY <2>2
  <2> HIDE DEF hit
  <2>4. \A i \in DOMAIN hits : hits[i] \in 0..MaxHits /\ hits[i] >= old(i)
    <3> TAKE i \in DOMAIN hits
    <3> DEFINE n == old(i)
    <3>1. n \in 0..MaxHits
      BY <2>3
    <3>2. CASE i \in hit
      <4>1. hits[i] = Capped(n + 1)
        BY <3>2
      <4> HIDE DEF n, hits
      <4> QED BY <3>1, <4>1, CappedType DEF n
    <3>3. CASE i \notin hit
      BY <2>2, <3>3
    <3> QED BY <3>2, <3>3
  <2>5. /\ DOMAIN dbg.hits \subseteq DOMAIN hits
        /\ \A i \in DOMAIN dbg.hits : hits[i] >= dbg.hits[i]
    BY <2>4
  <2>6. hits \in [DOMAIN hits -> 0..MaxHits]
    BY <2>4
  <2> HIDE DEF hits, last
  <2>7. dbg' = [hash |-> dbg.hash, specs |-> dbg.specs, applied |-> dbg.applied, hits |-> hits,
               seq |-> dbg.seq + 1, last |-> last, seen |-> s]
    BY <2>1 DEF IsSession
  <2>8. IsSession(dbg')
    BY <2>6, <2>7 DEF IsSession
  <2> QED BY <2>5, <2>7, <2>8 DEF Noting
<1> QED BY <1>1, <1>2

LEMMA NotingRuns ==
  ASSUME IsSession(dbg), running
  PROVE  Noting(dbg, dbg')
<1>1. dbg' = [hash |-> dbg.hash, specs |-> dbg.specs, applied |-> dbg.applied, hits |-> dbg.hits,
             seq |-> dbg.seq, last |-> NoInfo, seen |-> dbg.seen]
  BY DEF running, IsSession
<1>2. IsSession(dbg')
  BY <1>1 DEF IsSession
<1>3. \A i \in DOMAIN dbg.hits : dbg.hits[i] \in 0..MaxHits
  BY DEF IsSession
<1> QED BY <1>1, <1>2, <1>3 DEF Noting

\* What an entry counts does not fall when the emulator runs or a stop is noted.
LEMMA HitsGrow ==
  ASSUME NEW e, NEW f, NEW d, NEW b, NEW i \in DOMAIN d.applied,
         IsCore(e), IsSession(d), Grown(e, f), Noting(d, b)
  PROVE  HitsIn(f, b, i) >= HitsIn(e, d, i)
<1>1. CASE d.applied[i].core \in DOMAIN e.bps
  BY <1>1 DEF HitsIn, Grown, Noting
<1>2. CASE d.applied[i].core \notin DOMAIN e.bps
  <2>1. /\ \A j \in DOMAIN d.hits : d.hits[j] \in 0..MaxHits
        /\ \A j \in DOMAIN b.hits : b.hits[j] \in 0..MaxHits
    BY DEF IsSession, Noting
  <2>2. d.applied[i].core \notin DOMAIN f.bps /\ b.applied = d.applied
    BY <1>2 DEF Grown, Noting
  <2>3. /\ HitsIn(e, d, i) = IF i \in DOMAIN d.hits THEN d.hits[i] ELSE 0
        /\ HitsIn(f, b, i) = IF i \in DOMAIN b.hits THEN b.hits[i] ELSE 0
    BY <1>2, <2>2 DEF HitsIn
  <2>4. i \in DOMAIN d.hits => i \in DOMAIN b.hits /\ b.hits[i] >= d.hits[i]
    BY DEF Noting
  <2> QED BY <2>1, <2>3, <2>4
<1> QED BY <1>1, <1>2

---------------------------------------------------------------------------
(* The invariant of the session. *)

Shows(applied, specs) ==
  /\ DOMAIN applied = DOMAIN specs
  /\ \A i \in DOMAIN specs : applied[i].spec = specs[i]

CallOK ==
  /\ call = [op |-> call.op, at |-> call.at, stop |-> call.stop, was |-> call.was,
             dump |-> call.dump]
  /\ call.op \in {None, "pause", "continue", "step", "slot", "start"}
  /\ call.at \in Places \cup Starting
  /\ call.op = None => call.at = "idle"
  /\ Opening <=> call.at \in Starting
  /\ Opening => call.dump \in Dumps

\* A change that has the lock finds its machine still open, or what it leaves is noted.
ListOK ==
  /\ list = [at |-> list.at, specs |-> list.specs, dump |-> list.dump, gone |-> list.gone]
  /\ list.at \in {"idle", "keep", "drop", "add", "break"}
  /\ list.at # "idle" => IsList(list.specs)
  /\ \A e \in list.gone : IsCore(e)
  /\ list.at \in {"drop", "add", "break"} =>
       list.dump \in Dumps /\ (list.gone = {} => dbg.hash = list.dump)
  /\ list.at \in {"add", "break"} /\ list.gone # {} => "core" \in astray /\ "list" \in astray

SavedOK ==
  /\ DOMAIN saved = Dumps
  /\ \A d \in Dumps : IsList(saved[d])

\* A machine that is open is the debugger's.
Owned ==
  /\ open \in Dumps \cup {None}
  /\ open # None => dbg.hash = open
  /\ call.at \in {"prepare", "publish"} => open = None
  /\ call.at = "publish" => dbg.hash = call.dump

\* The list, the one on disk and its codes change together.
Settled ==
  dbg.hash # None =>
    /\ "list" \notin astray => saved[dbg.hash] = dbg.specs
    /\ "list" \notin astray /\ "core" \notin astray => core.codes = Broken(dbg.specs)

\* How far a change of the list has come.
Phase ==
  /\ Unlocked /\ "list" \notin astray /\ dbg.hash # None => Shows(dbg.applied, dbg.specs)
  /\ list.at = "add" => Stays(dbg.applied, list.specs)
  /\ list.at = "break" => Shows(dbg.applied, list.specs)

SessionInv ==
  /\ IsCore(core) /\ IsSession(dbg)
  /\ "core" \notin astray => Matched(core, dbg.applied)
  /\ CallOK /\ ListOK /\ SavedOK /\ Owned /\ Settled /\ Phase

---------------------------------------------------------------------------
(* Steps that leave the list and the machine alone. *)

\* A control call that is no start goes on, or another one begins.
Going == call' = call \/ (CallOK' /\ ~Opening /\ ~Opening')

Quiet ==
  /\ Grown(core, core') /\ Noting(dbg, dbg') /\ Going
  /\ UNCHANGED <<open, saved, list, astray>>

LEMMA QuietKeeps ==
  ASSUME SessionInv, Quiet
  PROVE  SessionInv'
<1>1. /\ open' = open /\ saved' = saved /\ list' = list /\ astray' = astray
      /\ dbg'.hash = dbg.hash /\ dbg'.specs = dbg.specs /\ dbg'.applied = dbg.applied
      /\ core'.codes = core.codes
      /\ IsCore(core') /\ IsSession(dbg')
  BY DEF Quiet, Noting, Grown
<1>2. "core" \notin astray' => Matched(core', dbg'.applied)
  BY <1>1, GrownMatched DEF SessionInv, Quiet
<1>3. CallOK' /\ Opening' = Opening
  <2>1. CASE call' = call
    BY <2>1 DEF SessionInv, CallOK, Opening
  <2>2. CASE CallOK' /\ ~Opening /\ ~Opening'
    BY <2>2 DEF Opening
  <2> QED BY <2>1, <2>2 DEF Quiet, Going
<1>4. ListOK'
  BY <1>1 DEF SessionInv, ListOK
<1>5. SavedOK' /\ Settled'
  BY <1>1 DEF SessionInv, SavedOK, Settled
<1>6. Owned'
  <2>1. call' = call \/ call'.at \notin Starting
    BY DEF Quiet, Going, CallOK
  <2> QED BY <1>1, <1>3, <2>1 DEF SessionInv, Owned, Starting
<1>7. Phase'
  BY <1>1 DEF SessionInv, Phase, Unlocked
<1> QED BY <1>1, <1>2, <1>3, <1>4, <1>5, <1>6, <1>7 DEF SessionInv

\* What the entries have counted stays with them.
Survives ==
  \A i \in DOMAIN dbg.applied :
    i \in DOMAIN dbg'.applied /\ HitsIn(core', dbg', i) >= HitsIn(core, dbg, i)

LEMMA QuietSurvives ==
  ASSUME SessionInv, Quiet
  PROVE  Survives
<1> SUFFICES ASSUME NEW i \in DOMAIN dbg.applied
             PROVE  i \in DOMAIN dbg'.applied /\ HitsIn(core', dbg', i) >= HitsIn(core, dbg, i)
  BY DEF Survives
<1>1. i \in DOMAIN dbg'.applied
  BY DEF Quiet, Noting
<1>2. HitsIn(core', dbg', i) >= HitsIn(core, dbg, i)
  BY HitsGrow DEF SessionInv, Quiet
<1> QED BY <1>1, <1>2

\* A call moves on to another place of its own.
LEMMA CallMoves ==
  ASSUME CallOK, ~Opening, call.at # "idle", NEW at \in Places, call' = To(call, at)
  PROVE  Going
<1>1. call' = [op |-> call.op, at |-> at, stop |-> call.stop, was |-> call.was,
              dump |-> call.dump]
  BY DEF CallOK, To
<1>2. at \notin Starting
  BY DEF Places, Starting
<1> QED BY <1>1, <1>2 DEF Going, CallOK, Opening

LEMMA CallEnds == ASSUME ~Opening, call' = Idle PROVE Going
BY DEF Going, CallOK, Opening, Idle, Places, Starting, None

LEMMA CallSees ==
  ASSUME CallOK, ~Opening, call.at # "idle", NEW at \in Places, NEW s, call' = [call EXCEPT !.at = at, !.stop = s]
  PROVE  Going
<1>1. call' = [op |-> call.op, at |-> at, stop |-> s, was |-> call.was, dump |-> call.dump]
  BY DEF CallOK
<1>2. at \notin Starting
  BY DEF Places, Starting
<1> QED BY <1>1, <1>2 DEF Going, CallOK, Opening

LEMMA BeginGoes ==
  ASSUME CallOK, ~Opening, Begin, ~Opening'
  PROVE  Going
<1>1. PICK op \in user.calls \cap DOMAIN First, dump \in Dumps :
        call' = [Idle EXCEPT !.op = op, !.at = First[op], !.dump = dump]
  BY DEF Begin
<1>2. op \in {"pause", "continue", "step", "slot", "start"}
  BY DEF First
<1>3. /\ call' = [op |-> op, at |-> First[op], stop |-> NoStop, was |-> FALSE, dump |-> dump]
      /\ op # None
  BY <1>1, <1>2 DEF Idle, None
<1>4. op # "start"
  BY <1>3 DEF Opening
<1>5. First[op] \in Places
  BY <1>2, <1>4 DEF First, Places
<1> HIDE DEF First
<1> QED BY <1>2, <1>3, <1>4, <1>5 DEF Going, CallOK, Opening, Places, Starting

LEMMA StillGrown == ASSUME SessionInv, core' = core PROVE Grown(core, core')
BY GrownSame DEF SessionInv

LEMMA StillNoting == ASSUME SessionInv, dbg' = dbg PROVE Noting(dbg, dbg')
BY NotingSame DEF SessionInv

LEMMA CallQuiet ==
  ASSUME SessionInv,
         CallPause \/ CallLook \/ CallNote \/ CallAnswer \/ CallRunning \/ Continue \/ step
           \/ WasStopped \/ resume
  PROVE  Quiet
<1>1. CallOK /\ (Opening <=> call.at \in Starting) /\ IsCore(core) /\ IsSession(dbg)
  BY DEF SessionInv, CallOK
<1>2. CASE CallPause
  <2>1. ~Opening
    BY <1>1, <1>2 DEF CallPause, Starting
  <2>2. Going
    BY <1>1, <1>2, <2>1, CallMoves DEF CallPause, Places
  <2>3. Grown(core, core')
    BY <1>1, <1>2, GrownPaused DEF CallPause
  <2> QED BY <1>2, <2>2, <2>3, StillNoting DEF Quiet, CallPause
<1>3. CASE CallLook
  <2>1. ~Opening
    BY <1>1, <1>3 DEF CallLook, Starting
  <2>2. Going
    <3> DEFINE s == core.stop
    <3>1. call' = Idle \/ call' = [call EXCEPT !.at = "note", !.stop = s]
      BY <1>3 DEF CallLook
    <3>2. "note" \in Places /\ call.at # "idle"
      BY <1>3 DEF Places, CallLook
    <3> HIDE DEF s
    <3> QED BY <1>1, <2>1, <3>1, <3>2, CallSees, CallEnds
  <2> QED BY <1>3, <2>2, StillGrown, StillNoting DEF Quiet, CallLook
<1>4. CASE CallNote
  <2>1. ~Opening
    BY <1>1, <1>4 DEF CallNote, Starting
  <2>2. Going
    <3>1. call' = Idle \/ call' = To(call, "read")
      BY <1>4 DEF CallNote
    <3>2. "read" \in Places /\ call.at # "idle"
      BY <1>4 DEF Places, CallNote
    <3> QED BY <1>1, <2>1, <3>1, <3>2, CallMoves, CallEnds
  <2>3. Noting(dbg, dbg')
    BY <1>1, <1>4, NotingStop DEF CallNote
  <2> QED BY <1>4, <2>2, <2>3, StillGrown DEF Quiet, CallNote
<1>5. CASE CallAnswer
  <2>1. ~Opening
    BY <1>1, <1>5 DEF CallAnswer, Starting
  <2>2. Going
    BY <1>5, <2>1, CallEnds DEF CallAnswer
  <2> QED BY <1>5, <2>2, StillGrown, StillNoting DEF Quiet, CallAnswer
<1>6. CASE CallRunning
  <2>1. ~Opening
    BY <1>1, <1>6 DEF CallRunning, Starting
  <2>2. call.op \in {"pause", "continue", "step", "slot"}
    BY <1>1, <1>6, <2>1 DEF CallOK, Opening, CallRunning
  <2>3. call' = Idle \/ call' = To(call, "pause") \/ call' = To(call, call.op)
    BY <1>6 DEF CallRunning
  <2>4. Going
    <3>1. CASE call.op = "slot" \/ call' = Idle \/ call' = To(call, "pause")
      <4>1. call' = Idle \/ call' = To(call, "pause")
        BY <1>6, <3>1 DEF CallRunning
      <4>2. "pause" \in Places /\ call.at # "idle"
        BY <1>6 DEF Places, CallRunning
      <4> QED BY <1>1, <2>1, <4>1, <4>2, CallMoves, CallEnds
    <3>2. CASE call.op # "slot" /\ call' = To(call, call.op)
      <4> DEFINE at == call.op
      <4>1. at \in Places
        BY <2>2, <3>2 DEF Places
      <4>2. call' = To(call, at) /\ call.at # "idle"
        BY <1>6, <3>2 DEF CallRunning
      <4> HIDE DEF at
      <4> QED BY <1>1, <2>1, <4>1, <4>2, CallMoves
    <3> QED BY <2>3, <3>1, <3>2
  <2>5. Noting(dbg, dbg')
    BY <1>1, <1>6, NotingRuns DEF CallRunning
  <2> QED BY <1>6, <2>4, <2>5, StillGrown DEF Quiet, CallRunning
<1>7. CASE Continue
  <2>1. ~Opening
    BY <1>1, <1>7 DEF Continue, Starting
  <2>2. Going
    BY <1>7, <2>1, CallEnds DEF Continue
  <2>3. Grown(core, core')
    BY <1>1, <1>7, GrownResumed DEF Continue
  <2> QED BY <1>7, <2>2, <2>3, StillNoting DEF Quiet, Continue
<1>8. CASE step
  <2>1. ~Opening
    BY <1>1, <1>8 DEF step, Starting
  <2>2. Going
    <3> DEFINE s == core'.stop
    <3>1. call' = Idle \/ call' = [call EXCEPT !.at = "note", !.stop = s]
      BY <1>8 DEF step
    <3>2. "note" \in Places /\ call.at # "idle"
      BY <1>8 DEF Places, step
    <3> HIDE DEF s
    <3> QED BY <1>1, <2>1, <3>1, <3>2, CallSees, CallEnds
  <2>3. Grown(core, core')
    <3>1. CASE core.stop.why = "fault"
      BY <1>1, <1>8, <3>1, GrownSame DEF step
    <3>2. CASE core.stop.why # "fault"
      <4> DEFINE e == Resumed(core, TRUE)
      <4>1. core' \in Turns(e)
        BY <1>8, <3>2 DEF step
      <4>2. Grown(core, e)
        BY <1>1, GrownResumed
      <4> HIDE DEF e
      <4>3. Grown(e, core')
        BY <4>1, <4>2, GrownTurns DEF Grown
      <4> QED BY <1>1, <4>2, <4>3, GrownTwice
    <3> QED BY <3>1, <3>2
  <2> QED BY <1>8, <2>2, <2>3, StillNoting DEF Quiet, step
<1>9. CASE WasStopped
  <2>1. ~Opening
    BY <1>1, <1>9 DEF WasStopped, Starting
  <2>2. Going
    <3> DEFINE was == IsStopped
    <3>1. call' = [op |-> call.op, at |-> "resume", stop |-> call.stop, was |-> was,
                  dump |-> call.dump] /\ call.op # None
      BY <1>1, <1>9 DEF WasStopped, CallOK
    <3> HIDE DEF was
    <3> QED BY <1>1, <2>1, <3>1 DEF Going, CallOK, Opening, Places, Starting
  <2> QED BY <1>9, <2>2, StillGrown, StillNoting DEF Quiet, WasStopped
<1>10. CASE resume
  <2>1. ~Opening
    BY <1>1, <1>10 DEF resume, Starting
  <2>2. Going
    BY <1>1, <1>10, <2>1, CallMoves DEF resume, Places
  <2>3. Grown(core, core')
    <3> DEFINE stop == NoStop
               goal == FALSE
               clock == 0
    <3>1. core' = [core EXCEPT !.stop = stop, !.goal = goal, !.clock = clock]
      BY <1>10 DEF resume
    <3> HIDE DEF stop, goal, clock
    <3> QED BY <1>1, <3>1, GrownAside
  <2> QED BY <1>10, <2>2, <2>3, StillNoting DEF Quiet, resume
<1> QED BY <1>2, <1>3, <1>4, <1>5, <1>6, <1>7, <1>8, <1>9, <1>10

LEMMA OthersQuiet ==
  ASSUME SessionInv, Driver \/ Exit \/ Status \/ onStopEvent \/ Fetch \/ UNCHANGED vars
  PROVE  Quiet
<1>1. IsCore(core) /\ IsSession(dbg)
  BY DEF SessionInv
<1>2. CASE DriverNote \/ StatusNote \/ FetchNote
  <2>1. Noting(dbg, dbg')
    BY <1>1, <1>2, NotingStop, NotingSame DEF DriverNote, StatusNote, FetchNote
  <2>2. UNCHANGED <<open, core, saved, call, list, astray>>
    BY <1>2 DEF DriverNote, StatusNote, FetchNote
  <2> QED BY <2>1, <2>2, StillGrown DEF Quiet, Going
<1>3. CASE Run
  <2>1. core' = core \/ core' \in Turns(core)
    BY <1>3 DEF Run
  <2>2. Grown(core, core')
    BY <1>1, <2>1, GrownTurns, GrownSame
  <2> QED BY <1>3, <2>2, StillNoting DEF Quiet, Going, Run
<1>4. CASE \/ Report \/ Exit \/ GetStatus \/ onStopEvent \/ DebugSnapshot \/ FetchAnswer
           \/ UNCHANGED vars
  <2>1. UNCHANGED <<open, core, dbg, saved, call, list, astray>>
    BY <1>4 DEF Report, Exit, GetStatus, onStopEvent, DebugSnapshot, FetchAnswer, vars
  <2> QED BY <2>1, StillGrown, StillNoting DEF Quiet, Going
<1> QED BY <1>2, <1>3, <1>4 DEF Driver, Status, Fetch

---------------------------------------------------------------------------
(* Steps that change the list or the machine. *)

LEMMA BreakStep ==
  ASSUME NEW x, Sound(x), NEW specs, IsList(specs), NEW y, y = Break(x, specs)
  PROVE  /\ Sound(y) /\ (Matched(x.emu, x.dbg.applied) => Matched(y.emu, y.dbg.applied))
         /\ y.dbg.hash = x.dbg.hash /\ y.dbg.specs = specs /\ y.dbg.applied = x.dbg.applied
         /\ y.emu.codes = Broken(specs)
         /\ \A i \in DOMAIN x.dbg.applied : HitsIn(y.emu, y.dbg, i) = HitsIn(x.emu, x.dbg, i)
<1> DEFINE e == x.emu
           d == x.dbg
           codes == Broken(specs)
<1>1. /\ y.emu = [e EXCEPT !.codes = codes]
      /\ y.dbg = [d EXCEPT !.specs = specs]
  BY DEF Break
<1>2. IsCore(e) /\ IsSession(d)
  BY DEF Sound
<1> HIDE DEF e, d, codes
<1>3. /\ y.emu = [bps |-> e.bps, next |-> e.next, codes |-> codes, stop |-> e.stop,
                 goal |-> e.goal, clock |-> e.clock]
      /\ y.dbg = [hash |-> d.hash, specs |-> specs, applied |-> d.applied, hits |-> d.hits,
                 seq |-> d.seq, last |-> d.last, seen |-> d.seen]
  BY <1>1, <1>2 DEF IsCore, IsSession
<1>4. IsCore(y.emu) /\ IsSession(y.dbg)
      /\ (Matched(e, d.applied) => Matched(y.emu, y.dbg.applied))
  BY <1>2, <1>3 DEF IsCore, IsSession, Matched
<1>5. \A i \in DOMAIN d.applied : HitsIn(y.emu, y.dbg, i) = HitsIn(e, d, i)
  BY <1>3 DEF HitsIn
<1> QED BY <1>3, <1>4, <1>5 DEF Sound, e, d, codes

\* A new machine breaks where its dump's list says, whatever the debugger held before.
LEMMA PrepareStep ==
  ASSUME NEW d, IsSession(d), NEW dump \in Dumps, SavedOK,
         NEW y, y = prepareMachine(NewEmulator, d, dump)
  PROVE  /\ IsCore(y.emu) /\ IsSession(y.dbg) /\ Matched(y.emu, y.dbg.applied)
         /\ y.dbg.hash = dump /\ y.dbg.specs = (IF d.hash = dump THEN d.specs ELSE saved[dump])
         /\ y.emu.codes = Broken(y.dbg.specs) /\ Shows(y.dbg.applied, y.dbg.specs)
<1> DEFINE specs == IF d.hash = dump THEN d.specs ELSE saved[dump]
           bare == [d EXCEPT !.hash = dump, !.applied = NoList, !.hits = NoList]
           x == [emu |-> NewEmulator, dbg |-> bare]
           x1 == Drop(x, specs)
           x2 == Add(x1, specs)
           x3 == Break(x2, specs)
<1>1. y = [emu |-> x3.emu, dbg |-> [x3.dbg EXCEPT !.last = NoInfo, !.seen = NoStop]]
  BY DEF prepareMachine, prepareKeeping, syncBreakpoints, loadBreakpoints
<1>2. IsList(specs)
  BY DEF SavedOK, IsSession
<1>3. bare = [hash |-> dump, specs |-> d.specs, applied |-> NoList, hits |-> NoList,
             seq |-> d.seq, last |-> d.last, seen |-> d.seen]
  <2>1. d = [hash |-> d.hash, specs |-> d.specs, applied |-> d.applied, hits |-> d.hits,
             seq |-> d.seq, last |-> d.last, seen |-> d.seen]
    BY DEF IsSession
  <2> DEFINE none == NoList
  <2> HIDE DEF specs, none
  <2>2. bare = [d EXCEPT !.hash = dump, !.applied = none, !.hits = none]
    BY DEF none
  <2>3. bare = [hash |-> dump, specs |-> d.specs, applied |-> none, hits |-> none,
               seq |-> d.seq, last |-> d.last, seen |-> d.seen]
    <3> HIDE DEF bare
    <3> QED BY ONLY <2>1, <2>2
  <2> QED BY <2>3 DEF none
<1>4. IsFiniteSet({}) /\ DOMAIN NoList = {} /\ \A S : NoList \in [{} -> S]
  BY FS_EmptySet DEF NoList
<1> HIDE DEF bare, specs
<1>5. IsSession(bare) /\ bare.applied = NoList
  <2> USE <1>3, <1>4
  <2> HIDE DEF NoList
  <2> QED BY DEF IsSession
<1>6. NewEmulator.bps = [i \in {} |-> {}] /\ DOMAIN NewEmulator.bps = {}
  BY DEF NewEmulator
<1>7. IsCore(NewEmulator)
  BY DEF IsCore, NewEmulator
<1>8. Consistent(x)
  BY <1>4, <1>5, <1>6, <1>7 DEF Consistent, Sound, Matched, Exec
<1> HIDE DEF x
<1>9. /\ Consistent(x1) /\ x1.dbg.hash = x.dbg.hash
      /\ DOMAIN x1.dbg.applied = Kept(x.dbg.applied, specs)
      /\ \A i \in DOMAIN x1.dbg.applied : x1.dbg.applied[i] = x.dbg.applied[i]
  BY <1>2, <1>8, DropStep DEF Consistent
<1>10. Stays(x1.dbg.applied, specs)
  BY <1>9 DEF Stays, Kept
<1> HIDE DEF x1
<1>11. /\ Consistent(x2) /\ x2.dbg.hash = x1.dbg.hash
       /\ DOMAIN x2.dbg.applied = DOMAIN specs
       /\ \A i \in DOMAIN specs : x2.dbg.applied[i].spec = specs[i]
  BY <1>2, <1>9, <1>10, AddStep DEF Consistent
<1> HIDE DEF x2
<1>12. /\ Consistent(x3) /\ x3.dbg.hash = x2.dbg.hash /\ x3.dbg.specs = specs
       /\ x3.dbg.applied = x2.dbg.applied /\ x3.emu.codes = Broken(specs)
  BY <1>2, <1>11, BreakStep DEF Consistent
<1> HIDE DEF x3
<1>13. IsCore(x3.emu) /\ IsSession(x3.dbg) /\ Matched(x3.emu, x3.dbg.applied)
  BY <1>12 DEF Consistent, Sound
<1>14. /\ y.emu = x3.emu
       /\ y.dbg = [hash |-> x3.dbg.hash, specs |-> x3.dbg.specs, applied |-> x3.dbg.applied,
                  hits |-> x3.dbg.hits, seq |-> x3.dbg.seq, last |-> NoInfo, seen |-> NoStop]
  <2> DEFINE d3 == x3.dbg
             last == NoInfo
             seen == NoStop
  <2>1. d3 = [hash |-> d3.hash, specs |-> d3.specs, applied |-> d3.applied, hits |-> d3.hits,
              seq |-> d3.seq, last |-> d3.last, seen |-> d3.seen]
    BY <1>13 DEF IsSession
  <2>2. y.dbg = [d3 EXCEPT !.last = last, !.seen = seen] /\ y.emu = x3.emu
    BY <1>1
  <2> HIDE DEF d3, last, seen
  <2>3. y.dbg = [hash |-> d3.hash, specs |-> d3.specs, applied |-> d3.applied, hits |-> d3.hits,
                seq |-> d3.seq, last |-> last, seen |-> seen]
    BY ONLY <2>1, <2>2
  <2> QED BY <2>2, <2>3 DEF d3, last, seen
<1>15. IsSession(y.dbg)
  BY <1>13, <1>14 DEF IsSession
<1>16. x3.dbg.hash = dump
  BY <1>3, <1>9, <1>11, <1>12 DEF x
<1>17. Shows(y.dbg.applied, specs)
  BY <1>11, <1>12, <1>14 DEF Shows
<1> QED BY <1>12, <1>13, <1>14, <1>15, <1>16, <1>17 DEF specs

LEMMA InitSession == Init => SessionInv
<1> SUFFICES ASSUME Init PROVE SessionInv
  OBVIOUS
<1>1. PICK setup \in Setups :
        /\ open = setup.open /\ saved = setup.saved
        /\ IF setup.open = None THEN core = NewEmulator /\ dbg = NoSession
           ELSE LET x == prepareMachine(NewEmulator, NoSession, setup.open)
                IN core = x.emu /\ dbg = x.dbg
  BY DEF Init
<1>2. open \in Dumps \cup {None} /\ SavedOK
  BY <1>1 DEF SavedOK
<1>3. call = Idle /\ list = NoChange /\ astray = {}
  BY DEF Init
<1>4. CallOK /\ ListOK /\ call.at = "idle" /\ Unlocked /\ list.at = "idle"
  <2>1. CallOK /\ call.at = "idle"
    BY <1>3 DEF CallOK, Opening, Idle, Places, Starting, None
  <2> DEFINE empty == NoList
  <2>2. list = [at |-> "idle", specs |-> empty, dump |-> None, gone |-> {}]
    BY <1>3 DEF NoChange
  <2> HIDE DEF empty
  <2>3. ListOK /\ Unlocked /\ list.at = "idle"
    BY <2>2 DEF ListOK, Unlocked
  <2> QED BY <2>1, <2>3
<1>5. IsFiniteSet({}) /\ DOMAIN NoList = {} /\ \A S : NoList \in [{} -> S]
  BY FS_EmptySet DEF NoList
<1>6. IsSession(NoSession) /\ NoSession.hash = None /\ NoSession.applied = NoList
  <2> USE <1>5
  <2> HIDE DEF NoList
  <2> QED BY DEF NoSession, IsSession, IsList
<1>7. IsCore(NewEmulator) /\ DOMAIN NewEmulator.bps = {}
  BY DEF IsCore, NewEmulator
<1>8. CASE open = None
  <2>1. core = NewEmulator /\ dbg = NoSession
    BY <1>1, <1>8
  <2>2. Matched(core, dbg.applied)
    BY <1>5, <1>6, <1>7, <2>1 DEF Matched, Exec
  <2>3. Owned /\ Settled /\ Phase
    BY <1>2, <1>3, <1>4, <1>6, <1>8, <2>1 DEF Owned, Settled, Phase
  <2> QED BY <1>2, <1>4, <1>6, <1>7, <2>1, <2>2, <2>3 DEF SessionInv
<1>9. CASE open # None
  <2> DEFINE y == prepareMachine(NewEmulator, NoSession, open)
  <2>1. core = y.emu /\ dbg = y.dbg
    BY <1>1, <1>9
  <2>2. open \in Dumps /\ NoSession.hash # open
    BY <1>2, <1>6, <1>9
  <2>3. /\ IsCore(y.emu) /\ IsSession(y.dbg) /\ Matched(y.emu, y.dbg.applied)
        /\ y.dbg.hash = open /\ saved[open] = y.dbg.specs /\ y.emu.codes = Broken(y.dbg.specs)
        /\ Shows(y.dbg.applied, y.dbg.specs)
    BY <1>2, <1>6, <2>2, PrepareStep
  <2> HIDE DEF y
  <2>4. Owned /\ Settled /\ Phase
    BY <1>2, <1>3, <1>4, <1>9, <2>1, <2>3 DEF Owned, Settled, Phase
  <2> QED BY <1>2, <1>4, <2>1, <2>3, <2>4 DEF SessionInv
<1> QED BY <1>8, <1>9

LEMMA SameSurvives ==
  ASSUME SessionInv, core' = core, dbg'.applied = dbg.applied, dbg'.hits = dbg.hits
  PROVE  Survives
<1> SUFFICES ASSUME NEW i \in DOMAIN dbg.applied
             PROVE  HitsIn(core', dbg', i) >= HitsIn(core, dbg, i)
  BY DEF Survives
<1>1. HitsIn(core', dbg', i) = HitsIn(core, dbg, i)
  BY DEF HitsIn
<1>2. HitsIn(core, dbg, i) \in Int
  <2>1. \A c \in DOMAIN core.bps : core.bps[c].hits \in Int
    BY DEF SessionInv, IsCore, Breakpoint
  <2>2. \A j \in DOMAIN dbg.hits : dbg.hits[j] \in Int
    BY DEF SessionInv, IsSession
  <2> QED BY <2>1, <2>2 DEF HitsIn
<1> QED BY <1>1, <1>2

\* A start begins, or goes on to its next part; the list does not mind.
Opens ==
  /\ CallOK' /\ Owned'
  /\ UNCHANGED <<core, dbg, saved, list, astray>>

LEMMA OpensKeeps ==
  ASSUME SessionInv, Opens
  PROVE  SessionInv' /\ Survives
<1>1. UNCHANGED <<core, dbg, saved, list, astray>> /\ CallOK' /\ Owned'
  BY DEF Opens
<1>2. ListOK' /\ SavedOK' /\ Settled' /\ Phase'
  BY <1>1 DEF SessionInv, ListOK, SavedOK, Settled, Phase, Unlocked
<1> QED BY <1>1, <1>2, SameSurvives DEF SessionInv

LEMMA StartOpens ==
  ASSUME SessionInv, (Begin /\ Opening') \/ Unpublish \/ Publish
  PROVE  Opens
<1>1. CASE Begin /\ Opening'
  <2>1. PICK op \in user.calls \cap DOMAIN First, dump \in Dumps :
          call' = [Idle EXCEPT !.op = op, !.at = First[op], !.dump = dump]
    BY <1>1 DEF Begin
  <2>2. call' = [op |-> op, at |-> First[op], stop |-> NoStop, was |-> FALSE, dump |-> dump]
    BY <2>1 DEF Idle
  <2>3. op = "start"
    BY <1>1, <2>2 DEF Opening
  <2>4. call' = [op |-> "start", at |-> "unpublish", stop |-> NoStop, was |-> FALSE,
                 dump |-> dump]
    BY <2>2, <2>3 DEF First
  <2>5. UNCHANGED <<open, core, dbg, saved, list, astray>> /\ call.at = "idle"
    BY <1>1 DEF Begin
  <2>6. CallOK'
    BY <2>4 DEF CallOK, Opening, Starting, None
  <2>7. Owned'
    BY <2>4, <2>5 DEF SessionInv, Owned
  <2> QED BY <2>5, <2>6, <2>7 DEF Opens
<1>2. CASE Unpublish \/ Publish
  <2>1. UNCHANGED <<core, dbg, saved, list, astray>>
    BY <1>2 DEF Unpublish, Publish
  <2>2. CallOK /\ Opening /\ call.dump \in Dumps
    BY <1>2 DEF SessionInv, CallOK, Unpublish, Publish, Starting
  <2>3. call.op = "start"
    BY <2>2 DEF Opening
  <2>4. CASE Unpublish
    <3>1. call' = [op |-> call.op, at |-> "prepare", stop |-> call.stop, was |-> call.was,
                  dump |-> call.dump] /\ open' = None
      BY <2>2, <2>4 DEF CallOK, To, Unpublish
    <3>2. CallOK'
      BY <2>2, <2>3, <3>1 DEF CallOK, Opening, Starting, None
    <3> QED BY <2>1, <3>1, <3>2 DEF SessionInv, Owned, Opens
  <2>5. CASE Publish
    <3>1. call' = Idle /\ open' = call.dump /\ call.at = "publish"
      BY <2>5 DEF Publish
    <3>2. CallOK' /\ call'.at = "idle"
      BY <3>1 DEF CallOK, Opening, Idle, Places, Starting, None
    <3> QED BY <2>1, <2>2, <3>1, <3>2 DEF SessionInv, Owned, Opens
  <2> QED BY <1>2, <2>4, <2>5
<1> QED BY <1>1, <1>2

LEMMA PrepareKeeps ==
  ASSUME SessionInv, Prepare
  PROVE  SessionInv'
<1>1. /\ UNCHANGED <<open, saved>> /\ call.at = "prepare" /\ call' = To(call, "publish")
      /\ Unlocked
      /\ astray' = IF dbg.hash = call.dump THEN astray \ {"core"} ELSE {}
      /\ list' = IF list.at = "drop" /\ list.gone = {} THEN [list EXCEPT !.gone = {core}]
                 ELSE list
  BY DEF Prepare
<1>2. CallOK /\ Opening /\ call.dump \in Dumps
  BY <1>1 DEF SessionInv, CallOK, Starting
<1> DEFINE y == prepareMachine(NewEmulator, dbg, call.dump)
<1>3. core' = y.emu /\ dbg' = y.dbg
  BY DEF Prepare
<1>4. /\ IsCore(y.emu) /\ IsSession(y.dbg) /\ Matched(y.emu, y.dbg.applied)
      /\ y.dbg.hash = call.dump
      /\ y.dbg.specs = (IF dbg.hash = call.dump THEN dbg.specs ELSE saved[call.dump])
      /\ y.emu.codes = Broken(y.dbg.specs) /\ Shows(y.dbg.applied, y.dbg.specs)
  BY <1>2, PrepareStep DEF SessionInv
<1> HIDE DEF y
<1>5. call' = [op |-> call.op, at |-> "publish", stop |-> call.stop, was |-> call.was,
              dump |-> call.dump]
  BY <1>1, <1>2 DEF CallOK, To
<1>6. CallOK'
  BY <1>2, <1>5 DEF CallOK, Opening, Starting, None
<1>7. list.at \in {"idle", "keep", "drop"} /\ ListOK
  BY <1>1 DEF Unlocked, SessionInv
<1>8. ListOK' /\ list'.at = list.at
  <2>1. CASE list.at = "drop" /\ list.gone = {}
    <3>1. list' = [at |-> "drop", specs |-> list.specs, dump |-> list.dump, gone |-> {core}]
      BY <1>1, <1>7, <2>1 DEF ListOK
    <3> QED BY <1>7, <2>1, <3>1 DEF SessionInv, ListOK
  <2>2. CASE ~(list.at = "drop" /\ list.gone = {})
    <3>1. list' = list
      BY <1>1, <2>2
    <3> QED BY <1>7, <2>2, <3>1 DEF ListOK
  <2> QED BY <2>1, <2>2
<1>9. SavedOK' /\ Owned'
  BY <1>1, <1>3, <1>4, <1>5 DEF SessionInv, SavedOK, Owned
<1>10. "list" \notin astray' => saved'[call.dump] = y.dbg.specs
  <2>1. CASE dbg.hash = call.dump
    <3>1. dbg.hash # None
      BY <1>2, <2>1
    <3> QED BY <1>1, <1>4, <2>1, <3>1 DEF SessionInv, Settled
  <2>2. CASE dbg.hash # call.dump
    BY <1>1, <1>4, <2>2
  <2> QED BY <2>1, <2>2
<1>11. Settled' /\ Phase'
  BY <1>3, <1>4, <1>7, <1>8, <1>10 DEF Settled, Phase
<1> QED BY <1>3, <1>4, <1>6, <1>8, <1>9, <1>11 DEF SessionInv

LEMMA SetKeeps ==
  ASSUME SessionInv, SetBreakpoints
  PROVE  SessionInv' /\ Survives
<1> DEFINE at == IF open = None THEN "keep" ELSE "drop"
<1>1. PICK specs \in Lists :
        list' = [NoChange EXCEPT !.at = at, !.specs = specs, !.dump = open]
  BY DEF SetBreakpoints
<1>2. IsList(specs)
  OBVIOUS
<1>3. UNCHANGED <<open, core, dbg, saved, call, astray>> /\ list.at = "idle"
  BY DEF SetBreakpoints
<1>4. list' = [at |-> at, specs |-> specs, dump |-> open, gone |-> {}]
  BY <1>1 DEF NoChange
<1>5. CallOK' /\ SavedOK' /\ Owned' /\ Settled'
  BY <1>3 DEF SessionInv, CallOK, SavedOK, Owned, Settled, Opening
<1>6. ListOK'
  BY <1>2, <1>3, <1>4 DEF SessionInv, ListOK, Owned
<1>7. Phase'
  BY <1>3, <1>4 DEF SessionInv, Phase, Unlocked
<1> QED BY <1>3, <1>5, <1>6, <1>7, SameSurvives DEF SessionInv

LEMMA NoChangeOK == ASSUME list' = NoChange PROVE ListOK' /\ list'.at = "idle" /\ Unlocked'
<1> DEFINE empty == NoList
<1>1. list' = [at |-> "idle", specs |-> empty, dump |-> None, gone |-> {}]
  BY DEF NoChange
<1> HIDE DEF empty
<1> QED BY <1>1 DEF ListOK, Unlocked

LEMMA KeepKeeps ==
  ASSUME SessionInv, KeepList
  PROVE  SessionInv' /\ Survives
<1>1. /\ list.at = "keep" /\ dbg' = [dbg EXCEPT !.specs = list.specs] /\ list' = NoChange
      /\ astray' = astray \cup {"list"} /\ UNCHANGED <<open, core, saved, call>>
  BY DEF KeepList
<1>2. dbg' = [hash |-> dbg.hash, specs |-> list.specs, applied |-> dbg.applied,
              hits |-> dbg.hits, seq |-> dbg.seq, last |-> dbg.last, seen |-> dbg.seen]
  BY <1>1 DEF SessionInv, IsSession
<1>3. IsList(list.specs)
  BY <1>1 DEF SessionInv, ListOK
<1>4. IsSession(dbg')
  BY <1>2, <1>3 DEF SessionInv, IsSession
<1>5. CallOK' /\ SavedOK' /\ Owned'
  BY <1>1, <1>2 DEF SessionInv, CallOK, SavedOK, Owned, Opening
<1>6. ListOK' /\ list'.at = "idle"
  BY <1>1, NoChangeOK
<1>7. Settled' /\ Phase'
  BY <1>1, <1>6 DEF Settled, Phase
<1>8. "core" \notin astray' => Matched(core', dbg'.applied)
  BY <1>1, <1>2 DEF SessionInv
<1>9. Survives
  BY <1>1, <1>2, SameSurvives
<1> QED BY <1>1, <1>4, <1>5, <1>6, <1>7, <1>8, <1>9 DEF SessionInv

\* A part of a change of the list, on the emulator it found, from which x comes out.
Syncing(x) ==
  /\ core' = (IF Left THEN core ELSE x.emu) /\ dbg' = x.dbg /\ Sound(x)
  /\ x.dbg.hash = dbg.hash
  /\ UNCHANGED <<open, call>>

LEMMA NowSound ==
  ASSUME SessionInv
  PROVE  Sound(Now) /\ Now.dbg = dbg /\ (~Left => Now.emu = core)
<1>1. Left => (CHOOSE e \in list.gone : TRUE) \in list.gone
  BY DEF Left
<1>2. Now.dbg = dbg /\ Now.emu = (IF Left THEN CHOOSE e \in list.gone : TRUE ELSE core)
  BY DEF Now
<1>3. IsCore(Now.emu)
  BY <1>1, <1>2 DEF SessionInv, ListOK
<1> QED BY <1>2, <1>3 DEF SessionInv, Sound

LEMMA SyncingKeeps ==
  ASSUME SessionInv, NEW x, Syncing(x), ListOK', SavedOK', Settled', Phase',
         "core" \notin astray' => Matched(core', dbg'.applied)
  PROVE  SessionInv'
<1>1. CallOK' /\ Owned'
  BY DEF SessionInv, CallOK, Opening, Owned, Syncing
<1>2. IsCore(core') /\ IsSession(dbg')
  BY DEF Syncing, Sound, SessionInv
<1> QED BY <1>1, <1>2 DEF SessionInv

\* What stays at its target in the list that is under way.
KeptSurvive ==
  \A i \in Kept(dbg.applied, list.specs) :
    i \in DOMAIN dbg'.applied /\ HitsIn(core', dbg', i) >= HitsIn(core, dbg, i)

LEMMA HitsType ==
  ASSUME NEW e, NEW d, IsCore(e), IsSession(d), NEW i
  PROVE  HitsIn(e, d, i) \in Int
<1>1. \A c \in DOMAIN e.bps : e.bps[c].hits \in Int
  BY DEF IsCore, Breakpoint
<1>2. \A j \in DOMAIN d.hits : d.hits[j] \in Int
  BY DEF IsSession
<1> QED BY <1>1, <1>2 DEF HitsIn

\* The change goes on with the emulator e that it has worked on.
LEMMA ListGoes ==
  ASSUME ListOK, list.at \in {"drop", "add"}, NEW at \in {"add", "break"}, NEW e, IsCore(e),
         list' = [at |-> at, specs |-> list.specs, dump |-> list.dump,
                  gone |-> IF Left THEN {e} ELSE {}],
         dbg'.hash = dbg.hash, Left => "core" \in astray' /\ "list" \in astray'
  PROVE  ListOK'
<1> DEFINE gone == IF Left THEN {e} ELSE {}
<1>1. /\ \A f \in gone : IsCore(f)
      /\ gone = {} => list.gone = {}
      /\ gone # {} => "core" \in astray' /\ "list" \in astray'
  BY DEF Left
<1>2. list' = [at |-> at, specs |-> list.specs, dump |-> list.dump, gone |-> gone]
  OBVIOUS
<1>3. IsList(list.specs) /\ list.dump \in Dumps /\ (list.gone = {} => dbg.hash = list.dump)
  BY DEF ListOK
<1> HIDE DEF gone
<1> QED BY <1>1, <1>2, <1>3 DEF ListOK

LEMMA DropKeeps ==
  ASSUME SessionInv, DropOld
  PROVE  SessionInv' /\ ("core" \notin astray => KeptSurvive)
<1> DEFINE y == Drop(Now, list.specs)
           gone == IF Left THEN {y.emu} ELSE {}
<1>1. /\ list.at = "drop" /\ core' = (IF Left THEN core ELSE y.emu) /\ dbg' = y.dbg
      /\ list' = [list EXCEPT !.at = "add", !.gone = gone]
      /\ astray' = (IF Left THEN {"core", "list"} ELSE astray)
      /\ UNCHANGED <<open, call, saved>>
  BY DEF DropOld, Sync
<1>2. /\ Sound(Now) /\ Now.dbg = dbg /\ (~Left => Now.emu = core)
      /\ IsList(list.specs) /\ ListOK
  BY <1>1, NowSound DEF SessionInv, ListOK
<1>3. /\ Sound(y)
      /\ y.dbg.hash = dbg.hash /\ y.dbg.specs = dbg.specs /\ y.emu.codes = Now.emu.codes
      /\ DOMAIN y.dbg.applied = Kept(dbg.applied, list.specs)
      /\ \A i \in DOMAIN y.dbg.applied : y.dbg.applied[i] = dbg.applied[i]
      /\ Matched(Now.emu, dbg.applied) =>
           /\ Matched(y.emu, y.dbg.applied)
           /\ \A i \in DOMAIN y.dbg.applied :
                HitsIn(y.emu, y.dbg, i) = HitsIn(Now.emu, dbg, i)
  BY <1>2, DropStep
<1>4. \A i \in DOMAIN y.dbg.applied : HitsIn(core, y.dbg, i) = HitsIn(core, dbg, i)
  <2> DEFINE kept == Kept(dbg.applied, list.specs)
             hits == [i \in kept \cap DOMAIN dbg.hits |-> dbg.hits[i]]
             applied == [i \in kept |-> dbg.applied[i]]
  <2>1. y.dbg = [dbg EXCEPT !.applied = applied, !.hits = hits]
    BY <1>2 DEF Drop, Restrict
  <2> HIDE DEF y, kept
  <2>2. \A i \in kept : /\ (i \in DOMAIN hits) = (i \in DOMAIN dbg.hits)
                        /\ i \in DOMAIN hits => hits[i] = dbg.hits[i]
    OBVIOUS
  <2> HIDE DEF hits, applied
  <2>3. y.dbg.hits = hits
    BY <2>1 DEF SessionInv, IsSession
  <2> QED BY <1>3, <2>2, <2>3 DEF HitsIn, kept
<1> HIDE DEF y
<1>5. Syncing(y)
  BY <1>1, <1>3 DEF Syncing
<1>6. list' = [at |-> "add", specs |-> list.specs, dump |-> list.dump, gone |-> gone]
  <2> HIDE DEF gone
  <2> QED BY <1>1, <1>2 DEF ListOK
<1>7. ListOK' /\ SavedOK'
  <2>1. ListOK'
    BY <1>1, <1>2, <1>3, <1>6, ListGoes DEF Sound
  <2> QED BY <1>1, <2>1 DEF SessionInv, SavedOK
<1>8. Settled'
  BY <1>1, <1>2, <1>3 DEF SessionInv, Settled
<1>9. Phase'
  <2>1. Stays(dbg'.applied, list.specs)
    BY <1>1, <1>3 DEF Stays, Kept
  <2>2. list'.at = "add" /\ list'.specs = list.specs /\ ~Unlocked'
    BY <1>6 DEF Unlocked
  <2> QED BY <2>1, <2>2 DEF Phase
<1>10. "core" \notin astray' => Matched(core', dbg'.applied)
  BY <1>1, <1>2, <1>3 DEF SessionInv
<1>11. ASSUME "core" \notin astray PROVE KeptSurvive
  <2>1. \A i \in DOMAIN y.dbg.applied : HitsIn(core', dbg', i) = HitsIn(core, dbg, i)
    <3>1. CASE Left
      BY <1>1, <1>4, <3>1
    <3>2. CASE ~Left
      BY <1>1, <1>2, <1>3, <1>11, <3>2 DEF SessionInv
    <3> QED BY <3>1, <3>2
  <2>2. \A i \in DOMAIN y.dbg.applied : HitsIn(core, dbg, i) \in Int
    BY HitsType DEF SessionInv
  <2>3. \A i \in DOMAIN y.dbg.applied :
          i \in DOMAIN dbg'.applied /\ HitsIn(core', dbg', i) >= HitsIn(core, dbg, i)
    <3>1. dbg' = y.dbg
      BY <1>1
    <3> HIDE DEF HitsIn
    <3> QED BY <2>1, <2>2, <3>1
  <2> QED BY <1>3, <2>3 DEF KeptSurvive
<1> QED BY <1>5, <1>7, <1>8, <1>9, <1>10, <1>11, SyncingKeeps

LEMMA AddKeeps ==
  ASSUME SessionInv, AddNew
  PROVE  SessionInv' /\ ("core" \notin astray => Survives)
<1> DEFINE y == Add(Now, list.specs)
           gone == IF Left THEN {y.emu} ELSE {}
<1>1. /\ list.at = "add" /\ core' = (IF Left THEN core ELSE y.emu) /\ dbg' = y.dbg
      /\ list' = [list EXCEPT !.at = "break", !.gone = gone]
      /\ UNCHANGED <<open, call, saved, astray>>
  BY DEF AddNew, Sync
<1>2. /\ Sound(Now) /\ Now.dbg = dbg /\ (~Left => Now.emu = core)
      /\ IsList(list.specs) /\ ListOK /\ (Left => "core" \in astray)
  BY <1>1, NowSound DEF SessionInv, ListOK, Left
<1>3. Stays(dbg.applied, list.specs)
  BY <1>1 DEF SessionInv, Phase
<1>4. /\ Sound(y)
      /\ y.dbg.hash = dbg.hash /\ y.dbg.specs = dbg.specs /\ y.emu.codes = Now.emu.codes
      /\ DOMAIN y.dbg.applied = DOMAIN list.specs
      /\ \A i \in DOMAIN list.specs : y.dbg.applied[i].spec = list.specs[i]
      /\ Matched(Now.emu, dbg.applied) =>
           /\ Matched(y.emu, y.dbg.applied)
           /\ \A i \in DOMAIN dbg.applied : HitsIn(y.emu, y.dbg, i) = HitsIn(Now.emu, dbg, i)
  BY <1>2, <1>3, AddStep
<1> HIDE DEF y
<1>5. Syncing(y)
  BY <1>1, <1>4 DEF Syncing
<1>6. list' = [at |-> "break", specs |-> list.specs, dump |-> list.dump, gone |-> gone]
  <2> HIDE DEF gone
  <2> QED BY <1>1, <1>2 DEF ListOK
<1>7. ListOK' /\ SavedOK'
  <2>1. Left => "core" \in astray' /\ "list" \in astray'
    BY <1>1, <1>2 DEF ListOK, Left
  <2>2. ListOK'
    BY <1>1, <1>2, <1>4, <1>6, <2>1, ListGoes DEF Sound
  <2> QED BY <1>1, <2>2 DEF SessionInv, SavedOK
<1>8. Settled'
  BY <1>1, <1>2, <1>4 DEF SessionInv, Settled
<1>9. Phase'
  <2>1. Shows(dbg'.applied, list.specs)
    BY <1>1, <1>4 DEF Shows
  <2>2. list'.at = "break" /\ list'.specs = list.specs /\ ~Unlocked'
    BY <1>6 DEF Unlocked
  <2> QED BY <2>1, <2>2 DEF Phase
<1>10. "core" \notin astray' => Matched(core', dbg'.applied)
  BY <1>1, <1>2, <1>4 DEF SessionInv
<1>11. ASSUME "core" \notin astray PROVE Survives
  <2>1. \A i \in DOMAIN dbg.applied :
          i \in DOMAIN dbg'.applied /\ HitsIn(core', dbg', i) = HitsIn(core, dbg, i)
    BY <1>1, <1>2, <1>3, <1>4, <1>11 DEF SessionInv, Stays
  <2>2. \A i \in DOMAIN dbg.applied : HitsIn(core, dbg, i) \in Int
    BY HitsType DEF SessionInv
  <2>3. \A i \in DOMAIN dbg.applied :
          i \in DOMAIN dbg'.applied /\ HitsIn(core', dbg', i) >= HitsIn(core, dbg, i)
    <3> HIDE DEF HitsIn
    <3> QED BY <2>1, <2>2
  <2> QED BY <2>3 DEF Survives
<1> QED BY <1>5, <1>7, <1>8, <1>9, <1>10, <1>11, SyncingKeeps

LEMMA BreakKeeps ==
  ASSUME SessionInv, BreakSave
  PROVE  SessionInv' /\ Survives
<1> DEFINE y == Break(Now, list.specs)
<1>1. /\ list.at = "break" /\ core' = (IF Left THEN core ELSE y.emu) /\ dbg' = y.dbg
      /\ list' = NoChange
      /\ saved' = [saved EXCEPT ![list.dump] = list.specs]
      /\ astray' = (IF dbg.hash = list.dump THEN astray \ {"list"} ELSE astray)
      /\ UNCHANGED <<open, call>>
  BY DEF BreakSave, Sync
<1>2. /\ Sound(Now) /\ Now.dbg = dbg /\ (~Left => Now.emu = core)
      /\ IsList(list.specs) /\ list.dump \in Dumps
      /\ (Left => "core" \in astray /\ "list" \in astray)
      /\ (~Left => dbg.hash = list.dump)
  BY <1>1, NowSound DEF SessionInv, ListOK, Left
<1>3. Shows(dbg.applied, list.specs)
  BY <1>1 DEF SessionInv, Phase
<1>4. /\ Sound(y) /\ (Matched(Now.emu, dbg.applied) => Matched(y.emu, y.dbg.applied))
      /\ y.dbg.hash = dbg.hash /\ y.dbg.specs = list.specs /\ y.dbg.applied = dbg.applied
      /\ y.emu.codes = Broken(list.specs)
      /\ \A i \in DOMAIN dbg.applied : HitsIn(y.emu, y.dbg, i) = HitsIn(Now.emu, dbg, i)
  BY <1>2, BreakStep
<1>5. y.dbg.hits = dbg.hits
  BY <1>2 DEF Break, SessionInv, IsSession
<1> HIDE DEF y
<1>6. Syncing(y)
  BY <1>1, <1>4 DEF Syncing
<1>7. ListOK' /\ list'.at = "idle"
  BY <1>1, NoChangeOK
<1>8. SavedOK' /\ saved'[list.dump] = list.specs
  BY <1>1, <1>2 DEF SessionInv, SavedOK
<1>9. Settled' /\ Phase'
  BY <1>1, <1>2, <1>3, <1>4, <1>7, <1>8 DEF Settled, Phase
<1>10. "core" \notin astray' => Matched(core', dbg'.applied)
  BY <1>1, <1>2, <1>4 DEF SessionInv
<1>11. Survives
  <2>1. CASE Left
    BY <1>1, <1>4, <1>5, <2>1, SameSurvives
  <2>2. CASE ~Left
    <3>1. \A i \in DOMAIN dbg.applied :
            i \in DOMAIN dbg'.applied /\ HitsIn(core', dbg', i) = HitsIn(core, dbg, i)
      BY <1>1, <1>2, <1>4, <2>2
    <3>2. \A i \in DOMAIN dbg.applied : HitsIn(core, dbg, i) \in Int
      BY HitsType DEF SessionInv
    <3>3. \A i \in DOMAIN dbg.applied :
            i \in DOMAIN dbg'.applied /\ HitsIn(core', dbg', i) >= HitsIn(core, dbg, i)
      <4> HIDE DEF HitsIn
      <4> QED BY <3>1, <3>2
    <3> QED BY <3>3 DEF Survives
  <2> QED BY <2>1, <2>2
<1> QED BY <1>6, <1>7, <1>8, <1>9, <1>10, <1>11, SyncingKeeps

---------------------------------------------------------------------------
LEMMA StepSession ==
  ASSUME SessionInv, [Next]_vars
  PROVE  /\ SessionInv'
         /\ "core" \notin astray => Survives \/ Prepare \/ (DropOld /\ KeptSurvive)
<1>1. CASE Driver \/ Exit \/ Status \/ onStopEvent \/ Fetch \/ UNCHANGED vars
  BY <1>1, OthersQuiet, QuietKeeps, QuietSurvives
<1>2. CASE Begin
  <2>1. CASE Opening'
    BY <1>2, <2>1, StartOpens, OpensKeeps
  <2>2. CASE ~Opening'
    <3>1. CallOK /\ ~Opening /\ UNCHANGED <<open, core, dbg, saved, list, astray>>
      BY <1>2 DEF SessionInv, CallOK, Begin, Starting
    <3>2. Quiet
      BY <1>2, <2>2, <3>1, BeginGoes, StillGrown, StillNoting DEF Quiet
    <3> QED BY <3>2, QuietKeeps, QuietSurvives
  <2> QED BY <2>1, <2>2
<1>3. CASE Call
  BY <1>3, CallQuiet, QuietKeeps, QuietSurvives, StartOpens, OpensKeeps, PrepareKeeps DEF Call
<1>4. CASE SetBreakpoints
  BY <1>4, SetKeeps
<1>5. CASE List
  BY <1>5, KeepKeeps, DropKeeps, AddKeeps, BreakKeeps DEF List
<1> QED BY <1>1, <1>2, <1>3, <1>4, <1>5 DEF Next

THEOREM SessionHolds == Spec => []SessionInv
<1>1. SessionInv /\ [Next]_vars => SessionInv'
  BY StepSession
<1> QED BY <1>1, InitSession, PTL DEF Spec

\* As many breakpoints as entries.
LEMMA OneEach ==
  ASSUME NEW e, NEW a, Matched(e, a), IsFiniteSet(DOMAIN a)
  PROVE  /\ DOMAIN e.bps = {a[i].core : i \in Exec(a)}
         /\ Cardinality(DOMAIN e.bps) = Cardinality(Exec(a))
<1>1. DOMAIN e.bps = {a[i].core : i \in Exec(a)}
  BY DEF Matched
<1>2. IsFiniteSet(Exec(a))
  <2>1. Exec(a) \subseteq DOMAIN a
    BY DEF Exec
  <2> QED BY <2>1, FS_Subset
<1> DEFINE S == Exec(a)
           T == DOMAIN e.bps
           f == [i \in S |-> a[i].core]
<1>3. f \in Bijection(S, T)
  <2>1. f \in [S -> T]
    BY DEF Matched
  <2>2. \A i, j \in S : f[i] = f[j] => i = j
    BY DEF Matched
  <2>3. \A c \in T : \E i \in S : f[i] = c
    BY DEF Matched
  <2> HIDE DEF f, S, T
  <2> QED BY <2>1, <2>2, <2>3 DEF Bijection, Injection, Surjection, IsInjective
<1>4. ExistsBijection(S, T)
  BY <1>3 DEF ExistsBijection
<1> HIDE DEF S, T
<1>5. Cardinality(T) = Cardinality(S)
  BY <1>2, <1>4, FS_Bijection DEF S
<1> QED BY <1>1, <1>5 DEF S, T

\* For all dumps, lists and calls: whenever a machine is open and no change is under way, the
\* emulator breaks exactly where the list says, and the list is the one saved for that dump,
\* but for what a change that missed its machine left behind.
THEOREM ListIsApplied == Spec => []ListApplied
<1>1. SessionInv => ListApplied
  <2> SUFFICES ASSUME SessionInv, open # None, Unlocked, astray = {},
                      NEW exec, exec = {i \in DOMAIN dbg.specs : dbg.specs[i].kind = "exec"}
               PROVE  /\ saved[open] = dbg.specs
                      /\ core.codes = Broken(dbg.specs)
                      /\ DOMAIN core.bps = {dbg.applied[i].core : i \in exec}
                      /\ Cardinality(DOMAIN core.bps) = Cardinality(exec)
                      /\ \A i \in exec :
                           /\ core.bps[dbg.applied[i].core].addr = dbg.specs[i].addr
                           /\ core.bps[dbg.applied[i].core].on = dbg.specs[i].on
    BY DEF ListApplied, InForce
  <2>1. dbg.hash = open /\ saved[open] = dbg.specs /\ core.codes = Broken(dbg.specs)
    BY DEF SessionInv, Owned, Settled
  <2>2. Shows(dbg.applied, dbg.specs)
    BY <2>1 DEF SessionInv, Phase
  <2>3. exec = Exec(dbg.applied)
    BY <2>2 DEF Shows, Exec
  <2>4. IsFiniteSet(DOMAIN dbg.applied) /\ Matched(core, dbg.applied)
    BY DEF SessionInv, IsSession
  <2>5. \A i \in exec : /\ core.bps[dbg.applied[i].core].addr = dbg.specs[i].addr
                        /\ core.bps[dbg.applied[i].core].on = dbg.specs[i].on
    <3>1. \A i \in exec : dbg.applied[i].spec = dbg.specs[i]
      BY <2>2 DEF Shows
    <3> QED BY <2>3, <2>4, <3>1 DEF Matched
  <2>6. /\ DOMAIN core.bps = {dbg.applied[i].core : i \in Exec(dbg.applied)}
        /\ Cardinality(DOMAIN core.bps) = Cardinality(Exec(dbg.applied))
    BY <2>4, OneEach
  <2>7. /\ DOMAIN core.bps = {dbg.applied[i].core : i \in exec}
        /\ Cardinality(DOMAIN core.bps) = Cardinality(exec)
    BY <2>3, <2>6
  <2> QED BY <2>1, <2>5, <2>7
<1> QED BY <1>1, SessionHolds, PTL

\* For the same: while a machine lives, an entry that stays at its target keeps its hits, as
\* long as the ids noted are those of its emulator.
THEOREM HitsStay == Spec => HitsSurvive
<1> DEFINE specs == IF list.at = "idle" THEN dbg.specs ELSE list.specs
           Kinds == \A i \in DOMAIN dbg.applied \cap DOMAIN specs :
                      ( /\ specs[i].kind = dbg.applied[i].spec.kind
                        /\ specs[i].addr = dbg.applied[i].spec.addr )
                      => i \in DOMAIN dbg'.applied /\ infos(i)' >= infos(i)
           Keeps == ~Prepare /\ "core" \notin astray => Kinds
<1>1. SessionInv /\ [Next]_vars => Keeps
  <2> SUFFICES ASSUME SessionInv, [Next]_vars, ~Prepare, "core" \notin astray,
                      NEW i \in DOMAIN dbg.applied \cap DOMAIN specs,
                      specs[i].kind = dbg.applied[i].spec.kind,
                      specs[i].addr = dbg.applied[i].spec.addr
               PROVE  i \in DOMAIN dbg'.applied /\ infos(i)' >= infos(i)
    OBVIOUS
  <2>1. infos(i) = HitsIn(core, dbg, i) /\ infos(i)' = HitsIn(core', dbg', i)
    BY DEF infos, HitsIn
  <2>2. CASE Survives
    BY <2>1, <2>2 DEF Survives
  <2>3. CASE DropOld /\ KeptSurvive
    <3>1. i \in Kept(dbg.applied, list.specs)
      BY <2>3 DEF DropOld, Sync, Kept, sameTarget
    <3> QED BY <2>1, <2>3, <3>1 DEF KeptSurvive
  <2> QED BY <2>2, <2>3, StepSession
<1>2. Spec => [][Keeps]_vars
  <2>1. SessionInv /\ [Next]_vars => [Keeps]_vars
    BY <1>1
  <2> HIDE DEF Keeps
  <2> QED BY <2>1, SessionHolds, PTL DEF Spec
<1> QED BY <1>2 DEF HitsSurvive

=============================================================================
