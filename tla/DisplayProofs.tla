---------------------------- MODULE DisplayProofs ----------------------------
(***************************************************************************)
(* What holds of Display for every panel, memory, transfer and program:    *)
(* writing a saved DMA channel back moves nothing, pushes fill a window in *)
(* order, and a page that is not drawn again shows what the panel shows.   *)
(***************************************************************************)
EXTENDS Display, TLAPS, WellFoundedInduction, SequenceTheorems, FiniteSetTheorems

\* CHCR as any write leaves it starts nothing when it is written again: a transfer sets TE, and
\* one that was refused for its alignment would be refused again.
Inert(c) == ~Starts(c) \/ Unaligned(c)

\* What a world switch can save, and what it has saved.
SwitchInv ==
  /\ dma \in Channel /\ Inert(dma)
  /\ \A c \in saved : c \in Channel /\ Inert(c)

---------------------------------------------------------------------------
\* Any write of CHCR leaves an inert channel.
LEMMA WritesInert ==
  ASSUME NEW c \in Channel, WriteChcr(c)
  PROVE  dma' \in Channel /\ Inert(dma')
<1>1. CASE ~Starts(c) \/ Unaligned(c)
  BY <1>1 DEF WriteChcr, Inert
<1>2. CASE Starts(c) /\ ~Unaligned(c)
  <2>1. dma' = [c EXCEPT !.te = TRUE]
    BY <1>2 DEF WriteChcr
  <2> QED BY <2>1 DEF Channel, Inert, Starts
<1> QED BY <1>1, <1>2

\* The write of an inert channel moves nothing.
LEMMA InertMovesNothing ==
  ASSUME NEW c, Inert(c), WriteChcr(c)
  PROVE  mem' = mem /\ gram' = gram
BY DEF WriteChcr, Inert, lcdVars

\* A world switch saves and restores inert channels only.
LEMMA SwitchStep ==
  ASSUME SwitchInv, [Next]_vars
  PROVE  SwitchInv'
<1> USE DEF SwitchInv
<1>1. ASSUME NEW f \in {"raster", "copies"}, NEW c \in Transfers(f), StartDma(c)
      PROVE  SwitchInv'
  <2>1. c \in Channel
    BY DisplayAssumption
  <2>2. [c EXCEPT !.de = TRUE, !.te = FALSE] \in Channel
    BY <2>1 DEF Channel
  <2> QED BY <1>1, <2>2, WritesInert DEF StartDma
<1>2. CASE SaveWorld
  BY <1>2 DEF SaveWorld
<1>3. CASE RestoreWorld
  BY <1>3, WritesInert DEF RestoreWorld
<1>4. ASSUME UNCHANGED <<dma, saved>> PROVE SwitchInv'
  BY <1>4
<1>5. ASSUME NEW mode, NEW win, SetUp(mode, win) PROVE SwitchInv'
  BY <1>5, <1>4 DEF SetUp, dmaVars
<1>6. ASSUME NEW c, Pixel(c) PROVE SwitchInv'
  BY <1>6, <1>4 DEF Pixel, dmaVars
<1>7. CASE DmaAccepted
  BY <1>7, <1>4 DEF DmaAccepted
<1>8. ASSUME NEW on, NEW light, Light(on, light) PROVE SwitchInv'
  BY <1>8, <1>4 DEF Light, dmaVars
<1>9. ASSUME NEW version, Resume(version) PROVE SwitchInv'
  BY <1>9, <1>4 DEF Resume
<1>10. CASE Snapshot \/ NewMachine \/ AskGen \/ Render \/ Shown
  BY <1>10, <1>4 DEF Snapshot, NewMachine, AskGen, Render, Shown, dmaVars
<1>11. CASE UNCHANGED vars
  BY <1>11, <1>4 DEF vars, dmaVars
<1> QED
  BY <1>1, <1>2, <1>3, <1>5, <1>6, <1>7, <1>8, <1>9, <1>10, <1>11 DEF Next

\* Writing a saved channel back moves nothing in memory or on the panel, whatever the other world
\* transferred meanwhile (DE and TE as they were saved).
THEOREM RestoringIsQuiet == Spec => SwitchQuiet
<1>1. Init => SwitchInv
  BY DEF Init, DmacInit, SwitchInv, Channel, Inert, Starts, Strides, Port
<1>2. ASSUME SwitchInv, [Next]_vars, saved # {}, saved' = {}
      PROVE  mem' = mem /\ gram' = gram
  <2>1. CASE RestoreWorld
    BY <1>2, <2>1, InertMovesNothing DEF RestoreWorld, SwitchInv
  <2>2. CASE UNCHANGED saved
    BY <1>2, <2>2
  <2>3. CASE SaveWorld
    BY <1>2, <2>3 DEF SaveWorld
  <2> QED
    BY <1>2, <2>1, <2>2, <2>3
    DEF Next, vars, dmaVars, SetUp, Pixel, StartDma, DmaAccepted, Light, Snapshot, Resume,
        NewMachine, AskGen, Render, Shown
<1> QED
  BY <1>1, <1>2, SwitchStep, PTL DEF Spec, SwitchQuiet

---------------------------------------------------------------------------
(* Induction, and quotients. *)

Below == {p \in Nat \X Nat : p[1] < p[2]}

LEMMA BelowIsWellFounded == IsWellFoundedOn(Below, Nat)
BY NatLessThanWellFounded DEF OpToRel, Below

\* Induction over a set of numbers, from the least number that is not in it.
LEMMA SetInduction ==
  ASSUME NEW S, 0 \in S, \A n \in Nat : n \in S => n + 1 \in S
  PROVE  \A n \in Nat : n \in S
<1> SUFFICES ASSUME Nat \ S # {} PROVE FALSE
  OBVIOUS
<1>1. PICK n \in Nat \ S : \A m \in Nat \ S : <<m, n>> \notin Below
  BY BelowIsWellFounded, WFMin
<1>2. n # 0 /\ n - 1 \in Nat /\ (n - 1) + 1 = n
  BY <1>1
<1>3. <<n - 1, n>> \in Below
  BY <1>2 DEF Below
<1>4. n - 1 \in S
  BY <1>1, <1>2, <1>3
<1> QED BY <1>1, <1>2, <1>4

LEMMA Quotient ==
  ASSUME NEW d \in Nat \ {0}, NEW n \in Nat, NEW q \in Nat, NEW r \in 0..(d - 1), n = q * d + r
  PROVE  n \div d = q /\ n % d = r
OBVIOUS

LEMMA Division ==
  ASSUME NEW d \in Nat \ {0}, NEW n \in Nat
  PROVE  n \div d \in Nat /\ n % d \in 0..(d - 1) /\ n = (n \div d) * d + (n % d)
OBVIOUS

LEMMA NextRemainder ==
  ASSUME NEW d \in Nat \ {0}, NEW n \in Nat
  PROVE  (n + 1) % d = IF n % d = d - 1 THEN 0 ELSE (n % d) + 1
<1> DEFINE q == n \div d
<1> DEFINE r == n % d
<1>1. q \in Nat /\ r \in 0..(d - 1) /\ n = q * d + r
  BY Division
<1> HIDE DEF q, r
<1>2. CASE r = d - 1
  <2>1. n + 1 = (q + 1) * d + 0 /\ q + 1 \in Nat
    BY <1>1, <1>2
  <2> QED BY <1>2, <2>1, Quotient DEF r
<1>3. CASE r # d - 1
  <2>1. n + 1 = q * d + (r + 1) /\ r + 1 \in 0..(d - 1)
    BY <1>1, <1>3
  <2> DEFINE m == n + 1
  <2> DEFINE t == r + 1
  <2>2. m = q * d + t /\ m \in Nat /\ q \in Nat /\ t \in 0..(d - 1)
    BY <1>1, <2>1
  <2> HIDE DEF m, t
  <2>3. m % d = t
    BY ONLY d \in Nat \ {0}, <2>2, Quotient
  <2> QED BY <1>3, <2>3 DEF m, t, r
<1> QED BY <1>2, <1>3 DEF r

---------------------------------------------------------------------------
(* A window drawn line by line. *)

\* A scan of lines of d cells, e lines in all, goes from place k to place m: along the line, to the
\* start of the next, and from the last back to the first.
ScansTo(d, e, n, k, m) ==
  /\ k % d \in 0..(d - 1) /\ k \div d \in 0..(e - 1)
  /\ m % d = IF k % d = d - 1 THEN 0 ELSE (k % d) + 1
  /\ m \div d = IF k % d # d - 1 THEN k \div d
                ELSE IF k \div d = e - 1 THEN 0 ELSE (k \div d) + 1

LEMMA Scan ==
  ASSUME NEW d \in Nat \ {0}, NEW e \in Nat \ {0}, NEW n \in Nat,
         NEW k, k = n % (d * e), NEW m, m = (n + 1) % (d * e)
  PROVE  ScansTo(d, e, n, k, m)
<1> USE DEF ScansTo
<1> DEFINE a == d * e
<1>1. a \in Nat \ {0}
  OBVIOUS
<1>2. k \in 0..(a - 1) /\ m = IF k = a - 1 THEN 0 ELSE k + 1
  <2> HIDE DEF a
  <2>1. k = n % a /\ m = (n + 1) % a
    BY DEF a
  <2> QED BY <1>1, <2>1, Division, NextRemainder
<1> DEFINE i == k % d
<1> DEFINE j == k \div d
<1>3. i \in 0..(d - 1) /\ j \in Nat /\ k = j * d + i
  <2> HIDE DEF a
  <2>1. k \in Nat
    BY <1>1, <1>2
  <2> QED BY ONLY d \in Nat \ {0}, <2>1, Division DEF i, j
<1> HIDE DEF i, j
<1>4. j \in 0..(e - 1)
  <2>1. CASE j >= e
    <3>1. PICK x \in Nat : j = e + x
      <4>1. j - e \in Nat /\ j = e + (j - e)
        BY <1>3, <2>1
      <4> QED BY <4>1
    <3>2. j * d = a + x * d /\ x * d \in Nat
      BY <3>1
    <3> QED BY <1>1, <1>2, <1>3, <3>2
  <2> QED BY <1>3, <2>1
<1>5. CASE i # d - 1
  <2>1. k # a - 1
    <3>1. PICK y \in Nat : e = j + 1 + y
      <4>1. e - (j + 1) \in Nat /\ e = j + 1 + (e - (j + 1))
        BY <1>4
      <4> QED BY <4>1
    <3>2. a = j * d + d + y * d /\ y * d \in Nat /\ j * d \in Nat
      BY <1>3, <3>1
    <3> QED BY <1>3, <1>5, <3>2
  <2>2. m = j * d + (i + 1) /\ i + 1 \in 0..(d - 1)
    BY <1>2, <1>3, <1>5, <2>1
  <2>3. m \div d = j /\ m % d = i + 1
    BY <1>2, <1>3, <2>2, Quotient
  <2> QED BY <1>3, <1>4, <1>5, <2>3 DEF i, j
<1>6. CASE i = d - 1 /\ j # e - 1
  <2>1. (j + 1) * d = j * d + d /\ j * d \in Nat
    BY <1>3
  <2>2. k # a - 1
    <3>1. PICK y \in Nat : e = j + 2 + y
      <4>1. e - (j + 2) \in Nat /\ e = j + 2 + (e - (j + 2))
        BY <1>4, <1>6
      <4> QED BY <4>1
    <3>2. a = j * d + d + d + y * d /\ y * d \in Nat
      BY <1>3, <3>1
    <3> QED BY <1>3, <1>6, <2>1, <3>2
  <2>3. m = (j + 1) * d + 0 /\ j + 1 \in Nat
    BY <1>2, <1>3, <1>6, <2>1, <2>2
  <2>4. m \div d = j + 1 /\ m % d = 0
    <3> DEFINE q == j + 1
    <3>1. m = q * d + 0 /\ q \in Nat /\ m \in Nat /\ 0 \in 0..(d - 1)
      BY <1>1, <1>2, <2>3
    <3> HIDE DEF q
    <3>2. m \div d = q /\ m % d = 0
      BY ONLY d \in Nat \ {0}, <3>1, Quotient
    <3> QED BY <3>2 DEF q
  <2> QED BY <1>3, <1>4, <1>6, <2>4 DEF i, j
<1>7. CASE i = d - 1 /\ j = e - 1
  <2>1. j * d + d = a
    BY <1>7
  <2>2. m = 0
    BY <1>2, <1>3, <1>7, <2>1
  <2>3. m \div d = 0 /\ m % d = 0
    BY <2>2
  <2> QED BY <1>3, <1>4, <1>7, <2>3 DEF i, j
<1> QED BY <1>5, <1>6, <1>7

---------------------------------------------------------------------------
(* The address counter. *)

LcdStates ==
  [idx : {"R000", "R007", "R202"}, mode : Modes, on : BOOLEAN, win : Windows,
   r200 : Int, r201 : Int, h : Int, v : Int]

\* The cell of the n-th pixel of a raster, for the window and the mode of l.
CellOf(l, n) ==
  LET w == l.win
      wide == w.hea - w.hsa + 1
      high == w.vea - w.vsa + 1
      k == n % (wide * high)
      i == IF l.mode.vFirst THEN k \div high ELSE k % wide
      j == IF l.mode.vFirst THEN k % high ELSE k \div wide IN
  <<IF l.mode.hUp THEN w.hsa + i ELSE w.hea - i, IF l.mode.vUp THEN w.vsa + j ELSE w.vea - j>>

LEMMA WindowSides ==
  ASSUME NEW w \in Windows
  PROVE  /\ w.hsa \in Int /\ w.hea \in Int /\ w.vsa \in Int /\ w.vea \in Int
         /\ w.hea - w.hsa + 1 \in Nat \ {0} /\ w.vea - w.vsa + 1 \in Nat \ {0}
BY LcdAssumption DEF Windows, Columns, Rows

SteppedTo(x, up, first, last, i, d) ==
  Stepped(x, up, first, last) =
    IF i = d - 1 THEN <<IF up THEN first ELSE last, TRUE>>
    ELSE <<IF up THEN first + (i + 1) ELSE last - (i + 1), FALSE>>

\* A step of a coordinate that is i of d places from where the scan of it starts.
LEMMA SteppedPlace ==
  ASSUME NEW first \in Int, NEW last \in Int, NEW d \in Nat \ {0}, d = last - first + 1,
         NEW i \in 0..(d - 1), NEW up \in BOOLEAN, NEW x, x = IF up THEN first + i ELSE last - i
  PROVE  SteppedTo(x, up, first, last, i, d)
<1>1. CASE up
  <2>1. (x >= last) = (i = d - 1) /\ x + 1 = first + (i + 1)
    BY <1>1
  <2>2. Stepped(x, up, first, last) = IF x >= last THEN <<first, TRUE>> ELSE <<x + 1, FALSE>>
    BY <1>1 DEF Stepped
  <2> QED BY <1>1, <2>1, <2>2 DEF SteppedTo
<1>2. CASE ~up
  <2>1. (x <= first) = (i = d - 1) /\ x - 1 = last - (i + 1)
    BY <1>2
  <2>2. Stepped(x, up, first, last) = IF x <= first THEN <<last, TRUE>> ELSE <<x - 1, FALSE>>
    BY <1>2 DEF Stepped
  <2> QED BY <1>2, <2>1, <2>2 DEF SteppedTo
<1> QED BY <1>1, <1>2

\* One pixel moves the address from its cell in the raster to the next.
LEMMA NextCell ==
  ASSUME NEW l \in LcdStates, NEW n \in Nat, <<l.h, l.v>> = CellOf(l, n)
  PROVE  /\ Advanced(l) \in LcdStates /\ Advanced(l).mode = l.mode /\ Advanced(l).win = l.win
         /\ <<Advanced(l).h, Advanced(l).v>> = CellOf(l, n + 1)
<1> DEFINE w == l.win
<1> DEFINE wide == w.hea - w.hsa + 1
<1> DEFINE high == w.vea - w.vsa + 1
<1> DEFINE k == n % (wide * high)
<1> DEFINE m == (n + 1) % (wide * high)
<1> DEFINE I(x) == IF l.mode.vFirst THEN x \div high ELSE x % wide
<1> DEFINE J(x) == IF l.mode.vFirst THEN x % high ELSE x \div wide
<1> DEFINE H(i) == IF l.mode.hUp THEN w.hsa + i ELSE w.hea - i
<1> DEFINE V(j) == IF l.mode.vUp THEN w.vsa + j ELSE w.vea - j
<1>1. /\ w.hsa \in Int /\ w.hea \in Int /\ w.vsa \in Int /\ w.vea \in Int
      /\ wide \in Nat \ {0} /\ high \in Nat \ {0} /\ wide * high = high * wide
  <2>1. l.win \in Windows
    BY DEF LcdStates
  <2> QED BY <2>1, WindowSides
<1>2. l.mode.hUp \in BOOLEAN /\ l.mode.vUp \in BOOLEAN /\ l.mode.vFirst \in BOOLEAN
  BY DEF LcdStates, Modes
<1>3. CellOf(l, n) = <<H(I(k)), V(J(k))>> /\ CellOf(l, n + 1) = <<H(I(m)), V(J(m))>>
  BY DEF CellOf
<1>4. l.h = H(I(k)) /\ l.v = V(J(k))
  BY <1>3
<1> DEFINE i == I(k)
<1> DEFINE j == J(k)
<1> DEFINE ii == I(m)
<1> DEFINE jj == J(m)
<1>5. /\ i \in 0..(wide - 1) /\ j \in 0..(high - 1)
      /\ l.mode.vFirst => /\ jj = IF j = high - 1 THEN 0 ELSE j + 1
                          /\ ii = IF j # high - 1 THEN i ELSE IF i = wide - 1 THEN 0 ELSE i + 1
      /\ ~l.mode.vFirst => /\ ii = IF i = wide - 1 THEN 0 ELSE i + 1
                           /\ jj = IF i # wide - 1 THEN j ELSE IF j = high - 1 THEN 0 ELSE j + 1
  <2>1. CASE l.mode.vFirst
    <3>1. i = k \div high /\ j = k % high /\ ii = m \div high /\ jj = m % high
      BY <2>1
    <3>2. k = n % (high * wide) /\ m = (n + 1) % (high * wide)
      BY <1>1
    <3> HIDE DEF wide, high, k, m, i, j, ii, jj
    <3>3. ScansTo(high, wide, n, k, m)
      BY ONLY <1>1, <3>2, Scan, n \in Nat
    <3> QED BY ONLY <2>1, <3>1, <3>3 DEF ScansTo
  <2>2. CASE ~l.mode.vFirst
    <3>1. i = k % wide /\ j = k \div wide /\ ii = m % wide /\ jj = m \div wide
      BY <2>2
    <3>2. k = n % (wide * high) /\ m = (n + 1) % (wide * high)
      OBVIOUS
    <3> HIDE DEF wide, high, k, m, i, j, ii, jj
    <3>3. ScansTo(wide, high, n, k, m)
      BY ONLY <1>1, <3>2, Scan, n \in Nat
    <3> QED BY ONLY <2>2, <3>1, <3>3 DEF ScansTo
  <2> QED BY <1>2, <2>1, <2>2
<1> HIDE DEF i, j, ii, jj
<1> DEFINE sh == Stepped(l.h, l.mode.hUp, w.hsa, w.hea)
<1> DEFINE sv == Stepped(l.v, l.mode.vUp, w.vsa, w.vea)
<1>6. sh = IF i = wide - 1 THEN <<H(0), TRUE>> ELSE <<H(i + 1), FALSE>>
  <2>1. l.h = IF l.mode.hUp THEN w.hsa + i ELSE w.hea - i
    BY <1>4 DEF i
  <2> DEFINE first == w.hsa
  <2> DEFINE last == w.hea
  <2> DEFINE up == l.mode.hUp
  <2> DEFINE x == l.h
  <2> DEFINE d == wide
  <2>2. /\ first \in Int /\ last \in Int /\ d \in Nat \ {0} /\ d = last - first + 1
        /\ i \in 0..(d - 1) /\ up \in BOOLEAN /\ x = IF up THEN first + i ELSE last - i
    BY <1>1, <1>2, <1>5, <2>1
  <2>3. SteppedTo(x, up, first, last, i, d)
    <3> HIDE DEF first, last, up, x, d
    <3> QED BY ONLY <2>2, SteppedPlace
  <2>4. H(0) = (IF up THEN first ELSE last) /\ H(i + 1) = IF up THEN first + (i + 1) ELSE last - (i + 1)
    BY <1>1
  <2> HIDE DEF H, first, last, up
  <2>5. sh = Stepped(x, up, first, last) /\ wide = d
    BY DEF first, last, up
  <2> HIDE DEF sh, x, d
  <2> QED BY <2>3, <2>4, <2>5 DEF SteppedTo
<1>7. sv = IF j = high - 1 THEN <<V(0), TRUE>> ELSE <<V(j + 1), FALSE>>
  <2>1. l.v = IF l.mode.vUp THEN w.vsa + j ELSE w.vea - j
    BY <1>4 DEF j
  <2> DEFINE first == w.vsa
  <2> DEFINE last == w.vea
  <2> DEFINE up == l.mode.vUp
  <2> DEFINE x == l.v
  <2> DEFINE d == high
  <2>2. /\ first \in Int /\ last \in Int /\ d \in Nat \ {0} /\ d = last - first + 1
        /\ j \in 0..(d - 1) /\ up \in BOOLEAN /\ x = IF up THEN first + j ELSE last - j
    BY <1>1, <1>2, <1>5, <2>1
  <2>3. SteppedTo(x, up, first, last, j, d)
    <3> HIDE DEF first, last, up, x, d
    <3> QED BY ONLY <2>2, SteppedPlace
  <2>4. V(0) = (IF up THEN first ELSE last) /\ V(j + 1) = IF up THEN first + (j + 1) ELSE last - (j + 1)
    BY <1>1
  <2> HIDE DEF V, first, last, up
  <2>5. sv = Stepped(x, up, first, last) /\ high = d
    BY DEF first, last, up
  <2> HIDE DEF sv, x, d
  <2> QED BY <2>3, <2>4, <2>5 DEF SteppedTo
<1>8. l.h = H(i) /\ l.v = V(j) /\ CellOf(l, n + 1) = <<H(ii), V(jj)>>
  BY <1>3, <1>4 DEF i, j, ii, jj
<1> DEFINE nh == IF ~l.mode.vFirst \/ sv[2] THEN sh[1] ELSE l.h
<1> DEFINE nv == IF l.mode.vFirst \/ sh[2] THEN sv[1] ELSE l.v
<1>9. Advanced(l) = [l EXCEPT !.h = nh, !.v = nv]
  BY DEF Advanced
<1>10. nh = H(ii) /\ nv = V(jj)
  <2> HIDE DEF wide, high, H, V, sh, sv
  <2>1. CASE l.mode.vFirst
    <3>1. nv = sv[1] /\ nh = IF j = high - 1 THEN sh[1] ELSE l.h
      <4>1. CASE j = high - 1
        BY <1>7, <2>1, <4>1
      <4>2. CASE j # high - 1
        BY <1>7, <2>1, <4>2
      <4> QED BY <4>1, <4>2
    <3> HIDE DEF nh, nv
    <3> QED BY <1>5, <1>6, <1>7, <1>8, <2>1, <3>1
  <2>2. CASE ~l.mode.vFirst
    <3>1. nh = sh[1] /\ nv = IF i = wide - 1 THEN sv[1] ELSE l.v
      <4>1. CASE i = wide - 1
        BY <1>6, <2>2, <4>1
      <4>2. CASE i # wide - 1
        BY <1>6, <2>2, <4>2
      <4> QED BY <4>1, <4>2
    <3> HIDE DEF nh, nv
    <3> QED BY <1>5, <1>6, <1>7, <1>8, <2>2, <3>1
  <2> QED BY <1>2, <2>1, <2>2
<1>11. nh \in Int /\ nv \in Int
  <2>1. ii \in Int /\ jj \in Int
    BY <1>1, <1>2, <1>5
  <2> HIDE DEF nh, nv
  <2> QED BY <1>1, <1>2, <1>10, <2>1
<1> HIDE DEF nh, nv, w, wide, high, H, V
<1>12. Advanced(l) \in LcdStates /\ Advanced(l).mode = l.mode /\ Advanced(l).win = l.win
  BY <1>9, <1>11 DEF LcdStates
<1>13. Advanced(l).h = nh /\ Advanced(l).v = nv
  BY <1>9 DEF LcdStates
<1> QED BY <1>8, <1>10, <1>12, <1>13

---------------------------------------------------------------------------
(* Streams of pixels. *)

OnCells(g) == g = [c \in Cells |-> g[c]]

\* The counter and the picture after one pixel, and f: what they are after each pixel of px.
Drawn(s, c) ==
  <<Advanced(s[1]),
    IF <<s[1].h, s[1].v>> \in Cells THEN [s[2] EXCEPT ![<<s[1].h, s[1].v>>] = c] ELSE s[2]>>

Drawing(f, l, g, px, n) == f = [i \in 0..n |-> IF i = 0 THEN <<l, g>> ELSE Drawn(f[i - 1], px[i])]

LEMMA DrawingExists ==
  ASSUME NEW l, NEW g, NEW px, NEW n \in Nat
  PROVE  \E f : Drawing(f, l, g, px, n)
<1> DEFINE Good == {m \in Nat : \E f : Drawing(f, l, g, px, m)}
<1>1. 0 \in Good
  <2> DEFINE f == [i \in 0..0 |-> <<l, g>>]
  <2>1. f = [i \in 0..0 |-> IF i = 0 THEN <<l, g>> ELSE Drawn(f[i - 1], px[i])]
    OBVIOUS
  <2> QED BY <2>1 DEF Drawing
<1>2. ASSUME NEW m \in Nat, m \in Good PROVE m + 1 \in Good
  <2>1. PICK f : Drawing(f, l, g, px, m)
    BY <1>2
  <2> DEFINE last == Drawn(f[m], px[m + 1])
  <2> DEFINE h == [i \in 0..(m + 1) |-> IF i = m + 1 THEN last ELSE f[i]]
  <2>2. \A i \in 0..(m + 1) : h[i] = IF i = 0 THEN <<l, g>> ELSE Drawn(h[i - 1], px[i])
    <3> SUFFICES ASSUME NEW i \in 0..(m + 1)
                 PROVE  h[i] = IF i = 0 THEN <<l, g>> ELSE Drawn(h[i - 1], px[i])
      OBVIOUS
    <3>1. CASE i = m + 1
      <4>1. h[i] = last /\ i # 0 /\ i - 1 = m /\ m \in 0..(m + 1) /\ m # m + 1
        BY <3>1
      <4>2. h[m] = f[m]
        BY <4>1
      <4> HIDE DEF h
      <4> QED BY <3>1, <4>1, <4>2
    <3>2. CASE i # m + 1
      <4>1. i \in 0..m /\ h[i] = f[i]
        BY <3>2
      <4>2. f[i] = IF i = 0 THEN <<l, g>> ELSE Drawn(f[i - 1], px[i])
        BY <2>1, <4>1 DEF Drawing
      <4>3. i # 0 => h[i - 1] = f[i - 1]
        BY <4>1
      <4> HIDE DEF h
      <4> QED BY <4>1, <4>2, <4>3
    <3> QED BY <3>1, <3>2
  <2>3. h = [i \in 0..(m + 1) |-> h[i]]
    OBVIOUS
  <2> HIDE DEF h
  <2>4. Drawing(h, l, g, px, m + 1)
    BY <2>2, <2>3 DEF Drawing
  <2> QED BY <2>4
<1> HIDE DEF Good
<1>3. n \in Good
  BY <1>1, <1>2, SetInduction
<1> QED BY <1>3 DEF Good

\* What Streamed returns is the last of a drawing.
LEMMA StreamedIsDrawn ==
  ASSUME NEW l, NEW g, NEW px, Len(px) \in Nat
  PROVE  \E f : Drawing(f, l, g, px, Len(px)) /\ Streamed(l, g, px) = f[Len(px)]
<1> DEFINE n == Len(px)
<1> DEFINE after == CHOOSE f : f = [i \in 0..n |-> IF i = 0 THEN <<l, g>> ELSE Drawn(f[i - 1], px[i])]
<1>1. after = [i \in 0..n |-> IF i = 0 THEN <<l, g>> ELSE Drawn(after[i - 1], px[i])]
  <2>1. PICK f : Drawing(f, l, g, px, n)
    BY DrawingExists
  <2> HIDE DEF n
  <2>2. f = [i \in 0..n |-> IF i = 0 THEN <<l, g>> ELSE Drawn(f[i - 1], px[i])]
    BY <2>1 DEF Drawing
  <2> QED BY <2>2
<1>2. Streamed(l, g, px) = after[n]
  BY DEF Streamed, Drawn
<1> HIDE DEF after
<1> QED BY <1>1, <1>2 DEF Drawing

\* A pixel changes the place of the address and nothing else of the registers.
LEMMA AdvancedState ==
  ASSUME NEW l \in LcdStates
  PROVE  Advanced(l) \in LcdStates /\ Advanced(l).mode = l.mode /\ Advanced(l).win = l.win
<1> DEFINE h == Stepped(l.h, l.mode.hUp, l.win.hsa, l.win.hea)
<1> DEFINE v == Stepped(l.v, l.mode.vUp, l.win.vsa, l.win.vea)
<1> DEFINE nh == IF ~l.mode.vFirst \/ v[2] THEN h[1] ELSE l.h
<1> DEFINE nv == IF l.mode.vFirst \/ h[2] THEN v[1] ELSE l.v
<1>1. /\ l.win \in Windows /\ l.h \in Int /\ l.v \in Int
      /\ l.win.hsa \in Int /\ l.win.hea \in Int /\ l.win.vsa \in Int /\ l.win.vea \in Int
  BY WindowSides DEF LcdStates
<1>2. h[1] \in Int /\ v[1] \in Int
  BY <1>1 DEF Stepped
<1> HIDE DEF h, v
<1>3. nh \in Int /\ nv \in Int
  BY <1>1, <1>2
<1>4. Advanced(l) = [l EXCEPT !.h = nh, !.v = nv]
  BY DEF Advanced, h, v
<1> HIDE DEF nh, nv
<1> QED BY <1>3, <1>4 DEF LcdStates

\* A push keeps the registers' and the picture's types, and goes on with a raster where it is.
LEMMA StreamStates ==
  ASSUME NEW l \in LcdStates, NEW g, OnCells(g), NEW px, Len(px) \in Nat
  PROVE  /\ Streamed(l, g, px)[1] \in LcdStates /\ OnCells(Streamed(l, g, px)[2])
         /\ Streamed(l, g, px)[1].mode = l.mode /\ Streamed(l, g, px)[1].win = l.win
         /\ \A n \in Nat : <<l.h, l.v>> = CellOf(l, n) =>
              <<Streamed(l, g, px)[1].h, Streamed(l, g, px)[1].v>> = CellOf(l, n + Len(px))
<1>1. PICK f : Drawing(f, l, g, px, Len(px)) /\ Streamed(l, g, px) = f[Len(px)]
  BY StreamedIsDrawn
<1> DEFINE Fine(m) ==
  /\ f[m][1] \in LcdStates /\ OnCells(f[m][2])
  /\ f[m][1].mode = l.mode /\ f[m][1].win = l.win
  /\ \A n \in Nat : <<l.h, l.v>> = CellOf(l, n) => <<f[m][1].h, f[m][1].v>> = CellOf(l, n + m)
<1> DEFINE Good == {m \in Nat : m <= Len(px) => Fine(m)}
<1>2. 0 \in Good
  <2>1. f[0] = <<l, g>>
    BY <1>1 DEF Drawing
  <2>2. \A n \in Nat : n + 0 = n
    OBVIOUS
  <2> QED BY <2>1, <2>2
<1>3. ASSUME NEW m \in Nat, m \in Good PROVE m + 1 \in Good
  <2> SUFFICES ASSUME m + 1 <= Len(px) PROVE Fine(m + 1)
    OBVIOUS
  <2>1. f[m + 1] = Drawn(f[m], px[m + 1])
    <3>1. m + 1 \in 0..Len(px) /\ m + 1 # 0 /\ (m + 1) - 1 = m
      OBVIOUS
    <3> QED BY <1>1, <3>1 DEF Drawing
  <2>2. Fine(m)
    BY <1>3
  <2> DEFINE a == f[m][1]
  <2> DEFINE p == f[m][2]
  <2>3. /\ f[m + 1][1] = Advanced(a)
        /\ f[m + 1][2] = IF <<a.h, a.v>> \in Cells THEN [p EXCEPT ![<<a.h, a.v>>] = px[m + 1]] ELSE p
    BY <2>1 DEF Drawn
  <2>4. /\ Advanced(a) \in LcdStates /\ Advanced(a).mode = l.mode /\ Advanced(a).win = l.win
    BY <2>2, AdvancedState
  <2>5. OnCells(f[m + 1][2])
    BY <2>2, <2>3 DEF OnCells
  <2>6. ASSUME NEW n \in Nat, <<l.h, l.v>> = CellOf(l, n)
        PROVE  <<Advanced(a).h, Advanced(a).v>> = CellOf(l, n + (m + 1))
    <3> DEFINE q == n + m
    <3>1. q \in Nat /\ q + 1 = n + (m + 1)
      OBVIOUS
    <3>2. CellOf(a, q) = CellOf(l, q) /\ CellOf(a, q + 1) = CellOf(l, q + 1)
      BY <2>2 DEF CellOf
    <3>3. <<a.h, a.v>> = CellOf(a, q) /\ a \in LcdStates
      BY <2>2, <2>6, <3>2
    <3> HIDE DEF a, q
    <3>4. <<Advanced(a).h, Advanced(a).v>> = CellOf(a, q + 1)
      BY ONLY <3>1, <3>3, NextCell
    <3> QED BY <3>1, <3>2, <3>4
  <2> HIDE DEF a, p
  <2> QED BY <2>3, <2>4, <2>5, <2>6
<1> HIDE DEF Good
<1>4. Len(px) \in Good
  BY <1>2, <1>3, SetInduction
<1> QED BY <1>1, <1>4 DEF Good

---------------------------------------------------------------------------
(* A push of any length, by the CPU or by DMA, goes on where the last one ended. *)

PanelType ==
  /\ lcd \in LcdStates /\ OnCells(gram) /\ raster \in Int
  /\ \A f \in file : f.lcd \in LcdStates /\ OnCells(f.gram)

RasterInv == PanelType /\ RasterOrder /\ SwitchInv

LEMMA CellOfLcd == ASSUME NEW n PROVE RasterCell(n) = CellOf(lcd, n)
BY DEF RasterCell, CellOf, Area

\* A pixel or a stream.
LEMMA PushStep ==
  ASSUME RasterInv, NEW px, Len(px) \in Nat, Push(px), UNCHANGED file
  PROVE  (PanelType /\ RasterOrder)'
<1>1. lcd \in LcdStates /\ OnCells(gram) /\ raster \in Int
  BY DEF RasterInv, PanelType
<1> DEFINE n == Len(px)
<1>2. /\ lcd' = Streamed(lcd, gram, px)[1] /\ gram' = Streamed(lcd, gram, px)[2]
      /\ raster' = IF raster < 0 THEN raster ELSE raster + n
  BY DEF Push
<1>3. /\ lcd' \in LcdStates /\ OnCells(gram') /\ lcd'.mode = lcd.mode /\ lcd'.win = lcd.win
      /\ \A k \in Nat : <<lcd.h, lcd.v>> = CellOf(lcd, k) => <<lcd'.h, lcd'.v>> = CellOf(lcd, k + n)
  BY <1>1, <1>2, StreamStates
<1>4. PanelType'
  BY <1>1, <1>2, <1>3 DEF RasterInv, PanelType, OnCells
<1>5. RasterOrder'
  <2> SUFFICES ASSUME raster' >= 0 PROVE <<lcd'.h, lcd'.v>> = RasterCell(raster)'
    BY DEF RasterOrder
  <2>1. raster \in Nat /\ raster' = raster + n
    BY <1>1, <1>2
  <2>2. <<lcd.h, lcd.v>> = CellOf(lcd, raster)
    BY <2>1, CellOfLcd DEF RasterInv, RasterOrder
  <2>3. <<lcd'.h, lcd'.v>> = CellOf(lcd, raster + n)
    BY <1>3, <2>1, <2>2
  <2>4. RasterCell(raster)' = CellOf(lcd', raster')
    BY DEF RasterCell, CellOf, Area
  <2>5. CellOf(lcd', raster') = CellOf(lcd, raster')
    BY <1>3 DEF CellOf
  <2> QED BY <2>1, <2>3, <2>4, <2>5
<1> QED BY <1>4, <1>5

\* What a transfer streams has a length.
LEMMA StreamHasLength ==
  ASSUME NEW c \in Channel
  PROVE  Len(PanelPixels(c)) \in Nat
<1> DEFINE n == Capped((IF c.tcr = 0 THEN NoCount ELSE c.tcr) * c.unit)
<1> DEFINE B(i) == Byte(mem, c.sar + IF c.from = "fixed" THEN (i - 1) % c.unit ELSE i - 1)
<1>1. n \in Nat
  <2>1. c.tcr \in Nat /\ c.unit \in Nat /\ NoCount \in Nat /\ Cap \in Nat
    BY DmacAssumption DEF Channel
  <2>2. \A p, q \in Nat : p * q \in Nat
    OBVIOUS
  <2> QED BY <2>1, <2>2 DEF Capped
<1>2. PanelPixels(c) = [i \in 1..n |-> B(i)]
  BY DEF PanelPixels
<1> DEFINE V == {B(i) : i \in 1..n}
<1>3. [i \in 1..n |-> B(i)] \in [1..n -> V]
  OBVIOUS
<1> HIDE DEF n, V, B
<1>4. PanelPixels(c) \in Seq(V)
  BY <1>1, <1>2, <1>3
<1> QED BY <1>4, LenProperties

LEMMA ChcrStep ==
  ASSUME RasterInv, NEW c \in Channel, WriteChcr(c), UNCHANGED file
  PROVE  (PanelType /\ RasterOrder)'
<1>1. CASE UNCHANGED lcdVars
  <2>1. RasterCell(raster)' = RasterCell(raster)
    BY <1>1 DEF lcdVars, RasterCell, Area
  <2> QED BY <1>1, <2>1 DEF lcdVars, RasterInv, PanelType, RasterOrder, OnCells
<1>2. CASE Push(PanelPixels(c))
  BY <1>2, StreamHasLength, PushStep
<1> QED BY <1>1, <1>2 DEF WriteChcr

\* The registers while a window is half set.
Registers ==
  [idx : {"R000", "R003", "R007", "R200", "R201", "R202", "R210", "R211", "R212", "R213"},
   mode : Modes, on : BOOLEAN,
   win : [hsa : Columns, hea : Columns, vsa : Rows, vea : Rows],
   r200 : Int, r201 : Int, h : Int, v : Int]

LEMMA AddressedState ==
  ASSUME NEW l \in Registers
  PROVE  /\ Addressed(l) \in Registers /\ Addressed(l).mode = l.mode /\ Addressed(l).win = l.win
         /\ Addressed(l).r200 = l.r200 /\ Addressed(l).r201 = l.r201
<1>1. PICK x \in Int, y \in Int : Addressed(l) = [l EXCEPT !.h = x, !.v = y]
  <2>1. /\ l.win.hsa \in Int /\ l.win.hea \in Int /\ l.win.vsa \in Int /\ l.win.vea \in Int
        /\ l.r200 \in Int /\ l.r201 \in Int
    BY DEF Columns, Rows, Registers
  <2>2. CASE ~l.mode.org
    BY <2>1, <2>2 DEF Addressed
  <2>3. CASE l.mode.org
    <3> DEFINE x == IF l.mode.hUp THEN l.win.hsa + l.r200 ELSE l.win.hea - l.r200
    <3> DEFINE y == IF l.mode.vUp THEN l.win.vsa + l.r201 ELSE l.win.vea - l.r201
    <3>1. x \in Int /\ y \in Int
      BY <2>1
    <3>2. Addressed(l) = [l EXCEPT !.h = x, !.v = y]
      BY <2>3 DEF Addressed
    <3> HIDE DEF x, y
    <3> QED BY <3>1, <3>2
  <2> QED BY <2>2, <2>3
<1> QED BY <1>1 DEF Registers

LEMMA WindowRegisters ==
  ASSUME NEW l \in Registers
  PROVE  /\ \A m \in Modes : LET r == Register(l, "R003", m) IN r \in Registers /\ r.mode = m
         /\ \A x \in Columns : LET r == Register(l, "R210", x) IN
              r \in Registers /\ r.mode = l.mode /\ r.win.hsa = x
         /\ \A x \in Columns : LET r == Register(l, "R211", x) IN
              r \in Registers /\ r.mode = l.mode /\ r.win.hsa = l.win.hsa /\ r.win.hea = x
         /\ \A y \in Rows : LET r == Register(l, "R212", y) IN
              /\ r \in Registers /\ r.mode = l.mode
              /\ r.win.hsa = l.win.hsa /\ r.win.hea = l.win.hea /\ r.win.vsa = y
         /\ \A y \in Rows : LET r == Register(l, "R213", y) IN
              /\ r \in Registers /\ r.mode = l.mode
              /\ r.win = [hsa |-> l.win.hsa, hea |-> l.win.hea, vsa |-> l.win.vsa, vea |-> y]
<1>1. ASSUME NEW x \in Modes
      PROVE  LET r == Register(l, "R003", x) IN r \in Registers /\ r.mode = x
  <2> DEFINE r == Register(l, "R003", x)
  <2>1. r = [l EXCEPT !.idx = "R003", !.mode = x]
    BY DEF Register
  <2> HIDE DEF r
  <2>2. r \in Registers /\ r.mode = x
    BY <2>1 DEF Registers
  <2> QED BY <2>2 DEF r
<1>2. ASSUME NEW x \in Columns
      PROVE  LET r == Register(l, "R210", x) IN r \in Registers /\ r.mode = l.mode /\ r.win.hsa = x
  <2> DEFINE r == Register(l, "R210", x)
  <2>1. r = [l EXCEPT !.idx = "R210", !.win.hsa = x]
    BY DEF Register
  <2> HIDE DEF r
  <2>2. r \in Registers /\ r.mode = l.mode /\ r.win.hsa = x
    BY <2>1 DEF Registers
  <2> QED BY <2>2 DEF r
<1>3. ASSUME NEW x \in Columns
      PROVE  LET r == Register(l, "R211", x) IN r \in Registers /\ r.mode = l.mode /\ r.win.hsa = l.win.hsa /\ r.win.hea = x
  <2> DEFINE r == Register(l, "R211", x)
  <2>1. r = [l EXCEPT !.idx = "R211", !.win.hea = x]
    BY DEF Register
  <2> HIDE DEF r
  <2>2. r \in Registers /\ r.mode = l.mode /\ r.win.hsa = l.win.hsa /\ r.win.hea = x
    BY <2>1 DEF Registers
  <2> QED BY <2>2 DEF r
<1>4. ASSUME NEW x \in Rows
      PROVE  LET r == Register(l, "R212", x) IN r \in Registers /\ r.mode = l.mode /\ r.win.hsa = l.win.hsa /\ r.win.hea = l.win.hea /\ r.win.vsa = x
  <2> DEFINE r == Register(l, "R212", x)
  <2>1. r = [l EXCEPT !.idx = "R212", !.win.vsa = x]
    BY DEF Register
  <2> HIDE DEF r
  <2>2. r \in Registers /\ r.mode = l.mode /\ r.win.hsa = l.win.hsa /\ r.win.hea = l.win.hea /\ r.win.vsa = x
    BY <2>1 DEF Registers
  <2> QED BY <2>2 DEF r
<1>5. ASSUME NEW y \in Rows
      PROVE  LET r == Register(l, "R213", y) IN
               /\ r \in Registers /\ r.mode = l.mode
               /\ r.win = [hsa |-> l.win.hsa, hea |-> l.win.hea, vsa |-> l.win.vsa, vea |-> y]
  <2> DEFINE w == [hsa |-> l.win.hsa, hea |-> l.win.hea, vsa |-> l.win.vsa, vea |-> y]
  <2>1. [l.win EXCEPT !.vea = y] = w /\ w \in [hsa : Columns, hea : Columns, vsa : Rows, vea : Rows]
    BY DEF Registers
  <2>2. Register(l, "R213", y) = [l EXCEPT !.idx = "R213", !.win = w]
    BY <2>1 DEF Register
  <2> HIDE DEF w
  <2>3. Register(l, "R213", y) \in Registers /\ Register(l, "R213", y).mode = l.mode
        /\ Register(l, "R213", y).win = w
    BY <2>1, <2>2 DEF Registers
  <2> QED BY <2>3 DEF w
<1> QED BY <1>1, <1>2, <1>3, <1>4, <1>5

LEMMA AddressRegisters ==
  ASSUME NEW l \in Registers
  PROVE  /\ LET r == Register(l, "R200", 0) IN
              r \in Registers /\ r.mode = l.mode /\ r.win = l.win /\ r.r200 = 0
         /\ LET r == Register(l, "R201", 0) IN
              /\ r \in Registers /\ r.mode = l.mode /\ r.win = l.win
              /\ l.mode.org /\ l.r200 = 0 =>
                   /\ r.h = IF l.mode.hUp THEN l.win.hsa + 0 ELSE l.win.hea - 0
                   /\ r.v = IF l.mode.vUp THEN l.win.vsa + 0 ELSE l.win.vea - 0
<1>1. LET r == Register(l, "R200", 0) IN
        r \in Registers /\ r.mode = l.mode /\ r.win = l.win /\ r.r200 = 0
  <2> DEFINE z == 0
  <2> DEFINE k == [l EXCEPT !.idx = "R200", !.r200 = z]
  <2>1. /\ Register(l, "R200", 0) = Addressed(k)
        /\ k = [l EXCEPT !.idx = "R200", !.r200 = z] /\ z = 0 /\ z \in Int
    BY DEF Register
  <2> HIDE DEF k, z
  <2>2. k \in Registers /\ k.mode = l.mode /\ k.win = l.win /\ k.r200 = 0
    BY <2>1 DEF Registers
  <2> QED BY <2>1, <2>2, AddressedState
<1>2. LET r == Register(l, "R201", 0) IN
        /\ r \in Registers /\ r.mode = l.mode /\ r.win = l.win
        /\ l.mode.org /\ l.r200 = 0 =>
             /\ r.h = IF l.mode.hUp THEN l.win.hsa + 0 ELSE l.win.hea - 0
             /\ r.v = IF l.mode.vUp THEN l.win.vsa + 0 ELSE l.win.vea - 0
  <2> DEFINE z == 0
  <2> DEFINE k == [l EXCEPT !.idx = "R201", !.r201 = z]
  <2>1. /\ Register(l, "R201", 0) = Addressed(k)
        /\ k = [l EXCEPT !.idx = "R201", !.r201 = z] /\ z = 0 /\ z \in Int
    BY DEF Register
  <2> HIDE DEF k, z
  <2>2. k \in Registers /\ k.mode = l.mode /\ k.win = l.win /\ k.r200 = l.r200 /\ k.r201 = 0
    BY <2>1 DEF Registers
  <2> DEFINE x == IF l.mode.hUp THEN l.win.hsa + 0 ELSE l.win.hea - 0
  <2> DEFINE y == IF l.mode.vUp THEN l.win.vsa + 0 ELSE l.win.vea - 0
  <2>3. k.mode.org /\ k.r200 = 0 =>
          Addressed(k) = [k EXCEPT !.h = x, !.v = y]
    BY <2>2 DEF Addressed
  <2>4. k.mode.org /\ k.r200 = 0 =>
          Addressed(k).h = x /\ Addressed(k).v = y
    <3> HIDE DEF x, y
    <3> QED BY <2>2, <2>3 DEF Registers
  <2> QED BY <2>1, <2>2, <2>4, AddressedState
<1> QED BY <1>1, <1>2

\* The preparation of a push puts the address at the origin of the window.
LEMMA SetUpState ==
  ASSUME NEW mode \in Modes, NEW win \in Windows, lcd \in LcdStates, SetUp(mode, win)
  PROVE  /\ lcd' \in LcdStates /\ lcd'.mode = mode /\ lcd'.win = win
         /\ mode.org => <<lcd'.h, lcd'.v>> = CellOf(lcd', 0)
<1> DEFINE l1 == Register(lcd, "R003", mode)
<1> DEFINE l2 == Register(l1, "R210", win.hsa)
<1> DEFINE l3 == Register(l2, "R211", win.hea)
<1> DEFINE l4 == Register(l3, "R212", win.vsa)
<1> DEFINE l5 == Register(l4, "R213", win.vea)
<1> DEFINE l6 == Register(l5, "R200", 0)
<1> DEFINE l7 == Register(l6, "R201", 0)
<1>1. lcd' = [l7 EXCEPT !.idx = "R202"]
  BY DEF SetUp, Across, Down, AtOrigin
<1> HIDE DEF l1, l2, l3, l4, l5, l6, l7
<1>2. /\ lcd \in Registers
      /\ win.hsa \in Columns /\ win.hea \in Columns /\ win.vsa \in Rows /\ win.vea \in Rows
      /\ win = [hsa |-> win.hsa, hea |-> win.hea, vsa |-> win.vsa, vea |-> win.vea]
  <2>1. \A w \in Windows : w \in [hsa : Columns, hea : Columns, vsa : Rows, vea : Rows]
    BY DEF Windows
  <2>2. lcd \in Registers
    BY <2>1 DEF LcdStates, Registers
  <2>3. win \in [hsa : Columns, hea : Columns, vsa : Rows, vea : Rows]
    BY <2>1
  <2> QED BY <2>2, <2>3
<1>3. l1 \in Registers /\ l1.mode = mode
  BY <1>2, WindowRegisters DEF l1
<1>4. l2 \in Registers /\ l2.mode = mode /\ l2.win.hsa = win.hsa
  BY <1>2, <1>3, WindowRegisters DEF l2
<1>5. l3 \in Registers /\ l3.mode = mode /\ l3.win.hsa = win.hsa /\ l3.win.hea = win.hea
  BY <1>2, <1>4, WindowRegisters DEF l3
<1>6. /\ l4 \in Registers /\ l4.mode = mode
      /\ l4.win.hsa = win.hsa /\ l4.win.hea = win.hea /\ l4.win.vsa = win.vsa
  BY <1>2, <1>5, WindowRegisters DEF l4
<1>7. l5 \in Registers /\ l5.mode = mode /\ l5.win = win
  <2>1. /\ l5 \in Registers /\ l5.mode = mode
        /\ l5.win = [hsa |-> l4.win.hsa, hea |-> l4.win.hea, vsa |-> l4.win.vsa, vea |-> win.vea]
    BY <1>2, <1>6, WindowRegisters DEF l5
  <2> QED BY <1>2, <1>6, <2>1
<1>8. l6 \in Registers /\ l6.mode = mode /\ l6.win = win /\ l6.r200 = 0
  BY <1>7, AddressRegisters DEF l6
<1>9. /\ l7 \in Registers /\ l7.mode = mode /\ l7.win = win
      /\ mode.org => /\ l7.h = IF mode.hUp THEN win.hsa + 0 ELSE win.hea - 0
                     /\ l7.v = IF mode.vUp THEN win.vsa + 0 ELSE win.vea - 0
  BY <1>8, AddressRegisters DEF l7
<1>10. /\ lcd' \in Registers /\ lcd'.mode = mode /\ lcd'.win = win /\ lcd'.idx = "R202"
       /\ lcd'.h = l7.h /\ lcd'.v = l7.v
  BY <1>1, <1>9 DEF Registers
<1>11. lcd' \in LcdStates
  BY <1>10 DEF LcdStates, Registers
<1>12. ASSUME mode.org PROVE <<lcd'.h, lcd'.v>> = CellOf(lcd', 0)
  <2> DEFINE wide == win.hea - win.hsa + 1
  <2> DEFINE high == win.vea - win.vsa + 1
  <2>2. wide \in Nat \ {0} /\ high \in Nat \ {0}
    BY WindowSides
  <2>3. wide * high \in Nat \ {0}
    <3> HIDE DEF wide, high
    <3> QED BY <2>2
  <2> DEFINE area == wide * high
  <2>4. 0 % area = 0 /\ 0 \div high = 0 /\ 0 \div wide = 0 /\ 0 % high = 0 /\ 0 % wide = 0
    <3> HIDE DEF wide, high, area
    <3> QED BY <2>2, <2>3 DEF area
  <2>5. CellOf(lcd', 0) = <<IF mode.hUp THEN win.hsa + 0 ELSE win.hea - 0,
                            IF mode.vUp THEN win.vsa + 0 ELSE win.vea - 0>>
    BY <1>10, <2>4 DEF CellOf
  <2> QED BY <1>9, <1>10, <1>12, <2>5
<1> QED BY <1>10, <1>12, <1>11

LEMMA BootState ==
  ASSUME NEW i \in {"R000", "R202"}
  PROVE  BootDefaults(i, 0, 0) \in LcdStates /\ BootDefaults(i, 0, 0).mode \in Modes /\ Whole \in Windows
<1>1. Whole \in Windows
  BY LcdAssumption DEF Whole, Windows, Columns, Rows
<1>2. BootDefaults(i, 0, 0).mode \in Modes
  BY DEF BootDefaults, Modes
<1>3. BootDefaults(i, 0, 0) \in LcdStates
  BY <1>1 DEF BootDefaults, LcdStates, Modes
<1> QED BY <1>1, <1>2, <1>3

LEMMA RasterSame ==
  ASSUME RasterInv, UNCHANGED <<gram, raster, file>>, lcd' \in LcdStates,
         lcd'.h = lcd.h, lcd'.v = lcd.v, lcd'.win = lcd.win, lcd'.mode = lcd.mode
  PROVE  (PanelType /\ RasterOrder)'
<1>1. RasterCell(raster)' = RasterCell(raster)
  BY DEF RasterCell, Area
<1> QED BY <1>1 DEF RasterInv, PanelType, RasterOrder, OnCells

LEMMA RasterStep ==
  ASSUME RasterInv, [Next]_vars
  PROVE  RasterInv'
<1> SUFFICES (PanelType /\ RasterOrder)'
  BY SwitchStep DEF RasterInv
<1>1. PanelType /\ SwitchInv
  BY DEF RasterInv
<1>2. ASSUME NEW mode \in Modes, NEW win \in Windows, SetUp(mode, win)
      PROVE  (PanelType /\ RasterOrder)'
  <2>1. /\ lcd' \in LcdStates /\ (mode.org => <<lcd'.h, lcd'.v>> = CellOf(lcd', 0))
        /\ gram' = gram /\ file' = file /\ raster' = IF mode.org THEN 0 ELSE -1
    BY <1>1, <1>2, SetUpState DEF PanelType, SetUp, HostSame
  <2>2. mode.org \in BOOLEAN
    BY DEF Modes
  <2>3. PanelType'
    BY <1>1, <2>1, <2>2 DEF PanelType, OnCells
  <2>4. RasterCell(raster)' = CellOf(lcd', raster')
    BY DEF RasterCell, CellOf, Area
  <2> QED BY <2>1, <2>2, <2>3, <2>4 DEF RasterOrder
<1>3. ASSUME NEW c, Pixel(c)
      PROVE  (PanelType /\ RasterOrder)'
  <2>1. Len(<<c>>) \in Nat /\ Push(<<c>>) /\ UNCHANGED file
    BY <1>3 DEF Pixel, HostSame
  <2> QED BY <2>1, PushStep
<1>4. ASSUME NEW on \in Lights, NEW light \in Lights, Light(on, light)
      PROVE  (PanelType /\ RasterOrder)'
  <2>1. lcd' = [lcd EXCEPT !.idx = "R007", !.on = on] /\ UNCHANGED <<gram, raster, file>>
    BY <1>4 DEF Light, HostSame, Register
  <2>2. on \in BOOLEAN
    BY DisplayAssumption
  <2>3. /\ lcd' \in LcdStates /\ lcd'.h = lcd.h /\ lcd'.v = lcd.v
        /\ lcd'.win = lcd.win /\ lcd'.mode = lcd.mode
    BY <1>1, <2>1, <2>2 DEF PanelType, LcdStates
  <2> QED BY <2>1, <2>3, RasterSame
<1>5. ASSUME NEW f \in {"raster", "copies"}, NEW c \in Transfers(f), StartDma(c)
      PROVE  (PanelType /\ RasterOrder)'
  <2>1. c \in Channel
    BY DisplayAssumption
  <2>2. [c EXCEPT !.de = TRUE, !.te = FALSE] \in Channel
    BY <2>1 DEF Channel
  <2> QED BY <1>5, <2>2, ChcrStep DEF StartDma, HostSame
<1>6. CASE RestoreWorld
  BY <1>1, <1>6, ChcrStep DEF RestoreWorld, HostSame, SwitchInv
<1>7. CASE Snapshot
  <2>1. UNCHANGED <<lcd, gram, raster>> /\ file' = {[lcd |-> lcd, gram |-> gram]}
    BY <1>7 DEF Snapshot, lcdVars
  <2>2. PanelType'
    BY <1>1, <2>1 DEF PanelType, OnCells
  <2>3. RasterCell(raster)' = RasterCell(raster)
    BY <2>1 DEF RasterCell, Area
  <2> QED BY <2>1, <2>2, <2>3 DEF RasterInv, RasterOrder
<1>8. ASSUME NEW version, Resume(version)
      PROVE  (PanelType /\ RasterOrder)'
  <2>1. PICK f \in file : /\ lcd' = RestoredLcd(f.lcd, version)
                          /\ gram' = IF version = "now" THEN f.gram ELSE Seeded
    BY <1>8 DEF Resume
  <2>2. raster' = -1 /\ file' = file
    BY <1>8 DEF Resume
  <2>3. f.lcd \in LcdStates /\ OnCells(f.gram)
    BY <1>1 DEF PanelType
  <2>4. [f.lcd EXCEPT !.on = TRUE] \in LcdStates
    BY <2>3 DEF LcdStates
  <2>5. lcd' \in LcdStates
    BY <2>1, <2>3, <2>4, BootState DEF RestoredLcd
  <2>6. OnCells(Seeded)
    BY DEF OnCells, Seeded
  <2>7. OnCells(gram')
    BY <2>1, <2>3, <2>6
  <2> QED BY <1>1, <2>2, <2>5, <2>7 DEF PanelType, RasterOrder, OnCells
<1>9. CASE NewMachine
  <2>1. /\ lcd' = BootDefaults("R000", 0, 0) /\ gram' = [c \in Cells |-> Black]
        /\ raster' = -1 /\ file' = file
    BY <1>9 DEF NewMachine
  <2>2. lcd' \in LcdStates /\ OnCells(gram')
    BY <2>1, BootState DEF OnCells
  <2> QED BY <1>1, <2>1, <2>2 DEF PanelType, RasterOrder, OnCells
<1>10. CASE UNCHANGED <<lcd, gram, raster, file>>
  BY <1>1, <1>10, RasterSame DEF PanelType
<1>11. CASE SaveWorld \/ DmaAccepted \/ AskGen \/ Render \/ Shown \/ UNCHANGED vars
  BY <1>10, <1>11 DEF SaveWorld, DmaAccepted, AskGen, Render, Shown, vars, lcdVars, HostSame
<1>12. BootDefaults("R202", 0, 0).mode \in Modes /\ Whole \in Windows
  BY BootState
<1> QED
  BY <1>2, <1>3, <1>4, <1>5, <1>6, <1>7, <1>8, <1>9, <1>11, <1>12 DEF Next

\* Pushes since the address was set at the window's origin fill its cells in order and come back to
\* the origin, in all eight entry modes, for any window, from the CPU and by DMA (doGRAMWrite).
THEOREM RastersStayInOrder == Spec => []RasterOrder
<1>1. Init => RasterInv
  <2> SUFFICES ASSUME Init PROVE RasterInv
    OBVIOUS
  <2>1. lcd \in LcdStates
    BY BootState DEF Init, LcdInit
  <2>2. SwitchInv
    BY DEF Init, DmacInit, SwitchInv, Channel, Inert, Starts, Strides, Port
  <2> QED BY <2>1, <2>2 DEF Init, LcdInit, RasterInv, PanelType, OnCells, RasterOrder
<1>2. RasterInv => RasterOrder
  BY DEF RasterInv
<1> QED BY <1>1, <1>2, RasterStep, PTL DEF Spec

---------------------------------------------------------------------------
(* What the page shows. *)

\* What the panel shows at generation g, if g is of the GRAM as it is: the last bit says whether
\* it is lit.
PictureAt(g) ==
  [x \in Columns, y \in Rows |-> IF g = 2 * gen + 1 THEN gram[PanelW - 1 - x, y] ELSE Black]

\* No generation the host knows is ahead of the panel's, and a picture of the panel's generation is
\* the one that its own last bit says.
PageInv ==
  /\ gen \in Nat /\ pull \in Int /\ pull <= 2 * gen + 1
  /\ page = [gen |-> page.gen, picture |-> page.picture, own |-> page.own] /\ page.gen \in Int
  /\ page.own => /\ focus = "host" /\ page.gen <= 2 * gen + 1
                 /\ page.gen \in {2 * gen, 2 * gen + 1} => page.picture = PictureAt(page.gen)

\* A sequence of one pixel.
LEMMA StreamedOne ==
  ASSUME NEW l, NEW g, NEW c
  PROVE  Streamed(l, g, <<c>>)[2] =
           IF <<l.h, l.v>> \in Cells THEN [g EXCEPT ![<<l.h, l.v>>] = c] ELSE g
<1> DEFINE px == <<c>>
<1>1. Len(px) = 1 /\ px[1] = c
  OBVIOUS
<1> HIDE DEF px
<1>2. PICK f : Drawing(f, l, g, px, 1) /\ Streamed(l, g, px) = f[1]
  <2>1. Len(px) \in Nat
    BY <1>1
  <2> QED BY <1>1, <2>1, StreamedIsDrawn
<1>3. f[0] = <<l, g>> /\ f[1] = Drawn(f[0], px[1])
  BY <1>2 DEF Drawing
<1>4. Drawn(<<l, g>>, c)[2] = IF <<l.h, l.v>> \in Cells THEN [g EXCEPT ![<<l.h, l.v>>] = c] ELSE g
  BY DEF Drawn
<1> QED BY <1>1, <1>2, <1>3, <1>4 DEF px

\* A pixel is stored, and counted, or is off the panel.
LEMMA OnePixel ==
  ASSUME NEW c, Pixel(c), gen \in Nat
  PROVE  (gram' = gram /\ gen' = gen) \/ gen' = gen + 1
<1>1. gram' = Streamed(lcd, gram, <<c>>)[2] /\ gen' = gen + Cardinality(Stored(lcd, <<c>>))
  BY DEF Pixel, Push
<1> DEFINE at == CHOOSE f : f = [i \in 1..1 |-> IF i = 1 THEN lcd ELSE Advanced(f[i - 1])]
<1>2. at[1] = lcd
  <2> DEFINE f == [i \in 1..1 |-> lcd]
  <2>1. f = [i \in 1..1 |-> IF i = 1 THEN lcd ELSE Advanced(f[i - 1])]
    OBVIOUS
  <2>2. at = [i \in 1..1 |-> IF i = 1 THEN lcd ELSE Advanced(at[i - 1])]
    <3> HIDE DEF f
    <3> QED BY <2>1
  <2> HIDE DEF at
  <2> QED BY <2>2
<1>3. Stored(lcd, <<c>>) = {i \in 1..1 : <<at[i].h, at[i].v>> \in Cells}
  BY DEF Stored
<1>4. Stored(lcd, <<c>>) = {i \in {1} : <<lcd.h, lcd.v>> \in Cells}
  <2> HIDE DEF at
  <2>1. \A i \in 1..1 : i = 1
    OBVIOUS
  <2> DEFINE P(i) == <<at[i].h, at[i].v>> \in Cells
  <2>2. P(1) <=> <<lcd.h, lcd.v>> \in Cells
    BY <1>2
  <2>3. Stored(lcd, <<c>>) = {i \in 1..1 : P(i)} /\ 1 \in 1..1
    BY <1>3
  <2> HIDE DEF P
  <2>4. \A i : i \in Stored(lcd, <<c>>) <=> i = 1 /\ P(1)
    BY <2>1, <2>3
  <2>5. \A i : i \in Stored(lcd, <<c>>) <=> i \in {k \in {1} : <<lcd.h, lcd.v>> \in Cells}
    BY <2>2, <2>4
  <2> QED BY <2>5
<1> HIDE DEF at
<1>5. CASE <<lcd.h, lcd.v>> \in Cells
  <2>1. Stored(lcd, <<c>>) = {1}
    BY <1>5, <1>4
  <2>2. Cardinality({1}) = 1
    BY FS_Singleton
  <2> QED BY <1>1, <2>1, <2>2
<1>6. CASE <<lcd.h, lcd.v>> \notin Cells
  <2>1. Stored(lcd, <<c>>) = {}
    BY <1>6, <1>4
  <2>2. Cardinality({}) = 0
    BY FS_EmptySet
  <2>3. gram' = gram
    BY <1>1, <1>6, StreamedOne
  <2> QED BY <1>1, <2>1, <2>2, <2>3
<1> QED BY <1>5, <1>6

LEMMA PictureIs ==
  ASSUME gen \in Nat
  PROVE  FrameGen \in {2 * gen, 2 * gen + 1} /\ Picture = PictureAt(FrameGen)
<1>1. CASE Lit(lcd, backlight)
  <2>1. FrameGen = 2 * gen + 1
    BY <1>1 DEF FrameGen
  <2> QED BY <1>1, <2>1 DEF Picture, PictureAt
<1>2. CASE ~Lit(lcd, backlight)
  <2>1. FrameGen = 2 * gen /\ FrameGen # 2 * gen + 1
    BY <1>2 DEF FrameGen
  <2> QED BY <1>2, <2>1 DEF Picture, PictureAt
<1> QED BY <1>1, <1>2

\* The picture that a generation stands for does not change while the GRAM and its number do not,
\* and one of an earlier number stands for nothing any more.
LEMMA PageSame ==
  ASSUME PageInv, UNCHANGED <<page, pull, focus>>, (gram' = gram /\ gen' = gen) \/ gen' = gen + 1
  PROVE  PageInv'
<1>1. CASE gram' = gram /\ gen' = gen
  <2>1. PictureAt(page.gen)' = PictureAt(page.gen)
    BY <1>1 DEF PictureAt
  <2> QED BY <1>1, <2>1 DEF PageInv
<1>2. CASE gen' = gen + 1
  BY <1>2 DEF PageInv
<1> QED BY <1>1, <1>2

LEMMA PageStep ==
  ASSUME PageInv, SwitchInv, [Next]_vars
  PROVE  PageInv'
<1>1. ASSUME NEW mode, NEW win, SetUp(mode, win) PROVE PageInv'
  BY <1>1, PageSame DEF SetUp, HostSame, Counted
<1>2. ASSUME NEW c, Pixel(c) PROVE PageInv'
  BY <1>2, OnePixel, PageSame DEF PageInv, Pixel, HostSame, Counted
<1>3. ASSUME NEW on, NEW light, Light(on, light) PROVE PageInv'
  BY <1>3, PageSame DEF Light, HostSame, Counted
<1>4. ASSUME focus # "host", UNCHANGED <<page, pull, focus>>, gen' \in Nat, gen' >= gen
      PROVE  PageInv'
  BY <1>4 DEF PageInv
<1>5. ASSUME NEW version, Resume(version) PROVE PageInv'
  BY <1>5, PageSame DEF Resume, Counted
<1>6. CASE NewMachine
  <2>1. /\ page' = [page EXCEPT !.own = FALSE] /\ gen' = 0 /\ pull' = pull /\ pull = NoGen
    BY <1>6 DEF NewMachine
  <2>2. page' = [gen |-> page.gen, picture |-> page.picture, own |-> FALSE]
    BY <2>1 DEF PageInv
  <2>3. page'.gen = page.gen /\ page'.picture = page.picture /\ page'.own = FALSE
    BY <2>2
  <2>4. page' = [gen |-> page'.gen, picture |-> page'.picture, own |-> page'.own]
    BY <2>2
  <2> QED BY <2>1, <2>3, <2>4 DEF PageInv, NoGen
<1>7. CASE AskGen
  <2>1. UNCHANGED <<page, gen, gram, focus>> /\ pull' = FrameGen /\ page.gen # FrameGen
    BY <1>7 DEF AskGen, lcdVars
  <2>2. PictureAt(page.gen)' = PictureAt(page.gen)
    BY <2>1 DEF PictureAt
  <2>3. FrameGen \in {2 * gen, 2 * gen + 1}
    BY PictureIs DEF PageInv
  <2> QED BY <2>1, <2>2, <2>3 DEF PageInv
<1>8. CASE Shown
  <2>1. UNCHANGED <<pull, gen, gram, focus>> /\ page' = [page EXCEPT !.gen = NoGen]
    BY <1>8 DEF Shown, lcdVars
  <2> QED BY <2>1 DEF PageInv, NoGen
<1>9. CASE Snapshot \/ SaveWorld \/ DmaAccepted \/ UNCHANGED vars
  BY <1>9, PageSame DEF Snapshot, SaveWorld, DmaAccepted, vars, lcdVars, HostSame, Counted
<1>10. ASSUME focus = "host", Render PROVE PageInv'
  <2>1. /\ page' = [gen |-> pull, picture |-> Picture, own |-> pull = FrameGen]
        /\ UNCHANGED <<gen, gram, focus>> /\ pull' = NoGen
    BY <1>10 DEF Render, lcdVars
  <2>2. PictureAt(page.gen)' = PictureAt(pull)
    <3>1. page'.gen = pull
      BY <2>1
    <3> QED BY <2>1, <3>1 DEF PictureAt
  <2>3. Picture = PictureAt(FrameGen)
    BY PictureIs DEF PageInv
  <2>4. page'.gen = pull /\ page'.picture = Picture /\ (page'.own => pull = FrameGen)
    BY <2>1
  <2>5. page' = [gen |-> page'.gen, picture |-> page'.picture, own |-> page'.own]
    BY <2>1
  <2> QED BY <1>10, <2>1, <2>2, <2>3, <2>4, <2>5 DEF PageInv, NoGen
<1>11. ASSUME SwitchInv, focus \in {"raster", "copies"},
              \/ \E c \in Transfers(focus) : StartDma(c)
              \/ RestoreWorld
       PROVE  PageInv'
  <2>1. PICK c \in Channel : WriteChcr(c)
    <3>1. ASSUME NEW c \in Transfers(focus), StartDma(c)
          PROVE  \E d \in Channel : WriteChcr(d)
      <4>1. c \in Channel
        BY <1>11, DisplayAssumption
      <4>2. [c EXCEPT !.de = TRUE, !.te = FALSE] \in Channel
        BY <4>1 DEF Channel
      <4> QED BY <3>1, <4>2 DEF StartDma
    <3>2. CASE RestoreWorld
      BY <1>11, <3>2 DEF RestoreWorld, SwitchInv
    <3> QED BY <1>11, <3>1, <3>2
  <2>2. UNCHANGED <<page, pull, focus>>
    BY <1>11 DEF StartDma, RestoreWorld, HostSame, Counted
  <2> DEFINE px == PanelPixels(c)
  <2>3. gen' = gen \/ gen' = gen + Cardinality(Stored(lcd, px))
    BY <2>1 DEF WriteChcr, lcdVars
  <2>4. Cardinality(Stored(lcd, px)) \in Nat
    <3>1. IsFiniteSet(1..Len(px))
      BY StreamHasLength, FS_Interval
    <3>2. Stored(lcd, px) \subseteq 1..Len(px)
      BY DEF Stored
    <3> HIDE DEF px
    <3> QED BY <3>1, <3>2, FS_Subset, FS_CardinalityType
  <2> QED BY <1>4, <1>11, <2>2, <2>3, <2>4 DEF PageInv
<1> QED
  BY <1>1, <1>2, <1>3, <1>5, <1>6, <1>7, <1>8, <1>9, <1>10, <1>11 DEF Next

\* A page that is told nothing has changed shows what the panel shows, through pixels, light,
\* save-states and new machines in any order (frameServer.ServeHTTP, FrameGen).
THEOREM PagesStayCurrent == Spec => []PageCurrent
<1>1. Init => PageInv /\ SwitchInv
  BY DEF Init, LcdInit, DmacInit, PageInv, NoPicture, NoGen, SwitchInv, Channel, Inert, Starts, Strides, Port
<1>2. PageInv => PageCurrent
  BY PictureIs DEF PageInv, PageCurrent
<1> QED BY <1>1, <1>2, PageStep, SwitchStep, PTL DEF Spec
=============================================================================
