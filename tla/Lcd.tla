-------------------------------- MODULE Lcd --------------------------------
(***************************************************************************)
(* The panel controller (emu_go/lcd.go): an index register, the window and *)
(* entry-mode registers, the address counter that walks GRAM inside the    *)
(* window, and the generation number by which a host knows that what the   *)
(* panel shows may have changed.                                           *)
(***************************************************************************)
EXTENDS Integers, Sequences

CONSTANTS
  PanelW, PanelH,   \* 396 and 224
  Colours,          \* 16-bit words, Black and Blank (the frame's) among them
  Black, Blank

ASSUME LcdAssumption == PanelW \in Nat \ {0} /\ PanelH \in Nat \ {0} /\ {Black, Blank} \subseteq Colours

VARIABLES
  lcd,          \* the selected register, the registers the code reads, the address counter
  gram, gen,
  backlight,    \* PFC 0xA405012E bit 5
  raster        \* history: pixels pushed since the address was set at the window's origin

lcdVars == <<lcd, gram, gen, backlight, raster>>

Columns == 0..(PanelW - 1)
Rows == 0..(PanelH - 1)
Cells == Columns \X Rows

\* R003: ORG, I/D0 (H up), I/D1 (V up), AM (V first).
Modes == [org : BOOLEAN, hUp : BOOLEAN, vUp : BOOLEAN, vFirst : BOOLEAN]
Windows == {w \in [hsa : Columns, hea : Columns, vsa : Rows, vea : Rows] : w.hsa <= w.hea /\ w.vsa <= w.vea}
Whole == [hsa |-> 0, hea |-> PanelW - 1, vsa |-> 0, vea |-> PanelH - 1]

BootDefaults(idx, h, v) ==
  [idx |-> idx, mode |-> [org |-> TRUE, hUp |-> FALSE, vUp |-> TRUE, vFirst |-> FALSE],
   on |-> TRUE, win |-> Whole, r200 |-> 0, r201 |-> 0, h |-> h, v |-> v]

LcdInit ==
  /\ lcd = BootDefaults("R000", 0, 0) /\ gram = [c \in Cells |-> Black] /\ gen = 0
  /\ backlight = TRUE /\ raster = -1

---------------------------------------------------------------------------
(* Data written to the selected register. *)

Addressed(l) ==
  IF ~l.mode.org THEN [l EXCEPT !.h = l.r200, !.v = l.r201]
  ELSE [l EXCEPT !.h = IF l.mode.hUp THEN l.win.hsa + l.r200 ELSE l.win.hea - l.r200,
                 !.v = IF l.mode.vUp THEN l.win.vsa + l.r201 ELSE l.win.vea - l.r201]

\* One step of a coordinate in its window: <<where it is, whether it wrapped>>.
Stepped(x, up, first, last) ==
  IF up THEN IF x >= last THEN <<first, TRUE>> ELSE <<x + 1, FALSE>>
  ELSE IF x <= first THEN <<last, TRUE>> ELSE <<x - 1, FALSE>>

AdvancedColumn(l) ==
  [l EXCEPT !.h = Stepped(l.h, l.mode.hUp, l.win.hsa, l.win.hea)[1]]

Advanced(l) ==
  LET h == Stepped(l.h, l.mode.hUp, l.win.hsa, l.win.hea)
      v == Stepped(l.v, l.mode.vUp, l.win.vsa, l.win.vea) IN
  [l EXCEPT !.h = IF ~l.mode.vFirst \/ v[2] THEN h[1] ELSE l.h,
            !.v = IF l.mode.vFirst \/ h[2] THEN v[1] ELSE l.v]

Register(l, reg, value) ==
  CASE reg = "R003" -> [l EXCEPT !.idx = reg, !.mode = value]
    [] reg = "R007" -> [l EXCEPT !.idx = reg, !.on = value]
    [] reg = "R210" -> [l EXCEPT !.idx = reg, !.win.hsa = value]
    [] reg = "R211" -> [l EXCEPT !.idx = reg, !.win.hea = value]
    [] reg = "R212" -> [l EXCEPT !.idx = reg, !.win.vsa = value]
    [] reg = "R213" -> [l EXCEPT !.idx = reg, !.win.vea = value]
    [] reg = "R200" -> Addressed([l EXCEPT !.idx = reg, !.r200 = value])
    [] reg = "R201" -> Addressed([l EXCEPT !.idx = reg, !.r201 = value])

\* The picture and the panel after the pixels of the sequence.
Streamed(l, g, pixels) ==
  LET after[i \in 0..Len(pixels)] ==
        IF i = 0 THEN <<l, g>>
        ELSE LET b == after[i - 1] IN
             <<Advanced(b[1]),
               IF <<b[1].h, b[1].v>> \in Cells THEN [b[2] EXCEPT ![<<b[1].h, b[1].v>>] = pixels[i]] ELSE b[2]>>
  IN after[Len(pixels)]

\* The count of pixels stored, which is what the generation advances by.
Stored(l, pixels) ==
  LET at[i \in 1..Len(pixels)] == IF i = 1 THEN l ELSE Advanced(at[i - 1]) IN
  {i \in 1..Len(pixels) : <<at[i].h, at[i].v>> \in Cells}

Push(pixels) ==
  /\ lcd.idx = "R202"
  /\ LET out == Streamed(lcd, gram, pixels) IN lcd' = out[1] /\ gram' = out[2]
  /\ raster' = IF raster < 0 THEN raster ELSE raster + Len(pixels)

---------------------------------------------------------------------------
(* What the panel shows. *)

Lit(l, light) == l.on /\ light

FrameGenOfGram == gen

\* gen << 1 | lit
FrameGen == 2 * gen + (IF Lit(lcd, backlight) THEN 1 ELSE 0)

\* The panel's columns run from right to left on the screen.
Picture ==
  [x \in Columns, y \in Rows |-> IF Lit(lcd, backlight) THEN gram[PanelW - 1 - x, y] ELSE Black]

---------------------------------------------------------------------------
(* Save-states: index, counter and registers; GRAM in a section of its own since a later version. *)

Versions == {"before the panel", "before display-on", "without GRAM", "now"}

RestoredLcd(l, version) ==
  CASE version = "before the panel" -> BootDefaults("R000", 0, 0)
    [] version = "before display-on" -> [l EXCEPT !.on = TRUE]
    [] OTHER -> l

---------------------------------------------------------------------------

\* Where the n-th pixel of a raster goes: rows of the window from the corner the scan starts at.
Area == (lcd.win.hea - lcd.win.hsa + 1) * (lcd.win.vea - lcd.win.vsa + 1)

RasterCell(n) ==
  LET w == lcd.win
      wide == w.hea - w.hsa + 1
      high == w.vea - w.vsa + 1
      k == n % Area
      i == IF lcd.mode.vFirst THEN k \div high ELSE k % wide
      j == IF lcd.mode.vFirst THEN k % high ELSE k \div wide IN
  <<IF lcd.mode.hUp THEN w.hsa + i ELSE w.hea - i, IF lcd.mode.vUp THEN w.vsa + j ELSE w.vea - j>>

\* A push that starts at the window's origin draws it line by line, fills exactly its cells and
\* is back at the origin after the last one, so that the next frame needs no new address.
RasterOrder == raster >= 0 => <<lcd.h, lcd.v>> = RasterCell(raster)
=============================================================================
