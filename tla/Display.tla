------------------------------ MODULE Display ------------------------------
(***************************************************************************)
(* From memory to the page: programs set up the panel and push to it by    *)
(* CPU or DMA, two worlds share the DMA channel, save-states come and go,  *)
(* and the host's page pulls the panel only when its generation number     *)
(* says so (emu_go/lcd.go, the DMAC of emu_go/mmio.go, app/frame.go).      *)
(***************************************************************************)
EXTENDS Dmac

CONSTANTS
  Lights,       \* values the program gives the display-on bit and the backlight
  OsW, OsH,     \* the OS's area of the panel: 384 by 216
  OsOrigin,     \* the panel column of its x = 0
  Memories(_),  \* contents of memory at the start, by focus
  Transfers(_), \* channel settings the programs start, by focus
  MaxOps        \* bound by focus: what programs and the host do

ASSUME DisplayAssumption ==
  /\ Lights \subseteq BOOLEAN
  /\ \A f \in {"raster", "copies"} : Transfers(f) \subseteq Channel
  /\ OsW \in 1..PanelW /\ OsH \in 1..PanelH /\ OsOrigin \in (OsW - 1)..(PanelW - 1)

VARIABLES
  focus,    \* what this behaviour is about: it bounds the product of programs and hosts
  file,     \* the newest snapshot, if any: a set of one
  page,     \* the picture the page shows, the generation it came with, and history: whether it
            \* is a picture of this machine that was rendered at that generation
  pull,     \* the generation the frame server has read for a pull under way
  ops

vars == <<lcdVars, dmaVars, focus, file, page, pull, ops>>

NoGen == -1
NoPicture == [gen |-> NoGen, picture |-> [c \in Cells |-> Black], own |-> FALSE]

Init ==
  /\ LcdInit /\ DmacInit
  /\ focus \in {"raster", "copies", "host"} /\ mem \in Memories(focus)
  /\ file = {} /\ page = NoPicture /\ pull = NoGen /\ ops = 0

Counted == ops < MaxOps[focus] /\ ops' = ops + 1 /\ UNCHANGED focus
HostSame == UNCHANGED <<file, page, pull>>

---------------------------------------------------------------------------
(* The programs. *)

\* The OS's and gint's preparation of a push: mode, window, address, then R202 selected.
Across(l, win) == Register(Register(l, "R210", win.hsa), "R211", win.hea)
Down(l, win) == Register(Register(l, "R212", win.vsa), "R213", win.vea)
AtOrigin(l) == Register(Register(l, "R200", 0), "R201", 0)

SetUp(mode, win) ==
  /\ Counted
  /\ lcd' = [AtOrigin(Down(Across(Register(lcd, "R003", mode), win), win)) EXCEPT !.idx = "R202"]
  /\ raster' = IF mode.org THEN 0 ELSE -1
  /\ HostSame /\ UNCHANGED <<gram, gen, backlight, dmaVars>>

\* A pixel written by the CPU: the text cursor.
Pixel(c) ==
  /\ Counted /\ Push(<<c>>) /\ gen' = gen + Cardinality(Stored(lcd, <<c>>))
  /\ HostSame /\ UNCHANGED <<backlight, dmaVars>>

\* Power off and on: R007 and the backlight bit.
Light(on, light) ==
  /\ Counted
  /\ lcd' = Register(lcd, "R007", on) /\ backlight' = light
  /\ HostSame /\ UNCHANGED <<gram, gen, raster, dmaVars>>

StartDma(c) ==
  /\ Counted /\ WriteChcr([c EXCEPT !.de = TRUE, !.te = FALSE])
  /\ HostSame /\ UNCHANGED saved

\* gint's world switch saves the channel and writes it back, DE and TE included.
SaveWorld == Counted /\ saved' = {dma} /\ HostSame /\ UNCHANGED <<lcdVars, mem, dma, addrErr, dmaAsked>>

RestoreWorld ==
  /\ Counted /\ saved' = {}
  /\ \E c \in saved : WriteChcr(c)
  /\ HostSame

DmaAccepted == dmaAsked /\ dmaAsked' = FALSE /\ HostSame /\ UNCHANGED <<lcdVars, mem, dma, addrErr, saved, focus, ops>>

---------------------------------------------------------------------------
(* The host. *)

Snapshot == Counted /\ file' = {[lcd |-> lcd, gram |-> gram]} /\ UNCHANGED <<lcdVars, dmaVars, page, pull>>

\* The VRAM seen through the panel, inside the OS's frame colour.
Seeded ==
  [c \in Cells |-> IF c[1] \in (OsOrigin - OsW + 1)..OsOrigin /\ c[2] < OsH
                   THEN Byte(mem, c[2] * OsW + OsOrigin - c[1]) ELSE Blank]

Resume(version) ==
  /\ Counted
  /\ \E f \in file :
       /\ lcd' = RestoredLcd(f.lcd, version)
       /\ gram' = IF version = "now" THEN f.gram ELSE Seeded
  /\ gen' = gen + 1 /\ raster' = -1
  /\ dmaAsked' = FALSE
  /\ UNCHANGED <<backlight, mem, dma, addrErr, saved, file, page, pull>>

\* The studio replaces the machine by another one, between two pulls; the page stays.
NewMachine ==
  /\ Counted /\ pull = NoGen
  /\ lcd' = BootDefaults("R000", 0, 0) /\ gram' = [c \in Cells |-> Black] /\ gen' = 0
  /\ backlight' = TRUE /\ raster' = -1 /\ page' = [page EXCEPT !.own = FALSE]
  /\ UNCHANGED <<dmaVars, file, pull>>

\* GET /frame?since=: the generation under one lock of the machine ...
AskGen ==
  /\ pull = NoGen /\ page.gen # FrameGen
  /\ pull' = FrameGen /\ UNCHANGED <<lcdVars, dmaVars, file, page, focus, ops>>

\* ... and the panel under the next.
Render ==
  /\ pull # NoGen
  /\ page' = [gen |-> pull, picture |-> Picture, own |-> pull = FrameGen] /\ pull' = NoGen
  /\ UNCHANGED <<lcdVars, dmaVars, file, focus, ops>>

\* The calculator window is shown again: the page forgets its generation.
Shown == page.gen # NoGen /\ page' = [page EXCEPT !.gen = NoGen] /\ UNCHANGED <<lcdVars, dmaVars, file, pull, focus, ops>>

---------------------------------------------------------------------------

Next ==
  \/ focus = "raster" /\ \E mode \in Modes, win \in Windows : SetUp(mode, win)
  \/ focus = "host" /\ SetUp(BootDefaults("R202", 0, 0).mode, Whole)
  \/ focus \in {"raster", "host"} /\ \E c \in Colours : Pixel(c)
  \/ focus = "raster" /\ \E c \in Transfers(focus) : StartDma(c)
  \/ focus = "copies" /\ ((\E c \in Transfers(focus) : StartDma(c)) \/ SaveWorld \/ RestoreWorld)
  \/ DmaAccepted
  \/ focus = "host" /\ \/ \E on, light \in Lights : Light(on, light)
                       \/ Snapshot \/ \E version \in Versions : Resume(version)
                       \/ NewMachine \/ AskGen \/ Render \/ Shown

Spec == Init /\ [][Next]_vars

---------------------------------------------------------------------------
(* Properties. *)

\* A page that the frame server answers with "unchanged" shows what the panel shows: no write,
\* light or save-state since its picture was rendered leaves the generation as it was.  Excepted
\* are a picture of the machine before and one rendered after its generation had passed.
PageCurrent ==
  pull = NoGen /\ page.gen = FrameGen /\ page.own => page.picture = Picture

\* Writing a saved channel back moves nothing, whatever the other world did with it meanwhile.
SwitchQuiet == [][saved # {} /\ saved' = {} => mem' = mem /\ gram' = gram]_vars
=============================================================================
