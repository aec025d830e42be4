-------------------------------- MODULE Dmac --------------------------------
(***************************************************************************)
(* The DMA controller (emu_go/mmio.go): a transfer runs to its end inside  *)
(* the register write that starts it, streams to the panel or copies       *)
(* memory, and leaves TE set so that writing the saved channel back does   *)
(* not run it again.  Memory is a few bytes; the panel's data port is an   *)
(* address of its own.                                                     *)
(***************************************************************************)
EXTENDS Lcd, FiniteSets

CONSTANTS
  MemSize,         \* bytes of memory
  UnitSizes,       \* transfer units: of 1, 2, 4, 16, 32 bytes
  NoCount,         \* units TCR = 0 stands for: 2^24
  Cap              \* bytes a transfer stops after: 2^20 to the panel, 2^22 to memory

Port == -1
Addresses == 0..(MemSize - 1)
Strides == {"fixed", "up", "down"}
\* SAR, DAR, TCR and the fields of CHCR.
Channel == [sar : Nat, dar : Nat \cup {Port}, tcr : Nat, de : BOOLEAN, te : BOOLEAN,
            ie : BOOLEAN, unit : Nat \ {0}, from : Strides, to : Strides]

ASSUME DmacAssumption ==
  /\ MemSize \in Nat \ {0} /\ UnitSizes \subseteq Nat \ {0}
  /\ NoCount \in Nat \ {0} /\ Cap \in Nat \ {0}

VARIABLES
  mem,          \* bytes, of Colours (a pixel is one byte here)
  dma,          \* the channel's registers
  addrErr,      \* DMAOR.AE
  dmaAsked,     \* the transfer-end interrupt is requested
  saved         \* the registers a world switch has saved, if any: a set of one

dmaVars == <<mem, dma, addrErr, dmaAsked, saved>>

\* CHCR of a channel never written reads TE.
DmacInit ==
  /\ dma = [sar |-> 0, dar |-> 0, tcr |-> 0, de |-> FALSE, te |-> TRUE, ie |-> FALSE,
            unit |-> 1, from |-> "fixed", to |-> "fixed"]
  /\ addrErr = FALSE /\ dmaAsked = FALSE /\ saved = {}

---------------------------------------------------------------------------

StartsAgain(c) == c.de
Starts(c) == c.de /\ ~c.te
Unaligned(c) == c.sar % c.unit # 0 \/ (c.dar # Port /\ c.dar % c.unit # 0)

Capped(n) == IF n > Cap THEN Cap ELSE n

\* Reading past the end of memory gives the blank colour.
Byte(m, at) == IF at \in Addresses THEN m[at] ELSE Blank

\* What a transfer streams to the panel: a frame, or one unit over and over.
PanelPixels(c) ==
  LET n == Capped((IF c.tcr = 0 THEN NoCount ELSE c.tcr) * c.unit) IN
  [i \in 1..n |-> Byte(mem, c.sar + IF c.from = "fixed" THEN (i - 1) % c.unit ELSE i - 1)]

Moved(at, stride, n) == IF stride = "up" THEN at + n ELSE IF stride = "down" THEN at - n ELSE at

\* Memory after the transfer: unit by unit, each read whole before it is written.
Copied(c) ==
  LET units == Capped(c.tcr * c.unit) \div c.unit
      after[i \in 0..units] ==
        IF i = 0 THEN mem
        ELSE LET m == after[i - 1]
                 src == Moved(c.sar, c.from, (i - 1) * c.unit)
                 dst == Moved(c.dar, c.to, (i - 1) * c.unit) IN
             [a \in Addresses |-> IF a \in dst..(dst + c.unit - 1) THEN Byte(m, src + (a - dst)) ELSE m[a]]
  IN after[units]

\* The write of CHCR, the other registers of c being those of the channel.
WriteChcr(c) ==
  IF ~Starts(c) THEN dma' = c /\ UNCHANGED <<mem, addrErr, dmaAsked, lcdVars>>
  ELSE IF Unaligned(c)
  THEN dma' = c /\ addrErr' = TRUE /\ UNCHANGED <<mem, dmaAsked, lcdVars>>
  ELSE /\ dma' = [c EXCEPT !.te = TRUE]
       /\ dmaAsked' = (dmaAsked \/ c.ie)
       /\ IF c.dar = Port
          THEN /\ Push(PanelPixels(c)) /\ gen' = gen + Cardinality(Stored(lcd, PanelPixels(c)))
               /\ UNCHANGED <<mem, backlight>>
          ELSE mem' = Copied(c) /\ UNCHANGED lcdVars
       /\ UNCHANGED addrErr
=============================================================================
