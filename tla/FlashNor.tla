------------------------------ MODULE FlashNor ------------------------------
(***************************************************************************)
(* The NOR flash chip of memory.go: its command state machine, its array   *)
(* and the status it answers while a sector erase lasts.                   *)
(*                                                                         *)
(* A cell is a word of the array; a page is what a save-state keeps, a     *)
(* sector what an erase clears, each the set of its cells.  A content is   *)
(* the set of its one bits.  A write is a record of what the chip tells    *)
(* apart: the cell, the class of the address within 4 KB (hook), the       *)
(* command in the low byte (low), the word as a number (num) and as data.  *)
(* DQ6 and DQ2, which toggle during an erase, are left out: the OS polls   *)
(* DQ7 and DQ3.                                                            *)
(***************************************************************************)
EXTENDS Integers, Sequences

CONSTANTS
  FlashCells,   \* the array: what lies beyond FlashMutTop is not in it
  Pages,        \* sets of cells
  Sectors,      \* sets of cells
  Bits,         \* of a cell
  StatusReads   \* reads that a sector erase lasts, eraseStatusReads in the code

FlashAssumption ==
  /\ {3, 7} \subseteq Bits
  /\ StatusReads \in Nat
  /\ \A c \in FlashCells : \E p \in Pages : c \in p

ASSUME FlashAssumption

VARIABLES
  flash,      \* cell -> its one bits
  fcmd,       \* where the chip is in a command
  bufW,       \* the words of a buffered program
  bufRem,     \* words still to come, -1 before the count
  eraseBusy,  \* status reads left
  eraseSect   \* the sector they are about

chip == <<fcmd, bufW, bufRem, eraseBusy, eraseSect>>

Erased == Bits
Commands == {"idle", "unlock1", "unlock2", "program", "erase1", "erase2", "erase3",
             "bufcount", "bufdata"}
Hooks == {"aaa", "554", "other"}
Lows == {"AA", "55", "A0", "80", "25", "29", "30", "10", "F0", "other"}
Writes == [at : FlashCells, hook : Hooks, low : Lows, num : Nat, data : SUBSET Bits]

ChipTypeOK ==
  /\ flash \in [FlashCells -> SUBSET Bits]
  /\ fcmd \in Commands
  /\ bufW \in Seq(Writes)
  /\ bufRem \in Nat \cup {-1}
  /\ eraseBusy \in Nat
  /\ eraseSect \subseteq FlashCells

PoweredOn ==
  /\ fcmd = "idle"
  /\ bufW = <<>>
  /\ bufRem = 0
  /\ eraseBusy = 0
  /\ eraseSect = {}

PowerOn ==
  /\ fcmd' = "idle"
  /\ bufW' = <<>>
  /\ bufRem' = 0
  /\ eraseBusy' = 0
  /\ eraseSect' = {}

---------------------------------------------------------------------------
(* Reads *)

Erasing(at) == eraseBusy > 0 /\ at \in eraseSect

\* What a read returns: DQ7 = 0 and DQ3 = 1 during an erase, else the array.
Seen(at) == IF Erasing(at) THEN {3} ELSE flash[at]

\* A status read counts.
ReadStatus(at) ==
  /\ eraseBusy' = IF Erasing(at) THEN eraseBusy - 1 ELSE eraseBusy
  /\ UNCHANGED <<flash, fcmd, bufW, bufRem, eraseSect>>

---------------------------------------------------------------------------
(* flashCmd: a write of w *)

SectorOf(at) == {c \in FlashCells : \E s \in Sectors : {at, c} \subseteq s}

\* Bits only go from one to zero; a word outside the array is ignored.
ProgrammedAll(words) ==
  [c \in FlashCells |->
    {b \in flash[c] : \A k \in 1 .. Len(words) : words[k].at = c => b \in words[k].data}]

Cleared(cells) == [c \in FlashCells |-> IF c \in cells THEN Erased ELSE flash[c]]

\* A state, the write that leads on, and the state it leads to.
Expected == {
  <<"idle",    "aaa", "AA", "unlock1">>,
  <<"unlock1", "554", "55", "unlock2">>,
  <<"unlock2", "aaa", "A0", "program">>,
  <<"unlock2", "aaa", "80", "erase1">>,
  <<"erase1",  "aaa", "AA", "erase2">>,
  <<"erase2",  "554", "55", "erase3">> }

GoesOn(w) == \E e \in Expected : e[1] = fcmd /\ e[2] = w.hook /\ e[3] = w.low
OpensBuffer(w) == fcmd = "unlock2" /\ w.low = "25"

Advance(w) ==
  /\ \E e \in Expected :
       /\ e[1] = fcmd /\ e[2] = w.hook /\ e[3] = w.low
       /\ fcmd' = e[4]
  /\ UNCHANGED <<flash, bufW, bufRem, eraseBusy, eraseSect>>

OpenBuffer(w) ==
  /\ OpensBuffer(w)
  /\ fcmd' = "bufcount" /\ bufW' = <<>> /\ bufRem' = -1
  /\ UNCHANGED <<flash, eraseBusy, eraseSect>>

\* Any other write, a reset or a query too, goes back to reading.
Relapse(w) ==
  /\ fcmd \in {"idle", "unlock1", "unlock2", "erase1", "erase2"}
  /\ ~GoesOn(w) /\ ~OpensBuffer(w)
  /\ fcmd' = "idle"
  /\ UNCHANGED <<flash, bufW, bufRem, eraseBusy, eraseSect>>

Program(w) ==
  /\ fcmd = "program"
  /\ flash' = ProgrammedAll(<<w>>)
  /\ fcmd' = "idle"
  /\ UNCHANGED <<bufW, bufRem, eraseBusy, eraseSect>>

HitSwapped(w) == IF w.low = "30" THEN FlashCells ELSE IF w.low = "10" THEN SectorOf(w.at) ELSE {}
\* A chip erase, a sector erase, or neither.
Hit(w) == IF w.low = "10" THEN FlashCells ELSE IF w.low = "30" THEN SectorOf(w.at) ELSE {}

Erase(w) ==
  /\ fcmd = "erase3"
  /\ flash' = Cleared(Hit(w))
  /\ eraseBusy' = IF w.low = "30" THEN StatusReads ELSE eraseBusy
  /\ eraseSect' = IF w.low = "30" THEN SectorOf(w.at) ELSE eraseSect
  /\ fcmd' = "idle"
  /\ UNCHANGED <<bufW, bufRem>>

CountExact(w) ==
  /\ fcmd = "bufcount"
  /\ bufRem' = w.num
  /\ fcmd' = "bufdata"
  /\ UNCHANGED <<flash, bufW, eraseBusy, eraseSect>>

\* The word is the number of words less one.
Count(w) ==
  /\ fcmd = "bufcount"
  /\ bufRem' = w.num + 1
  /\ fcmd' = "bufdata"
  /\ UNCHANGED <<flash, bufW, eraseBusy, eraseSect>>

Collect(w) ==
  /\ fcmd = "bufdata" /\ bufRem > 0
  /\ bufW' = Append(bufW, w)
  /\ bufRem' = bufRem - 1
  /\ UNCHANGED <<flash, fcmd, eraseBusy, eraseSect>>

\* Whatever is written after the last word confirms.
Commit(w) ==
  /\ fcmd = "bufdata" /\ bufRem <= 0
  /\ flash' = ProgrammedAll(bufW)
  /\ fcmd' = "idle"
  /\ UNCHANGED <<bufW, bufRem, eraseBusy, eraseSect>>

flashCmd(w) ==
  \/ Advance(w) \/ OpenBuffer(w) \/ Relapse(w)
  \/ Program(w) \/ Erase(w)
  \/ Count(w) \/ Collect(w) \/ Commit(w)
=============================================================================
