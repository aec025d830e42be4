----------------------------- MODULE MCDisplay -----------------------------
(* Small instances of Display. *)
EXTENDS Display

\* Frames and fills of the whole panel and beyond, in `raster`; copies and fills of memory.
SomeTransfers(f) ==
  [sar : IF f = "copies" THEN {0, 1} ELSE {0}, dar : IF f = "copies" THEN {1, 2, 4} ELSE {Port},
   tcr : IF f = "copies" THEN {2} ELSE {0, 2}, de : {TRUE}, te : {FALSE}, ie : {f = "copies"}, unit : UnitSizes,
   from : Strides, to : IF f = "copies" THEN Strides ELSE {"fixed"}]

OpsOf == [raster |-> 3, copies |-> 4, host |-> 5]

SomeMemories(f) ==
  LET stripes == [x \in Addresses |-> IF x = 2 THEN Black ELSE Blank] IN
  IF f = "copies" THEN {stripes, [x \in Addresses |-> IF x \in {0, 3} THEN Black ELSE Blank]} ELSE {stripes}
=============================================================================
