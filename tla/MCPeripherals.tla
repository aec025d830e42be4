--------------------------- MODULE MCPeripherals ---------------------------
(* The timed devices and the storage.  The two share no state here: a behaviour is of one *)
(* of them, and the other stands at one of its first states.                              *)
EXTENDS MCDevices, Storage

\* A small flash: one cell of the OS image, a sector of two pages and a sector of one.
CONSTANTS pa, pb, pc

AllCells == {Boot, pa, pb, pc}
AllPages == {{Boot}, {pa}, {pb}, {pc}}
AllSectors == {{Boot}, {pa, pb}, {pc}}
DumpImage == [x \in AllCells |-> IF x \in {Boot, pa} THEN {3} ELSE {3, 7}]
AllJobs ==
  {[kind |-> "erase", cells |-> <<pa>>, data |-> {}],
   [kind |-> "program", cells |-> <<pb>>, data |-> {7}],
   [kind |-> "buffer", cells |-> <<pa, pb>>, data |-> {3}]}

---------------------------------------------------------------------------
VARIABLE part

partVars == <<vars, storageVars, part>>

DevicesStand == using = "adc" /\ \A rate \in Rates : rate <= ips

PartsInit ==
  /\ Init /\ StorageInit
  /\ part \in {"devices", "storage"}
  /\ part = "devices" \/ DevicesStand

PartsNext ==
  \/ part = "devices" /\ Next /\ UNCHANGED <<storageVars, part>>
  \/ part = "storage" /\ StorageNext /\ UNCHANGED <<vars, part>>

PartsSpec == PartsInit /\ [][PartsNext]_partVars
=============================================================================
