----------------------------- MODULE MCMachine -----------------------------
(* The loop and the interrupts, which share no state here: a behaviour is of one of them. *)
EXTENDS MCStepLoop, Intc

\* The OS's tick (1) and two sources of gint that share a field (2, 3).
FieldOfEach == [s \in Sources |-> IF s = 1 THEN 1 ELSE 2]
OsFixed == [s \in Sources |-> IF s = 1 THEN 2 ELSE 0]
OwnOfEach == [w \in Worlds |-> IF w = "os" THEN {1} ELSE Sources \ {1}]

---------------------------------------------------------------------------
VARIABLE part

partVars == <<vars, allVars, part>>

PartsInit == Init /\ IntcInit /\ part \in {"loop", "interrupts"}

PartsNext ==
  \/ part = "loop" /\ Next /\ UNCHANGED <<allVars, part>>
  \/ part = "interrupts" /\ IntcNext /\ UNCHANGED <<vars, part>>

\* The fairness of each is its own.
PartsFairSpec ==
  /\ PartsInit /\ [][PartsNext]_partVars
  /\ WF_vars(part = "loop" /\ Loop)
  /\ WF_allVars(part = "interrupts" /\ SleepOn)
=============================================================================
