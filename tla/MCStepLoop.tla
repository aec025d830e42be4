---------------------------- MODULE MCStepLoop ----------------------------
(* Small instances of StepLoop. *)
EXTENDS StepLoop

\* The scan is the slowest device, as on the machine.
Periods == [t \in Timers |-> CASE t = "keysc" -> 3 [] t \in {"tick", "count"} -> 2 [] OTHER -> 1]
=============================================================================
