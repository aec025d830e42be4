---------------------------- MODULE MCKeyInput ----------------------------
(* Small instances of KeyInput. *)
EXTENDS KeyInput

\* The OS turns the calculator off (only AC/ON is sensed) and on.
OffAndOn == {<<TRUE, "normal", Keys>>, <<TRUE, "normal", {OnKey}>>}
=============================================================================
