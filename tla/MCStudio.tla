------------------------------ MODULE MCStudio ------------------------------
(* Small instances of Studio: a call is named for its kind. *)
EXTENDS Studio

\* Runs in which a call is made when nothing else is under way.
OneByOne == \A c \in Calls : pc[c] # "off" => \A g \in Goroutines \ {c} : pc[g] \in {"off", "done"}

NamedKinds == [c \in Calls |-> IF c = "again" THEN "load" ELSE c]
=============================================================================
