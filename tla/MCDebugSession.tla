--------------------------- MODULE MCDebugSession ---------------------------
(* Two dumps, three lists. *)
EXTENDS DebugSession, TLC

At(kind, addr, on) == [kind |-> kind, addr |-> addr, on |-> on]

SomeLists ==
  {1 :> At("exec", 1, TRUE),
   1 :> At("exec", 1, FALSE) @@ 2 :> At("code", Every, TRUE),
   1 :> At("exec", 2, TRUE) @@ 2 :> At("code", 5, TRUE) @@ 3 :> At("exec", 1, TRUE)}

Setup(at, a, calls, moves) ==
  [open |-> at, saved |-> "a" :> a @@ "b" :> NoList, calls |-> calls, moves |-> moves]

Three == 1 :> At("exec", 2, TRUE) @@ 2 :> At("code", 5, TRUE) @@ 3 :> At("exec", 1, TRUE)

One == 2 :> At("code", Every, TRUE)

SomeSetups ==
  {Setup(None, Three, {"start", "list"}, 2),
   Setup("a", NoList, {"start", "list"}, 2),
   Setup("a", Three, {"step", "list"}, 2),
   Setup("a", One, {"pause", "continue"}, 2),
   Setup("a", NoList, {"pause", "slot"}, 2)}
=============================================================================
