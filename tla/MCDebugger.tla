----------------------------- MODULE MCDebugger -----------------------------
(* A small program under the debugger. *)
EXTENDS Debugger, TLC

Plain == [op |-> "plain", to |-> Nowhere, acc |-> <<>>]
Op(op) == [Plain EXCEPT !.op = op]
To(op, a) == [Plain EXCEPT !.op = op, !.to = a]
Touch(va, kind, paged) == [va |-> va, kind |-> kind, paged |-> paged]
With(i, acc) == [i EXCEPT !.acc = acc]

\* The main loop calls a recursive function whose last instruction makes two accesses, the
\* second to a page the TLB may lack, and the native function through the syscall routine.
SomeCode ==
  0 :> Op("flush") @@ 1 :> To("call", 10) @@ 2 :> With(To("bts", 4), <<Touch(1, "write", FALSE)>>)
  @@ 3 :> With(Plain, <<Touch(2, "read", FALSE)>>) @@ 4 :> To("call", 28) @@ 5 :> Op("trapa")
  @@ 6 :> Op("sleep") @@ 7 :> To("jmp", 0)
  \* the recursive function
  @@ 10 :> To("bt", 12) @@ 11 :> To("call", 10)
  @@ 12 :> With(Op("rts"), <<Touch(1, "read", FALSE), Touch(3, "read", TRUE)>>)
  \* the interrupt handler: an OS function entered by rte, which returns to a stub
  @@ 15 :> Plain @@ 16 :> To("enter", 18) @@ 17 :> Op("rte")
  @@ 18 :> With(Op("rts"), <<Touch(3, "write", TRUE)>>)
  \* the exception handler
  @@ 20 :> Op("fill") @@ 21 :> Op("rte")
  \* the function that can run natively, and the syscall routine
  @@ 24 :> Plain @@ 25 :> Op("rts") @@ 28 :> To("jmp", 24)

SomeBus == 1 :> 11 @@ 2 :> 11 @@ 3 :> 13

Start == [pc |-> 0, frames |-> <<>>, saved |-> <<>>, bl |-> FALSE, pending |-> FALSE,
          sleeping |-> FALSE, resident |-> TRUE, rb |-> FALSE, exchanged |-> FALSE]

Setup(debugger, moved, called) ==
  [cpu |-> Start, debugger |-> debugger, moves |-> moved, calls |-> called]

Ignored(debugger) == editBreakpoint(debugger, 1, [debugger.bps[1] EXCEPT !.ignore = 1])
InCalls(debugger) == editBreakpoint(debugger, 1, [debugger.bps[1] EXCEPT !.deep = TRUE])
Watchpoints ==
  AddWatchpoint(AddWatchpoint(Bare, 11, {"read"}, TRUE), 1, {"read", "write"}, FALSE)

SomeSetups ==
  {Setup(Ignored(AddBreakpoint(AddBreakpoint(Bare, 12), 4)), 3,
         {<<"continue">>, <<"toggle">>}),
   Setup(InCalls(AddBreakpoint(Bare, 24)), 2,
         {<<"continue">>, <<"remove">>, <<"add", 12>>, <<"resume">>, <<"pc", 4>>, <<"condition">>, <<"clear">>}),
   Setup(Bare, 2, {<<"into">>, <<"over">>, <<"out">>, <<"pause">>}),
   Setup(Watchpoints, 2, {<<"continue">>, <<"watch">>, <<"over">>, <<"trace">>, <<"unwatch">>, <<"see", 3>>}),
   Setup(BreakOn(AddBreakpoint(Bare, 18), TRUE, {"miss", "trapa"}, TRUE), 2,
         {<<"continue">>, <<"events">>, <<"to", 3>>, <<"out">>}),
   Setup(BreakOn(AddBreakpoint(Bare, 24), FALSE, {"trapa"}, FALSE), 2,
         {<<"install">>, <<"continue">>, <<"trace">>, <<"ignore">>, <<"rehit">>})}

\* A breakpoint at an instruction with a paged access, and one Continue.
PagedBreak == {Setup(AddBreakpoint(Bare, 12), 1, {<<"continue">>})}

TwoRoutines == <<10, 28>>
=============================================================================
