------------------------------ MODULE Debugger ------------------------------
(***************************************************************************)
(* The host debugger, emu_go/debug.go: breakpoints, watchpoints, breaks on *)
(* events, steps and the trace, around the instructions the machine runs   *)
(* anyway, with the host's calls into the OS (oscall.go, install.go) that  *)
(* it must not see.                                                        *)
(*                                                                         *)
(* Every call takes e.mu, so an action is a call, or one instruction of a  *)
(* Step; a Step is cut short after any instruction, and the instructions a *)
(* step command runs inside the call are the Steps that follow it.  The    *)
(* slow iterations of stepLocked may come at any instruction.              *)
(*                                                                         *)
(* Not modelled: the clock, the values accesses carry, the UBC, faults of  *)
(* the core (a halted machine runs nothing), the views of registers and    *)
(* memory (SetRegister of PC apart).                                       *)
(***************************************************************************)
EXTENDS Traced, FiniteSets, SequencesExt

CONSTANTS
  Setups,       \* the CPU, the debugger, and the calls a user goes on to make; bound: how many
  Syscall,      \* syscallTrampoline
  Routines,     \* the OS functions a host call runs
  Bus,          \* the bus address of each virtual address accesses name
  PageSize,     \* of the filter of stop addresses
  HandlerRoom,  \* handlers a step remembers
  TraceRoom,    \* the trace's ring
  HitCap,       \* bound: hits are counted up to here
  MaxIrqs,      \* bound: requests while the CPU is awake
  CallBudget    \* bound: instructions of a host call

VARIABLES
  c,       \* the CPU
  d,       \* the debugger
  host,    \* a host call under way: the context it borrowed and the budget left
  ran,     \* the instruction the last action ran
  calls,   \* the calls the user may make
  moves, irqs,
  from,    \* history: where the last step command began
  spared   \* history: the address resumed from, and how its instruction went since

vars == <<c, d, host, ran, calls, moves, irqs, from, spared>>

Nothing == [pc |-> Nowhere, done |-> FALSE, acc |-> <<>>, exc |-> "none"]
NoFrom == [goal |-> "none", pc |-> Nowhere, frames |-> <<>>, saved |-> <<>>, count |-> 0]
NoStop == [reason |-> "none", id |-> 0, pc |-> Nowhere]
NoSpare == [pc |-> Nowhere, at |-> "none"]

---------------------------------------------------------------------------
(* The breakpoints and what is armed. *)

Page(a) == a \div PageSize

\* refresh: the page filter and whether the debugger is on.
refresh(b) ==
  LET stops == {b.bps[i].addr : i \in {i \in DOMAIN b.bps : b.bps[i].enabled}}
                 \cup (IF b.sys THEN {Syscall} ELSE {})
                 \cup (IF b.goal = "to" THEN {b.target} ELSE {})
      watching == \E i \in DOMAIN b.watch : b.watch[i].enabled
  IN [b EXCEPT !.pages = {Page(a) : a \in stops}, !.watchOn = watching,
               !.on = stops # {} \/ watching \/ b.tracing \/ b.exc # {} \/ b.irq \/ b.goal # "none"]

Breakpoint ==
  [id : Nat \ {0}, addr : DOMAIN Code, enabled : BOOLEAN, hits : Nat, ignore : Int, deep : BOOLEAN]
Watchpoint ==
  [id : Nat \ {0}, addr : Nat, kinds : SUBSET {"read", "write"}, phys : BOOLEAN, enabled : BOOLEAN]
Address == DOMAIN Code \cup {Nowhere}
Goals == {"none", "into", "return", "to"}
DebuggerState ==
  [on : BOOLEAN, watchOn : BOOLEAN, pages : SUBSET Nat, bps : Seq(Breakpoint),
   watch : Seq(Watchpoint), nextID : Nat \ {0}, sys : BOOLEAN, exc : SUBSET {"miss", "trapa"},
   irq : BOOLEAN, goal : Goals, depth : Int, handlers : Seq(Address), target : Address,
   intoSlot : BOOLEAN, skipArmed : BOOLEAN, skipPC : Address, tracing : BOOLEAN,
   trace : Seq(Address), latched : BOOLEAN, stop : [reason : {"none"}, id : {0}, pc : {Nowhere}]]

\* A user starts at a machine that runs, with breakpoints as the calls below leave them.
ASSUME DebuggerAssumption ==
  /\ {PageSize, HandlerRoom, TraceRoom, HitCap} \subseteq Nat \ {0}
  /\ {MaxIrqs, CallBudget} \subseteq Nat /\ DOMAIN Bus \subseteq Nat
  /\ \A s \in Setups :
       /\ s.moves \in Nat /\ s.cpu \in Cpu
       /\ s.debugger \in DebuggerState /\ refresh(s.debugger) = s.debugger
       /\ ~s.debugger.latched /\ ~s.debugger.skipArmed

Bare ==
  [on |-> FALSE, watchOn |-> FALSE, pages |-> {}, bps |-> <<>>, watch |-> <<>>, nextID |-> 1,
   sys |-> FALSE, exc |-> {}, irq |-> FALSE, goal |-> "none", depth |-> 0, handlers |-> <<>>,
   target |-> Nowhere, intoSlot |-> FALSE, skipArmed |-> FALSE, skipPC |-> Nowhere,
   tracing |-> FALSE, trace |-> <<>>, latched |-> FALSE, stop |-> NoStop]

AddBreakpoint(b, a) ==
  refresh([b EXCEPT !.bps = Append(b.bps, [id |-> b.nextID, addr |-> a, enabled |-> TRUE,
                                           hits |-> 0, ignore |-> 0, deep |-> FALSE]),
                    !.nextID = b.nextID + 1])

\* The breakpoint at i.
RemoveBreakpoint(b, i) == refresh([b EXCEPT !.bps = RemoveAt(b.bps, i)])

\* EnableBreakpoint, SetBreakpointIgnore, SetBreakpointCondition, ResetBreakpointHits: x is the
\* breakpoint at i now.  A condition sees the registers, here whether they are in a call.
editBreakpoint(b, i, x) == refresh([b EXCEPT !.bps[i] = x])

\* kinds: which accesses; phys: compare bus addresses.
AddWatchpoint(b, a, kinds, phys) ==
  refresh([b EXCEPT !.watch = Append(b.watch, [id |-> b.nextID, addr |-> a, kinds |-> kinds,
                                               phys |-> phys, enabled |-> TRUE]),
                    !.nextID = b.nextID + 1])

EnableWatchpoint(b, i, on) == refresh([b EXCEPT !.watch[i].enabled = on])

RemoveWatchpoint(b, i) == refresh([b EXCEPT !.watch = RemoveAt(b.watch, i)])

\* BreakOnSyscall, BreakOnException, BreakOnInterrupt.  exc: the exceptions that stop.
BreakOn(b, sys, exc, irq) == refresh([b EXCEPT !.sys = sys, !.exc = exc, !.irq = irq])
SetTrace(b, on) == refresh([b EXCEPT !.tracing = on, !.trace = <<>>])

---------------------------------------------------------------------------
(* Stops. *)

latch(m, reason, id) ==
  LET b == [m.d EXCEPT !.latched = TRUE, !.skipArmed = FALSE, !.goal = "none",
                       !.stop = [reason |-> reason, id |-> id, pc |-> m.c.pc]]
  IN [m EXCEPT !.d = IF m.d.goal # "none" THEN refresh(b) ELSE b]

enterHandlerUnnoted(b, spc) == b
enterHandler(b, spc) ==
  LET kept == IF Len(b.handlers) = HandlerRoom THEN Tail(b.handlers) ELSE b.handlers
  IN [b EXCEPT !.handlers = Append(kept, spc)]

Holds(bp, cpu) == bp.enabled /\ (bp.deep => cpu.frames # <<>>)
Capped(n) == IF n > HitCap THEN HitCap ELSE n

\* before: the machine at a stop address.  The breakpoints there are looked at in order, and
\* the first with hits beyond those it ignores stops it.
Hit(m) ==
  LET b == m.d
      reached == {i \in DOMAIN b.bps : b.bps[i].addr = m.c.pc /\ Holds(b.bps[i], m.c)}
      stopping == {i \in reached : b.bps[i].hits + 1 > b.bps[i].ignore}
      counted == {i \in reached : \A j \in stopping : i <= j}
      after == [m EXCEPT !.d.bps = [i \in DOMAIN b.bps |->
                  IF i \in counted THEN [b.bps[i] EXCEPT !.hits = Capped(b.bps[i].hits + 1)]
                  ELSE b.bps[i]]]
  IN IF stopping = {} THEN after ELSE latch(after, "breakpoint", b.bps[Min(stopping)].id)

before(m) ==
  LET b == m.d
      pc == m.c.pc
  IN IF Page(pc) \notin b.pages \/ (b.skipArmed /\ pc = b.skipPC) THEN m
     ELSE IF b.goal = "to" /\ pc = b.target THEN latch(m, "step", 0)
     ELSE IF b.sys /\ pc = Syscall THEN latch(m, "syscall", 0)
     ELSE Hit(m)

\* access: the first match of an instruction, over its accesses and then the watchpoints.
Matches(w, x) ==
  w.enabled /\ x.kind \in w.kinds
  /\ IF w.phys THEN Bus[x.va] = w.addr ELSE x.va = w.addr

Watched(b, acc) ==
  IF ~b.watchOn THEN 0
  ELSE LET hits == {n \in (DOMAIN acc) \X (DOMAIN b.watch) : Matches(b.watch[n[2]], acc[n[1]])}
           first == {n \in hits : \A o \in hits : n[1] < o[1] \/ (n[1] = o[1] /\ n[2] <= o[2])}
       IN IF hits = {} THEN 0 ELSE b.watch[(CHOOSE n \in first : TRUE)[2]].id

\* Nothing is reported of an instruction that was undone: it runs again.
WhitUndone(b, x, pc) == Watched(b, x.acc)
Whit(b, x, pc) == IF Completed(x, pc) THEN Watched(b, x.acc) ELSE 0

---------------------------------------------------------------------------
(* dstep: an instruction with the checks around it.  m is the machine: the CPU, the debugger *)
(* and the instruction run.                                                                   *)

\* An interrupt accepted before the instruction.
Interrupted(m) ==
  LET n == [m EXCEPT !.c = acceptInterrupt(m.c)]
      noted == IF m.d.goal = "return" THEN [n EXCEPT !.d = enterHandler(m.d, m.c.pc)] ELSE n
  IN IF ~Acceptable(m.c) THEN m
     ELSE IF m.d.goal = "into" THEN latch(n, "step", 0)
     ELSE IF m.d.irq THEN latch(noted, "interrupt", 0)
     ELSE noted

RecordedSkipping(b, pc) == [b EXCEPT !.trace = <<pc>>]
Recorded(b, pc) ==
  LET t == Append(b.trace, pc)
      room == IF Len(t) > TraceRoom THEN Tail(t) ELSE t
  IN [b EXCEPT !.trace = IF b.tracing THEN room ELSE b.trace,
               !.skipArmed = b.skipArmed /\ pc # b.skipPC]

\* A step over a call or out of a function, after the instruction at pc.  An instruction that
\* took an exception is inside its handler now, and not counted.
Counted(m, pc, x) ==
  LET b == IF x.exc # "none" THEN enterHandler(m.d, Top(x.c.saved).pc) ELSE m.d
      returned == x.ret \/ Code[pc].op = "rts"
  IN IF b.handlers # <<>>
     THEN [m EXCEPT !.d = IF IsRte(pc) /\ x.c.pc = Top(b.handlers)
                          THEN [b EXCEPT !.handlers = Popped(b.handlers)] ELSE b]
     ELSE IF returned
     THEN IF b.depth <= 0 THEN latch(m, "step", 0) ELSE [m EXCEPT !.d.depth = b.depth - 1]
     ELSE IF isCallOp(pc) THEN [m EXCEPT !.d.depth = b.depth + 1]
     ELSE m

\* After the instruction at pc went as x.
After(m, x) ==
  LET pc == m.c.pc
      id == Whit(m.d, x, pc)
      n == [c |-> x.c, d |-> Recorded(m.d, pc),
            ran |-> [pc |-> pc, done |-> Completed(x, pc), acc |-> x.acc, exc |-> x.exc]]
      inSlot == ~n.d.intoSlot /\ x.exc = "none" /\ Code[pc].op = "bts" /\ x.c.pc = pc + 1
  IN IF x.exc \in m.d.exc THEN latch(n, "exception", 0)
     ELSE IF id # 0 THEN latch(n, "watchpoint", id)
     ELSE IF m.d.goal = "into"
     THEN IF inSlot THEN [n EXCEPT !.d.intoSlot = TRUE] ELSE latch(n, "step", 0)
     ELSE IF m.d.goal = "return" THEN Counted(n, pc, x)
     ELSE n

\* A machine that stopped before, and that a host call runs on, is one that has not stopped yet.
dstep(m) ==
  IF m.c.sleeping THEN {[m EXCEPT !.c = Slept(m.c)]}
  ELSE LET i == Interrupted([m EXCEPT !.d.latched = FALSE])
           s == IF i.d.latched THEN i ELSE before(i)
           ends == IF s.d.latched THEN {s} ELSE {After(s, x) : x \in Runs(s.c)}
       IN {[e EXCEPT !.d.latched = e.d.latched \/ m.d.latched] : e \in ends}

\* debugRun's fast loop: with only stop addresses and event breaks armed, an instruction off
\* their pages with no request pending, and not at the native function, skips the checks.
Plainly(m) ==
  /\ ~m.c.sleeping /\ m.d.goal = "none" /\ ~m.d.watchOn /\ ~m.d.tracing
  /\ ~m.c.pending /\ Page(m.c.pc) \notin m.d.pages /\ m.c.pc # HlePC

debugRun(m) ==
  LET pc == m.c.pc
      unskipped == IF pc = m.d.skipPC THEN [m EXCEPT !.d.skipArmed = FALSE] ELSE m
      after(x) == [unskipped EXCEPT !.c = x.c,
                     !.ran = [pc |-> pc, done |-> Completed(x, pc), acc |-> x.acc, exc |-> x.exc]]
  IN IF Plainly(m)
     THEN {IF x.exc \in m.d.exc THEN latch(after(x), "exception", 0) ELSE after(x)
             : x \in execute(m.c)}
     ELSE dstep(m)

\* cpu.step and cpu.run, with the debugger off; hle: cpu.hlePC is the native function's.
step(m, hle) ==
  IF m.c.sleeping THEN {[m EXCEPT !.c = Slept(m.c)]}
  ELSE LET s == acceptInterrupt(m.c)
       IN {[m EXCEPT !.c = x.c, !.ran = [pc |-> s.pc, done |-> Completed(x, s.pc),
                                         acc |-> x.acc, exc |-> x.exc]]
              : x \in IF hle THEN Runs(s) ELSE execute(s)}

\* What is known of the instruction resumed at after a step to m: it is still "ahead"; the
\* debugger saw it "undone" by an exception; or it ran "unseen", with nothing armed.
Spare(m) ==
  LET at == spared.at
      seen == IF m.ran.done \/ at = "unseen" THEN "none" ELSE "undone"
      unseen == IF ~m.ran.done THEN at ELSE IF at = "undone" THEN "none" ELSE "unseen"
      next == IF m.ran.pc # spared.pc THEN at ELSE IF d.on THEN seen ELSE unseen
  IN IF m.d.latched \/ at = "none" \/ next = "none" THEN NoSpare
     ELSE [pc |-> spared.pc, at |-> next]

Now == [c |-> c, d |-> d, ran |-> Nothing]
stepLocked == IF d.on THEN debugRun(Now) \cup dstep(Now) ELSE step(Now, TRUE)

---------------------------------------------------------------------------
(* Steps of the machine. *)

\* The machine goes on as m.
Goes(m) ==
  LET ended == m.d.latched \/ m.d.goal = "none"
      count == IF m.ran.pc # Nowhere /\ from.count < 3 THEN from.count + 1 ELSE from.count
  IN /\ c' = m.c /\ d' = m.d /\ ran' = m.ran
     /\ from' = IF ended THEN NoFrom ELSE [from EXCEPT !.count = count]
     /\ spared' = Spare(m)

\* Run: a stopped machine runs nothing.
Run ==
  /\ ~d.latched /\ host.phase = "off"
  /\ \E m \in stepLocked : Goes(m)
  /\ UNCHANGED <<host, calls, moves, irqs>>

\* A device's request; while the CPU sleeps there is always one to come.
raiseIRQ ==
  /\ ~c.pending /\ (c.sleeping \/ irqs > 0)
  /\ c' = [c EXCEPT !.pending = TRUE]
  /\ irqs' = IF c.sleeping THEN irqs ELSE irqs - 1
  /\ ran' = Nothing
  /\ UNCHANGED <<d, host, calls, moves, from, spared>>

---------------------------------------------------------------------------
(* The user's calls. *)

Call(name) ==
  /\ name \in calls /\ moves > 0 /\ host.phase = "off"
  /\ moves' = moves - 1 /\ ran' = Nothing
  /\ UNCHANGED <<calls, irqs>>

Pause ==
  /\ Call(<<"pause">>) /\ ~d.latched
  /\ d' = latch(Now, "pause", 0).d /\ from' = NoFrom /\ spared' = NoSpare
  /\ UNCHANGED <<c, host>>

\* resumeLocked, with the goal that startGoal arms: the page filter is recomputed only there.
resumeLocked(goal, depth, target) ==
  LET b == [d EXCEPT !.latched = FALSE, !.skipArmed = TRUE, !.skipPC = c.pc, !.goal = goal,
                     !.intoSlot = FALSE, !.depth = depth, !.handlers = <<>>, !.target = target]
  IN /\ d' = IF goal = "none" THEN b ELSE refresh(b)
     /\ spared' = [pc |-> c.pc, at |-> "ahead"]
     /\ UNCHANGED <<c, host>>

Continue == Call(<<"continue">>) /\ from' = NoFrom /\ resumeLocked("none", 0, d.target)

startGoal(what, goal, depth, target) ==
  /\ from' = [goal |-> what, pc |-> c.pc, frames |-> c.frames, saved |-> c.saved, count |-> 0]
  /\ resumeLocked(goal, depth, target)

StepOverCounted == Call(<<"over">>) /\ startGoal("over", "return", 0, Nowhere)
StepInto == Call(<<"into">>) /\ startGoal("into", "into", 0, Nowhere)
StepOver ==
  /\ Call(<<"over">>)
  /\ IF isCallOp(c.pc) THEN startGoal("over", "return", -1, Nowhere)
     ELSE startGoal("into", "into", 0, Nowhere)
StepOut == Call(<<"out">>) /\ startGoal("out", "return", 0, Nowhere)
RunTo == \E a \in DOMAIN Code : Call(<<"to", a>>) /\ startGoal("to", "to", 0, a)

\* The changes of the breakpoints, the watchpoints, the event breaks and the trace, by name.
BreakpointEdits(i) ==
  LET x == d.bps[i]
  IN {<<RemoveBreakpoint(d, i), "remove">>,
      <<editBreakpoint(d, i, [x EXCEPT !.enabled = ~x.enabled]), "toggle">>,
      <<editBreakpoint(d, i, [x EXCEPT !.ignore = 1 - x.ignore]), "ignore">>,
      <<editBreakpoint(d, i, [x EXCEPT !.deep = ~x.deep]), "condition">>,
      <<editBreakpoint(d, i, [x EXCEPT !.hits = 0]), "rehit">>}
WatchpointEdits(i) ==
  {<<EnableWatchpoint(d, i, ~d.watch[i].enabled), "watch">>, <<RemoveWatchpoint(d, i), "unwatch">>}
Edits ==
  (UNION ({BreakpointEdits(i) : i \in DOMAIN d.bps} \cup {WatchpointEdits(i) : i \in DOMAIN d.watch}))
    \cup {<<BreakOn(d, ~d.sys, {"miss", "trapa"} \ d.exc, ~d.irq), "events">>,
          <<SetTrace(d, ~d.tracing), "trace">>,
          <<refresh([d EXCEPT !.bps = <<>>]), "clear">>, <<refresh([d EXCEPT !.watch = <<>>]), "unwatchAll">>}

Edit ==
  /\ moves > 0 /\ host.phase = "off"
  /\ \/ \E e \in Edits : Call(<<e[2]>>) /\ d' = e[1]
     \/ \E a \in DOMAIN Code : Call(<<"add", a>>) /\ d' = AddBreakpoint(d, a)
     \/ \E a \in DOMAIN Bus : Call(<<"see", a>>) /\ d' = AddWatchpoint(d, a, {"read", "write"}, FALSE)
  /\ UNCHANGED <<c, host, from, spared>>

\* SetRegister("pc", a).
SetPC ==
  /\ \E a \in DOMAIN Code :
       Call(<<"pc", a>>) /\ c' = [c EXCEPT !.pc = a, !.sleeping = FALSE]
  /\ d' = [d EXCEPT !.skipArmed = FALSE]
  /\ spared' = NoSpare
  /\ UNCHANGED <<host, from>>

\* Emulator.Resume with a state of this machine, and debugger.reset.
Resume ==
  /\ Call(<<"resume">>) /\ \E s \in Setups : s.calls = calls /\ c' = s.cpu
  /\ d' = refresh([d EXCEPT !.latched = FALSE, !.stop = NoStop, !.goal = "none",
                            !.skipArmed = FALSE, !.trace = <<>>])
  /\ from' = NoFrom /\ spared' = NoSpare
  /\ UNCHANGED host

---------------------------------------------------------------------------
(* InstallAddin: the machine runs until it sleeps, OS functions run in the context of the     *)
(* idle OS, and the machine runs until it has settled, stopped or not.                        *)

Wait(phase) ==
  [phase |-> phase, context |-> Nothing, fns |-> <<>>, left |-> CallBudget, done |-> FALSE]
Off == [Wait("off") EXCEPT !.left = 0]
osIdle(cpu) == cpu.sleeping /\ ~cpu.rb /\ ~cpu.pending

InstallAddin ==
  /\ Call(<<"install">>) /\ host' = Wait("wait")
  /\ UNCHANGED <<c, d, from, spared>>

\* The waits before the OS functions and after them: stepLocked does not look at the stop.
Settle ==
  /\ host.phase \in {"wait", "settle"} /\ ~c.sleeping /\ host.left > 0
  /\ \E m \in stepLocked : Goes(m)
  /\ host' = [host EXCEPT !.left = host.left - 1]
  /\ UNCHANGED <<calls, moves, irqs>>

\* callOS: the function runs on the stack of the context it borrows, with interrupts on.
Borrowed(cpu, fn) ==
  [cpu EXCEPT !.pc = fn, !.frames = Append(cpu.frames, OsReturn), !.bl = FALSE, !.rb = FALSE,
              !.sleeping = FALSE]

callOS(cpu, fns) ==
  /\ c' = Borrowed(cpu, Head(fns))
  /\ host' = [phase |-> "call", context |-> cpu, fns |-> Tail(fns), left |-> CallBudget,
              done |-> FALSE]

Settled ==
  /\ host.phase \in {"wait", "settle"} /\ (c.sleeping \/ host.left = 0)
  /\ IF host.phase = "wait" /\ osIdle(c) THEN callOS(c, Routines) ELSE host' = Off /\ UNCHANGED c
  /\ ran' = Nothing
  /\ UNCHANGED <<d, calls, moves, irqs, from, spared>>

\* The debugger is muted, and the catcher of the return has the place of the native blitter: it
\* puts the CPU to sleep, where a request can still wake it until the chunk of callOS is over.
Caught == c.pc = OsReturn /\ ~Acceptable(c) /\ ~c.sleeping

HostStep ==
  /\ host.phase = "call" /\ host.left > 0
  /\ IF Caught THEN c' = [c EXCEPT !.sleeping = TRUE] /\ ran' = Nothing
     ELSE \E m \in step(Now, FALSE) : c' = m.c /\ ran' = m.ran
  /\ host' = [host EXCEPT !.left = host.left - 1, !.done = host.done \/ Caught]
  /\ UNCHANGED <<d, calls, moves, irqs, from, spared>>

\* What callOS puts back: every register, and then SR, by setSR, which exchanges the banks it
\* has just put back if the call ends in a handler.  Requests and the TLB are as they are now.
RestoredAwake ==
  [host.context EXCEPT !.pending = c.pending, !.resident = c.resident, !.sleeping = FALSE]
Restored ==
  LET k == host.context
  IN [k EXCEPT !.pending = c.pending, !.resident = c.resident,
               !.exchanged = IF c.rb = k.rb THEN k.exchanged ELSE ~k.exchanged]

\* The function returned, or ran out of its budget: then the file is given up.
HostReturn ==
  /\ host.phase = "call" /\ (host.done \/ host.left = 0)
  /\ IF host.done /\ host.fns # <<>> THEN callOS(Restored, host.fns)
     ELSE c' = Restored /\ host' = Wait("settle")
  /\ ran' = Nothing
  /\ UNCHANGED <<d, calls, moves, irqs, from, spared>>

---------------------------------------------------------------------------
Init ==
  /\ \E s \in Setups : c = s.cpu /\ d = s.debugger /\ calls = s.calls /\ moves = s.moves
  /\ host = Off /\ ran = Nothing /\ irqs = MaxIrqs
  /\ from = NoFrom /\ spared = NoSpare

HostStepping == Settle \/ Settled \/ HostStep \/ HostReturn
Steps == StepInto \/ StepOver \/ StepOut \/ RunTo
Host == InstallAddin \/ HostStepping
Next == Run \/ raiseIRQ \/ Pause \/ Continue \/ Steps \/ Edit \/ SetPC \/ Resume \/ Host

Spec == Init /\ [][Next]_vars

\* The host's goroutine keeps calling Run, an install runs in its call, and timers wake the CPU.
\* The first two are weak fairness, with ENABLED written out: Run changes nothing but when the
\* machine is stopped or sleeps on, and a host call always has its next step to make.
FairSpec ==
  /\ Spec
  /\ []<>(d.latched \/ host.phase # "off" \/ osIdle(c)) \/ []<><<Run>>_vars
  /\ []<>(host.phase = "off") \/ []<><<HostStepping>>_vars
  /\ WF_vars(c.sleeping /\ raiseIRQ)

---------------------------------------------------------------------------
(* Properties. *)

\* An instruction ran in this step, and not inside a host call.
Seen == ran'.pc # Nowhere /\ host.phase # "call"
Stopped(reason) == d'.latched /\ ~d.latched /\ d'.stop.reason = reason

\* What the user asked to stop before the instruction at pc.
Stopping(pc) ==
  \/ \E i \in DOMAIN d.bps : /\ d.bps[i].addr = pc /\ Holds(d.bps[i], c)
                             /\ d.bps[i].hits + 1 > d.bps[i].ignore
  \/ d.sys /\ pc = Syscall
  \/ d.goal = "to" /\ pc = d.target

\* The address the debugger still skips: resumed from, and not seen to run since.
skipped == IF spared.at \in {"ahead", "unseen"} THEN spared.pc ELSE Nowhere

\* An instruction the user asked to stop before never runs, but for the one the machine was
\* resumed at, once, where it had run unseen once more; and a stop at a breakpoint is one the
\* user asked for, with nothing run, and not again at the address resumed from, unless its
\* instruction was undone (the page filter, the fast loop of debugRun and the skip of before).
StopsBefore ==
  [][/\ Seen => ran'.pc = skipped \/ ~Stopping(ran'.pc)
     /\ Stopped("breakpoint") => /\ ran'.pc = Nowhere /\ Stopping(c'.pc)
                                 /\ c'.pc = spared.pc => spared.at = "undone"]_vars

\* Resuming never stops again at the address it resumes from before the instruction there has
\* run, one that an MMU fault undid not having run (debug.go:19-21, 318-320).
ContinueMovesOn ==
  [][Stopped("breakpoint") /\ c'.pc = spared.pc => spared.at \notin {"ahead", "undone"}]_vars

Touches(acc) ==
  \E i \in DOMAIN d.watch, k \in DOMAIN acc : Matches(d.watch[i], acc[k])

\* An instruction that completed and touched what is watched, or that took an exception the
\* user breaks on, stops the machine at once; and one that an MMU fault undid after its first
\* access does not count as having touched anything.
StopsAfter ==
  [][/\ Seen /\ ran'.done /\ Touches(ran'.acc) => d'.latched
     /\ Seen /\ ran'.exc \in d.exc => d'.latched /\ d'.stop.reason = "exception"
     /\ Stopped("watchpoint") => ran'.done /\ Touches(ran'.acc)]_vars

\* Where a finished step leaves the program: over a call, in the same call after it; out, in
\* the caller at the return address; into, after one instruction (an untaken bt/s with its
\* slot) or at a handler's entry; to, at its target.  Recursion, interrupt handlers with an rts
\* of their own, and instructions that run twice do not end it elsewhere.
StepLands ==
  [][Stopped("step") =>
       CASE from.goal = "over" -> /\ c'.pc = from.pc + 1 /\ c'.frames = from.frames
                                  /\ c'.saved = from.saved
         [] from.goal = "out" -> IF from.saved = <<>>
                                 THEN /\ from.frames # <<>>
                                      /\ c'.pc = Top(from.frames) /\ c'.saved = <<>>
                                      /\ c'.frames = Popped(from.frames)
                                 ELSE Len(c'.frames) <= Len(from.frames)
         [] from.goal = "into" -> \/ from.count = 0
                                  \/ from.count = 1 /\ Code[from.pc].op = "bts"
         [] from.goal = "to" -> c'.pc = d.target]_vars

\* The CPU but for requests, the TLB and what is in which bank.
Kept(k) == [k EXCEPT !.pending = FALSE, !.resident = FALSE, !.exchanged = FALSE]

\* A host call runs unseen: the debugger neither stops nor counts nor records, and when it ends,
\* by its return or by its budget, the OS goes on asleep where it was, with its registers; but
\* with R0-R7 and the other bank exchanged, exactly if the call ended in a handler.
HostCallsUnseen ==
  [][host.phase = "call" =>
       /\ d' = d
       /\ host'.phase # "call" => /\ Kept(c') = Kept(host.context)
                                  /\ c'.exchanged = host.context.exchanged
                                       <=> c.rb = host.context.rb]_vars

\* A step into an instruction or over a call ends, whatever interrupts come, unless the user
\* has started another.
StepsEnd ==
  (d.goal = "into" \/ from.goal = "over") ~> (d.goal = "none" \/ from.goal \in {"out", "to"})
=============================================================================
