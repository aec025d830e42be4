--------------------------- MODULE DebuggerProofs ---------------------------
(***************************************************************************)
(* Proofs about Debugger: an instruction the user asked to stop before     *)
(* does not run, what must stop the machine after it does, and a host's    *)
(* call into the OS goes by unseen, for every program, every list of       *)
(* breakpoints and watchpoints and every interleaving of the calls.        *)
(*                                                                         *)
(* The argument follows an instruction through dstep: accepted interrupt,  *)
(* checks before, the instruction, checks after.  What carries it is that  *)
(* the page filter and the flags recomputed by refresh cover what is armed *)
(* (Armed), so that the fast paths skip nothing, and that the address      *)
(* resumed from is spared exactly while the debugger skips it (Sparing).   *)
(***************************************************************************)
EXTENDS Debugger, SequenceTheorems, WellFoundedInduction, TLAPS

---------------------------------------------------------------------------
(* What refresh arms. *)

\* The fields of the debugger, and two debuggers that differ in some of them only.
Fields ==
  {"on", "watchOn", "pages", "bps", "watch", "nextID", "sys", "exc", "irq", "goal", "depth",
   "handlers", "target", "intoSlot", "skipArmed", "skipPC", "tracing", "trace", "latched", "stop"}

IsState(b) == DOMAIN b = Fields
Keeps(b, n, changed) == IsState(n) /\ \A f \in Fields \ changed : n[f] = b[f]

\* Something the user asked for is on.
Asked(b) ==
  \/ \E i \in DOMAIN b.bps : b.bps[i].enabled
  \/ \E i \in DOMAIN b.watch : b.watch[i].enabled
  \/ b.sys \/ b.tracing \/ b.exc # {} \/ b.irq \/ b.goal # "none"

\* What is asked for is on a page of the filter, or switches its flag on.
Armed(b) ==
  /\ \A i \in DOMAIN b.bps : b.bps[i].enabled => Page(b.bps[i].addr) \in b.pages
  /\ b.sys => Page(Syscall) \in b.pages
  /\ b.goal = "to" => Page(b.target) \in b.pages
  /\ \A i \in DOMAIN b.watch : b.watch[i].enabled => b.watchOn
  /\ Asked(b) => b.on

Filter == {"on", "watchOn", "pages"}

\* refresh leaves what is asked for armed, and changes nothing else.
LEMMA RefreshArms ==
  ASSUME NEW b, IsState(b)
  PROVE  Armed(refresh(b)) /\ Keeps(b, refresh(b), Filter)
<1> DEFINE stops == {b.bps[i].addr : i \in {i \in DOMAIN b.bps : b.bps[i].enabled}}
                 \cup (IF b.sys THEN {Syscall} ELSE {})
                 \cup (IF b.goal = "to" THEN {b.target} ELSE {})
      watching == \E i \in DOMAIN b.watch : b.watch[i].enabled
      pages == {Page(a) : a \in stops}
      on == stops # {} \/ watching \/ b.tracing \/ b.exc # {} \/ b.irq \/ b.goal # "none"
      n == refresh(b)
<1>1. n = [b EXCEPT !.pages = pages, !.watchOn = watching, !.on = on] BY DEF refresh
<1>2. n.pages = pages /\ n.watchOn = watching /\ n.on = on /\ Keeps(b, n, Filter)
  <2> HIDE DEF n, pages, watching, on, stops
  <2> QED BY ONLY <1>1, IsState(b), Zenon DEF IsState, Fields, Keeps, Filter
<1>3. /\ n.bps = b.bps /\ n.watch = b.watch /\ n.sys = b.sys /\ n.exc = b.exc /\ n.irq = b.irq
      /\ n.goal = b.goal /\ n.tracing = b.tracing /\ n.target = b.target
  <2> HIDE DEF n
  <2> QED BY ONLY <1>2, Zenon DEF Keeps, Fields, Filter
<1>4. Armed(n)
  <2> HIDE DEF n
  <2>1. \A i \in DOMAIN b.bps : b.bps[i].enabled => b.bps[i].addr \in stops OBVIOUS
  <2>2. b.sys => Syscall \in stops OBVIOUS
  <2>3. b.goal = "to" => b.target \in stops OBVIOUS
  <2> HIDE DEF stops
  <2> QED BY <1>2, <1>3, <2>1, <2>2, <2>3 DEF Armed, Asked
<1> HIDE DEF n
<1> QED BY <1>2, <1>4, n = refresh(b) DEF n

---------------------------------------------------------------------------
(* The CPU. *)

CpuFields == {"pc", "frames", "saved", "bl", "rb", "pending", "sleeping", "resident", "exchanged"}
IsCpu(k) == DOMAIN k = CpuFields

Outcome(x) ==
  /\ IsCpu(x.c) /\ x.exc \in {"none", "miss", "trapa"} /\ DOMAIN x.acc \subseteq Nat

\* The CPU keeps its shape, and its calls, when a handler is entered.
LEMMA EnterKeeps ==
  ASSUME NEW k, IsCpu(k), NEW spc, NEW entry
  PROVE  IsCpu(Enter(k, spc, entry)) /\ Enter(k, spc, entry).frames = k.frames
<1> DEFINE s == Append(k.saved, [pc |-> spc, bl |-> k.bl, rb |-> k.rb])
           n == Enter(k, spc, entry)
<1>1. n = [k EXCEPT !.saved = s, !.bl = TRUE, !.rb = TRUE, !.pc = entry] BY DEF Enter
<1> HIDE DEF n, s
<1>2. IsCpu(n) /\ n.frames = k.frames
  BY ONLY <1>1, IsCpu(k), Zenon DEF IsCpu, CpuFields
<1> QED BY <1>2 DEF n

\* ... when an interrupt is accepted,
LEMMA AcceptKeeps ==
  ASSUME NEW k, IsCpu(k)
  PROVE  IsCpu(acceptInterrupt(k)) /\ acceptInterrupt(k).frames = k.frames
<1> DEFINE e == Enter(k, k.pc, IrqEntry)
           n == [e EXCEPT !.pending = FALSE]
<1>1. IsCpu(e) /\ e.frames = k.frames BY EnterKeeps
<1> HIDE DEF e
<1>2. IsCpu(n) /\ n.frames = e.frames BY ONLY <1>1, Zenon DEF IsCpu, CpuFields
<1>3. acceptInterrupt(k) = IF Acceptable(k) THEN n ELSE k BY DEF acceptInterrupt, e
<1> HIDE DEF n
<1> QED BY <1>1, <1>2, <1>3

\* One field of the CPU changes, or two.
LEMMA CpuChange ==
  ASSUME NEW k, IsCpu(k), NEW v, NEW w
  PROVE  /\ IsCpu([k EXCEPT !.pc = v])
         /\ IsCpu([k EXCEPT !.sleeping = v])
         /\ IsCpu([k EXCEPT !.resident = v])
         /\ IsCpu([k EXCEPT !.frames = v])
         /\ IsCpu([k EXCEPT !.pc = v, !.frames = w])
         /\ IsCpu([k EXCEPT !.frames = v, !.rb = w])
BY ONLY IsCpu(k), Zenon DEF IsCpu, CpuFields

\* ... when a handler is left,
LEMMA LeaveKeeps ==
  ASSUME NEW k, IsCpu(k) PROVE IsCpu(Leave(k))
<1> DEFINE p == Top(k.saved).pc
           l == Top(k.saved).bl
           r == Top(k.saved).rb
           s == Popped(k.saved)
<1>1. Leave(k) = [k EXCEPT !.pc = p, !.bl = l, !.rb = r, !.saved = s] BY DEF Leave
<1> HIDE DEF p, l, r, s
<1> QED BY ONLY <1>1, IsCpu(k), Zenon DEF IsCpu, CpuFields

\* ... and in an instruction.
LEMMA FlowsKeep ==
  ASSUME NEW k, IsCpu(k), k.pc \in DOMAIN Code, Code[k.pc].op # "trapa",
         NEW n \in Flows(k)
  PROVE  IsCpu(n)
<1> DEFINE i == Code[k.pc]
           on == [k EXCEPT !.pc = k.pc + 1]
           taken == [k EXCEPT !.pc = i.to]
           f == Append(k.frames, k.pc + 1)
           r == Top(k.saved).rb
<1>1. i.op \in Ops BY TracedAssumption
<1>2. IsCpu(on) /\ IsCpu(taken) BY CpuChange
<1>3. n \in {on, taken, [on EXCEPT !.sleeping = TRUE], [on EXCEPT !.resident = TRUE],
             [on EXCEPT !.resident = FALSE], [taken EXCEPT !.frames = f],
             [taken EXCEPT !.frames = f, !.rb = r], Return(k), Leave(k)}
  <2> DEFINE one == [on EXCEPT !.sleeping = TRUE]
             two == [on EXCEPT !.resident = TRUE]
             three == [on EXCEPT !.resident = FALSE]
             four == [taken EXCEPT !.frames = f]
             five == [taken EXCEPT !.frames = f, !.rb = r]
  <2>1. Flows(k) =
          CASE i.op = "plain" -> {on}
            [] i.op = "sleep" -> {one}
            [] i.op = "fill" -> {two}
            [] i.op = "flush" -> {three}
            [] i.op = "jmp" -> {taken}
            [] i.op \in {"bt", "bts"} -> IF Len(k.frames) >= MaxFrames THEN {taken} ELSE {on, taken}
            [] i.op = "call" -> {four}
            [] i.op = "rts" -> {Return(k)}
            [] i.op = "rte" -> {Leave(k)}
            [] i.op = "enter" -> {five}
    BY DEF Flows
  <2>2. i.op # "trapa" BY Code[k.pc].op # "trapa"
  <2> HIDE DEF on, taken, one, two, three, four, five, i
  <2>3. n \in {on, taken, one, two, three, four, five, Return(k), Leave(k)}
    BY <1>1, <2>1, <2>2, n \in Flows(k) DEF Ops
  <2> QED BY <2>3 DEF one, two, three, four, five
<1> HIDE DEF on, taken, f, r
<1>4. /\ IsCpu([on EXCEPT !.sleeping = TRUE]) /\ IsCpu([on EXCEPT !.resident = TRUE])
      /\ IsCpu([on EXCEPT !.resident = FALSE]) /\ IsCpu([taken EXCEPT !.frames = f])
      /\ IsCpu([taken EXCEPT !.frames = f, !.rb = r])
  BY <1>2, CpuChange
<1>5. IsCpu(Return(k)) /\ IsCpu(Leave(k)) BY CpuChange, LeaveKeeps DEF Return
<1> QED BY <1>2, <1>3, <1>4, <1>5

Below == {p \in Nat \X Nat : p[1] < p[2]}

\* A set of numbers has a least one.
LEMMA LeastExists ==
  ASSUME NEW S, S \subseteq Nat, S # {}
  PROVE  \E j \in S : \A l \in S : j <= l
<1>1. IsWellFoundedOn(Below, Nat) BY NatLessThanWellFounded DEF OpToRel, Below
<1>2. PICK j \in S : \A l \in S : ~(<<l, j>> \in Below) BY <1>1, WFMin
<1>3. ASSUME NEW l \in S PROVE j <= l
  <2>1. l < j => <<l, j>> \in Below BY DEF Below
  <2> QED BY <1>2, <2>1
<1> QED BY <1>3

\* What runs at an address is an outcome, and it is somewhere.
LEMMA RunsOutcome ==
  ASSUME NEW k, IsCpu(k), NEW x \in Runs(k)
  PROVE  Outcome(x) /\ k.pc # Nowhere
<1>1. CASE x \in Native(k)
  <2>1. x.c = Return(k) /\ x.exc = "none" /\ x.acc = <<>> BY <1>1 DEF Native
  <2>2. IsCpu(Return(k)) BY CpuChange DEF Return
  <2>3. k.pc = HlePC BY <1>1 DEF Native
  <2> QED BY <2>1, <2>2, <2>3, TracedAssumption DEF Outcome
<1>2. CASE x \in execute(k)
  <2> DEFINE acc == Code[k.pc].acc
             n == FirstMiss(k)
  <2>1. k.pc \in DOMAIN Code BY <1>2 DEF execute
  <2>2. acc \in Seq(Access) BY <2>1, TracedAssumption
  <2>3. DOMAIN acc \subseteq Nat BY <2>2
  <2>4. ASSUME n # 0 PROVE Outcome(x)
    <3>1. x = [c |-> Enter(k, k.pc, ExcEntry), exc |-> "miss", acc |-> SubSeq(acc, 1, n - 1),
               ret |-> FALSE]
      BY <1>2, <2>1, <2>4 DEF execute
    <3>2. n \in DOMAIN acc
      <4> DEFINE missing == {j \in DOMAIN acc : acc[j].paged /\ ~k.resident}
      <4>1. missing # {} /\ n = CHOOSE j \in missing : \A l \in missing : j <= l
        <5>1. n = IF missing = {} THEN 0 ELSE CHOOSE j \in missing : \A l \in missing : j <= l
          BY DEF FirstMiss
        <5> QED BY <5>1, <2>4
      <4>2. missing \subseteq Nat BY <2>3
      <4> HIDE DEF missing
      <4>3. \E j \in missing : \A l \in missing : j <= l BY <4>1, <4>2, LeastExists
      <4>4. n \in missing BY <4>1, <4>3
      <4> QED BY <4>4 DEF missing
    <3>3. DOMAIN SubSeq(acc, 1, n - 1) \subseteq Nat
      BY <2>2, <2>3, <3>2
    <3> QED BY <3>1, <3>3, EnterKeeps DEF Outcome
  <2>5. ASSUME n = 0, Code[k.pc].op = "trapa" PROVE Outcome(x)
    <3>1. x = [c |-> Enter(k, k.pc + 1, ExcEntry), exc |-> "trapa", acc |-> acc, ret |-> FALSE]
      BY <1>2, <2>1, <2>5 DEF execute
    <3> QED BY <3>1, <2>3, EnterKeeps DEF Outcome
  <2>6. ASSUME n = 0, Code[k.pc].op # "trapa" PROVE Outcome(x)
    <3>1. PICK f \in Flows(k) : x = [c |-> f, exc |-> "none", acc |-> acc, ret |-> FALSE]
      BY <1>2, <2>1, <2>6 DEF execute
    <3> QED BY <3>1, <2>1, <2>3, <2>6, FlowsKeep DEF Outcome
  <2>7. k.pc # Nowhere BY <2>1, TracedAssumption
  <2> QED BY <2>4, <2>5, <2>6, <2>7
<1> QED BY <1>1, <1>2 DEF Runs

---------------------------------------------------------------------------
(* Lists, watchpoints and stops. *)

\* The lists the user keeps are lists of breakpoints and of watchpoints.
Lists(b) ==
  /\ b.bps \in Seq(Breakpoint) /\ b.watch \in Seq(Watchpoint)
  /\ b.nextID \in Nat \ {0} /\ b.exc \subseteq {"miss", "trapa"}

Ready(b) == IsState(b) /\ Lists(b) /\ Armed(b)

\* What touches a watchpoint of b.
TouchesOf(b, acc) == \E i \in DOMAIN b.watch, k \in DOMAIN acc : Matches(b.watch[i], acc[k])

\* A set of pairs has a first one.
LEMMA FirstPair ==
  ASSUME NEW A, A \subseteq Nat, NEW B, B \subseteq Nat, NEW H, H \subseteq A \X B, H # {}
  PROVE  \E n \in H : \A o \in H : n[1] < o[1] \/ (n[1] = o[1] /\ n[2] <= o[2])
<1> DEFINE L == {n[1] : n \in H}
<1>1. L \subseteq Nat /\ L # {} OBVIOUS
<1> HIDE DEF L
<1>2. PICK x \in L : \A y \in L : x <= y BY <1>1, LeastExists
<1> DEFINE R == {n[2] : n \in {n \in H : n[1] = x}}
<1>3. R \subseteq Nat /\ R # {} BY <1>2 DEF L
<1> HIDE DEF R
<1>4. PICK r \in R : \A y \in R : r <= y BY <1>3, LeastExists
<1>5. PICK n \in H : n[1] = x /\ n[2] = r BY <1>4 DEF R
<1>6. ASSUME NEW o \in H PROVE n[1] < o[1] \/ (n[1] = o[1] /\ n[2] <= o[2])
  <2>1. o[1] \in Nat /\ o[2] \in Nat /\ x \in Nat BY <1>1, <1>2
  <2>2. x <= o[1] BY <1>2 DEF L
  <2>3. o[1] = x => r <= o[2] BY <1>4 DEF R
  <2> QED BY <1>5, <2>1, <2>2, <2>3
<1> QED BY <1>6

\* access finds a watchpoint exactly when one was touched.
LEMMA WatchedWhen ==
  ASSUME NEW b, Ready(b), NEW acc, DOMAIN acc \subseteq Nat
  PROVE  Watched(b, acc) # 0 <=> TouchesOf(b, acc)
<1> DEFINE hits == {n \in (DOMAIN acc) \X (DOMAIN b.watch) : Matches(b.watch[n[2]], acc[n[1]])}
           first == {n \in hits : \A o \in hits : n[1] < o[1] \/ (n[1] = o[1] /\ n[2] <= o[2])}
           p == CHOOSE n \in first : TRUE
<1>1. Watched(b, acc) = IF ~b.watchOn THEN 0 ELSE IF hits = {} THEN 0 ELSE b.watch[p[2]].id
  BY DEF Watched
<1>2. hits = {} <=> ~TouchesOf(b, acc)
  <2>1. ASSUME TouchesOf(b, acc) PROVE hits # {}
    <3>1. PICK i \in DOMAIN b.watch, k \in DOMAIN acc : Matches(b.watch[i], acc[k])
      BY <2>1 DEF TouchesOf
    <3>2. <<k, i>> \in hits BY <3>1
    <3> QED BY <3>2
  <2>2. ASSUME NEW n \in hits PROVE TouchesOf(b, acc) BY DEF TouchesOf
  <2> QED BY <2>1, <2>2
<1>3. b.watch \in Seq(Watchpoint) BY DEF Ready, Lists
<1>4. DOMAIN b.watch \subseteq Nat BY <1>3
<1>5. ~b.watchOn => ~TouchesOf(b, acc) BY DEF Ready, Armed, TouchesOf, Matches
<1>6. ASSUME hits # {} PROVE b.watch[p[2]].id # 0
  <2>1. hits \subseteq (DOMAIN acc) \X (DOMAIN b.watch) OBVIOUS
  <2>2. first # {}
    <3> HIDE DEF hits
    <3> QED BY <1>4, <1>6, <2>1, FirstPair
  <2>3. p \in hits BY <2>2
  <2> HIDE DEF hits, first, p
  <2>4. p[2] \in DOMAIN b.watch BY <2>1, <2>3
  <2>5. b.watch[p[2]] \in Watchpoint BY <1>3, <2>4
  <2> QED BY <2>5 DEF Watchpoint
<1> HIDE DEF hits, first, p
<1> QED BY <1>1, <1>2, <1>5, <1>6

---------------------------------------------------------------------------
\* A machine, as the checks pass it on.
IsMachine(m) == DOMAIN m = {"c", "d", "ran"} /\ IsCpu(m.c) /\ Ready(m.d)

StopFields == {"latched", "skipArmed", "goal", "stop"}

\* n is m stopped for this reason.
StoppedAs(m, n, reason) ==
  /\ IsMachine(n) /\ n.c = m.c /\ n.ran = m.ran
  /\ n.d.latched /\ ~n.d.skipArmed /\ n.d.stop.reason = reason
  /\ Keeps(m.d, n.d, StopFields \cup Filter)

\* latch stops the machine, and leaves what is armed armed.
LEMMA LatchStops ==
  ASSUME NEW m, IsMachine(m), NEW reason, NEW id
  PROVE  StoppedAs(m, latch(m, reason, id), reason)
<1> DEFINE b0 == m.d
           stop == [reason |-> reason, id |-> id, pc |-> m.c.pc]
           b == [m.d EXCEPT !.latched = TRUE, !.skipArmed = FALSE, !.goal = "none", !.stop = stop]
           e == IF m.d.goal # "none" THEN refresh(b) ELSE b
           n == latch(m, reason, id)
<1>1. n = [m EXCEPT !.d = e] BY DEF latch
<1>2. Ready(b0) /\ IsState(b0) BY DEF IsMachine, Ready
<1>3. /\ Keeps(b0, b, StopFields)
      /\ b.latched = TRUE /\ b.skipArmed = FALSE /\ b.goal = "none" /\ b.stop = stop
  <2>1. b = [b0 EXCEPT !.latched = TRUE, !.skipArmed = FALSE, !.goal = "none", !.stop = stop]
    OBVIOUS
  <2> HIDE DEF b, stop, b0
  <2> QED BY ONLY <2>1, <1>2, Zenon DEF IsState, Fields, Keeps, StopFields
<1>4. stop.reason = reason OBVIOUS
<1> HIDE DEF b, stop
<1>5. /\ IsState(b) /\ b.bps = b0.bps /\ b.watch = b0.watch /\ b.nextID = b0.nextID
      /\ b.exc = b0.exc /\ b.pages = b0.pages /\ b.on = b0.on /\ b.watchOn = b0.watchOn
      /\ b.sys = b0.sys /\ b.irq = b0.irq /\ b.tracing = b0.tracing /\ b.target = b0.target
  <2> HIDE DEF b0
  <2> QED BY ONLY <1>3, Zenon DEF Keeps, Fields, StopFields
<1>6. Lists(b)
  BY <1>2, <1>5 DEF Ready, Lists
<1>7. /\ Ready(e) /\ Keeps(b0, e, StopFields \cup Filter)
      /\ e.latched /\ ~e.skipArmed /\ e.stop = stop
  <2>1. CASE b0.goal = "none"
    <3>1. e = b BY <2>1
    <3>2. Armed(b)
      <4> HIDE DEF b0
      <4> QED BY ONLY <1>2, <1>3, <1>5, <2>1 DEF Ready, Armed, Asked
    <3>3. Keeps(b0, b, StopFields \cup Filter) BY <1>3 DEF Keeps
    <3> HIDE DEF e
    <3> QED BY <3>1, <3>2, <3>3, <1>3, <1>5, <1>6 DEF Ready
  <2>2. CASE b0.goal # "none"
    <3>1. e = refresh(b) BY <2>2
    <3>2. Armed(e) /\ Keeps(b, e, Filter) BY <1>5, <3>1, RefreshArms
    <3> HIDE DEF e, b0
    <3>3. /\ e.bps = b.bps /\ e.watch = b.watch /\ e.nextID = b.nextID /\ e.exc = b.exc
          /\ e.latched = b.latched /\ e.skipArmed = b.skipArmed /\ e.stop = b.stop
      BY ONLY <3>2, Zenon DEF Keeps, Fields, Filter
    <3>4. Keeps(b0, e, StopFields \cup Filter) BY ONLY <3>2, <1>3, Zenon DEF Keeps
    <3> QED BY <3>2, <3>3, <3>4, <1>3, <1>6 DEF Ready, Lists, Keeps
  <2> QED BY <2>1, <2>2
<1> HIDE DEF e, n
<1>8. DOMAIN n = {"c", "d", "ran"} /\ n.c = m.c /\ n.ran = m.ran /\ n.d = e
  BY ONLY <1>1, IsMachine(m), Zenon DEF IsMachine
<1>9. IsMachine(n) BY <1>7, <1>8 DEF IsMachine
<1> QED BY <1>4, <1>7, <1>8, <1>9 DEF StoppedAs, n

---------------------------------------------------------------------------
(* Around an instruction: the interrupt before it. *)

\* What no list, filter or break of b rests on.
Free == {"depth", "handlers", "intoSlot", "skipArmed", "skipPC", "trace", "latched", "stop"}

\* The other fields leave it so.
LEMMA FreeFields ==
  ASSUME NEW b, Ready(b), NEW n, NEW S, S \subseteq Free, Keeps(b, n, S)
  PROVE  Ready(n)
<1>1. /\ n.bps = b.bps /\ n.watch = b.watch /\ n.nextID = b.nextID /\ n.exc = b.exc
      /\ n.pages = b.pages /\ n.on = b.on /\ n.watchOn = b.watchOn /\ n.sys = b.sys
      /\ n.irq = b.irq /\ n.tracing = b.tracing /\ n.target = b.target /\ n.goal = b.goal
  BY ONLY Keeps(b, n, S), S \subseteq Free, Zenon DEF Keeps, Fields, Free
<1>2. IsState(n) BY DEF Keeps
<1>3. Lists(n) BY <1>1 DEF Lists, Ready
<1>4. Armed(n) BY ONLY <1>1, Ready(b) DEF Armed, Asked, Ready
<1> QED BY <1>2, <1>3, <1>4 DEF Ready

\* A machine with another CPU, or another debugger.
LEMMA NewCpu ==
  ASSUME NEW m, IsMachine(m), NEW k, IsCpu(k), NEW n, n = [m EXCEPT !.c = k]
  PROVE  IsMachine(n) /\ n.c = k /\ n.d = m.d /\ n.ran = m.ran
BY ONLY IsMachine(m), IsCpu(k), n = [m EXCEPT !.c = k], Zenon DEF IsMachine

LEMMA NewDebugger ==
  ASSUME NEW m, IsMachine(m), NEW b, Ready(b), NEW n, n = [m EXCEPT !.d = b]
  PROVE  IsMachine(n) /\ n.c = m.c /\ n.d = b /\ n.ran = m.ran
BY ONLY IsMachine(m), Ready(b), n = [m EXCEPT !.d = b], Zenon DEF IsMachine

\* A handler that is noted changes the handlers.
LEMMA EnterHandlerKeeps ==
  ASSUME NEW b, Ready(b), NEW spc
  PROVE  Ready(enterHandler(b, spc)) /\ Keeps(b, enterHandler(b, spc), {"handlers"})
<1> DEFINE h == Append(IF Len(b.handlers) = HandlerRoom THEN Tail(b.handlers) ELSE b.handlers, spc)
           n == enterHandler(b, spc)
<1>1. n = [b EXCEPT !.handlers = h] BY DEF enterHandler
<1>2. IsState(b) BY DEF Ready
<1> HIDE DEF n, h
<1>3. Keeps(b, n, {"handlers"}) BY ONLY <1>1, <1>2, Zenon DEF Keeps, IsState, Fields
<1>4. {"handlers"} \subseteq Free BY DEF Free
<1>5. Ready(n) BY <1>3, <1>4, FreeFields
<1> QED BY <1>3, <1>5 DEF n

\* n stopped for one of the reasons.
Halted(n, reasons) == n.d.latched /\ ~n.d.skipArmed /\ n.d.stop.reason \in reasons

\* The machine m once an interrupt was accepted, or none.
AfterInterrupt(m, i) ==
  /\ IsMachine(i) /\ i.ran = m.ran /\ i.c.frames = m.c.frames
  /\ \/ Halted(i, {"step", "interrupt"})
     \/ Keeps(m.d, i.d, {"handlers"})

\* An acceptance stops the machine, or notes a handler.
LEMMA InterruptedStep ==
  ASSUME NEW m, IsMachine(m)
  PROVE  AfterInterrupt(m, Interrupted(m))
<1> DEFINE k == acceptInterrupt(m.c)
           n == [m EXCEPT !.c = k]
           h == enterHandler(m.d, m.c.pc)
           noted == IF m.d.goal = "return" THEN [n EXCEPT !.d = h] ELSE n
           i == Interrupted(m)
<1>1. i = IF ~Acceptable(m.c) THEN m
          ELSE IF m.d.goal = "into" THEN latch(n, "step", 0)
          ELSE IF m.d.irq THEN latch(noted, "interrupt", 0) ELSE noted
  BY DEF Interrupted
<1>2. IsCpu(m.c) /\ Ready(m.d) BY DEF IsMachine
<1>3. IsCpu(k) /\ k.frames = m.c.frames BY <1>2, AcceptKeeps
<1>4. Ready(h) /\ Keeps(m.d, h, {"handlers"}) BY <1>2, EnterHandlerKeeps
<1> HIDE DEF k, h, i
<1>5. IsMachine(n) /\ n.c = k /\ n.d = m.d /\ n.ran = m.ran
  BY ONLY <1>2, <1>3, IsMachine(m), NewCpu, Zenon
<1>6. Keeps(m.d, m.d, {"handlers"}) BY <1>2 DEF Keeps, Ready
<1> HIDE DEF n
<1>7. /\ IsMachine(noted) /\ noted.c = k /\ noted.ran = m.ran
      /\ Keeps(m.d, noted.d, {"handlers"})
  <2>1. CASE m.d.goal = "return"
    <3>1. noted = [n EXCEPT !.d = h] BY <2>1
    <3> HIDE DEF noted
    <3>2. IsMachine(noted) /\ noted.c = n.c /\ noted.d = h /\ noted.ran = n.ran
      <4>1. IsMachine(n) /\ Ready(h) BY ONLY <1>4, <1>5
      <4> QED BY ONLY <3>1, <4>1, NewDebugger
    <3> QED BY <3>2, <1>4, <1>5
  <2>2. CASE m.d.goal # "return" BY <2>2, <1>5, <1>6
  <2> QED BY <2>1, <2>2
<1> HIDE DEF noted
<1>8. /\ StoppedAs(n, latch(n, "step", 0), "step")
      /\ StoppedAs(noted, latch(noted, "interrupt", 0), "interrupt")
  <2>1. IsMachine(n) /\ IsMachine(noted) BY ONLY <1>5, <1>7
  <2> QED BY ONLY <2>1, LatchStops
<1> SUFFICES AfterInterrupt(m, i) BY DEF i
<1>9. CASE i = m BY <1>9, <1>6 DEF AfterInterrupt
<1>10. CASE i = latch(n, "step", 0)
  BY ONLY <1>10, <1>8, <1>5, <1>3 DEF AfterInterrupt, StoppedAs, Halted
<1>11. CASE i = latch(noted, "interrupt", 0)
  BY ONLY <1>11, <1>8, <1>7, <1>3 DEF AfterInterrupt, StoppedAs, Halted
<1>12. CASE i = noted BY <1>12, <1>7, <1>3 DEF AfterInterrupt
<1> QED BY <1>1, <1>9, <1>10, <1>11, <1>12

---------------------------------------------------------------------------
\* What the user asked to stop before at pc.
StopsAt(m, pc) ==
  \/ \E i \in DOMAIN m.d.bps : /\ m.d.bps[i].addr = pc /\ Holds(m.d.bps[i], m.c)
                               /\ m.d.bps[i].hits + 1 > m.d.bps[i].ignore
  \/ m.d.sys /\ pc = Syscall
  \/ m.d.goal = "to" /\ pc = m.d.target

\* The debugger skips what is at pc, having been resumed there.
Skips(b, pc) == b.skipArmed /\ pc = b.skipPC

\* The machine m after the checks before an instruction.
AfterBefore(m, s) ==
  /\ IsMachine(s) /\ s.c = m.c /\ s.ran = m.ran
  /\ \/ Halted(s, {"step", "syscall"})
     \/ /\ Halted(s, {"breakpoint"})
        /\ StopsAt(m, m.c.pc) /\ ~Skips(m.d, m.c.pc) /\ m.c.pc \in DOMAIN Code
     \/ /\ Keeps(m.d, s.d, {"bps"})
        /\ Skips(m.d, m.c.pc) \/ ~StopsAt(m, m.c.pc)

\* A hit is counted, and changes nothing else.
LEMMA CountHit ==
  ASSUME NEW bp \in Breakpoint, NEW n, n = [bp EXCEPT !.hits = Capped(bp.hits + 1)]
  PROVE  n \in Breakpoint /\ n.enabled = bp.enabled /\ n.addr = bp.addr
<1> DEFINE h == Capped(bp.hits + 1)
<1>1. h \in Nat BY DebuggerAssumption DEF Capped, Breakpoint
<1> HIDE DEF h
<1>2. n = [bp EXCEPT !.hits = h] BY DEF h
<1> QED BY ONLY <1>1, <1>2, bp \in Breakpoint DEF Breakpoint

\* New breakpoints at the addresses of the old.
LEMMA SameStops ==
  ASSUME NEW b, Ready(b), NEW B \in Seq(Breakpoint), DOMAIN B = DOMAIN b.bps,
         \A i \in DOMAIN B : B[i].addr = b.bps[i].addr /\ B[i].enabled = b.bps[i].enabled,
         NEW n, n = [b EXCEPT !.bps = B]
  PROVE  Ready(n) /\ Keeps(b, n, {"bps"})
<1>1. IsState(b) BY DEF Ready
<1>2. n.bps = B /\ Keeps(b, n, {"bps"})
  BY ONLY <1>1, n = [b EXCEPT !.bps = B], Zenon DEF IsState, Keeps, Fields
<1>3. /\ n.watch = b.watch /\ n.nextID = b.nextID /\ n.exc = b.exc
      /\ n.pages = b.pages /\ n.on = b.on /\ n.watchOn = b.watchOn /\ n.sys = b.sys
      /\ n.irq = b.irq /\ n.tracing = b.tracing /\ n.target = b.target /\ n.goal = b.goal
  BY ONLY <1>2, Zenon DEF Keeps, Fields
<1>4. IsState(n) BY <1>2 DEF Keeps
<1>5. Lists(n) BY <1>2, <1>3 DEF Lists, Ready
<1>6. Armed(n) BY <1>2, <1>3 DEF Armed, Asked, Ready
<1> QED BY <1>2, <1>4, <1>5, <1>6 DEF Ready

---------------------------------------------------------------------------
(* The checks before the instruction. *)

\* The breakpoints at an address: a stop when one of them stops, and only counts otherwise.
LEMMA HitStep ==
  ASSUME NEW m, IsMachine(m), ~Skips(m.d, m.c.pc),
         ~(m.d.sys /\ m.c.pc = Syscall), ~(m.d.goal = "to" /\ m.c.pc = m.d.target)
  PROVE  AfterBefore(m, Hit(m))
<1> DEFINE b == m.d
           reached == {i \in DOMAIN b.bps : b.bps[i].addr = m.c.pc /\ Holds(b.bps[i], m.c)}
           stopping == {i \in reached : b.bps[i].hits + 1 > b.bps[i].ignore}
           counted == {i \in reached : \A j \in stopping : i <= j}
           up(i) == [b.bps[i] EXCEPT !.hits = Capped(b.bps[i].hits + 1)]
           B == [i \in DOMAIN b.bps |-> IF i \in counted THEN up(i) ELSE b.bps[i]]
           e == [b EXCEPT !.bps = B]
           after == [m EXCEPT !.d = e]
           id == b.bps[Min(stopping)].id
           s == Hit(m)
<1>1. s = IF stopping = {} THEN after ELSE latch(after, "breakpoint", id)
  BY DEF Hit
<1>2. Ready(b) /\ IsMachine(m) BY DEF IsMachine
<1>3. b.bps \in Seq(Breakpoint) BY <1>2 DEF Ready, Lists
<1> HIDE DEF b, counted
<1>4. ASSUME NEW i \in DOMAIN b.bps
      PROVE  /\ b.bps[i] \in Breakpoint /\ B[i] \in Breakpoint
             /\ B[i].addr = b.bps[i].addr /\ B[i].enabled = b.bps[i].enabled
  <2>1. b.bps[i] \in Breakpoint BY <1>3
  <2>2. /\ up(i) \in Breakpoint
        /\ up(i).addr = b.bps[i].addr /\ up(i).enabled = b.bps[i].enabled
    <3> DEFINE u == up(i)
    <3>1. u = [b.bps[i] EXCEPT !.hits = Capped(b.bps[i].hits + 1)] OBVIOUS
    <3> HIDE DEF u
    <3> QED BY <2>1, <3>1, CountHit DEF u
  <2>3. B[i] = up(i) \/ B[i] = b.bps[i] OBVIOUS
  <2> HIDE DEF B, up
  <2> QED BY <2>1, <2>2, <2>3
<1>5. B \in Seq(Breakpoint) /\ DOMAIN B = DOMAIN b.bps
  <2>1. DOMAIN b.bps = 1..Len(b.bps) /\ Len(b.bps) \in Nat BY <1>3
  <2>2. B = [i \in 1..Len(b.bps) |-> B[i]] BY <2>1
  <2>3. \A i \in 1..Len(b.bps) : B[i] \in Breakpoint BY <1>4, <2>1
  <2>4. DOMAIN B = DOMAIN b.bps OBVIOUS
  <2> HIDE DEF B
  <2>5. B \in [1..Len(b.bps) -> Breakpoint] BY <2>2, <2>3
  <2>6. B \in Seq(Breakpoint) BY ONLY <2>1, <2>5, SeqDef
  <2> QED BY <2>4, <2>6
<1> HIDE DEF B, stopping
<1>6. e = [b EXCEPT !.bps = B] OBVIOUS
<1> HIDE DEF e
<1>7. Ready(e) /\ Keeps(b, e, {"bps"}) BY <1>2, <1>4, <1>5, <1>6, SameStops
<1>8. after = [m EXCEPT !.d = e] OBVIOUS
<1> HIDE DEF after
<1>9. IsMachine(after) /\ after.c = m.c /\ after.d = e /\ after.ran = m.ran
  BY <1>2, <1>7, <1>8, NewDebugger
<1> HIDE DEF s, id
<1> SUFFICES AfterBefore(m, s) BY DEF s
<1>10. CASE stopping = {}
  <2>1. ~StopsAt(m, m.c.pc) BY <1>10 DEF StopsAt, stopping, b
  <2>2. s = after BY <1>1, <1>10
  <2> QED BY <1>7, <1>9, <2>1, <2>2 DEF AfterBefore, b
<1>11. CASE stopping # {}
  <2>1. StoppedAs(after, s, "breakpoint") BY <1>1, <1>9, <1>11, LatchStops
  <2>2. PICK i \in DOMAIN b.bps : /\ b.bps[i].addr = m.c.pc /\ Holds(b.bps[i], m.c)
                                  /\ b.bps[i].hits + 1 > b.bps[i].ignore
    BY <1>11 DEF stopping
  <2>3. StopsAt(m, m.c.pc) BY <2>2 DEF StopsAt, b
  <2>4. m.c.pc \in DOMAIN Code BY <1>4, <2>2 DEF Breakpoint
  <2> QED BY <1>9, <2>1, <2>3, <2>4 DEF AfterBefore, StoppedAs, Halted
<1> QED BY <1>10, <1>11

\* before: it stops at what stops, but for what is skipped; the page filter loses none.
LEMMA BeforeStep ==
  ASSUME NEW m, IsMachine(m)
  PROVE  AfterBefore(m, before(m))
<1> DEFINE s == before(m)
           pc == m.c.pc
<1>1. s = IF Page(pc) \notin m.d.pages \/ Skips(m.d, pc) THEN m
          ELSE IF m.d.goal = "to" /\ pc = m.d.target THEN latch(m, "step", 0)
          ELSE IF m.d.sys /\ pc = Syscall THEN latch(m, "syscall", 0)
          ELSE Hit(m)
  BY DEF before, Skips
<1>2. Ready(m.d) BY DEF IsMachine
<1>3. Page(pc) \notin m.d.pages => ~StopsAt(m, pc)
  BY <1>2 DEF Ready, Armed, StopsAt, Holds
<1>4. Keeps(m.d, m.d, {"bps"}) BY <1>2 DEF Ready, Keeps
<1>5. StoppedAs(m, latch(m, "step", 0), "step") /\ StoppedAs(m, latch(m, "syscall", 0), "syscall")
  BY LatchStops
<1> HIDE DEF s
<1> SUFFICES AfterBefore(m, s) BY DEF s
<1>6. CASE Page(pc) \notin m.d.pages \/ Skips(m.d, pc)
  BY <1>1, <1>3, <1>4, <1>6 DEF AfterBefore
<1>7. CASE s = latch(m, "step", 0) \/ s = latch(m, "syscall", 0)
  BY <1>5, <1>7 DEF AfterBefore, StoppedAs, Halted
<1>8. CASE ~(Page(pc) \notin m.d.pages \/ Skips(m.d, pc)) /\ ~(m.d.goal = "to" /\ pc = m.d.target)
           /\ ~(m.d.sys /\ pc = Syscall)
  BY <1>1, <1>8, HitStep
<1> QED BY <1>1, <1>6, <1>7, <1>8

---------------------------------------------------------------------------
(* After the instruction. *)

\* The trace and the end of the skip.
LEMMA RecordedKeeps ==
  ASSUME NEW b, Ready(b), NEW pc
  PROVE  /\ Ready(Recorded(b, pc)) /\ Keeps(b, Recorded(b, pc), {"trace", "skipArmed"})
         /\ Recorded(b, pc).skipArmed <=> b.skipArmed /\ pc # b.skipPC
<1> DEFINE t == Append(b.trace, pc)
           room == IF Len(t) > TraceRoom THEN Tail(t) ELSE t
           trace == IF b.tracing THEN room ELSE b.trace
           armed == b.skipArmed /\ pc # b.skipPC
           n == Recorded(b, pc)
<1>1. n = [b EXCEPT !.trace = trace, !.skipArmed = armed] BY DEF Recorded
<1>2. IsState(b) BY DEF Ready
<1>3. n.skipArmed = armed /\ Keeps(b, n, {"trace", "skipArmed"})
  <2> HIDE DEF n, armed, trace
  <2> QED BY ONLY <1>1, <1>2, Zenon DEF IsState, Keeps, Fields
<1>4. {"trace", "skipArmed"} \subseteq Free BY DEF Free
<1> HIDE DEF n
<1>5. Ready(n) BY <1>3, <1>4, FreeFields
<1> QED BY <1>3, <1>5 DEF n

\* The debugger of n with other handlers or another depth, or n stopped at the end of a step.
AfterCount(n, r) ==
  /\ IsMachine(r) /\ r.c = n.c /\ r.ran = n.ran
  /\ Halted(r, {"step"}) \/ Keeps(n.d, r.d, {"handlers", "depth"})

\* What a step over or out counts does not touch what is armed.
LEMMA CountedStep ==
  ASSUME NEW n, IsMachine(n), NEW pc, NEW x
  PROVE  AfterCount(n, Counted(n, pc, x))
<1> DEFINE h == enterHandler(n.d, Top(x.c.saved).pc)
           b == IF x.exc # "none" THEN h ELSE n.d
           popped == Popped(b.handlers)
           left == [b EXCEPT !.handlers = popped]
           d1 == b.depth - 1
           d2 == b.depth + 1
           r == Counted(n, pc, x)
<1>1. Ready(n.d) BY DEF IsMachine
<1>2. Ready(b) /\ Keeps(n.d, b, {"handlers"})
  <2>1. Ready(h) /\ Keeps(n.d, h, {"handlers"}) BY <1>1, EnterHandlerKeeps
  <2>2. Keeps(n.d, n.d, {"handlers"}) BY <1>1 DEF Ready, Keeps
  <2> HIDE DEF h
  <2> QED BY <1>1, <2>1, <2>2
<1>3. \/ r = [n EXCEPT !.d = left] \/ r = [n EXCEPT !.d = b] \/ r = latch(n, "step", 0)
      \/ r = [n EXCEPT !.d.depth = d1] \/ r = [n EXCEPT !.d.depth = d2] \/ r = n
  <2> HIDE DEF h, d1, d2
  <2> QED BY DEF Counted, h, d1, d2
<1> HIDE DEF b, popped
<1>4. Keeps(n.d, left, {"handlers", "depth"})
  <2>1. IsState(b) BY <1>2 DEF Ready
  <2> DEFINE l == left
  <2>2. l = [b EXCEPT !.handlers = popped] OBVIOUS
  <2> HIDE DEF l
  <2>3. Keeps(b, l, {"handlers"}) BY ONLY <2>1, <2>2, Zenon DEF IsState, Keeps, Fields
  <2> SUFFICES Keeps(n.d, l, {"handlers", "depth"}) BY DEF l
  <2> QED BY ONLY <1>2, <2>3, Zenon DEF Keeps
<1>5. Keeps(n.d, b, {"handlers", "depth"}) BY ONLY <1>2, Zenon DEF Keeps
<1>6. ASSUME NEW k PROVE Keeps(n.d, [n.d EXCEPT !.depth = k], {"handlers", "depth"})
  <2>1. IsState(n.d) BY <1>1 DEF Ready
  <2> QED BY ONLY <2>1, Zenon DEF IsState, Keeps, Fields
<1>7. ASSUME NEW e, Keeps(n.d, e, {"handlers", "depth"}), r = [n EXCEPT !.d = e]
      PROVE  AfterCount(n, r)
  <2>1. {"handlers", "depth"} \subseteq Free BY DEF Free
  <2>2. Ready(e) BY <1>1, <1>7, <2>1, FreeFields
  <2> HIDE DEF r
  <2>3. IsMachine(r) /\ r.c = n.c /\ r.d = e /\ r.ran = n.ran BY <1>7, <2>2, NewDebugger
  <2> QED BY <1>7, <2>3 DEF AfterCount
<1>8. Keeps(n.d, n.d, {"handlers", "depth"}) BY <1>1 DEF Ready, Keeps
<1>9. /\ [n EXCEPT !.d.depth = d1] = [n EXCEPT !.d = [n.d EXCEPT !.depth = d1]]
      /\ [n EXCEPT !.d.depth = d2] = [n EXCEPT !.d = [n.d EXCEPT !.depth = d2]]
  <2> HIDE DEF d1, d2
  <2> QED BY Zenon
<1>10. StoppedAs(n, latch(n, "step", 0), "step") BY LatchStops
<1> HIDE DEF r, left, d1, d2
<1> SUFFICES AfterCount(n, r) BY DEF r
<1>11. CASE r = latch(n, "step", 0) BY <1>10, <1>11 DEF AfterCount, StoppedAs, Halted
<1>12. CASE r = n BY <1>8, <1>12 DEF AfterCount
<1>13. CASE r = [n EXCEPT !.d.depth = d1] BY <1>6, <1>7, <1>9, <1>13
<1>14. CASE r = [n EXCEPT !.d.depth = d2] BY <1>6, <1>7, <1>9, <1>14
<1> QED BY <1>3, <1>4, <1>5, <1>7, <1>11, <1>12, <1>13, <1>14

\* The instruction at pc, gone as x, as it is remembered.
RanAs(x, pc) == [pc |-> pc, done |-> Completed(x, pc), acc |-> x.acc, exc |-> x.exc]

\* The machine m once the instruction at its PC went as x.
AfterRun(m, x, r) ==
  /\ IsMachine(r) /\ r.c = x.c /\ r.ran = RanAs(x, m.c.pc)
  /\ x.exc \in m.d.exc => r.d.latched /\ r.d.stop.reason = "exception"
  /\ Completed(x, m.c.pc) /\ TouchesOf(m.d, x.acc) => r.d.latched
  /\ \/ Halted(r, {"exception", "step"})
     \/ Halted(r, {"watchpoint"}) /\ Completed(x, m.c.pc) /\ TouchesOf(m.d, x.acc)
     \/ /\ r.d.latched = m.d.latched /\ r.d.skipPC = m.d.skipPC
        /\ r.d.skipArmed <=> m.d.skipArmed /\ m.c.pc # m.d.skipPC

\* The checks after an instruction stop for its exception, or for what it touched.
LEMMA AfterStep ==
  ASSUME NEW m, IsMachine(m), NEW x, Outcome(x)
  PROVE  AfterRun(m, x, After(m, x))
<1> DEFINE pc == m.c.pc
           id == Whit(m.d, x, pc)
           b == Recorded(m.d, pc)
           n == [c |-> x.c, d |-> b, ran |-> RanAs(x, pc)]
           inSlot == ~b.intoSlot /\ x.exc = "none" /\ Code[pc].op = "bts" /\ x.c.pc = pc + 1
           e == [b EXCEPT !.intoSlot = TRUE]
           slot == [n EXCEPT !.d.intoSlot = TRUE]
           r == After(m, x)
<1>1. r = IF x.exc \in m.d.exc THEN latch(n, "exception", 0)
          ELSE IF id # 0 THEN latch(n, "watchpoint", id)
          ELSE IF m.d.goal = "into" THEN IF inSlot THEN slot ELSE latch(n, "step", 0)
          ELSE IF m.d.goal = "return" THEN Counted(n, pc, x)
          ELSE n
  BY DEF After, RanAs
<1>2. Ready(m.d) BY DEF IsMachine
<1>3. /\ Ready(b) /\ Keeps(m.d, b, {"trace", "skipArmed"})
      /\ b.skipArmed <=> m.d.skipArmed /\ pc # m.d.skipPC
  BY <1>2, RecordedKeeps
<1> HIDE DEF b
<1>4. IsMachine(n) /\ n.c = x.c /\ n.d = b /\ n.ran = RanAs(x, pc)
  BY <1>3 DEF IsMachine, Outcome
<1>5. id # 0 <=> Completed(x, pc) /\ TouchesOf(m.d, x.acc)
  BY <1>2, WatchedWhen DEF Whit, Outcome
<1>6. IsMachine(slot) /\ slot.c = x.c /\ slot.ran = n.ran /\ Keeps(b, slot.d, {"intoSlot"})
  <2>1. slot = [n EXCEPT !.d = e] BY <1>4
  <2>2. IsState(b) BY <1>3 DEF Ready
  <2>3. Keeps(b, e, {"intoSlot"}) BY ONLY <2>2, Zenon DEF IsState, Keeps, Fields
  <2>4. {"intoSlot"} \subseteq Free BY DEF Free
  <2>5. Ready(e) BY <1>3, <2>3, <2>4, FreeFields
  <2> HIDE DEF e, n, slot
  <2>6. IsMachine(slot) /\ slot.c = n.c /\ slot.d = e /\ slot.ran = n.ran
    BY <1>4, <2>1, <2>5, NewDebugger
  <2> QED BY <1>4, <2>3, <2>6
<1> HIDE DEF n, slot, inSlot, id
<1>7. /\ StoppedAs(n, latch(n, "exception", 0), "exception")
      /\ StoppedAs(n, latch(n, "watchpoint", id), "watchpoint")
      /\ StoppedAs(n, latch(n, "step", 0), "step")
  BY <1>4, LatchStops
<1>8. AfterCount(n, Counted(n, pc, x)) BY <1>4, CountedStep
<1> HIDE DEF r
<1> SUFFICES AfterRun(m, x, r) BY DEF r
<1>9. CASE x.exc \in m.d.exc
  <2>1. StoppedAs(n, r, "exception") BY <1>1, <1>7, <1>9
  <2> QED BY <1>4, <2>1 DEF AfterRun, StoppedAs, Halted
<1>10. CASE x.exc \notin m.d.exc /\ id # 0
  <2>1. StoppedAs(n, r, "watchpoint") BY <1>1, <1>7, <1>10
  <2> QED BY <1>4, <1>5, <1>10, <2>1 DEF AfterRun, StoppedAs, Halted
<1>11. CASE x.exc \notin m.d.exc /\ id = 0
  <2>1. ASSUME NEW S, Keeps(b, r.d, S), S \subseteq {"intoSlot", "handlers", "depth"}
        PROVE  /\ r.d.latched = m.d.latched /\ r.d.skipPC = m.d.skipPC
               /\ r.d.skipArmed <=> m.d.skipArmed /\ pc # m.d.skipPC
    <3>1. r.d.latched = b.latched /\ r.d.skipPC = b.skipPC /\ r.d.skipArmed = b.skipArmed
      BY ONLY <2>1, Zenon DEF Keeps, Fields
    <3>2. b.latched = m.d.latched /\ b.skipPC = m.d.skipPC
      BY ONLY <1>3, Zenon DEF Keeps, Fields
    <3> QED BY <1>3, <3>1, <3>2
  <2>2. /\ IsMachine(r) /\ r.c = x.c /\ r.ran = RanAs(x, pc)
        /\ Halted(r, {"step"}) \/ \E S \in SUBSET {"intoSlot", "handlers", "depth"} : Keeps(b, r.d, S)
    <3>1. CASE r = slot
      <4>1. {"intoSlot"} \in SUBSET {"intoSlot", "handlers", "depth"} OBVIOUS
      <4> QED BY <1>4, <1>6, <3>1, <4>1
    <3>2. CASE r = latch(n, "step", 0)
      BY <1>4, <1>7, <3>2 DEF StoppedAs, Halted
    <3>3. CASE r = Counted(n, pc, x)
      <4>1. {"handlers", "depth"} \in SUBSET {"intoSlot", "handlers", "depth"} OBVIOUS
      <4> QED BY <1>4, <1>8, <3>3, <4>1 DEF AfterCount
    <3>4. CASE r = n
      <4>1. Keeps(b, b, {}) BY <1>3 DEF Ready, Keeps
      <4>2. {} \in SUBSET {"intoSlot", "handlers", "depth"} OBVIOUS
      <4> QED BY <1>4, <3>4, <4>1, <4>2
    <3> QED BY <1>1, <1>11, <3>1, <3>2, <3>3, <3>4
  <2>3. CASE Halted(r, {"step"})
    BY <1>5, <1>11, <2>2, <2>3 DEF AfterRun, Halted
  <2>4. CASE \E S \in SUBSET {"intoSlot", "handlers", "depth"} : Keeps(b, r.d, S)
    <3>1. /\ r.d.latched = m.d.latched /\ r.d.skipPC = m.d.skipPC
          /\ r.d.skipArmed <=> m.d.skipArmed /\ pc # m.d.skipPC
      BY <2>1, <2>4
    <3> QED BY <1>5, <1>11, <2>2, <3>1 DEF AfterRun
  <2> QED BY <2>2, <2>3, <2>4
<1> QED BY <1>9, <1>10, <1>11

---------------------------------------------------------------------------
(* An instruction with its checks. *)

\* What a step of the machine m to r tells the user.
Told(m, r) ==
  /\ r.ran.pc # Nowhere =>
       /\ Skips(m.d, r.ran.pc) \/ ~StopsAt(m, r.ran.pc)
       /\ r.ran.done /\ TouchesOf(m.d, r.ran.acc) => r.d.latched
       /\ r.ran.exc \in m.d.exc => r.d.latched /\ r.d.stop.reason = "exception"
  /\ r.d.latched /\ ~m.d.latched /\ r.d.stop.reason = "breakpoint" =>
       r.ran.pc = Nowhere /\ StopsAt(m, r.c.pc) /\ ~Skips(m.d, r.c.pc) /\ r.c.pc \in DOMAIN Code
  /\ r.d.latched /\ ~m.d.latched /\ r.d.stop.reason = "watchpoint" =>
       r.ran.done /\ TouchesOf(m.d, r.ran.acc)

\* The instruction resumed at stays spared until it ran.
SkipsOn(m, r) ==
  /\ r.d.latched => ~r.d.skipArmed
  /\ ~r.d.latched =>
       /\ ~m.d.latched /\ r.d.skipPC = m.d.skipPC
       /\ r.d.skipArmed <=>
            m.d.skipArmed /\ ~(m.d.on /\ r.ran.pc # Nowhere /\ r.ran.pc = m.d.skipPC)

\* A step of a machine that keeps all promises.
Stepped(m, r) == IsMachine(r) /\ Told(m, r) /\ SkipsOn(m, r)

\* The handlers that are noted change no answer.
LEMMA SameQuestions ==
  ASSUME NEW m, NEW i, i.c.frames = m.c.frames, Keeps(m.d, i.d, {"handlers"})
  PROVE  /\ \A pc : StopsAt(i, pc) <=> StopsAt(m, pc)
         /\ \A pc : Skips(i.d, pc) <=> Skips(m.d, pc)
         /\ \A acc : TouchesOf(i.d, acc) <=> TouchesOf(m.d, acc)
         /\ i.d.exc = m.d.exc /\ i.d.latched = m.d.latched
         /\ i.d.skipArmed = m.d.skipArmed /\ i.d.skipPC = m.d.skipPC
<1>1. /\ i.d.bps = m.d.bps /\ i.d.watch = m.d.watch /\ i.d.sys = m.d.sys /\ i.d.goal = m.d.goal
      /\ i.d.target = m.d.target /\ i.d.exc = m.d.exc /\ i.d.latched = m.d.latched
      /\ i.d.skipArmed = m.d.skipArmed /\ i.d.skipPC = m.d.skipPC
  BY ONLY Keeps(m.d, i.d, {"handlers"}), Zenon DEF Keeps, Fields
<1>2. \A pc : StopsAt(i, pc) <=> StopsAt(m, pc)
  BY ONLY <1>1, i.c.frames = m.c.frames DEF StopsAt, Holds
<1>3. \A pc : Skips(i.d, pc) <=> Skips(m.d, pc) BY <1>1 DEF Skips
<1>4. \A acc : TouchesOf(i.d, acc) <=> TouchesOf(m.d, acc) BY <1>1 DEF TouchesOf
<1> QED BY <1>1, <1>2, <1>3, <1>4

\* A machine before its step.
Started(m) == IsMachine(m) /\ m.ran = Nothing

\* An instruction of a machine that has not stopped, with the checks around it.
LEMMA CheckedStep ==
  ASSUME NEW m, Started(m), m.d.latched = FALSE, m.d.on, NEW e,
         e \in LET i == Interrupted(m)
                   s == IF i.d.latched THEN i ELSE before(i)
               IN IF s.d.latched THEN {s} ELSE {After(s, x) : x \in Runs(s.c)}
  PROVE  Stepped(m, e)
<1> DEFINE i == Interrupted(m)
           s == IF i.d.latched THEN i ELSE before(i)
<1>1. e \in IF s.d.latched THEN {s} ELSE {After(s, x) : x \in Runs(s.c)} OBVIOUS
<1>2. IsMachine(m) /\ m.ran = Nothing BY DEF Started
<1>3. AfterInterrupt(m, i) BY <1>2, InterruptedStep
<1> HIDE DEF i
<1>4. Nothing.pc = Nowhere /\ m.ran.pc = Nowhere BY <1>2 DEF Nothing
<1>5. CASE Halted(i, {"step", "interrupt"})
  <2>1. e = i BY <1>1, <1>5 DEF Halted
  <2>2. IsMachine(i) /\ i.ran = m.ran BY <1>3 DEF AfterInterrupt
  <2> QED BY <1>4, <1>5, <2>1, <2>2 DEF Stepped, Told, SkipsOn, Halted
<1>6. CASE Keeps(m.d, i.d, {"handlers"})
  <2>1. IsMachine(i) /\ i.ran = m.ran /\ i.c.frames = m.c.frames BY <1>3 DEF AfterInterrupt
  <2>2. /\ \A pc : StopsAt(i, pc) <=> StopsAt(m, pc)
        /\ \A pc : Skips(i.d, pc) <=> Skips(m.d, pc)
        /\ \A acc : TouchesOf(i.d, acc) <=> TouchesOf(m.d, acc)
        /\ i.d.exc = m.d.exc /\ i.d.latched = FALSE
        /\ i.d.skipArmed = m.d.skipArmed /\ i.d.skipPC = m.d.skipPC
    BY <1>6, <2>1, SameQuestions
  <2>3. s = before(i) BY <2>2
  <2> HIDE DEF s
  <2>4. AfterBefore(i, s) BY <2>1, <2>3, BeforeStep
  <2>5. IsMachine(s) /\ s.c = i.c /\ s.ran = m.ran BY <2>1, <2>4 DEF AfterBefore
  <2>6. CASE Halted(s, {"step", "syscall"})
    <3>1. e = s BY <1>1, <2>6 DEF Halted
    <3> QED BY <1>4, <2>5, <2>6, <3>1 DEF Stepped, Told, SkipsOn, Halted
  <2>7. CASE /\ Halted(s, {"breakpoint"})
             /\ StopsAt(i, i.c.pc) /\ ~Skips(i.d, i.c.pc) /\ i.c.pc \in DOMAIN Code
    <3>1. e = s BY <1>1, <2>7 DEF Halted
    <3> QED BY <1>4, <2>2, <2>5, <2>7, <3>1 DEF Stepped, Told, SkipsOn, Halted
  <2>8. CASE /\ Keeps(i.d, s.d, {"bps"})
             /\ Skips(i.d, i.c.pc) \/ ~StopsAt(i, i.c.pc)
    <3>1. /\ s.d.latched = FALSE /\ s.d.skipArmed = m.d.skipArmed /\ s.d.skipPC = m.d.skipPC
          /\ s.d.exc = m.d.exc /\ s.d.watch = i.d.watch
      <4>1. /\ s.d.latched = i.d.latched /\ s.d.skipArmed = i.d.skipArmed
            /\ s.d.skipPC = i.d.skipPC /\ s.d.exc = i.d.exc /\ s.d.watch = i.d.watch
        BY ONLY <2>8, Zenon DEF Keeps, Fields
      <4> QED BY <2>2, <4>1
    <3>2. PICK x \in Runs(s.c) : e = After(s, x) BY <1>1, <3>1
    <3>3. Outcome(x) /\ s.c.pc # Nowhere BY <2>5, <3>2, RunsOutcome DEF IsMachine
    <3>4. AfterRun(s, x, e) BY <2>5, <3>2, <3>3, AfterStep
    <3>5. \A acc : TouchesOf(s.d, acc) <=> TouchesOf(m.d, acc)
      BY <2>2, <3>1 DEF TouchesOf
    <3> DEFINE pc == i.c.pc
    <3>6. /\ IsMachine(e) /\ e.ran.pc = pc /\ e.ran.done = Completed(x, pc)
          /\ e.ran.acc = x.acc /\ e.ran.exc = x.exc
      BY <2>5, <3>4 DEF AfterRun, RanAs
    <3>7. pc # Nowhere /\ (Skips(m.d, pc) \/ ~StopsAt(m, pc)) BY <2>2, <2>5, <2>8, <3>3
    <3>8. /\ x.exc \in m.d.exc => e.d.latched /\ e.d.stop.reason = "exception"
          /\ Completed(x, pc) /\ TouchesOf(m.d, x.acc) => e.d.latched
          /\ \/ Halted(e, {"exception", "step"})
             \/ Halted(e, {"watchpoint"}) /\ Completed(x, pc) /\ TouchesOf(m.d, x.acc)
             \/ /\ e.d.latched = FALSE /\ e.d.skipPC = m.d.skipPC
                /\ e.d.skipArmed <=> m.d.skipArmed /\ pc # m.d.skipPC
      BY <2>5, <3>1, <3>4, <3>5 DEF AfterRun
    <3> HIDE DEF pc
    <3>9. Told(m, e) BY ONLY <3>6, <3>7, <3>8 DEF Told, Halted
    <3>10. SkipsOn(m, e)
      BY ONLY <3>6, <3>7, <3>8, m.d.on, m.d.latched = FALSE DEF SkipsOn, Halted
    <3> QED BY <3>6, <3>9, <3>10 DEF Stepped
  <2> QED BY <2>4, <2>6, <2>7, <2>8 DEF AfterBefore
<1> QED BY <1>3, <1>5, <1>6 DEF AfterInterrupt

---------------------------------------------------------------------------
(* The ways an instruction runs. *)

\* Whether the debugger is latched is free of what is armed.
LEMMA LatchedAs ==
  ASSUME NEW b, Ready(b), NEW v, NEW n, n = [b EXCEPT !.latched = v]
  PROVE  Ready(n) /\ Keeps(b, n, {"latched"}) /\ n.latched = v
<1>1. IsState(b) BY DEF Ready
<1>2. Keeps(b, n, {"latched"}) /\ n.latched = v
  BY ONLY <1>1, n = [b EXCEPT !.latched = v], Zenon DEF IsState, Keeps, Fields
<1>3. {"latched"} \subseteq Free BY DEF Free
<1> QED BY <1>2, <1>3, FreeFields

\* The same debugger, latched or not.
Relatched(m, v) == [m EXCEPT !.d.latched = v]

\* The same for a machine.
LEMMA MachineLatchedAs ==
  ASSUME NEW m, IsMachine(m), NEW v, NEW n, n = Relatched(m, v)
  PROVE  /\ IsMachine(n) /\ n.c = m.c /\ n.ran = m.ran
         /\ n.d.latched = v /\ (n.d.latched <=> v) /\ Keeps(m.d, n.d, {"latched"})
<1> DEFINE e == [m.d EXCEPT !.latched = v]
<1>1. n = [m EXCEPT !.d = e] BY Zenon DEF Relatched
<1>2. Ready(m.d) /\ e = [m.d EXCEPT !.latched = v] BY DEF IsMachine
<1> HIDE DEF e
<1>3. Ready(e) /\ Keeps(m.d, e, {"latched"}) /\ e.latched = v BY <1>2, LatchedAs
<1>4. IsMachine(n) /\ n.c = m.c /\ n.d = e /\ n.ran = m.ran
  BY ONLY <1>1, <1>3, IsMachine(m), NewDebugger
<1> QED BY <1>3, <1>4

\* An earlier stop counts as none, and stays.
LEMMA StoppedBefore ==
  ASSUME NEW m, Started(m), m.d.latched => ~m.d.skipArmed,
         NEW u, u = Relatched(m, FALSE), NEW e, Stepped(u, e),
         NEW r, r = Relatched(e, e.d.latched \/ m.d.latched)
  PROVE  Stepped(m, r)
<1> DEFINE v == e.d.latched \/ m.d.latched
<1>1. IsMachine(m) /\ IsMachine(e) BY DEF Started, Stepped
<1>2. /\ u.c = m.c /\ u.ran = m.ran /\ ~u.d.latched /\ Keeps(m.d, u.d, {"latched"})
  BY ONLY <1>1, u = Relatched(m, FALSE), MachineLatchedAs
<1>3. /\ IsMachine(r) /\ r.c = e.c /\ r.ran = e.ran
      /\ r.d.latched = v /\ Keeps(e.d, r.d, {"latched"})
  <2>1. r = Relatched(e, v) OBVIOUS
  <2> HIDE DEF v
  <2> QED BY ONLY <1>1, <2>1, MachineLatchedAs
<1>4. /\ u.d.bps = m.d.bps /\ u.d.watch = m.d.watch /\ u.d.sys = m.d.sys /\ u.d.goal = m.d.goal
      /\ u.d.target = m.d.target /\ u.d.exc = m.d.exc /\ u.d.on = m.d.on
      /\ u.d.skipArmed = m.d.skipArmed /\ u.d.skipPC = m.d.skipPC
  BY ONLY <1>2, Zenon DEF Keeps, Fields
<1>5. r.d.skipArmed = e.d.skipArmed /\ r.d.skipPC = e.d.skipPC /\ r.d.stop = e.d.stop
  BY ONLY <1>3, Zenon DEF Keeps, Fields
<1>6. /\ \A pc : StopsAt(u, pc) <=> StopsAt(m, pc)
      /\ \A pc : Skips(u.d, pc) <=> Skips(m.d, pc)
      /\ \A acc : TouchesOf(u.d, acc) <=> TouchesOf(m.d, acc)
  BY ONLY <1>2, <1>4 DEF StopsAt, Holds, Skips, TouchesOf
<1>7. Told(u, e) /\ SkipsOn(u, e) BY DEF Stepped
<1>8. r.d.latched <=> e.d.latched \/ m.d.latched BY <1>3
<1>9. Told(m, r) BY ONLY <1>2, <1>3, <1>4, <1>5, <1>6, <1>7, <1>8 DEF Told
<1>10. SkipsOn(m, r)
  BY ONLY <1>2, <1>3, <1>4, <1>5, <1>7, <1>8, m.d.latched => ~m.d.skipArmed DEF SkipsOn
<1> QED BY <1>3, <1>9, <1>10 DEF Stepped

\* A sleeping CPU runs nothing.
LEMMA SleptStep ==
  ASSUME NEW m, Started(m), m.d.latched => ~m.d.skipArmed, NEW r, r = [m EXCEPT !.c = Slept(m.c)]
  PROVE  Stepped(m, r)
<1> DEFINE k == Slept(m.c)
<1>1. IsCpu(m.c) /\ IsMachine(m) /\ m.ran = Nothing BY DEF Started, IsMachine
<1>2. IsCpu(k) BY <1>1, CpuChange DEF Slept
<1> HIDE DEF k
<1>3. r = [m EXCEPT !.c = k] BY DEF k
<1>4. IsMachine(r) /\ r.c = k /\ r.d = m.d /\ r.ran = m.ran
  BY ONLY <1>1, <1>2, <1>3, NewCpu
<1>5. r.ran.pc = Nowhere BY <1>1, <1>4 DEF Nothing
<1> QED BY <1>4, <1>5, m.d.latched => ~m.d.skipArmed DEF Stepped, Told, SkipsOn

\* dstep keeps the promises, also past an earlier stop.
LEMMA DstepStep ==
  ASSUME NEW m, Started(m), m.d.latched => ~m.d.skipArmed, m.d.on, NEW r \in dstep(m)
  PROVE  Stepped(m, r)
<1>1. CASE m.c.sleeping
  <2>1. r = [m EXCEPT !.c = Slept(m.c)] BY <1>1 DEF dstep
  <2> QED BY <2>1, SleptStep
<1>2. CASE ~m.c.sleeping
  <2> DEFINE u == Relatched(m, FALSE)
             ends == LET i == Interrupted(u)
                         s == IF i.d.latched THEN i ELSE before(i)
                     IN IF s.d.latched THEN {s} ELSE {After(s, x) : x \in Runs(s.c)}
  <2>1. PICK e \in ends : r = Relatched(e, e.d.latched \/ m.d.latched)
    BY <1>2 DEF dstep, Relatched
  <2>2. u = Relatched(m, FALSE) OBVIOUS
  <2> HIDE DEF u
  <2>3. /\ IsMachine(u) /\ u.ran = m.ran /\ u.d.latched = FALSE /\ Keeps(m.d, u.d, {"latched"})
    <3>1. IsMachine(m) BY DEF Started
    <3> QED BY ONLY <2>2, <3>1, MachineLatchedAs
  <2>4. u.d.on = m.d.on BY ONLY <2>3, Zenon DEF Keeps, Fields
  <2>5. Started(u) BY <2>3 DEF Started
  <2>6. Stepped(u, e)
    <3> HIDE DEF ends
    <3>1. e \in ends BY <2>1
    <3> QED BY <2>3, <2>4, <2>5, <3>1, CheckedStep DEF ends
  <2> HIDE DEF ends
  <2> QED BY <2>1, <2>2, <2>6, StoppedBefore
<1> QED BY <1>1, <1>2

\* The instruction at pc ran as x.
Ran(m, x, pc) == [m EXCEPT !.c = x.c, !.ran = RanAs(x, pc)]

\* The machine once an instruction ran unchecked.
LEMMA RanStep ==
  ASSUME NEW m, IsMachine(m), NEW x, Outcome(x), NEW pc,
         NEW n, n = Ran(m, x, pc)
  PROVE  IsMachine(n) /\ n.c = x.c /\ n.d = m.d /\ n.ran = RanAs(x, pc)
<1> DEFINE k == x.c
           w == RanAs(x, pc)
<1>1. IsCpu(k) BY DEF Outcome
<1>2. n = [m EXCEPT !.c = k, !.ran = w] BY DEF Ran
<1> SUFFICES IsMachine(n) /\ n.c = k /\ n.d = m.d /\ n.ran = w OBVIOUS
<1> HIDE DEF k, w
<1> QED BY ONLY <1>1, <1>2, IsMachine(m), Zenon DEF IsMachine

\* The fast loop keeps them: off the pages nothing stops, and nothing watches.
LEMMA DebugRunStep ==
  ASSUME NEW m, Started(m), m.d.latched => ~m.d.skipArmed, m.d.on, NEW r \in debugRun(m)
  PROVE  Stepped(m, r)
<1>1. CASE ~Plainly(m)
  <2>1. r \in dstep(m) BY <1>1 DEF debugRun
  <2> QED BY <2>1, DstepStep
<1>2. CASE Plainly(m)
  <2> DEFINE pc == m.c.pc
             off == [m.d EXCEPT !.skipArmed = FALSE]
             b == IF pc = m.d.skipPC THEN off ELSE m.d
             unskipped == IF pc = m.d.skipPC THEN [m EXCEPT !.d.skipArmed = FALSE] ELSE m
             after(x) == Ran(unskipped, x, pc)
  <2>1. PICK x \in execute(m.c) :
          r = IF x.exc \in m.d.exc THEN latch(after(x), "exception", 0) ELSE after(x)
    BY <1>2 DEF debugRun, RanAs, Ran
  <2>2. IsMachine(m) /\ IsCpu(m.c) /\ Ready(m.d) BY DEF Started, IsMachine
  <2>3. Outcome(x) /\ pc # Nowhere BY <2>1, <2>2, RunsOutcome DEF Runs
  <2>4. /\ Ready(b) /\ Keeps(m.d, b, {"skipArmed"})
        /\ b.skipArmed <=> m.d.skipArmed /\ pc # m.d.skipPC
    <3>1. IsState(m.d) BY <2>2 DEF Ready
    <3>2. Keeps(m.d, off, {"skipArmed"}) /\ off.skipArmed = FALSE
      BY ONLY <3>1, Zenon DEF IsState, Keeps, Fields
    <3>3. {"skipArmed"} \subseteq Free BY DEF Free
    <3>4. Ready(off) BY <2>2, <3>2, <3>3, FreeFields
    <3>5. Keeps(m.d, m.d, {"skipArmed"}) BY <3>1 DEF Keeps
    <3> HIDE DEF off
    <3> QED BY <2>2, <3>2, <3>4, <3>5
  <2>5. IsMachine(unskipped) /\ unskipped.d = b
    <3>1. CASE pc = m.d.skipPC
      <4>1. unskipped = [m EXCEPT !.d = b] BY <3>1, Zenon
      <4> HIDE DEF b, unskipped
      <4> QED BY ONLY <2>2, <2>4, <4>1, NewDebugger
    <3>2. CASE pc # m.d.skipPC BY <2>2, <3>2
    <3> QED BY <3>1, <3>2
  <2> HIDE DEF b, unskipped
  <2> DEFINE n == after(x)
  <2>6. n = Ran(unskipped, x, pc) OBVIOUS
  <2> HIDE DEF n, pc
  <2>7. IsMachine(n) /\ n.c = x.c /\ n.d = b /\ n.ran = RanAs(x, pc)
    BY ONLY <2>3, <2>5, <2>6, RanStep
  <2> USE DEF pc
  <2>8. Page(pc) \notin m.d.pages /\ ~m.d.watchOn BY <1>2 DEF Plainly
  <2>9. ~StopsAt(m, pc) BY <2>2, <2>8 DEF Ready, Armed, StopsAt, Holds
  <2>10. \A acc : ~TouchesOf(m.d, acc) BY <2>2, <2>8 DEF Ready, Armed, TouchesOf, Matches
  <2>11. n.ran.pc = pc /\ n.ran.exc = x.exc BY <2>7 DEF RanAs
  <2>12. CASE x.exc \in m.d.exc
    <3>1. StoppedAs(n, r, "exception") BY <2>1, <2>7, <2>12, LatchStops DEF n
    <3> QED BY <2>9, <2>10, <2>11, <3>1 DEF StoppedAs, Stepped, Told, SkipsOn
  <2>13. CASE x.exc \notin m.d.exc
    <3>1. r = n BY <2>1, <2>13 DEF n
    <3> HIDE DEF pc
    <3>2. b.latched = m.d.latched /\ b.skipPC = m.d.skipPC
      BY ONLY <2>4, Zenon DEF Keeps, Fields
    <3>3. SkipsOn(m, r)
      BY ONLY <2>3, <2>4, <2>7, <2>11, <3>1, <3>2, m.d.on, m.d.latched => ~m.d.skipArmed
      DEF SkipsOn
    <3>4. Told(m, r) BY <2>7, <2>9, <2>10, <2>11, <2>13, <3>1, <3>2 DEF Told
    <3> QED BY <2>7, <3>1, <3>3, <3>4 DEF Stepped
  <2> QED BY <2>12, <2>13
<1> QED BY <1>1, <1>2

\* The CPU runs alone.
LEMMA StepAlone ==
  ASSUME NEW m, Started(m), NEW hle, NEW r \in step(m, hle)
  PROVE  /\ IsMachine(r) /\ r.d = m.d
         /\ r.ran = Nothing \/ \E x, pc : Outcome(x) /\ r.ran = RanAs(x, pc)
<1>1. IsMachine(m) /\ IsCpu(m.c) /\ Ready(m.d) /\ m.ran = Nothing BY DEF Started, IsMachine
<1>2. CASE m.c.sleeping
  <2> DEFINE k == Slept(m.c)
  <2>1. r = [m EXCEPT !.c = k] BY <1>2 DEF step
  <2>2. IsCpu(k) BY <1>1, CpuChange DEF Slept
  <2> HIDE DEF k
  <2> QED BY <1>1, <2>1, <2>2, NewCpu
<1>3. CASE ~m.c.sleeping
  <2> DEFINE s == acceptInterrupt(m.c)
  <2>1. PICK x \in IF hle THEN Runs(s) ELSE execute(s) :
          r = [m EXCEPT !.c = x.c, !.ran = RanAs(x, s.pc)]
    BY <1>3 DEF step, RanAs
  <2>2. IsCpu(s) BY <1>1, AcceptKeeps
  <2> HIDE DEF s
  <2>3. x \in Runs(s) BY <2>1 DEF Runs
  <2>4. Outcome(x) BY <2>2, <2>3, RunsOutcome
  <2> DEFINE k == x.c
             w == RanAs(x, s.pc)
  <2>5. IsCpu(k) BY <2>4 DEF Outcome
  <2>6. r = [m EXCEPT !.c = k, !.ran = w] BY <2>1
  <2>7. IsMachine(r) /\ r.d = m.d /\ r.ran = w
    <3> HIDE DEF k, w
    <3> QED BY ONLY <1>1, <2>5, <2>6, Zenon DEF IsMachine
  <2> QED BY <2>4, <2>7
<1> QED BY <1>2, <1>3

\* With the debugger off there is nothing to stop for.
LEMMA OffStep ==
  ASSUME NEW m, Started(m), m.d.latched => ~m.d.skipArmed, ~m.d.on, NEW r \in step(m, TRUE)
  PROVE  Stepped(m, r)
<1>1. /\ IsMachine(r) /\ r.d = m.d
  BY StepAlone
<1>2. Ready(m.d) BY DEF Started, IsMachine
<1>3. ~Asked(m.d) BY <1>2 DEF Ready, Armed
<1>4. /\ \A pc : ~StopsAt(m, pc) /\ \A acc : ~TouchesOf(m.d, acc) /\ m.d.exc = {}
  BY <1>3 DEF Asked, StopsAt, Holds, TouchesOf, Matches
<1> QED BY <1>1, <1>4, m.d.latched => ~m.d.skipArmed DEF Stepped, Told, SkipsOn

---------------------------------------------------------------------------
(* The invariant, and what a step owes the user. *)

\* The spared address is the one skipped.
Sparing(b, s) ==
  /\ b.latched => ~b.skipArmed
  /\ b.skipArmed => s = b.skipPC
  /\ s # Nowhere => b.skipArmed

\* What the history of an address resumed from can say.
Spares == spared = NoSpare \/ spared.at \in {"ahead", "undone", "unseen"}

HostFields == {"phase", "context", "fns", "left", "done"}

\* The inductive invariant.
DebugInv ==
  /\ IsCpu(c) /\ Ready(d) /\ Sparing(d, skipped) /\ Spares
  /\ DOMAIN host = HostFields /\ (host.phase = "call" => IsCpu(host.context))

\* What one step of the system does to the parts of DebugInv and to the two properties.
Before ==
  /\ Seen => ran'.pc = skipped \/ ~Stopping(ran'.pc)
  /\ Stopped("breakpoint") => /\ ran'.pc = Nowhere /\ Stopping(c'.pc)
                              /\ c'.pc = spared.pc => spared.at = "undone"
AfterAccess ==
  /\ Seen /\ ran'.done /\ Touches(ran'.acc) => d'.latched
  /\ Seen /\ ran'.exc \in d.exc => d'.latched /\ d'.stop.reason = "exception"
  /\ Stopped("watchpoint") => ran'.done /\ Touches(ran'.acc)
Sound == DebugInv' /\ Before /\ AfterAccess

\* The machine as a step finds it.
LEMMA NowStarted == ASSUME DebugInv PROVE Started(Now) /\ Now.c = c /\ Now.d = d
BY DEF Now, Started, IsMachine, DebugInv

\* Each way stepLocked runs an instruction keeps the promises.
LEMMA LockedStep ==
  ASSUME DebugInv, NEW m \in stepLocked
  PROVE  Stepped(Now, m)
<1>1. Started(Now) /\ Now.d = d BY NowStarted
<1>2. Now.d.latched => ~Now.d.skipArmed BY <1>1 DEF DebugInv, Sparing
<1>3. m \in IF d.on THEN debugRun(Now) \cup dstep(Now) ELSE step(Now, TRUE) BY DEF stepLocked
<1>4. CASE d.on
  <2>1. m \in debugRun(Now) \/ m \in dstep(Now) BY <1>3, <1>4
  <2> QED BY <1>1, <1>2, <1>4, <2>1, DebugRunStep, DstepStep
<1>5. CASE ~d.on
  <2>1. m \in step(Now, TRUE) BY <1>3, <1>5
  <2> QED BY <1>1, <1>2, <1>5, <2>1, OffStep
<1> QED BY <1>4, <1>5

\* The history follows the skip of the debugger.
LEMMA SpareFollows ==
  ASSUME Spares, NEW m, spared' = Spare(m)
  PROVE  /\ Spares'
         /\ skipped' = IF m.d.latched \/ (d.on /\ m.ran.pc = skipped) THEN Nowhere ELSE skipped
<1> DEFINE at == spared.at
           seen == IF m.ran.done \/ at = "unseen" THEN "none" ELSE "undone"
           unseen == IF ~m.ran.done THEN at ELSE IF at = "undone" THEN "none" ELSE "unseen"
           next == IF m.ran.pc # spared.pc THEN at ELSE IF d.on THEN seen ELSE unseen
           none == [pc |-> Nowhere, at |-> "none"]
           goes == [pc |-> spared.pc, at |-> next]
           a == spared'.at
           p == spared'.pc
<1>1. spared' = IF m.d.latched \/ at = "none" \/ next = "none" THEN none ELSE goes
  BY DEF Spare, NoSpare
<1>2. /\ skipped = IF at \in {"ahead", "unseen"} THEN spared.pc ELSE Nowhere
      /\ skipped' = IF a \in {"ahead", "unseen"} THEN p ELSE Nowhere
  BY DEF skipped
<1>3. at \in {"none", "ahead", "undone", "unseen"} /\ (at = "none" => spared = none)
  BY DEF Spares, NoSpare
<1>4. none.at = "none" /\ none.pc = Nowhere /\ goes.at = next /\ goes.pc = spared.pc OBVIOUS
<1>5. Spares' <=> spared' = none \/ a \in {"ahead", "undone", "unseen"} BY DEF Spares, NoSpare
<1> HIDE DEF none, goes
<1>6. CASE m.d.latched \/ at = "none"
  <2>1. spared' = none BY <1>1, <1>6
  <2>2. a = "none" BY <1>4, <2>1
  <2> QED BY <1>2, <1>5, <1>6, <2>1, <2>2
<1>7. CASE ~m.d.latched /\ at # "none" /\ next = "none"
  <2>1. spared' = none /\ a = "none" BY <1>1, <1>4, <1>7
  <2>2. m.ran.pc = spared.pc /\ (at # "undone" => d.on) BY <1>3, <1>7
  <2> QED BY <1>2, <1>3, <1>5, <2>1, <2>2
<1>8. CASE ~m.d.latched /\ at # "none" /\ next # "none"
  <2>1. spared' = goes /\ a = next /\ p = spared.pc BY <1>1, <1>4, <1>8
  <2>2. next \in {"ahead", "undone", "unseen"} BY <1>3, <1>8
  <2>3. next = "undone" => at = "undone" \/ (d.on /\ m.ran.pc = spared.pc) BY <1>3
  <2>4. next # "undone" => at # "undone" BY <1>3, <1>8
  <2>5. d.on /\ m.ran.pc = spared.pc => next = "undone" BY <1>3, <1>8
  <2> HIDE DEF next
  <2> QED BY <1>2, <1>3, <1>5, <1>8, <2>1, <2>2, <2>3, <2>4, <2>5
<1> QED BY <1>6, <1>7, <1>8

\* The properties, from the promises, when the machine goes on.
LEMMA GoesSound ==
  ASSUME DebugInv, NEW m \in stepLocked, Goes(m)
  PROVE  /\ IsCpu(c') /\ Ready(d') /\ Sparing(d', skipped') /\ Spares'
         /\ Before /\ AfterAccess
<1>1. Stepped(Now, m) /\ Now.c = c /\ Now.d = d BY LockedStep, NowStarted
<1>2. c' = m.c /\ d' = m.d /\ ran' = m.ran BY DEF Goes
<1>3. /\ skipped' = IF m.d.latched \/ (d.on /\ m.ran.pc = skipped) THEN Nowhere ELSE skipped
      /\ Spares'
  BY SpareFollows DEF Goes, DebugInv
<1>4. IsMachine(m) /\ Told(Now, m) /\ SkipsOn(Now, m) BY <1>1 DEF Stepped
<1>5. Sparing(d, skipped) BY DEF DebugInv
<1>6. IsCpu(c') /\ Ready(d') BY <1>2, <1>4 DEF IsMachine
<1>7. Sparing(d', skipped')
  BY ONLY <1>1, <1>2, <1>3, <1>4, <1>5 DEF Sparing, SkipsOn
<1>8. \A pc : StopsAt(Now, pc) <=> Stopping(pc) BY <1>1 DEF StopsAt, Stopping
<1>9. \A acc : TouchesOf(Now.d, acc) <=> Touches(acc) BY <1>1 DEF TouchesOf, Touches
<1>10. \A pc : Skips(Now.d, pc) => pc = skipped BY <1>1, <1>5 DEF Skips, Sparing
<1>11. \A pc \in DOMAIN Code : ~Skips(Now.d, pc) => (pc = spared.pc => spared.at = "undone")
  <2>1. \A pc \in DOMAIN Code : ~Skips(Now.d, pc) => pc # skipped
    BY <1>1, <1>5, TracedAssumption DEF Skips, Sparing
  <2>2. spared.pc \in DOMAIN Code => spared.at \in {"ahead", "undone", "unseen"}
    BY TracedAssumption DEF DebugInv, Spares, NoSpare
  <2> QED BY <2>1, <2>2 DEF skipped
<1>12. Before
  BY ONLY <1>1, <1>2, <1>4, <1>8, <1>10, <1>11 DEF Told, Before, Seen, Stopped
<1>13. AfterAccess
  BY ONLY <1>1, <1>2, <1>4, <1>9 DEF Told, AfterAccess, Seen, Stopped
<1> QED BY <1>3, <1>6, <1>7, <1>12, <1>13

\* A step that runs nothing and stops at neither a breakpoint nor a watchpoint.
LEMMA NothingSeen ==
  ASSUME ran' = Nothing, ~Stopped("breakpoint"), ~Stopped("watchpoint")
  PROVE  Before /\ AfterAccess
<1>1. ran'.pc = Nowhere BY DEF Nothing
<1>2. ~Seen BY <1>1 DEF Seen
<1> QED BY ONLY <1>2, ~Stopped("breakpoint"), ~Stopped("watchpoint") DEF Before, AfterAccess

\* Where nothing is spared nothing is skipped.
LEMMA NotSparing == ASSUME spared' = NoSpare PROVE skipped' = Nowhere /\ Spares'
<1>1. NoSpare.at = "none" BY DEF NoSpare
<1> QED BY <1>1 DEF skipped, Spares

\* A step that leaves the debugger alone is sound.
LEMMA SameDebugger ==
  ASSUME DebugInv, d' = d, spared' = spared, ran' = Nothing \/ host.phase = "call",
         IsCpu(c'), DOMAIN host' = HostFields, host'.phase = "call" => IsCpu(host'.context)
  PROVE  Sound
<1>1. Ready(d') /\ Sparing(d', skipped') /\ Spares' BY DEF DebugInv, skipped, Spares
<1>2. ~Stopped("breakpoint") /\ ~Stopped("watchpoint") BY DEF Stopped
<1>3. CASE ran' = Nothing BY <1>1, <1>2, <1>3, NothingSeen DEF Sound, DebugInv
<1>4. CASE host.phase = "call"
  <2>1. ~Seen BY <1>4 DEF Seen
  <2> QED BY <1>1, <1>2, <2>1 DEF Sound, DebugInv, Before, AfterAccess
<1> QED BY <1>3, <1>4

---------------------------------------------------------------------------
(* The edits. *)

\* What the calls of the user change of the debugger, and the filter with it.
EditFields == {"bps", "watch", "nextID", "sys", "exc", "irq", "tracing", "trace"}
Edited(b, n) == Ready(n) /\ Keeps(b, n, EditFields \cup Filter)

\* An edit ends in refresh, so what is armed stays armed.
LEMMA RefreshEdits ==
  ASSUME NEW b, NEW e, Keeps(b, e, EditFields), Lists(e)
  PROVE  Edited(b, refresh(e))
<1> DEFINE n == refresh(e)
<1>1. IsState(e) BY DEF Keeps
<1>2. Armed(n) /\ Keeps(e, n, Filter) BY <1>1, RefreshArms
<1> HIDE DEF n
<1>3. n.bps = e.bps /\ n.watch = e.watch /\ n.nextID = e.nextID /\ n.exc = e.exc
  BY ONLY <1>2, Zenon DEF Keeps, Fields, Filter
<1>4. Lists(n) BY <1>3 DEF Lists
<1>5. Keeps(b, n, EditFields \cup Filter)
  BY ONLY <1>2, Keeps(b, e, EditFields), Zenon DEF Keeps
<1> QED BY <1>2, <1>4, <1>5 DEF Edited, Ready, Keeps, n

\* A list with an element removed.
LEMMA RemoveKeepsType ==
  ASSUME NEW S, NEW s \in Seq(S), NEW i \in DOMAIN s
  PROVE  RemoveAt(s, i) \in Seq(S)
<1>1. Len(s) \in Nat /\ i \in 1..Len(s) /\ i - 1 \in Int /\ i + 1 \in Int OBVIOUS
<1>2. SubSeq(s, 1, i - 1) \in Seq(S) /\ SubSeq(s, i + 1, Len(s)) \in Seq(S)
  <2>1. \A j \in 1..(i - 1) : s[j] \in S BY <1>1
  <2>2. \A j \in (i + 1)..Len(s) : s[j] \in S BY <1>1
  <2> QED BY <1>1, <2>1, <2>2, SubSeqProperties
<1> QED BY <1>2, ConcatProperties DEF RemoveAt

\* A new list of breakpoints, or of watchpoints.
LEMMA BpsEdit ==
  ASSUME NEW b, Ready(b), NEW B \in Seq(Breakpoint)
  PROVE  Edited(b, refresh([b EXCEPT !.bps = B]))
<1> DEFINE e == [b EXCEPT !.bps = B]
<1>1. IsState(b) BY DEF Ready
<1>2. Keeps(b, e, {"bps"}) /\ e.bps = B BY ONLY <1>1, Zenon DEF IsState, Keeps, Fields
<1> HIDE DEF e
<1>3. Keeps(b, e, EditFields) BY ONLY <1>2, Zenon DEF Keeps, EditFields
<1>4. e.watch = b.watch /\ e.nextID = b.nextID /\ e.exc = b.exc
  BY ONLY <1>2, Zenon DEF Keeps, Fields
<1>5. Lists(e) BY <1>2, <1>4 DEF Lists, Ready
<1> QED BY <1>3, <1>5, RefreshEdits DEF e

LEMMA WatchEdit ==
  ASSUME NEW b, Ready(b), NEW W \in Seq(Watchpoint)
  PROVE  Edited(b, refresh([b EXCEPT !.watch = W]))
<1> DEFINE e == [b EXCEPT !.watch = W]
<1>1. IsState(b) BY DEF Ready
<1>2. Keeps(b, e, {"watch"}) /\ e.watch = W BY ONLY <1>1, Zenon DEF IsState, Keeps, Fields
<1> HIDE DEF e
<1>3. Keeps(b, e, EditFields) BY ONLY <1>2, Zenon DEF Keeps, EditFields
<1>4. e.bps = b.bps /\ e.nextID = b.nextID /\ e.exc = b.exc
  BY ONLY <1>2, Zenon DEF Keeps, Fields
<1>5. Lists(e) BY <1>2, <1>4 DEF Lists, Ready
<1> QED BY <1>3, <1>5, RefreshEdits DEF e

\* A breakpoint is changed or removed.
LEMMA BreakpointEdit ==
  ASSUME NEW b, Ready(b), NEW i \in DOMAIN b.bps, NEW x \in Breakpoint
  PROVE  Edited(b, editBreakpoint(b, i, x)) /\ Edited(b, RemoveBreakpoint(b, i))
<1>1. b.bps \in Seq(Breakpoint) BY DEF Ready, Lists
<1>2. RemoveAt(b.bps, i) \in Seq(Breakpoint) BY <1>1, RemoveKeepsType
<1>3. [b.bps EXCEPT ![i] = x] \in Seq(Breakpoint) BY <1>1, ExceptSeq
<1>4. editBreakpoint(b, i, x) = refresh([b EXCEPT !.bps = [b.bps EXCEPT ![i] = x]])
  BY DEF editBreakpoint
<1> QED BY <1>2, <1>3, <1>4, BpsEdit DEF RemoveBreakpoint

\* A watchpoint is switched or removed.
LEMMA WatchpointEdit ==
  ASSUME NEW b, Ready(b), NEW i \in DOMAIN b.watch
  PROVE  /\ Edited(b, EnableWatchpoint(b, i, ~b.watch[i].enabled))
         /\ Edited(b, RemoveWatchpoint(b, i))
<1>1. b.watch \in Seq(Watchpoint) BY DEF Ready, Lists
<1>2. RemoveAt(b.watch, i) \in Seq(Watchpoint) BY <1>1, RemoveKeepsType
<1> DEFINE w == b.watch[i]
           on == ~w.enabled
           v == [w EXCEPT !.enabled = on]
           W == [b.watch EXCEPT ![i] = v]
<1>3. w \in Watchpoint /\ on \in BOOLEAN BY <1>1
<1>4. v \in Watchpoint
  <2> HIDE DEF w, on
  <2> QED BY <1>3 DEF Watchpoint
<1>5. EnableWatchpoint(b, i, on) = refresh([b EXCEPT !.watch = W])
  BY Zenon DEF EnableWatchpoint
<1> HIDE DEF v, w
<1>6. W \in Seq(Watchpoint) BY <1>1, <1>4, ExceptSeq
<1>7. Edited(b, EnableWatchpoint(b, i, on)) BY <1>5, <1>6, WatchEdit
<1> QED BY <1>2, <1>7, WatchEdit DEF RemoveWatchpoint, w

\* A breakpoint is added.
LEMMA BreakpointAdded ==
  ASSUME NEW b, Ready(b), NEW a \in DOMAIN Code
  PROVE  Edited(b, AddBreakpoint(b, a))
<1> DEFINE x == [id |-> b.nextID, addr |-> a, enabled |-> TRUE, hits |-> 0, ignore |-> 0,
                 deep |-> FALSE]
           B == Append(b.bps, x)
           next == b.nextID + 1
           e == [b EXCEPT !.bps = B, !.nextID = next]
<1>1. IsState(b) /\ b.bps \in Seq(Breakpoint) /\ b.nextID \in Nat \ {0} BY DEF Ready, Lists
<1>2. x \in Breakpoint BY <1>1 DEF Breakpoint
<1> HIDE DEF x
<1>3. B \in Seq(Breakpoint) /\ next \in Nat \ {0} BY <1>1, <1>2
<1> HIDE DEF B, next
<1>4. Keeps(b, e, {"bps", "nextID"}) /\ e.bps = B /\ e.nextID = next
  BY ONLY <1>1, Zenon DEF IsState, Keeps, Fields
<1> HIDE DEF e
<1>5. Keeps(b, e, EditFields) BY ONLY <1>4, Zenon DEF Keeps, EditFields
<1>6. e.watch = b.watch /\ e.exc = b.exc BY ONLY <1>4, Zenon DEF Keeps, Fields
<1>7. Lists(e) BY <1>3, <1>4, <1>6 DEF Lists, Ready
<1>8. AddBreakpoint(b, a) = refresh(e) BY DEF AddBreakpoint, e, B, x, next
<1> QED BY <1>5, <1>7, <1>8, RefreshEdits

\* A watchpoint is added.
LEMMA WatchpointAdded ==
  ASSUME NEW b, Ready(b), NEW a \in DOMAIN Bus
  PROVE  Edited(b, AddWatchpoint(b, a, {"read", "write"}, FALSE))
<1> DEFINE x == [id |-> b.nextID, addr |-> a, kinds |-> {"read", "write"}, phys |-> FALSE,
                 enabled |-> TRUE]
           W == Append(b.watch, x)
           next == b.nextID + 1
           e == [b EXCEPT !.watch = W, !.nextID = next]
<1>1. IsState(b) /\ b.watch \in Seq(Watchpoint) /\ b.nextID \in Nat \ {0} BY DEF Ready, Lists
<1>2. x \in Watchpoint BY <1>1, DebuggerAssumption DEF Watchpoint
<1> HIDE DEF x
<1>3. W \in Seq(Watchpoint) /\ next \in Nat \ {0} BY <1>1, <1>2
<1> HIDE DEF W, next
<1>4. Keeps(b, e, {"watch", "nextID"}) /\ e.watch = W /\ e.nextID = next
  BY ONLY <1>1, Zenon DEF IsState, Keeps, Fields
<1> HIDE DEF e
<1>5. Keeps(b, e, EditFields) BY ONLY <1>4, Zenon DEF Keeps, EditFields
<1>6. e.bps = b.bps /\ e.exc = b.exc BY ONLY <1>4, Zenon DEF Keeps, Fields
<1>7. Lists(e) BY <1>3, <1>4, <1>6 DEF Lists, Ready
<1>8. AddWatchpoint(b, a, {"read", "write"}, FALSE) = refresh(e)
  BY DEF AddWatchpoint, e, W, x, next
<1> QED BY <1>5, <1>7, <1>8, RefreshEdits

\* The event breaks change.
LEMMA BreaksEdit ==
  ASSUME NEW b, Ready(b), NEW sys, NEW exc, exc \subseteq {"miss", "trapa"}, NEW irq
  PROVE  Edited(b, BreakOn(b, sys, exc, irq))
<1> DEFINE e == [b EXCEPT !.sys = sys, !.exc = exc, !.irq = irq]
<1>1. IsState(b) BY DEF Ready
<1>2. Keeps(b, e, {"sys", "exc", "irq"}) /\ e.exc = exc
  BY ONLY <1>1, Zenon DEF IsState, Keeps, Fields
<1> HIDE DEF e
<1>3. Keeps(b, e, EditFields) BY ONLY <1>2, Zenon DEF Keeps, EditFields
<1>4. e.bps = b.bps /\ e.watch = b.watch /\ e.nextID = b.nextID
  BY ONLY <1>2, Zenon DEF Keeps, Fields
<1>5. Lists(e) BY <1>2, <1>4 DEF Lists, Ready
<1> QED BY <1>3, <1>5, RefreshEdits DEF BreakOn, e

\* The trace is switched.
LEMMA TraceEdit ==
  ASSUME NEW b, Ready(b), NEW on
  PROVE  Edited(b, SetTrace(b, on))
<1> DEFINE e == [b EXCEPT !.tracing = on, !.trace = <<>>]
<1>1. IsState(b) BY DEF Ready
<1>2. Keeps(b, e, {"tracing", "trace"}) BY ONLY <1>1, Zenon DEF IsState, Keeps, Fields
<1> HIDE DEF e
<1>3. Keeps(b, e, EditFields) BY ONLY <1>2, Zenon DEF Keeps, EditFields
<1>4. e.bps = b.bps /\ e.watch = b.watch /\ e.nextID = b.nextID /\ e.exc = b.exc
  BY ONLY <1>2, Zenon DEF Keeps, Fields
<1>5. Lists(e) BY <1>4 DEF Lists, Ready
<1> QED BY <1>3, <1>5, RefreshEdits DEF SetTrace, e

\* The changes of a breakpoint leave a breakpoint.
LEMMA BreakpointChanges ==
  ASSUME NEW x \in Breakpoint
  PROVE  {[x EXCEPT !.enabled = ~x.enabled], [x EXCEPT !.ignore = 1 - x.ignore],
          [x EXCEPT !.deep = ~x.deep], [x EXCEPT !.hits = 0]} \subseteq Breakpoint
<1> DEFINE on == ~x.enabled
           ignore == 1 - x.ignore
           deep == ~x.deep
<1>1. on \in BOOLEAN /\ ignore \in Int /\ deep \in BOOLEAN BY DEF Breakpoint
<1> HIDE DEF on, ignore, deep
<1>2. [x EXCEPT !.enabled = on] \in Breakpoint BY <1>1 DEF Breakpoint
<1>3. [x EXCEPT !.ignore = ignore] \in Breakpoint BY <1>1 DEF Breakpoint
<1>4. [x EXCEPT !.deep = deep] \in Breakpoint BY <1>1 DEF Breakpoint
<1>5. [x EXCEPT !.hits = 0] \in Breakpoint BY DEF Breakpoint
<1> QED BY <1>2, <1>3, <1>4, <1>5 DEF on, ignore, deep

\* Every edit of what exists is one.
LEMMA EditsEdit ==
  ASSUME Ready(d), NEW e \in Edits
  PROVE  Edited(d, e[1])
<1>1. ASSUME NEW i \in DOMAIN d.bps, e \in BreakpointEdits(i) PROVE Edited(d, e[1])
  <2> DEFINE x == d.bps[i]
             x1 == [x EXCEPT !.enabled = ~x.enabled]
             x2 == [x EXCEPT !.ignore = 1 - x.ignore]
             x3 == [x EXCEPT !.deep = ~x.deep]
             x4 == [x EXCEPT !.hits = 0]
  <2>1. x \in Breakpoint BY <1>1 DEF Ready, Lists
  <2>2. e[1] \in {RemoveBreakpoint(d, i), editBreakpoint(d, i, x1), editBreakpoint(d, i, x2),
                  editBreakpoint(d, i, x3), editBreakpoint(d, i, x4)}
    <3> HIDE DEF x1, x2, x3, x4
    <3> QED BY <1>1 DEF BreakpointEdits, x1, x2, x3, x4
  <2> HIDE DEF x
  <2>3. {x1, x2, x3, x4} \subseteq Breakpoint
    <3> QED BY ONLY <2>1, BreakpointChanges
  <2> HIDE DEF x1, x2, x3, x4
  <2> QED BY <1>1, <2>2, <2>3, BreakpointEdit
<1>2. ASSUME NEW i \in DOMAIN d.watch, e \in WatchpointEdits(i) PROVE Edited(d, e[1])
  BY <1>2, WatchpointEdit DEF WatchpointEdits
<1>3. Edited(d, BreakOn(d, ~d.sys, {"miss", "trapa"} \ d.exc, ~d.irq)) BY BreaksEdit
<1>4. Edited(d, SetTrace(d, ~d.tracing)) BY TraceEdit
<1>5. /\ Edited(d, refresh([d EXCEPT !.bps = <<>>]))
      /\ Edited(d, refresh([d EXCEPT !.watch = <<>>]))
  <2>1. <<>> \in Seq(Breakpoint) /\ <<>> \in Seq(Watchpoint) BY EmptySeq
  <2> DEFINE none == <<>>
  <2>2. none \in Seq(Breakpoint) /\ none \in Seq(Watchpoint) BY <2>1
  <2> HIDE DEF none
  <2>3. /\ Edited(d, refresh([d EXCEPT !.bps = none]))
        /\ Edited(d, refresh([d EXCEPT !.watch = none]))
    BY <2>2, BpsEdit, WatchEdit
  <2> QED BY <2>3 DEF none
<1>6. \/ \E i \in DOMAIN d.bps : e \in BreakpointEdits(i)
      \/ \E i \in DOMAIN d.watch : e \in WatchpointEdits(i)
      \/ e[1] \in {BreakOn(d, ~d.sys, {"miss", "trapa"} \ d.exc, ~d.irq), SetTrace(d, ~d.tracing),
                   refresh([d EXCEPT !.bps = <<>>]), refresh([d EXCEPT !.watch = <<>>])}
  <2> DEFINE e1 == BreakOn(d, ~d.sys, {"miss", "trapa"} \ d.exc, ~d.irq)
             e2 == SetTrace(d, ~d.tracing)
             e3 == refresh([d EXCEPT !.bps = <<>>])
             e4 == refresh([d EXCEPT !.watch = <<>>])
             U == UNION ({BreakpointEdits(i) : i \in DOMAIN d.bps}
                          \cup {WatchpointEdits(i) : i \in DOMAIN d.watch})
             V == {<<e1, "events">>, <<e2, "trace">>, <<e3, "clear">>, <<e4, "unwatchAll">>}
  <2>1. e \in U \cup V BY Zenon DEF Edits
  <2> HIDE DEF e1, e2, e3, e4
  <2>2. e \in U => \/ \E i \in DOMAIN d.bps : e \in BreakpointEdits(i)
                   \/ \E i \in DOMAIN d.watch : e \in WatchpointEdits(i)
    BY ONLY Zenon
  <2>3. e \in V => e[1] \in {e1, e2, e3, e4} BY ONLY TRUE
  <2> HIDE DEF U, V
  <2> QED BY <2>1, <2>2, <2>3 DEF e1, e2, e3, e4
<1> QED BY <1>1, <1>2, <1>3, <1>4, <1>5, <1>6

\* An edit is sound.
LEMMA EditSound == ASSUME DebugInv, Edit PROVE Sound
<1>1. Ready(d) /\ Sparing(d, skipped) /\ Spares BY DEF DebugInv
<1>2. Edited(d, d')
  <2>1. \/ \E e \in Edits : d' = e[1]
        \/ \E a \in DOMAIN Code : d' = AddBreakpoint(d, a)
        \/ \E a \in DOMAIN Bus : d' = AddWatchpoint(d, a, {"read", "write"}, FALSE)
    BY DEF Edit
  <2> QED BY <1>1, <2>1, EditsEdit, BreakpointAdded, WatchpointAdded
<1>3. Ready(d') /\ Keeps(d, d', EditFields \cup Filter) BY <1>2 DEF Edited
<1>4. d'.latched = d.latched /\ d'.skipArmed = d.skipArmed /\ d'.skipPC = d.skipPC
  BY ONLY <1>3, Zenon DEF Keeps, Fields, EditFields, Filter
<1>5. c' = c /\ host' = host /\ spared' = spared /\ ran' = Nothing BY DEF Edit, Call
<1>6. Before /\ AfterAccess BY <1>4, <1>5, NothingSeen DEF Stopped
<1>7. skipped' = skipped /\ Spares' BY <1>1, <1>5 DEF skipped, Spares
<1>8. Sparing(d', skipped') BY <1>1, <1>4, <1>7 DEF Sparing
<1> QED BY <1>3, <1>5, <1>6, <1>7, <1>8 DEF Sound, DebugInv

---------------------------------------------------------------------------
(* Stopping and going on. *)

\* A pause stops for its own reason.
LEMMA PauseSound == ASSUME DebugInv, Pause PROVE Sound
<1>1. Started(Now) /\ Now.c = c /\ Now.d = d BY NowStarted
<1>2. StoppedAs(Now, latch(Now, "pause", 0), "pause") BY <1>1, LatchStops DEF Started
<1>3. d' = latch(Now, "pause", 0).d /\ c' = c /\ host' = host /\ spared' = NoSpare /\ ran' = Nothing
  BY DEF Pause, Call
<1>4. Ready(d') /\ d'.latched /\ ~d'.skipArmed /\ d'.stop.reason = "pause"
  BY <1>2, <1>3 DEF StoppedAs, IsMachine
<1>5. Before /\ AfterAccess BY <1>3, <1>4, NothingSeen DEF Stopped
<1>6. skipped' = Nowhere /\ Spares' BY <1>3, NotSparing
<1> QED BY <1>3, <1>4, <1>5, <1>6 DEF Sound, DebugInv, Sparing

\* Going on spares the address it goes on from, and arms the goal of a step.
LEMMA ResumeLockedSound ==
  ASSUME DebugInv, NEW goal, NEW depth, NEW target, resumeLocked(goal, depth, target), ran' = Nothing
  PROVE  Sound
<1> DEFINE b == [d EXCEPT !.latched = FALSE, !.skipArmed = TRUE, !.skipPC = c.pc, !.goal = goal,
                          !.intoSlot = FALSE, !.depth = depth, !.handlers = <<>>,
                          !.target = target]
           S == {"latched", "skipArmed", "skipPC", "goal", "intoSlot", "depth", "handlers", "target"}
           at == c.pc
<1>1. Ready(d) /\ IsState(d) BY DEF DebugInv, Ready
<1>2. /\ d' = IF goal = "none" THEN b ELSE refresh(b)
      /\ spared' = [pc |-> at, at |-> "ahead"] /\ c' = c /\ host' = host
  BY DEF resumeLocked
<1>3. /\ Keeps(d, b, S) /\ b.latched = FALSE /\ b.skipArmed = TRUE /\ b.skipPC = at
      /\ b.goal = goal
  <2>1. b = [d EXCEPT !.latched = FALSE, !.skipArmed = TRUE, !.skipPC = at, !.goal = goal,
                      !.intoSlot = FALSE, !.depth = depth, !.handlers = <<>>,
                      !.target = target] OBVIOUS
  <2> HIDE DEF b, at
  <2> QED BY ONLY <1>1, <2>1, Zenon DEF IsState, Keeps, Fields
<1> HIDE DEF b, at
<1>4. /\ b.bps = d.bps /\ b.watch = d.watch /\ b.nextID = d.nextID /\ b.exc = d.exc
      /\ b.pages = d.pages /\ b.on = d.on /\ b.watchOn = d.watchOn
      /\ b.sys = d.sys /\ b.irq = d.irq /\ b.tracing = d.tracing
  BY ONLY <1>3, Zenon DEF Keeps, Fields
<1>5. IsState(b) /\ Lists(b) BY <1>1, <1>3, <1>4 DEF Ready, Lists, Keeps
<1>6. Ready(d') /\ ~d'.latched /\ d'.skipArmed /\ d'.skipPC = at
  <2>1. CASE goal = "none"
    <3>1. d' = b BY <1>2, <2>1
    <3>2. Armed(b) BY ONLY <1>1, <1>3, <1>4, <2>1 DEF Ready, Armed, Asked
    <3> QED BY <1>3, <1>5, <3>1, <3>2 DEF Ready
  <2>2. CASE goal # "none"
    <3> DEFINE n == refresh(b)
    <3>1. d' = n BY <1>2, <2>2
    <3>2. Armed(n) /\ Keeps(b, n, Filter) BY <1>5, RefreshArms
    <3> HIDE DEF n
    <3>3. /\ n.bps = b.bps /\ n.watch = b.watch /\ n.nextID = b.nextID /\ n.exc = b.exc
          /\ n.latched = b.latched /\ n.skipArmed = b.skipArmed /\ n.skipPC = b.skipPC
      BY ONLY <3>2, Zenon DEF Keeps, Fields, Filter
    <3> QED BY <1>3, <1>5, <3>1, <3>2, <3>3 DEF Ready, Lists, Keeps
  <2> QED BY <2>1, <2>2
<1>7. Before /\ AfterAccess BY <1>6, NothingSeen DEF Stopped
<1>8. skipped' = at /\ Spares' BY <1>2 DEF skipped, Spares
<1> QED BY <1>2, <1>6, <1>7, <1>8 DEF Sound, DebugInv, Sparing

\* Every call that goes on does it so.
LEMMA StepsSound == ASSUME DebugInv, Continue \/ Steps PROVE Sound
<1>1. /\ ran' = Nothing
      /\ \E goal, depth, target : resumeLocked(goal, depth, target)
  <2>1. CASE Continue BY <2>1 DEF Continue, Call
  <2>2. CASE StepInto BY <2>2 DEF StepInto, startGoal, Call
  <2>3. CASE StepOver BY <2>3 DEF StepOver, startGoal, Call
  <2>4. CASE StepOut BY <2>4 DEF StepOut, startGoal, Call
  <2>5. CASE RunTo BY <2>5 DEF RunTo, startGoal, Call
  <2> QED BY <2>1, <2>2, <2>3, <2>4, <2>5 DEF Steps
<1> QED BY <1>1, ResumeLockedSound

\* A new PC is not spared.
LEMMA SetPCSound == ASSUME DebugInv, SetPC PROVE Sound
<1> DEFINE b == [d EXCEPT !.skipArmed = FALSE]
<1>1. d' = b /\ spared' = NoSpare /\ host' = host /\ ran' = Nothing BY DEF SetPC, Call
<1>2. PICK a : c' = [c EXCEPT !.pc = a, !.sleeping = FALSE] BY DEF SetPC
<1>3. IsCpu(c') BY ONLY <1>2, DebugInv, Zenon DEF DebugInv, IsCpu, CpuFields
<1>4. Ready(d) /\ IsState(d) BY DEF DebugInv, Ready
<1>5. Keeps(d, b, {"skipArmed"}) /\ b.skipArmed = FALSE
  BY ONLY <1>4, Zenon DEF IsState, Keeps, Fields
<1>6. {"skipArmed"} \subseteq Free BY DEF Free
<1> HIDE DEF b
<1>7. Ready(b) BY <1>4, <1>5, <1>6, FreeFields
<1>8. b.latched = d.latched BY ONLY <1>5, Zenon DEF Keeps, Fields
<1>9. Before /\ AfterAccess BY <1>1, <1>8, NothingSeen DEF Stopped
<1>10. skipped' = Nowhere /\ Spares' BY <1>1, NotSparing
<1> QED BY <1>1, <1>3, <1>5, <1>7, <1>9, <1>10 DEF Sound, DebugInv, Sparing

\* A state that is loaded is not spared either, and the filter is computed again.
LEMMA ResumeSound == ASSUME DebugInv, Resume PROVE Sound
<1> DEFINE e == [d EXCEPT !.latched = FALSE, !.stop = NoStop, !.goal = "none",
                          !.skipArmed = FALSE, !.trace = <<>>]
           S == {"latched", "stop", "goal", "skipArmed", "trace"}
           n == refresh(e)
<1>1. /\ d' = n /\ spared' = NoSpare /\ host' = host /\ ran' = Nothing
      /\ \E s \in Setups : c' = s.cpu
  BY DEF Resume, Call
<1>2. IsCpu(c') BY <1>1, DebuggerAssumption DEF Cpu, IsCpu, CpuFields
<1>3. Ready(d) /\ IsState(d) BY DEF DebugInv, Ready
<1>4. Keeps(d, e, S) /\ e.latched = FALSE /\ e.skipArmed = FALSE
  BY ONLY <1>3, Zenon DEF IsState, Keeps, Fields
<1> HIDE DEF e
<1>5. e.bps = d.bps /\ e.watch = d.watch /\ e.nextID = d.nextID /\ e.exc = d.exc
  BY ONLY <1>4, Zenon DEF Keeps, Fields
<1>6. Lists(e) /\ IsState(e) BY <1>3, <1>4, <1>5 DEF Lists, Ready, Keeps
<1>7. Armed(n) /\ Keeps(e, n, Filter) BY <1>6, RefreshArms
<1> HIDE DEF n
<1>8. /\ n.bps = e.bps /\ n.watch = e.watch /\ n.nextID = e.nextID /\ n.exc = e.exc
      /\ n.latched = e.latched /\ n.skipArmed = e.skipArmed
  BY ONLY <1>7, Zenon DEF Keeps, Fields, Filter
<1>9. Ready(n) BY <1>6, <1>7, <1>8 DEF Ready, Lists, Keeps
<1>10. Before /\ AfterAccess BY <1>1, <1>4, <1>8, NothingSeen DEF Stopped
<1>11. skipped' = Nowhere /\ Spares' BY <1>1, NotSparing
<1> QED BY <1>1, <1>2, <1>4, <1>8, <1>9, <1>10, <1>11 DEF Sound, DebugInv, Sparing

---------------------------------------------------------------------------
(* The whole. *)

\* How a user starts.
LEMMA SetupReady ==
  ASSUME NEW s \in Setups
  PROVE  /\ IsCpu(s.cpu) /\ Ready(s.debugger)
         /\ ~s.debugger.latched /\ ~s.debugger.skipArmed
<1> DEFINE b == s.debugger
<1>1. /\ s.cpu \in Cpu /\ b \in DebuggerState /\ refresh(b) = b
      /\ ~b.latched /\ ~b.skipArmed
  BY DebuggerAssumption
<1> HIDE DEF b
<1>2. IsCpu(s.cpu) BY <1>1 DEF Cpu, IsCpu, CpuFields
<1>3. IsState(b) BY <1>1 DEF DebuggerState, IsState, Fields
<1>4. Lists(b) BY <1>1 DEF DebuggerState, Lists
<1>5. Armed(b) BY <1>1, <1>3, RefreshArms
<1> QED BY <1>1, <1>2, <1>3, <1>4, <1>5 DEF Ready, b

\* The invariant holds at first.
LEMMA InitReady == Init => DebugInv
<1> SUFFICES ASSUME Init PROVE DebugInv OBVIOUS
<1>1. PICK s \in Setups : c = s.cpu /\ d = s.debugger BY DEF Init
<1>2. host = Off /\ spared = NoSpare BY DEF Init
<1>3. DOMAIN host = HostFields /\ host.phase # "call"
  BY <1>2 DEF Off, Wait, HostFields
<1>4. IsCpu(c) /\ Ready(d) /\ ~d.latched /\ ~d.skipArmed BY <1>1, SetupReady
<1>5. skipped = Nowhere /\ Spares
  <2>1. NoSpare.at = "none" BY DEF NoSpare
  <2> QED BY <1>2, <2>1 DEF skipped, Spares
<1> QED BY <1>2, <1>3, <1>4, <1>5 DEF DebugInv, Sparing

\* The steps of the machine and of a host call are sound.
LEMMA RunSound == ASSUME DebugInv, Run PROVE Sound
<1>1. PICK m \in stepLocked : Goes(m) BY DEF Run
<1>2. host' = host BY DEF Run
<1> QED BY <1>1, <1>2, GoesSound DEF Sound, DebugInv

LEMMA SettleSound == ASSUME DebugInv, Settle PROVE Sound
<1>1. PICK m \in stepLocked : Goes(m) BY DEF Settle
<1>2. host' = [host EXCEPT !.left = host.left - 1] /\ host.phase # "call" BY DEF Settle
<1>3. DOMAIN host = HostFields BY DEF DebugInv
<1>4. DOMAIN host' = HostFields /\ host'.phase # "call"
  BY ONLY <1>2, <1>3, Zenon DEF HostFields
<1> QED BY <1>1, <1>4, GoesSound DEF Sound, DebugInv

LEMMA RaiseSound == ASSUME DebugInv, raiseIRQ PROVE Sound
<1>1. c' = [c EXCEPT !.pending = TRUE] /\ d' = d /\ host' = host /\ spared' = spared /\ ran' = Nothing
  BY DEF raiseIRQ
<1>2. IsCpu(c) BY DEF DebugInv
<1>3. IsCpu(c') BY ONLY <1>1, <1>2, Zenon DEF IsCpu, CpuFields
<1> QED BY <1>1, <1>3, SameDebugger DEF DebugInv

LEMMA InstallSound == ASSUME DebugInv, InstallAddin PROVE Sound
<1>1. c' = c /\ d' = d /\ spared' = spared /\ ran' = Nothing /\ host' = Wait("wait")
  BY DEF InstallAddin, Call
<1>2. DOMAIN host' = HostFields /\ host'.phase # "call" BY <1>1 DEF Wait, HostFields
<1> QED BY <1>1, <1>2, SameDebugger DEF DebugInv

\* An OS function starts in the context it borrows.
LEMMA CallStarts ==
  ASSUME NEW k, IsCpu(k), NEW fns, callOS(k, fns)
  PROVE  /\ IsCpu(c') /\ DOMAIN host' = HostFields
         /\ host'.phase = "call" /\ host'.context = k
<1> DEFINE f == Append(k.frames, OsReturn)
           fn == Head(fns)
<1>1. c' = [k EXCEPT !.pc = fn, !.frames = f, !.bl = FALSE, !.rb = FALSE, !.sleeping = FALSE]
  BY DEF callOS, Borrowed
<1> HIDE DEF f, fn
<1>2. IsCpu(c') BY ONLY <1>1, IsCpu(k), Zenon DEF IsCpu, CpuFields
<1>3. DOMAIN host' = HostFields /\ host'.phase = "call" /\ host'.context = k
  BY DEF callOS, HostFields
<1> QED BY <1>2, <1>3

LEMMA SettledSound == ASSUME DebugInv, Settled PROVE Sound
<1>1. d' = d /\ spared' = spared /\ ran' = Nothing BY DEF Settled
<1>2. CASE callOS(c, Routines)
  <2>1. IsCpu(c) BY DEF DebugInv
  <2>2. IsCpu(c') /\ DOMAIN host' = HostFields /\ host'.context = c BY <1>2, <2>1, CallStarts
  <2> QED BY <1>1, <2>1, <2>2, SameDebugger
<1>3. CASE host' = Off /\ c' = c
  <2>1. DOMAIN host' = HostFields /\ host'.phase # "call" BY <1>3 DEF Off, Wait, HostFields
  <2> QED BY <1>1, <1>3, <2>1, SameDebugger DEF DebugInv
<1> QED BY <1>2, <1>3 DEF Settled

LEMMA HostStepSound ==
  ASSUME DebugInv, HostStep
  PROVE  Sound /\ d' = d /\ host'.phase = "call"
<1>1. d' = d /\ spared' = spared /\ host.phase = "call" BY DEF HostStep
<1>2. DOMAIN host = HostFields /\ IsCpu(host.context) BY <1>1 DEF DebugInv
<1> DEFINE left == host.left - 1
           done == host.done \/ Caught
<1>3. host' = [host EXCEPT !.left = left, !.done = done] BY DEF HostStep
<1> HIDE DEF left, done
<1>4. DOMAIN host' = HostFields /\ host'.context = host.context /\ host'.phase = host.phase
  BY ONLY <1>2, <1>3, Zenon DEF HostFields
<1>5. IsCpu(c')
  <2>1. CASE c' = [c EXCEPT !.sleeping = TRUE] BY <2>1, CpuChange DEF DebugInv
  <2>2. CASE \E m \in step(Now, FALSE) : c' = m.c
    <3>1. PICK m \in step(Now, FALSE) : c' = m.c BY <2>2
    <3>2. IsMachine(m) BY <3>1, NowStarted, StepAlone
    <3> QED BY <3>1, <3>2 DEF IsMachine
  <2> QED BY <2>1, <2>2 DEF HostStep
<1>6. Sound BY <1>1, <1>2, <1>4, <1>5, SameDebugger
<1> QED BY <1>1, <1>4, <1>6

\* What callOS puts back is the context it borrowed, but for requests, the TLB and the banks.
LEMMA RestoredKeeps ==
  ASSUME IsCpu(host.context)
  PROVE  /\ IsCpu(Restored)
         /\ Kept(Restored) = Kept(host.context)
         /\ Restored.exchanged =
              IF c.rb = host.context.rb THEN host.context.exchanged ELSE ~host.context.exchanged
<1> DEFINE k == host.context
           p == c.pending
           t == c.resident
           e == IF c.rb = k.rb THEN k.exchanged ELSE ~k.exchanged
           r == [k EXCEPT !.pending = p, !.resident = t, !.exchanged = e]
<1>1. Restored = r BY DEF Restored
<1> HIDE DEF k, p, t, e
<1>2. IsCpu(k) BY DEF k
<1>3. IsCpu(r) /\ r.exchanged = e BY ONLY <1>2, Zenon DEF IsCpu, CpuFields
<1>4. [r EXCEPT !.pending = FALSE, !.resident = FALSE, !.exchanged = FALSE]
        = [k EXCEPT !.pending = FALSE, !.resident = FALSE, !.exchanged = FALSE]
  BY ONLY <1>2, Zenon DEF IsCpu, CpuFields
<1> HIDE DEF r
<1>5. Kept(r) = Kept(k) BY <1>4 DEF Kept
<1> QED BY <1>1, <1>3, <1>5 DEF k, e

\* What a step during a host call, and its end, leave.
Unseen ==
  host.phase = "call" =>
    /\ d' = d
    /\ host'.phase # "call" => /\ Kept(c') = Kept(host.context)
                               /\ c'.exchanged = host.context.exchanged
                                    <=> c.rb = host.context.rb

LEMMA HostReturnSound ==
  ASSUME DebugInv, HostReturn
  PROVE  Sound /\ Unseen
<1>1. d' = d /\ spared' = spared /\ ran' = Nothing /\ host.phase = "call" BY DEF HostReturn
<1>2. IsCpu(host.context) BY <1>1 DEF DebugInv
<1>3. IsCpu(Restored) BY <1>2, RestoredKeeps
<1>4. CASE callOS(Restored, host.fns)
  <2>1. IsCpu(c') /\ DOMAIN host' = HostFields /\ host'.context = Restored /\ host'.phase = "call"
    BY <1>3, <1>4, CallStarts
  <2>2. Sound BY <1>1, <1>3, <2>1, SameDebugger
  <2> QED BY <1>1, <2>1, <2>2 DEF Unseen
<1>5. CASE c' = Restored /\ host' = Wait("settle")
  <2>1. DOMAIN host' = HostFields /\ host'.phase # "call" BY <1>5 DEF Wait, HostFields
  <2>2. Sound BY <1>1, <1>3, <1>5, <2>1, SameDebugger
  <2> QED BY <1>1, <1>2, <1>5, <2>2, RestoredKeeps DEF Unseen
<1> QED BY <1>4, <1>5 DEF HostReturn

\* Nothing happens.
LEMMA StutterSound == ASSUME DebugInv, UNCHANGED vars PROVE DebugInv'
BY DEF DebugInv, vars, IsCpu, Ready, IsState, Lists, Armed, Asked, Sparing, skipped, Spares

\* Every step keeps the invariant and tells the user what it should.
LEMMA NextSound ==
  ASSUME DebugInv, Next
  PROVE  Sound
<1>1. CASE Run BY <1>1, RunSound
<1>2. CASE raiseIRQ BY <1>2, RaiseSound
<1>3. CASE Pause BY <1>3, PauseSound
<1>4. CASE Continue \/ Steps BY <1>4, StepsSound
<1>5. CASE Edit BY <1>5, EditSound
<1>6. CASE SetPC BY <1>6, SetPCSound
<1>7. CASE Resume BY <1>7, ResumeSound
<1>8. CASE InstallAddin BY <1>8, InstallSound
<1>9. CASE Settle BY <1>9, SettleSound
<1>10. CASE Settled BY <1>10, SettledSound
<1>11. CASE HostStep BY <1>11, HostStepSound
<1>12. CASE HostReturn BY <1>12, HostReturnSound
<1> QED
  BY <1>1, <1>2, <1>3, <1>4, <1>5, <1>6, <1>7, <1>8, <1>9, <1>10, <1>11, <1>12
  DEF Next, Host, HostStepping

\* The filter and the flags of the debugger cover what the user asked for, and the address resumed
\* from is spared exactly while the debugger skips it (refresh, resumeLocked, before), always.
THEOREM DebuggerStaysReady == Spec => []DebugInv
<1>1. DebugInv /\ [Next]_vars => DebugInv'
  BY NextSound, StutterSound DEF Sound
<1> QED BY InitReady, <1>1, PTL DEF Spec

\* An instruction at an enabled breakpoint past its ignored hits, at a syscall break or at the
\* target of a run does not run before the machine stops, but for the one it was resumed at; a
\* breakpoint stop is asked for, and comes again at the address resumed from only where an
\* exception undid its instruction (debugRun, dstep, before).
THEOREM StopsComeBefore == Spec => StopsBefore
<1>1. DebugInv /\ [Next]_vars =>
        [/\ Seen => ran'.pc = skipped \/ ~Stopping(ran'.pc)
         /\ Stopped("breakpoint") => /\ ran'.pc = Nowhere /\ Stopping(c'.pc)
                                     /\ c'.pc = spared.pc => spared.at = "undone"]_vars
  BY NextSound DEF Sound, Before
<1> QED BY DebuggerStaysReady, <1>1, PTL DEF Spec, StopsBefore

\* A completed access to what is watched and an exception that breaks stop the machine at their
\* instruction, and a watchpoint stop has such an access (dstep, access).
THEOREM StopsComeAfter == Spec => StopsAfter
<1>1. DebugInv /\ [Next]_vars =>
        [/\ Seen /\ ran'.done /\ Touches(ran'.acc) => d'.latched
         /\ Seen /\ ran'.exc \in d.exc => d'.latched /\ d'.stop.reason = "exception"
         /\ Stopped("watchpoint") => ran'.done /\ Touches(ran'.acc)]_vars
  BY NextSound DEF Sound, AfterAccess
<1> QED BY DebuggerStaysReady, <1>1, PTL DEF Spec, StopsAfter

\* While an OS function runs for the host the debugger does not change, and the context it
\* borrowed is put back, whether it returned or ran out of its budget; with R0-R7 and the other
\* bank exchanged exactly if the bank was another one then (callOS, setSR).
THEOREM HostCallsStayUnseen == Spec => HostCallsUnseen
<1>1. ASSUME DebugInv, Next PROVE Unseen
  <2> SUFFICES ASSUME host.phase = "call" PROVE Unseen BY DEF Unseen
  <2>1. \A name : ~Call(name) BY DEF Call
  <2>2. raiseIRQ \/ HostStep \/ HostReturn
    BY <1>1, <2>1
    DEF Next, Run, Pause, Continue, Steps, StepInto, StepOver, StepOut, RunTo, Edit, SetPC, Resume,
        Host, InstallAddin, HostStepping, Settle, Settled
  <2>3. CASE raiseIRQ BY <2>3 DEF raiseIRQ, Unseen
  <2>4. CASE HostStep BY <1>1, <2>4, HostStepSound DEF Unseen
  <2>5. CASE HostReturn BY <1>1, <2>5, HostReturnSound
  <2> QED BY <2>2, <2>3, <2>4, <2>5
<1>2. DebugInv /\ [Next]_vars => [Unseen]_vars BY <1>1
<1> QED BY DebuggerStaysReady, <1>2, PTL DEF Spec, HostCallsUnseen, Unseen
=============================================================================
