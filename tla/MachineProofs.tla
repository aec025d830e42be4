---------------------------- MODULE MachineProofs ----------------------------
(***************************************************************************)
(* Proofs about what runs the machine: StepLoop, which keeps `due` no      *)
(* later than any event and so implements polling before every instruction *)
(* but for two late cases (PollLoop's LateSpec), and Intc, the path of the *)
(* interrupts it polls for: a world's handlers are entered for its own     *)
(* sources only, handlers nest by level under INTMU, and a pending request *)
(* stays.  And about Studio, the program that hosts the machine: for any   *)
(* number of calls, machines and saves, while no save overlaps another the *)
(* session is whole, and while no ForgetChanges drops another machine than *)
(* it found each machine is halted once.                                   *)
(***************************************************************************)
EXTENDS StepLoop, Intc, Studio, TLAPS

---------------------------------------------------------------------------
(* Studio. *)

PcType == pc \in [Goroutines -> Labels]

LEMMA PcTypeInit == StudioInit => PcType
  <1> SUFFICES ASSUME StudioInit PROVE PcType
    OBVIOUS
  <1> QED BY DEF StudioInit, PcType, Labels, Goroutines

LEMMA GoesType ==
  ASSUME PcType, NEW g \in Goroutines, NEW label \in Labels, Goes(g, label)
  PROVE  PcType' /\ pc'[g] = label /\ \A h \in Goroutines \ {g} : pc'[h] = pc[h]
  BY DEF PcType, Goes

\* Where a step of goroutine g leads: g alone moves, but for the end of the program.
Moves(g) == \E label \in Labels : Goes(g, label)

LEMMA GoMoves ==
  ASSUME PcType, NEW g \in Goroutines, Go(g), ~Exit(g)
  PROVE  Moves(g)
  <1>1. AfterSave(g) \in Labels
    BY DEF AfterSave, Labels
  <1>2. TakeOf(g) \in Labels
    BY DEF TakeOf, Labels
  <1>3. CASE Read(g) \/ Drop(g) \/ Halt(g) \/ Remove(g) \/ Image(g)
    BY <1>3 DEF Read, Drop, Halt, Remove, Image, Moves, Labels
  <1>4. CASE Find(g) \/ Wait(g)
    BY <1>4 DEF Find, Wait, Moves, Labels
  <1>5. CASE Take(g)
    BY <1>2, <1>5 DEF Take, Moves
  <1>6. CASE CheckFault(g)
    <2>1. IF state[arg[g]].faulty THEN AfterSave(g) \in Labels ELSE "snapshot" \in Labels
      BY <1>1 DEF Labels
    <2> QED BY <1>6, <2>1 DEF CheckFault, Moves
  <1>7. CASE Snapshot(g) \/ Open(g) \/ Fill(g) \/ Publish(g)
    BY <1>7 DEF Snapshot, Open, Fill, Publish, Moves, Labels
  <1>8. CASE FillFails(g) \/ Rename(g)
    BY <1>1, <1>8 DEF FillFails, Rename, Moves
  <1> QED BY <1>3, <1>4, <1>5, <1>6, <1>7, <1>8 DEF Go

LEMMA EndsType ==
  ASSUME Ends
  PROVE  /\ PcType' /\ \A g \in Goroutines : pc'[g] \in {"off", "done"}
         /\ current' = 0 /\ stopped' = {}
  BY DEF Ends, NoMachine, PcType, Labels

LEMMA BeginMoves ==
  ASSUME PcType, NEW c \in Calls, Begin(c)
  PROVE  \E label \in {"read", "take", "find"} : Goes(c, label)
  <1>1. KindOf[c] \in {"load", "restart", "forget", "quit"}
    BY StudioAssumption DEF StudioAssumption
  <1>2. CASE KindOf[c] = "load"
    BY <1>2 DEF Begin
  <1>3. CASE KindOf[c] = "quit"
    BY <1>3 DEF Begin
  <1>4. CASE KindOf[c] \in {"restart", "forget"}
    BY <1>4 DEF Begin
  <1> QED BY <1>1, <1>2, <1>3, <1>4

LEMMA PcTypeStep == ASSUME PcType, [StudioNext]_studioVars PROVE PcType'
  <1>1. ASSUME NEW m \in Machines, Leave(m) \/ Tick(m) \/ Turn(m)
        PROVE  PcType'
    BY <1>1 DEF Leave, Tick, Turn, goVars, PcType
  <1>2. ASSUME NEW g \in Goroutines, Go(g)
        PROVE  PcType'
    <2>1. CASE Exit(g)
      BY <2>1, EndsType DEF Exit
    <2>2. CASE ~Exit(g)
      BY <1>2, <2>2, GoMoves, GoesType DEF Moves
    <2> QED BY <2>1, <2>2
  <1>3. ASSUME NEW c \in Calls, Begin(c)
        PROVE  PcType'
    BY <1>3, BeginMoves, GoesType DEF Labels, Goroutines
  <1>4. CASE Autosave
    BY <1>4, GoesType DEF Autosave, Labels, Goroutines
  <1>5. CASE Crash
    BY <1>5, EndsType DEF Crash
  <1>6. CASE Launch
    BY <1>6, GoesType DEF Launch, Labels, Goroutines
  <1>7. CASE UNCHANGED studioVars
    BY <1>7 DEF studioVars, goVars, PcType
  <1> QED BY <1>1, <1>2, <1>3, <1>4, <1>5, <1>6, <1>7 DEF StudioNext

---------------------------------------------------------------------------
(* The session. *)

Writing(g) == pc[g] \in {"fill", "rename"}

\* While saves do not overlap, one goroutine writes at a time, and the temporary file is its own.
SaveInv ==
  /\ PcType
  /\ ~raced =>
       /\ session.kind # "torn"
       /\ \A g, h \in Goroutines : Writing(g) /\ Writing(h) => g = h
       /\ \A g \in Goroutines : At(g, "fill") => tmp.kind # "none"
       /\ \A g \in Goroutines : At(g, "rename") => tmp.kind = "whole"

LEMMA SaveInit == StudioInit => SaveInv
  <1> SUFFICES ASSUME StudioInit PROVE SaveInv
    OBVIOUS
  <1>1. \A g \in Goroutines : pc[g] \in {"read", "off"}
    BY DEF StudioInit
  <1>2. session.kind # "torn"
    BY DEF StudioInit, NoFile
  <1> QED BY <1>1, <1>2, PcTypeInit DEF SaveInv, Writing, At

\* A step that touches neither the files nor `raced`, and brings nobody to write.
LEMMA SaveStill ==
  ASSUME SaveInv, PcType', UNCHANGED <<session, tmp, raced>>,
         \A g \in Goroutines : pc'[g] \in {"fill", "rename"} => pc'[g] = pc[g]
  PROVE  SaveInv'
  BY DEF SaveInv, Writing, At

LEMMA SaveMoves ==
  ASSUME SaveInv, PcType', UNCHANGED <<session, tmp, raced>>, NEW g \in Goroutines,
         NEW label \in Labels \ {"fill", "rename"}, Goes(g, label)
  PROVE  SaveInv'
  <1>1. \A h \in Goroutines : pc'[h] \in {"fill", "rename"} => pc'[h] = pc[h]
    BY GoesType DEF SaveInv
  <1> QED BY <1>1, SaveStill

LEMMA AfterSaveLabel ==
  \A g \in Goroutines : AfterSave(g) \in Labels \ {"fill", "rename"}
  BY DEF AfterSave, Labels

LEMMA OpenSaves == ASSUME SaveInv, PcType', NEW g \in Goroutines, Open(g) PROVE SaveInv'
  <1>0. Goes(g, "fill") /\ "fill" \in Labels
    BY DEF Open, Labels
  <1>1. pc'[g] = "fill" /\ \A h \in Goroutines \ {g} : pc'[h] = pc[h]
    BY <1>0, GoesType DEF SaveInv
  <1>2. tmp'.kind = "torn" /\ session' = session
    BY DEF Open, Torn
  <1>3. ~raced' => ~raced /\ \A h \in Goroutines \ {g} : pc[h] \notin {"fill", "rename"}
    BY DEF Open
  <1> QED BY <1>1, <1>2, <1>3 DEF SaveInv, Writing, At

LEMMA FillSaves == ASSUME SaveInv, PcType', NEW g \in Goroutines, Fill(g) PROVE SaveInv'
  <1>0. Goes(g, "rename") /\ "rename" \in Labels /\ pc[g] = "fill" /\ raced' = raced
    BY DEF Fill, Labels, At, histVars
  <1>1. pc'[g] = "rename" /\ \A h \in Goroutines \ {g} : pc'[h] = pc[h]
    BY <1>0, GoesType DEF SaveInv
  <1> SUFFICES ASSUME ~raced
               PROVE  SaveInv'
    BY <1>0 DEF SaveInv
  <1>2. tmp.kind # "none"
    BY <1>0 DEF SaveInv, At
  <1>3. PICK new \in {Whole(SavedState(g)), Torn} : tmp' = new /\ session' = session /\ new # Torn
    BY <1>2 DEF Fill
  <1>4. tmp'.kind = "whole"
    BY <1>3 DEF Whole
  <1> QED BY <1>0, <1>1, <1>3, <1>4 DEF SaveInv, Writing, At

LEMMA RenameSaves == ASSUME SaveInv, PcType', NEW g \in Goroutines, Rename(g) PROVE SaveInv'
  <1>0. Goes(g, AfterSave(g)) /\ pc[g] = "rename" /\ raced' = raced
    BY DEF Rename, At, histVars
  <1>1. /\ pc'[g] \notin {"fill", "rename"}
        /\ \A h \in Goroutines \ {g} : pc'[h] = pc[h]
    BY <1>0, AfterSaveLabel, GoesType DEF SaveInv
  <1> SUFFICES ASSUME ~raced
               PROVE  SaveInv'
    BY <1>0 DEF SaveInv
  <1>2. tmp.kind = "whole" /\ \A h \in Goroutines \ {g} : pc[h] \notin {"fill", "rename"}
    BY <1>0 DEF SaveInv, At, Writing
  <1>3. session'.kind = "whole"
    BY <1>2 DEF Rename
  <1>4. \A h \in Goroutines : pc'[h] \notin {"fill", "rename"}
    BY <1>1, <1>2
  <1> QED BY <1>3, <1>4 DEF SaveInv, At, Writing

LEMMA SaveStep == ASSUME SaveInv, [StudioNext]_studioVars PROVE SaveInv'
  <1>0. PcType /\ PcType'
    BY PcTypeStep DEF SaveInv
  <1>1. ASSUME NEW m \in Machines, Leave(m) \/ Tick(m) \/ Turn(m)
        PROVE  SaveInv'
    BY <1>0, <1>1, SaveStill DEF Leave, Tick, Turn, goVars, fileVars, histVars
  <1>2. ASSUME NEW g \in Goroutines, Go(g)
        PROVE  SaveInv'
    <2>1. CASE Read(g) \/ Find(g) \/ Image(g) \/ Drop(g) \/ Halt(g) \/ Wait(g) \/ Snapshot(g) \/ Publish(g)
      <3>1. UNCHANGED <<session, tmp, raced>>
        BY <2>1 DEF Read, Find, Image, Drop, Halt, Wait, Snapshot, Publish, fileVars, histVars
      <3>2. \E label \in Labels \ {"fill", "rename"} : Goes(g, label)
        BY <2>1 DEF Read, Find, Image, Drop, Halt, Wait, Snapshot, Publish, Labels
      <3> QED BY <1>0, <3>1, <3>2, SaveMoves
    <2>2. CASE Take(g)
      <3>1. TakeOf(g) \in Labels \ {"fill", "rename"}
        BY DEF TakeOf, Labels
      <3> QED BY <1>0, <2>2, <3>1, SaveMoves DEF Take, fileVars, histVars
    <2>3. CASE CheckFault(g)
      <3>1. \E label \in Labels \ {"fill", "rename"} : Goes(g, label)
        BY <2>3, AfterSaveLabel DEF CheckFault, Labels
      <3> QED BY <1>0, <2>3, <3>1, SaveMoves DEF CheckFault, fileVars, histVars
    <2>4. CASE FillFails(g)
      BY <1>0, <2>4, AfterSaveLabel, SaveMoves DEF FillFails, fileVars, histVars
    <2>5. CASE Remove(g)
      <3>1. pc'[g] = "read" /\ \A h \in Goroutines \ {g} : pc'[h] = pc[h]
        BY <1>0, <2>5, GoesType DEF Remove, Labels
      <3>2. session'.kind # "torn" /\ tmp' = tmp /\ raced' = raced
        BY <2>5 DEF Remove, NoFile
      <3> QED BY <1>0, <3>1, <3>2 DEF SaveInv, At, Writing
    <2>6. CASE Exit(g)
      BY <1>0, <2>6, EndsType, SaveStill DEF Exit, Ends, fileVars, histVars
    <2> QED BY <1>0, <1>2, <2>1, <2>2, <2>3, <2>4, <2>5, <2>6, OpenSaves, FillSaves, RenameSaves DEF Go
  <1>3. ASSUME NEW c \in Calls, Begin(c)
        PROVE  SaveInv'
    <2>1. \E label \in Labels \ {"fill", "rename"} : Goes(c, label)
      BY <1>0, <1>3, BeginMoves DEF Labels
    <2> QED BY <1>0, <1>3, <2>1, SaveMoves DEF Begin, fileVars, histVars, Goroutines
  <1>4. CASE Autosave
    BY <1>0, <1>4, SaveMoves DEF Autosave, Labels, Goroutines, fileVars
  <1>5. CASE Crash
    BY <1>0, <1>5, EndsType, SaveStill DEF Crash, Ends, fileVars
  <1>6. CASE Launch
    BY <1>0, <1>6, SaveMoves DEF Launch, Labels, Goroutines, fileVars, histVars
  <1>7. CASE UNCHANGED studioVars
    BY <1>0, <1>7, SaveStill DEF studioVars, goVars, fileVars, histVars
  <1> QED BY <1>1, <1>2, <1>3, <1>4, <1>5, <1>6, <1>7 DEF StudioNext

\* While saves do not overlap the session is a whole snapshot, whenever the program is stopped.
THEOREM SessionsStayWhole == StudioSpec => []SessionIntact
  <1>1. SaveInv => SessionIntact
    BY DEF SaveInv, SessionIntact
  <1> QED BY <1>1, SaveInit, SaveStep, PTL DEF StudioSpec

---------------------------------------------------------------------------
(* Halting. *)

\* m runs, or has run, and nobody has closed its stop channel.
Unhalted(m) == m \in Machines /\ m \notin stopped /\ driver[m] # "none"

HaltType ==
  /\ PcType
  /\ arg \in [Goroutines -> {0} \cup Machines]
  /\ driver \in [Machines -> {"none", "select", "turn", "done"}]
  /\ current \in {0} \cup Machines

\* The machine in a.m is open; so is the one of each call about to halt, and they are different.
\* A ForgetChanges about to drop the machine has one.
OneHalts ==
  /\ ~panicked
  /\ current # 0 => Unhalted(current)
  /\ stopped \subseteq {m \in Machines : driver[m] # "none"}
  /\ \A g \in Goroutines : At(g, "drop") => arg[g] # 0
  /\ \A g \in Goroutines : At(g, "halt") => Unhalted(arg[g]) /\ arg[g] # current
  /\ \A g, h \in Goroutines : At(g, "halt") /\ At(h, "halt") /\ arg[g] = arg[h] => g = h

\* While every ForgetChanges has dropped the machine it found.
HaltInv == HaltType /\ (~missed => OneHalts)

LEMMA ZeroNoMachine == 0 \notin Machines
  BY DEF Machines

LEMMA HaltInit == StudioInit => HaltInv
  <1> SUFFICES ASSUME StudioInit PROVE HaltInv
    OBVIOUS
  <1>1. \A g \in Goroutines : pc[g] \in {"read", "off"}
    BY DEF StudioInit
  <1> QED BY <1>1, PcTypeInit DEF HaltInv, HaltType, OneHalts, At, StudioInit

LEMMA HaltTypeStep == ASSUME HaltType, [StudioNext]_studioVars PROVE HaltType'
  <1>1. PcType'
    BY PcTypeStep DEF HaltType
  <1>2. ASSUME NEW m \in Machines, Leave(m) \/ Tick(m) \/ Turn(m)
        PROVE  HaltType'
    BY <1>1, <1>2 DEF Leave, Tick, Turn, goVars, HaltType
  <1>3. ASSUME NEW g \in Goroutines, Go(g)
        PROVE  HaltType'
    <2>1. CASE Read(g) \/ Image(g) \/ Snapshot(g) \/ Open(g) \/ Fill(g) \/ FillFails(g) \/ Rename(g)
      BY <1>1, <2>1 DEF Read, Image, Snapshot, Open, Fill, FillFails, Rename, machineVars, HaltType
    <2>2. CASE Find(g) \/ CheckFault(g) \/ Take(g)
      BY <1>1, <2>2 DEF Find, CheckFault, Take, machineVars, HaltType
    <2>3. CASE Drop(g) \/ Halt(g) \/ Wait(g) \/ Remove(g)
      BY <1>1, <2>3 DEF Drop, Halt, Wait, Remove, machineVars, HaltType
    <2>4. CASE Publish(g)
      BY <1>1, <2>4 DEF Publish, HaltType
    <2>5. CASE Exit(g)
      BY <1>1, <2>5 DEF Exit, Ends, NoMachine, HaltType
    <2> QED BY <1>3, <2>1, <2>2, <2>3, <2>4, <2>5 DEF Go
  <1>4. ASSUME NEW c \in Calls, Begin(c)
        PROVE  HaltType'
    BY <1>1, <1>4 DEF Begin, machineVars, HaltType
  <1>5. CASE Autosave
    BY <1>1, <1>5 DEF Autosave, machineVars, HaltType
  <1>6. CASE Crash
    BY <1>1, <1>6 DEF Crash, Ends, NoMachine, HaltType
  <1>7. CASE Launch
    BY <1>1, <1>7 DEF Launch, machineVars, HaltType
  <1>8. CASE UNCHANGED studioVars
    BY <1>1, <1>8 DEF studioVars, machineVars, goVars, HaltType
  <1> QED BY <1>2, <1>3, <1>4, <1>5, <1>6, <1>7, <1>8 DEF StudioNext

\* A step that leaves the machines and the goroutines at "halt" and "drop" alone.
LEMMA HaltMoves ==
  ASSUME HaltType, OneHalts, UNCHANGED <<current, driver, stopped, panicked>>,
         NEW g \in Goroutines, NEW label \in Labels \ {"drop", "halt"}, Goes(g, label),
         \A h \in Goroutines \ {g} : arg'[h] = arg[h]
  PROVE  OneHalts'
  <1>1. PcType' /\ pc'[g] = label /\ \A h \in Goroutines \ {g} : pc'[h] = pc[h]
    BY GoesType DEF HaltType
  <1> QED BY <1>1 DEF OneHalts, At, Unhalted

LEMMA DriverHalts ==
  ASSUME HaltType, OneHalts, NEW m \in Machines, Leave(m) \/ Tick(m) \/ Turn(m)
  PROVE  OneHalts'
  <1>1. UNCHANGED <<current, stopped, panicked, pc, arg>>
    BY DEF Leave, Tick, Turn, goVars, histVars
  <1>2. \A n \in Machines : driver[n] # "none" => driver'[n] # "none"
    BY DEF Leave, Tick, Turn, HaltType
  <1> QED BY <1>1, <1>2 DEF OneHalts, At, Unhalted

\* Emptying a.m makes a call the one that halts the machine.
LEMMA TakerHalts ==
  ASSUME HaltType, OneHalts, NEW g \in Goroutines, current # 0, current' = 0,
         UNCHANGED <<driver, stopped, panicked>>, Goes(g, "halt"), arg'[g] = current,
         \A h \in Goroutines \ {g} : arg'[h] = arg[h]
  PROVE  OneHalts'
  <1>1. PcType' /\ pc'[g] = "halt" /\ \A h \in Goroutines \ {g} : pc'[h] = pc[h]
    BY GoesType DEF HaltType, Labels
  <1>2. Unhalted(current) /\ \A h \in Goroutines \ {g} : At(h, "halt") => arg[h] # current
    BY DEF OneHalts
  <1> QED BY <1>1, <1>2, ZeroNoMachine DEF OneHalts, At, Unhalted

LEMMA TakeHalts == ASSUME HaltType, OneHalts, NEW g \in Goroutines, Take(g) PROVE OneHalts'
  <1>1. /\ UNCHANGED <<driver, stopped, panicked>>
        /\ current' = 0 /\ arg' = [arg EXCEPT ![g] = current] /\ Goes(g, TakeOf(g))
    BY DEF Take, histVars
  <1>2. arg'[g] = current /\ \A h \in Goroutines \ {g} : arg'[h] = arg[h]
    BY <1>1 DEF HaltType
  <1>3. CASE current = 0
    <2>1. TakeOf(g) \in Labels \ {"drop", "halt"}
      BY <1>3 DEF TakeOf, Labels
    <2> QED BY <1>1, <1>2, <1>3, <2>1, HaltMoves
  <1>4. CASE current # 0
    <2>1. TakeOf(g) = "halt"
      BY <1>4 DEF TakeOf
    <2> QED BY <1>1, <1>2, <1>4, <2>1, TakerHalts
  <1> QED BY <1>3, <1>4

\* ForgetChanges, when the machine is still the one it found.
LEMMA DropHalts == ASSUME HaltType, OneHalts, NEW g \in Goroutines, Drop(g), ~missed' PROVE OneHalts'
  <1>1. /\ UNCHANGED <<driver, stopped, panicked, arg>> /\ At(g, "drop")
        /\ current' = 0 /\ current = arg[g] /\ Goes(g, "halt")
    BY DEF Drop
  <1>2. current # 0
    BY <1>1 DEF OneHalts
  <1> QED BY <1>1, <1>2, TakerHalts

LEMMA HaltHalts == ASSUME HaltType, OneHalts, NEW g \in Goroutines, Halt(g) PROVE OneHalts'
  <1>1. /\ UNCHANGED <<current, driver, arg>> /\ At(g, "halt") /\ Goes(g, "wait")
        /\ stopped' = stopped \cup {arg[g]} /\ panicked' = (arg[g] \in stopped)
    BY DEF Halt
  <1>2. PcType' /\ pc'[g] = "wait" /\ \A h \in Goroutines \ {g} : pc'[h] = pc[h]
    BY <1>1, GoesType DEF HaltType, Labels
  <1>3. Unhalted(arg[g]) /\ arg[g] # current
    BY <1>1 DEF OneHalts
  <1>4. \A h \in Goroutines \ {g} : At(h, "halt") => arg[h] # arg[g]
    BY <1>1 DEF OneHalts
  <1>5. ~panicked'
    BY <1>1, <1>3 DEF Unhalted
  <1> QED BY <1>1, <1>2, <1>3, <1>4, <1>5 DEF OneHalts, At, Unhalted

LEMMA PublishHalts == ASSUME HaltType, OneHalts, NEW g \in Goroutines, Publish(g) PROVE OneHalts'
  <1>1. PICK m \in Machines :
          /\ driver[m] = "none" /\ current' = m
          /\ driver' = [driver EXCEPT ![m] = "select"]
    BY DEF Publish
  <1>2. UNCHANGED <<stopped, panicked, arg>> /\ Goes(g, "done")
    BY DEF Publish, histVars
  <1>3. PcType' /\ pc'[g] = "done" /\ \A h \in Goroutines \ {g} : pc'[h] = pc[h]
    BY <1>2, GoesType DEF HaltType, Labels
  <1>4. /\ driver'[m] # "none"
        /\ \A n \in Machines : driver[n] # "none" => driver'[n] # "none" /\ n # m
    BY <1>1 DEF HaltType
  <1>5. m \notin stopped
    BY <1>1 DEF OneHalts
  <1> QED BY <1>1, <1>2, <1>3, <1>4, <1>5 DEF OneHalts, At, Unhalted

LEMMA EndsHalts == ASSUME OneHalts, Ends, UNCHANGED panicked PROVE OneHalts'
  BY EndsType DEF OneHalts, At

LEMMA HaltStep == ASSUME HaltInv, [StudioNext]_studioVars PROVE HaltInv'
  <1>0. HaltType /\ HaltType'
    BY HaltTypeStep DEF HaltInv
  <1>1. ASSUME NEW g \in Goroutines, Go(g), OneHalts, ~missed'
        PROVE  OneHalts'
    <2>1. CASE Read(g) \/ Image(g) \/ Snapshot(g) \/ Open(g) \/ Fill(g) \/ Remove(g)
      <3>1. UNCHANGED <<current, driver, stopped, panicked, arg>>
        BY <2>1 DEF Read, Image, Snapshot, Open, Fill, Remove, machineVars, histVars
      <3>2. \E label \in Labels \ {"drop", "halt"} : Goes(g, label)
        BY <2>1 DEF Read, Image, Snapshot, Open, Fill, Remove, Labels
      <3> QED BY <1>0, <1>1, <3>1, <3>2, HaltMoves
    <2>2. CASE Find(g)
      <3>1. /\ UNCHANGED <<current, driver, stopped, panicked>>
            /\ arg' = [arg EXCEPT ![g] = current]
        BY <2>2 DEF Find, machineVars, histVars
      <3>2. arg'[g] = current /\ \A h \in Goroutines \ {g} : arg'[h] = arg[h]
        BY <1>0, <3>1 DEF HaltType
      <3>3. CASE current # 0 /\ Kind(g) = "forget"
        <4>1. Goes(g, "drop")
          BY <2>2, <3>3 DEF Find
        <4>2. pc'[g] = "drop" /\ \A h \in Goroutines \ {g} : pc'[h] = pc[h]
          BY <1>0, <4>1, GoesType DEF HaltType, Labels
        <4> QED BY <1>1, <3>1, <3>2, <3>3, <4>2 DEF OneHalts, At, Unhalted
      <3>4. CASE ~(current # 0 /\ Kind(g) = "forget")
        <4>1. \E label \in Labels \ {"drop", "halt"} : Goes(g, label)
          BY <2>2, <3>4 DEF Find, Labels
        <4> QED BY <1>0, <1>1, <3>1, <3>2, <4>1, HaltMoves
      <3> QED BY <3>3, <3>4
    <2>3. CASE Wait(g) \/ CheckFault(g) \/ FillFails(g) \/ Rename(g)
      <3>1. AfterSave(g) \in Labels \ {"drop", "halt"}
        BY DEF AfterSave, Labels
      <3>2. \E label \in Labels \ {"drop", "halt"} : Goes(g, label)
        BY <2>3, <3>1 DEF Wait, CheckFault, FillFails, Rename, Labels
      <3>3. UNCHANGED <<current, driver, stopped, panicked, arg>>
        BY <2>3 DEF Wait, CheckFault, FillFails, Rename, machineVars, histVars
      <3> QED BY <1>0, <1>1, <3>2, <3>3, HaltMoves
    <2>4. CASE Exit(g)
      BY <1>1, <2>4, EndsHalts DEF Exit, histVars
    <2> QED BY <1>0, <1>1, <2>1, <2>2, <2>3, <2>4, TakeHalts, DropHalts, HaltHalts, PublishHalts DEF Go
  <1>2. ASSUME NEW c \in Calls, Begin(c), OneHalts
        PROVE  OneHalts'
    <2>1. \E label \in Labels \ {"drop", "halt"} : Goes(c, label)
      BY <1>0, <1>2, BeginMoves DEF HaltType, Labels
    <2> QED BY <1>0, <1>2, <2>1, HaltMoves DEF Begin, machineVars, histVars, Goroutines
  <1>3. ASSUME Autosave, OneHalts PROVE OneHalts'
    <2>1. \A h \in Goroutines \ {"auto"} : arg'[h] = arg[h]
      BY <1>0, <1>3 DEF Autosave, HaltType
    <2> QED BY <1>0, <1>3, <2>1, HaltMoves DEF Autosave, Labels, Goroutines, machineVars
  <1>4. ASSUME Crash, OneHalts PROVE OneHalts'
    BY <1>4, EndsHalts DEF Crash
  <1>5. ASSUME Launch, OneHalts PROVE OneHalts'
    BY <1>0, <1>5, HaltMoves DEF Launch, Labels, Goroutines, machineVars, histVars
  <1>6. ASSUME UNCHANGED studioVars, OneHalts PROVE OneHalts'
    BY <1>6 DEF studioVars, machineVars, goVars, histVars, OneHalts, At, Unhalted
  <1>7. ~missed' => ~missed
    <2>1. ASSUME NEW m \in Machines, Leave(m) \/ Tick(m) \/ Turn(m) PROVE ~missed' => ~missed
      BY <2>1 DEF Leave, Tick, Turn, histVars, forgetVars
    <2>2. ASSUME NEW g \in Goroutines, Go(g) PROVE ~missed' => ~missed
      BY <2>2 DEF Go, Read, Find, Image, Drop, Take, Halt, Wait, Remove, CheckFault, Snapshot, Open, Fill,
                  FillFails, Rename, Publish, Exit, histVars, forgetVars
    <2>3. ASSUME NEW c \in Calls, Begin(c) PROVE ~missed' => ~missed
      BY <2>3 DEF Begin, histVars, forgetVars
    <2>4. Autosave \/ Crash \/ Launch \/ UNCHANGED studioVars => (~missed' => ~missed)
      BY DEF Autosave, Crash, Launch, studioVars, histVars, forgetVars
    <2> QED BY <2>1, <2>2, <2>3, <2>4 DEF StudioNext
  <1> SUFFICES ASSUME ~missed' PROVE OneHalts'
    BY <1>0 DEF HaltInv
  <1>8. OneHalts
    BY <1>7 DEF HaltInv
  <1> QED BY <1>0, <1>1, <1>2, <1>3, <1>4, <1>5, <1>6, <1>8, DriverHalts DEF StudioNext

\* However the calls, saves and crashes overlap, a stop channel is closed twice only after a
\* ForgetChanges has dropped another machine than the one it found.
THEOREM MachinesHaltOnce == StudioSpec => []ClosedOnce
  <1>1. HaltInv => ClosedOnce
    BY DEF HaltInv, OneHalts, ClosedOnce
  <1> QED BY <1>1, HaltInit, HaltStep, PTL DEF StudioSpec

---------------------------------------------------------------------------
(* The step loop. *)

USE StepAssumption DEF Poll!PollAssumption

\* What the steps below need of the state.
LoopInv == TypeOK /\ end <= MaxCycles /\ DueIsEarliest

---------------------------------------------------------------------------
(* The values the devices and the key calls take are times. *)

LEMMA KeyTimesType ==
  ASSUME NEW now \in Nat
  PROVE  /\ Poll!KeyTimes(now) \subseteq Nat
         /\ now <= MaxCycles => \A t \in Poll!KeyTimes(now) : t > now
BY DEF Poll!KeyTimes

LEMMA ReloadType ==
  ASSUME TypeOK, NEW t \in Timers, Poll!Due(t)
  PROVE  Poll!Reload(t) \in Nat
<1>1. cycles \in Nat /\ next[t] \in Nat /\ next[t] <= cycles
  BY DEF TypeOK, Poll!TypeOK, Poll!Due
<1>2. PeriodOf[t] \in Nat \ {0}
  OBVIOUS
<1>3. t \in {"keysc", "tick", "rtc", "count", "conv"}
  OBVIOUS
<1>4. CASE t = "conv"
  BY <1>4 DEF Poll!Reload
<1>5. CASE t = "rtc"
  <2>1. Poll!Reload(t) = next[t] + PeriodOf[t]
    BY <1>5 DEF Poll!Reload
  <2> QED BY <1>1, <1>2, <2>1
<1>6. CASE t = "count"
  <2>1. Poll!Reload(t) = next[t] + ((cycles - next[t]) \div PeriodOf[t] + 1) * PeriodOf[t]
    BY <1>6 DEF Poll!Reload
  <2>2. (cycles - next[t]) \div PeriodOf[t] \in Nat
    BY <1>1, <1>2
  <2> QED BY <1>1, <1>2, <2>1, <2>2
<1>7. CASE t \in {"keysc", "tick"}
  <2>1. Poll!Reload(t) = cycles + PeriodOf[t]
    BY <1>7 DEF Poll!Reload
  <2> QED BY <1>1, <1>2, <2>1
<1> QED BY <1>3, <1>4, <1>5, <1>6, <1>7

LEMMA TickedType ==
  ASSUME TypeOK
  PROVE  /\ Poll!NextTicked \in [Timers -> Nat]
         /\ ConvTicked \in Nat /\ ConvTicked \in Poll!ConvTicked(TRUE)
         /\ \A pd \in Poll!PendTicked : pd \subseteq Poll!Requesters
<1>1. Poll!NextTicked \in [Timers -> Nat]
  BY ReloadType DEF Poll!NextTicked, TypeOK, Poll!TypeOK
<1>2. ConvTicked \in Nat /\ ConvTicked \in Poll!ConvTicked(TRUE)
  BY DEF ConvTicked, Poll!ConvTicked, TypeOK, Poll!TypeOK
<1>3. \A pd \in Poll!PendTicked : pd \subseteq Poll!Requesters
  BY DEF Poll!PendTicked, Poll!Acting, Poll!Requesters, TypeOK, Poll!TypeOK
<1> QED BY <1>1, <1>2, <1>3

LEMMA ReprogrammedType ==
  ASSUME TypeOK, NEW nx \in [Timers -> Nat]
  PROVE  Poll!Reprogrammed(nx) \subseteq [Timers -> Nat]
<1>1. {cycles + d : d \in Delays} \cup {Never} \subseteq Nat
  <2>1. cycles \in Nat
    BY DEF TypeOK, Poll!TypeOK
  <2> QED BY <2>1
<1>2. ASSUME NEW t \in Timers, NEW v \in Nat
      PROVE  [nx EXCEPT ![t] = v] \in [Timers -> Nat]
  OBVIOUS
<1> DEFINE Times == {cycles + d : d \in Delays} \cup {Never}
<1> HIDE DEF Times
<1>3. ASSUME NEW t \in Timers
      PROVE  {[nx EXCEPT ![t] = v] : v \in Times} \subseteq [Timers -> Nat]
  <2> SUFFICES ASSUME NEW n \in {[nx EXCEPT ![t] = v] : v \in Times} PROVE n \in [Timers -> Nat]
    OBVIOUS
  <2>1. PICK v \in Times : n = [nx EXCEPT ![t] = v]
    OBVIOUS
  <2> QED BY <1>1, <1>2, <2>1 DEF Times
<1>4. Poll!Reprogrammed(nx) = UNION {{[nx EXCEPT ![t] = v] : v \in Times} : t \in Timers \ {"keysc"}}
  BY Zenon DEF Poll!Reprogrammed, Times
<1> DEFINE Choices == {{[nx EXCEPT ![t] = v] : v \in Times} : t \in Timers \ {"keysc"}}
<1>5. ASSUME NEW c \in Choices PROVE c \subseteq [Timers -> Nat]
  <2>1. PICK t \in Timers \ {"keysc"} : c = {[nx EXCEPT ![t] = v] : v \in Times}
    OBVIOUS
  <2> QED BY <1>3, <2>1
<1> HIDE DEF Choices
<1>6. UNION Choices \subseteq [Timers -> Nat]
  BY <1>5
<1> QED BY <1>4, <1>6 DEF Choices

LEMMA ProgramsType ==
  ASSUME TypeOK, NEW nx \in [Timers -> Nat], NEW cv \in Nat, NEW w \in Poll!Programs(nx, cv)
  PROVE  w[1] \in [Timers -> Nat] /\ w[2] \in Nat
<1>1. idle + IdleTime \in Nat
  BY DEF TypeOK, Poll!TypeOK
<1> QED BY <1>1, ReprogrammedType DEF Poll!Programs

\* Whatever the CPU does in a turn, time advances within the bound.
LEMMA CpuType ==
  ASSUME TypeOK, NEW pd, pd \subseteq Poll!Requesters,
         Poll!Execute(pd) \/ Poll!Halted(pd) \/ Poll!Program(pd)
  PROVE  /\ cycles' \in Nat /\ cycles' > cycles /\ cycles' <= MaxCycles
         /\ idle' \in Nat /\ asleep' \in BOOLEAN /\ pend' \subseteq Poll!Requesters
<1> USE DEF TypeOK, Poll!TypeOK, Poll!Advance
<1>1. CASE Poll!Execute(pd)
  BY <1>1 DEF Poll!Execute, Poll!Accepting
<1>2. CASE Poll!Halted(pd)
  BY <1>2 DEF Poll!Halted
<1>3. CASE Poll!Program(pd)
  BY <1>3 DEF Poll!Program, Poll!Accepting
<1> QED BY <1>1, <1>2, <1>3

\* The exact key calls of the loop are key calls of the promise.
LEMMA KeyCallsPromised ==
  ASSUME TypeOK, cycles' \in Nat, cycles' > cycles, cycles' <= MaxCycles,
         NEW nx \in [Timers -> Nat], KeyCalls(nx)
  PROVE  /\ Poll!AfterStep(TRUE, nx)
         /\ tapAt' \in Nat /\ keyAt' \in Nat /\ next' \in [Timers -> Nat]
<1>1. cycles \in Nat /\ tapAt \in Nat /\ keyAt \in Nat
  BY DEF TypeOK, Poll!TypeOK
<1>2. /\ tapAt' \in Poll!KeyTimes(cycles') \cup {tapAt} /\ Poll!Acts(TRUE, tapAt, tapAt')
      /\ tapAt <= cycles' => tapAt' # tapAt
  BY <1>1, KeyTimesType DEF KeyCalls, Poll!Acts
<1>3. /\ keyAt' \in Poll!KeyTimes(cycles') \cup {keyAt} /\ Poll!Acts(TRUE, keyAt, keyAt')
      /\ keyAt <= cycles' => keyAt' # keyAt
  BY <1>1, KeyTimesType DEF KeyCalls, Poll!Acts
<1>4. \/ next' = nx
      \/ /\ tapAt' # tapAt \/ keyAt' # keyAt
         /\ "keysc" \in Timers /\ next' = [nx EXCEPT !["keysc"] = 0]
  BY <1>2, <1>3 DEF KeyCalls
<1>5. next' \in [Timers -> Nat]
  BY <1>4
<1>6. tapAt' \in Nat /\ keyAt' \in Nat
  BY <1>1, <1>2, <1>3, KeyTimesType
<1> QED BY <1>2, <1>3, <1>4, <1>5, <1>6 DEF Poll!AfterStep

---------------------------------------------------------------------------
(* Each action of the loop keeps the invariant and is a step, or no step, of the promise. *)

\* A time no later than the cycle before an event is before the event.
LEMMA BeforeEvent == \A a, b \in Nat : a <= b - 1 => a < b
OBVIOUS

LEMMA PollingTurnStep ==
  ASSUME LoopInv, PollingTurn
  PROVE  LoopInv' /\ Poll!Turn(TRUE)
<1> USE DEF PollingTurn
<1>1. TypeOK /\ UNCHANGED end
  BY DEF LoopInv
<1>2. PICK pd \in Poll!PendTicked :
        \/ /\ Poll!Execute(pd) \/ Poll!Halted(pd)
           /\ conv' = ConvTicked
           /\ dirty' = FALSE
           /\ KeyCalls(Poll!NextTicked)
        \/ /\ Poll!Program(pd)
           /\ dirty' = WriteNoted
           /\ \E w \in Poll!Programs(Poll!NextTicked, ConvTicked) :
                conv' = w[2] /\ KeyCalls(w[1])
  OBVIOUS
<1>3. /\ cycles' \in Nat /\ cycles' > cycles /\ cycles' <= MaxCycles
      /\ idle' \in Nat /\ asleep' \in BOOLEAN /\ pend' \subseteq Poll!Requesters
  BY <1>1, <1>2, TickedType, CpuType
<1>4. /\ dirty' \in BOOLEAN /\ conv' \in Nat /\ tapAt' \in Nat /\ keyAt' \in Nat
      /\ next' \in [Timers -> Nat] /\ Poll!Turn(TRUE)
  <2>1. CASE /\ Poll!Execute(pd) \/ Poll!Halted(pd)
             /\ conv' = ConvTicked /\ dirty' = FALSE /\ KeyCalls(Poll!NextTicked)
    <3>1. /\ Poll!AfterStep(TRUE, Poll!NextTicked)
          /\ tapAt' \in Nat /\ keyAt' \in Nat /\ next' \in [Timers -> Nat]
      BY <1>1, <1>3, <2>1, TickedType, KeyCallsPromised
    <3>2. Poll!Turn(TRUE)
      BY <1>1, <2>1, <3>1, TickedType DEF Poll!Turn
    <3> QED BY <1>1, <2>1, <3>1, <3>2, TickedType
  <2>2. CASE /\ Poll!Program(pd) /\ dirty' = WriteNoted
             /\ \E w \in Poll!Programs(Poll!NextTicked, ConvTicked) :
                  conv' = w[2] /\ KeyCalls(w[1])
    <3>1. PICK w \in Poll!Programs(Poll!NextTicked, ConvTicked) :
            conv' = w[2] /\ KeyCalls(w[1])
      BY <2>2
    <3>2. w[1] \in [Timers -> Nat] /\ w[2] \in Nat
      BY <1>1, TickedType, ProgramsType
    <3>3. /\ Poll!AfterStep(TRUE, w[1])
          /\ tapAt' \in Nat /\ keyAt' \in Nat /\ next' \in [Timers -> Nat]
      BY <1>1, <1>3, <3>1, <3>2, KeyCallsPromised
    <3>4. Poll!Turn(TRUE)
      BY <1>1, <2>2, <3>1, <3>3, TickedType DEF Poll!Turn
    <3> QED BY <2>2, <3>1, <3>2, <3>3, <3>4 DEF WriteNoted
  <2> QED BY <1>2, <2>1, <2>2
<1>5. due' \in DueTimes' /\ \A t \in DueTimes' : due' <= t
  BY DEF IsEarliest
<1>6. /\ \A t \in Timers : due' <= next'[t]
      /\ due' <= keyAt'
      /\ tapAt' # Never => due' <= IF tapAt' > 0 THEN tapAt' - 1 ELSE 0
  <2>1. keyAt' \in DueTimes' /\ \A t \in Timers : next'[t] \in DueTimes'
    BY DEF DueTimes
  <2>2. tapAt' # Never => (IF tapAt' > 0 THEN tapAt' - 1 ELSE 0) \in DueTimes'
    BY DEF DueTimes, TapTimes
  <2> QED BY <1>5, <2>1, <2>2
<1>7. due' \in Nat
  <2>1. Never \in Nat /\ keyAt' \in Nat /\ \A t \in Timers : next'[t] \in Nat
    BY <1>4
  <2>2. \A t \in ConvTimes' : t \in Nat
    BY <1>3, <1>4 DEF ConvTimes
  <2>3. \A t \in TapTimes' : t \in Nat
    BY <1>4 DEF TapTimes
  <2> QED BY <1>5, <2>1, <2>2, <2>3 DEF DueTimes
<1>8. DueIsEarliest'
  <2>1. tapAt' # Never /\ cycles' < due' => due' < tapAt'
    <3> SUFFICES ASSUME tapAt' # Never, cycles' < due' PROVE due' < tapAt'
      OBVIOUS
    <3>1. CASE tapAt' > 0
      <4>1. due' <= tapAt' - 1
        BY <3>1, <1>6
      <4>2. due' \in Nat /\ tapAt' \in Nat
        BY <1>4, <1>7
      <4> QED BY <4>1, <4>2, BeforeEvent
    <3>2. CASE tapAt' = 0
      <4>1. due' <= 0
        BY <3>2, <1>6
      <4> QED BY <4>1, <1>3, <1>7
    <3> QED BY <3>1, <3>2, <1>4
  <2> QED BY <1>6, <2>1 DEF DueIsEarliest
<1>9. TypeOK' /\ end' <= MaxCycles
  BY <1>1, <1>3, <1>4, <1>7 DEF LoopInv, TypeOK, Poll!TypeOK, Poll!Requesters
<1> QED BY <1>4, <1>8, <1>9 DEF LoopInv

\* On the fast path nothing is due: a poll would find nothing to do.
LEMMA NothingDue ==
  ASSUME LoopInv, Looping, ~Polls
  PROVE  /\ ~dirty /\ cycles < due /\ cycles < MaxCycles
         /\ \A t \in Timers : ~Poll!Due(t) /\ due <= next[t]
         /\ keyAt > cycles /\ tapAt > cycles /\ due <= keyAt
         /\ tapAt # Never => due < tapAt
         /\ Poll!NextTicked = next /\ pend \in Poll!PendTicked
<1>1. TypeOK /\ cycles < end /\ end <= MaxCycles
  BY DEF LoopInv, Looping
<1>2. cycles \in Nat /\ end \in Nat /\ due \in Nat /\ tapAt \in Nat /\ keyAt \in Nat /\ dirty \in BOOLEAN
  BY <1>1 DEF TypeOK, Poll!TypeOK
<1>3. ~dirty /\ cycles < due /\ cycles < MaxCycles
  BY <1>1, <1>2 DEF Polls, Looping
<1>4. /\ \A t \in Timers : due <= next[t]
      /\ due <= keyAt
      /\ tapAt # Never => due < tapAt
  BY <1>3 DEF LoopInv, DueIsEarliest
<1>5. \A t \in Timers : next[t] \in Nat
  BY <1>1 DEF TypeOK, Poll!TypeOK
<1>6. \A t \in Timers : ~Poll!Due(t)
  <2> TAKE t \in Timers
  <2>1. next[t] \in Nat /\ due <= next[t]
    BY <1>4, <1>5
  <2> QED BY <1>2, <1>3, <2>1 DEF Poll!Due
<1>7. keyAt > cycles /\ tapAt > cycles
  BY <1>2, <1>3, <1>4
<1>8. Poll!NextTicked = next
  BY <1>1, <1>6 DEF Poll!NextTicked, TypeOK, Poll!TypeOK
<1>9. pend \in Poll!PendTicked
  <2>1. pend = pend \cup {} /\ {} \in SUBSET Poll!Acting
    OBVIOUS
  <2> QED BY <2>1 DEF Poll!PendTicked
<1> QED BY <1>3, <1>4, <1>6, <1>7, <1>8, <1>9

LEMMA RunOnStep ==
  ASSUME LoopInv, RunOn
  PROVE  LoopInv' /\ Poll!Turn(TRUE)
<1> USE DEF RunOn
<1>1. TypeOK /\ Looping /\ ~Polls /\ ~asleep /\ UNCHANGED <<tapAt, keyAt, end, due>>
  BY DEF LoopInv
<1>2. conv \in Poll!ConvTicked(TRUE) /\ conv \in Nat /\ next \in [Timers -> Nat] /\ pend \subseteq Poll!Requesters
  BY <1>1 DEF Poll!ConvTicked, TypeOK, Poll!TypeOK, Poll!Requesters
<1>3. /\ cycles' \in Nat /\ cycles' > cycles /\ cycles' <= MaxCycles
      /\ idle' \in Nat /\ asleep' \in BOOLEAN /\ pend' \subseteq Poll!Requesters
  <2>1. Poll!Execute(pend) \/ Poll!Program(pend)
    OBVIOUS
  <2> QED BY <1>1, <1>2, <2>1, CpuType
<1>4. ASSUME next' \in [Timers -> Nat] PROVE Poll!AfterStep(TRUE, next')
  <2>1. tapAt > cycles /\ keyAt > cycles
    BY <1>1, NothingDue
  <2> QED BY <1>1, <2>1 DEF Poll!AfterStep, Poll!Acts
<1>5. CASE Poll!Execute(pend) /\ UNCHANGED <<next, conv, dirty>>
  <2>1. Poll!Turn(TRUE)
    BY <1>1, <1>2, <1>4, <1>5, NothingDue DEF Poll!Turn
  <2>2. TypeOK'
    BY <1>1, <1>2, <1>3, <1>5 DEF TypeOK, Poll!TypeOK, Poll!Requesters
  <2>3. DueIsEarliest'
    BY <1>1, <1>5, NothingDue DEF DueIsEarliest
  <2> QED BY <1>1, <2>1, <2>2, <2>3 DEF LoopInv
<1>6. CASE /\ Poll!Program(pend) /\ dirty' = WriteNoted
           /\ \E w \in Poll!Programs(next, conv) : next' = w[1] /\ conv' = w[2]
  <2>1. PICK w \in Poll!Programs(next, conv) : next' = w[1] /\ conv' = w[2]
    BY <1>6
  <2>2. next' \in [Timers -> Nat] /\ conv' \in Nat
    BY <1>1, <1>2, <2>1, ProgramsType
  <2>3. Poll!Turn(TRUE)
    <3>1. Poll!AfterStep(TRUE, w[1])
      BY <1>4, <2>1, <2>2
    <3> QED BY <1>1, <1>2, <1>6, <2>1, <3>1, NothingDue DEF Poll!Turn
  <2>4. TypeOK'
    BY <1>1, <1>3, <1>6, <2>2 DEF TypeOK, Poll!TypeOK, Poll!Requesters, WriteNoted
  <2>5. DueIsEarliest'
    BY <1>6 DEF DueIsEarliest, WriteNoted
  <2> QED BY <1>1, <2>3, <2>4, <2>5 DEF LoopInv
<1> QED BY <1>5, <1>6

LEMMA SleepStep ==
  ASSUME LoopInv, Sleep
  PROVE  LoopInv' /\ (Poll!Next(TRUE) \/ UNCHANGED pollVars)
<1> USE DEF Sleep
<1>1. /\ TypeOK /\ Looping /\ ~Polls /\ asleep
      /\ UNCHANGED <<next, conv, tapAt, keyAt, end, dirty>>
  BY DEF LoopInv
<1>2. /\ cycles \in Nat /\ idle \in Nat /\ conv \in Nat /\ end \in Nat /\ tapAt \in Nat
      /\ keyAt \in Nat /\ next \in [Timers -> Nat] /\ pend \subseteq Poll!Requesters
  BY <1>1 DEF TypeOK, Poll!TypeOK, Poll!Requesters
<1>3. due' \in DueTimes /\ \A t \in DueTimes : due' <= t
  BY DEF DueAsleep, IsEarliest
<1>4. /\ \A t \in Timers : due' <= next[t]
      /\ due' <= keyAt
      /\ tapAt # Never => due' <= tapAt - 1
      /\ conv # Never => due' <= IF conv > idle THEN cycles + (conv - idle) ELSE cycles
  BY <1>1, <1>2, <1>3, NothingDue DEF DueTimes, TapTimes, ConvTimes
<1>5. due' \in Nat /\ due' >= cycles
  <2>1. \A t \in ConvTimes : t \in Nat /\ t >= cycles
    BY <1>2 DEF ConvTimes
  <2>2. \A t \in TapTimes : t \in Nat /\ t >= cycles
    BY <1>1, <1>2, NothingDue DEF TapTimes
  <2>3. /\ Never \in Nat /\ Never >= cycles /\ keyAt \in Nat /\ keyAt >= cycles
        /\ \A t \in Timers : next[t] \in Nat /\ next[t] >= cycles
    BY <1>1, <1>2, NothingDue DEF Poll!Due
  <2> QED BY <1>3, <2>1, <2>2, <2>3 DEF DueTimes
<1>6. DueIsEarliest'
  <2>1. tapAt # Never => due' < tapAt
    BY <1>2, <1>4, <1>5
  <2> QED BY <1>1, <1>4, <2>1 DEF DueIsEarliest
<1>7. cycles < end /\ end <= MaxCycles
  BY <1>1 DEF LoopInv, Looping
<1>8. CASE pend = {}
  <2> DEFINE stop == Earlier(due', end)
  <2>1. /\ stop \in Nat /\ cycles <= stop /\ stop <= due' /\ stop <= MaxCycles
    BY <1>2, <1>5, <1>7 DEF Earlier
  <2>2. cycles' = stop /\ idle' = idle + (stop - cycles) /\ UNCHANGED <<asleep, pend>>
    BY <1>8 DEF JumpTo
  <2> HIDE DEF stop
  <2>3. ASSUME stop = cycles PROVE UNCHANGED pollVars
    <3>1. cycles' = cycles /\ idle' = idle /\ asleep' = asleep /\ pend' = pend
      BY <1>2, <2>2, <2>3
    <3>2. next' = next /\ conv' = conv /\ tapAt' = tapAt /\ keyAt' = keyAt
      BY <1>1
    <3> QED BY <3>1, <3>2 DEF pollVars
  <2>4. ASSUME stop # cycles PROVE Poll!Next(TRUE)
    <3> DEFINE n == stop - cycles
    <3>1. n \in 1..MaxCycles /\ stop = cycles + n
      BY <1>2, <2>1, <2>4
    <3> HIDE DEF n
    <3>2. Poll!Advance(n) /\ idle' = idle + n
      BY <1>2, <2>1, <2>2, <3>1 DEF Poll!Advance
    <3>3. \A t \in Timers : next[t] >= cycles + n
      BY <1>2, <1>4, <1>5, <2>1, <3>1
    <3>4. conv # Never => conv >= idle + n
      BY <1>2, <1>4, <1>5, <2>1, <3>1
    <3>5. tapAt > cycles + n /\ keyAt >= cycles + n
      <4>1. tapAt = Never => tapAt > cycles + n
        BY <1>2, <2>1, <3>1
      <4>2. tapAt # Never => tapAt > cycles + n
        BY <1>2, <1>4, <1>5, <2>1, <3>1
      <4>3. keyAt >= cycles + n
        BY <1>2, <1>4, <1>5, <2>1, <3>1
      <4> QED BY <4>1, <4>2, <4>3
    <3>6. Poll!Doze(n)
      <4>1. UNCHANGED Poll!devVars
        BY <1>1, <2>2 DEF Poll!devVars
      <4> QED BY <1>1, <1>8, <3>2, <3>3, <3>4, <3>5, <4>1 DEF Poll!Doze
    <3> QED BY <3>1, <3>6 DEF Poll!Next
  <2>5. TypeOK'
    BY <1>1, <1>2, <1>5, <2>1, <2>2 DEF TypeOK, Poll!TypeOK, Poll!Requesters
  <2> QED BY <1>1, <1>6, <1>7, <2>3, <2>4, <2>5 DEF LoopInv
<1>9. CASE pend # {}
  <2>1. Poll!Halted(pend)
    BY <1>9
  <2>2. /\ cycles' \in Nat /\ cycles' > cycles /\ cycles' <= MaxCycles
        /\ idle' \in Nat /\ asleep' \in BOOLEAN /\ pend' \subseteq Poll!Requesters
    BY <1>1, <1>2, <2>1, CpuType
  <2>3. TypeOK'
    BY <1>1, <1>2, <1>5, <2>2 DEF TypeOK, Poll!TypeOK, Poll!Requesters
  <2>4. Poll!AfterStep(TRUE, next)
    <3>1. tapAt > cycles /\ keyAt > cycles
      BY <1>1, NothingDue
    <3> QED BY <1>1, <3>1 DEF Poll!AfterStep, Poll!Acts
  <2>5. conv \in Poll!ConvTicked(TRUE)
    BY <1>9 DEF Poll!ConvTicked
  <2>6. Poll!Turn(TRUE)
    BY <1>1, <2>1, <2>4, <2>5, NothingDue DEF Poll!Turn
  <2> QED BY <1>1, <1>6, <1>7, <2>3, <2>6 DEF LoopInv, Poll!Next
<1> QED BY <1>8, <1>9

LEMMA HostStep ==
  ASSUME LoopInv, HostCall \/ \E n \in StepSizes : Step(n)
  PROVE  LoopInv' /\ (Poll!HostCall \/ UNCHANGED pollVars)
<1>1. CASE HostCall
  <2>1. cycles \in Nat /\ tapAt \in Nat /\ keyAt \in Nat /\ next \in [Timers -> Nat]
    BY DEF LoopInv, TypeOK, Poll!TypeOK
  <2>2. tapAt' \in Nat /\ keyAt' \in Nat
    BY <1>1, <2>1, KeyTimesType DEF HostCall, Poll!HostCall
  <2>3. next' \in [Timers -> Nat]
    BY <1>1, <2>1 DEF HostCall, Poll!HostCall
  <2>4. UNCHANGED <<cycles, idle, asleep, pend, conv, end, due, dirty>>
    BY <1>1 DEF HostCall, Poll!HostCall
  <2>5. TypeOK'
    BY <2>2, <2>3, <2>4 DEF LoopInv, TypeOK, Poll!TypeOK, Poll!Requesters
  <2>6. ~Looping'
    BY <1>1, <2>4 DEF HostCall, Looping
  <2> QED BY <1>1, <2>4, <2>5, <2>6 DEF LoopInv, DueIsEarliest, HostCall
<1>2. ASSUME NEW n \in StepSizes, Step(n) PROVE LoopInv' /\ UNCHANGED pollVars
  <2>1. end' \in Nat /\ end' <= MaxCycles /\ dirty' = TRUE
    BY <1>2 DEF Step, LoopInv, TypeOK, Poll!TypeOK
  <2>2. TypeOK'
    BY <1>2, <2>1 DEF Step, pollVars, LoopInv, TypeOK, Poll!TypeOK, Poll!Requesters
  <2> QED BY <1>2, <2>1, <2>2 DEF Step, LoopInv, DueIsEarliest
<1> QED BY <1>1, <1>2

---------------------------------------------------------------------------
LEMMA InitInv == Init => LoopInv /\ Poll!Init
<1> SUFFICES ASSUME Init PROVE LoopInv
  BY DEF Init
<1>1. /\ cycles = 0 /\ idle = 0 /\ asleep = FALSE /\ pend = {} /\ conv = Never /\ tapAt = Never
      /\ keyAt = Never /\ end = 0 /\ due = 0 /\ dirty = TRUE
      /\ next = [t \in Timers |-> IF t \in {"keysc", "tick"} THEN 0 ELSE Never]
  BY DEF Init, Poll!Init
<1>2. next \in [Timers -> Nat]
  BY <1>1
<1>3. TypeOK
  BY <1>1, <1>2 DEF TypeOK, Poll!TypeOK
<1> QED BY <1>1, <1>3 DEF LoopInv, DueIsEarliest

LEMMA NextStep ==
  ASSUME LoopInv, [Next]_vars
  PROVE  LoopInv' /\ [Poll!Next(TRUE)]_(Poll!vars)
<1>1. Poll!vars = <<cycles, idle, <<asleep, pend, next, conv, tapAt, keyAt>>>>
  BY DEF Poll!vars, Poll!devVars
<1>2. UNCHANGED pollVars => UNCHANGED Poll!vars
  BY DEF pollVars, Poll!vars, Poll!devVars
<1>3. CASE PollingTurn
  BY <1>3, PollingTurnStep DEF Poll!Next
<1>4. CASE RunOn
  BY <1>4, RunOnStep DEF Poll!Next
<1>5. CASE Sleep
  BY <1>2, <1>5, SleepStep
<1>6. CASE HostCall \/ \E n \in StepSizes : Step(n)
  BY <1>2, <1>6, HostStep DEF Poll!Next
<1>7. CASE UNCHANGED vars
  BY <1>2, <1>7 DEF vars, pollVars, LoopInv, TypeOK, Poll!TypeOK, Poll!Requesters, DueIsEarliest, Looping
<1> QED BY <1>3, <1>4, <1>5, <1>6, <1>7 DEF Next, Loop

\* While the loop need not poll, `due` is no later than any event, for all devices and periods.
THEOREM DueStaysEarliest == Spec => []DueIsEarliest
<1>1. LoopInv => DueIsEarliest
  BY DEF LoopInv
<1> QED BY <1>1, InitInv, NextStep, PTL DEF Spec

\* Step's loop implements polling before every instruction but for what LateSpec allows (a key
\* call one turn late, a conversion that waits after a wake-up), for all devices, periods,
\* programs and sizes of the host's Steps.  It does not implement exact polling.
THEOREM ImplementsLate == Spec => ImplementsLatePolling
<1>1. Spec => Poll!LateSpec
  BY InitInv, NextStep, PTL DEF Spec, Poll!LateSpec
<1> QED BY <1>1 DEF ImplementsLatePolling

---------------------------------------------------------------------------
(* The interrupt path. *)

USE IntcAssumption

---------------------------------------------------------------------------
(* Strengthenings. *)

\* What a world sees enabled is its own, but for the registers on their way during a switch;
\* a switch runs with interrupts blocked and no handler open.
OwnsEnabled == \A s \in Sources : Priority(s) # 0 => s \in Own[world]
SavedOwn ==
  \A w \in Worlds, s \in Sources : saved[w].ipr[FieldOf[s]] # 0 => s \in Own[w]
SwitchBlocked == going # world => bl /\ open = <<>>

IsolationInv ==
  /\ IntcTypeOK /\ WorldIsolation
  /\ going = world => OwnsEnabled
  /\ SavedOwn /\ SwitchBlocked

\* IMASK is at least the level of every open handler entered with INTMU, and so is the IMASK
\* that each handler opened after it will restore.
MaskCovers == \A i \in DOMAIN open : open[i].multi => open[i].level <= imask
RestoresCover ==
  \A i, j \in DOMAIN open : i < j /\ open[i].multi => open[i].level <= open[j].imask
NestingInv == IntcTypeOK /\ NestingByLevel /\ MaskCovers /\ RestoresCover

---------------------------------------------------------------------------
LEMMA GatedType ==
  ASSUME IntcTypeOK
  PROVE  /\ Gated \in [Sources -> Levels]
         /\ \A s \in Sources : Priority(s) \in Levels /\ RequestLevel(s) \in Levels
<1>1. \A s \in Sources : Priority(s) \in Levels
  BY DEF IntcTypeOK, Priority
<1>2. \A s \in Sources : RequestLevel(s) \in Levels
  BY <1>1 DEF RequestLevel
<1>3. Gated \in [Sources -> Levels]
  BY DEF IntcTypeOK, Gated, Levels
<1> QED BY <1>1, <1>2, <1>3

\* An instruction that accepts nothing leaves well-typed requests.
LEMMA InstructionType ==
  ASSUME IntcTypeOK, Instruction
  PROVE  pending' \in [Sources -> Levels]
BY GatedType DEF Instruction, IntcTypeOK

LEMMA TypeStep ==
  ASSUME IntcTypeOK, [IntcNext]_allVars
  PROVE  IntcTypeOK'
<1> USE DEF IntcTypeOK
<1>1. ASSUME NEW s \in Sources, Raise(s) PROVE IntcTypeOK'
  <2>1. pending' \in [Sources -> Levels]
    BY <1>1, GatedType DEF Raise
  <2> QED BY <1>1, <2>1 DEF Raise, intcVars, cpuVars, worldVars
<1>2. ASSUME NEW s \in Sources, Accept(s) PROVE IntcTypeOK'
  <2>1. Gated \in [Sources -> Levels] /\ Gated[s] \in Levels
    BY GatedType
  <2>2. pending' \in [Sources -> Levels]
    BY <1>2, <2>1 DEF Accept, Levels
  <2>3. imask' \in Levels
    BY <1>2, <2>1 DEF Accept, HandlerMask
  <2>4. [src |-> s, level |-> Gated[s], imask |-> imask, multi |-> intmu] \in Handler
    BY <2>1 DEF Handler
  <2>5. open' \in Seq(Handler)
    BY <1>2, <2>4 DEF Accept
  <2> QED BY <1>2, <2>2, <2>3, <2>5 DEF Accept, intcVars, worldVars
<1>3. CASE SleepOn
  BY <1>3, GatedType DEF SleepOn, intcVars, worldVars
<1>4. CASE Unblock
  BY <1>4, InstructionType DEF Unblock, intcVars, worldVars
<1>5. CASE Block
  BY <1>5, InstructionType DEF Block, intcVars, worldVars
<1>6. CASE Return
  <2>1. Len(open) \in Nat \ {0} /\ open[Len(open)] \in Handler
    BY <1>6 DEF Return
  <2>2. imask' \in Levels
    BY <1>6, <2>1 DEF Return, Handler
  <2>3. open' \in Seq(Handler)
    BY <1>6, <2>1 DEF Return
  <2> QED BY <1>6, <2>2, <2>3, InstructionType DEF Return, intcVars, worldVars
<1>7. CASE GoToSleep
  BY <1>7, InstructionType DEF GoToSleep, intcVars, worldVars
<1>8. ASSUME NEW m \in Masks, SetIMask(m) PROVE IntcTypeOK'
  BY <1>8, InstructionType DEF SetIMask, intcVars, worldVars
<1>9. ASSUME NEW f \in Fields, NEW p \in Priorities \cup {0}, WriteIpr(f, p) PROVE IntcTypeOK'
  <2>1. ipr' \in [Fields -> Levels]
    BY <1>9 DEF WriteIpr, Levels
  <2> QED BY <1>9, <2>1, InstructionType DEF WriteIpr, cpuVars, worldVars
<1>10. ASSUME NEW s \in Sources, WriteImr(s) PROVE IntcTypeOK'
  BY <1>10, InstructionType DEF WriteImr, cpuVars, worldVars
<1>11. ASSUME NEW w \in Worlds, BeginSwitch(w) PROVE IntcTypeOK'
  <2>1. [ipr |-> ipr, imr |-> imr] \in IntcState
    BY DEF IntcState
  <2>2. saved' \in [Worlds -> IntcState]
    BY <1>11, <2>1 DEF BeginSwitch
  <2> QED BY <1>11, <2>2, InstructionType DEF BeginSwitch, intcVars, cpuVars
<1>12. ASSUME NEW f \in Fields, SwitchIpr(f) PROVE IntcTypeOK'
  <2>1. saved[going].ipr \in [Fields -> Levels]
    BY DEF IntcState
  <2>2. ipr' \in [Fields -> Levels]
    BY <1>12, <2>1 DEF SwitchIpr
  <2> QED BY <1>12, <2>2, InstructionType DEF SwitchIpr, cpuVars, worldVars
<1>13. CASE SwitchImr
  <2>1. imr' \subseteq Sources
    BY <1>13 DEF SwitchImr, IntcState
  <2> QED BY <1>13, <2>1, InstructionType DEF SwitchImr, cpuVars, worldVars
<1>14. CASE EndSwitch
  BY <1>14, InstructionType DEF EndSwitch, intcVars, cpuVars
<1>15. CASE UNCHANGED allVars
  BY <1>15 DEF allVars, intcVars, cpuVars, worldVars
<1> QED
  BY <1>1, <1>2, <1>3, <1>4, <1>5, <1>6, <1>7, <1>8, <1>9, <1>10, <1>11, <1>12, <1>13, <1>14, <1>15
  DEF IntcNext, Device, Program

LEMMA TypeInit == IntcInit => IntcTypeOK
<1> SUFFICES ASSUME IntcInit PROVE IntcTypeOK
  OBVIOUS
<1>1. [f \in Fields |-> 0] \in [Fields -> Levels] /\ 15 \in Levels
  BY DEF Levels
<1>2. pending \in [Sources -> Levels]
  BY DEF IntcInit, Levels
<1>3. saved \in [Worlds -> IntcState]
  BY <1>1 DEF IntcInit, IntcState
<1>4. open \in Seq(Handler)
  BY DEF IntcInit
<1>5. intmu \in BOOLEAN
  <2>1. CASE FirstWorld \in MultiLevel
    BY <2>1 DEF IntcInit
  <2>2. CASE FirstWorld \notin MultiLevel
    BY <2>2 DEF IntcInit
  <2> QED BY <2>1, <2>2
<1>6. ipr \in [Fields -> Levels] /\ imr = {} /\ bl = TRUE /\ imask \in Levels /\ sleeping = FALSE
  BY <1>1 DEF IntcInit
<1>7. world \in Worlds /\ going \in Worlds
  BY DEF IntcInit
<1> QED BY <1>2, <1>3, <1>4, <1>5, <1>6, <1>7 DEF IntcTypeOK

\* Every variable keeps its type, for all sources, fields, worlds and programs.
THEOREM TypeCorrect == IntcSpec => []IntcTypeOK
BY TypeInit, TypeStep, PTL DEF IntcSpec

---------------------------------------------------------------------------
(* No handler of the other world. *)

\* An accepted source is enabled.
LEMMA AcceptedEnabled ==
  ASSUME IntcTypeOK, NEW s \in Sources, Accept(s)
  PROVE  Priority(s) # 0
BY DEF Accept, Accepts, IsTop, Offered, Gated

\* The handlers that are open after a `rte` were open before it.
LEMMA ReturnKeeps ==
  ASSUME IntcTypeOK, Return
  PROVE  /\ open' \in Seq(Handler) /\ Len(open') = Len(open) - 1 /\ Len(open) \in Nat \ {0}
         /\ \A i \in DOMAIN open' : i \in DOMAIN open /\ i < Len(open) /\ open'[i] = open[i]
<1>1. open \in Seq(Handler) /\ open # <<>> /\ open' = SubSeq(open, 1, Len(open) - 1)
  BY DEF IntcTypeOK, Return
<1>2. Len(open) \in Nat \ {0} /\ DOMAIN open = 1..Len(open)
  BY <1>1
<1>3. Len(open') = Len(open) - 1 /\ DOMAIN open' = 1..(Len(open) - 1)
  BY <1>1, <1>2
<1>4. \A i \in 1..(Len(open) - 1) : open'[i] = open[i] /\ i \in 1..Len(open) /\ i < Len(open)
  BY <1>1, <1>2
<1>5. open' \in Seq(Handler)
  BY <1>1, <1>2
<1> QED BY <1>2, <1>3, <1>4, <1>5

\* The handlers that are open after an acceptance: those before it, and the new one.
LEMMA AcceptAdds ==
  ASSUME IntcTypeOK, NEW s \in Sources, Accept(s)
  PROVE  /\ DOMAIN open = 1..Len(open) /\ DOMAIN open' = 1..(Len(open) + 1) /\ Len(open) \in Nat
         /\ \A i \in DOMAIN open : open'[i] = open[i]
         /\ open'[Len(open) + 1] =
              [src |-> s, level |-> Gated[s], imask |-> imask, multi |-> intmu]
BY DEF IntcTypeOK, Accept

\* The actions that leave the priorities, the worlds and the open handlers alone.
Quiet ==
  \/ \E s \in Sources : Raise(s) \/ WriteImr(s)
  \/ SleepOn \/ Block \/ GoToSleep \/ SwitchImr
  \/ \E m \in Masks : SetIMask(m)
  \/ UNCHANGED allVars

LEMMA IsolationStep ==
  ASSUME IsolationInv, [IntcNext]_allVars
  PROVE  IsolationInv'
<1> USE DEF IsolationInv
<1>1. IntcTypeOK'
  BY TypeStep
<1>2. CASE Quiet \/ Unblock
  <2>1. UNCHANGED <<ipr, open, world, going, saved>>
    BY <1>2 DEF Quiet, Unblock, Raise, WriteImr, SleepOn, Block, GoToSleep, SwitchImr, SetIMask,
                allVars, intcVars, cpuVars, worldVars
  <2>2. bl' = bl \/ bl' = TRUE \/ going' = world'
    BY <1>2 DEF Quiet, Unblock, Raise, WriteImr, SleepOn, Block, GoToSleep, SwitchImr, SetIMask,
                allVars, intcVars, cpuVars, worldVars
  <2>3. SwitchBlocked'
    BY <2>1, <2>2 DEF SwitchBlocked
  <2> QED BY <1>1, <2>1, <2>3 DEF WorldIsolation, OwnsEnabled, Priority, SavedOwn
<1>3. ASSUME NEW s \in Sources, Accept(s) PROVE IsolationInv'
  <2>1. UNCHANGED <<ipr, world, going, saved>> /\ bl' = TRUE /\ ~bl
    BY <1>3 DEF Accept, Accepts, intcVars, worldVars
  <2>2. going = world
    BY <2>1 DEF SwitchBlocked
  <2>3. s \in Own[world]
    BY <1>3, <2>2, AcceptedEnabled DEF OwnsEnabled
  <2>4. ASSUME NEW i \in DOMAIN open' PROVE open'[i].src \in Own[world]
    <3>1. DOMAIN open = 1..Len(open) /\ DOMAIN open' = 1..(Len(open) + 1) /\ Len(open) \in Nat
      BY <1>3, AcceptAdds
    <3>2. CASE i \in DOMAIN open
      BY <1>3, <3>2, AcceptAdds DEF WorldIsolation
    <3>3. CASE i = Len(open) + 1
      <4>1. open'[Len(open) + 1] =
              [src |-> s, level |-> Gated[s], imask |-> imask, multi |-> intmu]
        BY <1>3, AcceptAdds
      <4>2. open'[i].src = s
        BY <3>3, <4>1
      <4> QED BY <2>3, <4>2
    <3> QED BY <3>1, <3>2, <3>3
  <2>5. WorldIsolation'
    BY <2>1, <2>4 DEF WorldIsolation
  <2> QED BY <1>1, <2>1, <2>2, <2>5 DEF OwnsEnabled, Priority, SavedOwn, SwitchBlocked
<1>4. CASE Return
  <2>1. UNCHANGED <<ipr, world, going, saved>> /\ open # <<>>
    BY <1>4 DEF Return, intcVars, worldVars
  <2>2. going = world
    BY <2>1 DEF SwitchBlocked
  <2>3. WorldIsolation'
    BY <1>4, <2>1, ReturnKeeps DEF WorldIsolation
  <2> QED BY <1>1, <2>1, <2>2, <2>3 DEF OwnsEnabled, Priority, SavedOwn, SwitchBlocked
<1>5. ASSUME NEW f \in Fields, NEW p \in Priorities \cup {0}, WriteIpr(f, p) PROVE IsolationInv'
  <2>1. /\ UNCHANGED <<open, world, going, saved, bl>> /\ going = world
        /\ ipr' = [ipr EXCEPT ![f] = p]
        /\ {s \in Sources : FieldOf[s] = f} \subseteq Own[world]
    BY <1>5 DEF WriteIpr, cpuVars, worldVars
  <2>2. OwnsEnabled'
    <3> SUFFICES ASSUME NEW s \in Sources, ipr'[FieldOf[s]] # 0 PROVE s \in Own[world]
      BY <2>1 DEF OwnsEnabled, Priority
    <3>1. CASE FieldOf[s] = f
      BY <2>1, <3>1
    <3>2. CASE FieldOf[s] # f
      <4>1. ipr'[FieldOf[s]] = ipr[FieldOf[s]]
        BY <2>1, <3>2 DEF IntcTypeOK
      <4> QED BY <2>1, <4>1 DEF OwnsEnabled, Priority
    <3> QED BY <3>1, <3>2
  <2> QED BY <1>1, <2>1, <2>2 DEF WorldIsolation, SavedOwn, SwitchBlocked
<1>6. ASSUME NEW w \in Worlds, BeginSwitch(w) PROVE IsolationInv'
  <2>1. /\ UNCHANGED <<ipr, open, world, bl>> /\ bl /\ open = <<>> /\ going = world
        /\ going' = w /\ w # world
        /\ saved' = [saved EXCEPT ![world] = [ipr |-> ipr, imr |-> imr]]
    BY <1>6 DEF BeginSwitch, intcVars, cpuVars
  <2>2. SavedOwn'
    <3> SUFFICES ASSUME NEW v \in Worlds, NEW s \in Sources, saved'[v].ipr[FieldOf[s]] # 0
                 PROVE  s \in Own[v]
      BY DEF SavedOwn
    <3>1. CASE v = world
      <4>1. saved'[v].ipr = ipr
        BY <2>1, <3>1 DEF IntcTypeOK
      <4> QED BY <2>1, <3>1, <4>1 DEF OwnsEnabled, Priority
    <3>2. CASE v # world
      <4>1. saved'[v] = saved[v]
        BY <2>1, <3>2 DEF IntcTypeOK
      <4> QED BY <4>1 DEF SavedOwn
    <3> QED BY <3>1, <3>2
  <2> QED BY <1>1, <2>1, <2>2 DEF WorldIsolation, SwitchBlocked
<1>7. ASSUME NEW f \in Fields, SwitchIpr(f) PROVE IsolationInv'
  <2>1. UNCHANGED <<open, world, going, saved, bl>> /\ going # world
    BY <1>7 DEF SwitchIpr, cpuVars, worldVars
  <2> QED BY <1>1, <2>1 DEF WorldIsolation, SavedOwn, SwitchBlocked
<1>8. CASE EndSwitch
  <2>1. /\ UNCHANGED <<ipr, open, bl, going, saved>> /\ going # world /\ world' = going
        /\ ipr = saved[going].ipr
    BY <1>8 DEF EndSwitch, intcVars, cpuVars
  <2>2. going \in Worlds /\ open = <<>>
    BY <2>1 DEF SwitchBlocked, IntcTypeOK
  <2>3. OwnsEnabled'
    BY <2>1, <2>2 DEF OwnsEnabled, Priority, SavedOwn
  <2> QED BY <1>1, <2>1, <2>2, <2>3 DEF WorldIsolation, SavedOwn, SwitchBlocked
<1> QED
  BY <1>2, <1>3, <1>4, <1>5, <1>6, <1>7, <1>8 DEF IntcNext, Device, Program, Quiet

LEMMA IsolationInit == IntcInit => IsolationInv
<1> SUFFICES ASSUME IntcInit PROVE IsolationInv
  OBVIOUS
<1>1. \A s \in Sources : ipr[FieldOf[s]] = 0
  BY DEF IntcInit
<1>2. \A w \in Worlds, s \in Sources : saved[w].ipr[FieldOf[s]] = 0
  BY DEF IntcInit
<1>3. open = <<>> /\ going = world
  BY DEF IntcInit
<1>4. OwnsEnabled
  BY <1>1 DEF OwnsEnabled, Priority
<1>5. SavedOwn
  BY <1>2 DEF SavedOwn
<1> QED
  BY <1>3, <1>4, <1>5, TypeInit DEF IsolationInv, WorldIsolation, SwitchBlocked

\* A world's handlers are entered for its own sources only.
THEOREM NoForeignHandler == IntcSpec => []WorldIsolation
<1>1. IsolationInv => WorldIsolation
  BY DEF IsolationInv
<1> QED BY <1>1, IsolationInit, IsolationStep, PTL DEF IntcSpec

---------------------------------------------------------------------------
(* Handlers nest by level. *)

LEMMA NestingStep ==
  ASSUME NestingInv, [IntcNext]_allVars
  PROVE  NestingInv'
<1> USE DEF NestingInv
<1>1. IntcTypeOK'
  BY TypeStep
<1>2. ASSUME NEW s \in Sources, Accept(s) PROVE NestingInv'
  <2> DEFINE n == Len(open) + 1
  <2>1. /\ DOMAIN open = 1..Len(open) /\ DOMAIN open' = 1..n /\ Len(open) \in Nat
        /\ \A i \in DOMAIN open : open'[i] = open[i] /\ open[i] \in Handler
        /\ open'[n].level = Gated[s] /\ open'[n].imask = imask /\ open'[n].multi = intmu
    <3>1. \A i \in DOMAIN open : open[i] \in Handler
      BY DEF IntcTypeOK
    <3>2. open'[n].level = Gated[s] /\ open'[n].imask = imask /\ open'[n].multi = intmu
      <4>1. open'[n] = [src |-> s, level |-> Gated[s], imask |-> imask, multi |-> intmu]
        BY <1>2, AcceptAdds
      <4> QED BY <4>1
    <3> QED BY <1>2, <3>1, <3>2, AcceptAdds
  <2>2. Gated[s] > imask /\ imask' = HandlerMask(Gated[s])
    BY <1>2 DEF Accept, Accepts
  <2>3. Gated[s] \in Levels /\ imask \in Levels
    BY GatedType DEF IntcTypeOK
  <2> HIDE DEF n
  <2>4. n \in Nat /\ \A i \in DOMAIN open' : i = n \/ (i \in DOMAIN open /\ i < n)
    BY <2>1 DEF n
  <2>5. \A i \in DOMAIN open : open[i].level \in Levels
    BY <2>1 DEF Handler
  <2>6. \A i \in DOMAIN open : open[i].multi => open[i].level < Gated[s]
    BY <2>2, <2>3, <2>5 DEF MaskCovers, Levels
  <2>7. NestingByLevel'
    BY <2>1, <2>4, <2>6 DEF NestingByLevel
  <2>8. MaskCovers'
    <3>1. \A i \in DOMAIN open' : open'[i].multi => open'[i].level <= imask'
      <4> TAKE i \in DOMAIN open'
      <4>1. CASE i = n
        <5>1. intmu => imask' = Gated[s]
          BY <2>2 DEF HandlerMask
        <5> QED BY <2>1, <2>3, <4>1, <5>1 DEF Levels
      <4>2. CASE i \in DOMAIN open
        <5>1. open'[i] = open[i] /\ open[i].level \in Levels
          BY <2>1, <2>5, <4>2
        <5>2. imask' = imask \/ imask' = Gated[s]
          BY <2>2 DEF HandlerMask
        <5>3. open[i].multi => open[i].level <= imask /\ open[i].level < Gated[s]
          BY <2>6, <4>2 DEF MaskCovers
        <5> QED BY <2>3, <5>1, <5>2, <5>3 DEF Levels
      <4> QED BY <2>4, <4>1, <4>2
    <3> QED BY <3>1 DEF MaskCovers
  <2>9. RestoresCover'
    BY <2>1, <2>4 DEF RestoresCover, MaskCovers
  <2> QED BY <1>1, <2>7, <2>8, <2>9
<1>3. CASE Return
  <2>1. /\ imask' = open[Len(open)].imask /\ Len(open) \in DOMAIN open
        /\ \A i \in DOMAIN open' : i \in DOMAIN open /\ i < Len(open) /\ open'[i] = open[i]
    BY <1>3, ReturnKeeps DEF Return, IntcTypeOK
  <2> QED BY <1>1, <2>1 DEF NestingByLevel, MaskCovers, RestoresCover
<1>4. ASSUME NEW m \in Masks, SetIMask(m) PROVE NestingInv'
  BY <1>1, <1>4 DEF SetIMask, NestingByLevel, MaskCovers, RestoresCover
<1>5. CASE UNCHANGED <<open, imask>>
  BY <1>1, <1>5 DEF NestingByLevel, MaskCovers, RestoresCover
<1> QED
  BY <1>2, <1>3, <1>4, <1>5
  DEF IntcNext, Device, Program, Raise, SleepOn, Unblock, Block, GoToSleep, WriteIpr, WriteImr,
      BeginSwitch, SwitchIpr, SwitchImr, EndSwitch, allVars, cpuVars

\* A handler entered with INTMU is only interrupted by a higher level.
THEOREM NestsByLevel == IntcSpec => []NestingByLevel
<1>1. IntcInit => NestingInv
  BY TypeInit DEF IntcInit, NestingInv, NestingByLevel, MaskCovers, RestoresCover
<1>2. NestingInv => NestingByLevel
  BY DEF NestingInv
<1> QED BY <1>1, <1>2, NestingStep, PTL DEF IntcSpec

---------------------------------------------------------------------------
(* Requests. *)

LEMMA RequestStep ==
  ASSUME IntcTypeOK, [IntcNext]_allVars, NEW s \in Sources, pending[s] # 0, pending'[s] = 0
  PROVE  Priority(s) = 0 \/ (Len(open') > Len(open) /\ open'[Len(open')].src = s)
<1>1. ASSUME NEW t \in Sources, Raise(t) PROVE FALSE
  BY <1>1 DEF Raise, IntcTypeOK
<1>2. ASSUME NEW t \in Sources, Accept(t)
      PROVE  Priority(s) = 0 \/ (Len(open') > Len(open) /\ open'[Len(open')].src = s)
  <2>1. CASE t = s
    <3> DEFINE h == [src |-> s, level |-> Gated[s], imask |-> imask, multi |-> intmu]
    <3>1. open' = Append(open, h) /\ h.src = s
      BY <1>2, <2>1 DEF Accept
    <3>2. open \in Seq(Handler)
      BY DEF IntcTypeOK
    <3> HIDE DEF h
    <3>3. Len(open') = Len(open) + 1 /\ open'[Len(open) + 1] = h /\ Len(open) \in Nat
      BY <3>1, <3>2
    <3> QED BY <3>1, <3>3
  <2>2. CASE t # s
    <3>1. pending'[s] = Gated[s]
      BY <1>2, <2>2 DEF Accept, Gated
    <3> QED BY <3>1 DEF Gated
  <2> QED BY <2>1, <2>2
<1>3. CASE SleepOn \/ Program
  <2>1. pending' = pending \/ pending' = Gated
    BY <1>3 DEF SleepOn, Program, Unblock, Block, Return, GoToSleep, SetIMask, WriteIpr, WriteImr, BeginSwitch,
      SwitchIpr, SwitchImr, EndSwitch, Instruction
  <2> QED BY <2>1 DEF Gated
<1>4. CASE UNCHANGED allVars
  BY <1>4 DEF allVars
<1> QED BY <1>1, <1>2, <1>3, <1>4 DEF IntcNext, Device

\* RequestKept, for any sources, priorities and worlds: a request goes away by being accepted, or
\* because its source was disabled; a mask keeps it.
THEOREM RequestsStay == IntcSpec => RequestKept
<1> DEFINE Kept == \A s \in Sources : pending[s] # 0 /\ pending'[s] = 0 =>
              \/ Priority(s) = 0
              \/ Len(open') > Len(open) /\ open'[Len(open')].src = s
<1>1. IntcTypeOK /\ [IntcNext]_allVars => Kept
  BY RequestStep
<1>2. IntcSpec => [][Kept]_allVars
  <2> HIDE DEF Kept
  <2> QED BY <1>1, TypeCorrect, PTL DEF IntcSpec
<1> QED BY <1>2 DEF RequestKept
==============================================================================
