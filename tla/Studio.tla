------------------------------- MODULE Studio -------------------------------
(***************************************************************************)
(* The lifecycle of CG50 Studio's machine and its saved session: app.go    *)
(* (loadDump, start, Restart, ForgetChanges, saveSession, the autosave of  *)
(* statusLoop, shutdown), machine.go (run, halt) and store.go (write,      *)
(* read, remove), for one dump.                                            *)
(*                                                                         *)
(* Each call of the page runs in a goroutine of its own, beside            *)
(* statusLoop and the goroutine that drives the machine.  A step of a      *)
(* goroutine is what it does under one lock (a.mu, the emulator's mutex)   *)
(* or one file operation; every one may be interleaved with the others'.   *)
(* A machine's state is how far the user's work has come, and whether the  *)
(* core has faulted.                                                       *)
(*                                                                         *)
(* Not modelled: slots and state files, installs, the debugger, settings.  *)
(***************************************************************************)
EXTENDS Integers, FiniteSets

CONSTANTS
  Calls, KindOf,   \* calls of the page, each a "load", "restart", "forget" or "quit"
  DiskFills,       \* whether a save may fail for want of room
  MaxCalls,        \* bound: calls of the page in one behaviour
  MaxMachines,     \* bound: machines built
  MaxWork,         \* bound: how far the work can come
  MaxSaves,        \* bound: autosaves
  MaxCrashes       \* bound: forced quits

ASSUME StudioAssumption ==
  /\ {"boot", "auto"} \cap Calls = {}
  /\ KindOf \in [Calls -> {"load", "restart", "forget", "quit"}]
  /\ DiskFills \in BOOLEAN
  /\ {MaxCalls, MaxMachines, MaxWork, MaxSaves, MaxCrashes} \subseteq Nat

VARIABLES
  current,        \* a.m, 0 when nil
  state,          \* the state of each machine
  driver,         \* its run goroutine: "none", "select", "turn", "done"
  stopped,        \* machines whose stop channel is closed
  mu,             \* who holds a.mu for longer than a step, "free" as a rule
  pc, arg, blob,  \* of each goroutine: where it is, its machine, the state it carries
  session, tmp,   \* sessions/<hash>.state and its .tmp
  saves, crashes, \* autosaves begun, forced quits
  panicked,       \* a stop channel was closed twice
  forgets, left,  \* history: ForgetChanges that dropped the session; where the dump was left
  raced,          \* history: two saves were writing at once
  missed,         \* history: ForgetChanges dropped another machine than the one it found
  outlived        \* history: the last session removed was still held, to be written or run again

machineVars == <<current, state, driver, stopped, mu>>
goVars == <<pc, arg, blob>>
fileVars == <<session, tmp>>
forgetVars == <<missed, outlived>>
histVars == <<saves, crashes, panicked, forgets, left, raced, forgetVars>>
studioVars == <<machineVars, goVars, fileVars, histVars>>

Machines == 1..MaxMachines
\* "boot" is the load at the start of the program, "auto" is statusLoop.
Goroutines == Calls \cup {"boot", "auto"}
Kind(g) == IF g \in Calls THEN KindOf[g] ELSE IF g = "boot" THEN "load" ELSE "auto"

\* The work of an era begins with the dump as it is on disk.
Eras == 0..Cardinality({c \in Calls : KindOf[c] = "forget"})
States == [era : Eras, work : 0..MaxWork, faulty : BOOLEAN]
Fresh(era) == [era |-> era, work |-> 0, faulty |-> FALSE]
NoFile == [kind |-> "none", state |-> Fresh(0)]
Torn == [kind |-> "torn", state |-> Fresh(0)]
Whole(s) == [kind |-> "whole", state |-> s]
Files == {NoFile, Torn} \cup {Whole(s) : s \in States}

Labels == {"off", "read", "find", "image", "drop", "take", "halt", "wait", "remove", "check",
           "snapshot", "open", "fill", "rename", "publish", "exit", "done"}

StudioTypeOK ==
  /\ current \in {0} \cup Machines
  /\ state \in [Machines -> States]
  /\ driver \in [Machines -> {"none", "select", "turn", "done"}]
  /\ stopped \subseteq Machines /\ mu \in Goroutines \cup {"free"}
  /\ pc \in [Goroutines -> Labels] /\ arg \in [Goroutines -> {0} \cup Machines]
  /\ blob \in [Goroutines -> States]
  /\ session \in Files /\ tmp \in Files
  /\ saves \in 0..MaxSaves /\ crashes \in 0..MaxCrashes
  /\ {panicked, raced, missed, outlived} \subseteq BOOLEAN /\ forgets \in Eras /\ left \in States

NoMachine ==
  /\ current' = 0 /\ mu' = "free"
  /\ driver' = [m \in Machines |-> "none"] /\ stopped' = {}
  /\ state' = [m \in Machines |-> Fresh(0)]

StudioInit ==
  /\ current = 0 /\ mu = "free"
  /\ driver = [m \in Machines |-> "none"] /\ stopped = {}
  /\ state = [m \in Machines |-> Fresh(0)]
  /\ pc = [g \in Goroutines |-> IF g = "boot" THEN "read" ELSE "off"]
  /\ arg = [g \in Goroutines |-> 0] /\ blob = [g \in Goroutines |-> Fresh(0)]
  /\ session = NoFile /\ tmp = NoFile
  /\ saves = 0 /\ crashes = 0
  /\ panicked = FALSE /\ raced = FALSE /\ missed = FALSE /\ outlived = FALSE /\ forgets = 0 /\ left = Fresh(0)

Goes(g, label) == pc' = [pc EXCEPT ![g] = label]
At(g, label) == pc[g] = label

\* The program is up until "boot" is off.
Up == pc["boot"] # "off" /\ ~panicked

---------------------------------------------------------------------------
(* machine.run: at a tick the goroutine reads the speed under a.mu and steps the core. *)

Leave(m) ==
  /\ driver[m] = "select" /\ m \in stopped
  /\ driver' = [driver EXCEPT ![m] = "done"]
  /\ left' = IF state[m].faulty THEN left ELSE state[m]
  /\ UNCHANGED <<current, state, stopped, mu, goVars, fileVars, saves, crashes, panicked, forgets,
                 raced, forgetVars>>

\* With the channel closed and a tick due, `select` takes either.
Tick(m) ==
  /\ driver[m] = "select"
  /\ driver' = [driver EXCEPT ![m] = "turn"]
  /\ UNCHANGED <<current, state, stopped, mu, goVars, fileVars, histVars>>

Turned(s) ==
  IF s.faulty THEN {s}
  ELSE {s, [s EXCEPT !.faulty = TRUE]}
         \cup {[s EXCEPT !.work = w] : w \in {s.work + 1} \cap 0..MaxWork}

Turn(m) ==
  /\ driver[m] = "turn" /\ mu = "free"
  /\ driver' = [driver EXCEPT ![m] = "select"]
  /\ \E s \in Turned(state[m]) : state' = [state EXCEPT ![m] = s]
  /\ UNCHANGED <<current, stopped, mu, goVars, fileVars, histVars>>

---------------------------------------------------------------------------
(* The beginnings of the calls. *)

Begin(c) ==
  /\ c \in Calls /\ At(c, "off") /\ Cardinality({b \in Calls : pc[b] # "off"}) < MaxCalls
  /\ Goes(c, CASE KindOf[c] = "load" -> "read" [] KindOf[c] = "quit" -> "take"
               [] KindOf[c] \in {"restart", "forget"} -> "find")
  /\ UNCHANGED <<machineVars, arg, blob, fileVars, histVars>>

\* loadDump: the session as it is now, or the dump without it (none, or damaged).
Read(g) ==
  /\ At(g, "read") /\ Goes(g, "take")
  /\ blob' = [blob EXCEPT ![g] = IF session.kind = "whole" THEN session.state ELSE Fresh(forgets)]
  /\ UNCHANGED <<machineVars, arg, fileVars, histVars>>

\* Restart and ForgetChanges: a.current().
Find(g) ==
  /\ At(g, "find")
  /\ arg' = [arg EXCEPT ![g] = current]
  /\ Goes(g, IF current = 0 THEN "done" ELSE IF Kind(g) = "forget" THEN "drop" ELSE "image")
  /\ UNCHANGED <<machineVars, blob, fileVars, histVars>>

\* Restart: the new machine has the storage memory of the one it found.
Image(g) ==
  /\ At(g, "image") /\ Goes(g, "take")
  /\ blob' = [blob EXCEPT ![g] = [state[arg[g]] EXCEPT !.faulty = FALSE]]
  /\ UNCHANGED <<machineVars, arg, fileVars, histVars>>

\* ForgetChanges: a.m = nil, whatever it is by now.
DropLocked(g) ==
  /\ At(g, "drop") /\ Goes(g, "halt")
  /\ current' = 0 /\ mu' = g
  /\ UNCHANGED <<state, driver, stopped, arg, blob, fileVars, histVars>>
Drop(g) ==
  /\ At(g, "drop") /\ Goes(g, "halt")
  /\ current' = 0 /\ missed' = (missed \/ current # arg[g])
  /\ UNCHANGED <<state, driver, stopped, mu, arg, blob, fileVars, saves, crashes, panicked, forgets,
                 left, raced, outlived>>

\* start and shutdown: take a.m and leave nil.
TakeOf(g) == IF current = 0 THEN IF Kind(g) = "quit" THEN "exit" ELSE "publish" ELSE "halt"
TakeKept(g) ==
  /\ At(g, "take") /\ Goes(g, TakeOf(g))
  /\ arg' = [arg EXCEPT ![g] = current]
  /\ UNCHANGED <<machineVars, blob, fileVars, histVars>>
Take(g) ==
  /\ At(g, "take") /\ Goes(g, TakeOf(g))
  /\ arg' = [arg EXCEPT ![g] = current] /\ current' = 0
  /\ UNCHANGED <<state, driver, stopped, mu, blob, fileVars, histVars>>

---------------------------------------------------------------------------
(* machine.halt. *)

Halt(g) ==
  /\ At(g, "halt") /\ Goes(g, "wait")
  /\ panicked' = (arg[g] \in stopped) /\ stopped' = stopped \cup {arg[g]}
  /\ UNCHANGED <<current, state, driver, mu, arg, blob, fileVars, saves, crashes, forgets, left,
                 raced, forgetVars>>

Wait(g) ==
  /\ At(g, "wait") /\ driver[arg[g]] = "done"
  /\ Goes(g, IF Kind(g) = "forget" THEN "remove" ELSE "check")
  /\ mu' = IF mu = g THEN "free" ELSE mu
  /\ UNCHANGED <<current, state, driver, stopped, arg, blob, fileVars, histVars>>

\* The work survives its session: in a machine that another call built meanwhile, or in one that
\* is on the way to save the state of a machine, or to build one from it.
Holds(h) == pc[h] \in {"image", "take", "halt", "wait", "check", "snapshot", "open", "fill", "rename",
                      "publish"}
Outlives(g) == current # 0 \/ \E h \in Goroutines \ {g} : Holds(h)

\* ForgetChanges removes the session and loads the dump.
RemoveNothing(g) ==
  /\ At(g, "remove") /\ Goes(g, "read")
  /\ forgets' = forgets + 1 /\ left' = Fresh(forgets + 1)
  /\ outlived' = Outlives(g)
  /\ UNCHANGED <<machineVars, arg, blob, fileVars, saves, crashes, panicked, raced, missed>>
Remove(g) ==
  /\ At(g, "remove") /\ Goes(g, "read")
  /\ session' = NoFile
  /\ forgets' = forgets + 1 /\ left' = Fresh(forgets + 1)
  /\ outlived' = Outlives(g)
  /\ UNCHANGED <<machineVars, arg, blob, tmp, saves, crashes, panicked, raced, missed>>

---------------------------------------------------------------------------
(* saveSession and store.write. *)

AfterSave(g) ==
  CASE Kind(g) = "auto" -> "off" [] Kind(g) = "quit" -> "exit" [] OTHER -> "publish"

Autosave ==
  /\ At("auto", "off") /\ current # 0 /\ saves < MaxSaves
  /\ saves' = saves + 1
  /\ arg' = [arg EXCEPT !["auto"] = current] /\ Goes("auto", "check")
  /\ UNCHANGED <<machineVars, blob, fileVars, crashes, panicked, forgets, left, raced, forgetVars>>

\* A crashed machine is not kept.
CheckFault(g) ==
  /\ At(g, "check")
  /\ Goes(g, IF state[arg[g]].faulty THEN AfterSave(g) ELSE "snapshot")
  /\ UNCHANGED <<machineVars, arg, blob, fileVars, histVars>>

\* The state a call carries to `publish` is its new machine's, so what it saves is `arg`'s.
Snapshot(g) ==
  /\ At(g, "snapshot") /\ Goes(g, "open")
  /\ IF Kind(g) = "auto" THEN blob' = [blob EXCEPT ![g] = state[arg[g]]] ELSE UNCHANGED blob
  /\ UNCHANGED <<machineVars, arg, fileVars, histVars>>

SavedState(g) == IF Kind(g) = "auto" THEN blob[g] ELSE state[arg[g]]

\* os.WriteFile empties the file, then fills it.
OpenInPlace(g) ==
  /\ At(g, "open") /\ Goes(g, "fill")
  /\ session' = Torn
  /\ UNCHANGED <<machineVars, arg, blob, tmp, histVars>>
Open(g) ==
  /\ At(g, "open") /\ Goes(g, "fill")
  /\ tmp' = Torn
  /\ raced' = (raced \/ \E h \in Goroutines \ {g} : pc[h] \in {"fill", "rename"})
  /\ UNCHANGED <<machineVars, arg, blob, session, saves, crashes, panicked, forgets, left, forgetVars>>

\* What it fills may have been renamed by another save; two saves in one file leave the bytes of
\* the second, with the end of the first when that was longer.
Fill(g) ==
  /\ At(g, "fill") /\ Goes(g, "rename")
  /\ \E new \in {Whole(SavedState(g)), Torn} :
       /\ IF tmp.kind # "none" THEN tmp' = new /\ UNCHANGED session
          ELSE IF session.kind # "none" THEN session' = new /\ UNCHANGED tmp
          ELSE UNCHANGED fileVars
       /\ new = Torn => raced
  /\ UNCHANGED <<machineVars, arg, blob, histVars>>

\* The disk is full: the temporary file stays as it is.
FillFails(g) ==
  /\ DiskFills /\ At(g, "fill") /\ Goes(g, AfterSave(g))
  /\ UNCHANGED <<machineVars, arg, blob, fileVars, histVars>>

Rename(g) ==
  /\ At(g, "rename") /\ Goes(g, AfterSave(g))
  /\ IF tmp.kind # "none" THEN session' = tmp /\ tmp' = NoFile ELSE UNCHANGED fileVars
  /\ UNCHANGED <<machineVars, arg, blob, histVars>>

---------------------------------------------------------------------------
\* start: the new machine runs.
Publish(g) ==
  /\ At(g, "publish") /\ Goes(g, "done")
  /\ \E m \in Machines :
       /\ driver[m] = "none" /\ \A n \in Machines : driver[n] = "none" => m <= n
       /\ current' = m
       /\ state' = [state EXCEPT ![m] = blob[g]]
       /\ driver' = [driver EXCEPT ![m] = "select"]
  /\ UNCHANGED <<stopped, mu, arg, blob, fileVars, histVars>>

\* The end of the program: the files stay.
Ends ==
  /\ pc' = [g \in Goroutines |-> IF g \in Calls /\ pc[g] # "off" THEN "done" ELSE "off"]
  /\ arg' = [g \in Goroutines |-> 0] /\ blob' = [g \in Goroutines |-> Fresh(0)]
  /\ NoMachine
  /\ UNCHANGED fileVars

Exit(g) == At(g, "exit") /\ Ends /\ UNCHANGED histVars

\* A crash of the program or a forced quit: what was written is in the files.
Crash ==
  /\ Up /\ crashes < MaxCrashes /\ crashes' = crashes + 1
  /\ Ends
  /\ left' = IF session.kind = "whole" THEN session.state ELSE Fresh(forgets)
  /\ UNCHANGED <<saves, panicked, forgets, raced, forgetVars>>

\* The program is started again.
Launch ==
  /\ pc["boot"] = "off" /\ Goes("boot", "read")
  /\ UNCHANGED <<machineVars, arg, blob, fileVars, histVars>>

Go(g) ==
  \/ Read(g) \/ Find(g) \/ Image(g) \/ Drop(g) \/ Take(g) \/ Halt(g) \/ Wait(g) \/ Remove(g)
  \/ CheckFault(g) \/ Snapshot(g) \/ Open(g) \/ Fill(g) \/ FillFails(g) \/ Rename(g)
  \/ Publish(g) \/ Exit(g)

StudioNext ==
  \/ \E m \in Machines : Up /\ Leave(m)
  \/ \E m \in Machines : Up /\ Tick(m)
  \/ \E m \in Machines : Up /\ Turn(m)
  \/ \E g \in Goroutines : Up /\ Go(g)
  \/ \E c \in Calls : Up /\ Begin(c)
  \/ Up /\ Autosave
  \/ Crash \/ Launch

StudioSpec == StudioInit /\ [][StudioNext]_studioVars

\* Goroutines are scheduled; `select` is uniform, so a closed channel is taken in the end.
StudioFairSpec ==
  /\ StudioSpec
  /\ \A g \in Goroutines : WF_studioVars(Up /\ Go(g))
  /\ \A m \in 1..MaxMachines : WF_studioVars(Up /\ Turn(m)) /\ SF_studioVars(Up /\ Leave(m))

---------------------------------------------------------------------------
(* Properties. *)

\* Of the calls that take the machine, one halts it, so no stop channel is closed twice: excepted
\* is what the two critical sections of ForgetChanges allow, another call that takes the machine
\* it found before it empties a.m.
ClosedOnce == panicked => missed

\* Every call ends, unless the program panicked: halt waits for the run goroutine, which may be
\* waiting for a.mu.  (A call is made once, so to end is to be under way no more.)
CallsEnd == []<>(panicked \/ \A c \in Calls : pc[c] \in {"off", "done"})

\* Between two saves that overlap, the session is a whole snapshot at every moment, so a crash
\* in the middle of a save loses nothing that was saved.
SessionIntact == ~raced => session.kind # "torn"

\* A dump is resumed where it was left: in the state its last machine stopped in.
ResumesWhereLeft ==
  [][\A g \in Goroutines :
       Publish(g) /\ Kind(g) = "load" /\ ~raced => state'[current'] = left]_studioVars

\* ForgetChanges drops everything stored since the dump: no machine built after it, by this call,
\* another or the next launch, goes on with earlier work.  Excepted: when it removed the session,
\* a save or a restart under way, or the machine such a restart had built, still held that work.
ForgetDrops ==
  [][\A g \in Goroutines : Publish(g) /\ ~outlived => state'[current'].era = forgets]_studioVars
=============================================================================
