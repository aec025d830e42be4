---------------------------- MODULE DebugSession ----------------------------
(***************************************************************************)
(* The debugger's side of the Studio: app/debug.go keeps the page's list   *)
(* of breakpoints in step with the running emulator, and hands each stop   *)
(* to the page once.                                                       *)
(*                                                                         *)
(* Goroutines: the one that drives the machine (machine.run), the status   *)
(* loop, the page's fetch of a snapshot, one control call at a time and    *)
(* one change of the list at a time.  The debugger's lock (d.mu) is held   *)
(* over several steps by a change of the list only, which takes it after   *)
(* it has looked which machine is open.                                    *)
(***************************************************************************)
EXTENDS Integers, FiniteSets, FiniteSetsExt, Functions

CONSTANTS
  Dumps,     \* the dumps the user opens
  Lists,     \* the lists the page sends: page id -> entry
  Codes,     \* the syscall, exception and interrupt codes an entry "any" stands for
  Setups,    \* how the session stands at first, and the calls of the user: kinds and number
  MaxStops,  \* bound: times one machine stops by itself
  MaxHits    \* bound: the hits that are counted

VARIABLES
  open,    \* a.m: the dump of the published machine, or None
  core,    \* the emulator of that machine, or of the one a start prepares
  dbg,     \* a.dbg
  saved,   \* the lists on disk, per dump
  driver, status, fetch, call, list,
  page,    \* the last stop the page shows, the one it fetches, the events under way
  user,    \* the calls the user may still make
  astray   \* history: "list" when the list in force is not the one of the machine open, after a
           \* change that missed it; "core" when its ids are those of another emulator

vars == <<open, core, dbg, saved, driver, status, fetch, call, list, page, user, astray>>

None == "none"
Every == 0
NoList == [i \in {} |-> {}]

\* An entry stops at an address or at a code; a list has one entry per id.
Entry == [kind : {"exec", "code"}, addr : Int, on : BOOLEAN]
IsList(l) == /\ IsFiniteSet(DOMAIN l) /\ DOMAIN l \subseteq Int
             /\ l \in [DOMAIN l -> Entry]

ASSUME SessionAssumption ==
  /\ None \notin Dumps
  /\ \A l \in Lists : IsList(l)
  /\ \A s \in Setups : /\ s.open \in Dumps \cup {None}
                       /\ s.saved = [d \in Dumps |-> s.saved[d]]
                       /\ \A d \in Dumps : IsList(s.saved[d])
  /\ MaxHits \in Nat

Stop(why, id, clock) == [why |-> why, id |-> id, clock |-> clock]
NoStop == Stop(None, 0, 0)
NoInfo == [seq |-> 0, stop |-> NoStop]

NewEmulator == [bps |-> [i \in {} |-> {}], next |-> 1, codes |-> {}, stop |-> NoStop,
                goal |-> FALSE, clock |-> 0]
IsStopped == core.stop # NoStop
Capped(n) == Min({n, MaxHits})

-----------------------------------------------------------------------------
(* The list and the core's breakpoints: x is the emulator and the debugger's state. *)

\* Mutant of sameTarget: an entry that is switched is taken for another one.
sameEntry(x, y) == x = y

sameTarget(x, y) == x.kind = y.kind /\ x.addr = y.addr

Kept(applied, specs) ==
  {i \in DOMAIN applied \cap DOMAIN specs : sameTarget(specs[i], applied[i].spec)}

\* Entries that are gone or point elsewhere lose their core breakpoint and their hits.
Drop(x, specs) ==
  LET kept == Kept(x.dbg.applied, specs)
      gone == {x.dbg.applied[i].core : i \in DOMAIN x.dbg.applied \ kept}
  IN [emu |-> [x.emu EXCEPT !.bps = Restrict(@, DOMAIN @ \ gone)],
      dbg |-> [x.dbg EXCEPT !.applied = Restrict(@, kept),
                            !.hits = Restrict(@, kept \cap DOMAIN @)]]

\* New entries at an address get one, and each is switched as its entry says.
Add(x, specs) ==
  LET new == {i \in DOMAIN specs \ DOMAIN x.dbg.applied : specs[i].kind = "exec"}
      id(i) == x.emu.next + Cardinality({j \in new : j < i})
      applied == [i \in DOMAIN specs |->
                    [spec |-> specs[i],
                     core |-> IF i \in new THEN id(i)
                              ELSE IF i \in DOMAIN x.dbg.applied THEN x.dbg.applied[i].core ELSE 0]]
      \* Several only when ids are another emulator's: the last entry switches it.
      owners(c) == {i \in DOMAIN applied : applied[i].core = c}
      fresh == {id(i) : i \in new}
      entry(c) == CHOOSE i \in new : id(i) = c
  IN [emu |-> [x.emu EXCEPT
                 !.next = @ + Cardinality(new),
                 !.bps = [c \in DOMAIN @ \cup fresh |->
                            [addr |-> IF c \in fresh THEN specs[entry(c)].addr ELSE x.emu.bps[c].addr,
                             on |-> IF owners(c) = {} THEN x.emu.bps[c].on
                                    ELSE specs[Max(owners(c))].on,
                             hits |-> IF c \in fresh THEN 0 ELSE x.emu.bps[c].hits]]],
      dbg |-> [x.dbg EXCEPT !.applied = applied]]

Broken(specs) ==
  LET on == {i \in DOMAIN specs : specs[i].kind = "code" /\ specs[i].on}
  IN UNION {IF specs[i].addr = Every THEN Codes ELSE {specs[i].addr} : i \in on}

Break(x, specs) ==
  [emu |-> [x.emu EXCEPT !.codes = Broken(specs)], dbg |-> [x.dbg EXCEPT !.specs = specs]]

syncBreakpoints(x, specs) == Break(Add(Drop(x, specs), specs), specs)

loadBreakpoints(dump) == saved[dump]

\* A new machine gets this dump's list, read again when the dump is another one.
prepareKeeping(emu, d, dump, kept) ==
  LET specs == IF d.hash = dump THEN d.specs ELSE loadBreakpoints(dump)
      bare == [d EXCEPT !.hash = dump, !.applied = kept, !.hits = NoList]
      x == syncBreakpoints([emu |-> emu, dbg |-> bare], specs)
  IN [emu |-> x.emu, dbg |-> [x.dbg EXCEPT !.last = NoInfo, !.seen = NoStop]]

\* Mutant of prepareMachine: the entries keep the breakpoints of the machine of before.
prepareStale(emu, d, dump) == prepareKeeping(emu, d, dump, d.applied)

prepareMachine(emu, d, dump) == prepareKeeping(emu, d, dump, NoList)

\* The hits the page is told of an entry.
infos(i) ==
  LET ap == dbg.applied[i]
  IN IF ap.core \in DOMAIN core.bps THEN core.bps[ap.core].hits
     ELSE IF i \in DOMAIN dbg.hits THEN dbg.hits[i] ELSE 0

-----------------------------------------------------------------------------
(* Stops. *)

\* d.mu: what needs it waits while the list changes.
Unlocked == list.at \in {"idle", "keep", "drop"}

findSpec(code) ==
  LET on(a) == {i \in DOMAIN dbg.specs : dbg.specs[i] = [kind |-> "code", addr |-> a, on |-> TRUE]}
  IN IF on(code) # {} THEN {Min(on(code))} ELSE IF on(Every) # {} THEN {Min(on(Every))} ELSE {}

CountHit(s, hits) ==
  LET hit == IF s.why = "code" THEN findSpec(s.id) ELSE {}
      old(i) == IF i \in DOMAIN hits THEN hits[i] ELSE 0
  IN [i \in DOMAIN hits \cup hit |-> IF i \in hit THEN Capped(old(i) + 1) ELSE hits[i]]

\* Mutant of Noted: a stop that was forgotten counts as noted.
NotedOnce(s) == dbg.seen = s

Noted(s) == dbg.seen = s /\ dbg.last # NoInfo

\* An event under way, or a status: the page ignores a stop that it shows or fetches.
tell(seq) ==
  [page EXCEPT !.events = @ \cup ({seq} \ 0..Max({page.applied, page.fetching}))]

\* A stop is numbered and counted once, and the page gets an event.
noteStop(s) ==
  /\ Unlocked
  /\ IF Noted(s) THEN UNCHANGED <<dbg, page>>
     ELSE /\ dbg' = [dbg EXCEPT !.seq = @ + 1, !.seen = s, !.hits = CountHit(s, @),
                                !.last = [seq |-> dbg.seq + 1, stop |-> s]]
          /\ page' = tell(dbg.seq + 1)

running ==
  /\ Unlocked
  /\ dbg' = [dbg EXCEPT !.last = NoInfo]

\* What a turn of a running machine can come to.
Halted(e, s) == [e EXCEPT !.stop = s, !.goal = FALSE, !.clock = s.clock]
Turns(e) ==
  LET at(why, id) == Stop(why, id, e.clock + 1)
      hit(i) == [e EXCEPT !.bps[i].hits = Capped(@ + 1)]
      on == {i \in DOMAIN e.bps : e.bps[i].on}
  IN {e} \cup IF e.clock = MaxStops THEN {}
     ELSE {Halted(hit(i), at("breakpoint", i)) : i \in on}
          \cup {Halted(e, at("code", c)) : c \in e.codes}
          \cup {Halted(e, at(why, 0)) : why \in {"fault"} \cup IF e.goal THEN {"step"} ELSE {}}

Resumed(e, goal) == IF e.stop.why = "fault" THEN e ELSE [e EXCEPT !.stop = NoStop, !.goal = goal]
Paused(e) == IF e.stop # NoStop THEN e ELSE Halted(e, Stop("pause", 0, e.clock))

-----------------------------------------------------------------------------
(* The machine's goroutine. *)

To(p, at) == [p EXCEPT !.at = at]

\* report: a stop that this goroutine has not seen goes to noteStop.
Report ==
  /\ driver.at \in {"top", "report"}
  /\ LET new == IsStopped /\ core.stop # driver.seen
         next == IF new THEN "note"
                 ELSE IF driver.at = "top" /\ ~IsStopped THEN "run" ELSE "top"
     IN driver' = [driver EXCEPT !.at = next, !.seen = core.stop]
  /\ UNCHANGED <<open, core, dbg, saved, status, fetch, call, list, astray, page, user>>

DriverNote ==
  /\ driver.at = "note"
  /\ noteStop(driver.seen)
  /\ driver' = To(driver, "top")
  /\ UNCHANGED <<open, core, saved, status, fetch, call, list, astray, user>>

Run ==
  /\ driver.at = "run"
  /\ core' \in IF IsStopped THEN {core} ELSE Turns(core)
  /\ driver' = To(driver, "report")
  /\ UNCHANGED <<open, dbg, saved, status, fetch, call, list, astray, page, user>>

Exit ==
  /\ driver.at = "top" /\ driver.closed
  /\ driver' = To(driver, "done")
  /\ UNCHANGED <<open, core, dbg, saved, status, fetch, call, list, astray, page, user>>

Driver == Report \/ DriverNote \/ Run

-----------------------------------------------------------------------------
(* The status loop, and the page. *)

\* GetStatus reads the stop, then notes it; the page is sent it again each time.
GetStatus ==
  /\ status.at = "idle" /\ open # None /\ IsStopped
  /\ status' = [at |-> "note", stop |-> core.stop]
  /\ UNCHANGED <<open, core, dbg, saved, driver, fetch, call, list, astray, page, user>>

StatusNote ==
  /\ status.at = "note"
  /\ IF Noted(status.stop) THEN /\ Unlocked
                               /\ page' = tell(dbg.last.seq)
                               /\ UNCHANGED dbg
                          ELSE noteStop(status.stop)
  /\ status' = [at |-> "idle", stop |-> NoStop]
  /\ UNCHANGED <<open, core, saved, driver, fetch, call, list, astray, user>>

Status == GetStatus \/ StatusNote

\* A stop that the page neither shows nor fetches makes it ask for a snapshot.
onStopEvent ==
  /\ fetch.at = "idle"
  /\ \E seq \in page.events :
       page' = [page EXCEPT !.events = {later \in @ : later > seq}, !.fetching = seq]
  /\ fetch' = To(fetch, "look")
  /\ UNCHANGED <<open, core, dbg, saved, driver, status, call, list, astray, user>>

\* DebugSnapshot: the stop is noted, then read again for the answer.  Without a machine it
\* fails, and the page does not ask for that stop again.
DebugSnapshot ==
  /\ fetch.at = "look"
  /\ IF open = None
     THEN /\ fetch' = To(fetch, "idle")
          /\ page' = [page EXCEPT !.failed = @ \cup {page.fetching}]
     ELSE /\ fetch' = [at |-> IF IsStopped THEN "note" ELSE "read", stop |-> core.stop]
          /\ UNCHANGED page
  /\ UNCHANGED <<open, core, dbg, saved, driver, status, call, list, astray, user>>

FetchNote ==
  /\ fetch.at = "note"
  /\ noteStop(fetch.stop)
  /\ fetch' = To(fetch, "read")
  /\ UNCHANGED <<open, core, saved, driver, status, call, list, astray, user>>

\* The answer's stop is the last one noted; apply shows it when it is a later one.
Answer ==
  /\ Unlocked
  /\ page' = [page EXCEPT !.applied = Max({@, dbg.last.seq}),
                          !.events = @ \ 0..dbg.last.seq]

FetchAnswer ==
  /\ fetch.at = "read"
  /\ Answer
  /\ fetch' = [at |-> "idle", stop |-> NoStop]
  /\ UNCHANGED <<open, core, dbg, saved, driver, status, call, list, astray, user>>

Fetch == DebugSnapshot \/ FetchNote \/ FetchAnswer

-----------------------------------------------------------------------------
(* Control calls: what each does, in order. *)

Idle == [op |-> None, at |-> "idle", stop |-> NoStop, was |-> FALSE, dump |-> None]
Opening == call.op = "start"
NoChange == [at |-> "idle", specs |-> NoList, dump |-> None, gone |-> {}]

First == [pause |-> "pause", continue |-> "running", step |-> "running", slot |-> "was",
          start |-> "unpublish"]

Begin ==
  /\ call.at = "idle" /\ user.moves > 0
  /\ \E op \in user.calls \cap DOMAIN First : \E dump \in Dumps :
       /\ op # "start" => open # None /\ dump = open
       /\ op = "step" => core.stop.why # "fault"
       /\ call' = [Idle EXCEPT !.op = op, !.at = First[op], !.dump = dump]
  /\ user' = [user EXCEPT !.moves = @ - 1]
  /\ UNCHANGED <<open, core, dbg, saved, driver, status, fetch, list, astray, page>>

\* SetPaused(true), and the end of resume: Pause, then stopped.
CallPause ==
  /\ call.at = "pause"
  /\ core' = Paused(core)
  /\ call' = To(call, "look")
  /\ UNCHANGED <<open, dbg, saved, driver, status, fetch, list, astray, page, user>>

CallLook ==
  /\ call.at = "look"
  /\ call' = IF IsStopped THEN [call EXCEPT !.at = "note", !.stop = core.stop] ELSE Idle
  /\ UNCHANGED <<open, core, dbg, saved, driver, status, fetch, list, astray, page, user>>

\* A step that ended answers with its snapshot.
CallNote ==
  /\ call.at = "note"
  /\ noteStop(call.stop)
  /\ call' = IF call.op = "step" THEN To(call, "read") ELSE Idle
  /\ UNCHANGED <<open, core, saved, driver, status, fetch, list, astray, user>>

CallAnswer ==
  /\ call.at = "read"
  /\ Answer
  /\ call' = Idle
  /\ UNCHANGED <<open, core, dbg, saved, driver, status, fetch, list, astray, user>>

\* The stop is forgotten before the machine runs.
CallRunning ==
  /\ call.at = "running"
  /\ running
  /\ call' = IF call.op = "slot" THEN IF call.was THEN To(call, "pause") ELSE Idle
             ELSE To(call, call.op)
  /\ UNCHANGED <<open, core, saved, driver, status, fetch, list, astray, page, user>>

Continue ==
  /\ call.at = "continue"
  /\ core' = Resumed(core, FALSE)
  /\ call' = Idle
  /\ UNCHANGED <<open, dbg, saved, driver, status, fetch, list, astray, page, user>>

\* A step runs a while at once; the machine's goroutine finishes one that has not ended.
step ==
  /\ call.at = "step"
  /\ core' \in IF core.stop.why = "fault" THEN {core} ELSE Turns(Resumed(core, TRUE))
  /\ call' = IF core'.stop = NoStop THEN Idle ELSE [call EXCEPT !.at = "note", !.stop = core'.stop]
  /\ UNCHANGED <<open, dbg, saved, driver, status, fetch, list, astray, page, user>>

\* LoadSlot: the state restarts the clock and drops the stop; a stopped machine is paused again.
WasStopped ==
  /\ call.at = "was"
  /\ call' = [call EXCEPT !.at = "resume", !.was = IsStopped]
  /\ UNCHANGED <<open, core, dbg, saved, driver, status, fetch, list, astray, page, user>>

resume ==
  /\ call.at = "resume"
  /\ core' = [core EXCEPT !.stop = NoStop, !.goal = FALSE, !.clock = 0]
  /\ call' = To(call, "running")
  /\ UNCHANGED <<open, dbg, saved, driver, status, fetch, list, astray, page, user>>

\* start: the machine of before is halted, the new one prepared and published.
Unpublish ==
  /\ call.at = "unpublish"
  /\ open' = None
  /\ driver' = [driver EXCEPT !.closed = open # None]
  /\ call' = To(call, "prepare")
  /\ UNCHANGED <<core, dbg, saved, status, fetch, list, astray, page, user>>

\* A change of the list that waits for the lock has found the emulator that is left here.
Prepare ==
  /\ call.at = "prepare" /\ driver.at = "done" /\ Unlocked
  /\ LET x == prepareMachine(NewEmulator, dbg, call.dump)
     IN core' = x.emu /\ dbg' = x.dbg
  /\ list' = IF list.at = "drop" /\ list.gone = {} THEN [list EXCEPT !.gone = {core}] ELSE list
  /\ astray' = IF dbg.hash = call.dump THEN astray \ {"core"} ELSE {}
  /\ call' = To(call, "publish")
  /\ UNCHANGED <<open, saved, driver, status, fetch, page, user>>

Publish ==
  /\ call.at = "publish"
  /\ open' = call.dump
  /\ driver' = [at |-> "top", seen |-> NoStop, closed |-> FALSE]
  /\ call' = Idle
  /\ UNCHANGED <<core, dbg, saved, status, fetch, list, astray, page, user>>

Call == \/ CallPause \/ CallLook \/ CallNote \/ CallAnswer \/ CallRunning
        \/ Continue \/ step \/ WasStopped \/ resume \/ Unpublish \/ Prepare \/ Publish

-----------------------------------------------------------------------------
(* SetBreakpoints: the machine is looked up, then the lock is taken.  The emulator is called, *)
(* and runs on, between the steps.                                                            *)

SetBreakpoints ==
  /\ "list" \in user.calls /\ user.moves > 0 /\ list.at = "idle"
  /\ \E specs \in Lists :
       list' = [NoChange EXCEPT !.at = IF open = None THEN "keep" ELSE "drop",
                                !.specs = specs, !.dump = open]
  /\ user' = [user EXCEPT !.moves = @ - 1]
  /\ UNCHANGED <<open, core, dbg, saved, driver, status, fetch, call, page, astray>>

\* There was no machine: the list is noted, neither applied nor saved.
KeepList ==
  /\ list.at = "keep"
  /\ dbg' = [dbg EXCEPT !.specs = list.specs]
  /\ list' = NoChange
  /\ astray' = astray \cup {"list"}
  /\ UNCHANGED <<open, core, saved, driver, status, fetch, call, page, user>>

\* A part of the change, on the emulator of the machine it found, which a start may have left.
Left == list.gone # {}
Now == [emu |-> IF Left THEN CHOOSE e \in list.gone : TRUE ELSE core, dbg |-> dbg]

Sync(at, next, x) ==
  /\ list.at = at
  /\ core' = IF Left THEN core ELSE x.emu
  /\ dbg' = x.dbg
  /\ list' = IF next = "idle" THEN NoChange
             ELSE [list EXCEPT !.at = next, !.gone = IF Left THEN {x.emu} ELSE {}]
  /\ UNCHANGED <<open, driver, status, fetch, call, page, user>>

DropOld ==
  /\ Sync("drop", "add", Drop(Now, list.specs))
  /\ astray' = IF Left THEN {"core", "list"} ELSE astray
  /\ UNCHANGED saved
AddNew == Sync("add", "break", Add(Now, list.specs)) /\ UNCHANGED <<saved, astray>>
BreakSave ==
  /\ Sync("break", "idle", Break(Now, list.specs))
  /\ saved' = [saved EXCEPT ![list.dump] = list.specs]
  /\ astray' = IF dbg.hash = list.dump THEN astray \ {"list"} ELSE astray

List == KeepList \/ DropOld \/ AddNew \/ BreakSave

-----------------------------------------------------------------------------
NoSession == [hash |-> None, specs |-> NoList, applied |-> NoList, hits |-> NoList,
              seq |-> 0, last |-> NoInfo, seen |-> NoStop]

Init ==
  /\ \E setup \in Setups :
       /\ open = setup.open /\ saved = setup.saved
       /\ user = [calls |-> setup.calls, moves |-> setup.moves]
       /\ IF setup.open = None THEN core = NewEmulator /\ dbg = NoSession
          ELSE LET x == prepareMachine(NewEmulator, NoSession, setup.open)
               IN core = x.emu /\ dbg = x.dbg
  /\ driver = [at |-> IF open = None THEN "done" ELSE "top", seen |-> NoStop, closed |-> FALSE]
  /\ status = [at |-> "idle", stop |-> NoStop]
  /\ fetch = [at |-> "idle", stop |-> NoStop]
  /\ call = Idle
  /\ list = NoChange /\ astray = {}
  /\ page = [applied |-> 0, fetching |-> 0, events |-> {}, failed |-> {}]

Next == Driver \/ Exit \/ Status \/ onStopEvent \/ Fetch \/ Begin \/ Call \/ SetBreakpoints \/ List

Spec == Init /\ [][Next]_vars

\* Every goroutine goes on, events arrive, and a closed channel is noticed at some turn.
FairSpec ==
  /\ Spec
  /\ WF_vars(Driver) /\ WF_vars(Status) /\ WF_vars(onStopEvent) /\ WF_vars(Fetch)
  /\ WF_vars(Call) /\ WF_vars(List) /\ SF_vars(Exit)

-----------------------------------------------------------------------------
(* Properties. *)

\* The emulator breaks exactly where the list says, and the list is the one saved.
InForce(dump) ==
  LET exec == {i \in DOMAIN dbg.specs : dbg.specs[i].kind = "exec"}
      at(i) == dbg.applied[i].core
  IN /\ saved[dump] = dbg.specs
     /\ core.codes = Broken(dbg.specs)
     /\ DOMAIN core.bps = {at(i) : i \in exec}
     /\ Cardinality(DOMAIN core.bps) = Cardinality(exec)
     /\ \A i \in exec : /\ core.bps[at(i)].addr = dbg.specs[i].addr
                        /\ core.bps[at(i)].on = dbg.specs[i].on

\* Whenever a machine is open and no change is under way, its list is in force
\* (syncBreakpoints, prepareMachine: ids of one emulator mean nothing in another); but for
\* changes that looked for the machine before a start was through with it, until what they
\* left behind is gone.
ListApplied == open # None /\ Unlocked /\ astray = {} => InForce(open)

\* The list becomes the core's breakpoints after every change and is saved per dump, and each
\* new machine of the dump gets it (app/debug.go:30-33), whatever is opened meanwhile.
EveryChangeApplied == open # None /\ Unlocked => InForce(open)

\* While a machine lives, an entry that stays at its target keeps the hits it has, whatever
\* is added, removed or switched around it ("Unchanged entries keep their core breakpoint, so
\* their hit counts", app/debug.go), as long as the ids noted are those of its emulator.
HitsSurvive ==
  [][~Prepare /\ "core" \notin astray =>
       LET specs == IF list.at = "idle" THEN dbg.specs ELSE list.specs
       IN \A i \in DOMAIN dbg.applied \cap DOMAIN specs :
            ( /\ specs[i].kind = dbg.applied[i].spec.kind
              /\ specs[i].addr = dbg.applied[i].spec.addr )
            => i \in DOMAIN dbg'.applied /\ infos(i)' >= infos(i)]_vars

Told == \/ dbg.last.stop = core.stop /\ page.applied >= dbg.last.seq
        \/ dbg.last.seq \in page.failed

\* A machine that stays stopped is shown as stopped, with its own stop: no order of the
\* goroutines that note stops, and no call that forgets one, leaves the page without it.
\* Excepted is a stop whose snapshot the page asked for while no machine was open.
StopsShown == []<>(open # None /\ IsStopped => Told)
=============================================================================
