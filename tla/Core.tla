-------------------------------- MODULE Core --------------------------------
(***************************************************************************)
(* The core at work: programs that page, trap, sleep and break, under an   *)
(* OS that maps pages on demand, with interrupts at any moment, a routine  *)
(* of the OS injected by the host, and save-states resumed.                *)
(* The OS, its page table and its handlers are not in the repository: the  *)
(* header of mmu.go says what they do.                                     *)
(***************************************************************************)
EXTENDS Cpu

CONSTANTS
  Machines,         \* the machines a run starts with
  DataPages,        \* pages of the program's memory
  SparePage,        \* a frame the OS may move the last of them to
  MovedPage,
  End(_),           \* the address a program stops at
  EnqueueAddr, EnqueueArg,   \* the routine the host injects
  MaxEvents(_),     \* bound: interrupts raised, save-states, injections
  Progress(_)       \* the program's views of itself when nothing disturbs it

VARIABLES
  c,          \* the machine
  pending,    \* cpu.pending: the interrupt requested, {} or {its level}
  events,
  at          \* history: how far the program has come, -1 when it is lost

vars == <<c, pending, events, at>>

---------------------------------------------------------------------------
(* The machine as a record. *)

\* The fields of a machine (Cpu).
Fields ==
  {"prog", "r", "rbank1", "pc", "pr", "gbr", "vbr", "ssr", "spc", "sgr", "dbr", "mach", "macl", "sr",
   "intmu", "ldst", "sleeping", "inSlot", "slotPC", "excTaken", "fault", "faulted", "dead", "lastExc",
   "irqCnt", "ops", "mem", "mmu", "ubc", "os"}
\* A break unit: its channels and its flags.
BreakUnit(u) ==
  /\ {"ch", "mf", "cet", "ubde", "powered", "fetchHit", "opHit", "breaks"} \subseteq DOMAIN u
  /\ \A i \in Channels : "ce" \in DOMAIN u.ch[i]
\* A machine.
Shape(m) ==
  /\ DOMAIN m = Fields /\ BreakUnit(m.ubc) /\ m.dead \in BOOLEAN
  /\ {"utlb", "last", "at", "sv", "pteh"} \subseteq DOMAIN m.mmu /\ m.mmu.utlb = [i \in Slots |-> m.mmu.utlb[i]]
  /\ {"MD", "RB", "BL"} \subseteq DOMAIN m.sr /\ {"MD", "RB", "BL"} \subseteq DOMAIN m.ssr
\* Between two instructions, or dead.
Between(m) ==
  /\ Shape(m) /\ m.fault = {}
  /\ ~m.dead => m.inSlot = FALSE /\ m.excTaken = FALSE
\* A machine no instruction of which is under way.
Rest(m) == Between(m) /\ m.ops = FALSE

\* A run starts with machines that are between two instructions.
ASSUME MachinesAtRest == \A m \in Machines : Rest(m) /\ ~m.dead

---------------------------------------------------------------------------
\* The OS in its handlers.

MapOf(os, page) == IF page \in DataPages /\ page # MovedPage THEN [sz |-> 2 * PageBytes, ppn |-> page]
                   ELSE [sz |-> PageBytes, ppn |-> IF page = MovedPage THEN os.frame ELSE page]

\* A miss: PTEL and URC for the page in PTEH, round robin.
OsPage(m) ==
  LET page == m.mmu.pteh.vpn
      map == MapOf(m.os, page)
  IN [m EXCEPT !.mmu.ptel = [NoEntry EXCEPT !.v = TRUE, !.pr = 3, !.sz = map.sz, !.ppn = map.ppn],
               !.mmu.urc = m.os.next, !.os.next = (m.os.next + 1) % UtlbSize]

\* Any other exception, by its code.
OsServe(m) ==
  CASE m.mmu.expevt = "080" ->
         LET i == Min(Hits(m.mmu, m.mmu.tea, TRUE))
         IN [m EXCEPT !.mmu = WriteAddress(m.mmu, i, m.mmu.utlb[i].vpn, m.mmu.pteh.asid, TRUE, TRUE)]
    [] m.mmu.expevt = "160" -> m
    [] m.mmu.expevt = "180" -> [m EXCEPT !.spc = U(m.spc + 2)]
    [] m.mmu.expevt = "1E0" -> [m EXCEPT !.ubc.ch = [i \in Channels |-> [m.ubc.ch[i] EXCEPT !.ce = FALSE]]]
    [] OTHER -> [m EXCEPT !.spc = End(m.prog)]

OsWorks == {"nothing", "flush", "drop", "evict", "move", "other"}

\* What the OS does with the memory in an interrupt.
OsMemory(m) ==
  LET from == m.os.frame
      to == IF from = MovedPage THEN SparePage ELSE MovedPage
      page == [i \in 0 .. PageBytes - 1 |-> m.mem[from + i]]
      dropped == WriteAssociative(m.mmu, MovedPage, m.mmu.pteh.asid, FALSE, FALSE)
      other == [NoEntry EXCEPT !.v = TRUE, !.pr = 3, !.d = TRUE, !.sz = PageBytes, !.ppn = to]
  IN CASE m.os.choice = "flush" -> [m EXCEPT !.mmu = WriteMMUCR(m.mmu, m.mmu.at, TRUE, m.mmu.urc, m.mmu.sv)]
       [] m.os.choice = "drop" -> [m EXCEPT !.mmu = dropped]
       [] m.os.choice = "evict" ->
            [m EXCEPT !.mmu = WriteAddress(m.mmu, m.mmu.last, m.mmu.utlb[m.mmu.last].vpn, m.mmu.pteh.asid, FALSE, FALSE)]
       [] m.os.choice = "move" ->
            [m EXCEPT !.mmu = dropped, !.os.frame = to,
                      !.mem = [a \in DOMAIN m.mem |-> IF a \in to .. to + PageBytes - 1 THEN page[a - to]
                                                  ELSE IF a \in from .. from + PageBytes - 1 THEN 0 ELSE m.mem[a]]]
       [] m.os.choice = "other" ->     \* another process's page at the same address
            [m EXCEPT !.mmu = WriteData(WriteAddress(m.mmu, m.os.next, MovedPage, 2, TRUE, TRUE), m.os.next, other),
                      !.os.next = (m.os.next + 1) % UtlbSize]
       [] OTHER -> m

OsDoes(m, i) ==
  CASE i.op = "page" -> OsPage(m)
    [] i.op = "serve" -> OsServe(m)
    [] OTHER -> OsMemory(m)

---------------------------------------------------------------------------
\* What the program sees of itself: its registers and its memory by logical
\* addresses.

LogicalMemory(m) ==
  LET addr(a) == IF a \in MovedPage .. MovedPage + PageBytes - 1 THEN m.os.frame + a - MovedPage ELSE a
      all == UNION {p .. p + PageBytes - 1 : p \in DataPages}
  IN [a \in all |-> m.mem[addr(a)]]
View(m) ==
  [r |-> m.r, pc |-> m.pc, pr |-> m.pr, gbr |-> m.gbr, sr |-> m.sr, mach |-> m.mach, macl |-> m.macl,
   mem |-> LogicalMemory(m)]

Finished(m) == m.pc = End(m.prog) /\ m.sr.BL = 0

\* The undisturbed run: no translation, no breaks, exceptions that are served
\* at once.
Undisturbed(m) ==
  LET served(d) == CASE d.sr.BL = 0 -> [d EXCEPT !.sleeping = FALSE]
                     [] d.sr.BL = 1 /\ d.mmu.expevt \in {"160", "180"} -> [m EXCEPT !.pc = U(m.pc + 2)]
                     [] OTHER -> [m EXCEPT !.pc = End(m.prog)]
  IN served(Plain([m EXCEPT !.mmu.at = FALSE]))

\* One instruction on, or two where a break after a branch not taken waits
\* for its slot.
Followed(m, n, views) ==
  LET is(k) == k <= Len(views) /\ m.pc = views[k].pc /\ View(m) = views[k]
  IN CASE views = <<>> \/ m.sr.BL = 1 -> n
       [] is(n) -> n
       [] is(n + 1) -> n + 1
       [] is(n + 2) /\ (UbcOn(m.ubc) \/ m.ubc.breaks > 0) -> n + 2
       [] OTHER -> -1

---------------------------------------------------------------------------
Init ==
  /\ c \in Machines /\ pending = {} /\ events = 0
  /\ at = 1

Running == ~Finished(c) /\ ~c.dead /\ at # -1

WorksAt(m) ==
  IF m.mmu.at /\ FaultOf(m, m.pc, FALSE) = {} /\ InstrAt(m, m.pc).op = "memory" THEN OsWorks ELSE {"nothing"}

\* step: the interrupt, then one instruction.
Taking == pending # {} /\ Accepts(c, 1)
Entering(m) == [Interrupted(m, 1) EXCEPT !.irqCnt = m.irqCnt + 1]
Started == IF Taking THEN Entering(c) ELSE c
Step ==
  /\ Running /\ ~c.sleeping
  /\ \E d \in {Started} : \E work \in WorksAt(d) :
       \E e \in {Instruction([d EXCEPT !.os.choice = work])} : c' = e /\ at' = Followed(e, at, Progress(c.prog))
  /\ pending' = (IF Taking THEN {} ELSE pending)
  /\ UNCHANGED events

\* step on a sleeping CPU: a request wakes it.
Asleep ==
  /\ Running /\ c.sleeping /\ pending # {}
  /\ c' = [c EXCEPT !.sleeping = FALSE]
  /\ UNCHANGED <<pending, events, at>>

Event == Running /\ events < MaxEvents(c.prog) /\ events' = events + 1

\* A device's request; one always comes for a CPU that sleeps.
Raise ==
  /\ pending = {}
  /\ Event \/ (Running /\ c.sleeping /\ UNCHANGED events)
  /\ pending' = {1} /\ UNCHANGED <<c, at>>

\* A snapshot resumed at once.
Resume ==
  /\ Event
  /\ c' = Resumed(c) /\ pending' = {} /\ UNCHANGED at

Inject ==
  /\ Event
  /\ c' = Injected(c, EnqueueAddr, EnqueueArg)
  /\ UNCHANGED <<pending, at>>

Stop == ~Running /\ UNCHANGED vars

Next == Step \/ Asleep \/ Raise \/ Resume \/ Inject \/ Stop

\* WF_vars(Step), spelt out: Step is enabled when Awake holds, and only its
\* steps change an awake machine without an event.
Awake == Running /\ ~c.sleeping
Stepped == Awake /\ events' = events
StepsOn == <>[]Awake => []<><<Stepped>>_c

Spec == Init /\ [][Next]_vars /\ StepsOn /\ WF_vars(Asleep) /\ WF_vars(c.sleeping /\ Raise)

---------------------------------------------------------------------------
\* Whatever faults, interrupts, breaks, injections and save-states come
\* between, the program goes from one view of itself to the next: an
\* instruction that faults leaves nothing behind (stepMMU), a handler keeps
\* the other bank, a delay slot belongs to its branch.
OnTrack == at # -1 /\ ~c.dead

\* The registers an exception returns by, which are one deep, and those the
\* instruction at m.pc may load, or the one in its slot.
Return == {"ssr", "spc", "sgr"}
Loads(i, f) == i.k = "ldc" /\ i.x = f
Writes(i, f) == i.k = "os" \/ Loads(i, f)
Second(m) == InstrAt(Fetched(m, m.pc), U(m.pc + 2))
SlotOf(m) == IF InstrAt(m, m.pc).k = "branch" /\ InstrAt(m, m.pc).op \notin {"bt", "bf"} THEN {Second(m)} ELSE {}
Reloads(m) ==
  LET i == InstrAt(m, m.pc) IN
  {f \in Return : \/ i.k = "branch" /\ i.op = "rte"
                  \/ \E j \in {i} \cup SlotOf(m) : Writes(j, f)}

\* The machine an instruction executes on: with a watch, when channels are on;
\* and whether stepUBC runs two instructions on it, a branch not taken and
\* the one after it.
Before(m) == IF Live(m) THEN FetchMatch(m.ubc, m.pc, DelayedAt(m, m.pc), FALSE, m.mmu.pteh.asid)
             ELSE [m.ubc EXCEPT !.fetchHit = FALSE]
Watching(m) ==
  LET after == IF Live(m) THEN FetchMatch(Before(m), m.pc, DelayedAt(m, m.pc), TRUE, m.mmu.pteh.asid) ELSE Before(m)
  IN IF UbcOn(m.ubc) THEN [m EXCEPT !.ubc = [after EXCEPT !.opHit = FALSE], !.faulted = FALSE,
                                    !.ops = Live(m) /\ OpArmed(m.ubc)]
     ELSE m
Chosen(m, work) == [m EXCEPT !.os.choice = work]
Paired(m) == UbcOn(m.ubc) /\ \E work \in OsWorks : Untaken(StepMMU(Watching(Chosen(m, work))), m.pc)

\* While a handler is blocked, from its first instruction on, no interrupt,
\* exception or break is entered over the one it serves: SSR, SPC and SGR are
\* its own, and only what the program itself loads into them changes them.
ReturnKept ==
  [][Step /\ Started.sr.BL = 1 /\ ~Paired(Started) =>
       \A f \in Return \ Reloads(Started) : c'[f] = Started[f]]_vars

\* A user break is taken where its channel says, before the instruction (or
\* the branch whose slot it is), after it, or after the access, at the n-th
\* match for a channel that counts n where no fetch faults; and the program
\* never passes an instruction a channel asks to break at.
Matched(k, i) == Addr(k, i.pc) \/ (Addr(k, i.pc + 2) /\ DelayedAt([c EXCEPT !.mmu.at = FALSE], i.pc))
BreakPlace(k, views, spc) ==
  CASE ~WatchesFetch(k) -> spc \in {views[at + 1].pc, views[Min({at + 2, Len(views)})].pc}
    [] WatchesFetch(k) /\ ~k.pcb -> spc = views[at].pc /\ Matched(k, views[at])
    [] OTHER -> spc \in {views[at + 1].pc, views[Min({at + 2, Len(views)})].pc} /\ Matched(k, views[at])
Asks(k, i) == k.ce /\ k.bie /\ WatchesFetch(k) /\ ~k.mfe /\ ~k.aie /\ (k.etbe => c.ubc.cet <= 1) /\ Matched(k, i)
BreakExact ==
  [][/\ c'.ubc.breaks # c.ubc.breaks =>
          \A views \in {Progress(c.prog)} :
            \E i \in Channels : LET k == c.ubc.ch[i] IN
              /\ k.ce /\ k.bie /\ BreakPlace(k, views, c'.spc)
              /\ (k.etbe /\ ~c.mmu.at) =>
                   Cardinality({j \in 1..at : Matched(k, views[j])}) = c.os.count
     /\ (c.sr.BL = 0 /\ at' > at /\ UbcOn(c.ubc)) =>
          \A i \in Channels : ~Asks(c.ubc.ch[i], Progress(c.prog)[at])]_vars

\* The program comes to its end: no instruction faults for ever.
Finishes == <>(~Running)
=============================================================================
