------------------------------ MODULE Storage ------------------------------
(***************************************************************************)
(* The storage memory and the save-states: the OS's flash routines on the  *)
(* chip of FlashNor, and the host that saves, loads, restarts and launches *)
(* at any moment, in the middle of a command too.                          *)
(*                                                                         *)
(* The OS is external: a job is one of its routines, an erase of a sector  *)
(* or a program of one word or of a buffer; its state is in RAM, and so in *)
(* a save-state, while the chip's command state is not.  Data that looks   *)
(* like a command (AA at xAAA) is left out.                                *)
(***************************************************************************)
EXTENDS FlashNor

CONSTANTS
  Boot,        \* the cell of the OS image that commands are addressed to
  Firmware,    \* the cells of the OS image
  Dump,        \* the flash image in the dump file
  Jobs,        \* what the OS may ask of the chip
  PollLimit,   \* polls before a routine gives up
  Loads,       \* whether the slot is ever loaded
  MaxJobs,     \* bound: jobs
  MaxCalls     \* bound: calls of the host

NoJob == [kind |-> "none", cells |-> <<>>, data |-> {}]
NoState == [none |-> TRUE]

StorageAssumption ==
  /\ Firmware \subseteq FlashCells /\ Boot \in Firmware
  /\ \A s \in Sectors : s \subseteq Firmware \/ s \cap Firmware = {}
  /\ Dump \in [FlashCells -> SUBSET Bits]
  /\ Jobs \subseteq [kind : {"erase", "program", "buffer"},
                     cells : Seq(FlashCells \ Firmware), data : SUBSET Bits]
  /\ \A j \in Jobs : Len(j.cells) > 0 /\ (j.kind # "buffer" => Len(j.cells) = 1)
  /\ PollLimit \in Nat

ASSUME StorageAssumption

VARIABLES
  rom,       \* m.rom: the image the machine was built from, baseline of its deltas
  os,        \* the OS's flash routine
  image,     \* what Restart has read, NoState if it is not under way
  slot,      \* the quick slot
  session,   \* the session file
  \* history
  found,     \* the array when the job was asked for
  whole,     \* no resume or restart since then
  torn,      \* a slot was loaded in the middle of a command
  jobs,
  calls

history == <<found, whole, torn, jobs, calls>>
storageVars == <<flash, chip, rom, os, image, slot, session, history>>

Phases == {"idle", "write", "begun", "started", "poll", "reset"}
Booted == [phase |-> "idle", job |-> NoJob, at |-> 1, polls |-> 0, ok |-> TRUE]
OsStates == [phase : Phases, job : Jobs \cup {NoJob}, at : Nat \ {0}, polls : Nat, ok : BOOLEAN]

StorageInit ==
  /\ flash = Dump /\ PoweredOn
  /\ rom = Dump
  /\ os = Booted
  /\ image = NoState /\ slot = NoState /\ session = NoState
  /\ found = Dump /\ whole = FALSE /\ torn = FALSE /\ jobs = 0 /\ calls = 0

---------------------------------------------------------------------------
(* The OS's flash routines *)

\* A command programs zeros when the chip takes it for data.
Plain == [at |-> Boot, hook |-> "other", low |-> "other", num |-> 0, data |-> {}]
Code(hook, low) == [Plain EXCEPT !.hook = hook, !.low = low]
To(at, low) == [Plain EXCEPT !.at = at, !.low = low]
Word(at, data) == [Plain EXCEPT !.at = at, !.data = data]

Length(job) ==
  CASE job.kind = "erase" -> 6
    [] job.kind = "program" -> 4
    [] job.kind = "buffer" -> 5 + Len(job.cells)

\* The k-th write of a command after its unlock.
EraseWrite(job, k) == IF k = 3 THEN Code("aaa", "80") ELSE To(job.cells[1], "30")
ProgramWrite(job, k) == IF k = 3 THEN Code("aaa", "A0") ELSE Word(job.cells[1], job.data)
BufferWrite(job, k) ==
  IF k = 3 THEN To(job.cells[1], "25")
  ELSE IF k = 4 THEN [Plain EXCEPT !.at = job.cells[1], !.num = Len(job.cells) - 1]
  ELSE IF k < Length(job) THEN Word(job.cells[k - 4], job.data)
  ELSE To(job.cells[1], "29")

WriteOf(job, k) ==
  IF k = 1 \/ (k = 4 /\ job.kind = "erase") THEN Code("aaa", "AA")
  ELSE IF k = 2 \/ (k = 5 /\ job.kind = "erase") THEN Code("554", "55")
  ELSE IF job.kind = "erase" THEN EraseWrite(job, k)
  ELSE IF job.kind = "program" THEN ProgramWrite(job, k)
  ELSE BufferWrite(job, k)

\* A program of a cell that is not erased is refused before the chip is asked.
Ask(job) ==
  /\ os.phase = "idle" /\ jobs < MaxJobs
  /\ job.kind # "erase" => \A k \in 1 .. Len(job.cells) : Seen(job.cells[k]) = Erased
  /\ os' = [Booted EXCEPT !.phase = "write", !.job = job]
  /\ found' = flash /\ whole' = TRUE /\ jobs' = jobs + 1
  /\ UNCHANGED <<flash, chip, rom, image, slot, session, torn, calls>>

NextWrite ==
  /\ os.phase = "write"
  /\ flashCmd(WriteOf(os.job, os.at))
  /\ os' = [os EXCEPT !.at = @ + 1,
              !.phase = IF os.at < Length(os.job) THEN "write"
                        ELSE IF os.job.kind = "erase" THEN "begun" ELSE "poll"]
  /\ UNCHANGED <<rom, image, slot, session, history>>

Polled == os.job.cells[Len(os.job.cells)]
Expects7 == os.job.kind = "erase" \/ 7 \in os.job.data
Done(seen) == 7 \in seen <=> Expects7

\* An erase must be seen to run: busy at first, then started.
CheckBegun ==
  /\ os.phase = "begun"
  /\ os' = [os EXCEPT !.phase = IF 7 \in Seen(Polled) THEN "reset" ELSE "started"]

CheckStarted ==
  /\ os.phase = "started"
  /\ os' = [os EXCEPT !.phase = IF 3 \in Seen(Polled) THEN "poll" ELSE "reset"]

Poll ==
  /\ os.phase = "poll"
  /\ os' = IF Done(Seen(Polled)) THEN [os EXCEPT !.phase = "idle"]
           ELSE IF os.polls < PollLimit THEN [os EXCEPT !.polls = @ + 1]
           ELSE [os EXCEPT !.phase = "reset"]

Read ==
  /\ CheckBegun \/ CheckStarted \/ Poll
  /\ ReadStatus(Polled)
  /\ UNCHANGED <<rom, image, slot, session, history>>

\* After a failure the routine resets the chip.
Reset ==
  /\ os.phase = "reset"
  /\ flashCmd(To(Boot, "F0"))
  /\ os' = [os EXCEPT !.phase = "idle", !.ok = FALSE]
  /\ UNCHANGED <<rom, image, slot, session, history>>

OS == (\E job \in Jobs : Ask(job)) \/ NextWrite \/ Read \/ Reset

---------------------------------------------------------------------------
(* Save-states *)

ChangedFromErased == {c \in FlashCells : \E p \in Pages : c \in p /\ \E d \in p : flash[d] # Erased}
\* flashDeltaBytes: the pages that differ from the image, whole.
Changed == {c \in FlashCells : \E p \in Pages : c \in p /\ \E d \in p : flash[d] # rom[d]}
Delta == [c \in Changed |-> flash[c]]

\* applyFlashDelta
Overlaid(f, delta) == [c \in FlashCells |-> IF c \in DOMAIN delta THEN delta[c] ELSE f[c]]

\* SnapshotBytes; storage and rom are history: what the array and the image were.
SaveState == [os |-> os, delta |-> Delta, storage |-> flash, rom |-> rom]

Called == calls < MaxCalls /\ calls' = calls + 1

SaveSlot ==
  /\ Called
  /\ slot' = SaveState
  /\ UNCHANGED <<flash, chip, rom, os, image, session, found, whole, torn, jobs>>

\* ResumeBytes on the machine that runs: the array is overlaid as it stands, the chip goes on.
LoadSlot ==
  /\ Called /\ Loads /\ slot # NoState
  /\ os' = slot.os
  /\ flash' = Overlaid(flash, slot.delta)
  /\ whole' = FALSE
  /\ torn' = (torn \/ fcmd # "idle")
  /\ UNCHANGED <<chip, rom, image, slot, session, found, jobs>>

\* An autosave, or the save of a quit.
SaveSession ==
  /\ Called
  /\ session' = SaveState
  /\ UNCHANGED <<flash, chip, rom, os, image, slot, found, whole, torn, jobs>>

\* NewEmulator
Build(img) == rom' = img /\ PowerOn /\ whole' = FALSE

\* The process ends, by a quit or a crash, and starts again: loadDump.
Launch ==
  /\ Called
  /\ Build(Dump)
  /\ flash' = IF session = NoState THEN Dump ELSE Overlaid(Dump, session.delta)
  /\ os' = IF session = NoState THEN Booted ELSE session.os
  /\ image' = NoState
  /\ UNCHANGED <<slot, session, found, torn, jobs>>

\* Restart reads the array of a machine that goes on running ...
TakeImage ==
  /\ Called /\ image = NoState
  /\ image' = [flash |-> flash]
  /\ UNCHANGED <<flash, chip, rom, os, slot, session, found, whole, torn, jobs>>

\* ... until start halts it, saves its session, and runs a machine built from the image.
Restart ==
  /\ image # NoState
  /\ session' = SaveState
  /\ Build(image.flash)
  /\ flash' = image.flash
  /\ os' = Booted
  /\ image' = NoState
  /\ UNCHANGED <<slot, found, torn, jobs, calls>>

ForgetChanges ==
  /\ Called
  /\ session' = NoState
  /\ Build(Dump)
  /\ flash' = Dump
  /\ os' = Booted
  /\ UNCHANGED <<image, slot, found, torn, jobs>>

Host == SaveSlot \/ LoadSlot \/ SaveSession \/ Launch \/ TakeImage \/ Restart \/ ForgetChanges

StorageNext == OS \/ Host
StorageSpec == StorageInit /\ [][StorageNext]_storageVars

---------------------------------------------------------------------------
(* Properties *)

States == {NoState} \cup
  [os : OsStates, delta : UNION {[d -> SUBSET Bits] : d \in SUBSET FlashCells},
   storage : [FlashCells -> SUBSET Bits], rom : [FlashCells -> SUBSET Bits]]

TypeOK ==
  /\ ChipTypeOK
  /\ rom \in [FlashCells -> SUBSET Bits]
  /\ os \in OsStates
  /\ image \in {NoState} \cup [flash : [FlashCells -> SUBSET Bits]]
  /\ slot \in States /\ session \in States
  /\ found \in [FlashCells -> SUBSET Bits] /\ whole \in BOOLEAN /\ torn \in BOOLEAN
  /\ jobs \in Nat /\ calls \in Nat

\* The OS image in the flash never changes, whatever moment of a command a save-state was
\* taken at, unless a slot was loaded while the chip was in the middle of a command.
FirmwareIntact == ~torn => \A c \in Firmware : flash[c] = Dump[c]

\* What a job leaves of the array it found.
Targets(job) == {job.cells[k] : k \in 1 .. Len(job.cells)}
Wanted(job) ==
  [c \in FlashCells |->
    IF job.kind = "erase" THEN IF c \in SectorOf(job.cells[1]) THEN Erased ELSE found[c]
    ELSE IF c \in Targets(job) THEN found[c] \cap job.data ELSE found[c]]

\* A flash routine that no resume interrupts succeeds, and has then done to the array what it
\* was asked and nothing else: flashCmd and the status reads agree with the OS's routines.
JobsAsAsked ==
  whole /\ os.phase = "idle" /\ ~torn => os.ok /\ flash = Wanted(os.job)

\* A launch brings the storage back as it was when the session was saved, page for page, if
\* the machine that saved it was built from the dump (flashDeltaBytes, applyFlashDelta).
LaunchLands ==
  [][Launch /\ session # NoState /\ session.rom = Dump => flash' = session.storage]_storageVars

=============================================================================
