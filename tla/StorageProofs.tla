--------------------------- MODULE StorageProofs ---------------------------
(***************************************************************************)
(* Proofs about Storage, for any flash geometry, jobs, dump and calls of   *)
(* the host: the OS image in the flash stays what the dump holds           *)
(* (FirmwareStays), at whatever moment of a command a save-state is taken; *)
(* a flash routine that no resume interrupts does what it was asked        *)
(* (JobsDoAsAsked); a launch lands where the session was saved             *)
(* (LaunchesLand).                                                         *)
(***************************************************************************)
EXTENDS Storage, TLAPS

(* What the k-th write of a job says to the chip. *)

LEMMA UnlockWrites ==
  ASSUME NEW job, NEW k,
         k = 1 \/ (k = 4 /\ job.kind = "erase")
  PROVE  WriteOf(job, k).hook = "aaa" /\ WriteOf(job, k).low = "AA"
  BY DEF WriteOf, Code, Plain

LEMMA SecondWrites ==
  ASSUME NEW job, NEW k,
         k = 2 \/ (k = 5 /\ job.kind = "erase")
  PROVE  WriteOf(job, k).hook = "554" /\ WriteOf(job, k).low = "55"
  BY DEF WriteOf, Code, Plain

LEMMA SetupWrites ==
  ASSUME NEW job
  PROVE  /\ job.kind = "erase" => WriteOf(job, 3).hook = "aaa" /\ WriteOf(job, 3).low = "80"
         /\ job.kind = "program" => WriteOf(job, 3).hook = "aaa" /\ WriteOf(job, 3).low = "A0"
         /\ job.kind = "buffer" => WriteOf(job, 3).hook = "other" /\ WriteOf(job, 3).low = "25"
  BY DEF WriteOf, EraseWrite, ProgramWrite, BufferWrite, Code, To, Plain

LEMMA JobShape ==
  ASSUME NEW job \in Jobs
  PROVE  /\ job.kind \in {"erase", "program", "buffer"}
         /\ Len(job.cells) \in Nat \ {0}
         /\ \A k \in 1 .. Len(job.cells) : job.cells[k] \in FlashCells \ Firmware
         /\ job.kind = "erase" => Length(job) = 6
         /\ job.kind = "program" => Length(job) = 4
         /\ job.kind = "buffer" => Length(job) = 5 + Len(job.cells)
  BY StorageAssumption DEF StorageAssumption, Length

LEMMA EraseWrites ==
  ASSUME NEW job \in Jobs, job.kind = "erase"
  PROVE  WriteOf(job, 6).at \in FlashCells \ Firmware /\ WriteOf(job, 6).low = "30"
  BY JobShape DEF WriteOf, EraseWrite, To, Plain

LEMMA ProgramWrites ==
  ASSUME NEW job \in Jobs, job.kind = "program"
  PROVE  /\ WriteOf(job, 4).at \in FlashCells \ Firmware
         /\ WriteOf(job, 4).hook = "other" /\ WriteOf(job, 4).low = "other"
  BY JobShape DEF WriteOf, ProgramWrite, Word, Plain

LEMMA BufferWrites ==
  ASSUME NEW job \in Jobs, job.kind = "buffer", NEW k \in 4 .. Length(job)
  PROVE  /\ WriteOf(job, k).at \in FlashCells \ Firmware
         /\ WriteOf(job, k).hook = "other" /\ WriteOf(job, k).low \in {"other", "29"}
         /\ k = 4 => WriteOf(job, k).num = Len(job.cells) - 1
  <1>1. CASE k = 4
    BY <1>1, JobShape DEF WriteOf, BufferWrite, Plain
  <1>2. CASE k > 4 /\ k < Length(job)
    <2>1. k - 4 \in 1 .. Len(job.cells)
      BY <1>2, JobShape
    <2>2. WriteOf(job, k) = Word(job.cells[k - 4], job.data)
      BY <1>2 DEF WriteOf, BufferWrite
    <2> QED BY <2>1, <2>2, <1>2, JobShape DEF Word, Plain
  <1>3. CASE k > 4 /\ k = Length(job)
    <2>1. WriteOf(job, k) = To(job.cells[1], "29")
      BY <1>3, JobShape DEF WriteOf, BufferWrite
    <2> QED BY <2>1, <1>3, JobShape DEF To, Plain
  <1> QED BY <1>1, <1>2, <1>3, JobShape

LEMMA WriteType ==
  ASSUME NEW job \in Jobs, NEW k \in 1 .. Length(job)
  PROVE  WriteOf(job, k) \in Writes
  <1>1. Boot \in FlashCells /\ job.data \in SUBSET Bits
    BY StorageAssumption DEF StorageAssumption
  <1>2. Plain \in Writes
    BY <1>1 DEF Plain, Writes, Hooks, Lows
  <1>3. \A at \in FlashCells, low \in Lows : To(at, low) \in Writes
    BY <1>2 DEF To, Writes
  <1>4. \A hook \in Hooks, low \in Lows : Code(hook, low) \in Writes
    BY <1>2 DEF Code, Writes
  <1>5. \A at \in FlashCells : Word(at, job.data) \in Writes
    BY <1>1, <1>2 DEF Word, Writes
  <1>6. job.cells[1] \in FlashCells /\ Len(job.cells) - 1 \in Nat
    BY JobShape
  <1>7. [Plain EXCEPT !.at = job.cells[1], !.num = Len(job.cells) - 1] \in Writes
    BY <1>2, <1>6 DEF Writes
  <1>8. ASSUME job.kind = "buffer", k > 4, k < Length(job)
        PROVE  Word(job.cells[k - 4], job.data) \in Writes
    <2>1. k - 4 \in 1 .. Len(job.cells)
      BY <1>8, JobShape
    <2> QED BY <2>1, <1>5, JobShape
  <1>9. {"AA", "55", "A0", "80", "25", "29", "30"} \subseteq Lows /\ {"aaa", "554"} \subseteq Hooks
    BY DEF Lows, Hooks
  <1>10. EraseWrite(job, k) \in Writes /\ ProgramWrite(job, k) \in Writes
    BY <1>3, <1>4, <1>5, <1>6, <1>9 DEF EraseWrite, ProgramWrite
  <1>11. ASSUME job.kind = "buffer", k > 2 PROVE BufferWrite(job, k) \in Writes
    BY <1>3, <1>6, <1>7, <1>8, <1>9, <1>11, JobShape DEF BufferWrite
  <1> QED BY <1>4, <1>9, <1>10, <1>11, JobShape DEF WriteOf

\* Which write of which job a command byte can be.
LEMMA LowOf ==
  ASSUME NEW job \in Jobs, NEW k \in 1 .. Length(job)
  PROVE  LET low == WriteOf(job, k).low IN
         /\ low = "AA" => k = 1 \/ (k = 4 /\ job.kind = "erase")
         /\ low = "55" => k = 2 \/ (k = 5 /\ job.kind = "erase")
         /\ low = "80" => k = 3 /\ job.kind = "erase"
         /\ low = "A0" => k = 3 /\ job.kind = "program"
         /\ low = "25" => k = 3 /\ job.kind = "buffer"
  <1>1. CASE k = 1 \/ (k = 4 /\ job.kind = "erase")
    BY <1>1, UnlockWrites
  <1>2. CASE k = 2 \/ (k = 5 /\ job.kind = "erase")
    BY <1>2, SecondWrites
  <1>3. CASE k = 3
    BY <1>3, SetupWrites, JobShape
  <1>4. CASE k = 6 /\ job.kind = "erase"
    BY <1>4, EraseWrites
  <1>5. CASE k = 4 /\ job.kind = "program"
    BY <1>5, ProgramWrites
  <1>6. CASE k > 3 /\ job.kind = "buffer"
    <2>1. k \in 4 .. Length(job)
      BY <1>6, JobShape
    <2> QED BY <2>1, <1>6, BufferWrites
  <1> QED BY <1>1, <1>2, <1>3, <1>4, <1>5, <1>6, JobShape

---------------------------------------------------------------------------
(* The chip stands where the routine that is writing has left it, or it is *)
(* idle: after a launch it waits for an unlock while the routine goes on.  *)

\* The states of the routine that a save-state may hold.
Able(o) ==
  /\ o \in OsStates
  /\ o.phase # "idle" => o.job \in Jobs
  /\ o.phase = "write" => o.at \in 1 .. Length(o.job)

InStep ==
  /\ fcmd \in Commands
  /\ fcmd # "idle" => os.phase = "write"
  /\ fcmd = "unlock1" => os.at = 2 \/ (os.at = 5 /\ os.job.kind = "erase")
  /\ fcmd = "unlock2" => os.at = 3 \/ (os.at = 6 /\ os.job.kind = "erase")
  /\ fcmd = "program" => os.at = 4 /\ os.job.kind = "program"
  /\ fcmd = "erase1" => os.at = 4 /\ os.job.kind = "erase"
  /\ fcmd = "erase2" => os.at = 5 /\ os.job.kind = "erase"
  /\ fcmd = "erase3" => os.at = 6 /\ os.job.kind = "erase"
  /\ fcmd = "bufcount" => os.at = 4 /\ os.job.kind = "buffer" /\ bufW = <<>>
  /\ fcmd = "bufdata" =>
       /\ os.at > 4 /\ os.job.kind = "buffer"
       /\ bufRem = Length(os.job) - os.at
       /\ \A k \in 1 .. Len(bufW) : bufW[k].at \notin Firmware

\* The OS image as the dump has it.
Firm(f) == \A c \in Firmware : f[c] = Dump[c]
FirmDelta(delta) == \A c \in Firmware \cap DOMAIN delta : delta[c] = Dump[c]
Sound(s) == s # NoState => Able(s.os) /\ FirmDelta(s.delta)

Safe ==
  /\ Able(os) /\ InStep
  /\ bufW \in Seq(Writes)
  /\ Firm(flash)
  /\ Sound(slot) /\ Sound(session)
  /\ image # NoState => Firm(image.flash)

SafeInv == ~torn => Safe

---------------------------------------------------------------------------
(* A write of the routine: what each step of the chip leaves. *)

\* The routine goes on to its next write, or has made its last.
Written ==
  /\ os'.job = os.job
  /\ os'.at = os.at + 1
  /\ os.at < Length(os.job) => os'.phase = "write"

LEMMA AdvanceInStep ==
  ASSUME Able(os), InStep, os.phase = "write", Written, Advance(WriteOf(os.job, os.at))
  PROVE  InStep'
  <1> DEFINE w == WriteOf(os.job, os.at)
  <1>1. os.job \in Jobs /\ os.at \in 1 .. Length(os.job)
    BY DEF Able
  <1>2. /\ Length(os.job) \in Nat /\ Length(os.job) >= 4
        /\ os.job.kind = "erase" => Length(os.job) = 6
    BY <1>1, JobShape
  <1>3. PICK e \in Expected : e[1] = fcmd /\ e[3] = w.low /\ fcmd' = e[4]
    BY DEF Advance
  <1>4. CASE fcmd = "idle" /\ w.low = "AA" /\ fcmd' = "unlock1"
    BY <1>1, <1>2, <1>4, LowOf DEF InStep, Written, Commands
  <1>5. CASE fcmd = "unlock1" /\ fcmd' = "unlock2"
    BY <1>1, <1>2, <1>5 DEF InStep, Written, Commands
  <1>6. CASE fcmd = "unlock2" /\ w.low = "A0" /\ fcmd' = "program"
    BY <1>1, <1>2, <1>6, LowOf DEF InStep, Written, Commands
  <1>7. CASE fcmd = "unlock2" /\ w.low = "80" /\ fcmd' = "erase1"
    BY <1>1, <1>2, <1>7, LowOf DEF InStep, Written, Commands
  <1>8. CASE fcmd = "erase1" /\ fcmd' = "erase2"
    BY <1>1, <1>2, <1>8 DEF InStep, Written, Commands
  <1>9. CASE fcmd = "erase2" /\ fcmd' = "erase3"
    BY <1>1, <1>2, <1>9 DEF InStep, Written, Commands
  <1> QED BY <1>3, <1>4, <1>5, <1>6, <1>7, <1>8, <1>9 DEF Expected

LEMMA BufferInStep ==
  ASSUME Able(os), InStep, os.phase = "write", Written, bufW \in Seq(Writes),
         NEW w, w = WriteOf(os.job, os.at), OpenBuffer(w) \/ Count(w) \/ Collect(w)
  PROVE  InStep' /\ bufW' \in Seq(Writes)
  <1>1. os.job \in Jobs /\ os.at \in 1 .. Length(os.job)
    BY DEF Able
  <1>2. Length(os.job) \in Nat /\ Len(os.job.cells) \in Nat \ {0}
        /\ (os.job.kind = "buffer" => Length(os.job) = 5 + Len(os.job.cells))
    BY <1>1, JobShape
  <1>3. CASE OpenBuffer(w)
    <2>1. os.at = 3 /\ os.job.kind = "buffer"
      BY <1>1, <1>3, LowOf DEF OpenBuffer, OpensBuffer
    <2> QED BY <1>1, <1>2, <1>3, <2>1 DEF OpenBuffer, InStep, Written, Commands
  <1>4. CASE Count(w)
    <2>1. os.at = 4 /\ os.job.kind = "buffer" /\ w.num = Len(os.job.cells) - 1
      BY <1>1, <1>2, <1>4, BufferWrites DEF Count, InStep
    <2> QED BY <1>1, <1>2, <1>4, <2>1 DEF Count, InStep, Written, Commands
  <1>5. CASE Collect(w)
    <2>1. os.at > 4 /\ os.job.kind = "buffer" /\ bufRem = Length(os.job) - os.at
      BY <1>5 DEF Collect, InStep
    <2>2. os.at \in 4 .. Length(os.job)
      BY <1>1, <1>2, <2>1
    <2>3. w.at \notin Firmware /\ w \in Writes
      BY <1>1, <2>1, <2>2, BufferWrites, WriteType
    <2>4. bufW' = Append(bufW, w) /\ bufW' \in Seq(Writes)
      BY <1>5, <2>3 DEF Collect
    <2>5. \A k \in 1 .. Len(bufW') : bufW'[k].at \notin Firmware
      <3>1. \A k \in 1 .. Len(bufW) : bufW[k].at \notin Firmware
        BY <1>5 DEF Collect, InStep
      <3> QED BY <2>3, <2>4, <3>1
    <2>6. os'.at = os.at + 1 /\ os'.job = os.job /\ fcmd' = "bufdata"
          /\ bufRem' = Length(os.job) - (os.at + 1) /\ os'.phase = "write"
      BY <1>1, <1>2, <1>5, <2>1 DEF Collect, Written
    <2> QED BY <1>1, <2>1, <2>4, <2>5, <2>6 DEF InStep, Commands
  <1> QED BY <1>3, <1>4, <1>5

\* Words outside the OS image leave it alone, and so does the erase of another sector.
LEMMA ProgramSpares ==
  ASSUME Firm(flash), NEW words, \A k \in 1 .. Len(words) : words[k].at \notin Firmware,
         flash' = ProgrammedAll(words)
  PROVE  Firm(flash')
  <1>1. SUFFICES ASSUME NEW c \in Firmware PROVE flash'[c] = flash[c]
    BY DEF Firm
  <1>2. c \in FlashCells
    BY StorageAssumption DEF StorageAssumption
  <1>3. \A k \in 1 .. Len(words) : words[k].at # c
    OBVIOUS
  <1>4. flash'[c] = {b \in flash[c] : \A k \in 1 .. Len(words) : words[k].at = c => b \in words[k].data}
    BY <1>2 DEF ProgrammedAll
  <1>5. flash'[c] \subseteq flash[c]
    BY <1>4
  <1>6. flash[c] \subseteq flash'[c]
    BY <1>3, <1>4
  <1> QED BY <1>5, <1>6

LEMMA EraseSpares ==
  ASSUME Firm(flash), NEW at \in FlashCells \ Firmware, flash' = Cleared(SectorOf(at))
  PROVE  Firm(flash')
  <1>1. SUFFICES ASSUME NEW c \in Firmware PROVE flash'[c] = flash[c]
    BY DEF Firm
  <1>2. c \in FlashCells /\ c \notin SectorOf(at)
    BY StorageAssumption DEF StorageAssumption, SectorOf
  <1> QED BY <1>2 DEF Cleared

LEMMA WriteSafe == ASSUME Safe, NextWrite PROVE Safe'
  <1> DEFINE w == WriteOf(os.job, os.at)
  <1>1. /\ os.job \in Jobs /\ os.at \in 1 .. Length(os.job) /\ os.phase = "write"
        /\ Length(os.job) \in Nat
    BY JobShape DEF Safe, Able, NextWrite
  <1>2. Written /\ Able(os')
    <2>1. os \in OsStates
      BY DEF Safe, Able
    <2>2. os' \in OsStates /\ os'.job = os.job /\ os'.at = os.at + 1
      <3>1. PICK phase \in Phases : os' = [os EXCEPT !.at = @ + 1, !.phase = phase]
        BY DEF NextWrite, Phases
      <3>2. os' = [phase |-> phase, job |-> os.job, at |-> os.at + 1, polls |-> os.polls, ok |-> os.ok]
        BY <2>1, <3>1 DEF OsStates
      <3>3. os.at + 1 \in Nat \ {0}
        BY <1>1
      <3> QED BY <2>1, <3>2, <3>3 DEF OsStates
    <2>3. os'.phase = IF os.at < Length(os.job) THEN "write"
                      ELSE IF os.job.kind = "erase" THEN "begun" ELSE "poll"
      BY <2>1 DEF NextWrite, OsStates
    <2> QED BY <1>1, <2>2, <2>3 DEF Able, Written
  <1>3. UNCHANGED <<slot, session, image>>
    BY DEF NextWrite
  <1>4. ASSUME InStep', bufW' \in Seq(Writes), Firm(flash') PROVE Safe'
    BY <1>2, <1>3, <1>4 DEF Safe, Sound, Able, Firm, FirmDelta
  <1>5. CASE Advance(w)
    BY <1>1, <1>2, <1>4, <1>5, AdvanceInStep DEF Safe, Advance
  <1>6. CASE OpenBuffer(w) \/ Count(w) \/ Collect(w)
    <2>1. InStep' /\ bufW' \in Seq(Writes)
      BY <1>1, <1>2, <1>6, BufferInStep DEF Safe
    <2>2. flash' = flash
      BY <1>6 DEF OpenBuffer, Count, Collect
    <2> QED BY <1>4, <2>1, <2>2 DEF Safe, Firm
  <1>7. ASSUME fcmd' = "idle", UNCHANGED bufW, Firm(flash') PROVE Safe'
    <2>1. InStep'
      BY <1>7 DEF InStep, Commands
    <2> QED BY <1>4, <1>7, <2>1 DEF Safe
  <1>8. CASE Relapse(w)
    BY <1>7, <1>8 DEF Relapse, Safe, Firm
  <1>9. CASE Program(w)
    <2>1. w.at \notin Firmware
      BY <1>1, <1>9, ProgramWrites DEF Safe, InStep, Program
    <2>2. Firm(flash')
      BY <1>9, <2>1, ProgramSpares DEF Safe, Program
    <2> QED BY <1>7, <1>9, <2>2 DEF Program
  <1>10. CASE Erase(w)
    <2>1. w.at \in FlashCells \ Firmware /\ w.low = "30"
      BY <1>1, <1>10, EraseWrites DEF Safe, InStep, Erase
    <2>2. flash' = Cleared(SectorOf(w.at))
      BY <1>10, <2>1 DEF Erase, Hit
    <2>3. Firm(flash')
      BY <2>1, <2>2, EraseSpares DEF Safe
    <2> QED BY <1>7, <1>10, <2>3 DEF Erase
  <1>11. CASE Commit(w)
    <2>1. Firm(flash')
      BY <1>11, ProgramSpares DEF Safe, InStep, Commit
    <2> QED BY <1>7, <1>11, <2>1 DEF Commit
  <1> QED BY <1>5, <1>6, <1>8, <1>9, <1>10, <1>11 DEF NextWrite, flashCmd

---------------------------------------------------------------------------
(* The other steps. *)

LEMMA DumpFirm == Firm(Dump)
  BY DEF Firm

LEMMA SnapshotSound == ASSUME Safe PROVE Sound(SaveState)
  <1>1. \A c \in Changed : Delta[c] = flash[c]
    BY DEF Delta
  <1>2. DOMAIN Delta = Changed
    BY DEF Delta
  <1>3. FirmDelta(Delta)
    BY <1>1, <1>2 DEF Safe, Firm, FirmDelta
  <1> QED BY <1>3 DEF Safe, Sound, SaveState

LEMMA OverlaidFirm ==
  ASSUME NEW f, Firm(f), NEW delta, FirmDelta(delta)
  PROVE  Firm(Overlaid(f, delta))
  BY StorageAssumption DEF StorageAssumption, Firm, FirmDelta, Overlaid

LEMMA BuiltInStep == ASSUME PowerOn PROVE InStep' /\ bufW' \in Seq(Writes)
  BY DEF PowerOn, InStep, Commands

LEMMA BootedAble == Able(Booted)
  BY DEF Able, Booted, OsStates, Phases

LEMMA AskSafe == ASSUME Safe, NEW job \in Jobs, Ask(job) PROVE Safe'
  <1>1. os' = [Booted EXCEPT !.phase = "write", !.job = job]
    BY DEF Ask
  <1>2. os'.phase = "write" /\ os'.job = job /\ os'.at = 1
    BY <1>1 DEF Booted
  <1>3. Able(os')
    <2>1. os' \in OsStates
      <3>1. os' = [phase |-> "write", job |-> job, at |-> 1, polls |-> 0, ok |-> TRUE]
        BY <1>1 DEF Booted
      <3> QED BY <3>1 DEF OsStates, Phases
    <2>2. Length(job) \in Nat /\ 1 <= Length(job)
      BY JobShape
    <2> QED BY <1>2, <2>1, <2>2 DEF Able
  <1>4. fcmd' = "idle" /\ UNCHANGED <<flash, bufW, slot, session, image>>
    BY DEF Ask, Safe, InStep, chip
  <1>5. InStep'
    BY <1>4 DEF InStep, Commands
  <1> QED BY <1>3, <1>4, <1>5 DEF Safe, Sound, Able, Firm, FirmDelta

\* A routine that is not writing: the chip is idle and stays so.
LEMMA IdleSafe ==
  ASSUME Safe, os' \in OsStates, os'.phase # "write", os'.phase # "idle" => os'.job \in Jobs,
         fcmd' = "idle", UNCHANGED <<flash, bufW, slot, session, image>>
  PROVE  Safe'
  <1>1. Able(os')
    BY DEF Safe, Able
  <1>2. InStep'
    BY DEF InStep, Commands
  <1> QED BY <1>1, <1>2 DEF Safe, Sound, Able, Firm, FirmDelta

LEMMA ReadSafe == ASSUME Safe, Read PROVE Safe'
  <1>1. os.phase \in {"begun", "started", "poll"} /\ os \in OsStates /\ os.job \in Jobs
    BY DEF Read, CheckBegun, CheckStarted, Poll, Safe, Able
  <1>2. fcmd' = "idle" /\ UNCHANGED <<flash, bufW, slot, session, image>>
    BY <1>1 DEF Read, ReadStatus, Safe, InStep
  <1>3. os' \in OsStates /\ os'.phase # "write" /\ os'.job = os.job
    <2>1. CASE CheckBegun
      BY <1>1, <2>1 DEF CheckBegun, OsStates, Phases
    <2>2. CASE CheckStarted
      BY <1>1, <2>2 DEF CheckStarted, OsStates, Phases
    <2>3. CASE Poll
      BY <1>1, <2>3 DEF Poll, OsStates, Phases
    <2> QED BY <2>1, <2>2, <2>3 DEF Read
  <1> QED BY <1>1, <1>2, <1>3, IdleSafe

LEMMA ResetSafe == ASSUME Safe, Reset PROVE Safe'
  <1>1. os.phase = "reset" /\ os \in OsStates /\ fcmd = "idle"
    BY DEF Reset, Safe, Able, InStep
  <1>2. To(Boot, "F0").low = "F0"
    BY DEF To, Plain
  <1>3. Relapse(To(Boot, "F0"))
    BY <1>1, <1>2 DEF Reset, flashCmd, Advance, OpenBuffer, OpensBuffer, Program, Erase, Count,
      Collect, Commit, Expected
  <1>4. os' \in OsStates /\ os'.phase = "idle"
    BY <1>1 DEF Reset, OsStates, Phases
  <1> QED BY <1>3, <1>4, IdleSafe DEF Relapse, Reset

LEMMA HostSafe == ASSUME SafeInv, Host PROVE SafeInv'
  <1>1. SUFFICES ASSUME ~torn' PROVE Safe'
    BY DEF SafeInv
  <1>2. ~torn
    BY <1>1 DEF Host, SaveSlot, LoadSlot, SaveSession, Launch, TakeImage, Restart, ForgetChanges
  <1>3. Safe
    BY <1>2 DEF SafeInv
  <1>4. Sound(NoState) /\ Sound(SaveState)
    BY <1>3, SnapshotSound DEF Sound
  <1>5. ASSUME UNCHANGED <<flash, chip, os>>, Sound(slot'), Sound(session'),
               image' = NoState \/ image' = image \/ image' = [flash |-> flash]
        PROVE  Safe'
    BY <1>3, <1>5 DEF Safe, InStep, Sound, Able, Firm, FirmDelta, chip
  <1>6. ASSUME Able(os'), PowerOn, Firm(flash'), Sound(slot'), Sound(session'),
               image' = NoState \/ image' = image
        PROVE  Safe'
    BY <1>3, <1>6, BuiltInStep DEF Safe, Sound, Able, Firm, FirmDelta
  <1>7. CASE SaveSlot
    BY <1>3, <1>4, <1>5, <1>7 DEF SaveSlot, Safe
  <1>8. CASE LoadSlot
    <2>1. fcmd = "idle" /\ UNCHANGED <<fcmd, bufW, slot, session, image>>
      BY <1>1, <1>3, <1>8 DEF LoadSlot, chip, Safe, InStep, Commands
    <2>2. Able(os') /\ Firm(flash')
      BY <1>3, <1>8, OverlaidFirm DEF LoadSlot, Safe, Sound
    <2>3. InStep'
      BY <2>1 DEF InStep, Commands
    <2> QED BY <1>3, <2>1, <2>2, <2>3 DEF Safe, Sound, Able, Firm, FirmDelta
  <1>9. CASE SaveSession
    BY <1>3, <1>4, <1>5, <1>9 DEF SaveSession, Safe
  <1>10. CASE Launch
    <2>1. Able(os')
      BY <1>3, <1>10, BootedAble DEF Launch, Safe, Sound
    <2>2. Firm(flash')
      BY <1>3, <1>10, DumpFirm, OverlaidFirm DEF Launch, Safe, Sound
    <2> QED BY <1>3, <1>6, <1>10, <2>1, <2>2 DEF Launch, Build, Safe
  <1>11. CASE TakeImage
    BY <1>3, <1>5, <1>11 DEF TakeImage, Safe
  <1>12. CASE Restart
    <2>1. Able(os') /\ Firm(flash')
      BY <1>3, <1>12, BootedAble DEF Restart, Safe
    <2> QED BY <1>3, <1>4, <1>6, <1>12, <2>1 DEF Restart, Build, Safe
  <1>13. CASE ForgetChanges
    <2>1. Able(os') /\ Firm(flash')
      BY <1>13, BootedAble, DumpFirm DEF ForgetChanges
    <2> QED BY <1>3, <1>4, <1>6, <1>13, <2>1 DEF ForgetChanges, Build, Safe
  <1> QED BY <1>7, <1>8, <1>9, <1>10, <1>11, <1>12, <1>13 DEF Host

LEMMA SafeInit == StorageInit => SafeInv
  <1>1. SUFFICES ASSUME StorageInit PROVE Safe
    BY DEF SafeInv
  <1>2. Able(os) /\ Firm(flash)
    BY <1>1, BootedAble, DumpFirm DEF StorageInit
  <1>3. InStep /\ bufW \in Seq(Writes)
    BY <1>1 DEF StorageInit, PoweredOn, InStep, Commands
  <1> QED BY <1>1, <1>2, <1>3 DEF StorageInit, Safe, Sound

LEMMA SafeStep == ASSUME SafeInv, [StorageNext]_storageVars PROVE SafeInv'
  <1>1. CASE OS
    <2>1. torn' = torn
      BY <1>1 DEF OS, Ask, NextWrite, Read, Reset, history
    <2> QED BY <1>1, <2>1, AskSafe, WriteSafe, ReadSafe, ResetSafe DEF OS, SafeInv
  <1>2. CASE Host
    BY <1>2, HostSafe
  <1>3. CASE UNCHANGED storageVars
    BY <1>3 DEF storageVars, chip, history, SafeInv, Safe, InStep, Sound, Able, Firm, FirmDelta
  <1> QED BY <1>1, <1>2, <1>3 DEF StorageNext

\* FirmwareIntact: while no slot is loaded in the middle of a command, no history of flash
\* jobs, save-states, restarts and launches changes the OS image in the flash.
THEOREM FirmwareStays == StorageSpec => []FirmwareIntact
  <1>1. SafeInv => FirmwareIntact
    BY DEF SafeInv, Safe, Firm, FirmwareIntact
  <1> QED BY <1>1, SafeInit, SafeStep, PTL DEF StorageSpec

---------------------------------------------------------------------------
(* What a routine does that no resume interrupts. *)

\* The sector erases that the OS waits for: seen to begin, and over before it gives up.
Patient ==
  /\ StatusReads \in 1 .. (PollLimit + 2)
  /\ \A j \in Jobs : \E s \in Sectors : j.cells[1] \in s

\* The chip has understood every write so far.
Following ==
  LET k == os.at IN
  /\ flash = found
  /\ k = 1 => fcmd = "idle"
  /\ k = 2 => fcmd = "unlock1"
  /\ k = 3 => fcmd = "unlock2"
  /\ os.job.kind = "program" /\ k = 4 => fcmd = "program"
  /\ os.job.kind = "erase" => /\ k = 4 => fcmd = "erase1"
                              /\ k = 5 => fcmd = "erase2"
                              /\ k = 6 => fcmd = "erase3"
  /\ os.job.kind = "buffer" => /\ k = 4 => fcmd = "bufcount"
                               /\ k > 4 => fcmd = "bufdata" /\ Len(bufW) = k - 5
  /\ os.job.kind = "buffer" /\ k > 4 =>
       \A i \in 1 .. Len(bufW) : bufW[i] = Word(os.job.cells[i], os.job.data)

\* The polled cell of a program was erased, and its sector is not being erased.
Ready == os.job.kind # "erase" => found[Polled] = Erased /\ ~Erasing(Polled)

\* The erase goes on for as many reads as the routine has patience left.
Waiting ==
  os.job.kind = "erase" =>
    /\ eraseSect = SectorOf(os.job.cells[1]) /\ eraseBusy \in Nat
    /\ os.phase = "begun" => eraseBusy = StatusReads
    /\ os.phase = "started" => eraseBusy = StatusReads - 1
    /\ os.phase = "poll" => eraseBusy + os.polls <= PollLimit

OnCourse ==
  /\ os.job \in Jobs /\ os.ok /\ os.phase \in Phases \ {"reset"}
  /\ os.phase = "write" => Following /\ os.polls = 0
  /\ os.phase \in {"begun", "started"} => os.job.kind = "erase" /\ os.polls = 0
  /\ os.phase # "idle" => Ready
  /\ os.phase # "write" => flash = Wanted(os.job)
  /\ os.phase \in {"begun", "started", "poll"} => Waiting

JobInv == ~torn /\ whole => OnCourse

LEMMA AskOnCourse == ASSUME SafeInv, NEW job \in Jobs, Ask(job) PROVE JobInv'
  <1> SUFFICES ASSUME ~torn PROVE OnCourse'
    BY DEF JobInv, Ask
  <1>1. os' = [phase |-> "write", job |-> job, at |-> 1, polls |-> 0, ok |-> TRUE]
    BY DEF Ask, Booted
  <1>2. fcmd' = "idle" /\ flash' = flash /\ found' = flash /\ UNCHANGED <<eraseBusy, eraseSect>>
    BY DEF Ask, SafeInv, Safe, InStep, chip, Commands
  <1>3. Following'
    BY <1>1, <1>2 DEF Following
  <1>4. Ready'
    <2> SUFFICES ASSUME job.kind # "erase"
                 PROVE  found'[Polled'] = Erased /\ ~(eraseBusy' > 0 /\ Polled' \in eraseSect')
      BY <1>1 DEF Ready, Erasing
    <2>1. Polled' = job.cells[Len(job.cells)] /\ Len(job.cells) \in 1 .. Len(job.cells)
      BY <1>1, JobShape DEF Polled
    <2>2. Seen(job.cells[Len(job.cells)]) = Erased
      BY <2>1 DEF Ask
    <2>3. Erased # {3}
      BY FlashAssumption DEF FlashAssumption, Erased
    <2> QED BY <1>2, <2>1, <2>2, <2>3 DEF Seen, Erasing
  <1> QED BY <1>1, <1>3, <1>4 DEF OnCourse, Phases

\* Which action of the chip a write is, when it has understood the ones before.
LEMMA FollowingWrite ==
  ASSUME Safe, Following, NextWrite, os.job \in Jobs,
         NEW w, w = WriteOf(os.job, os.at)
  PROVE  /\ os.at = 1 => Advance(w) /\ fcmd' = "unlock1"
         /\ os.at = 2 => Advance(w) /\ fcmd' = "unlock2"
         /\ os.at = 3 /\ os.job.kind = "erase" => Advance(w) /\ fcmd' = "erase1"
         /\ os.at = 4 /\ os.job.kind = "erase" => Advance(w) /\ fcmd' = "erase2"
         /\ os.at = 5 /\ os.job.kind = "erase" => Advance(w) /\ fcmd' = "erase3"
         /\ os.at = 6 /\ os.job.kind = "erase" => Erase(w)
         /\ os.at = 3 /\ os.job.kind = "program" => Advance(w) /\ fcmd' = "program"
         /\ os.at = 4 /\ os.job.kind = "program" => Program(w)
         /\ os.at = 3 /\ os.job.kind = "buffer" => OpenBuffer(w)
         /\ os.at = 4 /\ os.job.kind = "buffer" => Count(w)
         /\ os.at \in 5 .. (Length(os.job) - 1) /\ os.job.kind = "buffer" => Collect(w)
         /\ os.at > 4 /\ os.at = Length(os.job) /\ os.job.kind = "buffer" => Commit(w)
  <1>1. flashCmd(w) /\ os.phase = "write" /\ os.at \in 1 .. Length(os.job)
    BY DEF NextWrite, Safe, Able
  <1>2. CASE os.at = 1
    <2>1. w.hook = "aaa" /\ w.low = "AA" /\ fcmd = "idle"
      BY <1>2, UnlockWrites DEF Following
    <2> QED BY <1>1, <1>2, <2>1 DEF flashCmd, Advance, OpenBuffer, OpensBuffer, Relapse, GoesOn, Program,
          Erase, Count, Collect, Commit, Expected
  <1>3. CASE os.at = 2
    <2>1. w.hook = "554" /\ w.low = "55" /\ fcmd = "unlock1"
      BY <1>3, SecondWrites DEF Following
    <2> QED BY <1>1, <1>3, <2>1 DEF flashCmd, Advance, OpenBuffer, OpensBuffer, Relapse, GoesOn, Program,
          Erase, Count, Collect, Commit, Expected
  <1>4. CASE os.at = 3
    <2>1. fcmd = "unlock2"
      BY <1>4 DEF Following
    <2>2. CASE os.job.kind = "erase"
      <3>1. w.hook = "aaa" /\ w.low = "80"
        BY <1>4, <2>2, SetupWrites
      <3> QED BY <1>1, <1>4, <2>1, <2>2, <3>1 DEF flashCmd, Advance, OpenBuffer, OpensBuffer, Relapse, GoesOn,
            Program, Erase, Count, Collect, Commit, Expected
    <2>3. CASE os.job.kind = "program"
      <3>1. w.hook = "aaa" /\ w.low = "A0"
        BY <1>4, <2>3, SetupWrites
      <3> QED BY <1>1, <1>4, <2>1, <2>3, <3>1 DEF flashCmd, Advance, OpenBuffer, OpensBuffer, Relapse, GoesOn,
            Program, Erase, Count, Collect, Commit, Expected
    <2>4. CASE os.job.kind = "buffer"
      <3>1. w.hook = "other" /\ w.low = "25"
        BY <1>4, <2>4, SetupWrites
      <3> QED BY <1>1, <1>4, <2>1, <2>4, <3>1 DEF flashCmd, Advance, OpenBuffer, OpensBuffer, Relapse, GoesOn,
            Program, Erase, Count, Collect, Commit, Expected
    <2> QED BY <1>4, <2>2, <2>3, <2>4, JobShape
  <1>5. CASE os.at \in {4, 5, 6} /\ os.job.kind = "erase"
    <2>1. CASE os.at = 4
      <3>1. w.hook = "aaa" /\ w.low = "AA" /\ fcmd = "erase1"
        BY <1>5, <2>1, UnlockWrites DEF Following
      <3> QED BY <1>1, <1>5, <2>1, <3>1 DEF flashCmd, Advance, OpenBuffer, OpensBuffer, Relapse, GoesOn, Program,
            Erase, Count, Collect, Commit, Expected
    <2>2. CASE os.at = 5
      <3>1. w.hook = "554" /\ w.low = "55" /\ fcmd = "erase2"
        BY <1>5, <2>2, SecondWrites DEF Following
      <3> QED BY <1>1, <1>5, <2>2, <3>1 DEF flashCmd, Advance, OpenBuffer, OpensBuffer, Relapse, GoesOn, Program,
            Erase, Count, Collect, Commit, Expected
    <2>3. CASE os.at = 6
      <3>1. fcmd = "erase3"
        BY <1>5, <2>3 DEF Following
      <3> QED BY <1>1, <1>5, <2>3, <3>1 DEF flashCmd, Advance, OpenBuffer, OpensBuffer, Relapse, GoesOn, Program,
            Erase, Count, Collect, Commit, Expected
    <2> QED BY <1>5, <2>1, <2>2, <2>3
  <1>6. CASE os.at = 4 /\ os.job.kind = "program"
    <2>1. fcmd = "program"
      BY <1>6 DEF Following
    <2> QED BY <1>1, <1>6, <2>1 DEF flashCmd, Advance, OpenBuffer, OpensBuffer, Relapse, GoesOn, Program,
          Erase, Count, Collect, Commit, Expected
  <1>7. CASE os.at >= 4 /\ os.job.kind = "buffer"
    <2>1. (os.at = 4 => fcmd = "bufcount") /\ (os.at > 4 => fcmd = "bufdata")
      BY <1>7 DEF Following
    <2>2. os.at > 4 => bufRem = Length(os.job) - os.at
      BY <1>1, <2>1, <1>7 DEF Safe, InStep
    <2>3. Length(os.job) \in Nat /\ os.at \in Nat
      BY <1>1, JobShape
    <2>4. os.at = 4 => Count(w)
      BY <1>1, <2>1 DEF flashCmd, Advance, OpenBuffer, OpensBuffer, Relapse, Program, Erase, Count,
            Collect, Commit, Expected
    <2>5. os.at > 4 => Collect(w) \/ Commit(w)
      BY <1>1, <2>1 DEF flashCmd, Advance, OpenBuffer, OpensBuffer, Relapse, Program, Erase, Count,
            Collect, Commit, Expected
    <2>6. os.at \in 5 .. (Length(os.job) - 1) => bufRem > 0
      BY <2>2, <2>3
    <2>7. os.at > 4 /\ os.at = Length(os.job) => bufRem = 0
      BY <2>2, <2>3
    <2>8. os.at \in 5 .. (Length(os.job) - 1) => Collect(w)
      BY <2>2, <2>3, <2>5, <2>6 DEF Commit
    <2>9. os.at > 4 /\ os.at = Length(os.job) => Commit(w)
      BY <2>5, <2>7 DEF Collect
    <2> HIDE DEF Following
    <2> QED BY <1>7, <2>3, <2>4, <2>8, <2>9
  <1> QED BY <1>1, <1>2, <1>3, <1>4, <1>5, <1>6, <1>7, JobShape

\* A write before the last leaves the routine on its course, the last one has done the job.
\* Words of a job's data in each of its cells do to the array what is wanted of it.
LEMMA ProgramDone ==
  ASSUME NEW job \in Jobs, job.kind # "erase", NEW words, flash = found,
         Len(words) = Len(job.cells),
         \A i \in 1 .. Len(words) : words[i].at = job.cells[i] /\ words[i].data = job.data
  PROVE  ProgrammedAll(words) = Wanted(job)
  <1>1. ASSUME NEW c \in FlashCells
        PROVE  {b \in flash[c] : \A k \in 1 .. Len(words) : words[k].at = c => b \in words[k].data}
                 = IF c \in Targets(job) THEN found[c] \cap job.data ELSE found[c]
    <2>1. CASE c \in Targets(job)
      <3>1. PICK k \in 1 .. Len(words) : words[k].at = c /\ words[k].data = job.data
        BY <2>1 DEF Targets
      <3> QED BY <2>1, <3>1
    <2>2. CASE c \notin Targets(job)
      <3>1. \A k \in 1 .. Len(words) : words[k].at # c
        BY <2>2 DEF Targets
      <3> QED BY <2>2, <3>1
    <2> QED BY <2>1, <2>2
  <1> QED BY <1>1 DEF ProgrammedAll, Wanted

LEMMA WriteOnCourse == ASSUME Patient, Safe, OnCourse, NextWrite PROVE OnCourse'
  <1> DEFINE w == WriteOf(os.job, os.at)
  <1>1. /\ os.job \in Jobs /\ os.at \in 1 .. Length(os.job) /\ os.phase = "write" /\ os \in OsStates
        /\ Length(os.job) \in Nat /\ Following /\ os.ok /\ os.polls = 0 /\ Ready
    BY JobShape DEF Safe, Able, NextWrite, OnCourse
  <1>2. /\ os'.job = os.job /\ os'.at = os.at + 1 /\ os'.ok = os.ok /\ os'.polls = 0
        /\ os'.phase = IF os.at < Length(os.job) THEN "write"
                       ELSE IF os.job.kind = "erase" THEN "begun" ELSE "poll"
    BY <1>1 DEF NextWrite, OsStates
  <1>3. UNCHANGED <<found, Polled>> /\ Wanted(os.job)' = Wanted(os.job)
    BY <1>2 DEF NextWrite, Polled, Wanted, history
  <1>4. CASE os.at < Length(os.job)
    <2>1. Following'
      <3>1. CASE os.at <= 3
        BY <1>1, <1>2, <1>3, <1>4, <3>1, FollowingWrite, JobShape
          DEF Following, Advance, OpenBuffer
      <3>2. CASE os.at \in {4, 5} /\ os.job.kind = "erase"
        BY <1>1, <1>2, <1>3, <1>4, <3>2, FollowingWrite DEF Following, Advance
      <3>3. CASE os.at = 4 /\ os.job.kind = "buffer"
        <4>1. Count(w) /\ bufW = <<>>
          BY <1>1, <3>3, FollowingWrite DEF Safe, InStep, Following
        <4>2. Len(bufW') = 0 /\ fcmd' = "bufdata" /\ UNCHANGED flash
          BY <4>1 DEF Count
        <4> QED BY <1>1, <1>2, <1>3, <3>3, <4>2 DEF Following
      <3>4. CASE os.at > 4 /\ os.job.kind = "buffer"
        <4>1. Collect(w)
          BY <1>1, <1>4, <3>4, FollowingWrite
        <4>2. w = Word(os.job.cells[os.at - 4], os.job.data)
          BY <1>1, <1>4, <3>4 DEF WriteOf, BufferWrite
        <4>3. fcmd' = "bufdata" /\ bufW' = Append(bufW, w) /\ UNCHANGED flash
          BY <4>1 DEF Collect
        <4>4. bufW \in Seq(Writes) /\ w \in Writes /\ Len(bufW) = os.at - 5
          BY <1>1, <3>4, WriteType DEF Safe, Following
        <4>5. Len(bufW') = os.at - 4 /\ bufW'[os.at - 4] = w
              /\ \A i \in 1 .. (os.at - 5) : bufW'[i] = bufW[i]
          BY <1>1, <3>4, <4>3, <4>4
        <4>6. \A i \in 1 .. (os.at - 5) : bufW[i] = Word(os.job.cells[i], os.job.data)
          BY <1>1, <3>4, <4>4 DEF Following
        <4>7. \A i \in 1 .. Len(bufW') : bufW'[i] = Word(os.job.cells[i], os.job.data)
          BY <1>1, <3>4, <4>2, <4>5, <4>6
        <4>8. Len(bufW') = os.at + 1 - 5 /\ ~(os.at + 1 \in {1, 2, 3, 4})
          BY <1>1, <3>4, <4>5
        <4>9. flash = found
          BY <1>1 DEF Following
        <4> QED BY <1>1, <1>2, <1>3, <3>4, <4>3, <4>7, <4>8, <4>9 DEF Following
      <3> QED BY <1>1, <1>4, <3>1, <3>2, <3>3, <3>4, JobShape
    <2>2. Ready'
      <3>1. ASSUME os.job.kind # "erase" PROVE UNCHANGED <<eraseBusy, eraseSect>>
        <4>1. Advance(w) \/ OpenBuffer(w) \/ Count(w) \/ Collect(w)
          BY <1>1, <1>4, <3>1, FollowingWrite, JobShape
        <4> QED BY <4>1 DEF Advance, OpenBuffer, Count, Collect
      <3> QED BY <1>1, <1>2, <1>3, <3>1 DEF Ready, Erasing
    <2> QED BY <1>1, <1>2, <1>4, <2>1, <2>2 DEF OnCourse, Phases
  <1>5. CASE os.at = Length(os.job) /\ os.job.kind = "erase"
    <2>1. os.at = 6 /\ Erase(w) /\ w.low = "30" /\ w.at = os.job.cells[1]
      BY <1>1, <1>5, FollowingWrite, JobShape DEF WriteOf, EraseWrite, To, Plain
    <2>2. flash' = Wanted(os.job)'
      BY <1>1, <1>2, <1>3, <1>5, <2>1 DEF Erase, Hit, Cleared, Wanted, Following
    <2>3. Waiting'
      BY <1>2, <1>5, <2>1 DEF Erase, Waiting, Patient
    <2> QED BY <1>1, <1>2, <1>5, <2>2, <2>3 DEF OnCourse, Ready, Phases
  <1>6. CASE os.at = Length(os.job) /\ os.job.kind = "program"
    <2>1. Program(w) /\ w.at = os.job.cells[1] /\ w.data = os.job.data
      BY <1>1, <1>6, FollowingWrite, JobShape DEF WriteOf, ProgramWrite, Word, Plain
    <2>2. flash' = Wanted(os.job)'
      <3>1. \A i \in 1 .. Len(<<w>>) : <<w>>[i].at = os.job.cells[i] /\ <<w>>[i].data = os.job.data
        BY <2>1
      <3>2. Len(<<w>>) = Len(os.job.cells)
        BY <1>1, <1>6, StorageAssumption DEF StorageAssumption
      <3>3. flash' = ProgrammedAll(<<w>>) /\ flash = found
        BY <1>1, <2>1 DEF Program, Following
      <3> HIDE DEF w
      <3>4. ProgrammedAll(<<w>>) = Wanted(os.job)
        BY <1>1, <1>6, <3>1, <3>2, <3>3, ProgramDone
      <3> QED BY <1>3, <3>3, <3>4
    <2>3. Ready'
      BY <1>1, <1>2, <1>3, <2>1 DEF Program, Ready, Erasing
    <2> QED BY <1>1, <1>2, <1>6, <2>2, <2>3 DEF OnCourse, Waiting, Phases
  <1>7. CASE os.at = Length(os.job) /\ os.job.kind = "buffer"
    <2>1. Commit(w) /\ Len(bufW) = Len(os.job.cells)
          /\ \A i \in 1 .. Len(bufW) : bufW[i] = Word(os.job.cells[i], os.job.data)
      BY <1>1, <1>7, FollowingWrite, JobShape DEF Following
    <2>2. flash' = Wanted(os.job)'
      <3>1. \A i \in 1 .. Len(bufW) : bufW[i].at = os.job.cells[i] /\ bufW[i].data = os.job.data
        BY <2>1 DEF Word, Plain
      <3>2. flash' = ProgrammedAll(bufW) /\ flash = found
        BY <1>1, <2>1 DEF Commit, Following
      <3>3. ProgrammedAll(bufW) = Wanted(os.job)
        BY <1>1, <1>7, <2>1, <3>1, <3>2, ProgramDone
      <3> QED BY <1>3, <3>2, <3>3
    <2>3. Ready'
      BY <1>1, <1>2, <1>3, <2>1 DEF Commit, Ready, Erasing
    <2> QED BY <1>1, <1>2, <1>7, <2>2, <2>3 DEF OnCourse, Waiting, Phases
  <1> QED BY <1>1, <1>4, <1>5, <1>6, <1>7, JobShape

LEMMA ReadOnCourse == ASSUME Patient, Safe, OnCourse, Read PROVE OnCourse'
  <1>1. /\ os.job \in Jobs /\ os.phase \in {"begun", "started", "poll"} /\ os \in OsStates
        /\ os.ok /\ Ready /\ Waiting /\ flash = Wanted(os.job)
    BY DEF Read, CheckBegun, CheckStarted, Poll, OnCourse, Safe, Able
  <1>2. UNCHANGED <<flash, eraseSect, found>> /\ eraseBusy' = IF Erasing(Polled) THEN eraseBusy - 1 ELSE eraseBusy
    BY DEF Read, ReadStatus, history
  <1>3. os'.job = os.job /\ os'.ok = os.ok
    BY <1>1 DEF Read, CheckBegun, CheckStarted, Poll, OsStates
  <1>4. UNCHANGED Polled /\ Wanted(os.job)' = Wanted(os.job)
    BY <1>2, <1>3 DEF Polled, Wanted
  <1>5. Ready'
    BY <1>1, <1>2, <1>3, <1>4 DEF Ready, Erasing
  <1>6. ASSUME os.job.kind = "erase"
        PROVE  /\ Polled = os.job.cells[1] /\ Polled \in SectorOf(Polled) /\ flash[Polled] = Erased
               /\ eraseBusy \in Nat /\ (Erasing(Polled) <=> eraseBusy > 0)
    <2>1. Len(os.job.cells) = 1 /\ os.job.cells[1] \in FlashCells
      BY <1>1, <1>6, JobShape, StorageAssumption DEF StorageAssumption
    <2>2. os.job.cells[1] \in SectorOf(os.job.cells[1])
      BY <1>1, <2>1 DEF Patient, SectorOf
    <2>3. flash[os.job.cells[1]] = Erased
      BY <1>1, <1>6, <2>1, <2>2 DEF Wanted
    <2> QED BY <1>1, <1>6, <2>1, <2>2, <2>3 DEF Polled, Waiting, Erasing
  <1>7. CASE CheckBegun
    <2>1. os.phase = "begun" /\ os.job.kind = "erase" /\ os.polls = 0
      BY <1>7 DEF CheckBegun, OnCourse
    <2>2. eraseBusy = StatusReads /\ StatusReads \in Nat /\ StatusReads > 0
      BY <1>1, <2>1, StorageAssumption DEF Waiting, Patient, StorageAssumption
    <2>3. Seen(Polled) = {3}
      BY <1>6, <2>1, <2>2 DEF Seen
    <2>4. os'.phase = "started" /\ os'.polls = 0
      BY <1>1, <1>7, <2>1, <2>3 DEF CheckBegun, OsStates
    <2>5. Waiting'
      BY <1>1, <1>2, <1>3, <1>6, <2>1, <2>2, <2>4 DEF Waiting
    <2> QED BY <1>1, <1>2, <1>3, <1>4, <1>5, <2>1, <2>4, <2>5 DEF OnCourse, Phases
  <1>8. CASE CheckStarted
    <2>1. os.phase = "started" /\ os.job.kind = "erase" /\ os.polls = 0
      BY <1>8 DEF CheckStarted, OnCourse
    <2>2. eraseBusy = StatusReads - 1 /\ StatusReads \in Nat /\ StatusReads <= PollLimit + 2 /\ PollLimit \in Nat
      BY <1>1, <2>1, StorageAssumption DEF Waiting, Patient, StorageAssumption
    <2>3. 3 \in Seen(Polled)
      BY <1>6, <2>1, FlashAssumption DEF Seen, FlashAssumption, Erased
    <2>4. os'.phase = "poll" /\ os'.polls = 0
      BY <1>1, <1>8, <2>1, <2>3 DEF CheckStarted, OsStates
    <2>5. eraseBusy' \in Nat /\ eraseBusy' <= PollLimit
      BY <1>2, <1>6, <2>1, <2>2
    <2>6. Waiting'
      BY <1>1, <1>2, <1>3, <2>1, <2>2, <2>4, <2>5 DEF Waiting
    <2> QED BY <1>1, <1>2, <1>3, <1>4, <1>5, <2>1, <2>4, <2>6 DEF OnCourse, Phases
  <1>9. CASE Poll /\ os.job.kind = "erase"
    <2>1. /\ os.phase = "poll" /\ os.polls \in Nat /\ PollLimit \in Nat
          /\ eraseBusy + os.polls <= PollLimit /\ eraseBusy \in Nat
      BY <1>1, <1>6, <1>9, StorageAssumption DEF Poll, Waiting, OsStates, StorageAssumption
    <2>2. CASE eraseBusy = 0
      <3>1. Seen(Polled) = Erased
        BY <1>6, <1>9, <2>2 DEF Seen
      <3>2. 7 \in Erased
        BY FlashAssumption DEF FlashAssumption, Erased
      <3>3. Done(Seen(Polled))
        BY <1>9, <3>1, <3>2 DEF Done, Expects7
      <3>4. os'.phase = "idle"
        BY <1>1, <1>9, <3>3 DEF Poll, OsStates
      <3> QED BY <1>1, <1>2, <1>3, <1>4, <3>4 DEF OnCourse, Phases
    <2>3. CASE eraseBusy > 0
      <3>1. Seen(Polled) = {3}
        BY <1>6, <1>9, <2>3 DEF Seen
      <3>2. ~Done(Seen(Polled)) /\ os.polls < PollLimit
        BY <1>9, <2>1, <2>3, <3>1 DEF Done, Expects7
      <3>3. os'.phase = "poll" /\ os'.polls = os.polls + 1
        BY <1>1, <1>9, <2>1, <3>2 DEF Poll, OsStates
      <3>4. Waiting'
        BY <1>1, <1>2, <1>3, <1>6, <1>9, <2>1, <2>3, <3>3 DEF Waiting
      <3> QED BY <1>1, <1>2, <1>3, <1>4, <1>5, <3>3, <3>4 DEF OnCourse, Phases
    <2> QED BY <2>1, <2>2, <2>3
  <1>10. CASE Poll /\ os.job.kind # "erase"
    <2>1. ~Erasing(Polled) /\ found[Polled] = Erased
      BY <1>1, <1>10 DEF Ready
    <2>2. Polled \in FlashCells /\ Polled \in Targets(os.job)
      <3>1. Len(os.job.cells) \in 1 .. Len(os.job.cells)
        BY <1>1, JobShape
      <3> QED BY <1>1, <3>1, JobShape DEF Polled, Targets
    <2>3. Seen(Polled) = Erased \cap os.job.data
      BY <1>1, <1>10, <2>1, <2>2 DEF Seen, Wanted
    <2>4. 7 \in Erased
      BY FlashAssumption DEF FlashAssumption, Erased
    <2>5. Done(Seen(Polled))
      BY <1>10, <2>3, <2>4 DEF Done, Expects7
    <2>6. os'.phase = "idle"
      BY <1>1, <1>10, <2>5 DEF Poll, OsStates
    <2> QED BY <1>1, <1>2, <1>3, <1>4, <2>6 DEF OnCourse, Phases
  <1> QED BY <1>1, <1>7, <1>8, <1>9, <1>10 DEF Read

LEMMA StillOnCourse ==
  ASSUME OnCourse, UNCHANGED <<flash, chip, os, found>>
  PROVE  OnCourse'
  <1>1. UNCHANGED <<fcmd, bufW, eraseBusy, eraseSect, Polled>> /\ Wanted(os.job)' = Wanted(os.job)
    BY DEF chip, Polled, Wanted
  <1>2. (Following => Following') /\ (Ready => Ready') /\ (Waiting => Waiting')
    BY <1>1 DEF Following, Ready, Waiting, Erasing
  <1> QED BY <1>1, <1>2 DEF OnCourse

LEMMA StepOnCourse == ASSUME Patient, SafeInv, JobInv, [StorageNext]_storageVars PROVE JobInv'
  <1>1. CASE OS
    <2>1. torn' = torn
      BY <1>1 DEF OS, Ask, NextWrite, Read, Reset, history
    <2>2. CASE \E job \in Jobs : Ask(job)
      BY <2>2, AskOnCourse
    <2>3. CASE Reset
      BY <2>3 DEF Reset, JobInv, OnCourse, history
    <2>4. CASE NextWrite \/ Read
      <3>1. whole' = whole
        BY <2>4 DEF NextWrite, Read, history
      <3> QED BY <2>1, <2>4, <3>1, WriteOnCourse, ReadOnCourse DEF JobInv, SafeInv
    <2> QED BY <1>1, <2>2, <2>3, <2>4 DEF OS
  <1>2. CASE Host
    <2>1. whole' = FALSE \/ UNCHANGED <<flash, chip, os, found, whole, torn>>
      BY <1>2 DEF Host, SaveSlot, LoadSlot, SaveSession, Launch, TakeImage, Restart, ForgetChanges, Build
    <2> QED BY <2>1, StillOnCourse DEF JobInv
  <1>3. CASE UNCHANGED storageVars
    BY <1>3, StillOnCourse DEF storageVars, history, JobInv
  <1> QED BY <1>1, <1>2, <1>3 DEF StorageNext

\* JobsAsAsked, for any flash geometry and jobs: if a sector erase lasts at least one status read
\* and no more than the OS waits for, a routine that no resume interrupts succeeds and leaves the
\* array as asked, nothing else changed.
THEOREM JobsDoAsAsked == ASSUME Patient PROVE StorageSpec => []JobsAsAsked
  <1>1. StorageInit => JobInv
    BY DEF StorageInit, JobInv
  <1>2. SafeInv /\ JobInv /\ [StorageNext]_storageVars => JobInv'
    BY StepOnCourse
  <1>3. JobInv => JobsAsAsked
    BY DEF JobInv, OnCourse, JobsAsAsked
  <1> QED BY <1>1, <1>2, <1>3, SafeInit, SafeStep, PTL DEF StorageSpec

---------------------------------------------------------------------------
(* What a saved session brings back. *)

IsArray(f) == f = [c \in FlashCells |-> f[c]]

\* Laid over the image it was made against, a delta gives the array that was saved.
Restores(s) ==
  s # NoState => /\ IsArray(s.storage)
                 /\ IsArray(s.rom) => Overlaid(s.rom, s.delta) = s.storage

SessionInv ==
  /\ IsArray(flash)
  /\ image # NoState => IsArray(image.flash)
  /\ Restores(session)

LEMMA DumpIsArray == IsArray(Dump)
  BY StorageAssumption DEF StorageAssumption, IsArray

LEMMA SnapshotRestores == ASSUME IsArray(flash) PROVE Restores(SaveState)
  <1>1. /\ SaveState.storage = flash /\ SaveState.rom = rom /\ SaveState.delta = Delta
    BY DEF SaveState
  <1>2. DOMAIN Delta = Changed /\ \A c \in Changed : Delta[c] = flash[c]
    BY DEF Delta
  <1>3. ASSUME NEW c \in FlashCells, c \notin Changed PROVE rom[c] = flash[c]
    BY <1>3, FlashAssumption DEF FlashAssumption, Changed
  <1>4. [c \in FlashCells |-> IF c \in DOMAIN Delta THEN Delta[c] ELSE rom[c]] = [c \in FlashCells |-> flash[c]]
    BY <1>2, <1>3
  <1>5. Overlaid(rom, Delta) = flash
    BY <1>4 DEF Overlaid, IsArray
  <1> QED BY <1>1, <1>5 DEF Restores

LEMMA OverlaidIsArray == ASSUME NEW f, NEW delta PROVE IsArray(Overlaid(f, delta))
  BY DEF Overlaid, IsArray

LEMMA ChipKeepsArray == ASSUME IsArray(flash), NEW w, flashCmd(w) PROVE IsArray(flash)'
  BY DEF flashCmd, Advance, OpenBuffer, Relapse, Program, Erase, Count, Collect, Commit, ProgrammedAll,
    Cleared, IsArray

LEMMA SessionStep == ASSUME SessionInv, [StorageNext]_storageVars PROVE SessionInv'
  <1>1. CASE OS
    <2>1. UNCHANGED <<image, session>>
      BY <1>1 DEF OS, Ask, NextWrite, Read, Reset
    <2>2. IsArray(flash)'
      <3>1. CASE NextWrite \/ Reset
        BY <3>1, ChipKeepsArray DEF NextWrite, Reset, SessionInv
      <3>2. CASE Read \/ \E job \in Jobs : Ask(job)
        BY <3>2 DEF Read, ReadStatus, Ask, SessionInv, IsArray
      <3> QED BY <1>1, <3>1, <3>2 DEF OS
    <2> QED BY <2>1, <2>2 DEF SessionInv, Restores
  <1>2. CASE SaveSlot \/ SaveSession \/ TakeImage
    <2>1. flash' = flash /\ (image' = image \/ image' = [flash |-> flash])
          /\ (session' = session \/ session' = SaveState)
      BY <1>2 DEF SaveSlot, SaveSession, TakeImage
    <2> QED BY <2>1, SnapshotRestores DEF SessionInv, Restores, IsArray
  <1>3. CASE LoadSlot
    BY <1>3, OverlaidIsArray DEF LoadSlot, SessionInv, Restores, IsArray
  <1>4. CASE Launch
    <2>1. IsArray(flash')
      BY <1>4, OverlaidIsArray, DumpIsArray DEF Launch
    <2> QED BY <1>4, <2>1 DEF Launch, SessionInv, Restores, IsArray
  <1>5. CASE Restart
    BY <1>5, SnapshotRestores DEF Restart, SessionInv, Restores, IsArray
  <1>6. CASE ForgetChanges
    BY <1>6, DumpIsArray DEF ForgetChanges, SessionInv, Restores, IsArray
  <1>7. CASE UNCHANGED storageVars
    BY <1>7 DEF storageVars, SessionInv, Restores, IsArray
  <1> QED BY <1>1, <1>2, <1>3, <1>4, <1>5, <1>6, <1>7 DEF StorageNext, Host

\* LaunchLands, for any flash geometry and history: a launch brings the storage back as it was when
\* the session was saved, if the machine that saved it was built from the dump.
THEOREM LaunchesLand == StorageSpec => LaunchLands
  <1> DEFINE Lands == Launch /\ session # NoState /\ session.rom = Dump => flash' = session.storage
  <1>1. StorageInit => SessionInv
    BY DumpIsArray DEF StorageInit, SessionInv, Restores
  <1>2. SessionInv /\ [StorageNext]_storageVars => SessionInv'
    BY SessionStep
  <1>3. SessionInv => Lands
    BY DumpIsArray DEF Launch, SessionInv, Restores
  <1>4. StorageSpec => [][Lands]_storageVars
    <2> HIDE DEF Lands
    <2> QED BY <1>1, <1>2, <1>3, PTL DEF StorageSpec
  <1> QED BY <1>4 DEF LaunchLands

=============================================================================
