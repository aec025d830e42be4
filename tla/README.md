# A verification of the fx-CG50 emulator

The repository holds an emulator of the Casio fx-CG50 calculator: a core in Go (`emu_go/`), a
desktop host, CG50 Studio (`app/`), an Android host (`android/`, `emu_go/android/`), a slow
reference implementation in Python (`emu/`), and scripts and probes. This directory models the
parts of it whose control flow is hard to test, checks the models with TLC on small instances, and
proves the invariants that matter most for every instance with TLAPS.

`PROJECT.json` lists the components, the runs, the lines of source each definition translates, the
hazards, the disagreements between the code and its documentation that runs show, and the theorems. A
definition whose name adds a word to its neighbour's (`MinHoldShort` before `MinHold`) is a faulty
variant of it: the *mutants* of `PROJECT.json` put it in the neighbour's place, and the named property
must then fail.

## 1. The system

### The core

One goroutine at a time is inside the core: every exported call takes `Emulator.mu`. What is hard in
it is time. The machine has one clock, `cpu.cycles` (instructions executed, plus cycles of sleep),
and each device keeps the cycle of its next event. `Step(n)` runs a loop that polls devices only when
one is due, and otherwise executes instructions, or jumps over the sleep of a halted CPU.

| Component | State | Operations | Correct when |
|---|---|---|---|
| Step loop (`emulator.go`, `cpu.go`) | `cycles`, `idle`, `due`, `dirty`, `sleeping` | `Step`, `stepLocked`, `nextDue`, `cpu.run` | a device acts at the instruction it would act at if the loop polled before every one; a Step returns |
| Key calls (`emulator.go`) | `downAt`, `pendingUp`, `pendingDown`, tap queue | `KeyDown`, `KeyUp`, `InjectKey`, `ReleaseAllKeys`, `flushReleases`, `drive` | each press is visible long enough to be read, presses do not overlap, no key sticks, no call stays queued |
| KEYSC (`keysc.go`) | matrix, scan clock, flags, enables | `press`, `release`, `tick`, `write` | a press makes an edge, the release is reported |
| INTC and acceptance (`intc.go`, `cpu.go`) | priorities, masks, pending requests, SR, INTMU | `raise`, `gatePending`, `acceptInterrupt`, register writes | no handler runs for a source its world did not enable, nesting is bounded, no request is lost, no wake is missed |
| Timers (`gtimer.go`) | counter base, next underflow, flags | `service`, `restart`, `write` | a counter reads what the elapsed cycles say, one request for each underflow it reaches |
| RTC (`rtc.go`) | base of the calendar, next periodic event, flags | `tick`, `write`, `SetClock` | the periodic event keeps its phase, the date follows the calendar |
| Battery ADC (`mmio.go`) | conversion under way, of two kinds | `periphIRQ`, register writes | every conversion started is answered |
| BCD unit (`mmio.go`) | operands, carry latch | `bcdALU` | a chain of words adds and subtracts long numbers |
| DMAC (`mmio.go`) | SAR, DAR, TCR, CHCR | register writes, transfers | a transfer ends where the registers say, once |
| LCD (`lcd.go`) | GRAM, window, address counter, generation | register and pixel writes | pixels land in scan order in the window; the generation tells changes |
| CPU (`cpu.go`) | registers, banks, SR, memory | `execute`, `stepMMU`, `raiseException`, `acceptInterrupt`, `callInject` | an instruction is done or undone, an exception returns to where it came from |
| MMU (`mmu.go`) | UTLB, MMUCR, fast entries | `translate`, `ldtlb`, array writes | the lookup is a function of the TLB; a fault can be served and retried |
| UBC (`ubc.go`) | two channels, match flags, count | `before`, `operand`, `after` | a break comes before or after its instruction, at its count |
| Memory and flash (`memory.go`) | RAM, flash command state | read, write, flash commands | programming only clears bits; the OS image stays |
| Save-states (`state.go`) | a gzip blob | `Snapshot`, `Resume` | a resumed machine is the one that was saved |
| Debugger (`debug.go`) | breakpoints, watchpoints, stop, goal, trace | `debugRun`, `dstep`, `Pause`, `Continue`, steps, edits | it stops where it was asked to and never changes what the program does |
| OS calls, installs (`oscall.go`, `install.go`) | borrowed CPU | `callOS`, install | the borrowed CPU is given back as it was, and the user's debugger sees none of it |
| Native blitter (`hle.go`) | none of its own | `blit` | it returns as the routine would |

### The Studio

`App` (`app/app.go`) holds the running `machine` under `a.mu`. The page's calls each run in a
goroutine of their own; `statusLoop` saves the session every two minutes; each machine has a
goroutine, `run` (`machine.go`), which steps the core at the chosen speed and is stopped by `halt`.
`store` (`store.go`) keeps one session per dump, written to a temporary file and renamed. The page
fetches frames from a small server (`frame.go`) that compares generations. The debugger session
(`debug.go`, `cond.go`) keeps the user's list of breakpoints in step with the core's under `d.mu`,
notes each stop and sends the page a snapshot; `analysis.go`, `listing.go` show what `sh4/` finds in
the code.

### How the parts interact

The host calls the core (`KeyDown`, `Step`, `Snapshot`); the core calls back only at a stop. Key
calls change the matrix and two queues that the loop drains after a CPU step; the KEYSC tick, in the
loop's `mmio.tick`, raises a request at the INTC; the CPU accepts it before an instruction; the OS
routine (not in the repository) reads the matrix and acknowledges. A write to a device register moves
the device's next event, and sets `dirty` so that the loop polls again. An access that misses the TLB
panics out of the instruction; `stepMMU` puts the registers back and enters the OS's miss handler.
The DMAC writes to the panel's port inside the register write that starts it. A save-state holds the
CPU, the memories and some of the registers; what it does not hold, `Resume` sets to what the OS
programs. With breakpoints set, `stepLocked` hands each instruction to `debugRun`, which runs `dstep`
around it; `callOS` mutes the debugger while the host borrows the CPU.

### What is hard

* the host's calls come at any cycle, and the answer of the machine depends on scans to come;
* the loop skips polls: each thing that moves an event must be seen by `due`;
* no counter is ever clocked: its value is computed from a base that every register write, change of
  rate and save-state has to move with it;
* two programs (the OS and an add-in kernel, gint) take turns with one interrupt controller and one
  DMA channel;
* an instruction may fault after it has changed registers, in a delay slot, on its second access;
* a debugger that skips most of its own work, and has to see through faults, handlers and recursion;
* the Studio's calls interleave with each other, with autosaves, with the page's own timing and with
  the machine's goroutine;
* a crash or a full disk in the middle of a save;
* arithmetic of deadlines at their boundaries, and a CPU step that takes many cycles (the native
  blitter charges a whole blit at once).

## 2. The modules

| Modules | Model | Composed in |
|---|---|---|
| `Keysc`, `KeyInput` | from the host's keys to the OS | `KeyInput` |
| `PollLoop`, `StepLoop` | the loop, and polling before every instruction | `StepLoop` implements `PollLoop`'s `LateSpec`, and not its `Spec` |
| `Intc` | the interrupt path under two worlds | |
| `Clock`, `Counter`, `GTimer`, `Rtc`, `Adc`, `Bcd` | the timed devices, and the counter a timer stands for | `Devices`; `GTimer` implements `Counter` |
| `Lcd`, `Dmac` | the panel and the DMA channel, with the host's pulls | `Display` |
| `Alu`, `Mmu`, `Ubc`, `Cpu` | instructions, translation, user breaks, exceptions | `Core`, with an OS that pages |
| `Traced`, `Debugger` | the debugger around a program, and the host's calls | `Debugger` |
| `DebugSession` | the Studio's side of the debugger | |
| `Studio` | the machine's life and its session | |
| `FlashNor`, `Storage` | the storage memory and the save-states | `Storage` |

An `MC` module gives each its instances; a `Proofs` module holds its theorems (`MachineProofs` those of
`StepLoop`, `Intc` and `Studio`). Four `MC` modules put two models side by side that share no state, so
that one run asks about both: `MCMachine` (the loop, the interrupts), `MCPeripherals` (the timed devices,
the storage), `MCHost` (the Studio, the user's keys), `MCPage` (the debugger's panel, the keys with
resets). A behaviour is of one of the two, chosen at first (`part`); the other stands still, and each has
its own fairness. The models whose actions would have one name in such a pair carry it with a prefix
(`KeyNext`, `IntcNext`, `StudioNext`, `StorageNext`).

### `Keysc`, `KeyInput`: from the host's keys to the OS

`Keysc` is the key-scan unit. `Scan` is `keyscUnit.tick` past its first return, with the flags
(`scan`, `detect`), the two reports after the matrix went empty (`scanLeft`) and the request. The
OS interrupt routine is external: `IsrRead` reads data words and flags, `IsrAck` acknowledges; it
serves a request within `IsrLatency` cycles, which is what gives a press its meaning.

`KeyInput` extends it with the host's calls and the tap driver. `KeyDown` and `KeyUp` have one
disjunct per path of the code: pressed now or queued; released now, deferred to the minimum hold, or
marked on a queued press. `Iterate` is a turn of the loop that polls (tick, CPU step, tap driver,
`flushReleases`, in this order) and `RunOn` an instruction that does not. Presses come from `Sources`:
a source lets go of a key before it presses it again, as both the page and the Android view do.

History variables: `hostDown` (what users hold), `seenScans` (scans that saw a key since it went
down), `osGot` (presses the OS routine has read).

### `PollLoop`, `StepLoop`: the loop and its specification

`PollLoop` is the abstract specification: every turn ticks the devices, executes one instruction or a
cycle of sleep, and performs the key calls that are due. `Doze` is several such turns of a halted CPU
in which nothing happens. A device is its next event; what an instruction does is any of the effects
that matter to a schedule (nothing, `sleep`, a blit of several cycles, programming a device).

`StepLoop` is `stepLocked` with `nextDue`: `PollingTurn` is the slow path, `RunOn` one instruction of
`cpu.run`, `Sleep` the jump or the single cycle of a halted CPU, `Step(n)` the host. Its property
`ImplementsPolling` is `PollLoop`'s `Spec`, the promise, under the identity mapping: `end`, `due` and
`dirty` are hidden. The code does not keep it, though `emulator.go:307` and `schedule_test.go:10` say that
it does, and `loop_exact` shows how. `ImplementsLatePolling` is `LateSpec`, which differs from the promise
in two allowances (`late`), and that one holds:

* a deferred release or a queued press may act one instruction later (`Acts`): `nextDue` takes one
  off the time of the tap driver, which also runs after the step, but not off theirs;
* the conversion of the idle routine that completes in the very cycle that wakes the CPU may wait
  until the CPU sleeps again (`ConvTicked`): its deadline counts cycles of sleep.

### `Intc`: interrupts

`Raise` is `MMIOBus.raise`: a request that finds its source disabled leaves no trace. `Gated` is what
`gatePending` keeps, `Offered` what it offers, `Accept` is `acceptInterrupt` with the new SR. Blocking
(`SR.BL`), levels (`SR.IMASK`) and `CPUOPM.INTMU` are state. The programs are external: an OS and
gint, which enable only their own sources and switch worlds with interrupts blocked, saving and
restoring the controller register by register, while devices go on requesting.

### `Clock`, `GTimer`, `Rtc`, `Adc`, `Bcd`: the timed devices

`Clock` has what the devices share: `cycles`, cycles of sleep, `instrPerSec`, the requests. `Devices`
puts the units on it. In a behaviour the program drives one unit (`using`); the poll, the CPU's
progress by one or more cycles, a change of rate and a save-state reach all of them.

* `GTimer`. A channel is the cycle its countdown began, the value it began from and the time of its
  next underflow; `Cur` computes the count, `Service` catches up with several underflows at once.
  `Counter` is the abstract specification, a down-counter that is clocked, one cycle at a time:
  `ImplementsCounter` says that each channel (`INSTANCE Counter WITH ...`, the count and phase
  computed from the base) is one, across writes, stops, jumps of the clock and save-states.
  Registers are written at any time. Where a write makes `restart` read the count with the new value for
  a time when the old one was in force (`Reread`: TCOR after the channel has wrapped, the prescaler after
  its first cycle), the count jumps; `Counter` allows for it by `Jump`, which is no step of its `Next`, and
  `RestartKeepsCount`, which says that no write moves a running count, is violated there
  (`timer_restart`). After a change of rate (`TimersRate`) a running channel is `skewed`, and owes nothing
  until it is started over.
* `Rtc`. The calendar computed from a base, the periodic event armed by RCR2. `wall` is the history
  of the host's clock that the dates are compared with.
* `Adc`. The conversion that counts sleep, the one that counts time, and the legacy tick until the OS
  starts the first; `owed` is the history of what was started and not answered.
* `Bcd`. One command at a time on one carry latch; `chain` is the history of the numbers of several
  words that a library computes with it.

### `Lcd`, `Dmac`, `Display`: from memory to the page

`Lcd` is the register protocol, the window, the address counter in all eight entry modes, what the
panel shows and its generation; `raster` is the history of a push since the window's origin. `Dmac`
runs a transfer to its end inside the write of CHCR, in bytes, in every stride. `Display` composes
them with two worlds that save and restore the channel, the four ways a save-state may speak of the
panel, and the host: `AskGen` and `Render` are the two critical sections of the frame server,
`NewMachine` replaces the machine under it, `Shown` is what the page holds (`page.own` remembers of
which machine and generation).

### `Alu`, `Mmu`, `Ubc`, `Cpu`, `Core`: the CPU

A machine is a record, and what an instruction does is an operator on it. `Alu` has every instruction
that stays in the registers; words are four bytes of `B` bits, and every width, sign and shift scales
with `B`. `Mmu` is the lookup with its fast entries, `ldtlb` and both arrays of the UTLB; `Ubc` the
match of fetches, operands and sequences. `Cpu` executes: delay slots, loads and stores in every mode,
`movua`, `mac`, the reservation of `movli`/`movco`, banks, `rte`, exceptions, the acceptance of an
interrupt, the precise rollback of `stepMMU`, the injected call.

`Core` runs programs on it under the OS (external, after the header of `mmu.go`): a handler that maps
the page that missed, moves it to another frame or drops another, a handler for traps, one for
interrupts that counts. `Raise`, `Resume` of a save-state and an injection come at any instruction.
`Progress` is the run of the same program with nothing between; `at` is the history of how far
along it the program is.

### `Traced`, `Debugger`: the debugger around a program

`Traced` abstracts the CPU to what the debugger sees: the place, the calls, the handlers, the accesses
of an instruction and whether one misses. `Debugger` is `dstep` and `debugRun`: the filter of pages
(`refresh`), breakpoints with ignore counts and conditions, watchpoints and their latched hits, breaks on
events, the four kinds of step (a goal), the skip of the breakpoint the machine was resumed at, the
trace; and around it `Pause`, `Continue`, the edits, `callOS` and the installs with their budget.
An action is a call, or one instruction of a Step. An install steps on past a stop: `dstep` then checks the
next instruction as if the machine had not stopped, and the stop stays latched. `Restored` is the end of
`callOS`: it puts every register back, and then SR through `setSR`, which exchanges R0-R7 with the bank it
has just put back if the call ended under another bank (`exchanged`: the budget ran out in a handler).
Histories: `from` (where a step began), `spared` (the address the machine was resumed at, and how its
instruction went since: still ahead, undone by a fault the debugger saw, or run unseen by it).

### `DebugSession`: the Studio's side of the debugger

The goroutines of `app/debug.go`: `Driver` (the machine's own, `onStopEvent`), `Status`, `Fetch` (the page
asking for a snapshot), one `Call` (pause, continue, step, a slot's load, a start) and one change of
the list at a time. A step is what a goroutine does under one lock; `d.mu` is held over several steps by
a change of the list only. `SetBreakpoints` looks up the machine before it takes that lock, at any moment,
also while a start replaces the machine: the change then goes on with the emulator it found (`gone`), or
with none (`KeepList`). `astray` is the history of what such a change left behind: a list that is not
the one of the machine open, ids that are another emulator's. Stops carry numbers, so that the page
applies the newest.

### `Studio`: the machine's life and its session

A step is what a goroutine does under one lock, or one file operation. `pc` says where each goroutine
is: `Read` (the session), `Find`, `Image` and `Drop` (`ForgetChanges` takes the machine in two critical
sections), `Take` (one critical section), `Halt`, `Wait`, `Remove`, `CheckFault`, `Snapshot`, `Open`,
`Fill`, `Rename`, `Publish`, `Exit`. `Leave`, `Tick` and `Turn` are the run goroutine. Any step of a goroutine
may come between two of another's, those of `ForgetChanges` and of an autosave too. A machine's state is how
far the work has come, since which return to the dump (`era`), and whether the core has faulted.
Histories: `left` (the state in which the last machine stopped), `missed` (a forget emptied `a.m` of
another machine than the one it found), `outlived` (when a forget removed the session, a machine or another
goroutine still held the work: `Outlives`).

### `FlashNor`, `Storage`: the storage memory and the save-states

`FlashNor` is the chip. `flashCmd(w)` takes one write: `Advance` along the unlock sequences, `Relapse`
when a write does not fit, `Program`, `Erase`, and the buffered program (`OpenBuffer`, `Count`,
`Collect`, `Commit`). `Seen` is what a read answers; a status read counts down `eraseBusy`. A content is
the set of its one bits, so that a program is an intersection.

`Storage` composes it with the OS's flash routines (external, after the account of them in the wiki's
flash page: the writes of each command, the "erase started" check, the poll, the reset after a failure)
and with the host. A routine's place is in RAM, so a `Snapshot` holds it; the chip's state is not in it.
`Delta` and `Overlaid` are `flashDeltaBytes` and `applyFlashDelta`. `LoadSlot` resumes on the machine
that runs, `Launch` on one built from the dump; `Restart` builds one from the array (`TakeImage`) and
saves the session of the old one, which has run on in between.

History variables: `found` (the array when a routine began), `whole` (no resume since), `torn` (a slot
was loaded while the chip was in the middle of a command); a snapshot also keeps the whole array and
the image it was taken against.

## 3. The runs

| Run | Instance | Shows |
|---|---|---|
| `machine` | the loop: the key scan, a masked counter, the idle conversion, a blit, taps, deferred calls, Steps of 1 and 5 | `ImplementsLatePolling`, `StepReturns` |
| | the interrupts: three sources, two in one field, two worlds, two priorities | `WorldIsolation`, `NestingByLevel`, `RequestKept`, `RequestWakes` |
| `loop_exact` | the loop without a blit | **violates** `ImplementsPolling` |
| `peripherals` | the devices: a second of 4 or 8 cycles, one channel of each timer unit, days of one second, numbers of two words | `ImplementsCounter`, `PeriodicOnPhase`, `DatesFollow`, `ConversionsReported`, `ChainExact` |
| | the storage: three jobs (erase, word, buffer of two), three calls of the host, two storage sectors | `FirmwareIntact`, `JobsAsAsked`, `LaunchLands` |
| `timer_restart` | the devices as above | **violates** `RestartKeepsCount` |
| `display` | a panel of 3 by 2, a memory of 8 bytes, every mode, window, stride and unit of two sizes | `RasterOrder`, `PageCurrent`, `SwitchQuiet` |
| `core` | words of 8 bits, pages of 8 bytes, a UTLB of four; six programs and twelve arithmetic routines | `OnTrack`, `ReturnKept`, `ResultsExact`, `IncrementsCounted`, `BreakExact`, `Finishes` |
| `debugger` | a recursive function, paged accesses, traps, a native function; six sets of breaks and calls | `StopsBefore`, `StopsAfter`, `StepLands`, `HostCallsUnseen`, `StepsEnd` |
| `continue_moves` | the same program, a breakpoint at an instruction with a paged access, one Continue | **violates** `ContinueMovesOn` |
| `page` | the panel: two dumps, three lists, five pairs of the page's calls | `ListApplied`, `HitsSurvive`, `StopsShown` |
| | the keys: key calls, taps, resets, two scan periods, the OS turning off and on | `NoStuckKey`, `QueuesDrain` |
| `session_every` | the panel as above | **violates** `EveryChangeApplied` |
| `host` | the Studio: two of a load, a restart, a forget and a quit, an autosave, a full disk, a forced quit, all interleaved | `ClosedOnce`, `SessionIntact`, `CallsEnd`, `ForgetDrops` |
| | the keys: one source, two keys, six key moves, OS latency of a cycle | `OneAtATime`, `EveryPressRead`, `ViewConverges` |
| `studio_reopen` | the open dump opened again, with nothing else under way (`OneByOne`) | **violates** `ResumesWhereLeft` |

A run of two rows checks two models side by side (see section 2): every property of the run is about one
of them, and holds trivially while the other moves.

What each property says stands above it in its module. `CHECK_DEADLOCK FALSE` stands in every
configuration but `core.cfg`, because each model stops at its bounds: the clock at `MaxCycles`, the
calls when each has been made; a faulted machine stops for good, too. `Core` stutters when its program
has ended (`Stop`), and there a state without a step would be an instruction that the model of the CPU
has no meaning for.

### Bounds

* `MaxCycles` ends the clock. In `KeyInput` no key moves in the last `Quiet` cycles, so that the
  queues have time to drain: `QueuesDrain` is about the machine, not about a host that never stops.
  Six moves are three presses, the shortest history with a press behind a queued press.
* The scan period is 1 or 2 cycles (on the machine about 350,000): a hold is three scans, so two
  cycles per scan already tell "at a scan", "between two scans" and "a scan late" apart.
* `StepLoop` runs to cycle 5: a Step of five, or five of one, longer than the blit and the longest delay
  with the turn after it. `loop_exact` has no blit, so that its trace is
  about single instructions. Delays of 1 and 3 make events coincide, precede and follow a Step's end. The
  theorems about it hold for any clock.
* `Intc` has three sources: two that share a field and one of the other world; `MaxOpen = 2` handlers
  nest, and `NestsByLevel` is proved for any number.
* `Devices` runs seven cycles with three operations (six commands for the decimal unit): a write, a poll
  that is late by more than one underflow of a count of 0 or 2, a change of rate, a save-state, in any
  order. A day lasts a second and starts at the ends of February of a common, a leap and a secular year
  and at the end of a year, which are the cases of the calendar. Radix 3 with two digits to a word has a
  digit that carries and one that does not.
* `Display` checks three kinds of behaviour apart (`focus`): pushes (`raster`), copies and world switches
  (`copies`), and the host's pulls (`host`), with three, four and five operations. Six cells make every
  window of one, two and three columns, which the panel's 396 by 224 do not add to.
* `Core`: an instruction's meaning depends on its width only where `Alu` says so, and `B = 2` keeps
  four different bytes, a sign, carries between bytes, and addresses of a few pages. Four UTLB entries
  are fewer than the pages and the frames the OS may use, so the OS evicts. One event (interrupt,
  save-state or injection) comes at any instruction of a program; the arithmetic routines run
  undisturbed over operands around zero, the sign and the carry.
* `Debugger`: two frames and handlers nest, one interrupt comes while awake, and a host call runs six
  instructions at most, less than its function needs when it is interrupted. Pages of two instructions
  make the filter miss and hit. Each set of breaks has the calls that may be made under it.
* `DebugSession`: two calls of the user and one stop by the program; five pairs of calls, each the pair of
  goroutines that meet under `d.mu`, or miss each other before it (`start` and `list`).
* `Studio`: two calls of four kinds, since a race that the properties are about is between two calls, or a
  call and the autosave; as many machines as they can build, one autosave in flight, and no unit of work in
  `host`: snapshots of different eras differ, which is all that its properties tell apart.
* `Storage` has a sector of two cells and one of one beside the OS image, two bits (the ones the OS
  polls), three jobs and three calls: a save, a load or launch, and a Restart between them. `PollLimit`
  is above `StatusReads`, as 40,000 is above 4.

### Fairness

`KeyInput`: the host goes on calling `Step` (`WF(Machine)`), and the OS serves its interrupts. Without
them nothing drains. `StepLoop`: the loop inside a `Step` runs (`WF(Loop)`), nothing about the host.
`Intc`: time passes for a halted CPU. `Core`: the CPU executes while it is awake (`StepsOn`, weak
fairness with ENABLED written out), and a sleeping CPU gets a request in the end, as a timer or a key
gives it. `Debugger`: the host's goroutine goes on stepping, an install goes on in its call (both
written out in the same way), a sleeping CPU gets its interrupt. `Studio` and `DebugSession`: goroutines
are scheduled and locks are handed on; Go's `select` chooses uniformly between a closed stop channel and
a tick that is ready, so a channel that stays closed is taken in the end (`SF(Leave)`, `SF(Exit)`).
The other specifications have no fairness, and no liveness is claimed of them.

### What the violations say

* `studio_reopen`: `loadDump` reads the session, then `start` halts the running machine and saves it.
  Opening the dump that is open goes back to the last save; the work since then is overwritten by the
  next one.
* `loop_exact`: a deferred call is due at cycle `p.at`, and `flushReleases` acts after the step that
  reaches it; `nextDue` puts the poll at `p.at`, one step too late. With polling before every instruction
  (`schedule_test.go:10`, `emulator.go:307`) it comes off one instruction earlier.
* `timer_restart`: `gtimer.go:231` and `345` store TCOR, `357` the prescaler, and then call `restart`, which
  reads `cur()`: the whole time since the channel started is counted with the new value, so the count
  jumps, where `gtimer.go:64` says that the countdown goes on from the current value.
* `continue_moves`: `dstep` forgets the skip (`debug.go:318`) before it knows whether the instruction ran.
  One that an MMU fault undid has not; when the miss handler returns to it, the breakpoint the machine
  was resumed at stops it again, against `debug.go:18` and `185`.
* `session_every`: `SetBreakpoints` looks up the machine before it takes `d.mu` (`app/debug.go:296`). A list
  sent while the first start is under way is noted when `prepareMachine` has already given the new machine
  the saved one: it is neither applied nor saved. Where a start replaces a machine, the list goes to the
  emulator that was halted. `app/debug.go:30` promises the list after every change, and to every new machine.

What the passing runs say beside them: `ImplementsLatePolling`, `ImplementsCounter`, `StopsBefore` and
`ListApplied` bound the damage. A call is late by one turn and no more; the count jumps at those writes
only, and goes on rightly; the machine stops again only where an instruction was seen undone; and the
list is in force unless a change missed its machine, until the next one that did not.

### Seen while modelling, and not run

Places where the code does something that its comments, or the manual it follows, do not say. The
models follow the code; where a property would meet one of these, it names the case it excepts.

Keys and time
* `KeyUp` deletes `downAt` without counting who holds the key: with the pointer and the keyboard on one
  key the second `KeyUp` lets go at once, before the minimum hold that the comment of `KeyDown` guarantees.
* A tap of a held key lets go of it; queued presses keep times computed with the scan period of the
  moment they were queued.
* `Resume` keeps `keysc.scanNext`, a time of the old clock, and the key enables of the running machine.

Interrupts and devices
* The comment of `gatePending` (`cpu.go:123`) says a masked source's request waits until it is unmasked.
  It does if it was pending when the mask was set; a request made under the mask is dropped by `raise`
  (`intc.go:152`), and devices request once per event.
* `SetInstrPerSecond` leaves the timers' next underflow as it was and counts a running timer's past anew
  (`ImplementsCounter` excepts such a channel until it is started over, `skewed`); `Resume` drops the CPU's
  pending requests.
* The periodic event and the calendar part when the rate changes or a slot is loaded without `SetClock`.
* A DMA to memory of 2^32 bytes and more passes the cap of 4 MB by overflow; an unaligned one sets no
  flag that a program could wait for.
* The frame server answers from two critical sections (`frame.go:38`): the picture may be of a later
  moment than its generation, or of the machine before (`page.own`).

CPU
* `mov.l @Rm+,Rn` with n = m adds four to the loaded value and `mov.l Rn,@-Rn` stores the decremented
  one; SHAD and SHLD by multiples of -32 other than -32 differ from the manual.
* `userBreak` does not clear the reservation, though `cpu.go:60` says exceptions clear it, and `Resume`
  does not reset it.
* `bsr`, `jsr` and `rte` change PR or SR before a slot-illegal exception.
* The UBC counts fetches of instructions that then fault; a break after an untaken `bt/s` whose slot
  faults is lost; a break after `trapa` or an illegal instruction overwrites SSR and SPC
  (`live` is from before the instruction, `ubc.go:279`); `ReturnKept` is about what starts blocked.
* `callInject` on a sleeping CPU never runs its routine, and does not save DBR, the reservation, or sleep.

Debugger and its session
* `callOS` puts `c.r` and `c.rbank1` back and then calls `c.setSR(sr0)` (`oscall.go:93-95`). When the budget
  ended in an interrupt handler SR.RB is set, so `setSR` exchanges R0-R7 with the other bank once more: the
  program goes on with the registers of the wrong bank, until an instruction exchanges them again.
  `HostCallsUnseen` says that this is so, and exactly then, and that everything else is put back.
* The skip stays set while the debugger is off: a breakpoint added later at the place of the last resume
  misses its first arrival. `SetRegister("pc")` says a breakpoint there stops before it runs, but
  `Continue` arms the skip at the new PC.
* `InstallAddin` and `InstallFile` step the machine outside `callOS` too, without muting the debugger and
  without looking at a stop that is latched (`debug.go:19`, `docs/DEBUG_API.md:167`).
* An interrupt accepted after the borrowed function has returned, in the same chunk, has its handler cut off.
* Hits are counted twice when an instruction is undone and run again. Stepping out from the first
  instruction of an interrupt function ends early when another interrupt is pending; from a handler's
  entry it ends at the return stub.
* In `app/debug.go`: a status read between `running` and `Continue` notes the old stop again; the snapshot
  reads the registers before the stop's number; two snapshots in flight may be applied out of order; a
  list set with no machine is not saved (`session_every`); a condition that does not compile makes the
  breakpoint unconditional; an edit made while the list is restored is overwritten; a fetch that fails
  keeps its number taken (`StopsShown` excepts it).

Storage and the Studio
* A slot loaded while the chip waits for a data word makes it program the resumed routine's unlock into
  the OS image (`FirmwareIntact` without `~torn` fails in eight steps); a save-state between an erase and
  its first status read resumes into a routine that reports a failed erase.
* `LoadSlot` overlays its pages on the array as it is, so a page that was as in the image when the slot was
  saved keeps what was stored since, though `emulator.go:469` says a resume lands exactly where the
  snapshot was taken.
* `Restart` takes the image of a machine that runs on, and the image is then the baseline of the deltas:
  what was stored before it is in no later session, and the next launch lays the session over the dump.
* `Resume` sets the clock to 0 before it looks at the blob: after a damaged one the running machine's
  timers wait for times of the old clock. The unlock-bypass program (`0x20`), which the wiki lists among
  the OS's routines, is a reset to the chip.
* An autosave or a restart begun before `ForgetChanges` removes the session (`app.go:367`) puts it back, or
  runs it on, though `app.go:356` says that it is dropped. The shortest: the autosave takes its snapshot
  (`app.go:141`), the forget halts the machine and removes the file, the autosave writes its own and renames
  it, and the dump that `ForgetChanges` opens resumes it. `ForgetDrops` excepts what `outlived` a forget.
  An autosave that races with a fault keeps a crashed machine, for it looks for the fault and takes the snapshot under two locks.
* Two overlapping calls that end in `start` leak a machine, and `ForgetChanges` beside one of them closes a
  stop channel twice (`ClosedOnce` excepts it, `missed`). Nothing is flushed to the disk before the rename of a session (`store.go:93`).

## 4. The proofs

All proofs are checked by TLAPS from the modules' definitions and the named assumptions on their
constants, which TLC evaluates in every run: `KeyscAssumption`, `KeyInputAssumption`, `StepAssumption`,
`IntcAssumption`, `StudioAssumption`, `FlashAssumption`, `StorageAssumption`, `SessionAssumption`,
`TracedAssumption`, `DebuggerAssumption`, `BAssumption`, `MmuAssumption`, `RegsAssumption`,
`MachinesAtRest`, and those of the timed devices and of the display.

* `KeyInputProofs`. `TypeCorrect`: types are inductive. `ScheduleHolds`: `Schedule` is inductive with
  the types, for a `Steady` host (one scan period, CPU steps of at most half a gap). It says that the
  queued presses are a hold and a gap apart, that none is overdue by half a gap, and that every release
  that is deferred, or would be if the user let go now, comes no later than the first of them. The last
  part is what makes it inductive: `KeyUp` turns a `downAt` into a deferred release. The step that
  matters is `flushReleases`: when a queued press comes off, the next one is a whole hold and gap away.
  `PressesNeverOverlap` follows: one press at a time, after every deferred release. `Steady` is needed:
  TLC finds presses that overlap when the scan period changes between two calls, or when a blit is
  longer than half a gap.
  `NoKeyStuck` holds for hosts with any periods, sources and steps. A key may be queued several times,
  pressed by sources that know nothing of each other, and a release finds its press by key alone; so the
  invariant counts debts. Each queued press that has no release yet is owed by a source of its own
  that still holds the key (`Owes`), and a key in the matrix with neither a deferred release nor a tap has
  one more holder to spare (`Spares`). `KeyUp` gives its release to the oldest press of the key; the source
  that owed that press takes over the one the releasing source owed.
  `PressesAreRead` is the promise of `KeyDown` end to end: a key that leaves the matrix was seen by three
  scans and read by the OS. The invariant (`Watched`) is a budget of time for every time `t` at which a
  held key may leave (`Ends`): the scans it still needs end before `t` (`ScansFit`), and so does the OS's
  read (`ReadsFit`), because an interrupt is pending, or the driver is about to enable the one that the next
  scan raises. `DriverFollows` is the part that is easy to overlook: the unit's `wasHeld` and the driver's
  state may not disagree, or the driver waits for a press edge that the unit does not see. It holds
  because a key is read before it leaves, so it is proved together with the property. `Turns`
  says that a key's presses and releases do not overlap in the queues. The theorem is about an `Attended`
  host, and TLC shows why: with two sources, with an instruction of two cycles (the third scan may come
  after the hold), with an OS slower than a scan period, or with `ReleaseAllKeys` between a scan and the
  OS's read, presses are lost (the last one leaves `wasHeld` set while the driver idles, and a press before
  the next scan makes no edge). An OS exactly as slow as a scan period is only model-checked.
* `MachineProofs`, of the step loop. `DueStaysEarliest`: `due` is never later than an event while the loop does not
  poll. `ImplementsLate`: every step of `StepLoop` is one of `PollLoop`'s `LateSpec` (none of `Spec` need be:
  `loop_exact`). Polling turns map by shape;
  `RunOn` is a turn in which `NothingDue` (from the invariant) makes the tick the identity; a jump is
  `Doze`, because `due` was computed anew after the CPU fell asleep.
* `MachineProofs`, of the interrupts. `TypeCorrect`, and `NoForeignHandler`: a world's enabled sources are its
  own, also halfway through a switch, because a switch runs with interrupts blocked and `gatePending` looks at the priority
  again at acceptance. `NestsByLevel`: under INTMU the mask covers every open handler, and so does every
  mask a handler opened later will restore; without the second half a return would break the first.
  `RequestsStay`: a step that is no acceptance leaves `pending`, or takes the disabled sources out of it.
* `DevicesProofs`. `EventsOnPhase`: the armed periodic event of the RTC is a multiple of its period and no
  more than one away, whatever the rate and the save-states. `GridInv` also says so of an event no one
  has asked for since, for RCR2 may select the same period again, and needs only that a rate has a
  period of at least a cycle. `ConversionsEnd`: what the OS started is under way or answered. `ConversionInv`
  ties each history entry to the flag and deadline of its kind: a conversion that is armed has a time, at
  most its whole time away on the clock it counts, and no flag is set while one of its kind is owed.
  `TimersCount` is the refinement of `Counter`. `ClosedForm` says what a chain of underflows computes, by
  induction over the cycles that a poll lets pass (`CountingIs`): the count read from the base is the one
  clocked cycle by cycle, across as many reloads as fall in between. `TimersInv` says that the next
  underflow of a channel is on time (`OnTime`), unless its rate was changed under way (`skewed`); a write then
  rebases it to the same count and a whole divisor, or is one of `Reread`, where the count jumps to one that
  the new value allows, from which the channel is on time again.
  `ChainsAreExact`: `AddExact` and `SubExact` go over the digits of a word by induction, `ChainStep` adds a
  word to the chain. `CalendarFollows`: the loops over years and months find the one year and the one
  month a day lies in (`OneYear`, `OneMonth`), so the day after lies in the same, the next, or the first
  of the next. The seconds wrap at `Wide`, as the code's 64 bits do, and a wrap is no step of a day.
* `DisplayProofs`. `RestoringIsQuiet`: a channel that any write of CHCR leaves is `Inert`: written again it
  starts nothing, for a transfer sets TE, and one refused for its alignment is refused again.
  `SwitchInv` says so of the registers and of the saved ones; a restore then leaves memory and panel.
  `RastersStayInOrder`: `Scan` says how quotient and remainder of a place in a window go to those of the
  next, along the side the mode scans first; `NextCell` that `Advanced` makes this very step, and
  `StreamStates` carries it over a push of any length by induction. `PagesStayCurrent`: a generation
  stands for one picture (`PictureAt`), its last bit telling whether the panel is lit; no generation the
  host knows is ahead of the panel's (`PageInv`), so one that is behind will never be the panel's again.
  The page is that of focus `host`, whose programs push pixel by pixel; transfers have a focus of their own.
* `MachineProofs`, of the Studio. `SessionsStayWhole`: among saves that do not overlap, the one that is
  filling or about to rename owns the temporary file, and the file is whole when it is renamed; a crash or
  a full disk leaves the session alone (`SaveInv`). `MachinesHaltOnce`: the machine in `a.m` has not been
  halted, and each call about to halt has a machine of its own that is not in `a.m` any more (`HaltInv`):
  `Take` empties `a.m` in the critical section in which it reads it. `ForgetChanges` does so in two, and
  two calls may then halt one machine: the invariant says so of behaviours in which no forget emptied `a.m`
  of another machine than the one it found (`missed`), whatever else overlaps.
* `StorageProofs`. `FirmwareStays`: the OS image in the flash is the dump's while no slot is loaded in
  the middle of a command. The invariant (`Safe`) says where the chip stands: idle, or exactly where the
  routine that writes has left it (`InStep`), with only storage words in its buffer; so an unlock, which
  is addressed to the OS image, is never taken for data. After a launch the chip is idle while the
  routine goes on in the middle, and each write that is left is then refused or is a whole unlock. The
  same is said of what each saved state holds, and the images and deltas agree with the dump there.
  `JobsDoAsAsked` adds what chip and array hold at each place of the routine (`JobInv`): the chip has
  understood every write so far, the array changes with the last of them, and an erase answers as busy
  for fewer reads than the routine still waits. It assumes
  `Patient`: an erase answers at least one status read as busy, and the OS waits for as many as there are
  (4 against 40,000 in the code). `LaunchesLand`: a session holds what rebuilds its storage from its image
  (`Restores`), page for page, since a page left out of the delta is one that equals the image.
* `DebuggerProofs`. `StopsComeBefore` and `StopsComeAfter`, for every program, every list of breakpoints and
  watchpoints, and every order of the calls. The proofs follow an instruction through `dstep`: the
  interrupt accepted before it (`InterruptedStep`), the checks before (`BeforeStep`), its run (`RunsOutcome`),
  the checks after (`AfterStep`); `Told` is what the step then owes the user, and `DebugRunStep` and `OffStep`
  say that the fast loop and the bare CPU owe no less. Two parts of `DebugInv` carry this. `Armed`: every
  address asked for is on a page of the filter and everything asked for has its flag on, so what a fast
  path skips cannot stop; every edit, goal and stop has to end in `refresh`, or to leave alone what the
  filter rests on (`FreeFields`). `Sparing`: the address resumed from is spared exactly as long as the
  skip is armed, and never past a stop. Without it a breakpoint stop could be at the spared place, or an
  instruction could slip through twice; a stop at that address says that its instruction was seen undone.
  `HostCallsStayUnseen`: `RestoredKeeps` says what the end of a call puts back, the exchange of the banks by
  `setSR` included, and no other action runs during a host call. The assumptions are on the program (a table of instructions with well-formed
  accesses) and on how the user starts (a debugger that `refresh` leaves as it is, not stopped).
* `CoreProofs`. The inductive invariant is `Rest`: no instruction is under way (`NothingHalfDone`). That a
  step keeps it is what `stepMMU` promises, so the proof is about what an instruction may have done when
  it faults. `Work` says what each group of instructions (register, load, store, modify, `mac`, branch,
  system) may touch; `Done`, what has been done when a fault ends it: nothing outside the fields that
  `RolledBack` restores, and nothing stored before a later access faults. `DoneOn` and `DelayedDone` put a
  branch and its slot together, `PlainDone` is one instruction with its slot, `StepAfter` adds the
  exception, `InstructionRest` the break unit. The slices of a routine that the host injects are by
  induction over its budget (`RanRest`, `InjectedRest`).
  `FaultsArePrecise` reads the same lemmas the other way: the handler of a fault finds the registers, the
  memory and the banks as they were before the instruction (before the branch, for its slot), with breaks
  armed or not. `BreaksAreAsked`: when a break is taken, a channel that may break matched at that place;
  one before the instruction finds the memory untouched.
  `ReturnIsKept`: in a handler that is blocked, SSR, SPC and SGR change by the program's own loads and
  `rte` only. It leaves one case out (`Paired`): with breaks on, `stepUBC` runs an untaken `bt/s` and its
  slot as one step, in which the slot's own loads count. `ResumedTranslates`: a save-state leaves out the
  memory of the last hit, and where at most one entry of the UTLB matches, the look-up does not depend on
  it.
  The OS is a parameter: the theorems assume of it what `OsKeeps` says (in its handlers it writes SPC, the
  MMU, the memory and the channels, and asks for no operand break where none was asked for), and
  `OsDoesKeeps` shows it of the OS that the runs use. `MachinesAtRest` says that a run starts between two
  instructions.
* `DebugSessionProofs`. `ListIsApplied` and `HitsStay`: entries and the emulator's breakpoints correspond one
  to one at every step (`Matched`), halfway through a change of the list too. `DropStep`, `AddStep` and
  `BreakStep` say what each part of a change does to them; new ids are distinct because they count the new
  entries below (`RankBelow`). `Phase` says how far a change has come, `Owned` whose machine the session
  is: the one that is open, or the one a start is about to publish. A change may be under way on an emulator
  that a start has left; both theorems except what it leaves behind (`astray`), and say nothing of the time
  until the next change, or the next start, has put it right. A turn of the emulator, a stop that is
  noted and a control call leave the list alone and lose no hit (`Quiet`).

Only model-checked:
* liveness, which is out of the prover's reach: `QueuesDrain`, `ViewConverges`, `StepReturns`,
  `RequestWakes`, `CallsEnd`, `ForgetDrops`, `Finishes`, `StepsEnd`, `StopsShown`;
* `StepLands`: where a step over or out ends depends on how the program uses its stack and nests its
  handlers (a program of arbitrary jumps has no "caller" to land in), so it is a fact about programs
  like those of the instances, and about no more handlers than the debugger remembers;
* of `Core`, `OnTrack` and `BreakExact`: they compare a program with its undisturbed run, so they need an
  OS that maps the right page and serves the right trap, which the repository does not hold (what is the
  core's part in them is `FaultsArePrecise` and `BreaksAreAsked`); `ResultsExact` and `IncrementsCounted`,
  which are about what the texts of the instances' routines compute, over operands around zero, the sign
  and the carry.

`BreaksAsked`, `FaultsPrecise` and `ResumeTranslates`, and the invariant `Rest`, are stated in
`CoreProofs` and are in no run.

## 5. Not modelled

Parts left out of what is modelled:
* the debugger's variant of the loop and `exactTick` in `StepLoop`; the debugger's views and edits of
  registers and memory (the PC apart), the call stack;
* CPG, INTX, the free counter and the read-only registers of the devices, which answer with a constant
  or a count; the tables that say which device an address reaches; PTEA and reads of the TLB arrays;
* pixels of the native blitter and the cycles it charges in `Debugger` (`StepLoop` has the cycles);
* which OS functions an install calls, and with which results;
* DQ6 and DQ2 of the flash's status, reads beyond its array, widths of accesses;
* the other memories and registers of a save-state in `Storage` (the CPU's are in `Core`, the devices' in
  `Devices`, the panel's in `Display`), damaged blobs and files;
* settings, layout, slots, installs, pacing and status in the Studio; watchpoints and conditions of
  `DebugSession`'s list, which travel as its breakpoints do.

Parts not modelled at all:
* SH-4 disassembly and analysis (`sh4/`): tables of opcodes, and a worklist over the code of a dump which
  touches nothing of the machine's state;
* the CLI and its web page, the Studio's listing and analysis views, its JavaScript, the Android host: plumbing
  and formatting over the calls that are modelled, and hosts like the ones of `KeyInput` and `DebugSession`;
* the Python oracle, which the repository's own tests compare with the core, instruction by instruction;
* scripts and probes (`re/`, `tools/`, `os/`), which run outside the emulator.

What would add most next: widths of 16 and 32 bits for `Alu`'s
routines; the worklist of `sh4/analysis.go` against the set of reachable code.
