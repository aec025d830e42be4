------------------------------ MODULE KeyInput ------------------------------
(***************************************************************************)
(* The host's key calls on the machine, emu_go/emulator.go (KeyDown, KeyUp,*)
(* InjectKey, ReleaseAllKeys, SetKeyScanPeriod, the part of Resume that    *)
(* concerns keys) and the tap driver of keysc.go, composed with the        *)
(* key-scan unit of Keysc.                                                 *)
(*                                                                         *)
(* Host calls and Step take e.mu, so each is one action.  Step's loop has  *)
(* two kinds of turn: Iterate, which polls (device tick, CPU step, tap     *)
(* driver, deferred releases and queued presses), and RunOn, an            *)
(* instruction of cpu.run while nothing is due, which polls nothing.  A    *)
(* CPU step may take more than one cycle (the native blitter charges a     *)
(* whole blit at once, hle.go).                                            *)
(*                                                                         *)
(* A host has input sources (pointer, keyboard); each source releases a    *)
(* key it holds before it presses the key again, but two sources know      *)
(* nothing of each other.                                                  *)
(***************************************************************************)
EXTENDS Keysc, Sequences

CONSTANTS
  Sources,     \* input devices of the host that call KeyDown and KeyUp
  TapKeys,     \* keys the host taps with InjectKey
  Resets,      \* resets the host uses, of "release" (ReleaseAllKeys) and "resume"
  StepCycles   \* cycles one CPU step may take

ASSUME KeyInputAssumption ==
  /\ TapKeys \subseteq Keys
  /\ StepCycles \subseteq Nat \ {0}
  /\ Resets \subseteq {"release", "resume"}

tapHoldScans == 3
tapGapScans == 3
Absent == -1

VARIABLES
  downAt,      \* cycle of the KeyDown of each held key, Absent when the map has none
  pendingUp,   \* releases deferred to their minimum hold: a set of [key, at]
  pendingDown, \* queued presses: a sequence of [key, at, up]
  tapQueue, tapActive, tapKey, tapReleaseAt, tapNextAt,   \* keyTapper
  dirty,       \* the next turn polls: MMIO was written, or a Step begins
  \* history variables
  hostDown,    \* <<source, key>> pairs the user is holding
  seenScans,   \* scans (at most tapHoldScans) that saw the key since it went down
  osGot        \* keys whose present press the OS routine has read

queueVars == <<downAt, pendingUp, pendingDown>>
tapVars == <<tapQueue, tapActive, tapKey, tapReleaseAt, tapNextAt>>
keyHistory == <<hostDown, seenScans, osGot>>
keyVars == <<keyscVars, queueVars, tapVars, dirty, keyHistory>>

Release_ == [key : Keys, at : Nat]
Press_ == [key : Keys, at : Nat, up : BOOLEAN]

QueueTypeOK ==
  /\ downAt \in [Keys -> Nat \cup {Absent}]
  /\ pendingUp \subseteq Release_
  /\ pendingDown \in Seq(Press_)

TapTypeOK ==
  /\ tapQueue \in Seq(Keys)
  /\ tapActive \in BOOLEAN
  /\ tapKey \in Keys /\ tapReleaseAt \in Nat /\ tapNextAt \in Nat

HistoryTypeOK ==
  /\ hostDown \subseteq Sources \X Keys
  /\ seenScans \in [Keys -> 0..tapHoldScans]
  /\ osGot \subseteq Keys

TypeOK == KeyscTypeOK /\ QueueTypeOK /\ TapTypeOK /\ HistoryTypeOK /\ dirty \in BOOLEAN

KeyInit ==
  /\ KeyscInit
  /\ downAt = [k \in Keys |-> Absent]
  /\ pendingUp = {} /\ pendingDown = <<>>
  /\ tapQueue = <<>> /\ tapActive = FALSE /\ tapKey = OnKey
  /\ tapReleaseAt = 0 /\ tapNextAt = 0
  /\ dirty = TRUE
  /\ hostDown = {} /\ seenScans = [k \in Keys |-> 0] /\ osGot = {}

MinHold == tapHoldScans * scanPeriod
TapGap == tapGapScans * scanPeriod

\* History: a key that goes down starts a press that nobody has seen.
ForgetPress(ks) ==
  /\ seenScans' = [k \in Keys |-> IF k \in ks THEN 0 ELSE seenScans[k]]
  /\ osGot' = osGot \ ks

---------------------------------------------------------------------------
(* Host calls. *)

\* A host call comes between two Steps, and a Step's first turn polls.
HostCall == MayMove /\ moves' = moves + 1 /\ dirty' = TRUE

Busy == pendingUp # {} \/ pendingDown # <<>>

WaitTimesNow == {cycles}
\* The times a queued press must wait for: every deferred release, and the earliest release of
\* every press queued before it.
WaitTimes ==
  {cycles} \cup {r.at : r \in pendingUp}
           \cup {pendingDown[i].at + MinHold : i \in DOMAIN pendingDown}

QueuePress(k) ==
  \E t \in WaitTimes :
    /\ \A u \in WaitTimes : u <= t
    /\ pendingDown' = Append(pendingDown, [key |-> k, at |-> t + TapGap, up |-> FALSE])
    /\ UNCHANGED <<downAt, pendingUp, held, scanNext, seenScans, osGot>>

PressNow(k) ==
  LET m == Press(Matrix(held, scanNext), k) IN
  /\ held' = m.held /\ scanNext' = m.scanNext
  /\ downAt' = [downAt EXCEPT ![k] = cycles]
  /\ ForgetPress({k})
  /\ UNCHANGED <<pendingUp, pendingDown>>

KeyDown(s, k) ==
  /\ HostCall
  /\ <<s, k>> \notin hostDown
  /\ hostDown' = hostDown \cup {<<s, k>>}
  /\ IF Busy THEN QueuePress(k) ELSE PressNow(k)
  /\ UNCHANGED <<unitVars, cycles, scanPeriod, tapVars>>

\* Queued presses of k that the host has not released yet.
Unreleased(k) == {i \in DOMAIN pendingDown : pendingDown[i].key = k /\ ~pendingDown[i].up}

ReleaseQueued(k) ==
  \E i \in Unreleased(k) :
    /\ \A j \in Unreleased(k) : i <= j
    /\ pendingDown' = [pendingDown EXCEPT ![i].up = TRUE]
    /\ UNCHANGED <<pendingUp, held>>

HeldTooShortNever(k) == FALSE
HeldTooShort(k) == downAt[k] # Absent /\ cycles - downAt[k] < MinHold

DeferRelease(k) ==
  /\ pendingUp' = pendingUp \cup {[key |-> k, at |-> downAt[k] + MinHold]}
  /\ UNCHANGED <<pendingDown, held>>

ReleaseNow(k) ==
  /\ held' = held \ {k}
  /\ UNCHANGED <<pendingUp, pendingDown>>

KeyUp(s, k) ==
  /\ HostCall
  /\ <<s, k>> \in hostDown
  /\ hostDown' = hostDown \ {<<s, k>>}
  /\ IF Unreleased(k) # {} THEN ReleaseQueued(k)
     ELSE IF HeldTooShort(k) THEN DeferRelease(k) ELSE ReleaseNow(k)
  /\ downAt' = [downAt EXCEPT ![k] = Absent]
  /\ UNCHANGED <<unitVars, cycles, scanPeriod, scanNext, tapVars, seenScans, osGot>>

InjectKey(k) ==
  /\ HostCall
  /\ tapQueue' = Append(tapQueue, k)
  /\ UNCHANGED <<unitVars, cycles, held, scanPeriod, scanNext, queueVars, tapActive, tapKey,
                 tapReleaseAt, tapNextAt, hostDown, seenScans, osGot>>

SetKeyScanPeriod(p) ==
  /\ HostCall
  /\ p # scanPeriod /\ scanPeriod' = p
  /\ UNCHANGED <<unitVars, cycles, held, scanNext, queueVars, tapVars, hostDown, seenScans,
                 osGot>>

ClearQueuesOnly ==
  /\ held' = held
  /\ tapQueue' = <<>> /\ tapActive' = FALSE /\ tapKey' = OnKey
  /\ tapReleaseAt' = 0 /\ tapNextAt' = 0
  /\ pendingUp' = {} /\ pendingDown' = <<>>
  /\ downAt' = [k \in Keys |-> Absent]
ClearQueues ==
  /\ held' = {}
  /\ tapQueue' = <<>> /\ tapActive' = FALSE /\ tapKey' = OnKey
  /\ tapReleaseAt' = 0 /\ tapNextAt' = 0
  /\ pendingUp' = {} /\ pendingDown' = <<>>
  /\ downAt' = [k \in Keys |-> Absent]

\* The host lost focus; the user's fingers stay where they are.
ReleaseAllKeys ==
  /\ HostCall
  /\ ClearQueues
  /\ UNCHANGED <<unitVars, cycles, scanPeriod, scanNext, hostDown, seenScans, osGot>>

\* Resume of a state saved with the keyboard idle: time starts over, resumeDefaults; the
\* enables and the time of the next scan stay what they were.
Resume ==
  /\ HostCall
  /\ cycles' = 0
  /\ ClearQueues
  /\ on' = TRUE /\ mode' = "normal" /\ ie' = {"detect"} /\ flags' = {}
  /\ scanLeft' = 0 /\ wasHeld' = FALSE
  /\ irq' = FALSE /\ irqAt' = 0 /\ isr' = <<>> /\ osSaw' = "idle"
  /\ UNCHANGED <<enabled, scanPeriod, scanNext, hostDown, seenScans, osGot>>

---------------------------------------------------------------------------
(* One turn of the loop in stepLocked. *)

\* keyTapper.drive: let the tapped key go, or press the next one of the queue.
TapLetsGoForNext(now) == tapActive /\ tapQueue # <<>> /\ now >= tapReleaseAt
TapLetsGo(now) == tapActive /\ now >= tapReleaseAt
TapGoesDown(now) == ~tapActive /\ tapQueue # <<>> /\ now >= tapNextAt

TapMatrix(m, now) ==
  IF TapLetsGo(now) THEN Release(m, tapKey)
  ELSE IF TapGoesDown(now) THEN Press(m, Head(tapQueue)) ELSE m

DriveTap(now) ==
  \/ /\ TapLetsGo(now)
     /\ tapActive' = FALSE /\ tapNextAt' = now + TapGap
     /\ UNCHANGED <<tapQueue, tapKey, tapReleaseAt>>
  \/ /\ TapGoesDown(now)
     /\ tapActive' = TRUE /\ tapKey' = Head(tapQueue) /\ tapQueue' = Tail(tapQueue)
     /\ tapReleaseAt' = now + MinHold
     /\ UNCHANGED tapNextAt
  \/ ~TapLetsGo(now) /\ ~TapGoesDown(now) /\ UNCHANGED tapVars

\* The presses flushReleases takes off the queue: while the first one is due.
IsDuePrefix(n, now) ==
  /\ \A i \in 1..n : pendingDown[i].at <= now
  /\ n < Len(pendingDown) => pendingDown[n + 1].at > now

LandedKeys(n) == {pendingDown[i].key : i \in 1..n}
LandedHeld(n) == {pendingDown[i].key : i \in {j \in 1..n : ~pendingDown[j].up}}
LandedUp(n, now) ==
  {[key |-> pendingDown[i].key, at |-> now + MinHold] : i \in {j \in 1..n : pendingDown[j].up}}

\* The matrix after the n due presses, then the deferred releases whose time has come.
Flushed(m, n, now) ==
  Matrix((m.held \cup LandedKeys(n)) \ {r.key : r \in {u \in pendingUp : now >= u.at}},
         IF n > 0 /\ m.held = {} THEN 0 ELSE m.scanNext)

FlushQueues(n, now) ==
  /\ pendingDown' = SubSeq(pendingDown, n + 1, Len(pendingDown))
  /\ pendingUp' = {r \in pendingUp \cup LandedUp(n, now) : now < r.at}
  /\ downAt' = [k \in Keys |-> IF k \in LandedHeld(n) THEN now ELSE downAt[k]]

\* History: the scan of this turn saw the sensed keys, before the turn moves any.
NoteScan(landed) ==
  /\ seenScans' = [k \in Keys |->
       IF k \in landed THEN 0
       ELSE IF ScanDue /\ Active /\ k \in Sensed /\ seenScans[k] < tapHoldScans
            THEN seenScans[k] + 1 ELSE seenScans[k]]
  /\ osGot' = osGot \ landed

Iterate(d) ==
  /\ cycles + d <= MaxCycles
  /\ IsrInTime(d)
  /\ UnitTick
  /\ cycles' = cycles + d
  /\ dirty' = FALSE
  /\ DriveTap(cycles')
  /\ \E n \in 0..Len(pendingDown) :
       LET m == Flushed(TapMatrix(Matrix(held, NextScan), cycles'), n, cycles') IN
       /\ IsDuePrefix(n, cycles')
       /\ FlushQueues(n, cycles')
       /\ held' = m.held /\ scanNext' = m.scanNext
       /\ NoteScan(LandedKeys(n) \cup {k \in {tapKey'} : tapActive' /\ ~tapActive})
  /\ UNCHANGED <<scanPeriod, moves, hostDown>>

\* nextDue, its part about keys: the time nothing happens before.
BeforeDue ==
  /\ cycles < scanNext
  /\ \A r \in pendingUp : cycles < r.at
  /\ pendingDown # <<>> => cycles < Head(pendingDown).at
  /\ tapActive => cycles + 1 < tapReleaseAt
  /\ ~tapActive /\ tapQueue # <<>> => cycles + 1 < tapNextAt

RunOn(d) ==
  /\ ~dirty /\ BeforeDue
  /\ cycles + d <= MaxCycles
  /\ IsrInTime(d)
  /\ cycles' = cycles + d
  /\ UNCHANGED <<unitVars, held, scanPeriod, scanNext, moves, queueVars, tapVars, dirty,
                 keyHistory>>

---------------------------------------------------------------------------
OsRead == IsrRead /\ osGot' = osGot \cup isr'[1]
                  /\ UNCHANGED <<queueVars, tapVars, dirty, hostDown, seenScans>>
OsAck == IsrAck /\ dirty' = TRUE /\ UNCHANGED <<queueVars, tapVars, keyHistory>>
OsConfigure(c) ==
  Configure(c) /\ dirty' = TRUE /\ UNCHANGED <<queueVars, tapVars, keyHistory>>

Host ==
  \/ \E s \in Sources, k \in Keys : KeyDown(s, k) \/ KeyUp(s, k)
  \/ \E k \in TapKeys : InjectKey(k)
  \/ \E p \in Periods : SetKeyScanPeriod(p)
  \/ "release" \in Resets /\ ReleaseAllKeys
  \/ "resume" \in Resets /\ Resume

Machine == \E d \in StepCycles : Iterate(d) \/ RunOn(d)

KeyNext == Host \/ Machine \/ OsRead \/ OsAck \/ \E c \in Configs : OsConfigure(c)

Fairness == WF_keyVars(Machine) /\ WF_keyVars(OsRead) /\ WF_keyVars(OsAck)

KeySpec == KeyInit /\ [][KeyNext]_keyVars
KeyFairSpec == KeySpec /\ Fairness

---------------------------------------------------------------------------
(* Properties. *)

\* A key leaves the matrix on a host's release or a due one, not by a reset of the matrix.
LetGo == Machine \/ \E s \in Sources, k \in Keys : KeyUp(s, k)

\* KeyDown promises that a press stays visible for at least tapHoldScans scans: however early the
\* host's up comes, a key that leaves the matrix has been seen by that many scans, and (end to
\* end) the OS routine has read it down.
EveryPressRead ==
  [][LetGo => \A k \in held \ held' : seenScans'[k] = tapHoldScans /\ k \in osGot']_keyVars

\* Queued presses never overlap: one press comes off the queue at a time, and only when every
\* release that was deferred has been done.
OneAtATime ==
  [][Machine /\ pendingDown' # pendingDown =>
       /\ Len(pendingDown') = Len(pendingDown) - 1
       /\ pendingUp \cap pendingUp' = {}]_keyVars

\* The schedule behind OneAtATime (inductive while the period is steady): nothing queued is
\* overdue by half a gap, queued presses are a hold and a gap apart, and every release that is
\* deferred, or would be if the user let go now, comes no later than the first of them.
Schedule ==
  /\ \A k \in Keys : downAt[k] # Absent => downAt[k] <= cycles
  /\ \A i \in DOMAIN pendingDown :
       /\ 2 * cycles < 2 * pendingDown[i].at + TapGap
       /\ \A j \in DOMAIN pendingDown :
            i < j => pendingDown[i].at + MinHold + TapGap <= pendingDown[j].at
       /\ \A r \in pendingUp : r.at <= pendingDown[i].at
       /\ \A k \in Keys : downAt[k] # Absent => downAt[k] + MinHold <= pendingDown[i].at

\* A host that keeps one scan period, and no CPU step longer than half a gap.
Steady ==
  /\ \A p, q \in Periods : p = q
  /\ \A p \in Periods, d \in StepCycles : 2 * d <= tapGapScans * p

\* No stuck key: a key in the matrix is one the user holds, one with a deferred release, or the
\* key being tapped.
NoStuckKey ==
  \A k \in held : \/ \E s \in Sources : <<s, k>> \in hostDown
                  \/ \E r \in pendingUp : r.key = k
                  \/ tapActive /\ tapKey = k

\* The host's calls take effect in the end: no press, release or tap stays queued.
QueuesDrain == <>[](~Busy /\ tapQueue = <<>> /\ ~tapActive)

\* Once nobody moves a key any more, the OS driver ends in the state of the matrix: it knows of
\* a held key, and it has seen every key released (the two scans the unit reports after the
\* matrix went empty are what brings the driver back to idle).
ViewConverges == <>[](osSaw = IF Sensed = {} THEN "idle" ELSE "held")
=============================================================================
