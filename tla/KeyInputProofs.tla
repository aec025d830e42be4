--------------------------- MODULE KeyInputProofs ---------------------------
(***************************************************************************)
(* Proofs about KeyInput: type correctness, that queued presses come off   *)
(* one at a time for a host with a steady scan period, that no key is      *)
(* stuck, for any number of input sources, keys and queued presses, and    *)
(* that every press is read, for one source and an OS that keeps up.       *)
(***************************************************************************)
EXTENDS KeyInput, SequenceTheorems, TLAPS

USE DEF KeyscAssumption, KeyInputAssumption

---------------------------------------------------------------------------
(* The unit's tick keeps the types of what it writes. *)
LEMMA UnitTickType ==
  ASSUME KeyscTypeOK, UnitTick
  PROVE  /\ flags' \subseteq Flag /\ scanLeft' \in 0..2 /\ irqAt' \in Nat
         /\ wasHeld' \in BOOLEAN /\ irq' \in BOOLEAN
         /\ UNCHANGED <<enabled, on, mode, ie, isr, osSaw>>
<1>1. CASE ~ScanDue
  BY <1>1 DEF UnitTick, KeyscTypeOK
<1>2. CASE ScanDue /\ ~Active
  BY <1>2 DEF UnitTick, Scan, KeyscTypeOK
<1>3. CASE ScanDue /\ Active
  <2>1. flags' \subseteq Flag /\ irqAt' \in Nat
    BY <1>3 DEF UnitTick, Scan, KeyscTypeOK, Flag
  <2>2. scanLeft' \in 0..2
    BY <1>3 DEF UnitTick, Scan, KeyscTypeOK, LeftAtScan
  <2>3. wasHeld' \in BOOLEAN /\ irq' \in BOOLEAN
    BY <1>3 DEF UnitTick, Scan, KeyscTypeOK
  <2> QED BY <2>1, <2>2, <2>3 DEF UnitTick
<1> QED BY <1>1, <1>2, <1>3

LEMMA InitType == KeyInit => TypeOK
<1> SUFFICES ASSUME KeyInit PROVE TypeOK
  OBVIOUS
<1> USE KeyscAssumption DEF KeyInit, KeyscInit
<1>1. KeyscTypeOK
  <2>1. isr \in {<<>>} \cup (SUBSET Keys) \X (SUBSET Flag)
    OBVIOUS
  <2>2. ie \subseteq Flag /\ flags \subseteq Flag
    BY DEF Flag
  <2>3. held \subseteq Keys /\ enabled \subseteq Keys
    OBVIOUS
  <2>4. cycles \in Nat /\ scanNext \in Nat /\ irqAt \in Nat /\ moves \in Nat /\ scanLeft \in 0..2
    OBVIOUS
  <2>5. on \in BOOLEAN /\ wasHeld \in BOOLEAN /\ irq \in BOOLEAN
    OBVIOUS
  <2>6. /\ mode \in {"off", "detect", "normal", "sync"} /\ osSaw \in {"idle", "held", "released"}
        /\ scanPeriod \in Periods
    OBVIOUS
  <2> QED BY <2>1, <2>2, <2>3, <2>4, <2>5, <2>6 DEF KeyscTypeOK
<1>2. pendingDown \in Seq(Press_) /\ tapQueue \in Seq(Keys)
  BY EmptySeq
<1>3. downAt \in [Keys -> Nat \cup {Absent}] /\ seenScans \in [Keys -> 0..tapHoldScans]
  BY DEF Absent, tapHoldScans
<1>4. QueueTypeOK
  BY <1>2, <1>3 DEF QueueTypeOK
<1>5. TapTypeOK
  BY <1>2 DEF TapTypeOK
<1>6. HistoryTypeOK
  BY <1>3 DEF HistoryTypeOK
<1>7. dirty \in BOOLEAN
  OBVIOUS
<1> QED BY <1>1, <1>4, <1>5, <1>6, <1>7 DEF TypeOK

---------------------------------------------------------------------------
(* One lemma per kind of step. *)

LEMMA HoldIsNat ==
  ASSUME TypeOK
  PROVE  MinHold \in Nat /\ TapGap \in Nat /\ MinHold > 0 /\ TapGap = MinHold
<1>1. scanPeriod \in Periods
  BY DEF TypeOK, KeyscTypeOK
<1>2. Periods \subseteq Nat \ {0}
  BY KeyscAssumption
<1> QED BY <1>1, <1>2 DEF MinHold, TapGap, tapHoldScans, tapGapScans

LEMMA PressType ==
  ASSUME NEW m \in [held : SUBSET Keys, scanNext : Nat], NEW k \in Keys
  PROVE  /\ Press(m, k) \in [held : SUBSET Keys, scanNext : Nat]
         /\ Release(m, k) \in [held : SUBSET Keys, scanNext : Nat]
BY DEF Press, Release, Matrix

LEMMA WaitTimesType == TypeOK => WaitTimes \subseteq Nat
<1> SUFFICES ASSUME TypeOK PROVE WaitTimes \subseteq Nat
  OBVIOUS
<1>1. ASSUME NEW i \in DOMAIN pendingDown PROVE pendingDown[i].at + MinHold \in Nat
  <2>1. pendingDown[i] \in Press_
    BY LenProperties, ElementOfSeq DEF TypeOK, QueueTypeOK
  <2> QED BY <2>1, HoldIsNat DEF Press_
<1>2. \A r \in pendingUp : r.at \in Nat
  BY DEF TypeOK, QueueTypeOK, Release_
<1>3. cycles \in Nat
  BY DEF TypeOK, KeyscTypeOK
<1> QED BY <1>1, <1>2, <1>3 DEF WaitTimes

LEMMA KeyDownType ==
  ASSUME TypeOK, NEW s \in Sources, NEW k \in Keys, KeyDown(s, k)
  PROVE  TypeOK'
<1> USE DEF KeyDown, HostCall
<1>1. HistoryTypeOK' /\ held' \subseteq Keys /\ scanNext' \in Nat /\ QueueTypeOK'
  <2>1. CASE Busy
    <3>1. PICK t \in WaitTimes :
            pendingDown' = Append(pendingDown, [key |-> k, at |-> t + TapGap, up |-> FALSE])
      BY <2>1 DEF QueuePress
    <3>2. [key |-> k, at |-> t + TapGap, up |-> FALSE] \in Press_
      BY WaitTimesType, HoldIsNat DEF Press_
    <3>3. pendingDown' \in Seq(Press_)
      BY <3>1, <3>2, AppendProperties DEF TypeOK, QueueTypeOK
    <3>4. QueueTypeOK'
      BY <2>1, <3>3 DEF QueuePress, TypeOK, QueueTypeOK
    <3>5. HistoryTypeOK'
      <4>1. UNCHANGED <<seenScans, osGot>>
        BY <2>1 DEF QueuePress
      <4> QED BY <4>1 DEF TypeOK, HistoryTypeOK
    <3>6. held' \subseteq Keys /\ scanNext' \in Nat
      BY <2>1 DEF QueuePress, TypeOK, KeyscTypeOK
    <3> QED BY <3>4, <3>5, <3>6
  <2>2. CASE ~Busy
    <3>1. held' \subseteq Keys /\ scanNext' \in Nat
      BY <2>2 DEF PressNow, Press, Matrix, TypeOK, KeyscTypeOK
    <3>2. QueueTypeOK'
      BY <2>2 DEF PressNow, TypeOK, KeyscTypeOK, QueueTypeOK
    <3>3. HistoryTypeOK'
      BY <2>2 DEF PressNow, ForgetPress, TypeOK, HistoryTypeOK, tapHoldScans
    <3> QED BY <3>1, <3>2, <3>3
  <2> QED BY <2>1, <2>2
<1>2. KeyscTypeOK'
  BY <1>1 DEF TypeOK, KeyscTypeOK, unitVars
<1>3. TapTypeOK'
  BY DEF TypeOK, TapTypeOK, tapVars
<1> QED BY <1>1, <1>2, <1>3 DEF TypeOK

LEMMA KeyUpType ==
  ASSUME TypeOK, NEW s \in Sources, NEW k \in Keys, KeyUp(s, k)
  PROVE  TypeOK'
<1> USE DEF KeyUp, HostCall
<1>1. downAt' \in [Keys -> Nat \cup {Absent}]
  BY DEF TypeOK, QueueTypeOK
<1>2. pendingUp' \subseteq Release_ /\ pendingDown' \in Seq(Press_) /\ held' \subseteq Keys
  <2>1. CASE Unreleased(k) # {}
    <3>1. PICK i \in Unreleased(k) : pendingDown' = [pendingDown EXCEPT ![i].up = TRUE]
      BY <2>1 DEF ReleaseQueued
    <3>2. i \in 1..Len(pendingDown) /\ pendingDown[i] \in Press_
      BY ElementOfSeq DEF Unreleased, TypeOK, QueueTypeOK
    <3>3. [pendingDown[i] EXCEPT !.up = TRUE] \in Press_
      BY <3>2 DEF Press_
    <3>4. pendingDown' \in Seq(Press_)
      BY <3>1, <3>2, <3>3, ExceptSeq DEF TypeOK, QueueTypeOK
    <3> QED BY <2>1, <3>4 DEF ReleaseQueued, TypeOK, KeyscTypeOK, QueueTypeOK
  <2>2. CASE Unreleased(k) = {} /\ HeldTooShort(k)
    BY <2>2, HoldIsNat DEF DeferRelease, HeldTooShort, Release_, TypeOK, KeyscTypeOK,
                           QueueTypeOK, Absent
  <2>3. CASE Unreleased(k) = {} /\ ~HeldTooShort(k)
    BY <2>3 DEF ReleaseNow, TypeOK, KeyscTypeOK, QueueTypeOK
  <2> QED BY <2>1, <2>2, <2>3
<1>3. KeyscTypeOK'
  BY <1>2 DEF TypeOK, KeyscTypeOK, unitVars
<1>4. TapTypeOK' /\ HistoryTypeOK' /\ dirty' \in BOOLEAN
  BY DEF TypeOK, TapTypeOK, tapVars, HistoryTypeOK
<1> QED BY <1>1, <1>2, <1>3, <1>4 DEF TypeOK, QueueTypeOK

LEMMA InjectKeyType ==
  ASSUME TypeOK, NEW k \in TapKeys, InjectKey(k)
  PROVE  TypeOK'
<1> USE DEF InjectKey, HostCall
<1>1. k \in Keys
  BY KeyInputAssumption
<1>2. tapQueue' \in Seq(Keys)
  BY <1>1, AppendProperties DEF TypeOK, TapTypeOK
<1>3. TapTypeOK'
  BY <1>2 DEF TypeOK, TapTypeOK
<1>4. KeyscTypeOK'
  BY DEF TypeOK, KeyscTypeOK, unitVars
<1>5. QueueTypeOK' /\ HistoryTypeOK'
  BY DEF TypeOK, QueueTypeOK, HistoryTypeOK, queueVars
<1> QED BY <1>3, <1>4, <1>5 DEF TypeOK

LEMMA SetKeyScanPeriodType ==
  ASSUME TypeOK, NEW p \in Periods, SetKeyScanPeriod(p)
  PROVE  TypeOK'
<1> USE DEF SetKeyScanPeriod, HostCall
<1>1. KeyscTypeOK'
  BY DEF TypeOK, KeyscTypeOK, unitVars
<1>2. QueueTypeOK' /\ HistoryTypeOK' /\ TapTypeOK'
  BY DEF TypeOK, QueueTypeOK, HistoryTypeOK, TapTypeOK, queueVars, tapVars
<1> QED BY <1>1, <1>2 DEF TypeOK

LEMMA ClearedType ==
  ASSUME TypeOK, ClearQueues, UNCHANGED <<hostDown, seenScans, osGot>>
  PROVE  QueueTypeOK' /\ TapTypeOK' /\ HistoryTypeOK' /\ held' \subseteq Keys
<1>1. QueueTypeOK'
  BY EmptySeq DEF ClearQueues, QueueTypeOK, Absent
<1>2. TapTypeOK'
  <2>1. OnKey \in Keys
    BY KeyscAssumption
  <2>2. tapQueue' \in Seq(Keys)
    BY EmptySeq DEF ClearQueues
  <2> QED BY <2>1, <2>2 DEF ClearQueues, TapTypeOK
<1>3. HistoryTypeOK'
  BY DEF TypeOK, HistoryTypeOK
<1> QED BY <1>1, <1>2, <1>3 DEF ClearQueues

LEMMA ResetType ==
  ASSUME TypeOK, ReleaseAllKeys \/ Resume
  PROVE  TypeOK'
<1>1. ClearQueues /\ UNCHANGED <<hostDown, seenScans, osGot>>
  BY DEF ReleaseAllKeys, Resume
<1>2. KeyscTypeOK'
  <2>1. CASE ReleaseAllKeys
    BY <2>1, <1>1, ClearedType DEF ReleaseAllKeys, HostCall, TypeOK, KeyscTypeOK, unitVars
  <2>2. CASE Resume
    <3>1. isr' \in {<<>>} \cup (SUBSET Keys) \X (SUBSET Flag)
      BY <2>2 DEF Resume
    <3>2. ie' \subseteq Flag /\ flags' \subseteq Flag /\ scanLeft' \in 0..2
      BY <2>2 DEF Resume, Flag
    <3>3. on' \in BOOLEAN /\ wasHeld' \in BOOLEAN /\ irq' \in BOOLEAN
      BY <2>2 DEF Resume
    <3>4. mode' \in {"off", "detect", "normal", "sync"} /\ osSaw' \in {"idle", "held", "released"}
      BY <2>2 DEF Resume
    <3>5. cycles' \in Nat /\ scanNext' \in Nat /\ irqAt' \in Nat /\ moves' \in Nat
      BY <2>2 DEF Resume, HostCall, TypeOK, KeyscTypeOK
    <3>6. held' \subseteq Keys /\ enabled' \subseteq Keys /\ scanPeriod' \in Periods
      BY <2>2, <1>1, ClearedType DEF Resume, TypeOK, KeyscTypeOK
    <3> QED BY <3>1, <3>2, <3>3, <3>4, <3>5, <3>6 DEF KeyscTypeOK
  <2> QED BY <2>1, <2>2
<1>3. dirty' \in BOOLEAN
  BY DEF ReleaseAllKeys, Resume, HostCall
<1> QED BY <1>1, <1>2, <1>3, ClearedType DEF TypeOK

LEMMA OsType ==
  ASSUME TypeOK, OsRead \/ OsAck \/ \E c \in Configs : OsConfigure(c)
  PROVE  TypeOK'
<1>1. QueueTypeOK' /\ TapTypeOK' /\ dirty' \in BOOLEAN
  BY DEF TypeOK, QueueTypeOK, TapTypeOK, OsRead, OsAck, OsConfigure, queueVars, tapVars
<1>2. CASE OsRead
  <2>1. isr' \in (SUBSET Keys) \X (SUBSET Flag) /\ isr'[1] \subseteq Keys
    BY <1>2 DEF OsRead, IsrRead, Sensed, TypeOK, KeyscTypeOK
  <2>2. KeyscTypeOK'
    BY <1>2, <2>1 DEF OsRead, IsrRead, TypeOK, KeyscTypeOK
  <2>3. HistoryTypeOK'
    BY <1>2, <2>1 DEF OsRead, TypeOK, HistoryTypeOK
  <2> QED BY <1>1, <2>2, <2>3 DEF TypeOK
<1>3. CASE OsAck
  <2>1. osSaw' \in {"idle", "held", "released"} /\ ie' \subseteq Flag
    BY <1>3 DEF OsAck, IsrAck, NextOsSaw, Flag
  <2>2. flags' \subseteq Flag /\ irqAt' \in Nat /\ isr' = <<>>
    BY <1>3 DEF OsAck, IsrAck, TypeOK, KeyscTypeOK
  <2>3. KeyscTypeOK'
    BY <1>3, <2>1, <2>2 DEF OsAck, IsrAck, TypeOK, KeyscTypeOK
  <2>4. HistoryTypeOK'
    BY <1>3 DEF OsAck, TypeOK, HistoryTypeOK, keyHistory
  <2> QED BY <1>1, <2>3, <2>4 DEF TypeOK
<1>4. ASSUME NEW c \in Configs, OsConfigure(c) PROVE TypeOK'
  <2>1. c \in BOOLEAN \X {"off", "detect", "normal", "sync"} \X SUBSET Keys
    BY KeyscAssumption
  <2>2. on' \in BOOLEAN /\ mode' \in {"off", "detect", "normal", "sync"} /\ enabled' \subseteq Keys
    BY <1>4, <2>1 DEF OsConfigure, Configure
  <2>3. KeyscTypeOK'
    BY <1>4, <2>2 DEF OsConfigure, Configure, MayMove, TypeOK, KeyscTypeOK
  <2>4. HistoryTypeOK'
    BY <1>4 DEF OsConfigure, TypeOK, HistoryTypeOK, keyHistory
  <2> QED BY <1>1, <2>3, <2>4 DEF TypeOK
<1> QED BY <1>2, <1>3, <1>4

LEMMA IterateType ==
  ASSUME TypeOK, NEW d \in StepCycles, Iterate(d)
  PROVE  TypeOK'
<1> USE DEF Iterate
<1>1. d \in Nat /\ cycles' \in Nat /\ cycles' = cycles + d
  BY KeyInputAssumption DEF TypeOK, KeyscTypeOK
<1>2. PICK n \in 0..Len(pendingDown) :
        LET m == Flushed(TapMatrix(Matrix(held, NextScan), cycles'), n, cycles') IN
        /\ IsDuePrefix(n, cycles')
        /\ FlushQueues(n, cycles')
        /\ held' = m.held /\ scanNext' = m.scanNext
        /\ NoteScan(LandedKeys(n) \cup {k \in {tapKey'} : tapActive' /\ ~tapActive})
  OBVIOUS
<1>3. TapTypeOK'
  <2>1. CASE TapGoesDown(cycles')
    <3>1. Head(tapQueue) \in Keys /\ Tail(tapQueue) \in Seq(Keys)
      BY <2>1, HeadTailProperties DEF TapGoesDown, TypeOK, TapTypeOK
    <3>2. /\ tapActive' = TRUE /\ tapKey' = Head(tapQueue) /\ tapQueue' = Tail(tapQueue)
          /\ tapReleaseAt' = cycles' + MinHold /\ tapNextAt' = tapNextAt
      BY <2>1 DEF DriveTap, TapGoesDown, TapLetsGo
    <3>3. cycles' + MinHold \in Nat
      BY <1>1, HoldIsNat
    <3> QED BY <3>1, <3>2, <3>3 DEF TypeOK, TapTypeOK
  <2>2. CASE TapLetsGo(cycles')
    <3>1. cycles' + TapGap \in Nat
      BY <1>1, HoldIsNat
    <3>2. /\ tapActive' = FALSE /\ tapNextAt' = cycles' + TapGap
          /\ UNCHANGED <<tapQueue, tapKey, tapReleaseAt>>
      BY <2>2 DEF DriveTap, TapGoesDown, TapLetsGo
    <3> QED BY <3>1, <3>2 DEF TypeOK, TapTypeOK
  <2>3. CASE ~TapGoesDown(cycles') /\ ~TapLetsGo(cycles')
    BY <2>3 DEF DriveTap, TypeOK, TapTypeOK, tapVars
  <2> QED BY <2>1, <2>2, <2>3
<1>4. \A i \in 1..Len(pendingDown) : pendingDown[i] \in Press_
  BY ElementOfSeq DEF TypeOK, QueueTypeOK
<1>5. n \in Nat /\ Len(pendingDown) \in Nat
  BY LenProperties DEF TypeOK, QueueTypeOK
<1>6. LandedKeys(n) \subseteq Keys
  BY <1>4, <1>5 DEF LandedKeys, Press_
<1>7. LandedUp(n, cycles') \subseteq Release_
  <2> SUFFICES ASSUME NEW i \in 1..n
               PROVE [key |-> pendingDown[i].key, at |-> cycles' + MinHold] \in Release_
    BY DEF LandedUp
  <2> QED BY <1>1, <1>4, <1>5, HoldIsNat DEF Release_, Press_
<1>8. QueueTypeOK'
  <2>1. pendingDown' \in Seq(Press_)
    BY <1>2, <1>5, SubSeqProperties DEF FlushQueues, TypeOK, QueueTypeOK
  <2>2. pendingUp' \subseteq Release_
    BY <1>2, <1>7 DEF FlushQueues, TypeOK, QueueTypeOK
  <2>3. downAt' \in [Keys -> Nat \cup {Absent}]
    BY <1>1, <1>2 DEF FlushQueues, TypeOK, QueueTypeOK
  <2> QED BY <2>1, <2>2, <2>3 DEF QueueTypeOK
<1>9. NextScan \in Nat
  <2>1. scanPeriod \in Nat
    BY KeyscAssumption DEF TypeOK, KeyscTypeOK
  <2> QED BY <2>1 DEF NextScan, TypeOK, KeyscTypeOK
<1>10. held' \subseteq Keys /\ scanNext' \in Nat
  <2> DEFINE m == TapMatrix(Matrix(held, NextScan), cycles')
  <2>1. Matrix(held, NextScan) \in [held : SUBSET Keys, scanNext : Nat]
    BY <1>9 DEF Matrix, TypeOK, KeyscTypeOK
  <2>2. tapKey \in Keys /\ (tapQueue # <<>> => Head(tapQueue) \in Keys)
    BY HeadTailProperties DEF TypeOK, TapTypeOK
  <2>3. m \in [held : SUBSET Keys, scanNext : Nat]
    BY <2>1, <2>2, PressType DEF TapMatrix, TapGoesDown
  <2>4. held' = Flushed(m, n, cycles').held /\ scanNext' = Flushed(m, n, cycles').scanNext
    BY <1>2
  <2> HIDE DEF m
  <2> QED BY <2>3, <2>4, <1>6 DEF Flushed, Matrix
<1>11. KeyscTypeOK'
  BY <1>1, <1>10, UnitTickType DEF TypeOK, KeyscTypeOK
<1>12. HistoryTypeOK'
  <2> DEFINE landed == LandedKeys(n) \cup {k \in {tapKey'} : tapActive' /\ ~tapActive}
  <2>1. NoteScan(landed)
    BY <1>2
  <2> HIDE DEF landed
  <2>2. \A k \in Keys : seenScans[k] \in 0..tapHoldScans
    BY DEF TypeOK, HistoryTypeOK
  <2>3. seenScans' \in [Keys -> 0..tapHoldScans]
    BY <2>1, <2>2 DEF NoteScan, tapHoldScans
  <2>4. osGot' \subseteq Keys /\ hostDown' = hostDown
    BY <2>1 DEF NoteScan, TypeOK, HistoryTypeOK
  <2> QED BY <2>3, <2>4 DEF TypeOK, HistoryTypeOK
<1> QED BY <1>3, <1>8, <1>11, <1>12 DEF TypeOK

LEMMA RunOnType ==
  ASSUME TypeOK, NEW d \in StepCycles, RunOn(d)
  PROVE  TypeOK'
<1>1. cycles' \in Nat
  BY KeyInputAssumption DEF RunOn, TypeOK, KeyscTypeOK
<1>2. KeyscTypeOK'
  BY <1>1 DEF RunOn, unitVars, TypeOK, KeyscTypeOK
<1>3. QueueTypeOK' /\ TapTypeOK' /\ HistoryTypeOK' /\ dirty' \in BOOLEAN
  BY DEF RunOn, queueVars, tapVars, keyHistory, TypeOK, QueueTypeOK, TapTypeOK, HistoryTypeOK
<1> QED BY <1>2, <1>3 DEF TypeOK

\* Type correctness: every variable of the key path keeps its type, whatever the host, the OS
\* and the loop do.
THEOREM TypeCorrect == KeySpec => []TypeOK
<1>1. KeyInit => TypeOK
  BY InitType
<1>2. TypeOK /\ [KeyNext]_keyVars => TypeOK'
  <2> SUFFICES ASSUME TypeOK, [KeyNext]_keyVars PROVE TypeOK'
    OBVIOUS
  <2>1. CASE Host
    BY <2>1, KeyDownType, KeyUpType, InjectKeyType, SetKeyScanPeriodType, ResetType DEF Host
  <2>2. CASE Machine
    BY <2>2, IterateType, RunOnType DEF Machine
  <2>3. CASE OsRead \/ OsAck \/ \E c \in Configs : OsConfigure(c)
    BY <2>3, OsType
  <2>4. CASE UNCHANGED keyVars
    BY <2>4 DEF keyVars, keyscVars, unitVars, queueVars, tapVars, keyHistory, TypeOK, KeyscTypeOK, QueueTypeOK,
                TapTypeOK, HistoryTypeOK
  <2> QED BY <2>1, <2>2, <2>3, <2>4 DEF KeyNext
<1> QED BY <1>1, <1>2, PTL DEF KeySpec

---------------------------------------------------------------------------
(* The schedule of the queue, for a steady host. *)

\* What is left of a sequence without its first n elements.
LEMMA DropProperties ==
  ASSUME NEW S, NEW s \in Seq(S), NEW n \in 0..Len(s)
  PROVE  /\ SubSeq(s, n + 1, Len(s)) \in Seq(S)
         /\ Len(SubSeq(s, n + 1, Len(s))) = Len(s) - n
         /\ \A i \in 1..(Len(s) - n) : SubSeq(s, n + 1, Len(s))[i] = s[i + n]
<1> DEFINE len == Len(s)
<1>1. len \in Nat /\ n \in Nat /\ n <= len /\ n + 1 \in Int
  BY LenProperties
<1>2. \A i \in (n + 1)..len : s[i] \in S
  BY <1>1, ElementOfSeq
<1> DEFINE rest == SubSeq(s, n + 1, len)
<1>3. /\ rest \in Seq(S)
      /\ Len(rest) = IF n + 1 <= len THEN len - (n + 1) + 1 ELSE 0
      /\ \A i \in 1..(len - (n + 1) + 1) : rest[i] = s[n + 1 + i - 1]
  <2> HIDE DEF len
  <2> QED BY <1>1, <1>2, SubSeqProperties
<1> HIDE DEF rest, len
<1>4. Len(rest) = len - n
  BY <1>1, <1>3
<1>5. \A i \in 1..(len - n) : rest[i] = s[i + n]
  <2> TAKE i \in 1..(len - n)
  <2>1. i \in 1..(len - (n + 1) + 1) /\ n + 1 + i - 1 = i + n
    BY <1>1
  <2> QED BY <1>3, <2>1
<1> QED BY <1>3, <1>4, <1>5 DEF rest, len

\* The entries of the queue, in the form the steps below use.
LEMMA QueueFacts ==
  ASSUME TypeOK
  PROVE  /\ Len(pendingDown) \in Nat /\ DOMAIN pendingDown = 1..Len(pendingDown)
         /\ \A i \in 1..Len(pendingDown) :
              /\ pendingDown[i] \in Press_ /\ pendingDown[i].at \in Nat
              /\ pendingDown[i].key \in Keys /\ pendingDown[i].up \in BOOLEAN
         /\ \A r \in pendingUp : r.at \in Nat /\ r.key \in Keys
         /\ \A k \in Keys : downAt[k] = Absent \/ downAt[k] \in Nat
         /\ cycles \in Nat
<1>1. pendingDown \in Seq(Press_) /\ pendingUp \subseteq Release_ /\ cycles \in Nat
  BY DEF TypeOK, QueueTypeOK, KeyscTypeOK
<1>2. \A i \in 1..Len(pendingDown) : pendingDown[i] \in Press_
  BY <1>1, ElementOfSeq
<1>3. Len(pendingDown) \in Nat /\ DOMAIN pendingDown = 1..Len(pendingDown)
  BY <1>1, LenProperties
<1>4. \A k \in Keys : downAt[k] = Absent \/ downAt[k] \in Nat
  BY DEF TypeOK, QueueTypeOK
<1> QED BY <1>1, <1>2, <1>3, <1>4 DEF Press_, Release_

LEMMA KeyDownSchedule ==
  ASSUME TypeOK, Schedule, NEW s \in Sources, NEW k \in Keys, KeyDown(s, k)
  PROVE  Schedule'
<1>1. UNCHANGED <<cycles, MinHold, TapGap>>
  BY DEF KeyDown, MinHold, TapGap
<1>2. CASE Busy
  <2>1. UNCHANGED <<downAt, pendingUp>>
    BY <1>2 DEF KeyDown, QueuePress
  <2>2. PICK t \in WaitTimes :
          /\ \A u \in WaitTimes : u <= t
          /\ pendingDown' = Append(pendingDown, [key |-> k, at |-> t + TapGap, up |-> FALSE])
    BY <1>2 DEF KeyDown, QueuePress
  <2> DEFINE new == Len(pendingDown) + 1
  <2>3. t \in Nat /\ cycles <= t
    BY <2>2, WaitTimesType DEF WaitTimes
  <2>4. \A r \in pendingUp : r.at <= t
    BY <2>2 DEF WaitTimes
  <2>5. \A i \in 1..Len(pendingDown) : pendingDown[i].at + MinHold <= t
    BY <2>2, QueueFacts DEF WaitTimes
  <2>7. /\ DOMAIN pendingDown' = 1..new /\ Len(pendingDown') = new
        /\ pendingDown'[new].at = t + TapGap
        /\ \A i \in 1..Len(pendingDown) : pendingDown'[i] = pendingDown[i]
    <3>1. [key |-> k, at |-> t + TapGap, up |-> FALSE] \in Press_
      BY <2>3, HoldIsNat DEF Press_
    <3>2. pendingDown \in Seq(Press_)
      BY DEF TypeOK, QueueTypeOK
    <3> QED BY <2>2, <3>1, <3>2, AppendProperties, LenProperties
  <2>8. \A i \in 1..new : i \in 1..Len(pendingDown) \/ i = new
    BY QueueFacts
  <2> HIDE DEF new
  <2>9. ASSUME NEW i \in 1..new
        PROVE  /\ 2 * cycles < 2 * pendingDown'[i].at + TapGap
               /\ \A r \in pendingUp : r.at <= pendingDown'[i].at
               /\ \A x \in Keys : downAt[x] # Absent => downAt[x] + MinHold <= pendingDown'[i].at
    <3>1. CASE i \in 1..Len(pendingDown)
      BY <3>1, <2>7, QueueFacts DEF Schedule
    <3>2. CASE i = new
      BY <3>2, <2>3, <2>4, <2>7, HoldIsNat, QueueFacts DEF Schedule
    <3> QED BY <2>8, <3>1, <3>2
  <2>10. ASSUME NEW i \in 1..new, NEW j \in 1..new, i < j
         PROVE  pendingDown'[i].at + MinHold + TapGap <= pendingDown'[j].at
    <3>1. i \in 1..Len(pendingDown)
      BY <2>8, <2>10, QueueFacts DEF new
    <3>2. CASE j \in 1..Len(pendingDown)
      BY <2>10, <3>1, <3>2, <2>7, QueueFacts DEF Schedule
    <3>3. CASE j = new
      <4>1. pendingDown'[i].at = pendingDown[i].at /\ pendingDown'[j].at = t + TapGap
        BY <3>1, <3>3, <2>7
      <4>2. pendingDown[i].at \in Nat /\ pendingDown[i].at + MinHold <= t
        BY <3>1, <2>5, QueueFacts
      <4> QED BY <4>1, <4>2, <2>3, HoldIsNat
    <3> QED BY <2>8, <3>2, <3>3
  <2> QED BY <1>1, <2>1, <2>7, <2>9, <2>10 DEF Schedule
<1>3. CASE ~Busy
  <2>1. pendingDown' = <<>> /\ pendingUp' = {} /\ downAt' = [downAt EXCEPT ![k] = cycles]
    BY <1>3 DEF KeyDown, PressNow, Busy
  <2>2. DOMAIN pendingDown' = {}
    BY <2>1
  <2>3. \A x \in Keys : downAt'[x] # Absent => downAt'[x] <= cycles
    BY <2>1, QueueFacts DEF Schedule, TypeOK, QueueTypeOK
  <2> QED BY <1>1, <2>1, <2>2, <2>3 DEF Schedule
<1> QED BY <1>2, <1>3

LEMMA KeyUpSchedule ==
  ASSUME TypeOK, Schedule, NEW s \in Sources, NEW k \in Keys, KeyUp(s, k)
  PROVE  Schedule'
<1>1. UNCHANGED <<cycles, MinHold, TapGap>> /\ downAt' = [downAt EXCEPT ![k] = Absent]
  BY DEF KeyUp, MinHold, TapGap
<1>2. \A x \in Keys : downAt'[x] # Absent => downAt'[x] = downAt[x] /\ downAt[x] # Absent
  BY <1>1 DEF TypeOK, QueueTypeOK
<1>3. /\ DOMAIN pendingDown' = DOMAIN pendingDown
      /\ \A i \in DOMAIN pendingDown : pendingDown'[i].at = pendingDown[i].at
  <2>1. CASE Unreleased(k) # {}
    <3>1. PICK i \in Unreleased(k) : pendingDown' = [pendingDown EXCEPT ![i].up = TRUE]
      BY <2>1 DEF KeyUp, ReleaseQueued
    <3>2. \A j \in DOMAIN pendingDown : pendingDown[j] \in Press_
      BY QueueFacts
    <3> QED BY <3>1, <3>2 DEF Press_
  <2>2. CASE Unreleased(k) = {}
    BY <2>2 DEF KeyUp, DeferRelease, ReleaseNow
  <2> QED BY <2>1, <2>2
<1>4. ASSUME NEW r \in pendingUp'
      PROVE  \A i \in DOMAIN pendingDown : r.at <= pendingDown[i].at
  <2>1. CASE r \in pendingUp
    BY <2>1 DEF Schedule
  <2>2. CASE r \notin pendingUp
    <3>1. HeldTooShort(k) /\ r = [key |-> k, at |-> downAt[k] + MinHold]
      BY <1>4, <2>2 DEF KeyUp, ReleaseQueued, DeferRelease, ReleaseNow
    <3> QED BY <3>1 DEF Schedule, HeldTooShort
  <2> QED BY <2>1, <2>2
<1> QED BY <1>1, <1>2, <1>3, <1>4 DEF Schedule

\* flushReleases takes at most one press off a queue that keeps its schedule, and what stays is
\* later than now, by more than a hold when a press was taken.
LEMMA FlushDrops ==
  ASSUME Steady, TypeOK, Schedule, NEW d \in StepCycles, NEW n \in 0..Len(pendingDown),
         NEW now, now = cycles + d, IsDuePrefix(n, now), FlushQueues(n, now)
  PROVE  /\ n = 0 \/ n = 1
         /\ DOMAIN pendingDown' = 1..(Len(pendingDown) - n)
         /\ Len(pendingDown') = Len(pendingDown) - n
         /\ \A i \in 1..(Len(pendingDown) - n) :
              /\ pendingDown'[i] = pendingDown[i + n]
              /\ i + n \in DOMAIN pendingDown /\ pendingDown[i + n].at \in Nat
              /\ pendingDown[i + n].at > now
              /\ n = 1 => pendingDown[i + n].at > now + MinHold
<1>1. d \in Nat \ {0} /\ 2 * d <= TapGap
  BY KeyInputAssumption DEF Steady, TapGap, TypeOK, KeyscTypeOK
<1>3. IsDuePrefix(n, now) /\ FlushQueues(n, now)
  OBVIOUS
<1>a. cycles \in Nat /\ MinHold \in Nat /\ TapGap \in Nat /\ Len(pendingDown) \in Nat
  BY QueueFacts, HoldIsNat
<1>b. DOMAIN pendingDown = 1..Len(pendingDown) /\ n \in 0..Len(pendingDown)
  BY QueueFacts
<1>c. \A i \in 1..Len(pendingDown) : pendingDown[i].at \in Nat
  BY QueueFacts
<1>4. now \in Nat /\ now > cycles /\ 2 * now <= 2 * cycles + TapGap
  BY ONLY <1>1, <1>a, now = cycles + d
\* Two due entries would be a hold and a gap apart, more than one CPU step.
<1>5. n = 0 \/ n = 1
  <2> SUFFICES ASSUME n >= 2 PROVE FALSE
    OBVIOUS
  <2>1. 1 \in 1..Len(pendingDown) /\ 2 \in 1..Len(pendingDown) /\ 2 \in 1..n
    BY ONLY <1>a, <1>b, n >= 2
  <2>2. 2 * cycles < 2 * pendingDown[1].at + TapGap /\ pendingDown[1].at + MinHold + TapGap <= pendingDown[2].at
    BY <2>1, <1>b DEF Schedule
  <2>3. pendingDown[2].at <= now
    BY <1>3, <2>1 DEF IsDuePrefix
  <2>4. pendingDown[1].at \in Nat /\ pendingDown[2].at \in Nat
    BY ONLY <1>c, <2>1
  <2> DEFINE first == pendingDown[1].at
  <2> DEFINE second == pendingDown[2].at
  <2>5. /\ first \in Nat /\ second \in Nat /\ second <= now
        /\ 2 * cycles < 2 * first + TapGap /\ first + MinHold + TapGap <= second
    BY ONLY <2>2, <2>3, <2>4
  <2> HIDE DEF first, second
  <2>6. now < first + TapGap
    BY ONLY <2>5, <1>4, <1>a
  <2> QED BY ONLY <2>5, <2>6, <1>4, <1>a
<1>6. /\ DOMAIN pendingDown' = 1..(Len(pendingDown) - n) /\ Len(pendingDown') = Len(pendingDown) - n
      /\ \A i \in 1..(Len(pendingDown) - n) : pendingDown'[i] = pendingDown[i + n]
  <2>1. pendingDown' = SubSeq(pendingDown, n + 1, Len(pendingDown))
    BY <1>3 DEF FlushQueues
  <2>2. pendingDown \in Seq(Press_)
    BY DEF TypeOK, QueueTypeOK
  <2>3. /\ pendingDown' \in Seq(Press_)
        /\ Len(pendingDown') = Len(pendingDown) - n
        /\ \A i \in 1..(Len(pendingDown) - n) : pendingDown'[i] = pendingDown[i + n]
    <3>2. /\ SubSeq(pendingDown, n + 1, Len(pendingDown)) \in Seq(Press_)
          /\ Len(SubSeq(pendingDown, n + 1, Len(pendingDown))) = Len(pendingDown) - n
          /\ \A i \in 1..(Len(pendingDown) - n) :
               SubSeq(pendingDown, n + 1, Len(pendingDown))[i] = pendingDown[i + n]
      BY ONLY <2>2, <1>b, DropProperties
    <3> QED BY ONLY <2>1, <3>2
  <2>4. DOMAIN pendingDown' = 1..Len(pendingDown')
    BY ONLY <2>3, LenProperties
  <2> QED BY ONLY <2>3, <2>4
\* What stays queued is later than now by more than what a release deferred now can wait.
<1>7. ASSUME NEW i \in 1..(Len(pendingDown) - n)
      PROVE  /\ i + n \in DOMAIN pendingDown /\ pendingDown[i + n].at \in Nat
             /\ pendingDown[i + n].at > now
             /\ n = 1 => pendingDown[i + n].at > now + MinHold
  <2>1. /\ i \in Int /\ 1 <= i /\ i + n \in 1..Len(pendingDown) /\ i \in 1..Len(pendingDown)
        /\ 1 \in 1..Len(pendingDown)
    BY ONLY <1>5, <1>a, <1>7
  <2>2. pendingDown[1].at \in Nat /\ pendingDown[i].at \in Nat /\ pendingDown[i + n].at \in Nat
    BY ONLY <2>1, <1>c
  <2>3. CASE n = 0
    <3>1. pendingDown[1].at > now
      BY <1>3, <2>3, <2>1, <2>2, <1>4 DEF IsDuePrefix
    <3>2. i = 1 \/ pendingDown[1].at + MinHold + TapGap <= pendingDown[i].at
      BY <2>1, <1>b DEF Schedule
    <3>3. i + n = i
      BY ONLY <2>1, <2>3
    <3>4. pendingDown[i].at > now
      BY ONLY <2>2, <3>1, <3>2, <1>4, <1>a
    <3> QED BY ONLY <2>1, <2>2, <2>3, <3>3, <3>4, <1>b
  <2>4. CASE n = 1
    <3>1. 2 * cycles < 2 * pendingDown[1].at + TapGap
      BY <2>1, <1>b DEF Schedule
    <3>2. 1 < i + n
      BY ONLY <2>1, <2>4
    <3>3. pendingDown[1].at + MinHold + TapGap <= pendingDown[i + n].at
      BY <2>1, <3>2, <1>b DEF Schedule
    <3>5. pendingDown[i + n].at > now /\ pendingDown[i + n].at > now + MinHold
      <4> DEFINE first == pendingDown[1].at
      <4> DEFINE later == pendingDown[i + n].at
      <4>1. first \in Nat /\ later \in Nat /\ 2 * cycles < 2 * first + TapGap /\ first + MinHold + TapGap <= later
        BY ONLY <2>2, <3>1, <3>3
      <4> HIDE DEF first, later
      <4>2. now < first + TapGap
        BY ONLY <4>1, <1>4, <1>a
      <4>3. later > now /\ later > now + MinHold
        BY ONLY <4>1, <4>2, <1>4, <1>a
      <4> QED BY ONLY <4>3 DEF later
    <3> QED BY ONLY <2>1, <2>2, <3>5, <1>b
  <2> QED BY ONLY <1>5, <2>3, <2>4
<1> QED BY ONLY <1>5, <1>6, <1>7

LEMMA IterateSchedule ==
  ASSUME Steady, TypeOK, Schedule, NEW d \in StepCycles, Iterate(d)
  PROVE  /\ Schedule'
         /\ pendingDown' # pendingDown =>
              Len(pendingDown') = Len(pendingDown) - 1 /\ pendingUp \cap pendingUp' = {}
<1> DEFINE now == cycles + d
<1>1. d \in Nat \ {0} /\ 2 * d <= TapGap /\ cycles' = now
  BY KeyInputAssumption DEF Steady, Iterate, TapGap, TypeOK, KeyscTypeOK
<1>2. MinHold' = MinHold /\ TapGap' = TapGap
  BY DEF Iterate, MinHold, TapGap
<1>3. PICK n \in 0..Len(pendingDown) : IsDuePrefix(n, now) /\ FlushQueues(n, now)
  BY <1>1 DEF Iterate
<1>a. cycles \in Nat /\ MinHold \in Nat /\ TapGap \in Nat /\ Len(pendingDown) \in Nat
  BY QueueFacts, HoldIsNat
<1>b. DOMAIN pendingDown = 1..Len(pendingDown) /\ n \in 0..Len(pendingDown)
  BY QueueFacts
<1>c. \A i \in 1..Len(pendingDown) : pendingDown[i].at \in Nat
  BY QueueFacts
<1>4. now \in Nat /\ now > cycles /\ 2 * now <= 2 * cycles + TapGap
  BY ONLY <1>1, <1>a
<1> HIDE DEF now
<1>d0. /\ n = 0 \/ n = 1
       /\ DOMAIN pendingDown' = 1..(Len(pendingDown) - n)
       /\ Len(pendingDown') = Len(pendingDown) - n
       /\ \A i \in 1..(Len(pendingDown) - n) :
              /\ pendingDown'[i] = pendingDown[i + n]
              /\ i + n \in DOMAIN pendingDown /\ pendingDown[i + n].at \in Nat
              /\ pendingDown[i + n].at > now
              /\ n = 1 => pendingDown[i + n].at > now + MinHold
  BY <1>1, <1>3, FlushDrops DEF now
<1>5. n = 0 \/ n = 1
  BY ONLY <1>d0
<1>6. /\ DOMAIN pendingDown' = 1..(Len(pendingDown) - n) /\ Len(pendingDown') = Len(pendingDown) - n
      /\ \A i \in 1..(Len(pendingDown) - n) : pendingDown'[i] = pendingDown[i + n]
  BY ONLY <1>d0
<1>7. ASSUME NEW i \in 1..(Len(pendingDown) - n)
      PROVE  /\ i + n \in DOMAIN pendingDown /\ pendingDown[i + n].at \in Nat
             /\ pendingDown[i + n].at > now
             /\ n = 1 => pendingDown[i + n].at > now + MinHold
  BY ONLY <1>d0
<1>d. ASSUME n = 1, NEW i \in 1..(Len(pendingDown) - n)
      PROVE  now + MinHold <= pendingDown[i + n].at
  <2>1. pendingDown[i + n].at \in Nat /\ pendingDown[i + n].at > now + MinHold
    BY ONLY <1>7, <1>d
  <2> DEFINE later == pendingDown[i + n].at
  <2>2. later \in Nat /\ later > now + MinHold
    BY ONLY <2>1
  <2> HIDE DEF later
  <2>3. now + MinHold <= later
    BY ONLY <2>2, <1>4, <1>a
  <2> QED BY ONLY <2>3 DEF later
<1>8. ASSUME NEW r \in pendingUp'
      PROVE  r.at > now /\ \A i \in 1..(Len(pendingDown) - n) : r.at <= pendingDown[i + n].at
  <2>1. r.at > now /\ (r \in pendingUp \/ r \in LandedUp(n, now))
    BY <1>3, <1>4 DEF FlushQueues
  <2>2. CASE r \in pendingUp
    <3>1. \A i \in DOMAIN pendingDown : r.at <= pendingDown[i].at
      BY <2>2 DEF Schedule
    <3> QED BY ONLY <2>1, <3>1, <1>7
  <2>3. CASE r \in LandedUp(n, now)
    <3>1. n = 1 /\ r.at = now + MinHold
      BY <2>3, <1>5 DEF LandedUp
    <3>2. ASSUME NEW i \in 1..(Len(pendingDown) - n) PROVE r.at <= pendingDown[i + n].at
      BY ONLY <3>1, <3>2, <1>d
    <3> QED BY ONLY <2>1, <3>2
  <2> QED BY ONLY <2>1, <2>2, <2>3
<1>9. ASSUME NEW k \in Keys, downAt'[k] # Absent
      PROVE  /\ downAt'[k] <= now
             /\ \A i \in 1..(Len(pendingDown) - n) : downAt'[k] + MinHold <= pendingDown[i + n].at
  <2>1. downAt'[k] = IF k \in LandedHeld(n) THEN now ELSE downAt[k]
    BY <1>3 DEF FlushQueues
  <2>2. CASE k \in LandedHeld(n)
    <3>1. n = 1
      BY <2>2, <1>5 DEF LandedHeld
    <3>2. downAt'[k] = now
      BY ONLY <2>1, <2>2
    <3>3. ASSUME NEW i \in 1..(Len(pendingDown) - n) PROVE downAt'[k] + MinHold <= pendingDown[i + n].at
      BY ONLY <3>1, <3>2, <3>3, <1>d
    <3> QED BY ONLY <3>2, <3>3, <1>4
  <2>3. CASE k \notin LandedHeld(n)
    <3>1. downAt'[k] = downAt[k] /\ downAt[k] # Absent
      BY ONLY <2>1, <2>3, <1>9
    <3>2. downAt[k] \in Nat
      BY ONLY <3>1, QueueFacts, TypeOK, k \in Keys
    <3>3. downAt[k] <= cycles /\ \A i \in DOMAIN pendingDown : downAt[k] + MinHold <= pendingDown[i].at
      BY <3>1 DEF Schedule
    <3>4. \A i \in 1..(Len(pendingDown) - n) : downAt[k] + MinHold <= pendingDown[i + n].at
      BY ONLY <3>3, <1>7
    <3> QED BY ONLY <3>1, <3>2, <3>3, <3>4, <1>4, <1>a
  <2> QED BY <2>2, <2>3
<1>10. ASSUME NEW i \in 1..(Len(pendingDown) - n), NEW j \in 1..(Len(pendingDown) - n), i < j
       PROVE  pendingDown[i + n].at + MinHold + TapGap <= pendingDown[j + n].at
  <2>1. i + n \in DOMAIN pendingDown /\ j + n \in DOMAIN pendingDown /\ i + n < j + n
    BY ONLY <1>5, <1>7, <1>10
  <2> QED BY <2>1 DEF Schedule
<1>11. Schedule'
  <2>1. \A i \in DOMAIN pendingDown' : 2 * now < 2 * pendingDown'[i].at + TapGap
    BY ONLY <1>4, <1>6, <1>7, <1>a
  <2>2. \A i, j \in DOMAIN pendingDown' :
          i < j => pendingDown'[i].at + MinHold + TapGap <= pendingDown'[j].at
    BY ONLY <1>6, <1>10
  <2>3. \A i \in DOMAIN pendingDown' : \A r \in pendingUp' : r.at <= pendingDown'[i].at
    BY ONLY <1>6, <1>8
  <2>4. \A k \in Keys : downAt'[k] # Absent =>
          downAt'[k] <= now /\ \A i \in DOMAIN pendingDown' : downAt'[k] + MinHold <= pendingDown'[i].at
    BY ONLY <1>6, <1>9
  <2> QED BY <1>1, <1>2, <2>1, <2>2, <2>3, <2>4 DEF Schedule
<1>12. ASSUME pendingDown' # pendingDown
       PROVE  Len(pendingDown') = Len(pendingDown) - 1 /\ pendingUp \cap pendingUp' = {}
  <2>1. n = 1
    <3> SUFFICES ASSUME n = 0 PROVE FALSE
      BY <1>5
    <3>1. pendingDown' = SubSeq(pendingDown, 1, Len(pendingDown))
      BY <1>3 DEF FlushQueues
    <3> QED BY <1>12, <3>1, SubSeqFull DEF TypeOK, QueueTypeOK
  <2>2. ASSUME NEW r \in pendingUp, r \in pendingUp' PROVE FALSE
    <3>0. 1 \in 1..n /\ 1 \in 1..Len(pendingDown)
      BY ONLY <2>1, <1>b, <1>a
    <3>1. r.at <= pendingDown[1].at /\ pendingDown[1].at <= now
      BY <3>0, <1>b, <1>3 DEF Schedule, IsDuePrefix
    <3>2. r.at > now
      BY ONLY <2>2, <1>8
    <3>3. r.at \in Nat /\ pendingDown[1].at \in Nat
      BY <3>0, <1>c, QueueFacts
    <3> QED BY ONLY <3>1, <3>2, <3>3, <1>4
  <2> QED BY <2>1, <2>2, <1>6
<1> QED BY <1>11, <1>12

LEMMA RunOnSchedule ==
  ASSUME Steady, TypeOK, Schedule, NEW d \in StepCycles, RunOn(d)
  PROVE  Schedule' /\ pendingDown' = pendingDown
<1>1. d \in Nat \ {0} /\ 2 * d <= TapGap /\ cycles' = cycles + d
  BY KeyInputAssumption DEF Steady, RunOn, TapGap, TypeOK, KeyscTypeOK
<1>2. UNCHANGED <<MinHold, TapGap, downAt, pendingUp, pendingDown>>
  BY DEF RunOn, queueVars, MinHold, TapGap
<1>a. cycles \in Nat /\ MinHold \in Nat /\ TapGap \in Nat /\ Len(pendingDown) \in Nat
  BY QueueFacts, HoldIsNat
<1>b. DOMAIN pendingDown = 1..Len(pendingDown) /\ \A i \in 1..Len(pendingDown) : pendingDown[i].at \in Nat
  BY QueueFacts
<1>3. ASSUME NEW i \in DOMAIN pendingDown
      PROVE  2 * cycles' < 2 * pendingDown[i].at + TapGap
  <2>1. cycles < pendingDown[1].at
    <3>1. pendingDown # <<>>
      BY EmptySeq
    <3> QED BY <3>1 DEF RunOn, BeforeDue
  <2>2. 1 \in DOMAIN pendingDown /\ (i = 1 \/ 1 < i)
    BY ONLY <1>3, <1>a, <1>b
  <2>3. i = 1 \/ pendingDown[1].at + MinHold + TapGap <= pendingDown[i].at
    BY <2>2 DEF Schedule
  <2>4. pendingDown[1].at \in Nat /\ pendingDown[i].at \in Nat
    BY ONLY <2>2, <1>3, <1>b
  <2>5. cycles < pendingDown[i].at
    BY ONLY <2>1, <2>3, <2>4, <1>a
  <2> QED BY ONLY <1>1, <2>4, <2>5, <1>a
<1>4. \A k \in Keys : downAt[k] # Absent => downAt[k] <= cycles'
  <2>1. \A k \in Keys : downAt[k] = Absent \/ downAt[k] \in Nat
    BY QueueFacts
  <2>2. \A k \in Keys : downAt[k] # Absent => downAt[k] <= cycles
    BY DEF Schedule
  <2> QED BY ONLY <1>1, <1>a, <2>1, <2>2
<1> QED BY <1>2, <1>3, <1>4 DEF Schedule

LEMMA StillSchedule ==
  ASSUME Schedule, UNCHANGED <<cycles, scanPeriod, queueVars>>
  PROVE  Schedule'
BY DEF Schedule, queueVars, MinHold, TapGap

LEMMA ClearedSchedule ==
  ASSUME ClearQueues
  PROVE  Schedule'
<1>1. DOMAIN pendingDown' = {} /\ pendingUp' = {} /\ \A k \in Keys : downAt'[k] = Absent
  BY DEF ClearQueues
<1> QED BY <1>1 DEF Schedule

LEMMA StepSchedule ==
  ASSUME Steady, TypeOK, Schedule, [KeyNext]_keyVars
  PROVE  Schedule'
<1>1. ASSUME NEW s \in Sources, NEW k \in Keys, KeyDown(s, k) \/ KeyUp(s, k) PROVE Schedule'
  BY <1>1, KeyDownSchedule, KeyUpSchedule
<1>2. ASSUME NEW p \in Periods, SetKeyScanPeriod(p) PROVE Schedule'
  BY <1>2 DEF SetKeyScanPeriod, Steady, TypeOK, KeyscTypeOK
<1>3. CASE ReleaseAllKeys \/ Resume
  BY <1>3, ClearedSchedule DEF ReleaseAllKeys, Resume
<1>4. CASE Machine
  BY <1>4, IterateSchedule, RunOnSchedule DEF Machine
<1>5. CASE (\E k \in TapKeys : InjectKey(k)) \/ OsRead \/ OsAck \/ \E c \in Configs : OsConfigure(c)
  <2>1. UNCHANGED <<cycles, scanPeriod, queueVars>>
    BY <1>5 DEF InjectKey, OsRead, IsrRead, OsAck, IsrAck, OsConfigure, Configure
  <2> QED BY <2>1, StillSchedule
<1>6. CASE UNCHANGED keyVars
  BY <1>6, StillSchedule DEF keyVars, keyscVars
<1> QED BY <1>1, <1>2, <1>3, <1>4, <1>5, <1>6 DEF KeyNext, Host

\* For a host with a steady scan period and CPU steps no longer than half a gap, the queue keeps
\* its schedule: every deferred release comes no later than the first queued press.
THEOREM ScheduleHolds == ASSUME Steady PROVE KeySpec => []Schedule
<1>1. KeyInit => Schedule
  <2> SUFFICES ASSUME KeyInit PROVE Schedule
    OBVIOUS
  <2>1. DOMAIN pendingDown = {} /\ pendingUp = {} /\ \A k \in Keys : downAt[k] = Absent
    BY DEF KeyInit
  <2> QED BY <2>1 DEF Schedule
<1>2. TypeOK /\ Schedule /\ [KeyNext]_keyVars => Schedule'
  BY StepSchedule
<1> QED BY <1>1, <1>2, TypeCorrect, PTL DEF KeySpec

\* For the same host, queued presses come off one at a time, after every deferred release.
THEOREM PressesNeverOverlap == ASSUME Steady PROVE KeySpec => OneAtATime
<1> DEFINE Alone == Machine /\ pendingDown' # pendingDown =>
              /\ Len(pendingDown') = Len(pendingDown) - 1
              /\ pendingUp \cap pendingUp' = {}
<1>1. TypeOK /\ Schedule /\ [KeyNext]_keyVars => [Alone]_keyVars
  BY IterateSchedule, RunOnSchedule DEF Machine
<1>2. KeySpec => [][Alone]_keyVars
  <2> HIDE DEF Alone
  <2> QED BY <1>1, TypeCorrect, ScheduleHolds, PTL DEF KeySpec
<1> QED BY <1>2 DEF OneAtATime

---------------------------------------------------------------------------
(* No key is stuck.  NoStuckKey alone is not inductive: a queued press that lands puts its key   *)
(* into the matrix, and somebody must still be holding it.  What the calls preserve is a debt:   *)
(* the queued presses of a key that no release has been given to are owed, each, by another      *)
(* source that holds the key, and a key that is in the matrix and that neither a deferred        *)
(* release nor the tap will take out has one more source to spare.  A KeyUp gives its release to *)
(* the oldest such press, which may be one of another source: the two exchange their presses.    *)

\* Each of the presses U is owed by a source of C of its own.
Owes(U, C) == \E f \in [U -> C] : \A i, j \in U : f[i] = f[j] => i = j
Spares(U, C) == \E s \in C : Owes(U, C \ {s})

Claims(k) == {s \in Sources : <<s, k>> \in hostDown}
Answered(k) == (\E r \in pendingUp : r.key = k) \/ (tapActive /\ tapKey = k)
Stuck(k) == k \in held /\ ~Answered(k)

Owed(k) == Owes(Unreleased(k), Claims(k)) /\ (Stuck(k) => Spares(Unreleased(k), Claims(k)))
Debts == \A k \in Keys : Owed(k)

---------------------------------------------------------------------------
(* Arithmetic of debts. *)

LEMMA NothingOwed == ASSUME NEW C PROVE Owes({}, C)
<1>1. [i \in {} |-> CHOOSE s \in C : TRUE] \in [{} -> C]
  OBVIOUS
<1> QED BY <1>1 DEF Owes

LEMMA SpareOwes ==
  ASSUME NEW U, NEW C, Spares(U, C)
  PROVE  Owes(U, C)
<1>1. PICK s \in C : Owes(U, C \ {s})
  BY DEF Spares
<1>2. PICK f \in [U -> C \ {s}] : \A i, j \in U : f[i] = f[j] => i = j
  BY <1>1 DEF Owes
<1>3. f \in [U -> C]
  BY <1>2
<1> QED BY <1>2, <1>3 DEF Owes

\* A source that did not hold the key takes a press of its own.
LEMMA OneMore ==
  ASSUME NEW U, NEW C, NEW i, NEW s, i \notin U, s \notin C, Owes(U, C)
  PROVE  Owes(U \cup {i}, C \cup {s})
<1>1. PICK f \in [U -> C] : \A a, b \in U : f[a] = f[b] => a = b
  BY DEF Owes
<1> DEFINE g == [a \in U \cup {i} |-> IF a = i THEN s ELSE f[a]]
<1>2. g \in [U \cup {i} -> C \cup {s}]
  BY <1>1
<1>3. ASSUME NEW a \in U \cup {i}, NEW b \in U \cup {i}, g[a] = g[b] PROVE a = b
  BY <1>1, <1>3
<1> HIDE DEF g
<1> QED BY <1>2, <1>3 DEF Owes

LEMMA OneMoreSpares ==
  ASSUME NEW U, NEW C, NEW i, NEW s, i \notin U, s \notin C, Spares(U, C)
  PROVE  Spares(U \cup {i}, C \cup {s})
<1>1. PICK t \in C : Owes(U, C \ {t})
  BY DEF Spares
<1>2. Owes(U \cup {i}, (C \ {t}) \cup {s})
  BY <1>1, OneMore
<1>3. (C \ {t}) \cup {s} = (C \cup {s}) \ {t}
  OBVIOUS
<1> QED BY <1>2, <1>3 DEF Spares

\* A press is released by any source: the one that owed it takes over what this one owed.
LEMMA OneLess ==
  ASSUME NEW U, NEW C, NEW i \in U, NEW s \in C, Owes(U, C)
  PROVE  Owes(U \ {i}, C \ {s})
<1>1. PICK f \in [U -> C] : \A a, b \in U : f[a] = f[b] => a = b
  BY DEF Owes
<1> DEFINE g == [a \in U \ {i} |-> IF f[a] = s THEN f[i] ELSE f[a]]
<1>2. ASSUME NEW a \in U \ {i} PROVE g[a] \in C \ {s}
  BY <1>1
<1>3. ASSUME NEW a \in U \ {i}, NEW b \in U \ {i}, g[a] = g[b] PROVE a = b
  BY <1>1, <1>3
<1>4. g \in [U \ {i} -> C \ {s}]
  BY <1>2
<1> HIDE DEF g
<1> QED BY <1>3, <1>4 DEF Owes

\* A press that is nobody's debt any more leaves its source free.
LEMMA OneFree ==
  ASSUME NEW U, NEW C, NEW i \in U, Owes(U, C)
  PROVE  Spares(U \ {i}, C)
<1>1. PICK f \in [U -> C] : \A a, b \in U : f[a] = f[b] => a = b
  BY DEF Owes
<1>2. f[i] \in C
  BY <1>1
<1> QED BY <1>2, OneLess DEF Spares

LEMMA OneLessSpares ==
  ASSUME NEW U, NEW C, NEW i \in U, NEW s \in C, Spares(U, C)
  PROVE  Spares(U \ {i}, C \ {s})
<1>1. PICK t \in C : Owes(U, C \ {t})
  BY DEF Spares
<1>2. CASE t = s
  BY <1>1, <1>2, OneFree
<1>3. CASE t # s
  <2>1. Owes(U \ {i}, (C \ {t}) \ {s})
    BY <1>1, <1>3, OneLess
  <2>2. (C \ {t}) \ {s} = (C \ {s}) \ {t} /\ t \in C \ {s}
    BY <1>3
  <2> QED BY <2>1, <2>2 DEF Spares
<1> QED BY <1>2, <1>3

\* The first n presses leave the queue: those of V were those of U that come after them.
LEMMA Moved ==
  ASSUME NEW U, NEW C, NEW n \in Nat, NEW V \in SUBSET Nat,
         \A i \in V : i + n \in U, Owes(U, C)
  PROVE  Owes(V, C)
<1>1. PICK f \in [U -> C] : \A a, b \in U : f[a] = f[b] => a = b
  BY DEF Owes
<1> DEFINE g == [a \in V |-> f[a + n]]
<1>2. g \in [V -> C]
  BY <1>1
<1>3. ASSUME NEW a \in V, NEW b \in V, g[a] = g[b] PROVE a = b
  <2>1. a + n = b + n
    BY <1>1, <1>3
  <2> QED BY <2>1
<1> HIDE DEF g
<1> QED BY <1>2, <1>3 DEF Owes

LEMMA MovedSpares ==
  ASSUME NEW U, NEW C, NEW n \in Nat, NEW V \in SUBSET Nat,
         \A i \in V : i + n \in U, Spares(U, C)
  PROVE  Spares(V, C)
<1>1. PICK t \in C : Owes(U, C \ {t})
  BY DEF Spares
<1> QED BY <1>1, Moved DEF Spares

LEMMA MovedFree ==
  ASSUME NEW U, NEW C, NEW n \in Nat, NEW V \in SUBSET Nat, NEW j \in U,
         \A i \in V : i + n \in U /\ i + n # j, Owes(U, C)
  PROVE  Spares(V, C)
<1>1. Spares(U \ {j}, C)
  BY OneFree
<1>2. \A i \in V : i + n \in U \ {j}
  OBVIOUS
<1> QED BY <1>1, <1>2, MovedSpares

---------------------------------------------------------------------------
(* One lemma per kind of step. *)

\* A step that leaves a key's presses and sources alone, takes the key nowhere and answers for
\* no fewer of its presses.
LEMMA StillOwed ==
  ASSUME NEW k \in Keys, Owed(k),
         Unreleased(k)' = Unreleased(k), Claims(k)' = Claims(k), Stuck(k)' => Stuck(k)
  PROVE  Owed(k)'
<1>1. Owes(Unreleased(k), Claims(k))' /\ (Stuck(k)' => Spares(Unreleased(k), Claims(k))')
  BY DEF Owed, Owes, Spares
<1> QED BY <1>1 DEF Owed

LEMMA KeyDownOwed ==
  ASSUME TypeOK, Debts, NEW s \in Sources, NEW k \in Keys, KeyDown(s, k)
  PROVE  Debts'
<1> SUFFICES ASSUME NEW x \in Keys PROVE Owed(x)'
  BY DEF Debts
<1>1. Owed(x)
  BY DEF Debts
<1>2. Claims(x)' = IF x = k THEN Claims(k) \cup {s} ELSE Claims(x)
  BY DEF KeyDown, Claims
<1>3. s \notin Claims(k)
  BY DEF KeyDown, Claims
<1>4. CASE Busy
  <2>1. UNCHANGED <<held, pendingUp, tapVars>>
    BY <1>4 DEF KeyDown, QueuePress
  <2>2. Stuck(x)' => Stuck(x)
    BY <2>1 DEF Stuck, Answered, tapVars
  <2>3. PICK t \in WaitTimes :
          pendingDown' = Append(pendingDown, [key |-> k, at |-> t + TapGap, up |-> FALSE])
    BY <1>4 DEF KeyDown, QueuePress
  <2> DEFINE new == Len(pendingDown) + 1
  <2>4. /\ DOMAIN pendingDown = 1..Len(pendingDown) /\ DOMAIN pendingDown' = 1..new
        /\ pendingDown'[new] = [key |-> k, at |-> t + TapGap, up |-> FALSE]
        /\ \A i \in 1..Len(pendingDown) : pendingDown'[i] = pendingDown[i]
    <3>1. [key |-> k, at |-> t + TapGap, up |-> FALSE] \in Press_
      BY WaitTimesType, HoldIsNat DEF Press_
    <3>2. pendingDown \in Seq(Press_)
      BY DEF TypeOK, QueueTypeOK
    <3> QED BY <2>3, <3>1, <3>2, AppendProperties, LenProperties
  <2>5. 1..new = 1..Len(pendingDown) \cup {new} /\ new \notin 1..Len(pendingDown)
    BY QueueFacts
  <2> HIDE DEF new
  <2>6. Unreleased(x)' = IF x = k THEN Unreleased(k) \cup {new} ELSE Unreleased(x)
    BY <2>4, <2>5 DEF Unreleased
  <2>7. CASE x # k
    BY <1>1, <1>2, <2>2, <2>6, <2>7, StillOwed
  <2>8. CASE x = k
    <3>1. new \notin Unreleased(k)
      BY <2>4, <2>5 DEF Unreleased
    <3>2. Owes(Unreleased(x)', Claims(x)')
      BY <1>1, <1>2, <1>3, <2>6, <2>8, <3>1, OneMore DEF Owed
    <3>3. Stuck(x)' => Spares(Unreleased(x)', Claims(x)')
      BY <1>1, <1>2, <1>3, <2>2, <2>6, <2>8, <3>1, OneMoreSpares DEF Owed
    <3> QED BY <3>2, <3>3 DEF Owed, Owes, Spares
  <2> QED BY <2>7, <2>8
<1>5. CASE ~Busy
  <2>1. /\ pendingDown' = <<>> /\ pendingDown = <<>> /\ held' = held \cup {k}
        /\ UNCHANGED <<pendingUp, tapVars>>
    BY <1>5 DEF KeyDown, PressNow, Busy, Press, Matrix
  <2>2. Unreleased(x)' = {} /\ Unreleased(x) = {}
    BY <2>1 DEF Unreleased
  <2>3. CASE x # k
    <3>1. Stuck(x)' => Stuck(x)
      BY <2>1, <2>3 DEF Stuck, Answered, tapVars
    <3> QED BY <1>1, <1>2, <2>2, <2>3, <3>1, StillOwed
  <2>4. CASE x = k
    <3>1. s \in Claims(x)'
      BY <1>2, <2>4
    <3>2. Owes(Unreleased(x)', Claims(x)') /\ Spares(Unreleased(x)', Claims(x)')
      BY <2>2, <3>1, NothingOwed DEF Spares
    <3> QED BY <3>2 DEF Owed, Owes, Spares
  <2> QED BY <2>3, <2>4
<1> QED BY <1>4, <1>5

LEMMA KeyUpOwed ==
  ASSUME TypeOK, Debts, NEW s \in Sources, NEW k \in Keys, KeyUp(s, k)
  PROVE  Debts'
<1> SUFFICES ASSUME NEW x \in Keys PROVE Owed(x)'
  BY DEF Debts
<1>1. Owed(x)
  BY DEF Debts
<1>2. Claims(x)' = IF x = k THEN Claims(k) \ {s} ELSE Claims(x)
  BY DEF KeyUp, Claims
<1>3. s \in Claims(k)
  BY DEF KeyUp, Claims
<1>4. UNCHANGED tapVars
  BY DEF KeyUp
<1>5. CASE Unreleased(k) # {}
  <2>1. PICK i \in Unreleased(k) : pendingDown' = [pendingDown EXCEPT ![i].up = TRUE]
    BY <1>5 DEF KeyUp, ReleaseQueued
  <2>2. Stuck(x)' => Stuck(x)
    BY <1>4, <1>5 DEF KeyUp, ReleaseQueued, Stuck, Answered, tapVars
  <2>3. /\ DOMAIN pendingDown' = DOMAIN pendingDown
        /\ \A j \in DOMAIN pendingDown :
             /\ pendingDown'[j].key = pendingDown[j].key
             /\ pendingDown'[j].up = IF j = i THEN TRUE ELSE pendingDown[j].up
    <3>1. \A j \in DOMAIN pendingDown : pendingDown[j] \in Press_
      BY QueueFacts
    <3> QED BY <2>1, <3>1 DEF Press_
  <2>4. Unreleased(x)' = IF x = k THEN Unreleased(k) \ {i} ELSE Unreleased(x)
    BY <2>1, <2>3 DEF Unreleased
  <2>5. CASE x # k
    BY <1>1, <1>2, <2>2, <2>4, <2>5, StillOwed
  <2>6. CASE x = k
    <3>1. Owes(Unreleased(x)', Claims(x)')
      BY <1>1, <1>2, <1>3, <2>1, <2>4, <2>6, OneLess DEF Owed
    <3>2. Stuck(x)' => Spares(Unreleased(x)', Claims(x)')
      BY <1>1, <1>2, <1>3, <2>1, <2>2, <2>4, <2>6, OneLessSpares DEF Owed
    <3> QED BY <3>1, <3>2 DEF Owed, Owes, Spares
  <2> QED BY <2>5, <2>6
<1>6. CASE Unreleased(k) = {}
  <2>1. /\ pendingDown' = pendingDown /\ held' \subseteq held /\ pendingUp \subseteq pendingUp'
        /\ k \notin held' \/ \E r \in pendingUp' : r.key = k
    <3>1. CASE HeldTooShort(k)
      <4>1. /\ pendingUp' = pendingUp \cup {[key |-> k, at |-> downAt[k] + MinHold]}
            /\ UNCHANGED <<pendingDown, held>>
        BY <1>6, <3>1 DEF KeyUp, DeferRelease
      <4> DEFINE r == [key |-> k, at |-> downAt[k] + MinHold]
      <4>2. r \in pendingUp' /\ r.key = k
        BY <4>1
      <4> HIDE DEF r
      <4> QED BY <4>1, <4>2
    <3>2. CASE ~HeldTooShort(k)
      BY <1>6, <3>2 DEF KeyUp, ReleaseNow
    <3> QED BY <3>1, <3>2
  <2>2. Unreleased(x)' = Unreleased(x)
    BY <2>1 DEF Unreleased
  <2>3. Stuck(x)' => Stuck(x)
    BY <1>4, <2>1 DEF Stuck, Answered, tapVars
  <2>4. CASE x # k
    BY <1>1, <1>2, <2>2, <2>3, <2>4, StillOwed
  <2>5. CASE x = k
    <3>1. ~Stuck(x)'
      BY <2>1, <2>5 DEF Stuck, Answered
    <3>2. Owes(Unreleased(x)', Claims(x)')
      BY <1>6, <2>2, <2>5, NothingOwed
    <3> QED BY <3>1, <3>2 DEF Owed, Owes, Spares
  <2> QED BY <2>4, <2>5
<1> QED BY <1>5, <1>6

LEMMA ClearedOwed ==
  ASSUME ClearQueues
  PROVE  Debts'
<1>1. pendingDown' = <<>> /\ held' = {}
  BY DEF ClearQueues
<1>2. ASSUME NEW x \in Keys PROVE Owed(x)'
  <2>1. Unreleased(x)' = {} /\ ~Stuck(x)'
    BY <1>1 DEF Unreleased, Stuck
  <2>2. Owes(Unreleased(x)', Claims(x)')
    BY <2>1, NothingOwed
  <2> QED BY <2>1, <2>2 DEF Owed, Owes
<1> QED BY <1>2 DEF Debts

\* A key that is in the matrix after the flush, and that nothing queued takes out, either came
\* off the queue with nobody's release or was there before and had no release then either.
LEMMA FlushedStuck ==
  ASSUME TypeOK, NEW d \in StepCycles, Iterate(d), NEW x \in Keys, Stuck(x)',
         NEW n \in 0..Len(pendingDown), FlushQueues(n, cycles'),
         held' = Flushed(TapMatrix(Matrix(held, NextScan), cycles'), n, cycles').held
  PROVE  Stuck(x) \/ \E j \in 1..n : j \in Unreleased(x)
<1>1. cycles' \in Nat /\ cycles' < cycles' + MinHold
  BY KeyInputAssumption, HoldIsNat DEF Iterate, TypeOK, KeyscTypeOK
<1>2. x \in held' /\ (\A r \in pendingUp' : r.key # x) /\ ~(tapActive' /\ tapKey' = x)
  BY DEF Stuck, Answered
<1>3. pendingUp' = {r \in pendingUp \cup LandedUp(n, cycles') : cycles' < r.at}
  BY DEF FlushQueues
<1> DEFINE m == TapMatrix(Matrix(held, NextScan), cycles')
<1>4. /\ x \in m.held \cup LandedKeys(n)
      /\ x \notin {r.key : r \in {u \in pendingUp : cycles' >= u.at}}
  <2>1. held' = (m.held \cup LandedKeys(n)) \ {r.key : r \in {u \in pendingUp : cycles' >= u.at}}
    BY DEF Flushed, Matrix
  <2> HIDE DEF m
  <2> QED BY <1>2, <2>1
<1>5. \A r \in pendingUp : r.key # x
  <2> SUFFICES ASSUME NEW r \in pendingUp, r.key = x PROVE FALSE
    OBVIOUS
  <2>1. r.at \in Nat /\ (cycles' >= r.at \/ cycles' < r.at)
    BY <1>1, QueueFacts
  <2> QED BY <1>2, <1>3, <1>4, <2>1
<1>6. CASE x \in LandedKeys(n)
  <2>1. PICK j \in 1..n : pendingDown[j].key = x
    BY <1>6 DEF LandedKeys
  <2>2. j \in DOMAIN pendingDown /\ pendingDown[j].up \in BOOLEAN
    BY QueueFacts
  <2>3. ~pendingDown[j].up
    <3> SUFFICES ASSUME pendingDown[j].up PROVE FALSE
      OBVIOUS
    <3> DEFINE r == [key |-> pendingDown[j].key, at |-> cycles' + MinHold]
    <3>1. r \in LandedUp(n, cycles') /\ r.at = cycles' + MinHold /\ r.key = x
      BY <2>1 DEF LandedUp
    <3> HIDE DEF r
    <3> QED BY <1>1, <1>2, <1>3, <3>1
  <2> QED BY <2>1, <2>2, <2>3 DEF Unreleased
<1>7. CASE x \in m.held
  <2>1. CASE TapLetsGo(cycles')
    <3>1. m.held = held \ {tapKey}
      BY <2>1 DEF TapMatrix, Release, Matrix
    <3> QED BY <1>5, <1>7, <3>1 DEF Stuck, Answered
  <2>2. CASE TapGoesDown(cycles')
    <3>1. tapActive' = TRUE /\ tapKey' = Head(tapQueue) /\ ~tapActive
      BY <2>2 DEF Iterate, DriveTap, TapGoesDown, TapLetsGo
    <3>2. m.held = held \cup {Head(tapQueue)}
      BY <2>2 DEF TapMatrix, TapGoesDown, TapLetsGo, Press, Matrix
    <3>3. x \in held
      BY <1>2, <1>7, <3>1, <3>2
    <3> QED BY <1>5, <3>1, <3>3 DEF Stuck, Answered
  <2>3. CASE ~TapLetsGo(cycles') /\ ~TapGoesDown(cycles')
    <3>1. UNCHANGED tapVars
      BY <2>3 DEF Iterate, DriveTap
    <3>2. m.held = held
      BY <2>3 DEF TapMatrix, Matrix
    <3> QED BY <1>2, <1>5, <1>7, <3>1, <3>2 DEF Stuck, Answered, tapVars
  <2> QED BY <2>1, <2>2, <2>3
<1> QED BY <1>4, <1>6, <1>7

LEMMA IterateOwed ==
  ASSUME TypeOK, Debts, NEW d \in StepCycles, Iterate(d)
  PROVE  Debts'
<1>1. PICK n \in 0..Len(pendingDown) :
        /\ FlushQueues(n, cycles')
        /\ held' = Flushed(TapMatrix(Matrix(held, NextScan), cycles'), n, cycles').held
  BY DEF Iterate
<1> SUFFICES ASSUME NEW x \in Keys PROVE Owed(x)'
  BY DEF Debts
<1>2. Owed(x) /\ Claims(x)' = Claims(x)
  BY DEF Debts, Iterate, Claims
<1>3. n \in Nat /\ Len(pendingDown) \in Nat /\ DOMAIN pendingDown = 1..Len(pendingDown)
  BY QueueFacts
<1>4. /\ DOMAIN pendingDown' = 1..(Len(pendingDown) - n)
      /\ \A i \in 1..(Len(pendingDown) - n) : pendingDown'[i] = pendingDown[i + n]
  <2>1. pendingDown' = SubSeq(pendingDown, n + 1, Len(pendingDown))
    BY <1>1 DEF FlushQueues
  <2>2. pendingDown \in Seq(Press_)
    BY DEF TypeOK, QueueTypeOK
  <2>3. /\ SubSeq(pendingDown, n + 1, Len(pendingDown)) \in Seq(Press_)
        /\ Len(SubSeq(pendingDown, n + 1, Len(pendingDown))) = Len(pendingDown) - n
        /\ \A i \in 1..(Len(pendingDown) - n) :
             SubSeq(pendingDown, n + 1, Len(pendingDown))[i] = pendingDown[i + n]
    BY ONLY <2>2, <1>1, DropProperties
  <2>4. pendingDown' \in Seq(Press_) /\ Len(pendingDown') = Len(pendingDown) - n
    BY ONLY <2>1, <2>3
  <2>5. DOMAIN pendingDown' = 1..Len(pendingDown')
    BY ONLY <2>4, LenProperties
  <2> QED BY ONLY <2>1, <2>3, <2>4, <2>5
<1> DEFINE U == Unreleased(x)
<1> DEFINE V == Unreleased(x)'
<1>5. V \in SUBSET Nat /\ \A i \in V : i >= 1 /\ i + n \in U
  <2> SUFFICES ASSUME NEW i \in V PROVE i \in Nat /\ i >= 1 /\ i + n \in U
    OBVIOUS
  <2>1. i \in 1..(Len(pendingDown) - n) /\ pendingDown[i + n].key = x /\ ~pendingDown[i + n].up
    BY <1>4 DEF Unreleased
  <2>2. i \in Nat /\ i >= 1 /\ i + n \in 1..Len(pendingDown)
    BY ONLY <1>3, <2>1
  <2> QED BY <1>3, <2>1, <2>2 DEF Unreleased
<1>6. Owes(V, Claims(x))
  <2>1. Owes(U, Claims(x))
    BY <1>2 DEF Owed
  <2> HIDE DEF U, V
  <2> QED BY <1>3, <1>5, <2>1, Moved
<1>7. ASSUME Stuck(x)' PROVE Spares(V, Claims(x))
  <2>1. Stuck(x) \/ \E j \in 1..n : j \in U
    BY <1>1, <1>7, FlushedStuck
  <2>2. Owes(U, Claims(x)) /\ (Stuck(x) => Spares(U, Claims(x)))
    BY <1>2 DEF Owed
  <2> HIDE DEF U, V
  <2>3. CASE Stuck(x)
    BY <1>3, <1>5, <2>2, <2>3, MovedSpares
  <2>4. ASSUME NEW j \in 1..n, j \in U PROVE Spares(V, Claims(x))
    <3>1. \A i \in V : i + n \in U /\ i + n # j
      BY <1>3, <1>5
    <3> QED BY <1>3, <1>5, <2>2, <2>4, <3>1, MovedFree
  <2> QED BY <2>1, <2>3, <2>4
<1> QED BY <1>2, <1>6, <1>7 DEF Owed, Owes, Spares

LEMMA StepOwed ==
  ASSUME TypeOK, Debts, [KeyNext]_keyVars
  PROVE  Debts'
<1>1. ASSUME NEW s \in Sources, NEW k \in Keys, KeyDown(s, k) \/ KeyUp(s, k) PROVE Debts'
  BY <1>1, KeyDownOwed, KeyUpOwed
<1>2. CASE ReleaseAllKeys \/ Resume
  BY <1>2, ClearedOwed DEF ReleaseAllKeys, Resume
<1>3. ASSUME NEW d \in StepCycles, Iterate(d) PROVE Debts'
  BY <1>3, IterateOwed
<1>4. ASSUME UNCHANGED <<held, pendingUp, pendingDown, tapActive, tapKey, hostDown>> PROVE Debts'
  <2> SUFFICES ASSUME NEW x \in Keys PROVE Owed(x)'
    BY DEF Debts
  <2>1. Unreleased(x)' = Unreleased(x) /\ Claims(x)' = Claims(x) /\ Stuck(x)' = Stuck(x)
    BY <1>4 DEF Unreleased, Claims, Stuck, Answered
  <2> QED BY <2>1, StillOwed DEF Debts
<1>5. ASSUME \/ \E k \in TapKeys : InjectKey(k)
             \/ \E p \in Periods : SetKeyScanPeriod(p)
             \/ \E d \in StepCycles : RunOn(d)
             \/ OsRead \/ OsAck \/ \E c \in Configs : OsConfigure(c)
             \/ UNCHANGED keyVars
      PROVE  Debts'
  <2>1. UNCHANGED <<held, pendingUp, pendingDown, tapActive, tapKey, hostDown>>
    BY <1>5 DEF InjectKey, SetKeyScanPeriod, RunOn, OsRead, IsrRead, OsAck, IsrAck, OsConfigure,
                Configure, keyVars, keyscVars, queueVars, tapVars, keyHistory
  <2> QED BY <1>4, <2>1
<1> QED BY <1>1, <1>2, <1>3, <1>5 DEF KeyNext, Host, Machine

\* For any host, with any number of sources that know nothing of each other: a key that stays in
\* the matrix is one that somebody holds, that has a deferred release, or that is being tapped.
THEOREM NoKeyStuck == KeySpec => []NoStuckKey
<1>1. KeyInit => Debts
  <2> SUFFICES ASSUME KeyInit, NEW x \in Keys PROVE Owed(x)
    BY DEF Debts
  <2>1. Unreleased(x) = {} /\ ~Stuck(x)
    BY DEF KeyInit, KeyscInit, Unreleased, Stuck
  <2> QED BY <2>1, NothingOwed DEF Owed
<1>2. TypeOK /\ Debts /\ [KeyNext]_keyVars => Debts'
  BY StepOwed
<1>3. TypeOK /\ Debts => NoStuckKey
  <2> SUFFICES ASSUME TypeOK, Debts, NEW k \in held, Stuck(k)
               PROVE  \E s \in Sources : <<s, k>> \in hostDown
    BY DEF NoStuckKey, Stuck, Answered
  <2>1. k \in Keys
    BY DEF TypeOK, KeyscTypeOK
  <2>2. Spares(Unreleased(k), Claims(k))
    BY <2>1 DEF Debts, Owed
  <2> QED BY <2>2 DEF Spares, Claims
<1> QED BY <1>1, <1>2, <1>3, TypeCorrect, PTL DEF KeySpec

---------------------------------------------------------------------------
(* Every press is read.  A host with one input source and a machine that   *)
(* serves each key interrupt before the next scan.                         *)
Attended ==
  /\ \A s, t \in Sources : s = t
  /\ TapKeys = {} /\ Configs = {} /\ Resets = {}
  /\ \A p, q \in Periods : p = q
  /\ \A p \in Periods : 1 <= IsrLatency /\ IsrLatency < p
  /\ StepCycles \subseteq {1}

\* The keys the user holds, the times at which a key may leave the matrix, and the state the OS
\* driver is in once it has served what it has read.
Down == {p[2] : p \in hostDown}
Ends(k) == {r.at : r \in {u \in pendingUp : u.key = k}}
           \cup (IF downAt[k] = Absent THEN {} ELSE {downAt[k] + MinHold})
NextSaw == IF isr = <<>> THEN osSaw ELSE NextOsSaw(isr[1])

\* The unit stays as the OS set it up, and the driver's state is in the enables it writes.
Settled ==
  /\ on /\ mode = "normal" /\ enabled = Keys
  /\ ie = IF osSaw = "idle" THEN {"detect"} ELSE {"scan"}
  /\ ~tapActive /\ tapQueue = <<>>

\* Nothing that has a time is late: scans, the OS, deferred releases, queued presses.
OnTime ==
  /\ scanNext < cycles + scanPeriod
  /\ irqAt <= cycles
  /\ irq \/ isr # <<>> => cycles <= irqAt + IsrLatency
  /\ \A r \in pendingUp : cycles <= r.at
  /\ \A i \in DOMAIN pendingDown : cycles <= pendingDown[i].at

\* A key's presses come one after another: down, then up, then queued again, and a queued press
\* comes after the release before it.
Turns ==
  /\ \A k \in Keys : downAt[k] # Absent =>
       k \in Down /\ \A i \in DOMAIN pendingDown : pendingDown[i].key # k
  /\ \A i \in DOMAIN pendingDown : ~pendingDown[i].up =>
       /\ pendingDown[i].key \in Down
       /\ \A j \in DOMAIN pendingDown : i < j => pendingDown[j].key # pendingDown[i].key
  /\ \A k \in Down : downAt[k] # Absent \/ Unreleased(k) # {}
  /\ \A i \in DOMAIN pendingDown : \A r \in pendingUp :
       r.key = pendingDown[i].key => r.at + 2 <= pendingDown[i].at

\* The scans a press still needs come before any time at which the key may leave.
ScansLeft(k) == (tapHoldScans - 1 - seenScans[k]) * scanPeriod
ScansFit == \A k \in held : \A t \in Ends(k) : seenScans[k] < tapHoldScans =>
  scanNext + ScansLeft(k) < t /\ cycles + ScansLeft(k) < t

\* So does the OS's read of a press that was scanned: an interrupt is pending, or the driver is
\* about to enable the one that the next scan raises.
ReadDue(k, t) ==
  IF irq THEN irqAt + (IF isr = <<>> THEN IsrLatency ELSE IsrLatency + IsrLatency) < t
  ELSE seenScans[k] = 1 /\ NextSaw = "held" /\ (isr # <<>> => irqAt + IsrLatency < scanNext)
ReadsFit == \A k \in held \ osGot : \A t \in Ends(k) : seenScans[k] > 0 => ReadDue(k, t)

\* The driver never idles on a press: not while a key it has read is down, and not after a scan
\* that saw a key unless an interrupt follows.
DriverFollows ==
  /\ held \cap osGot # {} => NextSaw = "held"
  /\ wasHeld /\ ~irq => NextSaw # "idle"
  /\ wasHeld /\ irq /\ held = {} => NextSaw = "held"

Watched == Settled /\ OnTime /\ Turns /\ ScansFit /\ ReadsFit /\ DriverFollows

LEMMA AttendedSteady ==
  ASSUME Attended PROVE Steady
<1>1. \A p \in Periods : p \in Nat /\ p > 0
  BY KeyscAssumption
<1>2. \A d \in StepCycles : d = 1
  BY DEF Attended
<1>3. \A p, q \in Periods : p = q
  BY DEF Attended
<1> QED BY <1>1, <1>2, <1>3 DEF Steady, tapGapScans

LEMMA Sizes ==
  ASSUME Attended, TypeOK
  PROVE  /\ scanPeriod \in Nat /\ IsrLatency \in Nat
         /\ 1 <= IsrLatency /\ IsrLatency < scanPeriod
         /\ MinHold = 3 * scanPeriod /\ TapGap = 3 * scanPeriod
         /\ cycles \in Nat /\ scanNext \in Nat /\ irqAt \in Nat
         /\ \A k \in Keys : seenScans[k] \in 0..3
         /\ held \subseteq Keys
<1>1. scanPeriod \in Periods /\ scanPeriod \in Nat
  BY KeyscAssumption DEF TypeOK, KeyscTypeOK
<1>2. 1 <= IsrLatency /\ IsrLatency < scanPeriod
  BY <1>1 DEF Attended
<1>3. MinHold = 3 * scanPeriod /\ TapGap = 3 * scanPeriod
  BY DEF MinHold, TapGap, tapHoldScans, tapGapScans
<1>4. cycles \in Nat /\ scanNext \in Nat /\ irqAt \in Nat /\ held \subseteq Keys
  BY DEF TypeOK, KeyscTypeOK
<1>5. \A k \in Keys : seenScans[k] \in 0..3
  BY DEF TypeOK, HistoryTypeOK, tapHoldScans
<1>6. IsrLatency \in Nat
  BY KeyscAssumption
<1> QED BY <1>1, <1>2, <1>3, <1>4, <1>5, <1>6

LEMMA EndsType ==
  ASSUME TypeOK, NEW k \in Keys
  PROVE  \A t \in Ends(k) : t \in Nat
<1>1. \A r \in pendingUp : r.at \in Nat
  BY QueueFacts
<1>2. downAt[k] = Absent \/ downAt[k] + MinHold \in Nat
  BY QueueFacts, HoldIsNat
<1> QED BY <1>1, <1>2 DEF Ends

\* What ScansFit says of a key, scan by scan.
LEMMA ScansByCount ==
  ASSUME Attended, TypeOK, ScansFit, NEW k \in held, NEW t \in Ends(k)
  PROVE  /\ t \in Nat
         /\ seenScans[k] = 0 => scanNext + 2 * scanPeriod < t /\ cycles + 2 * scanPeriod < t
         /\ seenScans[k] = 1 => scanNext + scanPeriod < t /\ cycles + scanPeriod < t
         /\ seenScans[k] = 2 => scanNext < t /\ cycles < t
<1>1. k \in Keys /\ t \in Nat
  BY Sizes, EndsType
<1>2. seenScans[k] < 3 => scanNext + ScansLeft(k) < t /\ cycles + ScansLeft(k) < t
  BY DEF ScansFit, tapHoldScans
<1>3. /\ seenScans[k] = 0 => ScansLeft(k) = 2 * scanPeriod
      /\ seenScans[k] = 1 => ScansLeft(k) = scanPeriod
      /\ seenScans[k] = 2 => ScansLeft(k) = 0
  BY Sizes DEF ScansLeft, tapHoldScans
<1> QED BY <1>1, <1>2, <1>3, Sizes

\* A key that may leave now has been seen by three scans and read.
LEMMA EndMeansRead ==
  ASSUME Attended, TypeOK, Watched, NEW k \in held, NEW t \in Ends(k), t <= cycles
  PROVE  seenScans[k] = tapHoldScans /\ k \in osGot
<1>1. k \in Keys /\ t \in Nat /\ seenScans[k] \in 0..3
  BY Sizes, EndsType
<1>2. seenScans[k] = 3
  BY <1>1, ScansByCount, Sizes DEF Watched
<1>3. k \in osGot
  <2> SUFFICES ASSUME k \notin osGot PROVE FALSE
    OBVIOUS
  <2>1. ReadDue(k, t)
    BY <1>2 DEF Watched, ReadsFit
  <2>2. irq /\ irqAt + IsrLatency < t
    BY <1>1, <1>2, <2>1, Sizes DEF ReadDue
  <2>3. cycles <= irqAt + IsrLatency
    BY <2>2 DEF Watched, OnTime
  <2> QED BY <1>1, <2>2, <2>3, Sizes
<1> QED BY <1>2, <1>3 DEF tapHoldScans

LEMMA InitWatched ==
  ASSUME Attended, KeyInit PROVE Watched
<1>1. Settled
  BY DEF KeyInit, KeyscInit, Settled
<1>2. DOMAIN pendingDown = {} /\ pendingUp = {} /\ hostDown = {} /\ held = {}
  BY DEF KeyInit, KeyscInit
<1>3. OnTime
  <2>1. scanNext = 0 /\ cycles = 0 /\ irqAt = 0 /\ ~irq /\ isr = <<>>
    BY DEF KeyInit, KeyscInit
  <2>2. scanPeriod \in Nat /\ scanPeriod > 0
    BY KeyscAssumption DEF KeyInit, KeyscInit
  <2> QED BY <1>2, <2>1, <2>2 DEF OnTime
<1>4. Turns
  <2>1. Down = {} /\ \A k \in Keys : downAt[k] = Absent
    BY <1>2 DEF Down, KeyInit
  <2> QED BY <1>2, <2>1 DEF Turns
<1>5. ScansFit /\ ReadsFit
  BY <1>2 DEF ScansFit, ReadsFit
<1>6. DriverFollows
  BY <1>2 DEF DriverFollows, KeyInit, KeyscInit
<1> QED BY <1>1, <1>3, <1>4, <1>5, <1>6 DEF Watched

LEMMA OsReadWatched ==
  ASSUME Attended, TypeOK, Watched, OsRead PROVE Watched'
<1>1. /\ irq /\ isr = <<>> /\ irq' = FALSE /\ isr' = <<Sensed, flags>>
      /\ UNCHANGED <<cycles, held, enabled, on, mode, ie, scanPeriod, scanNext, wasHeld, irqAt,
                     osSaw, downAt, pendingUp, pendingDown, tapActive, tapQueue, hostDown, seenScans>>
      /\ osGot' = osGot \cup isr'[1]
  BY DEF OsRead, IsrRead, queueVars, tapVars
<1>2. Sensed = held
  BY Sizes DEF Watched, Settled, Sensed
<1>3. isr' # <<>> /\ isr'[1] = held
  BY <1>1, <1>2
<1>4. Settled'
  BY <1>1 DEF Watched, Settled
<1>5. OnTime'
  BY <1>1 DEF Watched, OnTime
<1>6. Turns'
  BY <1>1 DEF Watched, Turns, Down, Unreleased
<1>7. ScansFit'
  BY <1>1 DEF Watched, ScansFit, Ends, ScansLeft, MinHold
<1>8. ReadsFit'
  BY <1>1, <1>3 DEF ReadsFit
<1>9. DriverFollows'
  <2>1. NextSaw' = IF held # {} THEN "held" ELSE IF osSaw = "held" THEN "released" ELSE "idle"
    BY <1>1, <1>3 DEF NextSaw, NextOsSaw
  <2>2. wasHeld /\ held = {} => osSaw = "held"
    BY <1>1 DEF Watched, DriverFollows, NextSaw
  <2> QED BY <1>1, <2>1, <2>2 DEF DriverFollows
<1> QED BY <1>4, <1>5, <1>6, <1>7, <1>8, <1>9 DEF Watched

LEMMA OsAckWatched ==
  ASSUME Attended, TypeOK, Watched, OsAck PROVE Watched'
<1>1. /\ isr # <<>> /\ osSaw' = NextOsSaw(isr[1]) /\ isr' = <<>>
      /\ ie' = (IF osSaw' = "idle" THEN {"detect"} ELSE {"scan"})
      /\ irqAt' = (IF irq THEN cycles ELSE 0)
      /\ UNCHANGED <<cycles, held, enabled, on, mode, irq, scanPeriod, scanNext, wasHeld,
                     downAt, pendingUp, pendingDown, tapActive, tapQueue, hostDown, seenScans, osGot>>
  BY DEF OsAck, IsrAck, queueVars, tapVars, keyHistory
<1>2. NextSaw' = NextSaw
  BY <1>1 DEF NextSaw
<1>4. Settled'
  BY <1>1 DEF Watched, Settled
<1>5. OnTime'
  BY <1>1, Sizes DEF Watched, OnTime
<1>6. Turns'
  BY <1>1 DEF Watched, Turns, Down, Unreleased
<1>7. ScansFit'
  BY <1>1 DEF Watched, ScansFit, Ends, ScansLeft, MinHold
<1>8. ReadsFit'
  <2> SUFFICES ASSUME NEW k \in held \ osGot, NEW t \in Ends(k), seenScans[k] > 0
               PROVE  ReadDue(k, t)'
    BY <1>1 DEF ReadsFit, Ends, MinHold
  <2>1. ReadDue(k, t) /\ t \in Nat
    BY EndsType, Sizes DEF Watched, ReadsFit
  <2>2. CASE irq
    <3>1. irqAt + (IsrLatency + IsrLatency) < t /\ cycles <= irqAt + IsrLatency
      BY <1>1, <2>1, <2>2 DEF ReadDue, Watched, OnTime
    <3>2. cycles + IsrLatency < t
      BY <2>1, <3>1, Sizes
    <3> QED BY <1>1, <2>2, <3>2 DEF ReadDue
  <2>3. CASE ~irq
    BY <1>1, <1>2, <2>1, <2>3 DEF ReadDue
  <2> QED BY <2>2, <2>3
<1>9. DriverFollows'
  BY <1>1, <1>2 DEF Watched, DriverFollows
<1> QED BY <1>4, <1>5, <1>6, <1>7, <1>8, <1>9 DEF Watched

LEMMA RunOnWatched ==
  ASSUME Attended, TypeOK, Schedule, Watched, NEW d \in StepCycles, RunOn(d) PROVE Watched'
<1>1. /\ cycles' = cycles + 1 /\ BeforeDue /\ IsrInTime(1)
      /\ UNCHANGED <<unitVars, held, scanPeriod, scanNext, queueVars, tapVars, keyHistory>>
  BY DEF RunOn, Attended
<1>2. /\ UNCHANGED <<held, enabled, on, mode, ie, scanPeriod, scanNext, wasHeld, irq, irqAt, isr>>
      /\ UNCHANGED <<osSaw, downAt, pendingUp, pendingDown, tapActive, tapQueue, hostDown>>
      /\ UNCHANGED <<seenScans, osGot>>
  BY <1>1 DEF unitVars, queueVars, tapVars, keyHistory
<1>3. cycles < scanNext
  BY <1>1 DEF BeforeDue
<1>4. Settled'
  BY <1>2 DEF Watched, Settled
<1>5. OnTime'
  <2>1. \A r \in pendingUp : cycles + 1 <= r.at
    <3>1. \A r \in pendingUp : r.at \in Nat /\ cycles < r.at
      BY <1>1, QueueFacts DEF BeforeDue
    <3> QED BY <3>1, Sizes
  <2>2. \A i \in DOMAIN pendingDown : cycles + 1 <= pendingDown[i].at
    <3> SUFFICES ASSUME NEW i \in DOMAIN pendingDown PROVE cycles + 1 <= pendingDown[i].at
      OBVIOUS
    <3>1. 1 \in DOMAIN pendingDown /\ pendingDown # <<>> /\ (i = 1 \/ 1 < i)
      BY QueueFacts, EmptySeq
    <3>2. cycles < pendingDown[1].at
      BY <1>1, <3>1 DEF BeforeDue
    <3>3. i = 1 \/ pendingDown[1].at + MinHold + TapGap <= pendingDown[i].at
      BY <3>1 DEF Schedule
    <3>4. pendingDown[1].at \in Nat /\ pendingDown[i].at \in Nat
      BY <3>1, QueueFacts
    <3> QED BY <3>2, <3>3, <3>4, HoldIsNat, Sizes
  <2>3. irq \/ isr # <<>> => cycles + 1 <= irqAt + IsrLatency
    BY <1>1 DEF IsrInTime
  <2>4. scanNext < cycles + 1 + scanPeriod /\ irqAt <= cycles + 1
    BY Sizes DEF Watched, OnTime
  <2> QED BY <1>1, <1>2, <2>1, <2>2, <2>3, <2>4 DEF OnTime
<1>6. Turns'
  BY <1>2 DEF Watched, Turns, Down, Unreleased
<1>7. ScansFit'
  <2> SUFFICES ASSUME NEW k \in held, NEW t \in Ends(k), seenScans[k] < 3
               PROVE  scanNext + ScansLeft(k) < t /\ cycles + 1 + ScansLeft(k) < t
    BY <1>1, <1>2 DEF ScansFit, Ends, ScansLeft, MinHold, tapHoldScans
  <2>1. scanNext + ScansLeft(k) < t /\ t \in Nat /\ k \in Keys
    BY EndsType, Sizes DEF Watched, ScansFit, tapHoldScans
  <2>2. ScansLeft(k) \in Int
    BY <2>1, Sizes DEF ScansLeft, tapHoldScans
  <2> QED BY <1>3, <2>1, <2>2, Sizes
<1>8. ReadsFit'
  BY <1>2 DEF Watched, ReadsFit, ReadDue, Ends, MinHold, NextSaw, NextOsSaw
<1>9. DriverFollows'
  BY <1>2 DEF Watched, DriverFollows, NextSaw, NextOsSaw
<1> QED BY <1>4, <1>5, <1>6, <1>7, <1>8, <1>9 DEF Watched

LEMMA OneDown ==
  ASSUME Attended, TypeOK, NEW s \in Sources, NEW k \in Keys
  PROVE  /\ <<s, k>> \in hostDown <=> k \in Down
         /\ hostDown' = hostDown \cup {<<s, k>>} => Down' = Down \cup {k}
         /\ hostDown' = hostDown \ {<<s, k>>} => Down' = Down \ {k}
<1>1. \A p \in hostDown : p[1] = s /\ p[2] \in Keys /\ p = <<p[1], p[2]>>
  BY DEF TypeOK, HistoryTypeOK, Attended
<1> QED BY <1>1 DEF Down

LEMMA KeyDownWatched ==
  ASSUME Attended, TypeOK, Watched, NEW s \in Sources, NEW k \in Keys, KeyDown(s, k)
  PROVE  Watched'
<1>1. /\ UNCHANGED <<enabled, on, mode, ie, flags, wasHeld, irq, irqAt, isr, osSaw, cycles>>
      /\ UNCHANGED <<scanPeriod, tapActive, tapQueue>>
  BY DEF KeyDown, unitVars, tapVars
<1>2. k \notin Down /\ Down' = Down \cup {k}
  BY OneDown DEF KeyDown
<1>3. downAt[k] = Absent /\ \A i \in DOMAIN pendingDown : pendingDown[i].key = k => pendingDown[i].up
  BY <1>2 DEF Watched, Turns
<1>4. Settled'
  BY <1>1 DEF Watched, Settled
<1>5. NextSaw' = NextSaw /\ MinHold' = MinHold
  BY <1>1 DEF NextSaw, NextOsSaw, MinHold
<1>6. CASE Busy
  <2>1. UNCHANGED <<downAt, pendingUp, held, scanNext, seenScans, osGot>>
    BY <1>6 DEF KeyDown, QueuePress
  <2>2. PICK t \in WaitTimes :
          /\ \A u \in WaitTimes : u <= t
          /\ pendingDown' = Append(pendingDown, [key |-> k, at |-> t + TapGap, up |-> FALSE])
    BY <1>6 DEF KeyDown, QueuePress
  <2> DEFINE new == Len(pendingDown) + 1
  <2>3. t \in Nat /\ cycles <= t /\ \A r \in pendingUp : r.at <= t
    BY <2>2, WaitTimesType DEF WaitTimes
  <2>4. /\ DOMAIN pendingDown' = 1..new /\ pendingDown'[new] = [key |-> k, at |-> t + TapGap, up |-> FALSE]
        /\ \A i \in 1..Len(pendingDown) : pendingDown'[i] = pendingDown[i]
    <3>1. [key |-> k, at |-> t + TapGap, up |-> FALSE] \in Press_
      BY <2>3, HoldIsNat DEF Press_
    <3>2. pendingDown \in Seq(Press_)
      BY DEF TypeOK, QueueTypeOK
    <3> QED BY <2>2, <3>1, <3>2, AppendProperties, LenProperties
  <2>5. /\ DOMAIN pendingDown = 1..Len(pendingDown) /\ Len(pendingDown) \in Nat /\ new \in 1..new
        /\ \A i \in 1..new : i \in 1..Len(pendingDown) \/ i = new
        /\ \A i \in 1..Len(pendingDown) : i \in 1..new /\ i < new
    BY QueueFacts
  <2>6. pendingDown'[new].key = k /\ pendingDown'[new].at = t + TapGap /\ ~pendingDown'[new].up
    BY <2>4
  <2> HIDE DEF new
  <2>7. OnTime'
    <3>1. \A i \in 1..new : cycles <= pendingDown'[i].at
      <4>1. cycles <= t + TapGap
        BY <2>3, HoldIsNat, Sizes
      <4> QED BY <2>4, <2>5, <2>6, <4>1 DEF Watched, OnTime
    <3> QED BY <1>1, <2>1, <2>4, <3>1 DEF Watched, OnTime
  <2>8. Turns'
    <3>1. ASSUME NEW x \in Keys, downAt[x] # Absent
          PROVE  x \in Down' /\ \A i \in 1..new : pendingDown'[i].key # x
      BY <1>2, <1>3, <2>4, <2>5, <2>6, <3>1 DEF Watched, Turns
    <3>2. ASSUME NEW i \in 1..new, ~pendingDown'[i].up
          PROVE  /\ pendingDown'[i].key \in Down'
                 /\ \A j \in 1..new : i < j => pendingDown'[j].key # pendingDown'[i].key
      <4>1. CASE i = new
        BY <1>2, <2>5, <2>6, <4>1
      <4>2. CASE i \in 1..Len(pendingDown)
        <5>1. pendingDown'[i] = pendingDown[i] /\ pendingDown[i].key \in Down /\ pendingDown[i].key # k
          BY <1>2, <2>4, <2>5, <3>2, <4>2 DEF Watched, Turns
        <5>2. \A j \in 1..Len(pendingDown) : i < j => pendingDown[j].key # pendingDown[i].key
          BY <2>4, <2>5, <3>2, <4>2 DEF Watched, Turns
        <5> QED BY <1>2, <2>4, <2>5, <2>6, <5>1, <5>2
      <4> QED BY <2>5, <4>1, <4>2
    <3>3. ASSUME NEW x \in Down' PROVE downAt[x] # Absent \/ Unreleased(x)' # {}
      <4>1. CASE x = k
        <5>1. new \in Unreleased(x)'
          BY <2>4, <2>5, <2>6, <4>1 DEF Unreleased
        <5> QED BY <5>1
      <4>2. CASE x # k
        <5>1. \A i \in Unreleased(x) : i \in Unreleased(x)'
          BY <2>4, <2>5 DEF Unreleased
        <5> QED BY <1>2, <3>3, <4>2, <5>1 DEF Watched, Turns
      <4> QED BY <4>1, <4>2
    <3>4. ASSUME NEW i \in 1..new, NEW r \in pendingUp, r.key = pendingDown'[i].key
          PROVE  r.at + 2 <= pendingDown'[i].at
      <4>1. CASE i = new
        <5>1. r.at \in Nat /\ r.at <= t
          BY <2>3, QueueFacts
        <5> QED BY <2>3, <2>6, <4>1, <5>1, Sizes
      <4>2. CASE i \in 1..Len(pendingDown)
        BY <2>4, <2>5, <3>4, <4>2 DEF Watched, Turns
      <4> QED BY <2>5, <4>1, <4>2
    <3> QED BY <2>1, <2>4, <3>1, <3>2, <3>3, <3>4 DEF Turns
  <2>9. ScansFit' /\ ReadsFit' /\ DriverFollows'
    BY <1>1, <1>5, <2>1 DEF Watched, ScansFit, ReadsFit, ReadDue, DriverFollows, Ends, ScansLeft
  <2> QED BY <1>4, <2>7, <2>8, <2>9 DEF Watched
<1>7. CASE ~Busy
  <2>1. pendingUp = {} /\ pendingUp' = {} /\ pendingDown = <<>> /\ pendingDown' = <<>>
    BY <1>7 DEF KeyDown, PressNow, Busy
  <2>2. /\ held' = held \cup {k} /\ scanNext' = IF held = {} THEN 0 ELSE scanNext
        /\ downAt' = [downAt EXCEPT ![k] = cycles]
        /\ seenScans' = [x \in Keys |-> IF x = k THEN 0 ELSE seenScans[x]] /\ osGot' = osGot \ {k}
    BY <1>7 DEF KeyDown, PressNow, Press, Matrix, ForgetPress
  <2>3. DOMAIN pendingDown = {} /\ DOMAIN pendingDown' = {}
    BY <2>1
  <2>4. /\ downAt'[k] = cycles /\ cycles # Absent
        /\ \A x \in Keys \ {k} : downAt'[x] = downAt[x]
    BY <2>2, Sizes DEF TypeOK, QueueTypeOK, Absent
  <2>5. OnTime'
    BY <1>1, <2>1, <2>2, <2>3, Sizes DEF Watched, OnTime
  <2>6. Turns'
    <3>1. ASSUME NEW x \in Keys, downAt'[x] # Absent PROVE x \in Down'
      BY <1>2, <2>4, <3>1 DEF Watched, Turns
    <3>2. ASSUME NEW x \in Down' PROVE downAt'[x] # Absent
      <4>1. x = k \/ (x \in Down /\ x \in Keys)
        BY <1>2 DEF Down, TypeOK, HistoryTypeOK
      <4>2. Unreleased(x) = {}
        BY <2>3 DEF Unreleased
      <4> QED BY <2>4, <4>1, <4>2 DEF Watched, Turns
    <3> QED BY <2>1, <2>3, <3>1, <3>2 DEF Turns
  <2>7. ASSUME NEW x \in held', NEW t \in Ends(x)'
        PROVE  \/ x = k /\ t = cycles + MinHold /\ seenScans'[x] = 0
               \/ /\ x # k /\ x \in held /\ t \in Ends(x)
                  /\ seenScans'[x] = seenScans[x] /\ scanNext' = scanNext
    <3>1. x \in Keys
      BY <2>2, Sizes
    <3> QED BY <1>5, <2>1, <2>2, <2>4, <2>7, <3>1 DEF Ends
  <2>8. ScansFit'
    <3> SUFFICES ASSUME NEW x \in held', NEW t \in Ends(x)', seenScans'[x] < tapHoldScans
                 PROVE  scanNext' + ScansLeft(x)' < t /\ cycles + ScansLeft(x)' < t
      BY <1>1 DEF ScansFit
    <3>1. CASE x = k
      <4>1. ScansLeft(x)' = 2 * scanPeriod
        BY <1>1, <2>7, <3>1, Sizes DEF ScansLeft, tapHoldScans
      <4>2. t = cycles + 3 * scanPeriod
        BY <2>7, <3>1, Sizes
      <4>3. scanNext' < cycles + scanPeriod /\ scanNext' \in Nat
        BY <2>2, Sizes DEF Watched, OnTime
      <4> QED BY <4>1, <4>2, <4>3, Sizes
    <3>2. CASE x # k
      BY <1>1, <2>7, <3>2 DEF Watched, ScansFit, ScansLeft
    <3> QED BY <3>1, <3>2
  <2>9. ReadsFit'
    <3> SUFFICES ASSUME NEW x \in held' \ osGot', NEW t \in Ends(x)', seenScans'[x] > 0
                 PROVE  ReadDue(x, t)'
      BY DEF ReadsFit
    <3>1. x # k /\ x \in held \ osGot /\ t \in Ends(x) /\ scanNext' = scanNext /\ seenScans'[x] = seenScans[x]
      BY <2>2, <2>7
    <3>2. ReadDue(x, t)
      BY <3>1 DEF Watched, ReadsFit
    <3> QED BY <1>1, <1>5, <3>1, <3>2 DEF ReadDue
  <2>10. DriverFollows'
    BY <1>1, <1>5, <2>2 DEF Watched, DriverFollows
  <2> QED BY <1>4, <2>5, <2>6, <2>8, <2>9, <2>10 DEF Watched
<1> QED BY <1>6, <1>7

LEMMA KeyUpWatched ==
  ASSUME Attended, TypeOK, Watched, NEW s \in Sources, NEW k \in Keys, KeyUp(s, k)
  PROVE  /\ Watched'
         /\ \A x \in held \ held' : seenScans'[x] = tapHoldScans /\ x \in osGot'
<1>1. /\ UNCHANGED <<enabled, on, mode, ie, flags, wasHeld, irq, irqAt, isr, osSaw, cycles>>
      /\ UNCHANGED <<scanPeriod, scanNext, tapActive, tapQueue, seenScans, osGot>>
      /\ downAt' = [downAt EXCEPT ![k] = Absent]
  BY DEF KeyUp, unitVars, tapVars
<1>2. k \in Down /\ Down' = Down \ {k}
  BY OneDown DEF KeyUp
<1>3. NextSaw' = NextSaw /\ MinHold' = MinHold
  BY <1>1 DEF NextSaw, NextOsSaw, MinHold
<1>4. Settled'
  BY <1>1 DEF Watched, Settled
<1>5. downAt'[k] = Absent /\ \A x \in Keys \ {k} : downAt'[x] = downAt[x]
  BY <1>1 DEF TypeOK, QueueTypeOK
<1>6. downAt[k] # Absent \/ Unreleased(k) # {}
  BY <1>2 DEF Watched, Turns
\* Whatever the release does, no key may leave earlier, and none comes back.
<1>7. ASSUME held' \subseteq held, \A x \in Keys : Ends(x)' \subseteq Ends(x),
             \A x \in held \ held' : seenScans[x] = tapHoldScans /\ x \in osGot
      PROVE  ScansFit' /\ ReadsFit' /\ DriverFollows'
  <2>1. ScansFit'
    BY <1>1, <1>3, <1>7, Sizes DEF Watched, ScansFit, ScansLeft
  <2>2. ReadsFit'
    <3> SUFFICES ASSUME NEW x \in held' \ osGot', NEW t \in Ends(x)', seenScans'[x] > 0
                 PROVE  ReadDue(x, t)'
      BY DEF ReadsFit
    <3>1. x \in held \ osGot /\ t \in Ends(x) /\ seenScans[x] > 0
      BY <1>1, <1>7, Sizes
    <3>2. ReadDue(x, t)
      BY <3>1 DEF Watched, ReadsFit
    <3> QED BY <1>1, <1>3, <3>2 DEF ReadDue
  <2>3. DriverFollows'
    <3>1. held' = {} => held = {} \/ held \cap osGot # {}
      BY <1>7
    <3> QED BY <1>1, <1>3, <1>7, <3>1 DEF Watched, DriverFollows
  <2> QED BY <2>1, <2>2, <2>3
<1>8. CASE Unreleased(k) # {}
  <2>1. PICK i \in Unreleased(k) : pendingDown' = [pendingDown EXCEPT ![i].up = TRUE]
    BY <1>8 DEF KeyUp, ReleaseQueued
  <2>2. held' = held /\ pendingUp' = pendingUp
    BY <1>8 DEF KeyUp, ReleaseQueued
  <2>3. i \in DOMAIN pendingDown /\ pendingDown[i].key = k /\ ~pendingDown[i].up
    BY DEF Unreleased
  <2>4. downAt[k] = Absent
    BY <2>3 DEF Watched, Turns
  <2>5. downAt' = downAt
    BY <1>1, <2>4 DEF TypeOK, QueueTypeOK
  <2>6. /\ DOMAIN pendingDown' = DOMAIN pendingDown
        /\ \A j \in DOMAIN pendingDown :
             /\ pendingDown'[j].at = pendingDown[j].at /\ pendingDown'[j].key = pendingDown[j].key
             /\ pendingDown'[j].up = (IF j = i THEN TRUE ELSE pendingDown[j].up)
    <3>1. \A j \in DOMAIN pendingDown : pendingDown[j] \in Press_
      BY QueueFacts
    <3> QED BY <2>1, <2>3, <3>1 DEF Press_
  \* The press that is let go is the last one of its key.
  <2>7. \A j \in DOMAIN pendingDown : pendingDown[j].key = k /\ ~pendingDown[j].up => j = i
    <3>1. \A j \in DOMAIN pendingDown : j = i \/ j < i \/ i < j
      BY <2>3, QueueFacts
    <3> QED BY <2>3, <3>1 DEF Watched, Turns
  <2>8. OnTime'
    BY <1>1, <2>2, <2>6 DEF Watched, OnTime
  <2>9. Turns'
    <3>1. ASSUME NEW x \in Keys, downAt[x] # Absent
          PROVE  x \in Down' /\ \A j \in DOMAIN pendingDown : pendingDown'[j].key # x
      BY <1>2, <2>4, <2>6, <3>1 DEF Watched, Turns
    <3>2. ASSUME NEW j \in DOMAIN pendingDown, ~pendingDown'[j].up
          PROVE  /\ pendingDown'[j].key \in Down'
                 /\ \A l \in DOMAIN pendingDown : j < l => pendingDown'[l].key # pendingDown'[j].key
      <4>1. j # i /\ ~pendingDown[j].up /\ pendingDown[j].key # k
        BY <2>6, <2>7, <3>2
      <4> QED BY <1>2, <2>6, <4>1 DEF Watched, Turns
    <3>3. ASSUME NEW x \in Down' PROVE downAt[x] # Absent \/ Unreleased(x)' # {}
      <4>1. x \in Down /\ x # k
        BY <1>2
      <4>2. \A j \in Unreleased(x) : j \in Unreleased(x)'
        BY <2>3, <2>6, <4>1 DEF Unreleased
      <4> QED BY <4>1, <4>2 DEF Watched, Turns
    <3>4. ASSUME NEW j \in DOMAIN pendingDown, NEW r \in pendingUp, r.key = pendingDown'[j].key
          PROVE  r.at + 2 <= pendingDown'[j].at
      BY <2>6, <3>4 DEF Watched, Turns
    <3> QED BY <2>2, <2>5, <2>6, <3>1, <3>2, <3>3, <3>4 DEF Turns
  <2>10. \A x \in Keys : Ends(x)' \subseteq Ends(x)
    BY <1>3, <2>2, <2>5 DEF Ends
  <2> QED BY <1>4, <1>7, <2>2, <2>8, <2>9, <2>10 DEF Watched
<1>9. CASE Unreleased(k) = {}
  <2>1. downAt[k] # Absent /\ downAt[k] + MinHold \in Ends(k) /\ pendingDown' = pendingDown
    BY <1>6, <1>9 DEF Ends, KeyUp, DeferRelease, ReleaseNow
  <2>2. \A r \in pendingUp' : 
             \/ r \in pendingUp
             \/ HeldTooShort(k) /\ r = [key |-> k, at |-> downAt[k] + MinHold]
    BY <1>9 DEF KeyUp, DeferRelease, ReleaseNow
  <2>3. \A x \in Keys : Ends(x)' \subseteq Ends(x)
    <3> SUFFICES ASSUME NEW x \in Keys, NEW t \in Ends(x)' PROVE t \in Ends(x)
      OBVIOUS
    <3>1. CASE \E r \in pendingUp' : r.key = x /\ r.at = t
      <4>1. PICK r \in pendingUp' : r.key = x /\ r.at = t
        BY <3>1
      <4>2. CASE r \in pendingUp
        BY <4>1, <4>2 DEF Ends
      <4>3. CASE r = [key |-> k, at |-> downAt[k] + MinHold]
        BY <2>1, <4>1, <4>3
      <4> QED BY <2>2, <4>2, <4>3
    <3>2. CASE downAt'[x] # Absent /\ t = downAt'[x] + MinHold
      <4>1. x # k /\ downAt'[x] = downAt[x]
        BY <1>5, <3>2
      <4> QED BY <3>2, <4>1 DEF Ends
    <3> QED BY <1>3, <3>1, <3>2 DEF Ends
  <2>4. OnTime'
    <3>1. \A r \in pendingUp' : cycles <= r.at
      <4> SUFFICES ASSUME NEW r \in pendingUp', r \notin pendingUp PROVE cycles <= r.at
        BY DEF Watched, OnTime
      <4>1. HeldTooShort(k) /\ r.at = downAt[k] + MinHold
        BY <2>2
      <4> QED BY <4>1, QueueFacts, HoldIsNat DEF HeldTooShort
    <3> QED BY <1>1, <2>1, <3>1 DEF Watched, OnTime
  <2>5. Turns'
    <3>1. ASSUME NEW x \in Keys, downAt'[x] # Absent
          PROVE  x \in Down' /\ \A j \in DOMAIN pendingDown : pendingDown[j].key # x
      <4>1. x # k /\ downAt[x] # Absent
        BY <1>5, <3>1
      <4> QED BY <1>2, <4>1 DEF Watched, Turns
    <3>2. ASSUME NEW j \in DOMAIN pendingDown, ~pendingDown[j].up PROVE pendingDown[j].key \in Down'
      <4>1. pendingDown[j].key # k
        BY <1>9, <3>2 DEF Unreleased
      <4> QED BY <1>2, <3>2, <4>1 DEF Watched, Turns
    <3>3. ASSUME NEW x \in Down' PROVE downAt'[x] # Absent \/ Unreleased(x) # {}
      <4>1. x \in Down /\ x # k /\ x \in Keys
        BY <1>2 DEF Down, TypeOK, HistoryTypeOK
      <4> QED BY <1>5, <4>1 DEF Watched, Turns
    <3>4. ASSUME NEW j \in DOMAIN pendingDown, NEW r \in pendingUp', r.key = pendingDown[j].key
          PROVE  r.at + 2 <= pendingDown[j].at
      <4>1. CASE r \in pendingUp
        BY <3>4, <4>1 DEF Watched, Turns
      <4>2. CASE r = [key |-> k, at |-> downAt[k] + MinHold]
        BY <2>1, <3>4, <4>2 DEF Watched, Turns
      <4> QED BY <2>2, <4>1, <4>2
    <3>5. \A x : Unreleased(x)' = Unreleased(x)
      BY <2>1 DEF Unreleased
    <3>6. \A j \in DOMAIN pendingDown : ~pendingDown[j].up =>
             \A l \in DOMAIN pendingDown : j < l => pendingDown[l].key # pendingDown[j].key
      BY DEF Watched, Turns
    <3> QED BY <2>1, <3>1, <3>2, <3>3, <3>4, <3>5, <3>6 DEF Turns
  <2>6. held' \subseteq held /\ \A x \in held \ held' : seenScans[x] = tapHoldScans /\ x \in osGot
    <3>1. CASE HeldTooShort(k)
      BY <1>9, <3>1 DEF KeyUp, DeferRelease
    <3>2. CASE ~HeldTooShort(k)
      <4>1. held' = held \ {k} /\ downAt[k] + MinHold <= cycles
        BY <1>9, <2>1, <3>2, QueueFacts, HoldIsNat DEF KeyUp, ReleaseNow, HeldTooShort
      <4> QED BY <2>1, <4>1, EndMeansRead
    <3> QED BY <3>1, <3>2
  <2> QED BY <1>1, <1>4, <1>7, <2>3, <2>4, <2>5, <2>6 DEF Watched
<1> QED BY <1>8, <1>9

\* What a scan with a key down does: an interrupt follows unless the driver idles on a press
\* that the unit has already reported.
LEMMA ScanOfHeld ==
  ASSUME Attended, TypeOK, Settled, ScanDue, UnitTick
  PROVE  /\ wasHeld' = (held # {})
         /\ irq => irq' /\ irqAt' = irqAt
         /\ irqAt' # irqAt => irq' /\ ~irq /\ isr = <<>> /\ irqAt' = cycles
         /\ irq' /\ ~irq /\ isr = <<>> => irqAt' = cycles
         /\ held # {} /\ ~irq' => osSaw = "idle" /\ wasHeld
<1>1. Sensed = held
  BY Sizes DEF Settled, Sensed
<1>2. Active /\ Scan
  BY DEF UnitTick, Active, Settled
<1>3. /\ flags' = flags \cup {f \in Flag : (f = "detect" /\ Detects) \/ (f = "scan" /\ Reports)}
      /\ wasHeld' = (held # {}) /\ irq' = (irq \/ flags' \cap ie # {})
      /\ irqAt' = IF irq' /\ ~irq /\ isr = <<>> THEN cycles ELSE irqAt
  <2>1. flags' = flags \cup {f \in Flag : (f = "detect" /\ Detects) \/ (f = "scan" /\ Reports)}
    BY <1>2 DEF Scan
  <2>2. wasHeld' = (held # {})
    BY <1>1, <1>2 DEF Scan
  <2>3. irq' = (irq \/ flags' \cap ie # {})
    BY <1>2 DEF Scan
  <2>4. irqAt' = IF irq' /\ ~irq /\ isr = <<>> THEN cycles ELSE irqAt
    BY <1>2 DEF Scan
  <2> QED BY <2>1, <2>2, <2>3, <2>4
<1>4. ASSUME held # {}, ~irq' PROVE osSaw = "idle" /\ wasHeld
  <2>1. flags' \cap ie = {}
    BY <1>3, <1>4
  <2>2. Reports
    BY <1>1, <1>4 DEF Reports, Settled
  <2>3. "scan" \in flags'
    BY <1>3, <2>2 DEF Flag
  <2>4. osSaw = "idle" /\ ie = {"detect"}
    BY <2>1, <2>3 DEF Settled
  <2>5. ~Detects
    <3>1. Detects => "detect" \in flags'
      BY <1>3 DEF Flag
    <3>2. "detect" \notin flags'
      BY <2>1, <2>4
    <3> QED BY <3>1, <3>2
  <2> QED BY <1>1, <1>4, <2>4, <2>5 DEF Detects
<1>5. irq \in BOOLEAN /\ irq' \in BOOLEAN
  BY <1>3 DEF TypeOK, KeyscTypeOK
<1> QED BY <1>3, <1>4, <1>5

LEMMA NoScan ==
  ASSUME ~ScanDue, UnitTick
  PROVE  UNCHANGED <<wasHeld, irq, irqAt>>
BY DEF UnitTick

LEMMA IterateWatched ==
  ASSUME Attended, TypeOK, Schedule, Watched, NEW d \in StepCycles, Iterate(d)
  PROVE  /\ Watched'
         /\ \A x \in held \ held' : seenScans'[x] = tapHoldScans /\ x \in osGot'
<1> DEFINE now == cycles + 1
<1>1. d = 1 /\ cycles' = now /\ UnitTick /\ IsrInTime(1) /\ DriveTap(now)
  BY DEF Iterate, Attended
<1>2. /\ UNCHANGED <<enabled, on, mode, ie, isr, osSaw, scanPeriod, hostDown>>
      /\ ~tapActive /\ tapQueue = <<>> /\ UNCHANGED <<tapActive, tapQueue>>
  <2>1. ~tapActive /\ tapQueue = <<>>
    BY DEF Watched, Settled
  <2>2. ~TapLetsGo(now) /\ ~TapGoesDown(now)
    BY <2>1 DEF TapLetsGo, TapGoesDown
  <2>3. UNCHANGED <<tapActive, tapQueue>>
    BY <1>1, <2>2 DEF DriveTap, tapVars
  <2> QED BY <2>1, <2>3 DEF Iterate, UnitTick
<1>3. PICK n \in 0..Len(pendingDown) :
        /\ IsDuePrefix(n, now) /\ FlushQueues(n, now)
        /\ LET m == Flushed(TapMatrix(Matrix(held, NextScan), now), n, now)
           IN  held' = m.held /\ scanNext' = m.scanNext
        /\ NoteScan(LandedKeys(n) \cup {k \in {tapKey'} : tapActive' /\ ~tapActive})
  BY <1>1 DEF Iterate
<1>4. /\ TapMatrix(Matrix(held, NextScan), now) = Matrix(held, NextScan)
      /\ LandedKeys(n) \cup {k \in {tapKey'} : tapActive' /\ ~tapActive} = LandedKeys(n)
  BY <1>2 DEF TapMatrix, TapLetsGo, TapGoesDown
<1>5. /\ held' = (held \cup LandedKeys(n)) \ {r.key : r \in {u \in pendingUp : now >= u.at}}
      /\ scanNext' = IF n > 0 /\ held = {} THEN 0 ELSE NextScan
      /\ NoteScan(LandedKeys(n))
  <2> DEFINE kept == (held \cup LandedKeys(n)) \ {r.key : r \in {u \in pendingUp : now >= u.at}}
  <2>1. Matrix(held, NextScan).held = held /\ Matrix(held, NextScan).scanNext = NextScan
    BY DEF Matrix
  <2>2. Flushed(Matrix(held, NextScan), n, now)
          = Matrix(kept, IF n > 0 /\ held = {} THEN 0 ELSE NextScan)
    BY <2>1 DEF Flushed
  <2>3. /\ Flushed(Matrix(held, NextScan), n, now).held = kept
        /\ Flushed(Matrix(held, NextScan), n, now).scanNext = IF n > 0 /\ held = {} THEN 0 ELSE NextScan
    <3> HIDE DEF kept
    <3> QED BY <2>2 DEF Matrix
  <2>4. /\ held' = Flushed(Matrix(held, NextScan), n, now).held
        /\ scanNext' = Flushed(Matrix(held, NextScan), n, now).scanNext
        /\ NoteScan(LandedKeys(n))
    BY <1>3, <1>4
  <2> QED BY ONLY <2>3, <2>4
<1> DEFINE len == Len(pendingDown)
<1>6. /\ n = 0 \/ n = 1
      /\ DOMAIN pendingDown' = 1..(len - n)
      /\ \A i \in 1..(len - n) :
              /\ pendingDown'[i] = pendingDown[i + n]
              /\ i + n \in DOMAIN pendingDown /\ pendingDown[i + n].at \in Nat
              /\ pendingDown[i + n].at > now
              /\ n = 1 => pendingDown[i + n].at > now + MinHold
  BY <1>1, <1>3, AttendedSteady, FlushDrops
<1>7. now \in Nat /\ len \in Nat /\ DOMAIN pendingDown = 1..len /\ n \in 0..len
  BY QueueFacts
<1> HIDE DEF now, len
<1> DEFINE first == pendingDown[1]
<1>8. ASSUME n = 1
      PROVE  /\ 1 \in DOMAIN pendingDown /\ first.key \in Keys /\ first.at \in Nat /\ first.up \in BOOLEAN
             /\ cycles <= first.at /\ first.at <= now
             /\ \A r \in pendingUp : r.key # first.key
             /\ LandedKeys(n) = {first.key}
             /\ LandedHeld(n) = IF first.up THEN {} ELSE {first.key}
             /\ LandedUp(n, now) = IF first.up THEN {[key |-> first.key, at |-> now + MinHold]} ELSE {}
  <2>1. 1 \in DOMAIN pendingDown /\ first.key \in Keys /\ first.at \in Nat /\ first.up \in BOOLEAN
    BY <1>7, <1>8, QueueFacts
  <2>2. first.at <= now /\ cycles <= first.at
    BY <1>3, <1>7, <1>8, <2>1 DEF IsDuePrefix, Watched, OnTime
  <2>3. ASSUME NEW r \in pendingUp, r.key = first.key PROVE FALSE
    <3>1. r.at + 2 <= first.at /\ cycles <= r.at /\ r.at \in Nat
      BY <2>1, <2>3, QueueFacts DEF Watched, Turns, OnTime
    <3> QED BY <2>1, <2>2, <3>1, Sizes DEF now
  <2>4. 1..n = {1}
    BY <1>8
  <2> QED BY <2>1, <2>2, <2>3, <2>4 DEF LandedKeys, LandedHeld, LandedUp
<1>9. ASSUME n = 0
      PROVE  LandedKeys(n) = {} /\ LandedHeld(n) = {} /\ LandedUp(n, now) = {}
  BY <1>9 DEF LandedKeys, LandedHeld, LandedUp
<1>10. /\ pendingUp' = {r \in pendingUp \cup LandedUp(n, now) : now < r.at}
       /\ downAt' = [k \in Keys |-> IF k \in LandedHeld(n) THEN now ELSE downAt[k]]
  BY <1>3 DEF FlushQueues
<1>11. /\ seenScans' = [k \in Keys |->
             IF k \in LandedKeys(n) THEN 0
             ELSE IF ScanDue /\ k \in held /\ seenScans[k] < 3 THEN seenScans[k] + 1 ELSE seenScans[k]]
       /\ osGot' = osGot \ LandedKeys(n)
  <2>1. Sensed = held /\ Active
    BY Sizes DEF Watched, Settled, Sensed, Active
  <2> QED BY <1>5, <2>1 DEF NoteScan, tapHoldScans
<1>12. NextSaw' = NextSaw /\ MinHold' = MinHold /\ MinHold = 3 * scanPeriod
  BY <1>2, Sizes DEF NextSaw, NextOsSaw, MinHold
<1> HIDE DEF first
<1>13. Settled'
  BY <1>2 DEF Watched, Settled
<1>14. LandedKeys(n) \subseteq held'
  <2>1. CASE n = 0
    BY <1>9, <2>1
  <2>2. CASE n = 1
    BY <1>5, <1>8, <2>2
  <2> QED BY <1>6, <2>1, <2>2
\* The unit: an interrupt that was pending stays, and one is raised for a press the scan sees.
<1>15. /\ irq => irq' /\ irqAt' = irqAt
       /\ irqAt' # irqAt => irq' /\ ~irq /\ isr = <<>> /\ irqAt' = cycles
       /\ irq' /\ ~irq /\ isr = <<>> => irqAt' = cycles
       /\ ScanDue => wasHeld' = (held # {})
       /\ ScanDue /\ held # {} /\ ~irq' => osSaw = "idle" /\ wasHeld
       /\ ~ScanDue => UNCHANGED <<wasHeld, irq, irqAt>>
       /\ irq \in BOOLEAN
  <2>1. irq \in BOOLEAN
    BY DEF TypeOK, KeyscTypeOK
  <2>2. CASE ScanDue
    BY <1>1, <2>1, <2>2, ScanOfHeld DEF Watched
  <2>3. CASE ~ScanDue
    BY <1>1, <2>1, <2>3, NoScan
  <2> QED BY <2>2, <2>3
\* A time at which a key may leave after the turn: of a press that just landed, or as before.
<1>16. ASSUME NEW k \in Keys, NEW t \in Ends(k)'
       PROVE  IF k \in LandedKeys(n) THEN t = now + MinHold ELSE t \in Ends(k)
  <2>1. CASE \E r \in pendingUp' : r.key = k /\ r.at = t
    <3>1. PICK r \in pendingUp' : r.key = k /\ r.at = t
      BY <2>1
    <3>2. CASE r \in pendingUp
      <4>1. k \notin LandedKeys(n)
        BY <1>6, <1>8, <1>9, <3>1, <3>2
      <4> QED BY <3>1, <3>2, <4>1 DEF Ends
    <3>3. CASE r \in LandedUp(n, now)
      <4>1. n = 1 /\ r = [key |-> first.key, at |-> now + MinHold]
        BY <1>6, <1>8, <1>9, <3>3
      <4> QED BY <1>8, <3>1, <4>1
    <3> QED BY <1>10, <3>2, <3>3
  <2>2. CASE downAt'[k] # Absent /\ t = downAt'[k] + MinHold
    <3>1. CASE k \in LandedHeld(n)
      BY <1>6, <1>8, <1>9, <1>10, <2>2, <3>1
    <3>2. CASE k \notin LandedHeld(n)
      <4>1. downAt'[k] = downAt[k] /\ downAt[k] # Absent
        BY <1>10, <2>2, <3>2
      <4>2. k \notin LandedKeys(n)
        <5> SUFFICES ASSUME k \in LandedKeys(n) PROVE FALSE
          OBVIOUS
        <5>1. 1 \in DOMAIN pendingDown /\ pendingDown[1].key = k
          BY <1>6, <1>8, <1>9 DEF first
        <5> QED BY <4>1, <5>1 DEF Watched, Turns
      <4> QED BY <2>2, <4>1, <4>2 DEF Ends
    <3> QED BY <3>1, <3>2
  <2> QED BY <1>12, <2>1, <2>2 DEF Ends
\* A key that was not landed is an old one, and its count follows the scan.
<1>17. ASSUME NEW k \in held' , k \notin LandedKeys(n)
       PROVE  /\ k \in held /\ k \in Keys /\ scanNext' = NextScan
              /\ seenScans'[k] = IF ScanDue /\ seenScans[k] < 3 THEN seenScans[k] + 1 ELSE seenScans[k]
  <2>1. k \in held /\ k \in Keys
    BY <1>5, <1>17, Sizes
  <2> QED BY <1>5, <1>11, <1>17, <2>1
<1>18. OnTime'
  <2>1. scanNext' < cycles' + scanPeriod'
    BY <1>1, <1>2, <1>5, Sizes DEF Watched, OnTime, NextScan, now
  <2>2. irqAt' <= cycles'
    BY <1>1, <1>15, Sizes DEF Watched, OnTime, now
  <2>3. irq' \/ isr' # <<>> => cycles' <= irqAt' + IsrLatency
    <3>1. irq \/ isr # <<>> => now <= irqAt + IsrLatency
      BY <1>1 DEF IsrInTime, now
    <3>2. CASE irqAt' = irqAt
      BY <1>1, <1>2, <1>15, <3>1, <3>2, Sizes DEF now
    <3>3. CASE irqAt' # irqAt
      BY <1>1, <1>15, <3>3, Sizes DEF now
    <3> QED BY <3>2, <3>3
  <2>4. \A r \in pendingUp' : cycles' <= r.at
    <3>1. \A r \in pendingUp' : r.at \in Nat /\ now < r.at
      <4>1. \A r \in LandedUp(n, now) : r.at \in Nat
        BY <1>6, <1>7, <1>8, <1>9, HoldIsNat
      <4> QED BY <1>10, <4>1, QueueFacts
    <3> QED BY <1>1, <1>7, <3>1
  <2>5. \A i \in DOMAIN pendingDown' : cycles' <= pendingDown'[i].at
    BY <1>1, <1>6, <1>7
  <2> QED BY <2>1, <2>2, <2>3, <2>4, <2>5 DEF OnTime
<1>19. Turns'
  <2>0. Down' = Down
    BY <1>2 DEF Down
  <2>1. ASSUME NEW k \in Keys, downAt'[k] # Absent
        PROVE  k \in Down /\ \A i \in 1..(len - n) : pendingDown'[i].key # k
    <3>1. CASE k \in LandedHeld(n)
      <4>1. n = 1 /\ first.key = k /\ ~first.up /\ 1 \in DOMAIN pendingDown
        BY <1>6, <1>8, <1>9, <3>1
      <4>2. k \in Down /\ \A j \in DOMAIN pendingDown : 1 < j => pendingDown[j].key # k
        BY <4>1 DEF Watched, Turns, first
      <4>3. \A i \in 1..(len - n) : 1 < i + n
        BY <1>7, <4>1
      <4> QED BY <1>6, <4>2, <4>3
    <3>2. CASE k \notin LandedHeld(n)
      <4>1. downAt[k] # Absent
        BY <1>10, <2>1, <3>2
      <4>2. k \in Down /\ \A j \in DOMAIN pendingDown : pendingDown[j].key # k
        BY <4>1 DEF Watched, Turns
      <4> QED BY <1>6, <4>2
    <3> QED BY <3>1, <3>2
  <2>2. ASSUME NEW i \in 1..(len - n), ~pendingDown'[i].up
        PROVE  /\ pendingDown'[i].key \in Down
               /\ \A j \in 1..(len - n) : i < j => pendingDown'[j].key # pendingDown'[i].key
    <3>1. i + n \in DOMAIN pendingDown /\ ~pendingDown[i + n].up /\ pendingDown'[i] = pendingDown[i + n]
      BY <1>6, <2>2
    <3>2. /\ pendingDown[i + n].key \in Down
          /\ \A j \in DOMAIN pendingDown : i + n < j => pendingDown[j].key # pendingDown[i + n].key
      BY <3>1 DEF Watched, Turns
    <3>3. \A j \in 1..(len - n) : i < j => i + n < j + n
      BY <1>7
    <3> QED BY <1>6, <3>1, <3>2, <3>3
  <2>3. ASSUME NEW k \in Down PROVE downAt'[k] # Absent \/ Unreleased(k)' # {}
    <3>0. k \in Keys
      BY DEF Down, TypeOK, HistoryTypeOK
    <3>1. CASE downAt[k] # Absent
      <4>1. now # Absent
        BY <1>7 DEF Absent
      <4> QED BY <1>10, <3>0, <3>1, <4>1
    <3>2. CASE Unreleased(k) # {}
      <4>1. PICK i \in DOMAIN pendingDown : pendingDown[i].key = k /\ ~pendingDown[i].up
        BY <3>2 DEF Unreleased
      <4>2. CASE i <= n
        <5>1. n = 1 /\ i = 1
          BY <1>6, <1>7, <4>2
        <5>2. k \in LandedHeld(n)
          BY <1>8, <4>1, <5>1 DEF first
        <5>3. downAt'[k] = now /\ now # Absent
          BY <1>7, <1>10, <3>0, <5>2 DEF Absent
        <5> QED BY <5>3
      <4>3. CASE i > n
        <5>1. i - n \in 1..(len - n) /\ (i - n) + n = i
          BY <1>6, <1>7, <4>3
        <5>2. pendingDown'[i - n] = pendingDown[i]
          BY <1>6, <5>1
        <5>3. i - n \in Unreleased(k)'
          BY <1>6, <4>1, <5>1, <5>2 DEF Unreleased
        <5> QED BY <5>3
      <4> QED BY <1>6, <1>7, <4>2, <4>3
    <3> QED BY <3>1, <3>2 DEF Watched, Turns
  <2>4. ASSUME NEW i \in 1..(len - n), NEW r \in pendingUp', r.key = pendingDown'[i].key
        PROVE  r.at + 2 <= pendingDown'[i].at
    <3>1. i + n \in DOMAIN pendingDown /\ pendingDown'[i] = pendingDown[i + n]
      BY <1>6
    <3>2. CASE r \in pendingUp
      BY <2>4, <3>1, <3>2 DEF Watched, Turns
    <3>3. CASE r \in LandedUp(n, now)
      <4>1. n = 1 /\ r.at = now + MinHold
        BY <1>6, <1>8, <1>9, <3>3
      <4>2. 1 < i + n
        BY <1>7, <4>1
      <4>3. first.at + MinHold + TapGap <= pendingDown[i + n].at
        BY <1>8, <3>1, <4>1, <4>2 DEF Schedule, first
      <4>4. pendingDown[i + n].at \in Nat /\ first.at \in Nat /\ now <= first.at + 1
        <5>1. pendingDown[i + n].at \in Nat
          BY <1>6
        <5>2. first.at \in Nat /\ cycles <= first.at
          BY <1>8, <4>1
        <5> QED BY <5>1, <5>2, Sizes DEF now
      <4> DEFINE before == first.at
      <4> DEFINE later == pendingDown[i + n].at
      <4>5. before + MinHold + TapGap <= later /\ later \in Nat /\ before \in Nat /\ now <= before + 1
        BY <4>3, <4>4
      <4> HIDE DEF before, later
      <4>6. now + MinHold + 2 <= later
        BY <1>7, <4>5, Sizes
      <4> QED BY <3>1, <4>1, <4>6 DEF later
    <3> QED BY <1>10, <3>2, <3>3
  <2>5. DOMAIN pendingDown' = 1..(len - n)
    BY <1>6
  <2>6. \A k \in Keys : downAt'[k] # Absent =>
          k \in Down' /\ \A i \in DOMAIN pendingDown' : pendingDown'[i].key # k
    BY ONLY <2>0, <2>1, <2>5
  <2>7. \A i \in DOMAIN pendingDown' : ~pendingDown'[i].up =>
          /\ pendingDown'[i].key \in Down'
          /\ \A j \in DOMAIN pendingDown' : i < j => pendingDown'[j].key # pendingDown'[i].key
    BY ONLY <2>0, <2>2, <2>5
  <2>8. \A k \in Down' : downAt'[k] # Absent \/ Unreleased(k)' # {}
    BY ONLY <2>0, <2>3
  <2>9. \A i \in DOMAIN pendingDown' : \A r \in pendingUp' :
          r.key = pendingDown'[i].key => r.at + 2 <= pendingDown'[i].at
    BY ONLY <2>4, <2>5
  <2> QED BY <2>6, <2>7, <2>8, <2>9 DEF Turns
<1>20. ScansFit'
  <2> SUFFICES ASSUME NEW k \in held', NEW t \in Ends(k)', seenScans'[k] < 3
               PROVE  scanNext' + ScansLeft(k)' < t /\ now + ScansLeft(k)' < t
    BY <1>1 DEF ScansFit, tapHoldScans
  <2>1. k \in Keys /\ ScansLeft(k)' = (2 - seenScans'[k]) * scanPeriod
    BY <1>2, <1>5, <1>8, <1>9, <1>6, Sizes DEF ScansLeft, tapHoldScans
  <2>2. CASE k \in LandedKeys(n)
    <3>1. seenScans'[k] = 0 /\ t = now + 3 * scanPeriod
      BY <1>11, <1>12, <1>16, <2>1, <2>2
    <3>2. scanNext' < now + scanPeriod
      BY <1>1, <1>2, <1>18 DEF OnTime
    <3>3. scanNext' \in Nat
      BY <1>5, Sizes DEF NextScan
    <3>4. ScansLeft(k)' = 2 * scanPeriod
      BY <2>1, <3>1
    <3> QED BY <1>7, <3>1, <3>2, <3>3, <3>4, Sizes
  <2>3. CASE k \notin LandedKeys(n)
    <3>1. k \in held /\ t \in Ends(k) /\ scanNext' = NextScan
      BY <1>16, <1>17, <2>1, <2>3
    <3>2. seenScans[k] \in 0..3
      BY <2>1, Sizes
    <3>3. /\ t \in Nat
          /\ seenScans[k] = 0 => scanNext + 2 * scanPeriod < t /\ cycles + 2 * scanPeriod < t
          /\ seenScans[k] = 1 => scanNext + scanPeriod < t /\ cycles + scanPeriod < t
          /\ seenScans[k] = 2 => scanNext < t /\ cycles < t
      BY <3>1, ScansByCount DEF Watched
    <3>4. CASE ScanDue
      <4>1. seenScans'[k] = seenScans[k] + 1 /\ seenScans[k] \in 0..1 /\ scanNext' = cycles + scanPeriod
        BY <1>17, <2>3, <3>1, <3>2, <3>4 DEF NextScan
      <4>2. CASE seenScans[k] = 0
        <5>1. ScansLeft(k)' = scanPeriod
          BY <2>1, <4>1, <4>2, Sizes
        <5> QED BY <3>3, <4>1, <4>2, <5>1, Sizes DEF now
      <4>3. CASE seenScans[k] = 1
        <5>1. ScansLeft(k)' = 0
          BY <2>1, <4>1, <4>3, Sizes
        <5> QED BY <3>3, <4>1, <4>3, <5>1, Sizes DEF now
      <4> QED BY <4>1, <4>2, <4>3
    <3>5. CASE ~ScanDue
      <4>1. seenScans'[k] = seenScans[k] /\ scanNext' = scanNext /\ cycles < scanNext
        BY <1>17, <2>3, <3>1, <3>5, Sizes DEF NextScan, ScanDue
      <4>2. /\ seenScans[k] = 0 => ScansLeft(k)' = 2 * scanPeriod
            /\ seenScans[k] = 1 => ScansLeft(k)' = scanPeriod
            /\ seenScans[k] = 2 => ScansLeft(k)' = 0
        BY <2>1, <4>1, Sizes
      <4> QED BY <3>2, <3>3, <4>1, <4>2, Sizes DEF now
    <3> QED BY <3>4, <3>5
  <2> QED BY <2>2, <2>3
<1>21. ReadsFit'
  <2> SUFFICES ASSUME NEW k \in held' \ osGot', NEW t \in Ends(k)', seenScans'[k] > 0
               PROVE  ReadDue(k, t)'
    BY DEF ReadsFit
  <2>1. k \notin LandedKeys(n)
    <3>1. k \in Keys
      BY <1>5, <1>6, <1>8, <1>9, Sizes
    <3> QED BY <1>11, <3>1
  <2>2. /\ k \in held \ osGot /\ k \in Keys /\ t \in Ends(k) /\ scanNext' = NextScan
        /\ seenScans'[k] = IF ScanDue /\ seenScans[k] < 3 THEN seenScans[k] + 1 ELSE seenScans[k]
    BY <1>11, <1>16, <1>17, <2>1
  <2>3. seenScans[k] \in 0..3 /\ t \in Nat
    BY <2>2, EndsType, Sizes
  <2>4. seenScans[k] > 0 => ReadDue(k, t)
    BY <2>2 DEF Watched, ReadsFit
  <2>5. CASE ~ScanDue
    <3>1. ReadDue(k, t) /\ seenScans'[k] = seenScans[k] /\ scanNext' = scanNext
      BY <2>2, <2>4, <2>5 DEF NextScan
    <3> QED BY <1>2, <1>12, <1>15, <2>5, <3>1 DEF ReadDue
  <2>6. CASE ScanDue /\ irq
    <3>1. irqAt + (IF isr = <<>> THEN IsrLatency ELSE IsrLatency + IsrLatency) < t
      <4>1. CASE seenScans[k] > 0
        BY <2>4, <2>6, <4>1 DEF ReadDue
      <4>2. CASE seenScans[k] = 0
        <5>1. cycles + 2 * scanPeriod < t
          BY <2>2, <4>2, ScansByCount DEF Watched
        <5>2. irqAt <= cycles
          BY DEF Watched, OnTime
        <5> QED BY <2>3, <5>1, <5>2, Sizes
      <4> QED BY <2>3, <4>1, <4>2
    <3> QED BY <1>2, <1>15, <2>6, <3>1 DEF ReadDue
  \* A press that a scan saw without raising anything: the driver is awake, so this scan raises it.
  <2>7. CASE ScanDue /\ ~irq /\ seenScans[k] > 0
    <3>1. seenScans[k] = 1 /\ NextSaw = "held" /\ (isr # <<>> => irqAt + IsrLatency < scanNext)
      BY <2>4, <2>7 DEF ReadDue
    <3>2. isr = <<>>
      <4> SUFFICES ASSUME isr # <<>> PROVE FALSE
        OBVIOUS
      <4>1. cycles <= irqAt + IsrLatency /\ irqAt + IsrLatency < scanNext
        BY <3>1 DEF Watched, OnTime
      <4> QED BY <2>7, <4>1, Sizes DEF ScanDue
    <3>3. osSaw = "held"
      BY <3>1, <3>2 DEF NextSaw
    <3>4. irq' /\ irqAt' = cycles
      BY <1>15, <2>2, <2>7, <3>2, <3>3
    <3>5. cycles + scanPeriod < t
      BY <2>2, <3>1, ScansByCount DEF Watched
    <3>6. cycles + IsrLatency < t
      BY <2>3, <3>5, Sizes
    <3> QED BY <1>2, <3>2, <3>4, <3>6 DEF ReadDue
  <2>8. CASE ScanDue /\ ~irq /\ seenScans[k] = 0
    <3>1. cycles + 2 * scanPeriod < t
      BY <2>2, <2>8, ScansByCount DEF Watched
    <3>2. irqAt <= cycles /\ irqAt' <= cycles /\ irqAt' \in Nat
      BY <1>15, Sizes DEF Watched, OnTime
    <3>3. CASE irq'
      <4>1. irqAt' + (IF isr = <<>> THEN IsrLatency ELSE IsrLatency + IsrLatency) < t
        BY <2>3, <3>1, <3>2, Sizes
      <4> QED BY <1>2, <3>3, <4>1 DEF ReadDue
    <3>4. CASE ~irq'
      <4>1. osSaw = "idle" /\ wasHeld /\ irqAt' = irqAt
        BY <1>15, <2>2, <2>8, <3>4
      <4>2. NextSaw # "idle"
        BY <2>8, <4>1 DEF Watched, DriverFollows
      <4>3. NextSaw = "held"
        BY <4>1, <4>2 DEF NextSaw, NextOsSaw
      <4>4. seenScans'[k] = 1 /\ scanNext' = cycles + scanPeriod
        BY <2>2, <2>8 DEF NextScan
      <4>5. irqAt + IsrLatency < cycles + scanPeriod
        BY <3>2, Sizes DEF Watched, OnTime
      <4> QED BY <1>2, <1>12, <3>4, <4>1, <4>3, <4>4, <4>5 DEF ReadDue
    <3> QED BY <3>3, <3>4
  <2> QED BY <2>3, <2>5, <2>6, <2>7, <2>8
\* A key leaves on a deferred release, whose time has come.
<1>22. ASSUME NEW k \in held, k \notin held'
       PROVE  seenScans'[k] = tapHoldScans /\ k \in osGot /\ k \in osGot'
  <2>1. PICK r \in pendingUp : r.key = k /\ now >= r.at
    BY <1>5, <1>22
  <2> DEFINE t == r.at
  <2>2. t \in Ends(k) /\ t \in Nat /\ k \in Keys
    BY <2>1, QueueFacts DEF Ends
  <2>3. k \notin LandedKeys(n)
    BY <1>14, <1>22
  <2>4. /\ seenScans[k] = 0 => scanNext + 2 * scanPeriod < t /\ cycles + 2 * scanPeriod < t
        /\ seenScans[k] = 1 => scanNext + scanPeriod < t /\ cycles + scanPeriod < t
        /\ seenScans[k] = 2 => scanNext < t /\ cycles < t
    BY <2>2, ScansByCount DEF Watched
  <2>5. t <= cycles + 1
    BY <2>1, <2>2, <1>7 DEF now
  <2> HIDE DEF t
  <2>6. /\ seenScans[k] = 3 \/ (seenScans[k] = 2 /\ ScanDue)
    <3>1. seenScans[k] \in 0..3
      BY <2>2, Sizes
    <3> QED BY <2>2, <2>4, <2>5, <3>1, Sizes DEF ScanDue
  <2>7. seenScans'[k] = 3
    BY <1>11, <2>2, <2>3, <2>6
  <2>8. k \in osGot
    <3> SUFFICES ASSUME k \notin osGot PROVE FALSE
      OBVIOUS
    <3>1. ReadDue(k, t)
      BY <2>2, <2>6 DEF Watched, ReadsFit
    <3>2. irq /\ irqAt + IsrLatency < t
      BY <2>2, <2>6, <3>1, Sizes DEF ReadDue
    <3>3. cycles + 1 <= irqAt + IsrLatency
      BY <1>1, <3>2 DEF IsrInTime
    <3> QED BY <2>2, <2>5, <3>2, <3>3, Sizes
  <2> QED BY <1>11, <2>3, <2>7, <2>8 DEF tapHoldScans
<1>23. DriverFollows'
  <2>1. held' \cap osGot' # {} => NextSaw' = "held"
    <3> SUFFICES ASSUME NEW k \in held' \cap osGot' PROVE NextSaw = "held"
      BY <1>12
    <3>1. k \in held \cap osGot
      BY <1>5, <1>11
    <3> QED BY <3>1 DEF Watched, DriverFollows
  <2>2. wasHeld' /\ ~irq' => NextSaw' # "idle"
    <3> SUFFICES ASSUME wasHeld', ~irq' PROVE wasHeld /\ ~irq
      BY <1>12 DEF Watched, DriverFollows
    <3> QED BY <1>15
  <2>3. wasHeld' /\ irq' /\ held' = {} => NextSaw' = "held"
    <3> SUFFICES ASSUME wasHeld', irq', held' = {} PROVE NextSaw = "held"
      BY <1>12
    <3>1. CASE held = {}
      <4>1. ~ScanDue
        BY <1>15, <3>1
      <4> QED BY <1>15, <3>1, <4>1 DEF Watched, DriverFollows
    <3>2. CASE held # {}
      <4>1. \E k \in held : k \in osGot
        BY <1>22, <3>2
      <4> QED BY <4>1 DEF Watched, DriverFollows
    <3> QED BY <3>1, <3>2
  <2> QED BY <2>1, <2>2, <2>3 DEF DriverFollows
<1> QED BY <1>13, <1>18, <1>19, <1>20, <1>21, <1>22, <1>23 DEF Watched

LEMMA StepWatched ==
  ASSUME Attended, TypeOK, Schedule, Watched, [KeyNext]_keyVars
  PROVE  /\ Watched'
         /\ LetGo => \A x \in held \ held' : seenScans'[x] = tapHoldScans /\ x \in osGot'
<1>1. ASSUME NEW d \in StepCycles, RunOn(d) PROVE held' = held
  BY <1>1 DEF RunOn
<1>2. LetGo => \A x \in held \ held' : seenScans'[x] = tapHoldScans /\ x \in osGot'
  BY <1>1, IterateWatched, KeyUpWatched DEF LetGo, Machine
<1>3. ASSUME NEW s \in Sources, NEW k \in Keys, KeyDown(s, k) \/ KeyUp(s, k) PROVE Watched'
  BY <1>3, KeyDownWatched, KeyUpWatched
<1>4. ASSUME Machine PROVE Watched'
  BY <1>4, IterateWatched, RunOnWatched DEF Machine
<1>5. ASSUME OsRead \/ OsAck PROVE Watched'
  BY <1>5, OsReadWatched, OsAckWatched
<1>6. ASSUME UNCHANGED keyVars PROVE Watched'
  <2>1. /\ UNCHANGED <<held, enabled, on, mode, ie, scanPeriod, scanNext, wasHeld, irq, irqAt, isr>>
        /\ UNCHANGED <<osSaw, downAt, pendingUp, pendingDown, tapActive, tapQueue, hostDown>>
        /\ UNCHANGED <<seenScans, osGot, cycles>>
    BY <1>6 DEF keyVars, keyscVars, unitVars, queueVars, tapVars, keyHistory
  <2>2. Settled' /\ OnTime' /\ Turns'
    BY <2>1 DEF Watched, Settled, OnTime, Turns, Down, Unreleased
  <2>3. ScansFit' /\ ReadsFit' /\ DriverFollows'
    BY <2>1 DEF Watched, ScansFit, ScansLeft, ReadsFit, ReadDue, DriverFollows, Ends, MinHold, NextSaw, NextOsSaw
  <2> QED BY <2>2, <2>3 DEF Watched
\* The other calls are not this host's.
<1>7. ASSUME NEW p \in Periods, SetKeyScanPeriod(p) PROVE FALSE
  <2>1. p # scanPeriod /\ scanPeriod \in Periods
    BY <1>7 DEF SetKeyScanPeriod, TypeOK, KeyscTypeOK
  <2> QED BY <2>1 DEF Attended
<1>8. TapKeys = {} /\ Configs = {} /\ Resets = {}
  BY DEF Attended
<1>9. ASSUME Host PROVE Watched'
  BY <1>3, <1>7, <1>8, <1>9 DEF Host
<1>10. ASSUME KeyNext PROVE Watched'
  BY <1>4, <1>5, <1>8, <1>9, <1>10 DEF KeyNext
<1> QED BY <1>2, <1>6, <1>10

\* For a host with one input source that neither taps nor resets, instructions of one cycle and an
\* OS that serves a key interrupt before the next scan: however short the user's press, a key that
\* leaves the matrix was seen by tapHoldScans scans and read by the OS.
THEOREM PressesAreRead == ASSUME Attended PROVE KeySpec => EveryPressRead
<1> DEFINE Read == LetGo => \A k \in held \ held' : seenScans'[k] = tapHoldScans /\ k \in osGot'
<1>1. TypeOK /\ Schedule /\ Watched /\ [KeyNext]_keyVars => Watched' /\ [Read]_keyVars
  BY StepWatched
<1>2. KeyInit => Watched
  BY InitWatched
<1>3. Steady
  BY AttendedSteady
<1>4. KeySpec => []Schedule
  BY <1>3, ScheduleHolds
<1>5. KeySpec => [][Read]_keyVars
  <2> HIDE DEF Read
  <2> QED BY <1>1, <1>2, <1>4, TypeCorrect, PTL DEF KeySpec
<1> QED BY <1>5 DEF EveryPressRead
=============================================================================
