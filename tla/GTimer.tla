------------------------------- MODULE GTimer -------------------------------
(***************************************************************************)
(* The timer channels of ETMU and TMU (emu_go/gtimer.go).  No counter is   *)
(* ever clocked: a channel keeps the cycle its countdown started and from  *)
(* what value, the count is computed when it is read, and the next         *)
(* underflow is a time the step loop polls at.  Shown to implement one     *)
(* Counter per channel.                                                    *)
(***************************************************************************)
EXTENDS Clock

CONSTANTS
  Etmu, Tmu,      \* channels of the two units (those of TMU share one TSTR)
  ClockOf(_, _),  \* instructions per count, of instrPerSec and the prescaler (ETMU: 0)
  Prescalers,     \* TPSC values
  Counts          \* values programmed into TCNT and TCOR

Chans == Etmu \cup Tmu

ASSUME TimerAssumption ==
  /\ Etmu \cap Tmu = {} /\ Counts \subseteq Nat /\ 0 \in Counts /\ 0 \in Prescalers
  /\ \A r \in Rates, p \in Prescalers : ClockOf(r, p) \in Nat \ {0}

VARIABLES
  ch,       \* timerChan by channel
  skewed    \* history: channels whose rate changed while they ran, not started over since

timerVars == <<ch, skewed>>

Chan == [tcor : Nat, tcnt : Nat, unf : BOOLEAN, unie : BOOLEAN, tpsc : Prescalers,
         running : BOOLEAN, owned : BOOLEAN, startCyc : Nat, startCnt : Nat, nextUnf : Nat]

ResetChan == [tcor |-> 0, tcnt |-> 0, unf |-> FALSE, unie |-> FALSE, tpsc |-> 0,
              running |-> FALSE, owned |-> FALSE, startCyc |-> 0, startCnt |-> 0, nextUnf |-> 0]

TimerInit == ch = [i \in Chans |-> ResetChan] /\ skewed = {}

Div(c) == ClockOf(ips, c.tpsc)

\* The count at the present cycle.
Cur(c) ==
  IF ~c.running \/ cycles < c.startCyc THEN c.tcnt
  ELSE LET elapsed == (cycles - c.startCyc) \div Div(c) IN
       IF elapsed <= c.startCnt THEN c.startCnt - elapsed
       ELSE c.tcor - ((elapsed - c.startCnt - 1) % (c.tcor + 1))

\* The countdown begins at the present cycle, from v.
From(c, v) ==
  [c EXCEPT !.tcnt = v, !.startCyc = cycles, !.startCnt = v,
            !.nextUnf = cycles + (v + 1) * Div(c)]

RebasedKept(c) == c
Rebased(c) == IF c.running THEN From(c, Cur(c)) ELSE c

SetRunning(c, on) ==
  IF on /\ ~c.running THEN From([c EXCEPT !.running = TRUE], c.tcnt)
  ELSE IF ~on /\ c.running THEN [c EXCEPT !.running = FALSE, !.tcnt = Cur(c)]
  ELSE c

---------------------------------------------------------------------------
(* tick at the cycle `now` *)

IsDue(c, now) == c.running /\ c.nextUnf <= now

AfterUnderflows(c, now) ==
  LET period == (c.tcor + 1) * Div(c) IN
  c.nextUnf + ((now - c.nextUnf) \div period + 1) * period

Service(c, now) ==
  IF IsDue(c, now) THEN [c EXCEPT !.unf = TRUE, !.nextUnf = AfterUnderflows(c, now)] ELSE c

TimersTick(now) == ch' = [i \in Chans |-> Service(ch[i], now)] /\ UNCHANGED skewed
TimersAsk(now) == {i \in Chans : IsDue(ch[i], now) /\ ch[i].unie}

---------------------------------------------------------------------------
(* Register writes.  An instruction's write and the cycles it takes are separate steps. *)

WriteChan(i, c) == ch' = [ch EXCEPT ![i] = c] /\ UNCHANGED clockVars

\* One write starts and stops every channel of TMU.
WriteTSTR(on) ==
  /\ ch' = [i \in Chans |-> IF i \in Tmu THEN SetRunning(ch[i], i \in on) ELSE ch[i]]
  /\ skewed' = skewed \ (Tmu \ on) /\ UNCHANGED clockVars

WriteESTR(i, on) ==
  /\ WriteChan(i, SetRunning([ch[i] EXCEPT !.owned = TRUE], on))
  /\ skewed' = IF on THEN skewed ELSE skewed \ {i}

\* The restart reads the count off the new reload value.
WriteTCOR(i, v) ==
  /\ WriteChan(i, Rebased([ch[i] EXCEPT !.owned = TRUE, !.tcor = v]))
  /\ skewed' = skewed \ {i}

WriteTCNT(i, v) ==
  LET c == [ch[i] EXCEPT !.owned = TRUE, !.tcnt = v] IN
  /\ WriteChan(i, IF c.running THEN From(c, v) ELSE c)
  /\ skewed' = skewed \ {i}

\* Writing 1 to the flag leaves it as it is.  The restart reads the count by the new clock.
WriteTCR(i, one, on, tpsc) ==
  LET c == [ch[i] EXCEPT !.owned = TRUE, !.unf = @ /\ one, !.unie = on, !.tpsc = tpsc] IN
  /\ WriteChan(i, IF tpsc = ch[i].tpsc THEN c ELSE Rebased(c))
  /\ skewed' = IF tpsc = ch[i].tpsc THEN skewed ELSE skewed \ {i}

\* SetInstrPerSecond: the past of a running channel is counted by the new rate from now on,
\* and its next underflow stays where it was.
TimersRate(rate) ==
  /\ skewed' = skewed \cup {i \in Chans : ch[i].running /\ ClockOf(rate, ch[i].tpsc) # Div(ch[i])}
  /\ UNCHANGED ch

---------------------------------------------------------------------------
(* Save-states: a snapshot resumed in a machine whose clock starts at 0. *)

Saved(c) == c.owned \/ c.running

Restored(c, rate) ==
  IF ~Saved(c) THEN ResetChan
  ELSE [c EXCEPT !.tcnt = Cur(c), !.startCyc = 0,
                 !.startCnt = IF c.running THEN Cur(c) ELSE 0,
                 !.nextUnf = IF c.running THEN (Cur(c) + 1) * ClockOf(rate, c.tpsc) ELSE 0]

TimersRestored(rate) == ch' = [i \in Chans |-> Restored(ch[i], rate)] /\ skewed' = {}

CountWrite(i) == \E v \in Counts : WriteTCOR(i, v) \/ WriteTCNT(i, v)

EtmuWrite ==
  \E i \in Etmu, one, on \in BOOLEAN : WriteESTR(i, on) \/ CountWrite(i) \/ WriteTCR(i, one, on, 0)

TmuWrite ==
  \/ \E on \in SUBSET Tmu : WriteTSTR(on)
  \/ \E i \in Tmu, one, on \in BOOLEAN, p \in Prescalers : CountWrite(i) \/ WriteTCR(i, one, on, p)

TimerWrite == EtmuWrite \/ TmuWrite

---------------------------------------------------------------------------
(* The counter each channel implements. *)

Left(c) == IF c.running THEN Div(c) - ((cycles - c.startCyc) % Div(c)) ELSE 0

Divisors == {ClockOf(r, p) : r \in Rates, p \in Prescalers}

Ticking(i) == INSTANCE Counter WITH
  count <- Cur(ch[i]), reload <- ch[i].tcor, running <- ch[i].running,
  flag <- ch[i].unf, enable <- ch[i].unie, div <- Div(ch[i]), left <- Left(ch[i]),
  asked <- (i \in asked)

\* Writes that restart a running channel once the new value says another count than the old:
\* of the reload after the first wrap, of the prescaler after the first cycle.
FirstRound(c) == (cycles - c.startCyc) \div Div(c) <= c.startCnt
Reread(i) ==
  /\ ch[i].running
  /\ \/ ch'[i].tcor # ch[i].tcor /\ ~FirstRound(ch[i])
     \/ ch'[i].tpsc # ch[i].tpsc /\ cycles # ch[i].startCyc

\* Every channel is at every moment where a counter clocked cycle by cycle would be: its count,
\* its flag and its interrupt request, across writes, stops, jumps of the clock and save-states.
\* Two cases apart: a channel whose rate the host changed under way, until it is started over
\* (skewed); and the writes of Reread, at which the count jumps, and goes on from there.
ImplementsCounter ==
  /\ \A i \in Chans : Ticking(i)!Init
  /\ [][\A i \in Chans :
         \/ i \in skewed \cup skewed'
         \/ Ticking(i)!Next \/ Ticking(i)!vars' = Ticking(i)!vars
         \/ Reread(i) /\ Ticking(i)!Jump]_<<timerVars, clockVars>>

\* restart "(re)bases the countdown on the current value": a write of the reload value or of the
\* prescaler never moves the count of a running channel.
RestartKeepsCount ==
  [][\A i \in Chans :
       /\ ch[i].running /\ ch'[i].running
       /\ ch'[i].tcor # ch[i].tcor \/ ch'[i].tpsc # ch[i].tpsc
       => Cur(ch[i])' = Cur(ch[i])]_<<timerVars, clockVars>>

=============================================================================
