------------------------------- MODULE MCPage -------------------------------
(* What the page's user does: the panel of the debugger, and the keyboard with resets and    *)
(* pasted text.  The two share no state here: a behaviour is of one of them.                 *)
EXTENDS MCDebugSession, MCKeyInput

VARIABLE part

partVars == <<vars, keyVars, part>>

SessionStands == open = None
KeysStand == \A period \in Periods : scanPeriod <= period

PartsInit ==
  /\ Init /\ KeyInit
  /\ part \in {"session", "keys"}
  /\ part = "session" \/ SessionStands
  /\ part = "keys" \/ KeysStand

PartsNext ==
  \/ part = "session" /\ Next /\ UNCHANGED <<keyVars, part>>
  \/ part = "keys" /\ KeyNext /\ UNCHANGED <<vars, part>>

SessionFair ==
  /\ WF_vars(part = "session" /\ Driver) /\ WF_vars(part = "session" /\ Status)
  /\ WF_vars(part = "session" /\ onStopEvent) /\ WF_vars(part = "session" /\ Fetch)
  /\ WF_vars(part = "session" /\ Call) /\ WF_vars(part = "session" /\ List)
  /\ SF_vars(part = "session" /\ Exit)

KeysFair ==
  /\ WF_keyVars(part = "keys" /\ Machine)
  /\ WF_keyVars(part = "keys" /\ OsRead) /\ WF_keyVars(part = "keys" /\ OsAck)

\* The fairness of each part is its own.
PartsFairSpec == PartsInit /\ [][PartsNext]_partVars /\ SessionFair /\ KeysFair
=============================================================================
