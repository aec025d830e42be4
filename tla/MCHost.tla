------------------------------- MODULE MCHost -------------------------------
(* What the application does with a machine: it replaces it, and passes on the user's keys.  *)
(* The two share no state here: a behaviour is of one of them.                               *)
EXTENDS MCStudio, MCKeyInput

VARIABLE part

partVars == <<studioVars, keyVars, part>>

PartsInit ==
  /\ StudioInit /\ KeyInit
  /\ part \in {"studio", "keys"}

PartsNext ==
  \/ part = "studio" /\ StudioNext /\ UNCHANGED <<keyVars, part>>
  \/ part = "keys" /\ KeyNext /\ UNCHANGED <<studioVars, part>>

StudioFair ==
  /\ \A g \in Goroutines : WF_studioVars(part = "studio" /\ Up /\ Go(g))
  /\ \A m \in 1..MaxMachines :
       /\ WF_studioVars(part = "studio" /\ Up /\ Turn(m))
       /\ SF_studioVars(part = "studio" /\ Up /\ Leave(m))

KeysFair ==
  /\ WF_keyVars(part = "keys" /\ Machine)
  /\ WF_keyVars(part = "keys" /\ OsRead) /\ WF_keyVars(part = "keys" /\ OsAck)

\* The fairness of each part is its own.
PartsFairSpec == PartsInit /\ [][PartsNext]_partVars /\ StudioFair /\ KeysFair
=============================================================================
