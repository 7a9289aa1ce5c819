------------------------------ MODULE MCEvents ------------------------------
(* The pause flag under whatsmeow's events, the connection they come from   *)
(* and the requests on it, side by side for TLC: one of the three is chosen *)
(* at the start and runs alone.                                             *)
EXTENDS PauseControl, Reconnection, Requests, TLC

MCMinScore == -5

Symmetry == Permutations(Handler) \cup Permutations(Socket)

VARIABLE part

parts == <<part, vars, connVars, wishes, reqVars>>

EventsInit ==
  /\ part \in {"pause", "reconnect", "request"}
  /\ Init /\ ReconInit /\ NetInit

EventsNext ==
  \/ part = "pause" /\ Next /\ UNCHANGED <<part, connVars, wishes, reqVars>>
  \/ part = "reconnect" /\ ReconNext /\ UNCHANGED <<part, vars, reqVars>>
  \/ part = "request" /\ NetNext /\ UNCHANGED <<part, vars, wishes>>

EventsSpec == EventsInit /\ [][EventsNext]_parts
=============================================================================
