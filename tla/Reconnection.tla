---------------------------- MODULE Reconnection ----------------------------
(***************************************************************************)
(* Connection with a record of what the program asked for: is it meant to  *)
(* be online, and was it asked to stay off.                                *)
(***************************************************************************)
EXTENDS Connection

VARIABLES
  online,     \* history: Connect succeeded and no disconnect was asked for since
  off,        \* history: a disconnect was asked for ("calm": nobody was reconnecting)
  abandoned   \* history: a reconnection ended in a way that nobody follows up

wishes == <<online, off, abandoned>>

(* Goroutines that were reconnecting when a disconnect was asked for.       *)
Reconnecting ==
  \/ AutoCount > 0 \/ dialer # "none" \/ relogin # "none"
  \/ \E s \in Socket : keep[s] \in {"force", "forced"}

AskedOff ==
  /\ online' = FALSE
  /\ off' = IF Reconnecting THEN "racing" ELSE "calm"
  /\ UNCHANGED abandoned

(* The server asks for a new login, or a keepalive loop finds its           *)
(* connection dead: the code reconnects whatever was asked before.          *)
Overruled ==
  /\ off' = IF off = "calm" THEN "racing" ELSE off
  /\ UNCHANGED <<online, abandoned>>

(* The caller of Connect is told how it ended; nobody is told about the     *)
(* connect that follows a 515, or about a socket that was dead on arrival.  *)
DialEnds ==
  /\ \/ /\ \E s \in Socket : DialSucceeds(s)
        /\ abandoned' = FALSE
        /\ online' = (online \/ (dialer = "user" /\ ~expected))
     \/ /\ \E s \in Socket : DiesUnnoticed(s)
        /\ abandoned' = TRUE
        /\ online' = (online \/ (dialer = "user" /\ ~expected))
     \/ /\ DialFails
        /\ abandoned' = (abandoned \/ dialer = "relogin")
        /\ online' = (online /\ dialer # "user")
  /\ UNCHANGED off

ReconInit == ConnInit /\ online = FALSE /\ off = "no" /\ abandoned = FALSE

ReconNext ==
  \/ Connect /\ off' = "no" /\ UNCHANGED <<online, abandoned>>
  \/ DialEnds
  \/ (Disconnect \/ StreamReplaced \/ handleConnectFailure) /\ AskedOff
  \/ (Stream515 \/ \E s \in Socket : KeepFails(s)) /\ Overruled
  \/ (ClientStep \/ ResetConnection) /\ UNCHANGED wishes

ReconSpec == ReconInit /\ [][ReconNext]_<<connVars, wishes>>

-----------------------------------------------------------------------------
(* While the program wants to be online and has no open socket, somebody is *)
(* on the way to bring it back: the callback of the lost socket, an         *)
(* autoReconnect, a keepalive loop that forces one, or a dial under way.    *)
(* Two cases are excepted, in which the code gives up without telling       *)
(* anyone: the one connect after a 515 fails, or a socket dies in the gap   *)
(* before its callback is set.                                              *)
NeverStranded ==
  (online /\ ~abandoned /\ sock \notin open) =>
    Reconnecting \/ \E c \in closing : c.sock = sock

(* A Disconnect, or the server's word that another client has taken over or *)
(* that it refuses the login, holds: until the next Connect no new socket is installed, unless a       *)
(* reconnection was already under way and slipped past, or the server or a  *)
(* dead keepalive asked for one afterwards.                                 *)
DisconnectSticks ==
  [][(off = "calm" /\ off' = "calm") => sock' \in {sock, NoSocket}]_<<connVars, wishes>>
=============================================================================
