----------------------------- MODULE Connection -----------------------------
(***************************************************************************)
(* The websocket under whatsmeow's Client: cli.socket, who may replace it, *)
(* and who brings it back.  Connect, Disconnect, ResetConnection, the      *)
(* server's drops and stream errors, the keepalive loop of each socket and *)
(* any number of autoReconnect goroutines act at once.  cli.socketLock is  *)
(* held through a whole dial and handshake; expectedDisconnect and         *)
(* forceAutoReconnect are changed outside it as well.                      *)
(*                                                                         *)
(* The device is paired and not removed from the account,                  *)
(* EnableAutoReconnect is set and the retries are not vetoed by a hook, as *)
(* in the gateway; InitialAutoReconnect is off.                            *)
(* A socket that nothing refers to any more may be used again.             *)
(***************************************************************************)
EXTENDS Integers, FiniteSets

CONSTANTS
  Socket,     \* identities of NoiseSockets
  NoSocket,   \* nil
  MaxAuto     \* bound: autoReconnect goroutines at a time

ASSUME ConnectionAssumption ==
  /\ NoSocket \notin Socket
  /\ MaxAuto \in Nat \ {0}

VARIABLES
  sock,       \* cli.socket
  open,       \* sockets whose websocket is open
  closing,    \* OnDisconnect goroutines that have still to run
  keep,       \* per socket: where its keepAliveLoop is
  dialer,     \* who holds socketLock in unlockedConnect
  expected,   \* expectedDisconnect
  force,      \* forceAutoReconnect
  sleeping,   \* autoReconnect goroutines in WaitTimeoutCtx
  ready,      \* autoReconnect goroutines past it
  relogin     \* the goroutine of stream error 515

flags == <<expected, force>>
autos == <<sleeping, ready>>
connVars == <<sock, open, closing, keep, dialer, flags, autos, relogin>>

Unlocked == dialer = "none"
Closure(s, remote) == [sock |-> s, remote |-> remote]

expectDisconnect == expected' = TRUE /\ force' = FALSE
resetExpectedDisconnect == expected' = FALSE /\ force' = FALSE

(* unlockedDisconnect: Stop(true, false) takes the callback away and closes.*)
unlockedDisconnect == open' = open \ {sock} /\ sock' = NoSocket

-----------------------------------------------------------------------------
(* unlockedConnect up to the dial.  ErrAlreadyConnected is the callers'     *)
(* case; a socket that is not connected any more is cleared away.           *)
Dial(who) ==
  /\ sock \notin open
  /\ unlockedDisconnect
  /\ resetExpectedDisconnect
  /\ dialer' = who

(* Nothing that is still running knows the socket.                          *)
Unused(s) == s # sock /\ s \notin open /\ keep[s] = "none" /\ \A c \in closing : c.sock # s

(* Handshake done: the socket is installed and its loops are started.       *)
DialSucceeds(s) ==
  /\ dialer # "none" /\ Unused(s)
  /\ sock' = s
  /\ open' = open \cup {s}
  /\ keep' = [keep EXCEPT ![s] = "idle"]
  /\ dialer' = "none"
  /\ UNCHANGED <<closing, flags, autos, relogin>>

(* The websocket dies after the last frame of the handshake and before      *)
(* newNoiseSocket sets OnDisconnect: the dead socket is installed, connect  *)
(* reports success and no callback will ever come.                          *)
DiesUnnoticed(s) ==
  /\ dialer # "none" /\ Unused(s)
  /\ sock' = s
  /\ dialer' = "none"
  /\ UNCHANGED <<open, closing, keep, flags, autos, relogin>>

(* Only autoReconnect tries again, unless a disconnect has become expected; *)
(* Connect returns the error, the goroutine of a 515 logs it.               *)
DialFails ==
  /\ dialer # "none"
  /\ dialer' = "none"
  /\ sleeping' = IF dialer = "auto" /\ ~expected THEN sleeping + 1 ELSE sleeping
  /\ UNCHANGED <<sock, open, closing, keep, flags, ready, relogin>>

Connect ==
  /\ Unlocked
  /\ Dial("user")
  /\ UNCHANGED <<closing, keep, autos, relogin>>

-----------------------------------------------------------------------------
(* autoReconnect.  When the timer and the event are both ready the select   *)
(* takes either; the first delay is zero.                                   *)
AutoCancelled ==
  /\ sleeping > 0 /\ expected
  /\ sleeping' = sleeping - 1
  /\ UNCHANGED <<sock, open, closing, keep, dialer, flags, ready, relogin>>

AutoWakes ==
  /\ sleeping > 0
  /\ sleeping' = sleeping - 1
  /\ ready' = ready + 1
  /\ UNCHANGED <<sock, open, closing, keep, dialer, flags, relogin>>

AutoAlreadyConnected ==
  /\ ready > 0 /\ Unlocked /\ sock \in open
  /\ ready' = ready - 1
  /\ UNCHANGED <<sock, open, closing, keep, dialer, flags, sleeping, relogin>>

AutoConnects ==
  /\ ready > 0 /\ Unlocked
  /\ Dial("auto")
  /\ ready' = ready - 1
  /\ UNCHANGED <<closing, keep, sleeping, relogin>>

AutoCount == sleeping + ready + (IF dialer = "auto" THEN 1 ELSE 0)

(* go cli.autoReconnect(ctx)                                                *)
Spawn == AutoCount < MaxAuto /\ sleeping' = sleeping + 1 /\ UNCHANGED ready

-----------------------------------------------------------------------------
(* A network error or the server ends the websocket: readPump closes the    *)
(* frame socket and OnDisconnect runs on a goroutine of its own.            *)
Drop(s) ==
  /\ s \in open
  /\ open' = open \ {s}
  /\ closing' = closing \cup {Closure(s, TRUE)}
  /\ UNCHANGED <<sock, keep, dialer, flags, autos, relogin>>

(* Variant: the handler does not ask whether the disconnect was expected.   *)
WillReconnectAlways(c) == force \/ c.remote

(* Variant: a reset of the connection counts as a disconnect by hand.       *)
WillReconnectRemote(c) == ~expected /\ c.remote

WillReconnect(c) == ~expected /\ (force \/ c.remote)

(* onDisconnect, under socketLock.  forceAutoReconnect is swapped only if   *)
(* the disconnect was not expected.                                         *)
onDisconnect(c) ==
  /\ c \in closing /\ Unlocked
  /\ closing' = closing \ {c}
  /\ IF sock = c.sock
       THEN /\ sock' = NoSocket
            /\ force' = (force /\ expected)
            /\ IF WillReconnect(c) THEN Spawn ELSE UNCHANGED autos
       ELSE UNCHANGED <<sock, force, autos>>
  /\ UNCHANGED <<open, keep, dialer, expected, relogin>>

Disconnect ==
  /\ Unlocked
  /\ expectDisconnect
  /\ unlockedDisconnect
  /\ UNCHANGED <<closing, keep, dialer, autos, relogin>>

(* Stop(true, true): the callback stays and is called with remote = false.  *)
ResetConnection ==
  /\ Unlocked
  /\ force' = TRUE
  /\ open' = open \ {sock}
  /\ closing' = IF sock \in open THEN closing \cup {Closure(sock, FALSE)} ELSE closing
  /\ UNCHANGED <<sock, keep, dialer, expected, autos, relogin>>

(* The handlers of stream errors and failures run on a goroutine of the     *)
(* handler queue, also when the connection that brought the node has just   *)
(* ended.                                                                   *)
Streaming == open # {} \/ closing # {}

StreamReplaced ==
  /\ Streaming
  /\ expectDisconnect
  /\ UNCHANGED <<sock, open, closing, keep, dialer, autos, relogin>>

(* The server refuses the login: an auto-reconnect is prevented, except     *)
(* after 500 and 503, which change nothing.                                 *)
handleConnectFailure ==
  /\ Streaming
  /\ expectDisconnect
  /\ UNCHANGED <<sock, open, closing, keep, dialer, autos, relogin>>

Stream515 ==
  /\ Streaming /\ relogin = "none"
  /\ relogin' = "disconnect"
  /\ UNCHANGED <<sock, open, closing, keep, dialer, flags, autos>>

ReloginDisconnects ==
  /\ relogin = "disconnect" /\ Unlocked
  /\ expectDisconnect
  /\ unlockedDisconnect
  /\ relogin' = "connect"
  /\ UNCHANGED <<closing, keep, dialer, autos>>

ReloginConnects ==
  /\ relogin = "connect" /\ Unlocked
  /\ IF sock \in open THEN UNCHANGED <<sock, open, flags, dialer>> ELSE Dial("relogin")
  /\ relogin' = "none"
  /\ UNCHANGED <<closing, keep, autos>>

-----------------------------------------------------------------------------
(* keepAliveLoop of socket s, until its connection's context ends.          *)
KeepAt(s, from, to) == keep[s] = from /\ keep' = [keep EXCEPT ![s] = to]

KeepPings(s) ==
  /\ s \in open /\ KeepAt(s, "idle", "ping")
  /\ UNCHANGED <<sock, open, closing, dialer, flags, autos, relogin>>

(* An answer, or a failure that is not yet old enough.                      *)
KeepGoesOn(s) ==
  /\ KeepAt(s, "ping", "idle")
  /\ UNCHANGED <<sock, open, closing, dialer, flags, autos, relogin>>

KeepEnds(s) ==
  /\ s \notin open
  /\ KeepAt(s, "idle", "none") \/ KeepAt(s, "ping", "none")
  /\ UNCHANGED <<sock, open, closing, dialer, flags, autos, relogin>>

(* No answer for KeepAliveMaxFailTime.  The loop may find that out in the   *)
(* select that would also have told it that the context has ended.          *)
KeepFails(s) ==
  /\ KeepAt(s, "ping", "force")
  /\ UNCHANGED <<sock, open, closing, dialer, flags, autos, relogin>>

(* Disconnect, then resetExpectedDisconnect, then autoReconnect.            *)
KeepDisconnects(s) ==
  /\ Unlocked /\ KeepAt(s, "force", "forced")
  /\ expectDisconnect
  /\ unlockedDisconnect
  /\ UNCHANGED <<closing, dialer, autos, relogin>>

KeepReconnects(s) ==
  /\ KeepAt(s, "forced", "idle")
  /\ resetExpectedDisconnect
  /\ Spawn
  /\ UNCHANGED <<sock, open, closing, dialer, relogin>>

-----------------------------------------------------------------------------
(* KeepFails is left to the modules that compose this one.                  *)
keepAliveLoop(s) ==
  KeepPings(s) \/ KeepGoesOn(s) \/ KeepEnds(s) \/ KeepDisconnects(s) \/ KeepReconnects(s)

autoReconnect == AutoCancelled \/ AutoWakes \/ AutoAlreadyConnected \/ AutoConnects

ConnInit ==
  /\ sock = NoSocket /\ open = {} /\ closing = {}
  /\ keep = [s \in Socket |-> "none"]
  /\ dialer = "none"
  /\ expected = FALSE /\ force = FALSE
  /\ sleeping = 0 /\ ready = 0
  /\ relogin = "none"

(* Steps that nobody outside takes part in.                                 *)
ClientStep ==
  \/ autoReconnect \/ ReloginDisconnects \/ ReloginConnects
  \/ \E c \in closing : onDisconnect(c)
  \/ \E s \in Socket : Drop(s) \/ keepAliveLoop(s)
=============================================================================
