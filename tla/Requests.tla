------------------------------ MODULE Requests ------------------------------
(***************************************************************************)
(* What becomes of a message under way in whatsmeow: Client.SendMessage    *)
(* registers a waiter in responseWaiters, writes its frame to the socket   *)
(* it reads, and waits.  The answer comes from the server                  *)
(* (receiveResponse), or the end of the connection is told to every waiter *)
(* (clearResponseWaiters); then retryFrame waits for the next connection   *)
(* and writes the frame once more, this time without a timeout.            *)
(*                                                                         *)
(* This is the call that the send loop of SendQueue takes to return.       *)
(***************************************************************************)
EXTENDS Connection

CONSTANTS Request    \* calls of Client.SendMessage

VARIABLES
  at,        \* per request: where SendMessage is
  via,       \* per request: the socket it has read
  waiters,   \* requests in responseWaiters
  inbox,     \* per request: the channel (capacity 1), "none" when empty
  acking,    \* requests whose waiter receiveResponse has in its hands
  shut,      \* requests whose channel cancelResponse has closed
  reqCtx,    \* per request: its context has been cancelled
  panicked   \* a send on a closed channel has ended the program

reqVars == <<at, via, waiters, inbox, acking, shut, reqCtx, panicked>>
netVars == <<connVars, reqVars>>

Goes(r, place) == at' = [at EXCEPT ![r] = place]
HangsUp(r) == at' = [at EXCEPT ![r] = "done"] /\ via' = [via EXCEPT ![r] = NoSocket]

(* waitResponse makes a new channel.                                        *)
waitResponse(r) == waiters' = waiters \cup {r} /\ inbox' = [inbox EXCEPT ![r] = "none"]

(* cancelResponse, and SendMessage returns an error.                        *)
cancelResponse(r) ==
  /\ HangsUp(r)
  /\ waiters' = waiters \ {r}
  /\ shut' = shut \cup {r}
  /\ UNCHANGED <<connVars, inbox, acking, reqCtx, panicked>>

clearResponseWaiters(node) ==
  /\ inbox' = [r \in Request |-> IF r \in waiters THEN node ELSE inbox[r]]
  /\ waiters' = {}
  /\ UNCHANGED <<at, via, acking, shut, reqCtx, panicked>>

-----------------------------------------------------------------------------
(* SendMessage up to the first wait.                                        *)
Registers(r) ==
  /\ at[r] = "idle"
  /\ Goes(r, "registered")
  /\ waitResponse(r)
  /\ UNCHANGED <<connVars, via, acking, shut, reqCtx, panicked>>

(* sendNodeAndGetData reads cli.socket under socketLock.                    *)
ReadsSocket(r, from, to) ==
  /\ at[r] = from /\ Unlocked /\ sock # NoSocket
  /\ Goes(r, to)
  /\ via' = [via EXCEPT ![r] = sock]
  /\ UNCHANGED <<connVars, waiters, inbox, acking, shut, reqCtx, panicked>>

NotConnected(r) ==
  /\ at[r] = "registered" /\ Unlocked /\ sock = NoSocket
  /\ cancelResponse(r)

(* SendFrame.                                                               *)
Writes(r, from, to) ==
  /\ at[r] = from /\ via[r] \in open /\ ~reqCtx[r]
  /\ Goes(r, to)
  /\ UNCHANGED <<connVars, via, waiters, inbox, acking, shut, reqCtx, panicked>>

WriteFails(r) ==
  /\ at[r] \in {"write", "rewrite"}
  /\ cancelResponse(r)

(* The first wait ends with the timeout of the request (75 seconds unless   *)
(* given) or with its context.                                              *)
TimesOut(r) ==
  /\ at[r] = "wait"
  /\ cancelResponse(r)

(* Leaving the second wait only returns: the waiter stays registered.       *)
CtxEnds(r) ==
  /\ at[r] = "rewait" /\ reqCtx[r]
  /\ HangsUp(r)
  /\ UNCHANGED <<connVars, waiters, inbox, acking, shut, reqCtx, panicked>>

(* A node arrives on the channel.  retryFrame is for a lost connection, and *)
(* for the first time; an authentication error is not retried.              *)
Takes(r) ==
  /\ at[r] \in {"wait", "rewait"} /\ inbox[r] # "none"
  /\ IF at[r] = "wait" /\ inbox[r] = "end"
       THEN Goes(r, "backoff") /\ via' = [via EXCEPT ![r] = NoSocket]
       ELSE HangsUp(r)
  /\ inbox' = [inbox EXCEPT ![r] = "none"]
  /\ UNCHANGED <<connVars, waiters, acking, shut, reqCtx, panicked>>

(* WaitForConnection(5 s): connected and logged in, or time is up, or the   *)
(* disconnect is expected.                                                  *)
Reconnected(r) ==
  /\ at[r] = "backoff" /\ Unlocked /\ sock \in open
  /\ Goes(r, "again")
  /\ UNCHANGED <<connVars, via, waiters, inbox, acking, shut, reqCtx, panicked>>

GivesUp(r) ==
  /\ \/ at[r] = "backoff"
     \/ at[r] = "again" /\ Unlocked /\ sock = NoSocket
  /\ HangsUp(r)
  /\ UNCHANGED <<connVars, waiters, inbox, acking, shut, reqCtx, panicked>>

(* retryFrame registers its waiter after it has read the socket, and before *)
(* it writes.                                                               *)
Reregisters(r) ==
  /\ at[r] = "reread"
  /\ Goes(r, "rewrite")
  /\ waitResponse(r)
  /\ UNCHANGED <<connVars, via, acking, shut, reqCtx, panicked>>

-----------------------------------------------------------------------------
(* The server answers on the connection that carried the frame.             *)
receiveResponse(r) ==
  /\ r \in waiters /\ at[r] \in {"wait", "rewait"} /\ via[r] \in open
  /\ waiters' = waiters \ {r}
  /\ acking' = acking \cup {r}
  /\ UNCHANGED <<connVars, at, via, inbox, shut, reqCtx, panicked>>

(* ... and writes to the waiter's channel without the lock: if the request  *)
(* timed out in between, the channel is closed.                             *)
Delivers(r) ==
  /\ r \in acking
  /\ acking' = acking \ {r}
  /\ panicked' = (r \in shut)
  /\ inbox' = IF r \in shut THEN inbox ELSE [inbox EXCEPT ![r] = "ack"]
  /\ UNCHANGED <<connVars, at, via, waiters, shut, reqCtx>>

CancelRequest(r) ==
  /\ at[r] \notin {"idle", "done"} /\ ~reqCtx[r]
  /\ reqCtx' = [reqCtx EXCEPT ![r] = TRUE]
  /\ UNCHANGED <<connVars, at, via, waiters, inbox, acking, shut, panicked>>

-----------------------------------------------------------------------------
(* Variant: unlockedDisconnect leaves the waiters to the callback.          *)
ClearedByCallback ==
  sock # NoSocket /\ sock' = NoSocket /\ \E c \in closing : c.sock = sock /\ c \notin closing'

(* Whoever takes cli.socket away tells the waiters.                         *)
Cleared == sock # NoSocket /\ sock' = NoSocket

ConnectionStep ==
  /\ \/ ClientStep \/ Connect \/ Disconnect \/ DialFails
     \/ \E s \in Socket :
          \/ KeepFails(s)
          \/ (\A r \in Request : via[r] # s) /\ (DialSucceeds(s) \/ DiesUnnoticed(s))
  /\ IF Cleared THEN clearResponseWaiters("end") ELSE UNCHANGED reqVars

Resets ==
  /\ ResetConnection
  /\ IF sock # NoSocket THEN clearResponseWaiters("end") ELSE UNCHANGED reqVars

(* Stream errors: after "replaced" nothing is retried, after 515 and the    *)
(* rest it is.  A refused login tells the waiters nothing.                  *)
StreamErrors ==
  \/ StreamReplaced /\ clearResponseWaiters("auth")
  \/ handleConnectFailure /\ UNCHANGED reqVars
  \/ Stream515 /\ clearResponseWaiters("end")
  \/ Streaming /\ clearResponseWaiters("end") /\ UNCHANGED connVars

SendMessageStep(r) ==
  \/ Registers(r)
  \/ ReadsSocket(r, "registered", "write") \/ NotConnected(r)
  \/ Writes(r, "write", "wait") \/ WriteFails(r)
  \/ TimesOut(r) \/ CtxEnds(r) \/ Takes(r) \/ Reconnected(r) \/ GivesUp(r)
  \/ ReadsSocket(r, "again", "reread") \/ Reregisters(r) \/ Writes(r, "rewrite", "rewait")

NetInit ==
  /\ ConnInit
  /\ at = [r \in Request |-> "idle"]
  /\ via = [r \in Request |-> NoSocket]
  /\ waiters = {} /\ acking = {} /\ shut = {}
  /\ inbox = [r \in Request |-> "none"]
  /\ reqCtx = [r \in Request |-> FALSE]
  /\ panicked = FALSE

NetNext ==
  \/ /\ ~panicked
     /\ \/ ConnectionStep \/ Resets \/ StreamErrors
        \/ \E r \in Request :
             SendMessageStep(r) \/ receiveResponse(r) \/ Delivers(r) \/ CancelRequest(r)
  \/ panicked /\ UNCHANGED netVars

NetSpec == NetInit /\ [][NetNext]_netVars

-----------------------------------------------------------------------------
(* SendMessage is not forgotten, whatever becomes of the connection between *)
(* any two of its steps.  All its waits are timed except that for the       *)
(* answer to a retry; and there an answer is in hand or on its way, or the  *)
(* waiter is registered and its socket is still cli.socket: open, or with a *)
(* callback to come that will tell the waiter.  Whoever replaces the socket *)
(* earlier tells it too.                                                    *)
RetryNotForgotten ==
  \A r \in Request :
    at[r] = "rewait" =>
      \/ inbox[r] # "none" \/ r \in acking
      \/ /\ r \in waiters /\ sock = via[r]
         /\ sock \in open \/ \E c \in closing : c.sock = sock
=============================================================================
