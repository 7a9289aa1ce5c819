------------------------------ MODULE Admission -----------------------------
(***************************************************************************)
(* The checks of AntiBan.BeforeSend that look at the chat, in their order: *)
(* destroyed, before ab.mu; then, under it, TimelockGuard and              *)
(* ContactGraph; with what AfterSend, the events and Destroy do to them.   *)
(* The other checks may refuse at any time.  Between the checks and the    *)
(* send lies a delay.                                                      *)
(***************************************************************************)
EXTENDS TimelockGuard, ContactGraph, FiniteSets

CONSTANT Sender, \* send loops
         NoChat

ASSUME SenderAssumption == Chat = Person \cup Group /\ NoChat \notin Chat /\ IsFiniteSet(Sender)

VARIABLES
  destroyed, \* ab.destroyed
  sender,    \* per loop: where its message is, and to which chat it goes
  lockSlips, \* history: messages to unknown chats sent during this lock
  lurkSlips, \* history: messages to a group sent during this lurk period
  lateSends  \* history: messages sent after Destroy

admissionVars == <<timelockVars, contactVars, destroyed, sender, lockSlips, lurkSlips, lateSends>>

slipVars == <<lockSlips, lurkSlips, lateSends>>

Carries(s, where, c) == sender' = [sender EXCEPT ![s] = [at |-> where, chat |-> c]]
Drops(s) == Carries(s, "idle", NoChat)

(* BeforeSend past the test of destroyed.                                   *)
Enters(s, c) ==
  /\ sender[s].at = "idle" /\ ~destroyed
  /\ Carries(s, "checking", c)
  /\ UNCHANGED <<timelockVars, contactVars, destroyed, slipVars>>

(* BeforeSend under ab.mu.                                                  *)
Checks(s) ==
  LET c == sender[s].chat
  IN  /\ sender[s].at = "checking"
      /\ \/ /\ Drops(s) \* refused by TimelockGuard or by a check before it
            /\ UNCHANGED contactVars
         \/ /\ TimelockCanSend(c) /\ CanMessage(c)
            /\ IF MayMessage(c) THEN Carries(s, "sending", c) ELSE Drops(s)
      /\ UNCHANGED <<timelockVars, destroyed, slipVars>>

(* The message goes out and AfterSend records it.                           *)
Sends(s) ==
  LET c == sender[s].chat
      count(n) == IF n <= Cardinality(Sender) THEN n + 1 ELSE n
  IN  /\ sender[s].at = "sending"
      /\ Drops(s)
      /\ IF destroyed THEN UNCHANGED contactVars ELSE RecordMessage(c)
      /\ lockSlips' = IF locked > 0 /\ c \notin knownChats THEN count(lockSlips) ELSE lockSlips
      /\ lurkSlips' = [g \in Group |-> IF c = g /\ lurking[g] > 0 THEN count(lurkSlips[g])
                                       ELSE lurkSlips[g]]
      /\ lateSends' = IF destroyed THEN count(lateSends) ELSE lateSends
      /\ UNCHANGED <<timelockVars, destroyed>>

(* The send fails, or the caller gives up during the delay.                 *)
Fails(s) ==
  /\ sender[s].at = "sending"
  /\ Drops(s)
  /\ UNCHANGED <<timelockVars, contactVars, destroyed, slipVars>>

(* OnStreamError with code 463.                                             *)
StreamError463 ==
  /\ ~destroyed
  /\ Record463Error
  /\ lockSlips' = 0
  /\ UNCHANGED <<contactVars, destroyed, sender, lurkSlips, lateSends>>

(* The operations of the guard that the program leaves to its user.         *)
TimelockCalls ==
  /\ (\E c \in Chat : RegisterKnownChat(c)) \/ Lift \/ TimelockReset
  /\ UNCHANGED <<contactVars, destroyed, sender, slipVars>>

(* A message from p: OnIncomingMessage, which a destroyed AntiBan ignores,  *)
(* and RegisterKnownContact, which is called anyway.                        *)
Incoming(p) ==
  /\ RegisterKnownContact(p)
  /\ UNCHANGED <<timelockVars, destroyed, sender, slipVars>>

(* The operations of the contact graph that the program leaves to its user. *)
ContactCalls ==
  /\ \/ /\ \E p \in Person : MarkHandshakeSent(p) \/ MarkHandshakeComplete(p)
        /\ UNCHANGED lurkSlips
     \/ \E g \in Group : RegisterGroupJoin(g) /\ lurkSlips' = [lurkSlips EXCEPT ![g] = 0]
  /\ UNCHANGED <<timelockVars, destroyed, sender, lockSlips, lateSends>>

Destroy ==
  /\ ~destroyed
  /\ destroyed' = TRUE
  /\ UNCHANGED <<timelockVars, contactVars, sender, slipVars>>

AdmissionTick ==
  /\ TimelockTick /\ ContactTick
  /\ UNCHANGED <<destroyed, sender, slipVars>>

Midnight ==
  /\ ContactMidnight
  /\ UNCHANGED <<timelockVars, destroyed, sender, slipVars>>

AdmissionInit ==
  /\ TimelockInit /\ ContactInit
  /\ destroyed = FALSE
  /\ sender = [s \in Sender |-> [at |-> "idle", chat |-> NoChat]]
  /\ lockSlips = 0 /\ lurkSlips = [g \in Group |-> 0] /\ lateSends = 0

AdmissionNext ==
  \/ \E s \in Sender : (\E c \in Chat : Enters(s, c)) \/ Checks(s) \/ Sends(s) \/ Fails(s)
  \/ \E p \in Person : Incoming(p)
  \/ StreamError463 \/ TimelockCalls \/ ContactCalls \/ Destroy \/ AdmissionTick \/ Midnight

AdmissionSpec == AdmissionInit /\ [][AdmissionNext]_admissionVars

-----------------------------------------------------------------------------
(* The answers of BeforeSend are stale when the message goes out, but only  *)
(* a little: during one time lock, during one lurk period and after Destroy *)
(* each send loop lets at most one message through that a fresh check would *)
(* refuse.                                                                  *)
AdmissionSlips ==
  /\ lockSlips <= Cardinality(Sender)
  /\ \A g \in Group : lurkSlips[g] <= Cardinality(Sender)
  /\ lateSends <= Cardinality(Sender)
=============================================================================
