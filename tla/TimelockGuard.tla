---------------------------- MODULE TimelockGuard ---------------------------
(***************************************************************************)
(* What TimelockGuard of timelock_guard.go refuses: while blockedUntil     *)
(* lies ahead, every chat that is not registered as known.  The goroutines *)
(* that announce the end of the lock are in TimelockLift; they change      *)
(* nothing here.                                                           *)
(***************************************************************************)
EXTENDS Integers

CONSTANTS
  Chat,         \* chat ids
  BlockDuration \* cfg.TimelockBlockDuration, in ticks

ASSUME TimelockAssumption == BlockDuration \in Nat \ {0}

VARIABLES
  locked,    \* ticks until tg.blockedUntil, 0 when it is past or zero
  knownChats \* tg.knownChats

timelockVars == <<locked, knownChats>>

(* Variant: known chats are the ones kept out.                              *)
TimelockCanSendKnown(c) == locked > 0 => c \notin knownChats

TimelockCanSend(c) == locked > 0 => c \in knownChats

Record463Error == locked' = BlockDuration /\ UNCHANGED knownChats

RegisterKnownChat(c) == knownChats' = knownChats \cup {c} /\ UNCHANGED locked

Lift == locked' = 0 /\ UNCHANGED knownChats

TimelockReset == locked' = 0 /\ knownChats' = {}

TimelockTick == locked' = (IF locked > 0 THEN locked - 1 ELSE 0) /\ UNCHANGED knownChats

TimelockInit == locked = 0 /\ knownChats = {}
=============================================================================
