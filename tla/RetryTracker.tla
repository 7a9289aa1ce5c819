---------------------------- MODULE RetryTracker ----------------------------
(***************************************************************************)
(* RetryReasonTracker of retry_tracker.go.  Every RecordRetry starts a     *)
(* goroutine that sleeps fifteen minutes and then deletes the whole list   *)
(* of its message, whatever was appended or cleared since.                 *)
(*                                                                         *)
(* Why a message was retried is not told apart: a list is its length.      *)
(* Ages are in ticks.  A goroutine may wake up to RetryLag ticks late.     *)
(***************************************************************************)
EXTENDS TimeWindow

CONSTANTS
  RetryMsg,        \* message ids
  SpiralThreshold, \* rrt.spiralThreshold
  RetryWindow,     \* fifteen minutes, in ticks
  RetryLag,        \* bound: how late a goroutine may wake
  MaxRetries       \* bound: retries of one message within RetryHorizon

RetryHorizon == 2 * RetryWindow + RetryLag
RetryAge == 0 .. RetryHorizon

ASSUME RetryAssumption ==
  /\ SpiralThreshold \in Nat \ {0} /\ RetryWindow \in Nat \ {0}
  /\ RetryLag \in Nat /\ MaxRetries \in Nat

VARIABLES
  retries,  \* len(rrt.retries[msg])
  timers,   \* per message and age: sleeping goroutines
  recorded, \* history, per message: the calls of RecordRetry within RetryHorizon
  cleared   \* history: age of the last Clear

retryVars == <<retries, timers, recorded, cleared>>

(* Variant: only the first retry of a message starts a goroutine, and that  *)
(* one is not started again after Clear.                                    *)
RecordRetryOneTimer(m) ==
  /\ retries' = [retries EXCEPT ![m] = @ + 1]
  /\ timers' = IF recorded[m] = <<>> THEN [timers EXCEPT ![m][0] = @ + 1] ELSE timers
  /\ recorded' = [recorded EXCEPT ![m] = Append(@, 0)]
  /\ UNCHANGED cleared

RecordRetry(m) ==
  /\ retries' = [retries EXCEPT ![m] = @ + 1]
  /\ timers' = [timers EXCEPT ![m][0] = @ + 1]
  /\ recorded' = [recorded EXCEPT ![m] = Append(@, 0)]
  /\ UNCHANGED cleared

(* Variant: the goroutine takes one retry off the list.                     *)
ExpireOne(m, a) ==
  /\ a >= RetryWindow /\ timers[m][a] > 0
  /\ timers' = [timers EXCEPT ![m][a] = @ - 1]
  /\ retries' = [retries EXCEPT ![m] = IF @ > 1 THEN @ - 1 ELSE @]
  /\ UNCHANGED <<recorded, cleared>>

(* The goroutine of a retry recorded a ticks ago wakes.                     *)
Expire(m, a) ==
  /\ a >= RetryWindow /\ timers[m][a] > 0
  /\ timers' = [timers EXCEPT ![m][a] = @ - 1]
  /\ retries' = [retries EXCEPT ![m] = 0]
  /\ UNCHANGED <<recorded, cleared>>

(* Clear, which is also Destroy; the goroutines sleep on.                   *)
Clear ==
  /\ retries' = [m \in RetryMsg |-> 0]
  /\ cleared' = 0
  /\ UNCHANGED <<timers, recorded>>

IsSpiraling(m) == retries[m] >= SpiralThreshold

Aged(byAge) == [a \in RetryAge |-> IF a = 0 THEN 0 ELSE byAge[a - 1]]

RetryTick ==
  /\ \A m \in RetryMsg : \A a \in RetryAge :
       a >= RetryWindow + RetryLag => timers[m][a] = 0
  /\ timers' = [m \in RetryMsg |-> Aged(timers[m])]
  /\ recorded' = [m \in RetryMsg |-> KeepAfter(Older(recorded[m], RetryHorizon + 1),
                                               RetryHorizon + 1)]
  /\ cleared' = IF cleared < RetryHorizon THEN cleared + 1 ELSE cleared
  /\ UNCHANGED retries

RetryInit ==
  /\ retries = [m \in RetryMsg |-> 0]
  /\ timers = [m \in RetryMsg |-> [a \in RetryAge |-> 0]]
  /\ recorded = [m \in RetryMsg |-> <<>>]
  /\ cleared = RetryHorizon

Retried(m) == Len(recorded[m]) < MaxRetries /\ RecordRetry(m)

Wakes(m) == \E a \in RetryAge : Expire(m, a)

RetryNext ==
  \/ \E m \in RetryMsg : Retried(m) \/ Wakes(m)
  \/ Clear
  \/ RetryTick

RetrySpec == RetryInit /\ [][RetryNext]_retryVars

-----------------------------------------------------------------------------
(* Spiral detection has no false alarms: a message that is called spiraling *)
(* was retried that often within the last fifteen minutes and since the     *)
(* last Clear, although no list entry knows its own time.                   *)
NoFalseSpiral ==
  \A m \in RetryMsg : IsSpiraling(m) =>
    Cardinality({i \in Within(recorded[m], RetryWindow + RetryLag + 1) :
                   recorded[m][i] <= cleared}) >= SpiralThreshold

(* What the whole-list deletion leaves of detection: a burst of retries     *)
(* within fifteen minutes is seen if the message had none in the window     *)
(* before and nothing was cleared.  (A burst after older retries may be     *)
(* missed: their goroutines delete it.)                                     *)
FreshSpiralSeen ==
  \A m \in RetryMsg :
    (/\ Len(recorded[m]) >= SpiralThreshold
     /\ \A i \in DOMAIN recorded[m] : recorded[m][i] < RetryWindow
     /\ cleared >= RetryWindow) => IsSpiraling(m)

(* IsSpiraling tells a spiral from a few old retries, as far as the         *)
(* expiry goroutines allow.                                                 *)
SpiralDetection == NoFalseSpiral /\ FreshSpiralSeen

(* The map does not grow for ever: every message's list is deleted at some  *)
(* time, even while it is being retried.                                    *)
RetriesForgotten == \A m \in RetryMsg : retries[m] > 0 ~> retries[m] = 0
=============================================================================
