--------------------------- MODULE CircuitBreaker ---------------------------
(***************************************************************************)
(* JidCircuitBreaker of circuit_breaker.go as the send loops use it        *)
(* through antiban.go: BeforeSend asks CanSend, and GetJitter after a      *)
(* refusal; AfterSend and AfterSendFailed report how the send went.        *)
(*                                                                         *)
(* Times are kept as ages in ticks, up to Oldest, beyond which no          *)
(* comparison of the code changes.                                         *)
(***************************************************************************)
EXTENDS Integers, FiniteSets

CONSTANTS
  JID,        \* recipients
  NoJID,      \* a loop with no send under way
  Loop,       \* send loops
  Threshold,  \* cfg.CircuitBreakerThreshold
  Cooldown,   \* cfg.CircuitBreakerCooldown, in ticks
  Stale,      \* ten minutes, in ticks
  MaxFailures \* bound: failures counted for one recipient

ASSUME BreakerAssumption ==
  /\ NoJID \notin JID
  /\ Threshold \in Nat \ {0} /\ Cooldown \in Nat /\ Stale \in Nat
  /\ MaxFailures \in Nat

VARIABLES
  breakers, \* jcb.breakers; a recipient without an entry has known = FALSE
  sending,  \* per loop: the recipient it may send to
  jitter,   \* per loop: the recipient GetJitter is about to be asked for
  streak,   \* history: failures without a success or a stale gap between them
  quiet     \* history: age of the last failure

vars == <<breakers, sending, jitter, streak, quiet>>

Oldest == (IF Cooldown > Stale THEN Cooldown ELSE Stale) + 1
Age == 0 .. Oldest

NoEntry == [known |-> FALSE, state |-> "closed", failures |-> 0,
            lastFail |-> Oldest, lastOpen |-> Oldest]

Free(l) == sending[l] = NoJID /\ jitter[l] = NoJID

-----------------------------------------------------------------------------
(* Variant: entries are evicted whatever their state.                       *)
evictStaleAny(b) ==
  [j \in JID |-> IF b[j].known /\ b[j].lastFail > Stale THEN NoEntry ELSE b[j]]

evictStale(b) ==
  [j \in JID |-> IF b[j].known /\ b[j].state = "closed" /\ b[j].lastFail > Stale
                 THEN NoEntry ELSE b[j]]

Admits(j) == breakers[j].state = "open" => breakers[j].lastOpen >= Cooldown

(* Variant: a refused attempt starts the cooldown anew.                     *)
AskedRestarting(j) ==
  IF ~breakers[j].known THEN breakers
  ELSE LET b == evictStale(breakers)
       IN  IF breakers[j].state = "open"
           THEN IF Admits(j) THEN [b EXCEPT ![j].state = "half"]
                ELSE [b EXCEPT ![j].lastOpen = 0]
           ELSE b

(* What CanSend(j) leaves behind.  A recipient without an entry returns     *)
(* before evictStale; an open one past its cooldown becomes half-open.      *)
Asked(j) ==
  IF ~breakers[j].known THEN breakers
  ELSE LET b == evictStale(breakers)
       IN  IF breakers[j].state = "open" /\ Admits(j)
           THEN [b EXCEPT ![j].state = "half"]
           ELSE b

CanSend(l, j) ==
  /\ Free(l)
  /\ breakers' = Asked(j)
  /\ IF Admits(j)
     THEN sending' = [sending EXCEPT ![l] = j] /\ UNCHANGED jitter
     ELSE jitter' = [jitter EXCEPT ![l] = j] /\ UNCHANGED sending
  /\ UNCHANGED <<streak, quiet>>

(* GetJitter asks CanSend again, by when the cooldown may be over; the      *)
(* message waits or is refused and leaves this module.                      *)
GetJitter(l) ==
  /\ jitter[l] # NoJID
  /\ breakers' = Asked(jitter[l])
  /\ jitter' = [jitter EXCEPT ![l] = NoJID]
  /\ UNCHANGED <<sending, streak, quiet>>

RecordSuccess(l) ==
  /\ sending[l] # NoJID
  /\ LET j == sending[l]
     IN  /\ breakers' = IF breakers[j].known
                        THEN [breakers EXCEPT ![j].state = "closed", ![j].failures = 0]
                        ELSE breakers
         /\ streak' = [streak EXCEPT ![j] = 0]
  /\ sending' = [sending EXCEPT ![l] = NoJID]
  /\ UNCHANGED <<jitter, quiet>>

(* Variant: the circuit opens one failure late.                             *)
FailedEntryLate(e) ==
  LET n == e.failures + 1
  IN  IF n > Threshold
      THEN [e EXCEPT !.known = TRUE, !.failures = n, !.lastFail = 0,
                     !.state = "open", !.lastOpen = 0]
      ELSE [e EXCEPT !.known = TRUE, !.failures = n, !.lastFail = 0]

FailedEntry(e) ==
  LET n == e.failures + 1
  IN  IF n >= Threshold
      THEN [e EXCEPT !.known = TRUE, !.failures = n, !.lastFail = 0,
                     !.state = "open", !.lastOpen = 0]
      ELSE [e EXCEPT !.known = TRUE, !.failures = n, !.lastFail = 0]

RecordFailure(l) ==
  /\ sending[l] # NoJID
  /\ LET j == sending[l]
     IN  /\ breakers[j].failures < MaxFailures
         /\ breakers' = [breakers EXCEPT ![j] = FailedEntry(@)]
         /\ streak' = [streak EXCEPT ![j] =
                         IF quiet[j] > Stale THEN 1
                         ELSE IF @ < Threshold THEN @ + 1 ELSE @]
         /\ quiet' = [quiet EXCEPT ![j] = 0]
  /\ sending' = [sending EXCEPT ![l] = NoJID]
  /\ UNCHANGED jitter

(* A later check of BeforeSend refuses, or the caller gives up: the breaker *)
(* hears nothing.                                                           *)
NotSent(l) ==
  /\ sending[l] # NoJID
  /\ sending' = [sending EXCEPT ![l] = NoJID]
  /\ UNCHANGED <<breakers, jitter, streak, quiet>>

Later(age) == IF age < Oldest THEN age + 1 ELSE age

TimePasses ==
  /\ breakers' = [j \in JID |-> [breakers[j] EXCEPT !.lastFail = Later(@),
                                                    !.lastOpen = Later(@)]]
  /\ quiet' = [j \in JID |-> Later(quiet[j])]
  /\ UNCHANGED <<sending, jitter, streak>>

Init ==
  /\ breakers = [j \in JID |-> NoEntry]
  /\ sending = [l \in Loop |-> NoJID]
  /\ jitter = [l \in Loop |-> NoJID]
  /\ streak = [j \in JID |-> 0]
  /\ quiet = [j \in JID |-> Oldest]

LoopStep(l) ==
  \/ \E j \in JID : CanSend(l, j)
  \/ GetJitter(l) \/ RecordSuccess(l) \/ RecordFailure(l) \/ NotSent(l)

Next == TimePasses \/ \E l \in Loop : LoopStep(l)

Spec == Init /\ [][Next]_vars

(* Time goes on, and a send that is under way comes to an end.              *)
FairSpec ==
  /\ Spec
  /\ WF_vars(TimePasses)
  /\ \A l \in Loop : WF_vars(GetJitter(l) \/ RecordSuccess(l) \/ RecordFailure(l) \/ NotSent(l))

-----------------------------------------------------------------------------
(* Every variable has its type.                                             *)
TypeOK ==
  /\ breakers \in [JID -> [known : BOOLEAN, state : {"closed", "open", "half"},
                           failures : 0 .. MaxFailures, lastFail : Age, lastOpen : Age]]
  /\ sending \in [Loop -> JID \cup {NoJID}]
  /\ jitter \in [Loop -> JID \cup {NoJID}]
  /\ streak \in [JID -> 0 .. Threshold]
  /\ quiet \in [JID -> Age]

(* A probe that fails closes the door again at once: an entry is open or    *)
(* half-open exactly when its count is at the threshold, so one failure of  *)
(* a half-open recipient is enough, however the loops' reports interleave.  *)
StateMatchesFailures ==
  \A j \in JID : breakers[j].state # "closed" <=> breakers[j].failures >= Threshold

(* A recipient that has failed Threshold times without a success, with no   *)
(* gap longer than ten minutes, is refused for a cooldown after the last    *)
(* failure; eviction of stale entries and other recipients do not matter.   *)
RepeatedFailuresBlock ==
  \A j \in JID : (streak[j] >= Threshold /\ quiet[j] < Cooldown) => ~Admits(j)

(* The breaker recovers by itself: however often an open recipient is asked *)
(* for, it is admitted again at some time.                                  *)
AutoRecovers == \A j \in JID : ~Admits(j) ~> Admits(j)
=============================================================================
