--------------------------- MODULE HealthMonitor ---------------------------
(***************************************************************************)
(* The health score of health.go.  Bad events raise it, a reconnect lowers *)
(* it, and it decays with time, but only inside scoreEvent: nothing lowers *)
(* it while no event arrives.  Crossing AutoPauseRiskLevel upwards, or     *)
(* half of it downwards, starts a goroutine that will call onRiskChange    *)
(* with the risk level of that moment.  The goroutines run in any order:   *)
(* callbacks counts the ones that have started and not yet run, per level. *)
(*                                                                         *)
(* Every method runs under hm.mu and is one step.  Time is counted in      *)
(* whole minutes: idle is the time since lastDecay, and decay ignores less *)
(* than one minute.  The per-kind event counters only feed GetStatus and   *)
(* are left out.  PauseControl composes these actions with their callers.  *)
(***************************************************************************)
EXTENDS Integers

CONSTANTS
  AutoPauseRiskLevel, \* 30, 50, 70 or 85, by preset
  MaxIdle,            \* bound: minutes without an event
  MaxCallbacks,       \* bound: callback goroutines in flight
  MinScore            \* bound: reconnects stop here (the code has no floor)

ASSUME HealthAssumption ==
  /\ AutoPauseRiskLevel \in 1 .. 100
  /\ MaxIdle \in Nat
  /\ MaxCallbacks \in Nat
  /\ MinScore \in Int /\ MinScore <= 0

VARIABLES
  score,
  idle,            \* minutes since lastDecay
  pauseTriggered,
  hmPaused,        \* hm.isPaused
  callbacks        \* [RiskLevel -> Nat]: onRiskChange goroutines not yet run

healthVars == <<score, idle, pauseTriggered, hmPaused, callbacks>>

RiskLevel == {"low", "medium", "high", "critical"}

(* The weights of the Record methods.                                       *)
Weight == [disconnect |-> 10, reconnect |-> -5, failed |-> 5,
           forbidden |-> 20, loggedOut |-> 40, timelock |-> 30]

EventKind == DOMAIN Weight

getRiskLevel(s) ==
  CASE s >= 80 -> "critical"
    [] s >= 40 /\ s < 80 -> "high"
    [] s >= 15 /\ s < 40 -> "medium"
    [] OTHER -> "low"

-----------------------------------------------------------------------------
(* Variants with a plausible bug, against which the properties are tried.   *)

(* The pause is triggered only strictly above the level.                    *)
TriggersAbove(s) == s > AutoPauseRiskLevel

-----------------------------------------------------------------------------
decay(s, minutes) ==
  IF minutes < 1 THEN s
  ELSE LET left == s - (IF s < 40 THEN 5 ELSE 2) * minutes
       IN  IF left < 0 THEN 0 ELSE left

(* The two thresholds of checkPause; the second is AutoPauseRiskLevel*0.5.  *)
Triggers(s) == s >= AutoPauseRiskLevel

Lifts(s) == 2 * s < AutoPauseRiskLevel

(* math.Min(100, ...).                                                      *)
Clamp(s) == IF s > 100 THEN 100 ELSE s

StartCallback(level) == callbacks' = [callbacks EXCEPT ![level] = @ + 1]

checkPause(s) ==
  \/ /\ ~pauseTriggered
     /\ Triggers(s)
     /\ pauseTriggered' = TRUE
     /\ hmPaused' = TRUE
     /\ StartCallback(getRiskLevel(s))
  \/ /\ pauseTriggered
     /\ Lifts(s)
     /\ pauseTriggered' = FALSE
     /\ hmPaused' = FALSE
     /\ StartCallback(getRiskLevel(s))
  \/ /\ IF pauseTriggered THEN ~Lifts(s) ELSE ~Triggers(s)
     /\ UNCHANGED <<pauseTriggered, hmPaused, callbacks>>

scoreEvent(weight) ==
  LET s == Clamp(decay(score, idle) + weight)
  IN  /\ score' = s
      /\ idle' = 0
      /\ checkPause(s)

(* RecordDisconnect, RecordReconnect, RecordMessageFailed, RecordForbidden, *)
(* RecordLoggedOut and RecordReachoutTimelock.                              *)
Record(kind) == scoreEvent(Weight[kind])

SetPaused(paused) ==
  /\ hmPaused' = paused
  /\ UNCHANGED <<score, idle, pauseTriggered, callbacks>>

(* Reset forgets the pause without a callback.                              *)
Reset ==
  /\ score' = 0
  /\ idle' = 0
  /\ pauseTriggered' = FALSE
  /\ hmPaused' = FALSE
  /\ UNCHANGED callbacks

Minute ==
  /\ idle < MaxIdle
  /\ idle' = idle + 1
  /\ UNCHANGED <<score, pauseTriggered, hmPaused, callbacks>>

InFlight == callbacks["low"] + callbacks["medium"]
              + callbacks["high"] + callbacks["critical"]

(* The bounds under which another event is let in.                          *)
RoomForEvent(kind) ==
  /\ InFlight < MaxCallbacks
  /\ kind = "reconnect" => score > MinScore

(* A callback goroutine ends; what it does is the registered function's     *)
(* business (PauseControl).                                                 *)
CallbackDone(level) ==
  /\ callbacks[level] > 0
  /\ callbacks' = [callbacks EXCEPT ![level] = @ - 1]
  /\ UNCHANGED <<score, idle, pauseTriggered, hmPaused>>

HealthInit ==
  /\ score = 0
  /\ idle = 0
  /\ pauseTriggered = FALSE
  /\ hmPaused = FALSE
  /\ callbacks = [level \in RiskLevel |-> 0]

-----------------------------------------------------------------------------
(* Every variable has its type, and no sum of events exceeds 100.           *)
HealthTypeOK ==
  /\ score \in Int /\ score <= 100
  /\ idle \in 0 .. MaxIdle
  /\ pauseTriggered \in BOOLEAN
  /\ hmPaused \in BOOLEAN
  /\ callbacks \in [RiskLevel -> Nat]

(* Hysteresis of checkPause: while the pause is triggered the score has not *)
(* fallen under half of AutoPauseRiskLevel, while it is not triggered the   *)
(* score is under AutoPauseRiskLevel.  scoreEvent decays, adds and clamps   *)
(* before it looks at the thresholds, so this also says that no event moves *)
(* the score across a threshold unnoticed.                                  *)
Hysteresis ==
  /\ pauseTriggered => 2 * score >= AutoPauseRiskLevel
  /\ ~pauseTriggered => score < AutoPauseRiskLevel
=============================================================================
