---------------------------- MODULE PauseControl ----------------------------
(***************************************************************************)
(* Who pauses and resumes outbound messaging: AntiBan.isPaused is one      *)
(* atomic.Bool written by                                                  *)
(*   - Pause and Resume, called by the operator;                           *)
(*   - the onRiskChange callback that New registers with the health        *)
(*     monitor, run by goroutines in any order;                            *)
(*   - handleEvent on a TemporaryBan: Pause, and Resume from a timer.      *)
(*                                                                         *)
(* whatsmeow dispatches connection events on goroutines of their own       *)
(* (go cli.dispatchEvent(...)), so several handleEvent calls may run at    *)
(* once.  A handler is the sequence of the calls it still has to make;     *)
(* each call is atomic (it holds ab.mu, hm.mu, or is one atomic store) and *)
(* calls of different handlers interleave.                                 *)
(***************************************************************************)
EXTENDS HealthMonitor, Sequences

CONSTANTS
  Handler,    \* event-handler goroutines that can be running at once
  MaxTimers   \* bound: temporary-ban timers not yet expired

ASSUME PauseAssumption == MaxTimers \in Nat

VARIABLES
  isPaused,   \* AntiBan.isPaused
  todo,       \* per handler, the calls it has still to make
  banTimers,  \* time.AfterFunc(v.Expire, Resume) timers that are pending
  lone,       \* history: the last callback to start did so with none in flight
              \* and no Pause in force, nobody called Pause, Resume or Reset since
  held        \* history: no Resume since the last Pause, of operator or ban

vars == <<healthVars, isPaused, todo, banTimers, lone, held>>

-----------------------------------------------------------------------------
(* handleEvent, as far as it touches health and the pause flag.             *)

RecordCall(kind) == [op |-> "record", kind |-> kind]
PauseCall == [op |-> "pause", kind |-> "none"]
AfterFuncCall == [op |-> "afterFunc", kind |-> "none"]

Call == [op : {"record"}, kind : EventKind] \cup {PauseCall, AfterFuncCall}

(* OnStreamError(err) by the ban type ClassifyError gives err.              *)
OnStreamError(ban) ==
  CASE ban = "hard_ban" -> <<RecordCall("loggedOut")>>
    [] ban = "soft_ban" -> <<RecordCall("forbidden")>>
    [] ban = "timelock" -> <<RecordCall("timelock")>>
    [] ban = "rate_overlimit" -> <<>>

BanType == {"hard_ban", "soft_ban", "timelock", "rate_overlimit"}

Disconnected == <<RecordCall("disconnect")>>
Connected == <<RecordCall("reconnect")>>

(* The handler's extra OnDisconnect for code 515 is never reached: whatsmeow *)
(* treats 515 itself and dispatches StreamError for unknown codes only      *)
(* (whatsmeow/connectionevents.go, handleStreamError).                      *)
StreamError(ban) == OnStreamError(ban)

(* The reason's text decides the ban type: "401: ..." is hard, 403 and 406  *)
(* are soft.  The logout is recorded once more whatever the type.           *)
LoggedOut(ban) == OnStreamError(ban) \o <<RecordCall("loggedOut")>>

(* "temporary ban: ..." matches no case of ClassifyError but the default.   *)
TemporaryBan == OnStreamError("soft_ban") \o <<PauseCall, AfterFuncCall>>

HandlerBody ==
  {Disconnected, Connected, TemporaryBan}
    \cup {StreamError(ban) : ban \in BanType}
    \cup {LoggedOut(ban) : ban \in {"hard_ban", "soft_ban"}}

Dispatch(h) ==
  /\ todo[h] = <<>>
  /\ \E body \in HandlerBody : todo' = [todo EXCEPT ![h] = body]
  /\ UNCHANGED <<healthVars, isPaused, banTimers, lone, held>>

(* A callback that starts while none is in flight will be the last to write *)
(* isPaused; one that starts beside another may run before it.  A Pause is  *)
(* not the callbacks' to end.                                               *)
NoteCallbacks ==
  lone' = IF callbacks' = callbacks THEN lone ELSE InFlight = 0 /\ ~held

RecordStep(h) ==
  /\ todo[h] # <<>>
  /\ Head(todo[h]).op = "record"
  /\ RoomForEvent(Head(todo[h]).kind)
  /\ Record(Head(todo[h]).kind)
  /\ NoteCallbacks
  /\ todo' = [todo EXCEPT ![h] = Tail(@)]
  /\ UNCHANGED <<isPaused, banTimers, held>>

PauseStep(h) ==
  /\ todo[h] # <<>>
  /\ Head(todo[h]).op = "pause"
  /\ isPaused' = TRUE
  /\ lone' = FALSE /\ held' = TRUE
  /\ todo' = [todo EXCEPT ![h] = Tail(@)]
  /\ UNCHANGED <<healthVars, banTimers>>

AfterFuncStep(h) ==
  /\ todo[h] # <<>>
  /\ Head(todo[h]).op = "afterFunc"
  /\ banTimers < MaxTimers
  /\ banTimers' = banTimers + 1
  /\ todo' = [todo EXCEPT ![h] = Tail(@)]
  /\ UNCHANGED <<healthVars, isPaused, lone, held>>

-----------------------------------------------------------------------------
(* AfterSendFailed, run by the send loop.                                   *)
AfterSendFailed ==
  /\ RoomForEvent("failed")
  /\ Record("failed")
  /\ NoteCallbacks
  /\ UNCHANGED <<isPaused, todo, banTimers, held>>

Pause ==
  /\ isPaused' = TRUE
  /\ lone' = FALSE /\ held' = TRUE
  /\ UNCHANGED <<healthVars, todo, banTimers>>

Resume ==
  /\ isPaused' = FALSE
  /\ lone' = FALSE /\ held' = FALSE
  /\ UNCHANGED <<healthVars, todo, banTimers>>

(* The timer of a TemporaryBan calls Resume.                                *)
BanExpires ==
  /\ banTimers > 0
  /\ banTimers' = banTimers - 1
  /\ isPaused' = FALSE
  /\ lone' = FALSE /\ held' = FALSE
  /\ UNCHANGED <<healthVars, todo>>

(* A variant with a plausible bug: critical risk is forgotten.              *)
PausesOnHighOnly(level) == level = "high"

(* The function New registers with OnRiskChange.                            *)
PausesOn(level) == level = "critical" \/ level = "high"

RunCallback(level) ==
  /\ CallbackDone(level)
  /\ isPaused' = PausesOn(level)
  /\ UNCHANGED <<todo, banTimers, lone, held>>

(* Calls on ab.Health from outside.  Reset forgets a triggered pause without *)
(* a callback, SetPaused changes a flag that AntiBan does not read.         *)
ResetHealth ==
  /\ Reset
  /\ lone' = FALSE
  /\ UNCHANGED <<isPaused, todo, banTimers, held>>

OverrideHealth ==
  /\ \E paused \in BOOLEAN : SetPaused(paused)
  /\ UNCHANGED <<isPaused, todo, banTimers, lone, held>>

MinutePasses == Minute /\ UNCHANGED <<isPaused, todo, banTimers, lone, held>>

Init ==
  /\ HealthInit
  /\ isPaused = FALSE
  /\ todo = [h \in Handler |-> <<>>]
  /\ banTimers = 0
  /\ lone = TRUE /\ held = FALSE

Next ==
  \/ \E h \in Handler : \/ Dispatch(h)
                        \/ RecordStep(h)
                        \/ PauseStep(h)
                        \/ AfterFuncStep(h)
  \/ AfterSendFailed
  \/ Pause
  \/ Resume
  \/ BanExpires
  \/ \E level \in RiskLevel : RunCallback(level)
  \/ ResetHealth
  \/ OverrideHealth
  \/ MinutePasses

Spec == Init /\ [][Next]_vars

-----------------------------------------------------------------------------
(* Every variable has its type.                                             *)
TypeOK ==
  /\ HealthTypeOK
  /\ isPaused \in BOOLEAN
  /\ todo \in [Handler -> Seq(Call)]
  /\ banTimers \in Nat
  /\ lone \in BOOLEAN /\ held \in BOOLEAN

(* The pause flag follows the monitor: once the callbacks have run, unless  *)
(* the last two were in flight together, and while no Pause is in force and *)
(* nobody called Resume or Health.Reset since, messaging is paused exactly  *)
(* while the monitor's pause is triggered.  True for AutoPauseRiskLevel in  *)
(* 40..80: the callback carries a risk level (thresholds 40 and 80), not    *)
(* the decision checkPause took.                                            *)
FlagFollowsHealth == (InFlight = 0 /\ lone) => isPaused = pauseTriggered

(* health.go:9, the monitor "auto-pauses on elevated risk": the same for    *)
(* the pause level that the preset chooses, in the direction that matters.  *)
PausedOnElevatedRisk == (InFlight = 0 /\ lone /\ pauseTriggered) => isPaused

(* antiban.go:287, "Pause stops all outbound messaging until Resume is      *)
(* called": no callback of the health monitor ends a pause.                 *)
PauseHolds == held => isPaused
=============================================================================
