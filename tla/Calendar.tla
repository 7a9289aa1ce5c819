------------------------------ MODULE Calendar ------------------------------
(***************************************************************************)
(* The two checks of BeforeSend that follow the calendar, in their order:  *)
(* Scheduler, then WarmUp, as processSend runs into them.  A blocked       *)
(* message sleeps for the delay it was given and is tried once more; the   *)
(* checks after WarmUp may block it too, whatever they look at.            *)
(*                                                                         *)
(* A failed send and a reconnect scale the shared caps, by any of the      *)
(* factors of the ban recovery.                                            *)
(*                                                                         *)
(* Time is counted in hours; a loop that wakes runs within the hour.       *)
(***************************************************************************)
EXTENDS Scheduler, WarmUp, FiniteSets

CONSTANT Loop \* send loops

ASSUME LoopAssumption == IsFiniteSet(Loop) /\ Loop # {}

VARIABLES
  hour,      \* of the day
  loop,      \* per loop: where its message is, and the hours it still sleeps
  sentToday, \* history: messages recorded since midnight or since Reset
  granted,   \* history: the daily limit at the last CanSend that was true
  daysUp     \* history: calendar days since the warm-up began, up to WarmUpDays

calendarVars == <<limits, delays, warmUpVars, hour, loop, sentToday, granted, daysUp>>

Goes(l, where, hours) == loop' = [loop EXCEPT ![l] = [at |-> where, hours |-> hours]]

(* What processSend does with a refusal: the first is slept off for a time  *)
(* the calendar does not bound, the second ends the message.                *)
Refused(l) == Goes(l, IF loop[l].at = "idle" THEN "blocked" ELSE "idle", 0)

(* BeforeSend for a new message, or again after the delay.                  *)
BeforeSend(l) ==
  /\ \/ loop[l].at \in {"idle", "blocked"}
     \/ loop[l].at = "asleep" /\ loop[l].hours = 0
  /\ UNCHANGED <<limits, delays, hour, sentToday>>
  /\ \/ /\ ~isActiveTime(hour)
        /\ IF loop[l].at = "idle" THEN Goes(l, "asleep", MsUntilActive(hour))
           ELSE Goes(l, "idle", 0)
        /\ UNCHANGED <<warmUpVars, granted, daysUp>>
     \/ /\ isActiveTime(hour)
        /\ daysUp' = IF idleFor > InactivityTD THEN 0 ELSE daysUp
        /\ \/ WarmUpCanSend(FALSE) /\ Refused(l) /\ UNCHANGED granted
           \/ /\ WarmUpCanSend(TRUE) /\ granted' = getDailyLimit(day')
              /\ Refused(l) \/ Goes(l, "idle", 0) \/ Goes(l, "sending", 0)

(* IsActiveTime says no, the hour turns, and MsUntilActive says 0: the      *)
(* message is refused at once although the active hours have begun.         *)
BeforeSendAtTheTurn(l) ==
  /\ loop[l].at = "idle" /\ ~isActiveTime(hour) /\ isActiveTime((hour + 1) % HoursPerDay)
  /\ UNCHANGED calendarVars

(* The send succeeds: AfterSend.                                            *)
AfterSend(l) ==
  /\ loop[l].at = "sending"
  /\ WarmUpRecord
  /\ sentToday' = sentToday + 1
  /\ Goes(l, "idle", 0)
  /\ UNCHANGED <<limits, delays, hour, granted, daysUp>>

(* The caller gives up during the delay.                                    *)
GivesUp(l) ==
  /\ loop[l].at = "sending"
  /\ Goes(l, "idle", 0)
  /\ UNCHANGED <<limits, delays, warmUpVars, hour, sentToday, granted, daysUp>>

(* The send fails: AfterSendFailed scales the caps.                         *)
SendFails(l) ==
  /\ loop[l].at = "sending"
  /\ Goes(l, "idle", 0)
  /\ \E f \in Factors : AdaptCaps(f)
  /\ UNCHANGED <<delays, warmUpVars, hour, sentToday, granted, daysUp>>

(* A connection returns: AntiBan.OnReconnect scales them, too.              *)
Reconnected ==
  /\ \E f \in Factors : AdaptCaps(f)
  /\ UNCHANGED <<delays, warmUpVars, hour, loop, sentToday, granted, daysUp>>

ResetWarmUp ==
  /\ WarmUpReset
  /\ sentToday' = 0 /\ daysUp' = 0
  /\ UNCHANGED <<limits, delays, hour, loop, granted>>

HourPasses ==
  /\ \A l \in Loop : loop[l].at = "asleep" => loop[l].hours > 0
  /\ hour' = (hour + 1) % HoursPerDay
  /\ WarmUpHour(hour' = 0)
  /\ loop' = [l \in Loop |-> [loop[l] EXCEPT !.hours = IF @ > 0 THEN @ - 1 ELSE @]]
  /\ sentToday' = IF hour' = 0 THEN 0 ELSE sentToday
  /\ daysUp' = IF hour' = 0 THEN NextDay(daysUp) ELSE daysUp
  /\ UNCHANGED <<limits, delays, granted>>

CalendarInit ==
  /\ limits = Preset /\ delays = PresetDelays
  /\ WarmUpInit
  /\ hour \in Hour
  /\ loop = [l \in Loop |-> [at |-> "idle", hours |-> 0]]
  /\ sentToday = 0 /\ granted = 0 /\ daysUp = 0

CalendarNext ==
  \/ \E l \in Loop : \/ BeforeSend(l) \/ BeforeSendAtTheTurn(l)
                    \/ AfterSend(l) \/ GivesUp(l) \/ SendFails(l)
  \/ Reconnected \/ ResetWarmUp \/ HourPasses

CalendarSpec == CalendarInit /\ [][CalendarNext]_calendarVars

-----------------------------------------------------------------------------
(* Every variable has its type.                                             *)
CalendarTypeOK ==
  /\ day \in 1 .. WarmUpDays /\ dailyCount \in Nat
  /\ idleFor \in 0 .. InactivityTD + 1 /\ newDay \in BOOLEAN
  /\ hour \in Hour
  /\ loop \in [Loop -> [at : {"idle", "asleep", "blocked", "sending"}, hours : 0 .. HoursPerDay]]
  /\ sentToday \in Nat /\ granted \in Nat /\ daysUp \in 0 .. WarmUpDays

(* A message that comes outside the active hours is not lost to them: it    *)
(* wakes in the first active hour, also when the hours run over midnight,   *)
(* so its second attempt is never refused for the hour.                     *)
WakesInActiveHours ==
  \A l \in Loop : loop[l].at = "asleep" => isActiveTime((hour + loop[l].hours) % HoursPerDay)

(* A calendar day sees no more messages than the daily limit by which its   *)
(* last one was let in, however the limit fell while it lasted, but for     *)
(* those under way: each loop may record one that was let in before         *)
(* midnight and is forgotten when the day rolls over, and all loops but one *)
(* may be let in on the last free place.                                    *)
DailyCap == sentToday <= granted + 2 * Cardinality(Loop) - 1

(* The warm-up is never ahead of the calendar: its day number grows by at   *)
(* most one per calendar day since it began, however often it is asked.     *)
NeverAhead == day - 1 <= daysUp

(* Warm-up keeps its pace.                                                  *)
WarmUpPace == DailyCap /\ NeverAhead
=============================================================================
