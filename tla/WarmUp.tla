------------------------------- MODULE WarmUp -------------------------------
(***************************************************************************)
(* WarmUp of warmup.go.  Of startedAt only whether it lies on an earlier   *)
(* calendar day is kept, of lastSend its age in hours up to the            *)
(* inactivity limit (a client that never sent is past it).  Days beyond    *)
(* WarmUpDays are not told apart.                                          *)
(*                                                                         *)
(* Nothing in the program calls ImportState: a restarted process begins    *)
(* with NewWarmUp.                                                         *)
(***************************************************************************)
EXTENDS SharedConfig

CONSTANTS
  InitialDailyLimit, WarmUpDays, \* of the configuration
  InactivityTD,                  \* cfg.WarmUpInactivityTD in hours
  Growth                         \* (growthFactor - 1.5) * 0.1 in per cent

ASSUME WarmUpAssumption ==
  /\ InitialDailyLimit \in Nat
  /\ WarmUpDays \in Nat \ {0} /\ InactivityTD \in Nat
  /\ Growth \subseteq 0 .. 7

VARIABLES
  day,        \* wu.day, up to WarmUpDays
  dailyCount, \* wu.dailyCount
  idleFor,    \* hours since wu.lastSend, up to InactivityTD + 1
  newDay,     \* today is not the day of wu.startedAt
  growth      \* wu.growthFactor

warmUpVars == <<day, dailyCount, idleFor, newDay, growth>>

(* The limit on day d, from the cap of this moment, which AdaptLimits may   *)
(* have brought below InitialDailyLimit.                                    *)
getDailyLimit(d) ==
  IF d >= WarmUpDays THEN limits.day
  ELSE LET target == (limits.day - InitialDailyLimit) * d + InitialDailyLimit * WarmUpDays
           limit == (target * (100 + growth)) \div (WarmUpDays * 100)
       IN  IF limit > limits.day THEN limits.day ELSE limit

NextDay(d) == IF d < WarmUpDays THEN d + 1 ELSE d

(* Variant: startedAt is not moved on with the day.                         *)
WarmUpCanSendAgain(admitted) ==
  LET idle == idleFor > InactivityTD
      rolls == newDay /\ ~idle
  IN  /\ day' = IF idle THEN 1 ELSE IF rolls THEN NextDay(day) ELSE day
      /\ dailyCount' = IF idle \/ rolls THEN 0 ELSE dailyCount
      /\ newDay' = IF idle THEN FALSE ELSE newDay
      /\ admitted = (dailyCount' < getDailyLimit(day'))
      /\ UNCHANGED <<idleFor, growth>>

(* CanSend: starts over after a long silence, counts a new calendar day,    *)
(* and answers.                                                             *)
WarmUpCanSend(admitted) ==
  LET idle == idleFor > InactivityTD
      rolls == newDay /\ ~idle
  IN  /\ day' = IF idle THEN 1 ELSE IF rolls THEN NextDay(day) ELSE day
      /\ dailyCount' = IF idle \/ rolls THEN 0 ELSE dailyCount
      /\ newDay' = FALSE
      /\ admitted = (dailyCount' < getDailyLimit(day'))
      /\ UNCHANGED <<idleFor, growth>>

WarmUpRecord ==
  /\ dailyCount' = dailyCount + 1
  /\ idleFor' = 0
  /\ UNCHANGED <<day, newDay, growth>>

WarmUpReset ==
  /\ day' = 1 /\ dailyCount' = 0 /\ newDay' = FALSE
  /\ growth' \in Growth
  /\ UNCHANGED idleFor

WarmUpHour(midnight) ==
  /\ idleFor' = IF idleFor <= InactivityTD THEN idleFor + 1 ELSE idleFor
  /\ newDay' = (newDay \/ midnight)
  /\ UNCHANGED <<day, dailyCount, growth>>

WarmUpInit ==
  /\ day = 1 /\ dailyCount = 0 /\ newDay = FALSE
  /\ idleFor = InactivityTD + 1
  /\ growth \in Growth
=============================================================================
