---------------------------- MODULE BanRecovery ----------------------------
(***************************************************************************)
(* BanRecoveryOrchestrator of ban_recovery.go: the phase of the recovery   *)
(* from a ban, the ban events of the last month and the multiplier for the *)
(* rate limits that follows from the phase.                                *)
(*                                                                         *)
(* Event times are kept as ages in ticks of a slow clock.  Multipliers are *)
(* fractions <<num, den>>.  No code in the repository calls Tick or Reset; *)
(* they belong to the program that embeds the library.                     *)
(***************************************************************************)
EXTENDS TimeWindow

CONSTANTS
  Month,             \* length of the window for ban events, in ticks
  MaxBansBeforeHard, \* cfg.MaxBansBeforeHard
  MaxEvents          \* bound: ban events kept

ASSUME BanAssumption ==
  /\ Month \in Nat \ {0}
  /\ MaxBansBeforeHard \in Nat
  /\ MaxEvents \in Nat

VARIABLES
  phase,     \* bro.phase
  banEvents, \* bro.banEvents, as ages
  rampDay    \* bro.rampDay

banVars == <<phase, banEvents, rampDay>>

Phases == {"paused", "recovering", "ramping", "graduated", "dead"}
BanTypes == {"timelock", "rate_overlimit", "soft_ban", "hard_ban"}

(* What an error's text says of it.  ClassifyError knows four kinds by      *)
(* their codes; any other error, a timeout or a cancelled context too, is   *)
(* a soft ban.                                                              *)
ErrorKinds == {"463", "429", "405", "401", "402", "other"}

ClassifyError(kind) ==
  CASE kind = "463" -> "timelock"
    [] kind = "429" -> "rate_overlimit"
    [] kind \in {"401", "402"} -> "hard_ban"
    [] OTHER -> "soft_ban"

pruneOldEvents(events) == KeepAfter(events, Month)

(* cfg.RecoveryRampPct is 0.25.                                             *)
RecoveryRampPct == <<1, 4>>

(* Variant: the ramp starts from zero instead of the recovery rate.         *)
getRateMultiplierFromZero(ph, day) ==
  CASE ph = "recovering" -> RecoveryRampPct
    [] ph = "ramping" -> <<IF day > 7 THEN 7 ELSE day, 7>>
    [] ph = "graduated" -> <<1, 1>>
    [] OTHER -> <<0, 1>>

(* While ramping: pct + (1 - pct) * day/7, with day/7 at most 1.            *)
getRateMultiplier(ph, day) ==
  LET n == RecoveryRampPct[1]
      d == RecoveryRampPct[2]
  IN  CASE ph = "recovering" -> RecoveryRampPct
        [] ph = "ramping" -> <<7 * n + (d - n) * (IF day > 7 THEN 7 ELSE day), 7 * d>>
        [] ph = "graduated" -> <<1, 1>>
        [] OTHER -> <<0, 1>>

Multiplier == getRateMultiplier(phase, rampDay)

AtMost(f, g) == f[1] * g[2] <= g[1] * f[2]

(* Variant: the events of earlier months count too.                         *)
RecordBanEventNoWindow(type) ==
  LET events == Append(banEvents, 0)
      again  == Len(events) >= MaxBansBeforeHard
  IN  /\ Len(banEvents) < MaxEvents
      /\ banEvents' = events
      /\ phase' = CASE type \in {"soft_ban", "hard_ban"} /\ again -> "dead"
                    [] type = "soft_ban" /\ ~again -> "recovering"
                    [] OTHER -> "paused"
      /\ rampDay' = 1

RecordBanEvent(type) ==
  LET events == pruneOldEvents(Append(banEvents, 0))
      again  == Len(events) >= MaxBansBeforeHard
  IN  /\ Len(banEvents) < MaxEvents
      /\ banEvents' = events
      /\ phase' = CASE type \in {"soft_ban", "hard_ban"} /\ again -> "dead"
                    [] type = "soft_ban" /\ ~again -> "recovering"
                    [] OTHER -> "paused"
      /\ rampDay' = 1

Tick ==
  \/ /\ phase = "paused"
     /\ phase' = "recovering"
     /\ UNCHANGED <<banEvents, rampDay>>
  \/ /\ phase = "recovering"
     /\ phase' = "ramping"
     /\ rampDay' = 1
     /\ UNCHANGED banEvents
  \/ /\ phase = "ramping"
     /\ rampDay' = rampDay + 1
     /\ phase' = IF rampDay + 1 > 7 THEN "graduated" ELSE phase
     /\ UNCHANGED banEvents

(* GetStatus prunes as well.                                                *)
GetStatus ==
  /\ banEvents' = pruneOldEvents(banEvents)
  /\ UNCHANGED <<phase, rampDay>>

Reset ==
  /\ phase' = "graduated"
  /\ banEvents' = <<>>
  /\ rampDay' = 0

DayPasses ==
  /\ banEvents' = Older(banEvents, Month)
  /\ UNCHANGED <<phase, rampDay>>

BanInit ==
  /\ phase = "graduated"
  /\ banEvents = <<>>
  /\ rampDay = 0
=============================================================================
