---------------------------- MODULE RateLimiter ----------------------------
(***************************************************************************)
(* RateLimiter of rate_limiter.go between BeforeSend and AfterSend of      *)
(* antiban.go: CanSend is asked before a message waits out its delay,      *)
(* Record is called once it has been sent, and other send loops may ask in *)
(* between.                                                                *)
(*                                                                         *)
(* A timestamp is kept as its age in ticks of a clock; the three window    *)
(* lengths are constants.  The delay of GetDelay is time that passes       *)
(* between CanSend and Record and is arbitrary here; of the delays it      *)
(* draws from, only what AdaptLimits does to them is kept.                 *)
(***************************************************************************)
EXTENDS TimeWindow, SharedConfig

CONSTANTS
  Minute, Hour, Day, \* lengths of the windows, in ticks
  BurstAllowance,    \* cfg.BurstAllowance
  Loop,              \* send loops that share the limiter
  MaxLogged          \* bound: sends recorded in one Day

ASSUME WindowAssumption ==
  /\ Minute \in Nat \ {0} /\ Hour \in Nat /\ Day \in Nat
  /\ Minute < Hour /\ Hour < Day

ASSUME LimitAssumption ==
  /\ BurstAllowance \in Nat /\ MaxLogged \in Nat
  /\ IsFiniteSet(Loop) /\ Loop # {}

VARIABLES
  perMinute,   \* the three lists of timestamps, as ages, oldest first
  perHour,
  perDay,
  burstCredit, \* rl.burstCredit
  admitted,    \* loops between a CanSend that was true and what ends it
  sentLog      \* history: the ages of all sends of the last Day

limiterVars == <<limits, delays, perMinute, perHour, perDay, burstCredit, admitted, sentLog>>

(* Variant: an entry goes one tick too early.                               *)
pruneEarly(list, window) == KeepAfter(list, window - 1)

(* prune: t.After(cutoff) is strict, an entry exactly one window old goes.  *)
prune(list, window) == KeepAfter(list, window)

(* The caps of the day and the hour are hard, a full minute may still be    *)
(* passed on credit.                                                        *)
canSend(minute, hour, day) ==
  /\ day < limits.day
  /\ hour < limits.hour
  /\ minute < limits.minute \/ burstCredit < BurstAllowance

(* CanSend prunes all lists, decides, and spends a burst credit when the    *)
(* minute is full.                                                          *)
CanSend(l) ==
  LET minute == Len(prune(perMinute, Minute))
      hour   == Len(prune(perHour, Hour))
      day    == Len(prune(perDay, Day))
      ok     == canSend(minute, hour, day)
  IN  /\ l \notin admitted
      /\ perMinute' = prune(perMinute, Minute)
      /\ perHour' = prune(perHour, Hour)
      /\ perDay' = prune(perDay, Day)
      /\ burstCredit' = IF ok /\ minute >= limits.minute THEN burstCredit + 1 ELSE burstCredit
      /\ admitted' = IF ok THEN admitted \cup {l} ELSE admitted
      /\ UNCHANGED <<limits, delays, sentLog>>

(* Record, from AfterSend.                                                  *)
Record(l) ==
  /\ l \in admitted
  /\ Len(sentLog) < MaxLogged
  /\ admitted' = admitted \ {l}
  /\ perMinute' = Append(perMinute, 0)
  /\ perHour' = Append(perHour, 0)
  /\ perDay' = Append(perDay, 0)
  /\ sentLog' = Append(sentLog, 0)
  /\ UNCHANGED <<limits, delays, burstCredit>>

(* The rest of BeforeSend refuses, the caller gives up during the delay or  *)
(* whatsmeow fails: nothing is recorded, a spent burst credit stays spent.  *)
NotSent(l) ==
  /\ l \in admitted
  /\ admitted' = admitted \ {l}
  /\ UNCHANGED <<limits, delays, perMinute, perHour, perDay, burstCredit, sentLog>>

TimePasses ==
  /\ perMinute' = Older(perMinute, Day)
  /\ perHour' = Older(perHour, Day)
  /\ perDay' = Older(perDay, Day)
  /\ sentLog' = KeepAfter(Older(sentLog, Day), Day)
  /\ UNCHANGED <<limits, delays, burstCredit, admitted>>

LimiterInit ==
  /\ limits = Preset /\ delays = PresetDelays
  /\ perMinute = <<>> /\ perHour = <<>> /\ perDay = <<>>
  /\ burstCredit = 0
  /\ admitted = {}
  /\ sentLog = <<>>

Sending == \E l \in Loop : CanSend(l) \/ Record(l) \/ NotSent(l)

LimiterNext == Sending \/ TimePasses

-----------------------------------------------------------------------------
Ages == 0 .. Day

(* Every variable has its type, and the burst is never overdrawn.           *)
LimiterTypeOK ==
  /\ limits \in [{"minute", "hour", "day"} -> Nat] /\ delays \in [{"min", "max"} -> 0 .. DelayCap]
  /\ perMinute \in Seq(Ages) /\ perHour \in Seq(Ages) /\ perDay \in Seq(Ages)
  /\ burstCredit \in 0 .. BurstAllowance
  /\ admitted \subseteq Loop
  /\ sentLog \in Seq(Ages)

SentWithin(window) == Cardinality(Within(sentLog, window))

Overlap == Cardinality(Loop) - 1

(* Counting real sends, not list entries: in every stretch of a minute, an  *)
(* hour or a day the sends stay within the preset's caps, up to the burst   *)
(* allowance in the minute and one message for each further loop that was   *)
(* let in before the others recorded theirs.                                *)
WithinCaps ==
  /\ SentWithin(Minute) <= MaxPerMinute + BurstAllowance + Overlap
  /\ SentWithin(Hour) <= MaxPerHour + Overlap
  /\ SentWithin(Day) <= MaxPerDay + Overlap
=============================================================================
