------------------------------ MODULE Recovery ------------------------------
(***************************************************************************)
(* Where antiban.go ties BanRecovery and RateLimiter together: a failed    *)
(* send and a stream error are recorded as ban events, and the multiplier  *)
(* is applied to the limits by AfterSendFailed and by OnReconnect.  The    *)
(* three run under ab.mu, one at a time.                                   *)
(***************************************************************************)
EXTENDS RateLimiter, BanRecovery

VARIABLE
  applied  \* history: the multiplier was applied since the last ban event

vars == <<limiterVars, banVars, applied>>

sendingVars == <<perMinute, perHour, perDay, burstCredit, sentLog>>

NewMultiplier == getRateMultiplier(phase', rampDay')

(* Variant: a multiplier of zero is taken for "not set".                    *)
AfterSendFailedUnlessZero(l, kind) ==
  /\ l \in admitted
  /\ admitted' = admitted \ {l}
  /\ RecordBanEvent(ClassifyError(kind))
  /\ IF NewMultiplier[1] > 0 THEN AdaptLimits(NewMultiplier) ELSE UNCHANGED <<limits, delays>>
  /\ applied' = TRUE
  /\ UNCHANGED sendingVars

(* AfterSendFailed: every error is some ban, so after RecordBanEvent the    *)
(* multiplier is below 1 and AdaptLimits always runs.                       *)
AfterSendFailed(l, kind) ==
  /\ l \in admitted
  /\ admitted' = admitted \ {l}
  /\ RecordBanEvent(ClassifyError(kind))
  /\ IF AtMost(<<1, 1>>, NewMultiplier) THEN UNCHANGED <<limits, delays>>
     ELSE AdaptLimits(NewMultiplier)
  /\ applied' = TRUE
  /\ UNCHANGED sendingVars

(* OnStreamError records the event and leaves the limits alone.             *)
OnStreamError(kind) ==
  /\ RecordBanEvent(ClassifyError(kind))
  /\ applied' = FALSE
  /\ UNCHANGED limiterVars

OnReconnect ==
  /\ AdaptLimits(Multiplier)
  /\ applied' = TRUE
  /\ UNCHANGED <<admitted, sendingVars, banVars>>

(* Calls on ab.BanRecovery alone.                                           *)
RecoveryCall ==
  /\ Tick \/ Reset \/ GetStatus \/ DayPasses
  /\ UNCHANGED <<limiterVars, applied>>

Init ==
  /\ LimiterInit
  /\ BanInit
  /\ applied = TRUE

Next ==
  \/ LimiterNext /\ UNCHANGED <<banVars, applied>>
  \/ \E l \in Loop, kind \in ErrorKinds : AfterSendFailed(l, kind)
  \/ \E kind \in ErrorKinds : OnStreamError(kind)
  \/ OnReconnect
  \/ RecoveryCall

Spec == Init /\ [][Next]_vars

-----------------------------------------------------------------------------
(* Every variable has its type.                                             *)
TypeOK ==
  /\ LimiterTypeOK
  /\ phase \in Phases
  /\ banEvents \in Seq(0 .. Month)
  /\ Len(banEvents) <= MaxEvents
  /\ rampDay \in 0 .. 8
  /\ applied \in BOOLEAN

(* Once the multiplier of the last ban has been applied, by the failed send *)
(* itself or by the reconnect after a stream error, the limits stay within  *)
(* that share of the preset's, whatever the later calls do to the phase.    *)
ThrottleApplied ==
  applied => \A w \in DOMAIN limits :
               AtMost(<<limits[w], 1>>,
                      <<Preset[w] * ClampFactor(Multiplier)[1], ClampFactor(Multiplier)[2]>>)

(* AdaptLimits divides the delays by what it multiplies the caps with, at   *)
(* every failed send and every reconnect, without end.  As long as the      *)
(* day's cap still lets a message through they stay below a bound that the  *)
(* preset gives, far from where the conversion to nanoseconds overflows.    *)
DelayBounded == limits.day > 0 => delays.max <= MaxPerDay * MaxDelay

(* Recovery ramps up and never down: no Tick lowers the multiplier, at any  *)
(* of the phase changes.                                                    *)
RampNeverFalls == [][Tick => AtMost(Multiplier, NewMultiplier)]_vars

(* A month without a ban forgives: an account whose recorded events are all *)
(* older is not declared dead by its next ban alone.                        *)
OldBansForgiven ==
  [][(phase' = "dead" /\ phase # "dead")
       => Cardinality(Within(banEvents, Month)) + 1 >= MaxBansBeforeHard]_vars

(* ban_recovery.go:15, "manages the phased recovery from ban events,        *)
(* gradually ramping up messaging activity after a ban": an account that    *)
(* has been through the ramp has the limits of its preset again.            *)
RampsUp == (phase = "graduated" /\ rampDay > 7) => limits = Preset
=============================================================================
