-------------------------- MODULE ReconnectThrottle -------------------------
(***************************************************************************)
(* PostReconnectThrottle of reconn_throttle.go: after a reconnect the      *)
(* delay between messages begins high and falls along a ramp.  BeforeSend  *)
(* notices the end of the ramp only when it is asked.  The ramp is built   *)
(* on the shared minimal delay, which AdaptLimits raises at the reconnect  *)
(* itself and at every failed send within the ramp.  The counters that     *)
(* GetStats shows and the time of the disconnect, which nothing reads, are *)
(* left out.                                                               *)
(***************************************************************************)
EXTENDS SharedConfig

CONSTANTS
  RampDuration, \* cfg.ReconnectRampDuration, in ticks
  InitialRate   \* cfg.ReconnectInitialRate, in per cent

ASSUME ThrottleAssumption ==
  /\ RampDuration \in Nat \ {0} /\ InitialRate \in 1 .. 100

VARIABLES
  reconnectAt, \* ticks since prt.reconnectAt, -1 when that is zero
  rampAge,     \* history: ticks since the last reconnect, up to RampDuration
  slowest      \* history: the delay that no message may exceed until the ramp starts over
               \* or the delays are stretched

throttleVars == <<limits, delays, reconnectAt, rampAge, slowest>>

(* Variant: the multiplier falls instead of rising.                         *)
idealDelayFalling(minDelay, elapsed) ==
  (minDelay * 100 * RampDuration)
    \div (100 * RampDuration - (100 - InitialRate) * elapsed)

(* cfg.MinDelayMs / multiplier, elapsed ticks into the ramp.                *)
idealDelay(minDelay, elapsed) ==
  (minDelay * 100 * RampDuration)
    \div (InitialRate * RampDuration + (100 - InitialRate) * elapsed)

(* The delay BeforeSend answers.                                            *)
ThrottleDelay ==
  IF reconnectAt \in 0 .. RampDuration - 1 THEN idealDelay(delays.min, reconnectAt) ELSE 0

(* AntiBan.OnReconnect: the ramp starts over and the delays are stretched.  *)
OnReconnect ==
  /\ reconnectAt' = 0
  /\ \E f \in Factors : AdaptDelays(f)
  /\ rampAge' = 0 /\ slowest' = idealDelay(delays'.min, 0)
  /\ UNCHANGED limits

(* AfterSendFailed stretches the delays at any time.                        *)
DelaysStretched ==
  /\ \E f \in Factors : AdaptDelays(f)
  /\ slowest' = IF rampAge < RampDuration THEN idealDelay(delays'.min, rampAge) ELSE slowest
  /\ UNCHANGED <<limits, reconnectAt, rampAge>>

ThrottleBeforeSend ==
  /\ reconnectAt' = IF reconnectAt >= RampDuration THEN -1 ELSE reconnectAt
  /\ slowest' = IF ThrottleDelay < slowest THEN ThrottleDelay ELSE slowest
  /\ UNCHANGED <<limits, delays, rampAge>>

(* Destroy ends the ramp.                                                   *)
ThrottleDestroy ==
  /\ reconnectAt' = -1
  /\ rampAge' = RampDuration
  /\ UNCHANGED <<limits, delays, slowest>>

ThrottleTick ==
  /\ reconnectAt' = IF reconnectAt \in 0 .. RampDuration - 1 THEN reconnectAt + 1 ELSE reconnectAt
  /\ rampAge' = IF rampAge < RampDuration THEN rampAge + 1 ELSE rampAge
  /\ UNCHANGED <<limits, delays, slowest>>

ThrottleInit ==
  /\ limits = Preset /\ delays = PresetDelays
  /\ reconnectAt = -1 /\ rampAge = RampDuration /\ slowest = 0

ThrottleNext ==
  OnReconnect \/ DelaysStretched \/ ThrottleBeforeSend \/ ThrottleDestroy \/ ThrottleTick

ThrottleSpec == ThrottleInit /\ [][ThrottleNext]_throttleVars

-----------------------------------------------------------------------------
(* Whenever BeforeSend is asked: during the ramp of the latest reconnect it *)
(* answers at least the minimal delay of the moment, and never more than it *)
(* answered since the ramp began or the delays were last stretched; after   *)
(* the ramp it answers no delay, however often reconnects started it over.  *)
ThrottleHolds ==
  IF rampAge < RampDuration THEN ThrottleDelay \in delays.min .. slowest ELSE ThrottleDelay = 0
=============================================================================
