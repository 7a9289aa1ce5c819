---------------------------- MODULE SharedConfig ----------------------------
(***************************************************************************)
(* The fields of the configuration that change while the program runs.     *)
(* antiban.New gives RateLimiter, WarmUp and PostReconnectThrottle the     *)
(* address of the same Config, and RateLimiter.AdaptLimits scales its caps *)
(* and its delays in place: what one of them calls its limit is changed    *)
(* under the others.                                                       *)
(***************************************************************************)
EXTENDS Integers

CONSTANTS
  MaxPerMinute, MaxPerHour, MaxPerDay, \* caps of the preset
  MinDelay, MaxDelay,                  \* delays of the preset, cfg.MinDelayMs and cfg.MaxDelayMs
  DelayCap                             \* bound: longer delays are not told apart

ASSUME LimitsAssumption ==
  /\ MaxPerMinute \in Nat /\ MaxPerHour \in Nat /\ MaxPerDay \in Nat
  /\ DelayCap \in Nat /\ MinDelay \in 0 .. DelayCap /\ MaxDelay \in 0 .. DelayCap

VARIABLES
  limits, \* cfg.MaxPerMinute, cfg.MaxPerHour and cfg.MaxPerDay
  delays  \* cfg.MinDelayMs and cfg.MaxDelayMs

Preset == [minute |-> MaxPerMinute, hour |-> MaxPerHour, day |-> MaxPerDay]
PresetDelays == [min |-> MinDelay, max |-> MaxDelay]

(* What GetRateMultiplier of the ban recovery answers, in some phase and on *)
(* some day of its ramp, as <<num, den>>.                                   *)
Factors == {<<0, 1>>, <<1, 4>>, <<1, 1>>} \cup {<<7 + 3 * d, 28>> : d \in 0 .. 7}

(* AdaptLimits clamps its factor to 1/10 .. 1; int() truncates.             *)
ClampFactor(f) ==
  IF 10 * f[1] < f[2] THEN <<1, 10>> ELSE IF f[1] > f[2] THEN <<1, 1>> ELSE f

(* Variant: a cap never falls to zero.                                      *)
ScaleAtLeastOne(n, f) == IF n * f[1] < f[2] THEN 1 ELSE (n * f[1]) \div f[2]

Scale(n, f) == (n * f[1]) \div f[2]

Stretch(n, f) ==
  LET longer == (n * f[2]) \div f[1] IN IF longer > DelayCap THEN DelayCap ELSE longer

AdaptCaps(f) == limits' = [w \in DOMAIN limits |-> Scale(limits[w], ClampFactor(f))]
AdaptDelays(f) == delays' = [w \in DOMAIN delays |-> Stretch(delays[w], ClampFactor(f))]

AdaptLimits(f) == AdaptCaps(f) /\ AdaptDelays(f)
=============================================================================
