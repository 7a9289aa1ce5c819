------------------------------ MODULE Scheduler -----------------------------
(***************************************************************************)
(* Scheduler of scheduler.go: the active hours of a day, which may run     *)
(* over midnight, and the wait until they begin.  The days of the week     *)
(* change only the speed, never the answer, and the speed only how long a  *)
(* delay is, so both are left out.                                         *)
(***************************************************************************)
EXTENDS Integers

CONSTANTS
  HoursPerDay,     \* 24
  ActiveHourStart, \* cfg.ActiveHourStart
  ActiveHourEnd    \* cfg.ActiveHourEnd, not itself active

ASSUME SchedulerAssumption ==
  /\ HoursPerDay \in Nat \ {0}
  /\ ActiveHourStart \in 0 .. HoursPerDay - 1
  /\ ActiveHourEnd \in 0 .. HoursPerDay
  /\ ActiveHourStart # ActiveHourEnd

Hour == 0 .. HoursPerDay - 1

isActiveTime(hour) ==
  IF ActiveHourStart <= ActiveHourEnd
  THEN hour >= ActiveHourStart /\ hour < ActiveHourEnd
  ELSE hour >= ActiveHourStart \/ hour < ActiveHourEnd

(* Variant: the next start is always today's.                               *)
UntilActiveToday(hour) ==
  IF ActiveHourStart > hour THEN ActiveHourStart - hour ELSE 1

(* MsUntilActive at an hour that is not active: today's start if it is      *)
(* still to come, else tomorrow's.  The code adds 24 hours for tomorrow's,  *)
(* which is the same hour as long as the clock is not changed in between.   *)
MsUntilActive(hour) ==
  IF ActiveHourStart > hour THEN ActiveHourStart - hour
  ELSE ActiveHourStart + HoursPerDay - hour
=============================================================================
