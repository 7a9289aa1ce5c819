---------------------------- MODULE MCBeforeSend ----------------------------
(* The address book and the checks of BeforeSend for TLC, side by side: one *)
(* of the parts is chosen at the start and runs alone.                      *)
EXTENDS LidResolver, Calendar, Admission, TimelockLift, ReconnectThrottle

VARIABLE part

ownCalendarVars == <<warmUpVars, hour, loop, sentToday, granted, daysUp>>
ownThrottleVars == <<reconnectAt, rampAge, slowest>>
lifts == <<lifter, errors, awaited, spurious, overtaken>>
parts == <<part, vars, calendarVars, admissionVars, lifts, throttleVars>>
beyondLock == <<contactVars, destroyed, sender, slipVars>>

PartsInit ==
  /\ part \in {"addresses", "calendar", "admission", "lift", "throttle"}
  /\ Init /\ CalendarInit /\ AdmissionInit /\ LiftInit /\ ThrottleInit
  /\ part # "calendar" => hour = 0 /\ growth = 0

Addresses(A) ==
  part = "addresses" /\ A /\ UNCHANGED <<part, calendarVars, admissionVars, lifts, ownThrottleVars>>
InCalendar(A) ==
  part = "calendar" /\ A /\ UNCHANGED <<part, vars, admissionVars, lifts, ownThrottleVars>>
InAdmission(A) ==
  part = "admission" /\ A /\ UNCHANGED <<part, vars, calendarVars, lifts, ownThrottleVars>>
Lifting(A) ==
  part = "lift" /\ A /\ UNCHANGED <<part, vars, calendarVars, beyondLock, ownThrottleVars>>
Throttle(A) ==
  part = "throttle" /\ A /\ UNCHANGED <<part, vars, ownCalendarVars, admissionVars, lifts>>

PartsNext ==
  \/ Addresses(Next) \/ InCalendar(CalendarNext) \/ InAdmission(AdmissionNext)
  \/ Lifting(LiftNext) \/ Throttle(ThrottleNext)

(* Time passes, and a goroutine of TimelockGuard that can run does.         *)
PartsSpec ==
  /\ PartsInit /\ [][PartsNext]_parts
  /\ WF_parts(Lifting(LiftTick))
  /\ \A g \in Lifter : WF_parts(Lifting(LifterStep(g)))

=============================================================================
