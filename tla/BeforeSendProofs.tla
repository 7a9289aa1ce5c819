-------------------------- MODULE BeforeSendProofs --------------------------
(***************************************************************************)
(* The checks of BeforeSend, for all configurations and any number of      *)
(* loops, chats and goroutines: the active hours and the warm-up           *)
(* (Calendar), the chats that are refused (Admission), the announcement    *)
(* that a time lock is over (TimelockLift) and the ramp after a reconnect  *)
(* (ReconnectThrottle).                                                    *)
(*                                                                         *)
(* WakesInActiveHours is not inductive: active hours are many, and an hour *)
(* later the message could wake after their end.  DueAtStart says that it  *)
(* wakes exactly at their start, of this day or of the next, and bounds    *)
(* the sleep, so that midnight comes at most once in it.                   *)
(*                                                                         *)
(* NeverAhead is not inductive either: a day that has turned and is not    *)
(* yet counted may be counted at any time.  Behind counts it beforehand.   *)
(***************************************************************************)
EXTENDS Calendar, Admission, TimelockLift, ReconnectThrottle, FiniteSetTheorems, TLAPS

Place == {"idle", "asleep", "blocked", "sending"}

(* What the sleep of a message needs.                                       *)
DueAtStart ==
  /\ hour \in Hour
  /\ loop \in [Loop -> [at : Place, hours : 0 .. HoursPerDay]]
  /\ \A l \in Loop : loop[l].at = "asleep" =>
       hour + loop[l].hours \in {ActiveHourStart, ActiveHourStart + HoursPerDay}

(* What the pace of the warm-up needs.                                      *)
Behind ==
  /\ day \in 1 .. WarmUpDays /\ daysUp \in 0 .. WarmUpDays /\ newDay \in BOOLEAN
  /\ day - 1 <= daysUp
  /\ newDay => NextDay(day) - 1 <= daysUp

-----------------------------------------------------------------------------
(* The hours of two days, as hours of a day.                                *)
LEMMA HourOfDay ==
  ASSUME NEW h \in Hour
  PROVE  h % HoursPerDay = h /\ (h + HoursPerDay) % HoursPerDay = h
  BY SchedulerAssumption, SMTT(30) DEF Hour

(* The next hour is one later, or it is midnight.                           *)
LEMMA NextHour ==
  ASSUME NEW h \in Hour
  PROVE  IF h = HoursPerDay - 1 THEN (h + 1) % HoursPerDay = 0
         ELSE (h + 1) % HoursPerDay = h + 1 /\ h + 1 \in Hour
<1>1. CASE h = HoursPerDay - 1
  <2>1. 0 \in Hour /\ h + 1 = 0 + HoursPerDay
    BY <1>1, SchedulerAssumption DEF Hour
  <2> QED
    BY <1>1, <2>1, HourOfDay
<1>2. CASE h # HoursPerDay - 1
  <2>1. h + 1 \in Hour
    BY <1>2, SchedulerAssumption DEF Hour
  <2> QED
    BY <1>2, <2>1, HourOfDay
<1> QED
  BY <1>1, <1>2

(* Active hours begin with their start.                                     *)
LEMMA StartIsActive ==
  /\ ActiveHourStart \in Hour
  /\ isActiveTime(ActiveHourStart)
  BY SchedulerAssumption DEF Hour, isActiveTime

(* A loop that goes anywhere but to sleep leaves the others' sleep alone.   *)
LEMMA GoesAwake ==
  ASSUME DueAtStart, UNCHANGED hour, NEW l \in Loop, NEW p \in Place \ {"asleep"}, Goes(l, p, 0)
  PROVE  DueAtStart'
<1>1. 0 \in 0 .. HoursPerDay
  BY SchedulerAssumption
<1> QED
  BY <1>1 DEF DueAtStart, Goes, Place

(* BeforeSend: a refusal for the hour sleeps until the start.               *)
LEMMA AttemptDue ==
  ASSUME DueAtStart, NEW l \in Loop, BeforeSend(l)
  PROVE  DueAtStart'
<1>0. UNCHANGED hour
  BY DEF BeforeSend
<1>1. CASE \E p \in Place \ {"asleep"} : Goes(l, p, 0)
  BY <1>0, <1>1, GoesAwake
<1>2. CASE Goes(l, "asleep", MsUntilActive(hour)) /\ ~isActiveTime(hour)
  <2>1. /\ MsUntilActive(hour) \in 0 .. HoursPerDay
        /\ hour + MsUntilActive(hour) \in {ActiveHourStart, ActiveHourStart + HoursPerDay}
    BY SchedulerAssumption DEF DueAtStart, Hour, MsUntilActive
  <2> QED
    BY <1>0, <1>2, <2>1 DEF DueAtStart, Goes, Place
<1> QED
  BY <1>1, <1>2 DEF BeforeSend, Refused, Place

(* An hour passes: a sleeping message comes an hour nearer, and the start   *)
(* of tomorrow becomes the start of today at midnight.                      *)
LEMMA HourDue ==
  ASSUME DueAtStart, HourPasses
  PROVE  DueAtStart'
<1>1. /\ hour \in Hour /\ hour' = (hour + 1) % HoursPerDay
      /\ loop \in [Loop -> [at : Place, hours : 0 .. HoursPerDay]]
      /\ loop' = [l \in Loop |-> [loop[l] EXCEPT !.hours = IF @ > 0 THEN @ - 1 ELSE @]]
  BY DEF DueAtStart, HourPasses
<1>2. hour' = (IF hour = HoursPerDay - 1 THEN 0 ELSE hour + 1) /\ hour' \in Hour
  BY <1>1, NextHour, SchedulerAssumption DEF Hour
<1>3. \A l \in Loop : loop'[l] = [at |-> loop[l].at,
                                  hours |-> IF loop[l].hours > 0 THEN loop[l].hours - 1 ELSE loop[l].hours]
  BY <1>1
<1>4. loop' \in [Loop -> [at : Place, hours : 0 .. HoursPerDay]]
  <2>1. \A l \in Loop : loop'[l] \in [at : Place, hours : 0 .. HoursPerDay]
    BY <1>1, <1>3, SchedulerAssumption
  <2> QED
    BY <1>1, <2>1
<1>5. ASSUME NEW l \in Loop, loop'[l].at = "asleep"
      PROVE  hour' + loop'[l].hours \in {ActiveHourStart, ActiveHourStart + HoursPerDay}
  <2> DEFINE n == loop[l].hours
  <2>1. loop[l].at = "asleep" /\ n \in 1 .. HoursPerDay /\ loop'[l].hours = n - 1
    BY <1>1, <1>3, <1>5, SchedulerAssumption DEF HourPasses
  <2>2. hour + n \in {ActiveHourStart, ActiveHourStart + HoursPerDay}
    BY <2>1 DEF DueAtStart
  <2>3. hour \in Hour
    BY <1>1
  <2> HIDE DEF n
  <2>4. hour' + (n - 1) \in {ActiveHourStart, ActiveHourStart + HoursPerDay}
    BY <1>2, <2>1, <2>2, <2>3, SchedulerAssumption DEF Hour
  <2> QED
    BY <2>1, <2>4
<1> QED
  BY <1>2, <1>4, <1>5 DEF DueAtStart

(* Every message that sleeps is due at the start of the active hours.       *)
THEOREM AlwaysDueAtStart == CalendarSpec => []DueAtStart
<1>1. CalendarInit => DueAtStart
  <2> SUFFICES ASSUME CalendarInit PROVE DueAtStart
    OBVIOUS
  <2>1. 0 \in 0 .. HoursPerDay
    BY SchedulerAssumption
  <2> QED
    BY <2>1 DEF CalendarInit, DueAtStart, Place
<1>2. DueAtStart /\ [CalendarNext]_calendarVars => DueAtStart'
  <2> SUFFICES ASSUME DueAtStart, [CalendarNext]_calendarVars PROVE DueAtStart'
    OBVIOUS
  <2>1. ASSUME NEW l \in Loop, BeforeSend(l) PROVE DueAtStart'
    BY <2>1, AttemptDue
  <2>2. ASSUME NEW l \in Loop, AfterSend(l) \/ GivesUp(l) \/ SendFails(l) PROVE DueAtStart'
    <3>1. Goes(l, "idle", 0) /\ UNCHANGED hour
      BY <2>2 DEF AfterSend, GivesUp, SendFails
    <3> QED
      BY <3>1, GoesAwake DEF Place
  <2>3. CASE HourPasses
    BY <2>3, HourDue
  <2>4. CASE UNCHANGED <<hour, loop>>
    BY <2>4 DEF DueAtStart
  <2> QED
    BY <2>1, <2>2, <2>3, <2>4 DEF CalendarNext, BeforeSendAtTheTurn, Reconnected, ResetWarmUp, calendarVars
<1> QED
  BY <1>1, <1>2, PTL DEF CalendarSpec

(* The delay that BeforeSend gives a message outside the active hours ends  *)
(* inside them, for all active hours, also those that run over midnight.    *)
THEOREM SleepsUntilActive == CalendarSpec => []WakesInActiveHours
<1>1. DueAtStart => WakesInActiveHours
  <2> SUFFICES ASSUME DueAtStart, NEW l \in Loop, loop[l].at = "asleep"
               PROVE  isActiveTime((hour + loop[l].hours) % HoursPerDay)
    BY DEF WakesInActiveHours
  <2>1. (hour + loop[l].hours) % HoursPerDay = ActiveHourStart
    BY StartIsActive, HourOfDay DEF DueAtStart
  <2> QED
    BY <2>1, StartIsActive
<1> QED
  BY <1>1, AlwaysDueAtStart, PTL

-----------------------------------------------------------------------------
(* CanSend of the warm-up keeps the pace, and counts a day only once.       *)
LEMMA CanSendBehind ==
  ASSUME Behind, NEW a, WarmUpCanSend(a),
         daysUp' = IF idleFor > InactivityTD THEN 0 ELSE daysUp
  PROVE  Behind'
<1>1. day' = (IF idleFor > InactivityTD THEN 1 ELSE IF newDay THEN NextDay(day) ELSE day)
      /\ newDay' = FALSE
  BY DEF WarmUpCanSend, Behind
<1>2. day' \in 1 .. WarmUpDays /\ daysUp' \in 0 .. WarmUpDays /\ day' - 1 <= daysUp'
  <2>1. CASE newDay
    BY <1>1, <2>1, WarmUpAssumption DEF Behind, NextDay
  <2>2. CASE ~newDay
    BY <1>1, <2>2, WarmUpAssumption DEF Behind
  <2> QED
    BY <2>1, <2>2
<1> QED
  BY <1>1, <1>2, Zenon DEF Behind

(* A warm-up on its first day, as NewWarmUp and Reset leave it, keeps pace. *)
LEMMA FirstDay ==
  /\ (day = 1 /\ newDay = FALSE /\ daysUp = 0 => Behind)
  /\ (day' = 1 /\ newDay' = FALSE /\ daysUp' = 0 => Behind')
<1>1. 1 \in 1 .. WarmUpDays /\ 0 \in 0 .. WarmUpDays /\ 1 - 1 <= 0
  BY WarmUpAssumption
<1> QED
  BY <1>1, Zenon DEF Behind

(* At midnight the calendar moves on, and one more day may be counted.      *)
LEMMA HourBehind ==
  ASSUME Behind, HourPasses
  PROVE  Behind'
<1>1. UNCHANGED day /\ newDay' = (newDay \/ hour' = 0)
      /\ daysUp' = IF hour' = 0 THEN NextDay(daysUp) ELSE daysUp
  BY DEF HourPasses, WarmUpHour
<1>2. CASE hour' = 0
  BY <1>1, <1>2, WarmUpAssumption DEF Behind, NextDay
<1>3. CASE hour' # 0
  <2>1. newDay' = newDay /\ daysUp' = daysUp
    BY <1>1, <1>3 DEF Behind
  <2> QED
    BY <1>1, <2>1 DEF Behind, NextDay
<1> QED
  BY <1>2, <1>3

(* The warm-up's day number follows the calendar days since it began, for   *)
(* all configurations and however many loops ask it.                        *)
THEOREM NeverAheadOfTheCalendar == CalendarSpec => []NeverAhead
<1>1. CalendarInit => Behind
  BY FirstDay DEF CalendarInit, WarmUpInit
<1>2. Behind /\ [CalendarNext]_calendarVars => Behind'
  <2> SUFFICES ASSUME Behind, [CalendarNext]_calendarVars PROVE Behind'
    OBVIOUS
  <2>1. ASSUME NEW l \in Loop, BeforeSend(l) PROVE Behind'
    <3>1. CASE UNCHANGED <<warmUpVars, daysUp>>
      BY <3>1 DEF Behind, warmUpVars, NextDay
    <3>2. CASE /\ daysUp' = IF idleFor > InactivityTD THEN 0 ELSE daysUp
               /\ WarmUpCanSend(FALSE) \/ WarmUpCanSend(TRUE)
      BY <3>2, CanSendBehind
    <3> QED
      BY <2>1, <3>1, <3>2 DEF BeforeSend
  <2>2. CASE UNCHANGED <<day, newDay, daysUp>>
    BY <2>2 DEF Behind, NextDay
  <2>3. CASE ResetWarmUp
    BY <2>3, FirstDay DEF ResetWarmUp, WarmUpReset
  <2>4. CASE HourPasses
    BY <2>4, HourBehind
  <2> QED
    BY <2>1, <2>2, <2>3, <2>4
    DEF CalendarNext, BeforeSendAtTheTurn, AfterSend, GivesUp, SendFails, Reconnected, WarmUpRecord,
        calendarVars, warmUpVars
<1>3. Behind => NeverAhead
  BY DEF Behind, NeverAhead
<1> QED
  BY <1>1, <1>2, <1>3, PTL DEF CalendarSpec

-----------------------------------------------------------------------------
(* What AdaptLimits does to the shared configuration.                       *)

(* A clamped factor is a positive fraction.                                 *)
LEMMA FactorType ==
  ASSUME NEW f \in Factors
  PROVE  \E n \in Nat \ {0}, q \in Nat \ {0} : ClampFactor(f) = <<n, q>>
<1>1. CASE f \in {<<0, 1>>, <<1, 4>>, <<1, 1>>}
  <2>1. ClampFactor(f) \in {<<1, 10>>, <<1, 4>>, <<1, 1>>}
    BY <1>1 DEF ClampFactor
  <2> QED BY <2>1
<1>2. ASSUME NEW d \in 0 .. 7, f = <<7 + 3 * d, 28>>
      PROVE  ClampFactor(f) = <<7 + 3 * d, 28>> /\ 7 + 3 * d \in Nat \ {0}
  BY <1>2 DEF ClampFactor
<1> QED BY <1>1, <1>2 DEF Factors

LimitsType == limits \in [{"minute", "hour", "day"} -> Nat]
DelaysType == delays \in [{"min", "max"} -> Nat]

(* Scaled caps are caps.                                                    *)
LEMMA CapsAdapt ==
  ASSUME LimitsType, NEW f \in Factors, AdaptCaps(f)
  PROVE  LimitsType'
<1>1. PICK n \in Nat \ {0}, q \in Nat \ {0} : ClampFactor(f) = <<n, q>>
  BY FactorType
<1>2. ASSUME NEW c \in Nat PROVE Scale(c, <<n, q>>) \in Nat
  <2>1. PICK cn \in Nat : cn = c * n
    OBVIOUS
  <2> QED BY <2>1 DEF Scale
<1> QED BY <1>1, <1>2 DEF AdaptCaps, LimitsType

(* Stretched delays are delays.                                             *)
LEMMA DelaysAdapt ==
  ASSUME DelaysType, NEW f \in Factors, AdaptDelays(f)
  PROVE  DelaysType'
<1>1. PICK n \in Nat \ {0}, q \in Nat \ {0} : ClampFactor(f) = <<n, q>>
  BY FactorType
<1>2. ASSUME NEW m \in Nat PROVE Stretch(m, <<n, q>>) \in Nat
  <2>1. PICK mq \in Nat : mq = m * q
    OBVIOUS
  <2>2. mq \div n \in Nat
    OBVIOUS
  <2> QED BY <2>1, <2>2, LimitsAssumption DEF Stretch
<1> QED BY <1>1, <1>2 DEF AdaptDelays, DelaysType

-----------------------------------------------------------------------------
(* PostReconnectThrottle.                                                   *)

(* The quotient of naturals.                                                *)
LEMMA Quotient ==
  ASSUME NEW a \in Nat, NEW d \in Nat \ {0}
  PROVE  /\ a \div d \in Nat
         /\ (a \div d) * d <= a
         /\ \A q \in Nat : q * d <= a => q <= a \div d
  OBVIOUS

(* A larger divisor makes the quotient smaller.                             *)
LEMMA LargerDivisor ==
  ASSUME NEW a \in Nat, NEW d \in Nat \ {0}, NEW e \in Nat, d <= e
  PROVE  a \div e <= a \div d
<1>1. PICK q \in Nat : q = a \div e /\ q * e <= a
  BY Quotient
<1>2. q * d <= q * e
  BY <1>1
<1>3. q * d <= a
  BY <1>1, <1>2
<1> QED
  BY <1>1, <1>3, Quotient

(* The delay at each point of the ramp: never below the minimal delay m,    *)
(* and falling.                                                             *)
LEMMA RampFalls ==
  ASSUME NEW m \in Nat, NEW t \in 0 .. RampDuration
  PROVE  /\ idealDelay(m, t) \in Nat /\ m <= idealDelay(m, t)
         /\ t < RampDuration => idealDelay(m, t + 1) <= idealDelay(m, t)
<1> DEFINE a == m * 100 * RampDuration
           d(s) == InitialRate * RampDuration + (100 - InitialRate) * s
<1>1. a \in Nat
  BY ThrottleAssumption
<1>2. ASSUME NEW s \in Nat PROVE d(s) \in Nat \ {0} /\ d(s) <= d(s + 1)
  <2>1. InitialRate * RampDuration \in Nat \ {0}
    BY ThrottleAssumption
  <2>2. (100 - InitialRate) * s \in Nat /\ (100 - InitialRate) * s <= (100 - InitialRate) * (s + 1)
    BY ThrottleAssumption
  <2> QED
    BY <2>1, <2>2, ThrottleAssumption
<1>3. m * d(t) <= a
  <2>1. (100 - InitialRate) * t <= (100 - InitialRate) * RampDuration
    BY ThrottleAssumption
  <2>2. (100 - InitialRate) * RampDuration = 100 * RampDuration - InitialRate * RampDuration
    BY ThrottleAssumption
  <2>3. d(t) <= 100 * RampDuration
    BY <2>1, <2>2, ThrottleAssumption
  <2>4. d(t) \in Nat
    BY <1>2, ThrottleAssumption
  <2> HIDE DEF d
  <2>5. m * d(t) <= m * (100 * RampDuration)
    BY <2>3, <2>4, ThrottleAssumption
  <2> QED
    BY <2>5, ThrottleAssumption
<1>4. idealDelay(m, t) = a \div d(t) /\ idealDelay(m, t + 1) = a \div d(t + 1)
  BY DEF idealDelay
<1>5. t \in Nat /\ t + 1 \in Nat
  BY ThrottleAssumption
<1> HIDE DEF a, d
<1>6. d(t) \in Nat \ {0} /\ d(t + 1) \in Nat \ {0} /\ d(t) <= d(t + 1)
  BY <1>2, <1>5
<1>7. idealDelay(m, t) \in Nat /\ m <= idealDelay(m, t)
  BY <1>1, <1>3, <1>4, <1>6, Quotient, ThrottleAssumption
<1>8. idealDelay(m, t + 1) <= idealDelay(m, t)
  BY <1>1, <1>4, <1>6, LargerDivisor
<1> QED
  BY <1>7, <1>8

(* reconnectAt follows the age of the ramp as long as it lasts; afterwards  *)
(* it is zero, or the next BeforeSend will clear it.                        *)
RampInv ==
  /\ DelaysType
  /\ rampAge \in 0 .. RampDuration /\ reconnectAt \in -1 .. RampDuration /\ slowest \in Int
  /\ rampAge < RampDuration => reconnectAt = rampAge /\ idealDelay(delays.min, rampAge) <= slowest
  /\ rampAge = RampDuration => reconnectAt \in {-1, RampDuration}

(* Whenever it is asked after a reconnect, BeforeSend slows down as much as *)
(* the ramp says on the minimal delay of the moment, and never more than    *)
(* since that was last stretched, for all ramps and rates and however       *)
(* AdaptLimits stretches the delays in between.                             *)
THEOREM RampHolds == ThrottleSpec => []ThrottleHolds
<1>1. ThrottleInit => RampInv
  <2> SUFFICES ASSUME ThrottleInit PROVE RampInv
    OBVIOUS
  <2>1. DelaysType
    BY LimitsAssumption DEF ThrottleInit, PresetDelays, DelaysType
  <2> QED
    BY <2>1, ThrottleAssumption DEF ThrottleInit, RampInv
<1>2. RampInv /\ [ThrottleNext]_throttleVars => RampInv'
  <2> SUFFICES ASSUME RampInv, [ThrottleNext]_throttleVars PROVE RampInv'
    OBVIOUS
  <2>0. \A m \in Nat, t \in 0 .. RampDuration : idealDelay(m, t) \in Nat
    BY RampFalls
  <2>1. ASSUME NEW f \in Factors, AdaptDelays(f)
        PROVE  /\ DelaysType'
               /\ \A t \in 0 .. RampDuration : idealDelay(delays'.min, t) \in Nat
    <3>1. DelaysType'
      BY <2>1, DelaysAdapt DEF RampInv
    <3>2. delays'.min \in Nat
      BY <3>1 DEF DelaysType
    <3> QED
      BY <2>0, <3>1, <3>2
  <2>2. CASE OnReconnect
    <3>1. 0 \in 0 .. RampDuration /\ 0 < RampDuration /\ 0 \in -1 .. RampDuration
      BY ThrottleAssumption
    <3>2. DelaysType' /\ idealDelay(delays'.min, 0) \in Nat
      BY <2>1, <2>2, <3>1 DEF OnReconnect
    <3>3. rampAge' = 0 /\ reconnectAt' = 0 /\ slowest' = idealDelay(delays'.min, 0)
      BY <2>2 DEF OnReconnect
    <3> QED
      BY <3>1, <3>2, <3>3 DEF RampInv
  <2>3. CASE DelaysStretched
    <3>1. /\ UNCHANGED <<reconnectAt, rampAge>>
          /\ slowest' = IF rampAge < RampDuration THEN idealDelay(delays'.min, rampAge) ELSE slowest
      BY <2>3 DEF DelaysStretched
    <3>2. DelaysType' /\ idealDelay(delays'.min, rampAge) \in Nat
      BY <2>1, <2>3 DEF DelaysStretched, RampInv
    <3> QED
      BY <3>1, <3>2 DEF RampInv
  <2>4. PICK m \in Nat : m = delays.min
    BY DEF RampInv, DelaysType
  <2>5. CASE ThrottleBeforeSend
    <3>1. ThrottleDelay \in Nat
      BY <2>0, <2>4, ThrottleAssumption DEF ThrottleDelay
    <3>2. rampAge < RampDuration => ThrottleDelay = idealDelay(m, rampAge)
      BY <2>4, ThrottleAssumption DEF RampInv, ThrottleDelay
    <3>3. DelaysType' /\ UNCHANGED <<delays, rampAge>>
      BY <2>5 DEF ThrottleBeforeSend, RampInv, DelaysType
    <3> QED
      BY <2>0, <2>4, <2>5, <3>1, <3>2, <3>3, ThrottleAssumption DEF ThrottleBeforeSend, RampInv
  <2>6. CASE ThrottleDestroy
    BY <2>6, ThrottleAssumption DEF ThrottleDestroy, RampInv, DelaysType
  <2>7. CASE ThrottleTick
    <3>0. DelaysType' /\ UNCHANGED delays
      BY <2>7 DEF ThrottleTick, RampInv, DelaysType
    <3>1. CASE rampAge = RampDuration
      BY <2>7, <3>0, <3>1, ThrottleAssumption DEF ThrottleTick, RampInv
    <3>2. CASE rampAge < RampDuration
      <4>1. /\ rampAge \in 0 .. RampDuration /\ reconnectAt = rampAge
            /\ rampAge' = rampAge + 1 /\ reconnectAt' = rampAge + 1 /\ slowest' = slowest
        BY <2>7, <3>2, ThrottleAssumption DEF ThrottleTick, RampInv
      <4>2. idealDelay(m, rampAge + 1) <= idealDelay(m, rampAge) /\ idealDelay(m, rampAge) <= slowest
        BY <2>4, <3>2, <4>1, RampFalls DEF RampInv
      <4>3. rampAge + 1 \in 0 .. RampDuration
        BY <3>2, <4>1, ThrottleAssumption
      <4>4. idealDelay(m, rampAge + 1) <= slowest
        BY <2>0, <4>1, <4>2, <4>3 DEF RampInv
      <4>5. slowest' \in Int
        BY <4>1 DEF RampInv
      <4> QED
        BY <2>4, <3>0, <4>1, <4>3, <4>4, <4>5, ThrottleAssumption DEF RampInv
    <3> QED
      BY <3>1, <3>2, ThrottleAssumption DEF RampInv
  <2>8. CASE UNCHANGED throttleVars
    BY <2>8 DEF throttleVars, RampInv, DelaysType
  <2> QED
    BY <2>2, <2>3, <2>5, <2>6, <2>7, <2>8 DEF ThrottleNext
<1>3. RampInv => ThrottleHolds
  <2> SUFFICES ASSUME RampInv PROVE ThrottleHolds
    OBVIOUS
  <2>1. CASE rampAge < RampDuration
    <3>0. PICK m \in Nat : m = delays.min
      BY DEF RampInv, DelaysType
    <3>1. ThrottleDelay = idealDelay(m, rampAge) /\ rampAge \in 0 .. RampDuration
      BY <2>1, <3>0, ThrottleAssumption DEF RampInv, ThrottleDelay
    <3>2. idealDelay(m, rampAge) \in Nat /\ m <= idealDelay(m, rampAge)
      BY <3>1, RampFalls
    <3> QED
      BY <2>1, <3>0, <3>1, <3>2, ThrottleAssumption DEF RampInv, ThrottleHolds
  <2>2. CASE rampAge = RampDuration
    BY <2>2, ThrottleAssumption DEF RampInv, ThrottleHolds, ThrottleDelay
  <2> QED
    BY <2>1, <2>2, ThrottleAssumption DEF RampInv
<1> QED
  BY <1>1, <1>2, <1>3, PTL DEF ThrottleSpec

-----------------------------------------------------------------------------
(* The goroutines autoLift of TimelockGuard.                                *)

LifterState ==
  [at : {"none", "started", "asleep", "checked"}, left : Int, same : BOOLEAN]

(* A goroutine that may still announce the end of a lock.                   *)
MayAnnounce(g) ==
  \/ lifter[g].at \in {"started", "checked"}
  \/ lifter[g].at = "asleep" /\ lifter[g].same

(* Unless a generation changed in one of the two gaps, one goroutine at     *)
(* most may announce, that of the last error, and only an end that is still *)
(* awaited.                                                                 *)
OneAnnouncer ==
  /\ \A g, h \in Lifter : MayAnnounce(g) /\ MayAnnounce(h) => g = h
  /\ \A g \in Lifter : MayAnnounce(g) => awaited

LiftInv ==
  /\ lifter \in [Lifter -> LifterState]
  /\ overtaken \in BOOLEAN /\ spurious \in BOOLEAN
  /\ ~overtaken => OneAnnouncer /\ ~spurious

(* No goroutine.                                                            *)
LEMMA NoLifterType ==
  NoLifter \in LifterState /\ NoLifter.at = "none"
  BY DEF NoLifter, LifterState

(* A goroutine that only goes on with what it was doing, or ends.           *)
LEMMA LifterMoves ==
  ASSUME LiftInv, NEW g \in Lifter, NEW e \in LifterState, lifter' = [lifter EXCEPT ![g] = e],
         e.at \in {"started", "checked"} \/ (e.at = "asleep" /\ e.same) => MayAnnounce(g),
         UNCHANGED <<awaited, spurious, overtaken>>
  PROVE  LiftInv'
<1>1. lifter' \in [Lifter -> LifterState] /\ lifter'[g] = e /\ \A h \in Lifter \ {g} : lifter'[h] = lifter[h]
  BY DEF LiftInv
<1>2. \A h \in Lifter : MayAnnounce(h)' => MayAnnounce(h)
  BY <1>1 DEF MayAnnounce
<1>3. ~overtaken => OneAnnouncer'
  BY <1>2 DEF LiftInv, OneAnnouncer
<1> QED
  BY <1>1, <1>3 DEF LiftInv

(* A new generation: what is asleep will not announce.                      *)
LEMMA Outdated ==
  ASSUME LiftInv
  PROVE  /\ NewGeneration \in [Lifter -> LifterState]
         /\ \A g \in Lifter : NewGeneration[g].at = lifter[g].at /\ NewGeneration[g].same = FALSE
  BY DEF LiftInv, NewGeneration, LifterState

(* An error starts a goroutine under a new generation.                      *)
LEMMA ErrorKeeps ==
  ASSUME LiftInv, NEW g \in Lifter, Error(g)
  PROVE  LiftInv'
<1> DEFINE e == [NoLifter EXCEPT !.at = "started"]
<1>1. e \in LifterState /\ e.at = "started"
  BY NoLifterType DEF LifterState
<1>2. /\ lifter' = [NewGeneration EXCEPT ![g] = e] /\ awaited' = TRUE /\ UNCHANGED spurious
      /\ overtaken' = (overtaken \/ \E h \in Lifter : lifter[h].at \in {"started", "checked"})
  BY DEF Error, Overtakes
<1> HIDE DEF e
<1>3. /\ lifter' \in [Lifter -> LifterState]
      /\ \A h \in Lifter \ {g} : lifter'[h].at = lifter[h].at /\ lifter'[h].same = FALSE
  BY <1>1, <1>2, Outdated
<1>4. ~overtaken' => \A h \in Lifter \ {g} : ~MayAnnounce(h)'
  BY <1>2, <1>3 DEF MayAnnounce
<1>5. ~overtaken' => OneAnnouncer'
  BY <1>2, <1>4 DEF OneAnnouncer
<1> QED
  BY <1>2, <1>3, <1>5 DEF LiftInv

(* Lift and Reset leave nobody to announce.                                 *)
LEMMA UnlockKeeps ==
  ASSUME LiftInv, Unlock
  PROVE  LiftInv'
<1>1. /\ lifter' = NewGeneration /\ UNCHANGED spurious
      /\ overtaken' = (overtaken \/ \E h \in Lifter : lifter[h].at \in {"started", "checked"})
  BY DEF Unlock, Overtakes
<1>2. ~overtaken' => \A h \in Lifter : ~MayAnnounce(h)'
  BY <1>1, Outdated DEF MayAnnounce
<1> QED
  BY <1>1, <1>2, Outdated DEF LiftInv, OneAnnouncer

(* A goroutine loads the generation, wakes or announces.                    *)
LEMMA LifterStepKeeps ==
  ASSUME LiftInv, NEW g \in Lifter, LifterStep(g)
  PROVE  LiftInv'
<1>0. /\ lifter \in [Lifter -> LifterState] /\ BlockDuration \in Int
      /\ NoLifter \in LifterState /\ NoLifter.at = "none"
  BY TimelockAssumption DEF LiftInv, NoLifter, LifterState
<1>1. CASE Loads(g)
  <2> DEFINE e == [lifter[g] EXCEPT !.at = "asleep", !.left = BlockDuration, !.same = TRUE]
  <2>1. e \in LifterState /\ lifter' = [lifter EXCEPT ![g] = e]
    BY <1>0, <1>1 DEF Loads, LifterState
  <2>2. MayAnnounce(g)
    BY <1>1 DEF Loads, MayAnnounce
  <2> HIDE DEF e
  <2> QED
    BY <1>1, <2>1, <2>2, LifterMoves DEF Loads
<1>2. CASE Wakens(g)
  <2>1. CASE lifter[g].same
    <3> DEFINE e == [lifter[g] EXCEPT !.at = "checked"]
    <3>1. e \in LifterState /\ lifter' = [lifter EXCEPT ![g] = e]
      BY <1>0, <1>2, <2>1 DEF Wakens, LifterState
    <3>2. MayAnnounce(g)
      BY <1>2, <2>1 DEF Wakens, MayAnnounce
    <3> HIDE DEF e
    <3> QED
      BY <1>2, <3>1, <3>2, LifterMoves DEF Wakens
  <2>2. CASE ~lifter[g].same
    BY <1>0, <1>2, <2>2, LifterMoves DEF Wakens
  <2> QED
    BY <2>1, <2>2
<1>3. CASE Announces(g)
  <2>1. CASE locked # 0
    BY <1>0, <1>3, <2>1, LifterMoves DEF Announces
  <2>2. CASE locked = 0
    <3>1. /\ lifter' \in [Lifter -> LifterState] /\ lifter'[g].at = "none"
          /\ \A h \in Lifter \ {g} : lifter'[h] = lifter[h]
      BY <1>0, <1>3 DEF Announces
    <3>2. MayAnnounce(g) /\ spurious' = (spurious \/ ~awaited) /\ overtaken' = overtaken
      BY <1>3, <2>2 DEF Announces, MayAnnounce
    <3>3. ~overtaken => ~spurious' /\ \A h \in Lifter : ~MayAnnounce(h)'
      BY <3>1, <3>2 DEF LiftInv, OneAnnouncer, MayAnnounce
    <3> QED
      BY <3>1, <3>2, <3>3 DEF LiftInv, OneAnnouncer
  <2> QED
    BY <2>1, <2>2
<1> QED
  BY <1>1, <1>2, <1>3 DEF LifterStep

(* Time brings a goroutine nearer to its wake-up and changes nothing else.  *)
LEMMA LiftTickKeeps ==
  ASSUME LiftInv, LiftTick
  PROVE  LiftInv'
<1>1. /\ lifter' = [g \in Lifter |-> [lifter[g] EXCEPT !.left = IF @ > 0 THEN @ - 1 ELSE 0]]
      /\ UNCHANGED <<awaited, spurious, overtaken>>
  BY DEF LiftTick
<1>2. lifter' \in [Lifter -> LifterState]
  BY <1>1 DEF LiftInv, LifterState
<1>3. \A g \in Lifter : lifter'[g].at = lifter[g].at /\ lifter'[g].same = lifter[g].same
  BY <1>1 DEF LiftInv, LifterState
<1>4. \A g \in Lifter : MayAnnounce(g)' <=> MayAnnounce(g)
  BY <1>3 DEF MayAnnounce
<1> QED
  BY <1>1, <1>2, <1>4 DEF LiftInv, OneAnnouncer

(* The end of a lock is announced falsely only through the two gaps around  *)
(* the generation, for any number of errors and goroutines.                 *)
THEOREM LiftsAreAwaited == LiftSpec => []NoSpuriousLift
<1>1. LiftInit => LiftInv
  <2> SUFFICES ASSUME LiftInit PROVE LiftInv
    OBVIOUS
  <2>1. lifter = [g \in Lifter |-> NoLifter] /\ overtaken = FALSE /\ spurious = FALSE
    BY DEF LiftInit
  <2>2. \A g \in Lifter : ~MayAnnounce(g)
    BY <2>1, NoLifterType DEF MayAnnounce
  <2> QED
    BY <2>1, <2>2, NoLifterType DEF LiftInv, OneAnnouncer
<1>2. LiftInv /\ [LiftNext]_liftVars => LiftInv'
  <2>1. LiftInv /\ UNCHANGED liftVars => LiftInv'
    BY DEF liftVars, LiftInv, OneAnnouncer, MayAnnounce
  <2> QED
    BY <2>1, ErrorKeeps, LifterStepKeeps, UnlockKeeps, LiftTickKeeps DEF LiftNext
<1>3. LiftInv => NoSpuriousLift
  BY DEF LiftInv, NoSpuriousLift
<1> QED
  BY <1>1, <1>2, <1>3, PTL DEF LiftSpec

-----------------------------------------------------------------------------
(* The chats that BeforeSend refuses.                                       *)

SenderState == [at : {"idle", "checking", "sending"}, chat : Chat \cup {NoChat}]

ContactState ==
  [state : {"none", "handshakeSent", "handshakeComplete", "known"}, count : Int, today : BOOLEAN]

AdmissionTypes ==
  /\ locked \in Nat /\ knownChats \subseteq Chat /\ destroyed \in BOOLEAN
  /\ contacts \in [Person -> ContactState] /\ lurking \in [Group -> Nat]
  /\ sender \in [Sender -> SenderState]
  /\ \A s \in Sender : sender[s].at # "idle" => sender[s].chat \in Chat
  /\ lockSlips \in Nat /\ lurkSlips \in [Group -> Nat] /\ lateSends \in Nat

(* The loops whose message a fresh check would refuse.                      *)
PastLock == {s \in Sender : sender[s].at = "sending" /\ sender[s].chat \notin knownChats}
PastLurk(g) == {s \in Sender : sender[s].at = "sending" /\ sender[s].chat = g}
PastDestroy == {s \in Sender : sender[s].at # "idle"}

(* While the refusal lasts nobody joins them, so that each message that     *)
(* slips uses up one of them.                                               *)
LockBudget ==
  /\ lockSlips <= Cardinality(Sender)
  /\ locked > 0 => lockSlips + Cardinality(PastLock) <= Cardinality(Sender)

LurkBudget(g) ==
  /\ lurkSlips[g] <= Cardinality(Sender)
  /\ lurking[g] > 0 => lurkSlips[g] + Cardinality(PastLurk(g)) <= Cardinality(Sender)

DestroyBudget ==
  IF destroyed THEN lateSends + Cardinality(PastDestroy) <= Cardinality(Sender) ELSE lateSends = 0

AdmissionInv ==
  AdmissionTypes /\ LockBudget /\ (\A g \in Group : LurkBudget(g)) /\ DestroyBudget

(* The loops are finitely many.                                             *)
LEMMA SenderCount ==
  ASSUME NEW S \in SUBSET Sender
  PROVE  IsFiniteSet(S) /\ Cardinality(S) \in Nat /\ Cardinality(S) <= Cardinality(Sender)
  BY SenderAssumption, FS_Subset, FS_CardinalityType

(* A step that lets one message slip takes its loop out of S; any other     *)
(* takes out what it likes.                                                 *)
LEMMA Budget ==
  ASSUME NEW S \in SUBSET Sender, NEW T \in SUBSET Sender, NEW n \in Nat, NEW m,
         n + Cardinality(S) <= Cardinality(Sender),
         \/ T \subseteq S /\ m = n
         \/ m = n + 1 /\ \E s \in S : T \subseteq S \ {s}
  PROVE  m \in Nat /\ m + Cardinality(T) <= Cardinality(Sender) /\ m <= Cardinality(Sender)
<1>0. Cardinality(S) \in Nat /\ Cardinality(T) \in Nat /\ Cardinality(Sender) \in Nat /\ IsFiniteSet(S)
  BY SenderCount
<1>1. CASE T \subseteq S /\ m = n
  <2>1. Cardinality(T) <= Cardinality(S)
    BY <1>0, <1>1, FS_Subset
  <2> QED
    BY <1>0, <1>1, <2>1
<1>2. ASSUME m = n + 1, NEW s \in S, T \subseteq S \ {s}
      PROVE  m \in Nat /\ m + Cardinality(T) <= Cardinality(Sender) /\ m <= Cardinality(Sender)
  <2>1. IsFiniteSet(S \ {s}) /\ Cardinality(S \ {s}) = Cardinality(S) - 1
    BY <1>0, FS_RemoveElement
  <2>2. Cardinality(T) <= Cardinality(S \ {s})
    BY <1>2, <2>1, FS_Subset
  <2> QED
    BY <1>0, <1>2, <2>1, <2>2
<1> QED
  BY <1>1, <1>2

(* A step that counts no slip and begins no refusal, on which no loop gets  *)
(* past a check that now refuses.                                           *)
LEMMA NoSlip ==
  ASSUME AdmissionInv, AdmissionTypes', UNCHANGED <<lockSlips, lurkSlips, lateSends, destroyed>>,
         locked' > 0 => locked > 0 /\ PastLock' \subseteq PastLock,
         \A g \in Group : lurking'[g] > 0 => lurking[g] > 0 /\ PastLurk(g)' \subseteq PastLurk(g),
         destroyed => PastDestroy' \subseteq PastDestroy
  PROVE  AdmissionInv'
<1>1. LockBudget'
  <2>1. CASE locked' > 0
    <3>1. /\ PastLock \in SUBSET Sender /\ PastLock' \in SUBSET Sender /\ PastLock' \subseteq PastLock
          /\ lockSlips + Cardinality(PastLock) <= Cardinality(Sender) /\ lockSlips \in Nat
      BY <2>1 DEF AdmissionInv, AdmissionTypes, LockBudget, PastLock
    <3>2. lockSlips + Cardinality(PastLock') <= Cardinality(Sender)
      BY <3>1, Budget
    <3> QED
      BY <3>2 DEF AdmissionInv, LockBudget
  <2>2. CASE ~(locked' > 0)
    BY <2>2 DEF AdmissionInv, LockBudget
  <2> QED
    BY <2>1, <2>2
<1>2. ASSUME NEW g \in Group PROVE LurkBudget(g)'
  <2>1. CASE lurking'[g] > 0
    <3>1. /\ PastLurk(g) \in SUBSET Sender /\ PastLurk(g)' \in SUBSET Sender /\ PastLurk(g)' \subseteq PastLurk(g)
          /\ lurkSlips[g] + Cardinality(PastLurk(g)) <= Cardinality(Sender) /\ lurkSlips[g] \in Nat
      BY <2>1 DEF AdmissionInv, AdmissionTypes, LurkBudget, PastLurk
    <3>2. lurkSlips[g] + Cardinality(PastLurk(g)') <= Cardinality(Sender)
      BY <3>1, Budget
    <3> QED
      BY <3>2 DEF AdmissionInv, LurkBudget
  <2>2. CASE ~(lurking'[g] > 0)
    BY <2>2 DEF AdmissionInv, LurkBudget
  <2> QED
    BY <2>1, <2>2
<1>3. DestroyBudget'
  <2>1. CASE destroyed
    <3>1. /\ PastDestroy \in SUBSET Sender /\ PastDestroy' \in SUBSET Sender /\ PastDestroy' \subseteq PastDestroy
          /\ lateSends + Cardinality(PastDestroy) <= Cardinality(Sender) /\ lateSends \in Nat
      BY <2>1 DEF AdmissionInv, AdmissionTypes, DestroyBudget, PastDestroy
    <3>2. lateSends + Cardinality(PastDestroy') <= Cardinality(Sender)
      BY <3>1, Budget
    <3> QED
      BY <2>1, <3>2 DEF DestroyBudget
  <2>2. CASE ~destroyed
    BY <2>2 DEF AdmissionInv, DestroyBudget
  <2> QED
    BY <2>1, <2>2
<1> QED
  BY <1>1, <1>2, <1>3 DEF AdmissionInv

ContactsOK == contacts \in [Person -> ContactState] /\ lurking \in [Group -> Nat]

(* An entry of the contact graph, brought to today.                         *)
LEMMA TodayType ==
  ASSUME NEW e \in ContactState
  PROVE  /\ Today(e) \in ContactState
         /\ Counted(e) \in ContactState
<1>1. Today(e) \in ContactState
  <2>0. [e EXCEPT !.count = 0] \in ContactState
    BY DEF ContactState
  <2>1. PICK f \in ContactState : f = [e EXCEPT !.count = 0]
    BY <2>0
  <2>2. [f EXCEPT !.today = TRUE] \in ContactState
    BY DEF ContactState
  <2> QED
    BY <2>1, <2>2 DEF Today
<1>2. PICK t \in ContactState : t = Today(e)
  BY <1>1
<1>3. More(t.count) \in Int
  BY <1>2 DEF ContactState, More
<1>4. [t EXCEPT !.count = More(@)] \in ContactState
  BY <1>3 DEF ContactState
<1> QED
  BY <1>1, <1>2, <1>4 DEF Counted

(* The operations of the contact graph leave entries.                       *)
LEMMA ContactsTyped ==
  ASSUME ContactsOK,
         \/ \E c \in Chat : CanMessage(c) \/ RecordMessage(c)
         \/ \E p \in Person : MarkHandshakeSent(p) \/ MarkHandshakeComplete(p) \/ RegisterKnownContact(p)
         \/ ContactMidnight
  PROVE  contacts' \in [Person -> ContactState] /\ UNCHANGED lurking
<1>1. ASSUME NEW c \in Chat, CanMessage(c) PROVE contacts' \in [Person -> ContactState] /\ UNCHANGED lurking
  BY <1>1, TodayType DEF ContactsOK, CanMessage
<1>2. ASSUME NEW c \in Chat, RecordMessage(c) PROVE contacts' \in [Person -> ContactState] /\ UNCHANGED lurking
  BY <1>2, TodayType DEF ContactsOK, RecordMessage
<1>3. ASSUME NEW p \in Person, MarkHandshakeSent(p) \/ MarkHandshakeComplete(p) \/ RegisterKnownContact(p)
      PROVE  contacts' \in [Person -> ContactState] /\ UNCHANGED lurking
  BY <1>3 DEF ContactsOK, ContactState, MarkHandshakeSent, MarkHandshakeComplete, RegisterKnownContact
<1>4. CASE ContactMidnight
  BY <1>4 DEF ContactsOK, ContactState, ContactMidnight
<1> QED
  BY <1>1, <1>2, <1>3, <1>4

(* A loop takes up, passes on or drops its message.                         *)
LEMMA CarriesType ==
  ASSUME AdmissionTypes, NEW s \in Sender, NEW p \in {"idle", "checking", "sending"},
         NEW c \in Chat \cup {NoChat}, p # "idle" => c \in Chat, Carries(s, p, c)
  PROVE  /\ sender' \in [Sender -> SenderState]
         /\ sender'[s] = [at |-> p, chat |-> c]
         /\ \A t \in Sender \ {s} : sender'[t] = sender[t]
         /\ \A t \in Sender : sender'[t].at # "idle" => sender'[t].chat \in Chat
<1>1. [at |-> p, chat |-> c] \in SenderState
  BY DEF SenderState
<1>2. /\ sender' \in [Sender -> SenderState] /\ sender'[s] = [at |-> p, chat |-> c]
      /\ \A t \in Sender \ {s} : sender'[t] = sender[t]
  BY <1>1 DEF Carries, AdmissionTypes
<1> QED
  BY <1>2 DEF AdmissionTypes

(* A loop that drops its message.                                           *)
LEMMA DropsType ==
  ASSUME AdmissionTypes, NEW s \in Sender, Drops(s)
  PROVE  /\ sender' \in [Sender -> SenderState] /\ sender'[s].at = "idle"
         /\ \A t \in Sender \ {s} : sender'[t] = sender[t]
         /\ \A t \in Sender : sender'[t].at # "idle" => sender'[t].chat \in Chat
<1>1. /\ sender' \in [Sender -> SenderState] /\ sender'[s] = [at |-> "idle", chat |-> NoChat]
      /\ \A t \in Sender \ {s} : sender'[t] = sender[t]
      /\ \A t \in Sender : sender'[t].at # "idle" => sender'[t].chat \in Chat
  BY CarriesType DEF Drops
<1> QED
  BY <1>1

(* BeforeSend: a message enters, and is refused or let through.             *)
LEMMA ChecksKeep ==
  ASSUME AdmissionInv, NEW s \in Sender,
         (\E c \in Chat : Enters(s, c)) \/ Checks(s) \/ Fails(s)
  PROVE  AdmissionInv'
<1>0. AdmissionTypes /\ ContactsOK
  BY DEF AdmissionInv, AdmissionTypes, ContactsOK
<1>1. ASSUME NEW c \in Chat, Enters(s, c) PROVE AdmissionInv'
  <2>1. /\ sender' \in [Sender -> SenderState] /\ sender'[s] = [at |-> "checking", chat |-> c]
        /\ \A t \in Sender \ {s} : sender'[t] = sender[t]
        /\ \A t \in Sender : sender'[t].at # "idle" => sender'[t].chat \in Chat
    BY <1>0, <1>1, CarriesType DEF Enters
  <2>2. ~destroyed /\ UNCHANGED <<locked, knownChats, contacts, lurking, destroyed, lockSlips, lurkSlips, lateSends>>
    BY <1>1 DEF Enters, timelockVars, contactVars, slipVars
  <2>3. AdmissionTypes'
    BY <1>0, <2>1, <2>2 DEF AdmissionTypes
  <2>4. PastLock' \subseteq PastLock /\ \A g \in Group : PastLurk(g)' \subseteq PastLurk(g)
    BY <2>1, <2>2 DEF PastLock, PastLurk
  <2> QED
    BY <2>2, <2>3, <2>4, NoSlip
<1>2. ASSUME Drops(s), ContactsOK',
             UNCHANGED <<locked, knownChats, lurking, destroyed, lockSlips, lurkSlips, lateSends>>
      PROVE  AdmissionInv'
  <2>1. /\ sender' \in [Sender -> SenderState] /\ sender'[s].at = "idle"
        /\ \A t \in Sender \ {s} : sender'[t] = sender[t]
        /\ \A t \in Sender : sender'[t].at # "idle" => sender'[t].chat \in Chat
    BY <1>0, <1>2, DropsType
  <2>2. AdmissionTypes'
    BY <1>0, <1>2, <2>1 DEF AdmissionTypes, ContactsOK
  <2>3. /\ PastLock' \subseteq PastLock /\ \A g \in Group : PastLurk(g)' \subseteq PastLurk(g)
        /\ PastDestroy' \subseteq PastDestroy
    BY <1>2, <2>1 DEF PastLock, PastLurk, PastDestroy
  <2> QED
    BY <1>2, <2>2, <2>3, NoSlip
<1>3. CASE Fails(s)
  BY <1>0, <1>2, <1>3 DEF Fails, timelockVars, contactVars, slipVars, ContactsOK
<1>4. CASE Checks(s)
  <2>1. PICK c \in Chat : c = sender[s].chat /\ sender[s].at = "checking"
    BY <1>0, <1>4 DEF Checks, AdmissionTypes
  <2>2. UNCHANGED <<locked, knownChats, destroyed, lockSlips, lurkSlips, lateSends>>
    BY <1>4 DEF Checks, timelockVars, slipVars
  <2>3. CASE Drops(s) /\ UNCHANGED contactVars
    BY <1>0, <1>2, <2>2, <2>3 DEF contactVars, ContactsOK
  <2>4. CASE TimelockCanSend(c) /\ CanMessage(c) /\ IF MayMessage(c) THEN Carries(s, "sending", c) ELSE Drops(s)
    <3>1. ContactsOK' /\ UNCHANGED lurking
      BY <1>0, <2>4, ContactsTyped DEF ContactsOK
    <3>2. CASE Drops(s)
      BY <1>2, <2>2, <3>1, <3>2
    <3>3. CASE MayMessage(c) /\ Carries(s, "sending", c)
      <4>1. /\ sender' \in [Sender -> SenderState] /\ sender'[s] = [at |-> "sending", chat |-> c]
            /\ \A t \in Sender \ {s} : sender'[t] = sender[t]
            /\ \A t \in Sender : sender'[t].at # "idle" => sender'[t].chat \in Chat
        BY <1>0, <3>3, CarriesType
      <4>2. AdmissionTypes'
        BY <1>0, <2>2, <3>1, <4>1 DEF AdmissionTypes, ContactsOK
      <4>3. locked > 0 => PastLock' \subseteq PastLock
        BY <2>2, <2>4, <4>1 DEF PastLock, TimelockCanSend
      <4>4. ASSUME NEW g \in Group, lurking[g] > 0 PROVE PastLurk(g)' \subseteq PastLurk(g)
        <5>1. c # g
          BY <1>0, <3>3, <4>4 DEF MayMessage, ContactsOK
        <5> QED
          BY <4>1, <5>1 DEF PastLurk
      <4>5. PastDestroy' \subseteq PastDestroy
        BY <2>1, <4>1 DEF PastDestroy
      <4> QED
        BY <2>2, <3>1, <4>2, <4>3, <4>4, <4>5, NoSlip
    <3> QED
      BY <2>4, <3>2, <3>3
  <2> QED
    BY <1>4, <2>1, <2>3, <2>4 DEF Checks
<1> QED
  BY <1>1, <1>3, <1>4

(* The message goes out: whatever refuses it now has one loop less to fear. *)
LEMMA SendsKeep ==
  ASSUME AdmissionInv, NEW s \in Sender, Sends(s)
  PROVE  AdmissionInv'
<1>0. AdmissionTypes /\ ContactsOK
  BY DEF AdmissionInv, AdmissionTypes, ContactsOK
<1>1. PICK c \in Chat : c = sender[s].chat /\ sender[s].at = "sending"
  BY <1>0 DEF Sends, AdmissionTypes
<1> DEFINE count(n) == IF n <= Cardinality(Sender) THEN n + 1 ELSE n
<1>2. /\ sender' \in [Sender -> SenderState] /\ sender'[s].at = "idle"
      /\ \A t \in Sender \ {s} : sender'[t] = sender[t]
      /\ \A t \in Sender : sender'[t].at # "idle" => sender'[t].chat \in Chat
  BY <1>0, DropsType DEF Sends
<1>3. UNCHANGED <<locked, knownChats, destroyed>>
  BY DEF Sends, timelockVars
<1>4. contacts' \in [Person -> ContactState] /\ UNCHANGED lurking
  <2>1. CASE destroyed
    BY <1>0, <2>1 DEF Sends, contactVars, ContactsOK
  <2>2. CASE ~destroyed
    BY <1>0, <1>1, <2>2, ContactsTyped DEF Sends
  <2> QED
    BY <2>1, <2>2
<1>5. /\ lockSlips' = IF locked > 0 /\ c \notin knownChats THEN count(lockSlips) ELSE lockSlips
      /\ lurkSlips' = [g \in Group |-> IF c = g /\ lurking[g] > 0 THEN count(lurkSlips[g]) ELSE lurkSlips[g]]
      /\ lateSends' = IF destroyed THEN count(lateSends) ELSE lateSends
  BY <1>1 DEF Sends
<1>6. ASSUME NEW n \in Nat PROVE count(n) \in Nat /\ (n <= Cardinality(Sender) => count(n) = n + 1)
  OBVIOUS
<1> HIDE DEF count
<1>7. AdmissionTypes'
  <2>1. lockSlips' \in Nat /\ lateSends' \in Nat /\ lurkSlips' \in [Group -> Nat]
    BY <1>0, <1>5, <1>6 DEF AdmissionTypes
  <2> QED
    BY <1>0, <1>2, <1>3, <1>4, <2>1 DEF AdmissionTypes, ContactsOK
<1>8. LockBudget'
  <2>1. CASE locked > 0
    <3>1. /\ PastLock \in SUBSET Sender /\ PastLock' \in SUBSET Sender /\ lockSlips \in Nat
          /\ lockSlips + Cardinality(PastLock) <= Cardinality(Sender)
          /\ lockSlips <= Cardinality(Sender)
      BY <1>0, <2>1 DEF AdmissionInv, AdmissionTypes, LockBudget, PastLock
    <3>2. PastLock' = PastLock \ {s} /\ (s \in PastLock <=> c \notin knownChats)
      BY <1>1, <1>2, <1>3 DEF PastLock
    <3>3. IF s \in PastLock THEN lockSlips' = lockSlips + 1 ELSE lockSlips' = lockSlips
      BY <1>5, <1>6, <2>1, <3>1, <3>2
    <3>4. PICK S \in SUBSET Sender, T \in SUBSET Sender : S = PastLock /\ T = PastLock'
      BY <3>1
    <3>5. lockSlips' + Cardinality(T) <= Cardinality(Sender) /\ lockSlips' <= Cardinality(Sender)
      BY <3>1, <3>2, <3>3, <3>4, Budget
    <3> QED
      BY <3>4, <3>5 DEF LockBudget
  <2>2. CASE ~(locked > 0)
    BY <1>3, <1>5, <2>2 DEF AdmissionInv, LockBudget
  <2> QED
    BY <2>1, <2>2
<1>9. ASSUME NEW g \in Group PROVE LurkBudget(g)'
  <2>1. CASE lurking[g] > 0
    <3>1. /\ PastLurk(g) \in SUBSET Sender /\ PastLurk(g)' \in SUBSET Sender /\ lurkSlips[g] \in Nat
          /\ lurkSlips[g] + Cardinality(PastLurk(g)) <= Cardinality(Sender)
          /\ lurkSlips[g] <= Cardinality(Sender)
      BY <1>0, <2>1 DEF AdmissionInv, AdmissionTypes, LurkBudget, PastLurk
    <3>2. PastLurk(g)' = PastLurk(g) \ {s} /\ (s \in PastLurk(g) <=> c = g)
      BY <1>1, <1>2 DEF PastLurk
    <3>3. IF s \in PastLurk(g) THEN lurkSlips'[g] = lurkSlips[g] + 1 ELSE lurkSlips'[g] = lurkSlips[g]
      BY <1>5, <1>6, <2>1, <3>1, <3>2
    <3>4. PICK S \in SUBSET Sender, T \in SUBSET Sender : S = PastLurk(g) /\ T = PastLurk(g)'
      BY <3>1
    <3>5. lurkSlips'[g] + Cardinality(T) <= Cardinality(Sender) /\ lurkSlips'[g] <= Cardinality(Sender)
      BY <3>1, <3>2, <3>3, <3>4, Budget
    <3> QED
      BY <3>4, <3>5 DEF LurkBudget
  <2>2. CASE ~(lurking[g] > 0)
    BY <1>4, <1>5, <2>2 DEF AdmissionInv, LurkBudget
  <2> QED
    BY <2>1, <2>2
<1>10. DestroyBudget'
  <2>1. CASE destroyed
    <3>1. /\ PastDestroy \in SUBSET Sender /\ PastDestroy' \in SUBSET Sender /\ lateSends \in Nat
          /\ lateSends + Cardinality(PastDestroy) <= Cardinality(Sender)
      BY <1>0, <2>1 DEF AdmissionInv, AdmissionTypes, DestroyBudget, PastDestroy
    <3>2. PastDestroy' = PastDestroy \ {s} /\ s \in PastDestroy
      BY <1>1, <1>2 DEF PastDestroy
    <3>3. Cardinality(PastDestroy) \in Nat /\ Cardinality(Sender) \in Nat
      BY <3>1, SenderCount
    <3>4. lateSends' = lateSends + 1
      BY <1>5, <1>6, <2>1, <3>1, <3>3
    <3>5. PICK S \in SUBSET Sender, T \in SUBSET Sender : S = PastDestroy /\ T = PastDestroy'
      BY <3>1
    <3>6. lateSends' + Cardinality(T) <= Cardinality(Sender)
      BY <3>1, <3>2, <3>4, <3>5, Budget
    <3> QED
      BY <1>3, <2>1, <3>5, <3>6 DEF DestroyBudget
  <2>2. CASE ~destroyed
    BY <1>3, <1>5, <2>2 DEF AdmissionInv, DestroyBudget
  <2> QED
    BY <2>1, <2>2
<1> QED
  BY <1>7, <1>8, <1>9, <1>10 DEF AdmissionInv

(* The events and the operations of the guard and the contact graph that    *)
(* count nothing.                                                           *)
LEMMA QuietCalls ==
  ASSUME AdmissionInv,
         TimelockCalls \/ (\E p \in Person : Incoming(p)) \/ AdmissionTick \/ Midnight
         \/ UNCHANGED admissionVars
  PROVE  AdmissionInv'
<1>0. AdmissionTypes /\ ContactsOK
  BY DEF AdmissionInv, AdmissionTypes, ContactsOK
<1>1. UNCHANGED <<destroyed, sender, lockSlips, lurkSlips, lateSends>>
  BY DEF TimelockCalls, Incoming, AdmissionTick, Midnight, admissionVars, slipVars
<1>2. contacts' \in [Person -> ContactState]
  <2>1. CASE UNCHANGED contacts
    BY <1>0, <2>1 DEF ContactsOK
  <2>2. CASE ContactMidnight \/ \E p \in Person : RegisterKnownContact(p)
    BY <1>0, <2>2, ContactsTyped
  <2> QED
    BY <2>1, <2>2
    DEF TimelockCalls, Incoming, AdmissionTick, Midnight, admissionVars, contactVars, ContactTick
<1>3. lurking' \in [Group -> Nat] /\ \A g \in Group : lurking'[g] > 0 => lurking[g] > 0
  <2>1. CASE UNCHANGED lurking
    BY <1>0, <2>1 DEF ContactsOK
  <2>2. CASE ContactTick
    BY <1>0, <2>2 DEF ContactTick, ContactsOK
  <2> QED
    BY <2>1, <2>2
    DEF TimelockCalls, Incoming, AdmissionTick, Midnight, admissionVars, contactVars,
        ContactMidnight, RegisterKnownContact
<1>4. /\ locked' \in Nat /\ knownChats' \subseteq Chat
      /\ locked' > 0 => locked > 0 /\ knownChats \subseteq knownChats'
  <2>1. CASE UNCHANGED <<locked, knownChats>>
    BY <1>0, <2>1 DEF AdmissionTypes
  <2>2. CASE Lift \/ TimelockReset \/ TimelockTick
    BY <1>0, <2>2 DEF Lift, TimelockReset, TimelockTick, AdmissionTypes
  <2>3. CASE \E c \in Chat : RegisterKnownChat(c)
    BY <1>0, <2>3 DEF RegisterKnownChat, AdmissionTypes
  <2> QED
    BY <2>1, <2>2, <2>3
    DEF TimelockCalls, Incoming, AdmissionTick, Midnight, admissionVars, timelockVars
<1>5. AdmissionTypes'
  BY <1>0, <1>1, <1>2, <1>3, <1>4 DEF AdmissionTypes
<1>6. /\ locked' > 0 => PastLock' \subseteq PastLock
      /\ \A g \in Group : PastLurk(g)' \subseteq PastLurk(g)
      /\ PastDestroy' \subseteq PastDestroy
  BY <1>1, <1>4 DEF PastLock, PastLurk, PastDestroy
<1> QED
  BY <1>1, <1>3, <1>4, <1>5, <1>6, NoSlip

(* A refusal begins: an error 463, a group joined, Destroy.  The loops past *)
(* the check are no more than there are.                                    *)
LEMMA RefusalBegins ==
  ASSUME AdmissionInv, StreamError463 \/ ContactCalls \/ Destroy
  PROVE  AdmissionInv'
<1>0. AdmissionTypes /\ ContactsOK
  BY DEF AdmissionInv, AdmissionTypes, ContactsOK
<1>1. CASE StreamError463
  <2>1. /\ locked' = BlockDuration /\ lockSlips' = 0
        /\ UNCHANGED <<knownChats, contacts, lurking, destroyed, sender, lurkSlips, lateSends>>
    BY <1>1 DEF StreamError463, Record463Error, contactVars
  <2>2. AdmissionTypes'
    BY <1>0, <2>1, TimelockAssumption DEF AdmissionTypes
  <2>3. PICK T \in SUBSET Sender : T = PastLock'
    BY DEF PastLock
  <2>4. Cardinality(T) \in Nat /\ Cardinality(T) <= Cardinality(Sender) /\ Cardinality(Sender) \in Nat
    BY SenderCount
  <2>5. LockBudget'
    BY <2>1, <2>3, <2>4 DEF LockBudget
  <2>6. (\A g \in Group : LurkBudget(g)') /\ DestroyBudget'
    BY <2>1 DEF AdmissionInv, LurkBudget, DestroyBudget, PastLurk, PastDestroy
  <2> QED
    BY <2>2, <2>5, <2>6 DEF AdmissionInv
<1>2. CASE ContactCalls
  <2>1. UNCHANGED <<locked, knownChats, destroyed, sender, lockSlips, lateSends>>
    BY <1>2 DEF ContactCalls, timelockVars
  <2>2. CASE (\E p \in Person : MarkHandshakeSent(p) \/ MarkHandshakeComplete(p)) /\ UNCHANGED lurkSlips
    <3>1. contacts' \in [Person -> ContactState] /\ UNCHANGED lurking
      BY <1>0, <2>2, ContactsTyped
    <3>2. AdmissionTypes'
      BY <1>0, <2>1, <2>2, <3>1 DEF AdmissionTypes
    <3> QED
      BY <2>1, <2>2, <3>1, <3>2, NoSlip DEF PastLock, PastLurk, PastDestroy
  <2>3. ASSUME NEW g \in Group, RegisterGroupJoin(g), lurkSlips' = [lurkSlips EXCEPT ![g] = 0]
        PROVE  AdmissionInv'
    <3>1. AdmissionTypes'
      BY <1>0, <2>1, <2>3, ContactAssumption DEF AdmissionTypes, RegisterGroupJoin
    <3>2. LockBudget' /\ DestroyBudget'
      BY <2>1 DEF AdmissionInv, LockBudget, DestroyBudget, PastLock, PastDestroy
    <3>3. ASSUME NEW h \in Group PROVE LurkBudget(h)'
      <4>1. CASE h = g
        <5>1. PICK T \in SUBSET Sender : T = PastLurk(g)'
          BY DEF PastLurk
        <5>2. Cardinality(T) \in Nat /\ Cardinality(T) <= Cardinality(Sender) /\ Cardinality(Sender) \in Nat
          BY SenderCount
        <5>3. lurkSlips'[h] = 0
          BY <1>0, <2>3, <4>1 DEF AdmissionTypes
        <5> QED
          BY <4>1, <5>1, <5>2, <5>3 DEF LurkBudget
      <4>2. CASE h # g
        <5>1. lurkSlips'[h] = lurkSlips[h] /\ lurking'[h] = lurking[h]
          BY <1>0, <2>3, <4>2 DEF AdmissionTypes, RegisterGroupJoin
        <5> QED
          BY <2>1, <5>1 DEF AdmissionInv, LurkBudget, PastLurk
      <4> QED
        BY <4>1, <4>2
    <3> QED
      BY <3>1, <3>2, <3>3 DEF AdmissionInv
  <2> QED
    BY <1>2, <2>2, <2>3 DEF ContactCalls
<1>3. CASE Destroy
  <2>1. /\ ~destroyed /\ destroyed' = TRUE
        /\ UNCHANGED <<locked, knownChats, contacts, lurking, sender, lockSlips, lurkSlips, lateSends>>
    BY <1>3 DEF Destroy, timelockVars, contactVars, slipVars
  <2>2. AdmissionTypes'
    BY <1>0, <2>1 DEF AdmissionTypes
  <2>3. LockBudget' /\ \A g \in Group : LurkBudget(g)'
    BY <2>1 DEF AdmissionInv, LockBudget, LurkBudget, PastLock, PastLurk
  <2>4. PICK T \in SUBSET Sender : T = PastDestroy'
    BY DEF PastDestroy
  <2>5. Cardinality(T) \in Nat /\ Cardinality(T) <= Cardinality(Sender)
    BY SenderCount
  <2>6. lateSends' = 0
    BY <2>1 DEF AdmissionInv, DestroyBudget
  <2>7. DestroyBudget'
    BY <2>1, <2>4, <2>5, <2>6 DEF DestroyBudget
  <2> QED
    BY <2>2, <2>3, <2>7 DEF AdmissionInv
<1> QED
  BY <1>1, <1>2, <1>3

(* The inductive invariant of the chats' checks.                            *)
THEOREM AdmissionInvariant == AdmissionSpec => []AdmissionInv
<1>1. AdmissionInit => AdmissionInv
  <2> SUFFICES ASSUME AdmissionInit PROVE AdmissionInv
    OBVIOUS
  <2>1. [at |-> "idle", chat |-> NoChat] \in SenderState /\ NoContact \in ContactState
    BY DEF SenderState, ContactState, NoContact
  <2>2. AdmissionTypes
    <3>1. sender \in [Sender -> SenderState] /\ contacts \in [Person -> ContactState]
      BY <2>1 DEF AdmissionInit, ContactInit
    <3>2. \A s \in Sender : sender[s].at = "idle"
      BY DEF AdmissionInit
    <3> QED
      BY <3>1, <3>2 DEF AdmissionInit, TimelockInit, ContactInit, AdmissionTypes
  <2>3. Cardinality(Sender) \in Nat
    BY SenderCount
  <2> QED
    BY <2>2, <2>3
    DEF AdmissionInit, TimelockInit, ContactInit, AdmissionInv, LockBudget, LurkBudget, DestroyBudget
<1>2. AdmissionInv /\ [AdmissionNext]_admissionVars => AdmissionInv'
  BY ChecksKeep, SendsKeep, QuietCalls, RefusalBegins DEF AdmissionNext
<1> QED
  BY <1>1, <1>2, PTL DEF AdmissionSpec

(* Each send loop lets at most one message through that a fresh check would *)
(* refuse, per lock, per lurk period and after Destroy.                     *)
THEOREM SlipsPerLoop == AdmissionSpec => []AdmissionSlips
<1>1. AdmissionInv => AdmissionSlips
  <2> SUFFICES ASSUME AdmissionInv PROVE lateSends <= Cardinality(Sender)
    BY DEF AdmissionInv, AdmissionSlips, LockBudget, LurkBudget
  <2>1. PICK S \in SUBSET Sender : S = PastDestroy
    BY DEF PastDestroy
  <2>2. Cardinality(S) \in Nat /\ Cardinality(Sender) \in Nat /\ lateSends \in Nat
    BY SenderCount DEF AdmissionInv, AdmissionTypes
  <2> QED
    BY <2>1, <2>2 DEF AdmissionInv, DestroyBudget
<1> QED
  BY <1>1, AdmissionInvariant, PTL

-----------------------------------------------------------------------------
(* The daily cap of the warm-up.                                            *)

LoopState == [at : Place, hours : 0 .. HoursPerDay]

Sending == {l \in Loop : loop[l].at = "sending"}

CapTypes ==
  /\ day \in 1 .. WarmUpDays /\ dailyCount \in Nat /\ idleFor \in Nat /\ hour \in Hour
  /\ loop \in [Loop -> LoopState] /\ sentToday \in Nat
  /\ newDay \in BOOLEAN /\ growth \in Growth /\ LimitsType /\ granted \in Nat

(* The hours since the last message of today are hours of today.            *)
SentRecently == sentToday > 0 => idleFor <= hour

(* The day has turned and CanSend was not asked since: what was sent was    *)
(* let in yesterday.                                                        *)
CarriedOver == sentToday + Cardinality(Sending) <= Cardinality(Loop)

(* CanSend was asked today: it missed at most one message per loop, and     *)
(* those that are being sent fit under the limit by which the last was let  *)
(* in.                                                                      *)
WithinLimit ==
  /\ dailyCount <= sentToday /\ sentToday <= dailyCount + Cardinality(Loop)
  /\ sentToday + Cardinality(Sending) <= granted + 2 * Cardinality(Loop) - 1

CapInv ==
  /\ CapTypes /\ SentRecently
  /\ newDay => CarriedOver
  /\ ~newDay => WithinLimit

(* The limit of a day is a number, also when AdaptLimits has brought the    *)
(* day's cap below InitialDailyLimit.                                       *)
LEMMA LimitType ==
  ASSUME LimitsType, growth \in Growth, NEW d \in 1 .. WarmUpDays
  PROVE  getDailyLimit(d) \in Nat
<1>1. PICK c \in Nat, r \in Nat, days \in Nat \ {0}, first \in Nat :
        c = limits.day /\ r = growth /\ days = WarmUpDays /\ first = InitialDailyLimit
  BY WarmUpAssumption DEF LimitsType
<1>2. CASE d < days
  <2>1. PICK rest \in Nat : rest = days - d
    BY <1>1, <1>2, WarmUpAssumption
  <2>2. d \in Nat
    BY WarmUpAssumption
  <2>3. PICK t \in Nat : t = c * d + first * rest
    BY <2>2
  <2>4. (c - first) * d + first * days = c * d + first * rest
    BY <2>1, <2>2
  <2>5. t * (100 + r) \in Nat /\ days * 100 \in Nat \ {0}
    OBVIOUS
  <2>6. (t * (100 + r)) \div (days * 100) \in Nat
    BY <2>5, Quotient
  <2>7. (c - first) * d + first * days = t
    BY <2>3, <2>4
  <2> QED
    BY <1>1, <1>2, <2>6, <2>7 DEF getDailyLimit
<1>3. CASE ~(d < days)
  BY <1>1, <1>3, WarmUpAssumption DEF getDailyLimit
<1> QED
  BY <1>2, <1>3

(* The loops are finitely many, and there is one.                           *)
LEMMA LoopCount ==
  /\ Cardinality(Loop) \in Nat \ {0}
  /\ \A S \in SUBSET Loop :
       IsFiniteSet(S) /\ Cardinality(S) \in Nat /\ Cardinality(S) <= Cardinality(Loop)
  BY LoopAssumption, FS_Subset, FS_CardinalityType, FS_EmptySet

(* The sets of loops that send.                                             *)
LEMMA SendingCount ==
  /\ Sending \in SUBSET Loop /\ Sending' \in SUBSET Loop
  /\ Cardinality(Sending) \in Nat /\ Cardinality(Sending) <= Cardinality(Loop)
  /\ Cardinality(Sending') \in Nat /\ Cardinality(Sending') <= Cardinality(Loop)
  /\ Sending' \subseteq Sending => Cardinality(Sending') <= Cardinality(Sending)
<1>1. Sending \in SUBSET Loop /\ Sending' \in SUBSET Loop
  BY DEF Sending
<1>2. IsFiniteSet(Sending)
  BY <1>1, LoopCount
<1>3. Sending' \subseteq Sending => Cardinality(Sending') <= Cardinality(Sending)
  BY <1>2, FS_Subset
<1> QED
  BY <1>1, <1>3, LoopCount

(* A loop goes somewhere.                                                   *)
LEMMA GoesTo ==
  ASSUME loop \in [Loop -> LoopState], NEW l \in Loop, NEW p \in Place, NEW n \in 0 .. HoursPerDay,
         Goes(l, p, n)
  PROVE  /\ loop' \in [Loop -> LoopState]
         /\ Sending' = IF p = "sending" THEN Sending \cup {l} ELSE Sending \ {l}
<1>1. [at |-> p, hours |-> n] \in LoopState
  BY DEF LoopState
<1>2. /\ loop' \in [Loop -> LoopState] /\ loop'[l].at = p
      /\ \A k \in Loop \ {l} : loop'[k] = loop[k]
  BY <1>1 DEF Goes
<1> QED
  BY <1>2 DEF Sending

(* A step that lets nobody in and leaves the warm-up alone, whatever it     *)
(* does to the caps.                                                        *)
LEMMA FewerSending ==
  ASSUME CapInv, loop' \in [Loop -> LoopState], Sending' \subseteq Sending, LimitsType',
         UNCHANGED <<day, dailyCount, idleFor, newDay, growth, hour, sentToday, granted>>
  PROVE  CapInv'
<1>1. CapTypes' /\ SentRecently'
  BY DEF CapInv, CapTypes, SentRecently
<1>2. sentToday + Cardinality(Sending') <= sentToday + Cardinality(Sending)
  BY SendingCount DEF CapInv, CapTypes
<1>3. CarriedOver => CarriedOver'
  BY <1>2, SendingCount, LoopCount DEF CarriedOver, CapInv, CapTypes
<1>4. WithinLimit => WithinLimit'
  BY <1>2, SendingCount, LoopCount DEF WithinLimit, CapInv, CapTypes
<1> QED
  BY <1>1, <1>3, <1>4 DEF CapInv

(* CanSend is asked: it counts from zero on a new day or after a long       *)
(* silence, and lets the message in only below the limit.                   *)
LEMMA CanSendCaps ==
  ASSUME CapInv, InactivityTD >= HoursPerDay, NEW a \in BOOLEAN, WarmUpCanSend(a),
         loop' \in [Loop -> LoopState], UNCHANGED <<limits, hour, sentToday>>,
         IF a THEN granted' = getDailyLimit(day') ELSE Sending' \subseteq Sending /\ UNCHANGED granted
  PROVE  CapInv'
<1> DEFINE idle == idleFor > InactivityTD
<1>1. /\ day' = IF idle THEN 1 ELSE IF newDay THEN NextDay(day) ELSE day
      /\ dailyCount' = IF idle \/ newDay THEN 0 ELSE dailyCount
      /\ newDay' = FALSE /\ UNCHANGED <<idleFor, growth>>
  BY DEF WarmUpCanSend
<1>2. a => dailyCount' < getDailyLimit(day')
  BY DEF WarmUpCanSend
<1>4. CapTypes /\ SentRecently /\ Cardinality(Loop) \in Nat \ {0}
  BY LoopCount DEF CapInv
<1>5. day' \in 1 .. WarmUpDays /\ dailyCount' \in Nat
  <2>1. 1 \in 1 .. WarmUpDays /\ NextDay(day) \in 1 .. WarmUpDays
    BY <1>4, WarmUpAssumption DEF CapTypes, NextDay
  <2>2. day' \in {1, NextDay(day), day} /\ dailyCount' \in {0, dailyCount}
    BY <1>1
  <2> QED
    BY <1>4, <2>1, <2>2 DEF CapTypes
<1>6. granted' \in Nat
  BY <1>4, <1>5, LimitType DEF CapTypes
<1>7. CapTypes' /\ SentRecently'
  <2>1. LimitsType'
    BY <1>4 DEF CapTypes, LimitsType
  <2> QED
    BY <1>1, <1>4, <1>5, <1>6, <2>1 DEF CapTypes, SentRecently
<1>8. idle => sentToday = 0
  BY <1>4, SchedulerAssumption, WarmUpAssumption DEF CapTypes, SentRecently, Hour
<1>9. CASE idle
  <2>1. day' = 1 /\ dailyCount' = 0 /\ sentToday = 0
    BY <1>1, <1>8, <1>9
  <2>2. WithinLimit'
    BY <1>4, <1>6, <2>1, SendingCount DEF WithinLimit
  <2> QED
    BY <1>1, <1>7, <2>2 DEF CapInv
<1>10. CASE ~idle /\ newDay
  <2>1. dailyCount' = 0 /\ CarriedOver
    BY <1>1, <1>10 DEF CapInv
  <2>2. sentToday <= Cardinality(Loop) /\ sentToday + Cardinality(Sending) <= Cardinality(Loop)
    BY <1>4, <2>1, SendingCount DEF CarriedOver, CapTypes
  <2>3. sentToday + Cardinality(Sending') <= granted' + 2 * Cardinality(Loop) - 1
    <3>1. CASE a
      BY <1>2, <1>4, <1>6, <2>1, <2>2, <3>1, SendingCount DEF CapTypes
    <3>2. CASE ~a
      BY <1>4, <1>6, <2>2, <3>2, SendingCount DEF CapTypes
    <3> QED
      BY <3>1, <3>2
  <2>4. WithinLimit'
    BY <1>4, <2>1, <2>2, <2>3 DEF WithinLimit, CapTypes
  <2> QED
    BY <1>1, <1>7, <2>4 DEF CapInv
<1>11. CASE ~idle /\ ~newDay
  <2>1. day' = day /\ dailyCount' = dailyCount /\ WithinLimit
    BY <1>1, <1>11 DEF CapInv
  <2>2. sentToday + Cardinality(Sending') <= granted' + 2 * Cardinality(Loop) - 1
    <3>1. CASE a
      BY <1>2, <1>4, <1>5, <1>6, <2>1, <3>1, SendingCount DEF CapTypes, WithinLimit
    <3>2. CASE ~a
      BY <1>4, <1>6, <2>1, <3>2, SendingCount DEF CapTypes, WithinLimit
    <3> QED
      BY <3>1, <3>2
  <2>3. WithinLimit'
    BY <2>1, <2>2 DEF WithinLimit
  <2> QED
    BY <1>1, <1>7, <2>3 DEF CapInv
<1> QED
  BY <1>4, <1>9, <1>10, <1>11 DEF CapTypes

(* BeforeSend.                                                              *)
LEMMA AttemptCaps ==
  ASSUME CapInv, InactivityTD >= HoursPerDay, NEW l \in Loop, BeforeSend(l)
  PROVE  CapInv'
<1>0. loop \in [Loop -> LoopState] /\ hour \in Hour /\ 0 \in 0 .. HoursPerDay
  BY SchedulerAssumption DEF CapInv, CapTypes
<1>1. UNCHANGED <<limits, hour, sentToday>> /\ LimitsType'
  BY DEF BeforeSend, CapInv, CapTypes, LimitsType
<1>2. ASSUME NEW p \in Place \ {"sending"}, NEW n \in 0 .. HoursPerDay, Goes(l, p, n)
      PROVE  loop' \in [Loop -> LoopState] /\ Sending' \subseteq Sending
  BY <1>0, <1>2, GoesTo
<1>3. CASE ~isActiveTime(hour)
  <2>1. UNCHANGED <<warmUpVars, granted>> /\ (Goes(l, "asleep", MsUntilActive(hour)) \/ Goes(l, "idle", 0))
    BY <1>3 DEF BeforeSend
  <2>2. MsUntilActive(hour) \in 0 .. HoursPerDay
    BY <1>0, SchedulerAssumption DEF Hour, MsUntilActive
  <2>3. loop' \in [Loop -> LoopState] /\ Sending' \subseteq Sending
    BY <1>0, <1>2, <2>1, <2>2 DEF Place
  <2> QED
    BY <1>1, <2>1, <2>3, FewerSending DEF warmUpVars
<1>4. CASE WarmUpCanSend(FALSE) /\ Refused(l) /\ UNCHANGED granted
  <2>1. loop' \in [Loop -> LoopState] /\ Sending' \subseteq Sending
    BY <1>0, <1>2, <1>4 DEF Refused, Place
  <2> QED
    BY <1>1, <1>4, <2>1, CanSendCaps
<1>5. CASE /\ WarmUpCanSend(TRUE) /\ granted' = getDailyLimit(day')
           /\ (Refused(l) \/ Goes(l, "idle", 0) \/ Goes(l, "sending", 0))
  <2>1. loop' \in [Loop -> LoopState]
    BY <1>0, <1>5, GoesTo DEF Refused, Place
  <2> QED
    BY <1>1, <1>5, <2>1, CanSendCaps
<1> QED
  BY <1>3, <1>4, <1>5 DEF BeforeSend

(* AfterSend records the message in both counts.                            *)
LEMMA RecordCaps ==
  ASSUME CapInv, NEW l \in Loop, AfterSend(l)
  PROVE  CapInv'
<1>1. /\ dailyCount' = dailyCount + 1 /\ sentToday' = sentToday + 1 /\ idleFor' = 0
      /\ UNCHANGED <<limits, day, newDay, growth, hour, granted>>
  BY DEF AfterSend, WarmUpRecord
<1>2. loop' \in [Loop -> LoopState] /\ Sending' = Sending \ {l}
  <2>1. 0 \in 0 .. HoursPerDay /\ loop \in [Loop -> LoopState]
    BY SchedulerAssumption DEF CapInv, CapTypes
  <2> QED
    BY <2>1, GoesTo DEF AfterSend, Place
<1>3. CapTypes /\ l \in Sending
  BY DEF CapInv, AfterSend, Sending
<1>4. Cardinality(Sending') = Cardinality(Sending) - 1
  <2>1. IsFiniteSet(Sending)
    BY SendingCount, LoopCount
  <2> QED
    BY <1>2, <1>3, <2>1, FS_RemoveElement
<1>5. CapTypes'
  BY <1>1, <1>2, <1>3 DEF CapTypes, LimitsType
<1>6. SentRecently'
  BY <1>1, <1>3, SchedulerAssumption DEF SentRecently, CapTypes, Hour
<1>7. sentToday' + Cardinality(Sending') = sentToday + Cardinality(Sending)
  BY <1>1, <1>3, <1>4, SendingCount DEF CapTypes
<1>8. CarriedOver => CarriedOver'
  BY <1>7 DEF CarriedOver
<1>9. WithinLimit => WithinLimit'
  <2>1. dailyCount <= sentToday => dailyCount' <= sentToday'
    BY <1>1, <1>3 DEF CapTypes
  <2>2. sentToday <= dailyCount + Cardinality(Loop) => sentToday' <= dailyCount' + Cardinality(Loop)
    BY <1>1, <1>3, LoopCount DEF CapTypes
  <2> QED
    BY <1>1, <1>7, <2>1, <2>2 DEF WithinLimit
<1> QED
  BY <1>1, <1>5, <1>6, <1>8, <1>9 DEF CapInv

(* A day begins with nothing sent, by midnight or by Reset.                 *)
LEMMA FreshDay ==
  ASSUME CapInv, HourPasses \/ ResetWarmUp
  PROVE  CapInv'
<1>0. CapTypes /\ SentRecently /\ Cardinality(Loop) \in Nat \ {0}
  BY LoopCount DEF CapInv
<1>1. CASE ResetWarmUp
  <2>1. /\ day' = 1 /\ dailyCount' = 0 /\ newDay' = FALSE /\ growth' \in Growth /\ sentToday' = 0
        /\ UNCHANGED <<idleFor, hour, loop, limits, granted>>
    BY <1>1 DEF ResetWarmUp, WarmUpReset
  <2>2. 1 \in 1 .. WarmUpDays
    BY WarmUpAssumption
  <2>3. CapTypes' /\ SentRecently'
    <3>1. day' \in 1 .. WarmUpDays /\ dailyCount' \in Nat /\ sentToday' \in Nat /\ ~(sentToday' > 0)
      BY <2>1, <2>2
    <3>2. newDay' \in BOOLEAN
      BY <2>1
    <3>3. growth' \in Growth /\ UNCHANGED <<idleFor, hour, loop, granted>> /\ LimitsType'
      BY <1>0, <2>1 DEF CapTypes, LimitsType
    <3> QED
      BY <1>0, <3>1, <3>2, <3>3 DEF CapTypes, SentRecently
  <2>4. WithinLimit'
    BY <1>0, <2>1, SendingCount DEF WithinLimit, CapTypes
  <2> QED
    BY <2>1, <2>3, <2>4 DEF CapInv
<1>2. CASE HourPasses
  <2>1. /\ hour' = (hour + 1) % HoursPerDay
        /\ idleFor' = (IF idleFor <= InactivityTD THEN idleFor + 1 ELSE idleFor)
        /\ newDay' = (newDay \/ hour' = 0) /\ UNCHANGED <<day, dailyCount, growth>>
        /\ sentToday' = (IF hour' = 0 THEN 0 ELSE sentToday) /\ UNCHANGED <<limits, granted>>
    BY <1>2 DEF HourPasses, WarmUpHour
  <2>2. hour' = (IF hour = HoursPerDay - 1 THEN 0 ELSE hour + 1) /\ hour' \in Hour
    BY <1>0, <2>1, NextHour, SchedulerAssumption DEF CapTypes, Hour
  <2>3. loop' \in [Loop -> LoopState] /\ Sending' = Sending
    <3>1. loop' = [l \in Loop |-> [loop[l] EXCEPT !.hours = IF @ > 0 THEN @ - 1 ELSE @]]
      BY <1>2 DEF HourPasses
    <3>2. \A l \in Loop : loop'[l] = [at |-> loop[l].at,
                 hours |-> IF loop[l].hours > 0 THEN loop[l].hours - 1 ELSE loop[l].hours]
      BY <1>0, <3>1 DEF CapTypes, LoopState
    <3>3. \A l \in Loop : loop'[l] \in LoopState
      <4> SUFFICES ASSUME NEW l \in Loop PROVE loop'[l] \in LoopState
        OBVIOUS
      <4>1. loop[l].at \in Place /\ loop[l].hours \in 0 .. HoursPerDay
        BY <1>0 DEF CapTypes, LoopState
      <4>2. PICK n \in 0 .. HoursPerDay : n = IF loop[l].hours > 0 THEN loop[l].hours - 1 ELSE loop[l].hours
        BY <4>1, SchedulerAssumption
      <4>3. loop'[l] = [at |-> loop[l].at, hours |-> n]
        BY <3>2, <4>2, Zenon
      <4> QED
        BY <4>1, <4>3 DEF LoopState
    <3> QED
      BY <3>1, <3>2, <3>3 DEF Sending
  <2>4. idleFor' \in Nat /\ sentToday' \in Nat
    BY <1>0, <2>1 DEF CapTypes
  <2>5. newDay' \in BOOLEAN
    BY <2>1
  <2>6. CapTypes'
    BY <1>0, <2>1, <2>2, <2>3, <2>4, <2>5 DEF CapTypes, LimitsType
  <2>7. CASE hour' = 0
    <3>1. newDay' /\ sentToday' = 0
      BY <2>1, <2>7
    <3>2. CarriedOver' /\ SentRecently'
      BY <1>0, <3>1, SendingCount DEF CarriedOver, SentRecently
    <3> QED
      BY <2>6, <3>1, <3>2 DEF CapInv
  <2>8. CASE hour' # 0
    <3>1. newDay' = newDay /\ sentToday' = sentToday
      BY <1>0, <2>1, <2>8 DEF CapTypes
    <3>2. SentRecently'
      BY <1>0, <2>1, <2>2, <2>8, <3>1, SchedulerAssumption DEF SentRecently, CapTypes, Hour
    <3>3. (CarriedOver => CarriedOver') /\ (WithinLimit => WithinLimit')
      BY <2>1, <2>3, <3>1 DEF CarriedOver, WithinLimit
    <3> QED
      BY <2>6, <3>1, <3>2, <3>3 DEF CapInv
  <2> QED
    BY <2>7, <2>8
<1> QED
  BY <1>1, <1>2

(* A day sees no more messages than the warm-up's limit when its last one   *)
(* was let in and two per loop, one less in all, and the warm-up's day is   *)
(* never ahead of the calendar, however AdaptLimits scales the caps in      *)
(* between and for all configurations that forgive a silence no sooner than *)
(* after a day (the code's default is two, types.go:194).                   *)
THEOREM WarmUpKeepsPace == InactivityTD >= HoursPerDay => (CalendarSpec => []WarmUpPace)
<1> SUFFICES ASSUME InactivityTD >= HoursPerDay PROVE CalendarSpec => []WarmUpPace
  OBVIOUS
<1>1. CalendarInit => CapInv
  <2> SUFFICES ASSUME CalendarInit PROVE CapInv
    OBVIOUS
  <2>1. /\ day = 1 /\ dailyCount = 0 /\ newDay = FALSE /\ idleFor = InactivityTD + 1 /\ growth \in Growth
        /\ hour \in Hour /\ loop = [l \in Loop |-> [at |-> "idle", hours |-> 0]] /\ sentToday = 0
        /\ granted = 0 /\ limits = Preset
    BY DEF CalendarInit, WarmUpInit
  <2>2. [at |-> "idle", hours |-> 0] \in LoopState /\ 1 \in 1 .. WarmUpDays /\ InactivityTD + 1 \in Nat
    BY SchedulerAssumption, WarmUpAssumption DEF LoopState, Place
  <2>3. CapTypes /\ SentRecently
    <3>1. day \in 1 .. WarmUpDays /\ dailyCount \in Nat /\ sentToday \in Nat /\ ~(sentToday > 0) /\ idleFor \in Nat
      BY <2>1, <2>2
    <3>2. newDay \in BOOLEAN
      BY <2>1
    <3>3. loop \in [Loop -> LoopState] /\ growth \in Growth /\ hour \in Hour
      BY <2>1, <2>2
    <3>4. LimitsType /\ granted \in Nat
      BY <2>1, LimitsAssumption DEF LimitsType, Preset
    <3> QED
      BY <3>1, <3>2, <3>3, <3>4 DEF CapTypes, SentRecently
  <2>4. WithinLimit
    BY <2>1, SendingCount, LoopCount DEF WithinLimit
  <2> QED
    BY <2>1, <2>3, <2>4 DEF CapInv
<1>2. CapInv /\ [CalendarNext]_calendarVars => CapInv'
  <2> SUFFICES ASSUME CapInv, [CalendarNext]_calendarVars PROVE CapInv'
    OBVIOUS
  <2>0. LimitsType /\ loop \in [Loop -> LoopState]
    BY DEF CapInv, CapTypes
  <2>1. ASSUME NEW l \in Loop, GivesUp(l) \/ SendFails(l) PROVE CapInv'
    <3>1. 0 \in 0 .. HoursPerDay
      BY SchedulerAssumption
    <3>2. loop' \in [Loop -> LoopState] /\ Sending' \subseteq Sending
      BY <2>0, <2>1, <3>1, GoesTo DEF GivesUp, SendFails, Place
    <3>3. LimitsType'
      <4>1. CASE GivesUp(l)
        BY <2>0, <4>1 DEF GivesUp, LimitsType
      <4>2. CASE SendFails(l)
        BY <2>0, <4>2, CapsAdapt DEF SendFails
      <4> QED
        BY <2>1, <4>1, <4>2
    <3> QED
      BY <2>1, <3>2, <3>3, FewerSending DEF GivesUp, SendFails, warmUpVars
  <2>2. CASE Reconnected
    <3>1. LimitsType'
      BY <2>0, <2>2, CapsAdapt DEF Reconnected
    <3>2. loop' \in [Loop -> LoopState] /\ Sending' \subseteq Sending
      BY <2>0, <2>2 DEF Reconnected, Sending
    <3> QED
      BY <2>2, <3>1, <3>2, FewerSending DEF Reconnected, warmUpVars
  <2>3. CASE UNCHANGED calendarVars
    <3>1. LimitsType' /\ loop' \in [Loop -> LoopState] /\ Sending' \subseteq Sending
      BY <2>0, <2>3 DEF calendarVars, Sending, LimitsType
    <3> QED
      BY <2>3, <3>1, FewerSending DEF calendarVars, warmUpVars
  <2> QED
    BY <2>1, <2>2, <2>3, AttemptCaps, RecordCaps, FreshDay DEF CalendarNext, BeforeSendAtTheTurn
<1>3. CapInv => DailyCap
  <2> SUFFICES ASSUME CapInv PROVE DailyCap
    OBVIOUS
  <2>1. granted \in Nat /\ sentToday \in Nat
    BY DEF CapInv, CapTypes
  <2>2. CarriedOver => DailyCap
    BY <2>1, SendingCount, LoopCount DEF CarriedOver, DailyCap
  <2>3. WithinLimit => DailyCap
    BY <2>1, SendingCount, LoopCount DEF WithinLimit, DailyCap
  <2> QED
    BY <2>2, <2>3 DEF CapInv
<1> QED
  BY <1>1, <1>2, <1>3, NeverAheadOfTheCalendar, PTL DEF CalendarSpec, WarmUpPace
=============================================================================
