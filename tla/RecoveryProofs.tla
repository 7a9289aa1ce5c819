--------------------------- MODULE RecoveryProofs ---------------------------
(***************************************************************************)
(* The caps of the rate limiter, for all windows, limits and numbers of    *)
(* send loops; what a ban leaves of them, and when it is forgiven.         *)
(***************************************************************************)
EXTENDS Recovery, WindowProofs

Windows == {"minute", "hour", "day"}

(* The lists, and what they still know of the sends.                        *)
Lists ==
  /\ perMinute \in Times(Day) /\ perHour \in Times(Day) /\ perDay \in Times(Day)
  /\ sentLog \in Times(Day)
  /\ Agree(perMinute, sentLog, Minute)
  /\ Agree(perHour, sentLog, Hour)
  /\ Agree(perDay, sentLog, Day)

(* A loop that has been let in counts as one that has sent.                 *)
Caps ==
  /\ SentWithin(Minute) + Cardinality(admitted) <= MaxPerMinute + burstCredit + Overlap
  /\ SentWithin(Hour) + Cardinality(admitted) <= MaxPerHour + Overlap
  /\ SentWithin(Day) + Cardinality(admitted) <= MaxPerDay + Overlap

Limited ==
  /\ limits \in [Windows -> Nat]
  /\ \A w \in Windows : limits[w] <= Preset[w]
  /\ burstCredit \in 0 .. BurstAllowance
  /\ admitted \subseteq Loop

CapInv == Limited /\ Lists /\ Caps

-----------------------------------------------------------------------------
(* The sends of a window are a number.                                      *)
LEMMA SentType ==
  ASSUME Lists
  PROVE  /\ SentWithin(Minute) \in Nat /\ SentWithin(Hour) \in Nat /\ SentWithin(Day) \in Nat
         /\ \A w \in Int : SentWithin(w) = Count(sentLog, w)
         /\ \A w \in Int : SentWithin(w)' = Count(sentLog', w)
<1>1. \A w \in Int : SentWithin(w) = Count(sentLog, w) /\ SentWithin(w)' = Count(sentLog', w)
  BY DEF SentWithin, Count
<1>2. sentLog \in Seq(0 .. Day)
  BY TimesType, WindowAssumption DEF Lists
<1>3. \A w \in Int : Count(sentLog, w) \in Nat
  BY <1>2, CountType
<1> QED
  BY <1>1, <1>3, WindowAssumption

(* The loops that have been let in are some of the loops.                   *)
LEMMA AdmittedType ==
  ASSUME Limited
  PROVE  /\ IsFiniteSet(admitted) /\ Cardinality(admitted) \in Nat
         /\ Cardinality(Loop) \in Nat \ {0} /\ Overlap = Cardinality(Loop) - 1
         /\ \A l \in Loop \ admitted : Cardinality(admitted \cup {l}) = Cardinality(admitted) + 1
         /\ \A l \in Loop : Cardinality(admitted \cup {l}) <= Cardinality(Loop)
         /\ \A l \in admitted : Cardinality(admitted \ {l}) = Cardinality(admitted) - 1
<1>1. IsFiniteSet(Loop) /\ admitted \subseteq Loop /\ Loop # {}
  BY LimitAssumption DEF Limited
<1>2. IsFiniteSet(admitted) /\ Cardinality(admitted) \in Nat /\ Cardinality(Loop) \in Nat
  BY <1>1, FS_Subset, FS_CardinalityType
<1>3. Cardinality(Loop) # 0
  BY <1>1, FS_EmptySet
<1>4. \A l \in Loop : Cardinality(admitted \cup {l}) <= Cardinality(Loop)
  <2> SUFFICES ASSUME NEW l \in Loop PROVE Cardinality(admitted \cup {l}) <= Cardinality(Loop)
    OBVIOUS
  <2>1. admitted \cup {l} \subseteq Loop
    BY <1>1
  <2> QED
    BY <2>1, <1>1, FS_Subset
<1>5. \A l \in Loop \ admitted : Cardinality(admitted \cup {l}) = Cardinality(admitted) + 1
  BY <1>2, FS_AddElement
<1>6. \A l \in admitted : Cardinality(admitted \ {l}) = Cardinality(admitted) - 1
  BY <1>2, FS_RemoveElement
<1> QED
  BY <1>2, <1>3, <1>4, <1>5, <1>6 DEF Overlap

(* CanSend counts the real sends of each window.                            *)
LEMMA CanSendKeeps ==
  ASSUME CapInv, NEW l \in Loop, CanSend(l)
  PROVE  CapInv'
<1> DEFINE minute == Len(prune(perMinute, Minute))
           hour == Len(prune(perHour, Hour))
           day == Len(prune(perDay, Day))
           ok == canSend(minute, hour, day)
<1>1. /\ l \notin admitted /\ limits' = limits /\ sentLog' = sentLog
      /\ perMinute' = prune(perMinute, Minute) /\ perHour' = prune(perHour, Hour)
      /\ perDay' = prune(perDay, Day)
      /\ burstCredit' = IF ok /\ minute >= limits.minute THEN burstCredit + 1 ELSE burstCredit
      /\ admitted' = IF ok THEN admitted \cup {l} ELSE admitted
  BY DEF CanSend
<1>2. Lists'
  <2>1. Minute \in Nat /\ Hour \in Nat /\ Day \in Nat
    BY WindowAssumption
  <2>2. perMinute' \in Times(Day) /\ perHour' \in Times(Day) /\ perDay' \in Times(Day)
    BY <1>1, <2>1, KeepAfterFilters DEF CapInv, Lists, prune
  <2>3. Agree(perMinute', sentLog, Minute) /\ Agree(perHour', sentLog, Hour) /\ Agree(perDay', sentLog, Day)
    BY <1>1, <2>1, AgreeKeep DEF CapInv, Lists, prune
  <2> QED
    BY <1>1, <2>2, <2>3 DEF CapInv, Lists
<1>3. minute = SentWithin(Minute) /\ hour = SentWithin(Hour) /\ day = SentWithin(Day)
  <2>1. /\ minute = Count(perMinute, Minute) /\ hour = Count(perHour, Hour)
        /\ day = Count(perDay, Day)
    BY KeepAfterFilters, WindowAssumption DEF CapInv, Lists, prune
  <2>2. /\ Count(perMinute, Minute) = Count(sentLog, Minute)
        /\ Count(perHour, Hour) = Count(sentLog, Hour)
        /\ Count(perDay, Day) = Count(sentLog, Day)
    BY WindowAssumption DEF CapInv, Lists, Agree
  <2> QED
    BY <2>1, <2>2, SentType, WindowAssumption DEF CapInv
<1>4. UNCHANGED <<SentWithin(Minute), SentWithin(Hour), SentWithin(Day)>>
  BY <1>1 DEF SentWithin
<1>5. PICK m \in Nat, h \in Nat, d \in Nat, n \in Nat, all \in Nat :
        /\ m = SentWithin(Minute) /\ h = SentWithin(Hour) /\ d = SentWithin(Day)
        /\ n = Cardinality(admitted) /\ all = Cardinality(Loop) /\ Overlap = all - 1
  BY SentType, AdmittedType DEF CapInv
<1>6. /\ limits.minute \in Nat /\ limits.hour \in Nat /\ limits.day \in Nat
      /\ limits.minute <= MaxPerMinute /\ limits.hour <= MaxPerHour /\ limits.day <= MaxPerDay
  BY DEF CapInv, Limited, Windows, Preset
<1>7. /\ m + n <= MaxPerMinute + burstCredit + all - 1
      /\ h + n <= MaxPerHour + all - 1 /\ d + n <= MaxPerDay + all - 1
      /\ burstCredit \in Nat /\ burstCredit <= BurstAllowance
  BY <1>5, LimitAssumption DEF CapInv, Caps, Limited
<1>8. CASE ok
  <2>1. admitted' = admitted \cup {l}
    BY <1>1, <1>8
  <2>2. Cardinality(admitted') = n + 1 /\ n + 1 <= all
    BY <2>1, <1>1, <1>5, AdmittedType DEF CapInv
  <2>3. d < limits.day /\ h < limits.hour /\ (m < limits.minute \/ burstCredit < BurstAllowance)
    BY <1>3, <1>5, <1>8 DEF canSend
  <2>4. burstCredit' = IF m >= limits.minute THEN burstCredit + 1 ELSE burstCredit
    BY <1>1, <1>3, <1>5, <1>8
  <2>5. Limited'
    BY <1>1, <1>6, <1>7, <2>1, <2>3, <2>4, LimitAssumption DEF CapInv, Limited
  <2>6. /\ m + (n + 1) <= MaxPerMinute + burstCredit' + (all - 1)
        /\ h + (n + 1) <= MaxPerHour + (all - 1) /\ d + (n + 1) <= MaxPerDay + (all - 1)
    BY <1>6, <1>7, <2>2, <2>3, <2>4, LimitAssumption, LimitsAssumption
  <2>7. Caps'
    BY <1>4, <1>5, <2>2, <2>6 DEF Caps, Overlap
  <2> QED
    BY <1>2, <2>5, <2>7 DEF CapInv
<1>9. CASE ~ok
  <2>1. UNCHANGED <<admitted, burstCredit, limits>>
    BY <1>1, <1>9
  <2> QED
    BY <1>2, <1>4, <2>1 DEF CapInv, Limited, Caps, Overlap
<1> QED
  BY <1>8, <1>9

(* Record adds one to every window and takes its loop out.                  *)
LEMMA RecordKeeps ==
  ASSUME CapInv, NEW l \in Loop, Record(l)
  PROVE  CapInv'
<1>1. /\ l \in admitted /\ admitted' = admitted \ {l} /\ UNCHANGED <<limits, burstCredit>>
      /\ perMinute' = Append(perMinute, 0) /\ perHour' = Append(perHour, 0)
      /\ perDay' = Append(perDay, 0) /\ sentLog' = Append(sentLog, 0)
  BY DEF Record
<1>2. Lists'
  BY <1>1, CountAppend, AgreeAppend, WindowAssumption DEF CapInv, Lists
<1>3. Cardinality(admitted') = Cardinality(admitted) - 1 /\ Cardinality(admitted) \in Nat
  BY <1>1, AdmittedType DEF CapInv
<1>4. \A w \in {Minute, Hour, Day} : SentWithin(w)' = SentWithin(w) + 1
  <2>1. \A w \in {Minute, Hour, Day} : w \in Nat /\ w # 0 /\ w \in Int
    BY WindowAssumption
  <2>2. \A w \in {Minute, Hour, Day} : Count(sentLog', w) = Count(sentLog, w) + 1
    BY <1>1, <2>1, CountAppend, WindowAssumption DEF CapInv, Lists
  <2> QED
    BY <2>1, <2>2, SentType DEF CapInv
<1>5. Caps'
  <2>1. /\ SentWithin(Minute)' = SentWithin(Minute) + 1 /\ SentWithin(Hour)' = SentWithin(Hour) + 1
        /\ SentWithin(Day)' = SentWithin(Day) + 1
    BY <1>4
  <2>2. PICK m \in Nat, h \in Nat, d \in Nat :
          m = SentWithin(Minute) /\ h = SentWithin(Hour) /\ d = SentWithin(Day)
    BY SentType DEF CapInv
  <2>3. PICK n \in Nat, more \in Int, credit \in Nat :
          /\ n = Cardinality(admitted) /\ more = Overlap /\ credit = burstCredit
    BY AdmittedType, LimitAssumption DEF CapInv, Limited
  <2>4. /\ m + n <= MaxPerMinute + credit + more /\ h + n <= MaxPerHour + more
        /\ d + n <= MaxPerDay + more
    BY <2>2, <2>3 DEF CapInv, Caps
  <2>5. /\ (m + 1) + (n - 1) <= MaxPerMinute + credit + more /\ (h + 1) + (n - 1) <= MaxPerHour + more
        /\ (d + 1) + (n - 1) <= MaxPerDay + more
    BY <2>4, LimitAssumption
  <2>6. Overlap' = more /\ burstCredit' = credit
    BY <2>3, <1>1 DEF Overlap
  <2> QED
    BY <1>3, <2>1, <2>2, <2>3, <2>5, <2>6 DEF Caps
<1>6. Limited'
  BY <1>1 DEF CapInv, Limited
<1> QED
  BY <1>2, <1>5, <1>6 DEF CapInv

(* Time takes sends out of the windows.                                     *)
LEMMA TimeKeeps ==
  ASSUME CapInv, TimePasses
  PROVE  CapInv'
<1>1. /\ perMinute' = Older(perMinute, Day) /\ perHour' = Older(perHour, Day)
      /\ perDay' = Older(perDay, Day) /\ sentLog' = KeepAfter(Older(sentLog, Day), Day)
      /\ UNCHANGED <<limits, burstCredit, admitted>>
  BY DEF TimePasses
<1>2. Day \in Nat /\ Day > 0 /\ Minute \in 1 .. Day /\ Hour \in 1 .. Day /\ Day \in 1 .. Day
  BY WindowAssumption
<1>3. /\ Older(perMinute, Day) \in Times(Day) /\ Older(perHour, Day) \in Times(Day)
      /\ Older(perDay, Day) \in Times(Day) /\ Older(sentLog, Day) \in Times(Day)
  BY <1>2, CountOlder DEF CapInv, Lists
<1>4. /\ Agree(Older(perMinute, Day), Older(sentLog, Day), Minute)
      /\ Agree(Older(perHour, Day), Older(sentLog, Day), Hour)
      /\ Agree(Older(perDay, Day), Older(sentLog, Day), Day)
  BY <1>2, AgreeOlder DEF CapInv, Lists
<1>5. Lists'
  <2>1. Minute \in Nat /\ Hour \in Nat /\ Minute <= Day /\ Hour <= Day /\ Day <= Day
    BY <1>2
  <2>2. /\ Agree(Older(perMinute, Day), sentLog', Minute)
        /\ Agree(Older(perHour, Day), sentLog', Hour)
        /\ Agree(Older(perDay, Day), sentLog', Day)
    BY <1>1, <1>2, <1>3, <1>4, <2>1, AgreeKeep
  <2>3. sentLog' \in Times(Day)
    BY <1>1, <1>2, <1>3, KeepAfterFilters
  <2> QED
    BY <1>1, <1>3, <2>2, <2>3 DEF Lists
<1>6. \A w \in {Minute, Hour, Day} : SentWithin(w)' <= SentWithin(w)
  BY <1>1, <1>2, TickLeaves, SentType DEF CapInv, Lists
<1>7. /\ SentWithin(Minute)' <= SentWithin(Minute) /\ SentWithin(Hour)' <= SentWithin(Hour)
      /\ SentWithin(Day)' <= SentWithin(Day)
  BY <1>6
<1>8. /\ SentWithin(Minute)' \in Nat /\ SentWithin(Hour)' \in Nat /\ SentWithin(Day)' \in Nat
  <2>1. sentLog' \in Seq(0 .. Day)
    BY <1>5, <1>2, TimesType DEF Lists
  <2> QED
    BY <2>1, <1>2, CountType DEF SentWithin, Count
<1>9. Caps'
  BY <1>1, <1>7, <1>8, SentType, AdmittedType, LimitAssumption, LimitsAssumption DEF CapInv, Caps, Limited, Overlap
<1> QED
  BY <1>1, <1>5, <1>9 DEF CapInv, Limited

-----------------------------------------------------------------------------
(* The share of the limits that a phase leaves, as a fraction.              *)
Num(ph, day) == IF ph = "ramping" THEN 7 + 3 * (IF day > 7 THEN 7 ELSE day) ELSE 1
Den(ph) ==
  IF ph = "recovering" THEN 4 ELSE IF ph = "ramping" THEN 28 ELSE IF ph = "graduated" THEN 1 ELSE 10

(* ClampFactor lifts the zero of a pause to a tenth and leaves the rest.    *)
LEMMA ClampedShare ==
  ASSUME NEW ph \in Phases, NEW day \in 0 .. 8
  PROVE  /\ ClampFactor(getRateMultiplier(ph, day)) = <<Num(ph, day), Den(ph)>>
         /\ Num(ph, day) \in Nat /\ Den(ph) \in Nat \ {0} /\ Num(ph, day) <= Den(ph)
<1>1. CASE ph = "ramping"
  <2>1. PICK d \in 0 .. 7 : d = IF day > 7 THEN 7 ELSE day
    OBVIOUS
  <2>2. getRateMultiplier(ph, day) = <<7 + 3 * d, 28>>
    BY <1>1, <2>1 DEF getRateMultiplier, RecoveryRampPct
  <2> QED
    BY <1>1, <2>1, <2>2 DEF ClampFactor, Num, Den
<1>2. CASE ph = "recovering"
  <2>1. getRateMultiplier(ph, day) = <<1, 4>>
    BY <1>2 DEF getRateMultiplier, RecoveryRampPct
  <2> QED
    BY <1>2, <2>1 DEF ClampFactor, Num, Den
<1>3. CASE ph = "graduated"
  <2>1. getRateMultiplier(ph, day) = <<1, 1>>
    BY <1>3 DEF getRateMultiplier
  <2> QED
    BY <1>3, <2>1 DEF ClampFactor, Num, Den
<1>4. CASE ph \in {"paused", "dead"}
  <2>1. getRateMultiplier(ph, day) = <<0, 1>>
    BY <1>4 DEF getRateMultiplier
  <2> QED
    BY <1>4, <2>1 DEF ClampFactor, Num, Den
<1> QED
  BY <1>1, <1>2, <1>3, <1>4 DEF Phases

(* The factors that WarmUp's and PostReconnectThrottle's models take from   *)
(* Factors are those of the recovery.                                       *)
LEMMA MultiplierIsFactor ==
  ASSUME NEW ph \in Phases, NEW day \in 0 .. 8
  PROVE  getRateMultiplier(ph, day) \in Factors
<1>1. PICK d \in 0 .. 7 : d = IF day > 7 THEN 7 ELSE day
  OBVIOUS
<1>2. getRateMultiplier(ph, day) \in {<<0, 1>>, <<1, 4>>, <<1, 1>>, <<7 + 3 * d, 28>>}
  BY <1>1 DEF getRateMultiplier, RecoveryRampPct
<1> QED
  BY <1>1, <1>2 DEF Factors

(* limits within the share of phase ph.                                     *)
WithinShare(l, ph, day) == \A w \in Windows : l[w] * Den(ph) <= Preset[w] * Num(ph, day)

BanInv ==
  /\ phase \in Phases /\ rampDay \in 0 .. 8
  /\ phase = "ramping" => rampDay \in 1 .. 7
  /\ banEvents \in Times(Month)
  /\ applied \in BOOLEAN

Throttled == applied => WithinShare(limits, phase, rampDay)

RecoveryInv == CapInv /\ BanInv /\ Throttled

(* The presets are numbers.                                                 *)
LEMMA PresetType == \A w \in Windows : Preset[w] \in Nat
  BY LimitsAssumption DEF Preset, Windows

(* AdaptLimits never raises a limit and leaves at most the share.           *)
LEMMA ScaleDown ==
  ASSUME NEW l \in Nat, NEW p \in Nat, l <= p, NEW n \in Nat, NEW d \in Nat \ {0}, n <= d
  PROVE  Scale(l, <<n, d>>) \in Nat /\ Scale(l, <<n, d>>) <= l /\ Scale(l, <<n, d>>) * d <= p * n
<1>1. PICK x \in Nat : x = l * n
  OBVIOUS
<1>2. PICK q \in Nat : q = x \div d /\ q * d <= x
  OBVIOUS
<1>3. x <= p * n /\ x <= l * d
  BY <1>1
<1>4. q <= l
  <2> SUFFICES ASSUME q >= l + 1 PROVE FALSE
    OBVIOUS
  <2>1. q * d >= (l + 1) * d
    OBVIOUS
  <2>2. (l + 1) * d = l * d + d
    OBVIOUS
  <2> QED
    BY <1>2, <1>3, <2>1, <2>2
<1> QED
  BY <1>1, <1>2, <1>3, <1>4 DEF Scale

LEMMA AdaptLeaves ==
  ASSUME Limited, NEW ph \in Phases, NEW day \in 0 .. 8, AdaptLimits(getRateMultiplier(ph, day))
  PROVE  /\ limits' \in [Windows -> Nat] /\ \A w \in Windows : limits'[w] <= Preset[w]
         /\ WithinShare(limits', ph, day)
<1>1. limits' = [w \in Windows |-> Scale(limits[w], <<Num(ph, day), Den(ph)>>)]
  BY ClampedShare DEF AdaptLimits, AdaptCaps, Limited
<1>2. ASSUME NEW w \in Windows
      PROVE  limits'[w] \in Nat /\ limits'[w] <= Preset[w] /\ limits'[w] * Den(ph) <= Preset[w] * Num(ph, day)
  <2>1. limits[w] \in Nat /\ Preset[w] \in Nat /\ limits[w] <= Preset[w]
    BY PresetType DEF Limited
  <2>2. PICK n \in Nat, d \in Nat \ {0} : n = Num(ph, day) /\ d = Den(ph) /\ n <= d
    BY ClampedShare
  <2>3. limits'[w] = Scale(limits[w], <<n, d>>)
    BY <1>1, <2>2
  <2>4. PICK l \in Nat, p \in Nat : l = limits[w] /\ p = Preset[w] /\ l <= p
    BY <2>1
  <2>5. PICK x : x = Scale(l, <<n, d>>)
    OBVIOUS
  <2>6. x \in Nat /\ x <= l /\ x * d <= p * n
    BY <2>2, <2>4, <2>5, ScaleDown
  <2> QED
    BY <2>2, <2>3, <2>4, <2>5, <2>6
<1> QED
  BY <1>1, <1>2 DEF WithinShare

(* A Tick or a Reset leaves room for the limits as they are.                *)
LEMMA ShareGrows ==
  ASSUME Limited, BanInv, Tick \/ Reset, WithinShare(limits, phase, rampDay)
  PROVE  WithinShare(limits, phase', rampDay')
<1> SUFFICES ASSUME NEW w \in Windows
             PROVE  limits[w] * Den(phase') <= Preset[w] * Num(phase', rampDay')
  BY DEF WithinShare
<1>1. PICK l \in Nat, p \in Nat : l = limits[w] /\ p = Preset[w] /\ l <= p
  BY PresetType DEF Limited
<1>2. l * Den(phase) <= p * Num(phase, rampDay)
  BY <1>1 DEF WithinShare
<1>3. CASE phase' = "graduated"
  BY <1>1, <1>3 DEF Num, Den
<1>4. CASE phase = "paused" /\ phase' = "recovering"
  BY <1>1, <1>2, <1>4 DEF Num, Den
<1>5. CASE phase = "recovering" /\ phase' = "ramping" /\ rampDay' = 1
  BY <1>1, <1>2, <1>5 DEF Num, Den
<1>6. CASE phase = "ramping" /\ phase' = "ramping" /\ rampDay' = rampDay + 1 /\ rampDay' <= 7
  <2>1. PICK d \in 1 .. 6 : d = rampDay
    BY <1>6 DEF BanInv
  <2>2. l * 28 <= p * (7 + 3 * d)
    BY <1>2, <1>6, <2>1 DEF Num, Den
  <2>3. p * (7 + 3 * d) <= p * (7 + 3 * (d + 1))
    BY <2>1
  <2>4. l * 28 <= p * (7 + 3 * (d + 1))
    BY <2>2, <2>3, <2>1
  <2> QED
    BY <1>1, <1>6, <2>1, <2>4 DEF Num, Den
<1> QED
  BY <1>3, <1>4, <1>5, <1>6 DEF Tick, Reset, BanInv

(* The events of a month.                                                   *)
LEMMA BanKeeps ==
  ASSUME BanInv, applied' \in BOOLEAN,
         \/ \E kind \in ErrorKinds : RecordBanEvent(ClassifyError(kind))
         \/ Tick \/ Reset \/ GetStatus \/ DayPasses \/ UNCHANGED banVars
  PROVE  BanInv'
<1>0. Month \in Nat /\ 0 < Month
  BY BanAssumption
<1>1. CASE \E kind \in ErrorKinds : RecordBanEvent(ClassifyError(kind))
  <2>1. phase' \in {"dead", "recovering", "paused"} /\ rampDay' = 1
        /\ banEvents' = KeepAfter(Append(banEvents, 0), Month)
    BY <1>1 DEF RecordBanEvent, pruneOldEvents
  <2>2. Append(banEvents, 0) \in Times(Month)
    BY <1>0, CountAppend DEF BanInv
  <2>3. banEvents' \in Times(Month)
    BY <1>0, <2>1, <2>2, KeepAfterFilters
  <2> QED
    BY <2>1, <2>3 DEF BanInv, Phases
<1>2. CASE Tick
  BY <1>2 DEF Tick, BanInv, Phases
<1>3. CASE Reset
  BY <1>0, <1>3, AgreeEmpty DEF Reset, BanInv, Phases
<1>4. CASE GetStatus
  <2>1. KeepAfter(banEvents, Month) \in Times(Month)
    BY <1>0, KeepAfterFilters DEF BanInv
  <2> QED
    BY <1>4, <2>1 DEF GetStatus, pruneOldEvents, BanInv
<1>5. CASE DayPasses
  <2>1. Older(banEvents, Month) \in Times(Month)
    BY <1>0, CountOlder DEF BanInv
  <2> QED
    BY <1>5, <2>1 DEF DayPasses, BanInv
<1>6. CASE UNCHANGED banVars
  BY <1>6 DEF banVars, BanInv
<1> QED
  BY <1>1, <1>2, <1>3, <1>4, <1>5, <1>6

-----------------------------------------------------------------------------
(* The first state.                                                         *)
LEMMA RecoveryStarts == Init => RecoveryInv
<1> SUFFICES ASSUME Init PROVE RecoveryInv
  OBVIOUS
<1>1. /\ limits = Preset /\ burstCredit = 0 /\ admitted = {}
      /\ perMinute = <<>> /\ perHour = <<>> /\ perDay = <<>> /\ sentLog = <<>>
      /\ phase = "graduated" /\ banEvents = <<>> /\ rampDay = 0
  BY DEF Init, LimiterInit, BanInit
<1>2. Limited
  <2>1. Preset \in [Windows -> Nat]
    BY LimitsAssumption DEF Preset, Windows
  <2> QED
    BY <1>1, <2>1, LimitAssumption DEF Limited
<1>3. Lists
  BY <1>1, AgreeEmpty, WindowAssumption DEF Lists, Agree
<1>4. Caps
  <2>1. \A w : SentWithin(w) = 0
    BY <1>1, AgreeEmpty, WindowAssumption DEF SentWithin, Count
  <2>2. Cardinality(admitted) = 0
    BY <1>1, FS_EmptySet
  <2>3. Overlap \in Nat
    BY <1>2, AdmittedType
  <2> QED
    BY <1>1, <2>1, <2>2, <2>3, LimitAssumption, LimitsAssumption DEF Caps
<1>5. applied \in BOOLEAN
  BY DEF Init
<1>6. BanInv
  BY <1>1, <1>5, AgreeEmpty, BanAssumption DEF BanInv, Phases
<1>7. Throttled
  <2>1. WithinShare(limits, "graduated", 0)
    BY <1>1, PresetType DEF WithinShare, Num, Den
  <2> QED
    BY <1>1, <2>1 DEF Throttled
<1> QED
  BY <1>2, <1>3, <1>4, <1>6, <1>7 DEF RecoveryInv, CapInv

(* A loop that is let go, and limits that fall, are no danger to the caps.  *)
LEMMA LetGoKeeps ==
  ASSUME CapInv, UNCHANGED sendingVars,
         admitted' = admitted \/ \E l \in admitted : admitted' = admitted \ {l},
         limits' \in [Windows -> Nat], \A w \in Windows : limits'[w] <= Preset[w]
  PROVE  CapInv'
<1>1. UNCHANGED <<perMinute, perHour, perDay, burstCredit, sentLog>>
  BY DEF sendingVars
<1>2. Lists'
  BY <1>1 DEF CapInv, Lists
<1>3. UNCHANGED <<SentWithin(Minute), SentWithin(Hour), SentWithin(Day)>>
  BY <1>1 DEF SentWithin
<1>4. Cardinality(admitted') <= Cardinality(admitted) /\ Cardinality(admitted') \in Int
  BY AdmittedType DEF CapInv
<1>5. PICK m \in Nat, h \in Nat, d \in Nat, n \in Nat, more \in Int, credit \in Nat :
        /\ m = SentWithin(Minute) /\ h = SentWithin(Hour) /\ d = SentWithin(Day)
        /\ n = Cardinality(admitted) /\ more = Overlap /\ credit = burstCredit
  BY SentType, AdmittedType, LimitAssumption DEF CapInv, Limited
<1>6. /\ m + n <= MaxPerMinute + credit + more /\ h + n <= MaxPerHour + more
      /\ d + n <= MaxPerDay + more
  BY <1>5 DEF CapInv, Caps
<1>7. PICK k \in Int : k = Cardinality(admitted') /\ k <= n
  BY <1>4, <1>5
<1>8. /\ m + k <= MaxPerMinute + credit + more /\ h + k <= MaxPerHour + more
      /\ d + k <= MaxPerDay + more
  BY <1>6, <1>7, LimitsAssumption
<1>9. Overlap' = more /\ burstCredit' = credit
  BY <1>1, <1>5 DEF Overlap
<1>10. Caps'
  BY <1>3, <1>5, <1>7, <1>8, <1>9 DEF Caps
<1>11. Limited'
  BY <1>1 DEF CapInv, Limited
<1> QED
  BY <1>2, <1>10, <1>11 DEF CapInv

(* Every step of the limiter and of the recovery keeps the invariant.       *)
LEMMA RecoveryKeeps == RecoveryInv /\ [Next]_vars => RecoveryInv'
<1> SUFFICES ASSUME RecoveryInv, [Next]_vars PROVE RecoveryInv'
  OBVIOUS
<1>0. \A w \in Windows : limits[w] <= Preset[w]
  BY DEF RecoveryInv, CapInv, Limited
<1>1. CASE LimiterNext /\ UNCHANGED <<banVars, applied>>
  <2>1. ASSUME NEW l \in Loop, NotSent(l) PROVE CapInv'
    BY <2>1, LetGoKeeps DEF RecoveryInv, CapInv, Limited, NotSent, sendingVars
  <2>2. CapInv'
    BY <1>1, <2>1, CanSendKeeps, RecordKeeps, TimeKeeps DEF RecoveryInv, LimiterNext, Sending
  <2>3. UNCHANGED limits
    BY <1>1 DEF LimiterNext, Sending, CanSend, Record, NotSent, TimePasses
  <2>4. UNCHANGED <<phase, rampDay, applied, banEvents>>
    BY <1>1 DEF banVars
  <2>5. BanInv'
    BY <2>4 DEF RecoveryInv, BanInv
  <2>6. Throttled'
    BY <2>3, <2>4 DEF RecoveryInv, Throttled, WithinShare
  <2> QED
    BY <2>2, <2>5, <2>6 DEF RecoveryInv
<1>2. ASSUME NEW l \in Loop, NEW kind \in ErrorKinds, AfterSendFailed(l, kind) PROVE RecoveryInv'
  <2>1. /\ l \in admitted /\ admitted' = admitted \ {l} /\ UNCHANGED sendingVars
        /\ RecordBanEvent(ClassifyError(kind))
    BY <1>2 DEF AfterSendFailed
  <2>2. applied' \in BOOLEAN
    BY <1>2 DEF AfterSendFailed
  <2>3. BanInv'
    BY <2>1, <2>2, BanKeeps DEF RecoveryInv
  <2>4. phase' \in {"dead", "recovering", "paused"} /\ rampDay' = 1
    BY <2>1 DEF RecordBanEvent
  <2>5. NewMultiplier \in {<<0, 1>>, <<1, 4>>}
    BY <2>4 DEF NewMultiplier, getRateMultiplier, RecoveryRampPct
  <2>6. ~AtMost(<<1, 1>>, NewMultiplier)
    BY <2>5 DEF AtMost
  <2>7. AdaptLimits(getRateMultiplier(phase', rampDay'))
    BY <1>2, <2>6 DEF AfterSendFailed, NewMultiplier
  <2>8. phase' \in Phases /\ rampDay' \in 0 .. 8
    BY <2>4 DEF Phases
  <2>9. /\ limits' \in [Windows -> Nat] /\ \A w \in Windows : limits'[w] <= Preset[w]
        /\ WithinShare(limits', phase', rampDay')
    BY <2>7, <2>8, AdaptLeaves DEF RecoveryInv, CapInv
  <2>10. CapInv'
    BY <2>1, <2>9, LetGoKeeps DEF RecoveryInv
  <2>11. Throttled'
    BY <2>9 DEF Throttled, WithinShare
  <2> QED
    BY <2>3, <2>10, <2>11 DEF RecoveryInv
<1>3. ASSUME NEW kind \in ErrorKinds, OnStreamError(kind) PROVE RecoveryInv'
  <2>1. RecordBanEvent(ClassifyError(kind)) /\ UNCHANGED limiterVars
    BY <1>3 DEF OnStreamError
  <2>2. applied' \in BOOLEAN /\ ~applied'
    BY <1>3 DEF OnStreamError
  <2>3. BanInv'
    BY <2>1, <2>2, BanKeeps DEF RecoveryInv
  <2>4. CapInv'
    BY <2>1, <1>0, LetGoKeeps DEF RecoveryInv, CapInv, Limited, limiterVars, sendingVars
  <2> QED
    BY <2>2, <2>3, <2>4 DEF RecoveryInv, Throttled
<1>4. CASE OnReconnect
  <2>1. UNCHANGED <<admitted, sendingVars, phase, rampDay, banEvents>>
        /\ AdaptLimits(getRateMultiplier(phase, rampDay))
    BY <1>4 DEF OnReconnect, banVars, Multiplier
  <2>2. applied' \in BOOLEAN
    BY <1>4 DEF OnReconnect
  <2>3. phase \in Phases /\ rampDay \in 0 .. 8
    BY DEF RecoveryInv, BanInv
  <2>4. /\ limits' \in [Windows -> Nat] /\ \A w \in Windows : limits'[w] <= Preset[w]
        /\ WithinShare(limits', phase, rampDay)
    BY <2>1, <2>3, AdaptLeaves DEF RecoveryInv, CapInv
  <2>5. CapInv'
    BY <2>1, <2>4, LetGoKeeps DEF RecoveryInv
  <2>6. BanInv'
    BY <2>1, <2>2 DEF RecoveryInv, BanInv
  <2>7. Throttled'
    BY <2>1, <2>4 DEF Throttled, WithinShare
  <2> QED
    BY <2>5, <2>6, <2>7 DEF RecoveryInv
<1>5. CASE RecoveryCall
  <2>1. UNCHANGED <<limiterVars, applied>> /\ (Tick \/ Reset \/ GetStatus \/ DayPasses)
    BY <1>5 DEF RecoveryCall
  <2>2. CapInv'
    BY <2>1, <1>0, LetGoKeeps DEF RecoveryInv, CapInv, Limited, limiterVars, sendingVars
  <2>3. applied' \in BOOLEAN
    BY <2>1 DEF RecoveryInv, BanInv
  <2>4. BanInv'
    BY <2>1, <2>3, BanKeeps DEF RecoveryInv
  <2>5. UNCHANGED limits
    BY <2>1 DEF limiterVars
  <2>6. CASE Tick \/ Reset
    <3>1. applied => WithinShare(limits, phase', rampDay')
      BY <2>6, ShareGrows DEF RecoveryInv, CapInv, Throttled
    <3>2. Throttled'
      BY <2>1, <2>5, <3>1 DEF Throttled, WithinShare
    <3> QED
      BY <2>2, <2>4, <3>2 DEF RecoveryInv
  <2>7. CASE GetStatus \/ DayPasses
    <3>1. UNCHANGED <<phase, rampDay>>
      BY <2>7 DEF GetStatus, DayPasses
    <3>2. Throttled'
      BY <2>1, <2>5, <3>1 DEF RecoveryInv, Throttled, WithinShare
    <3> QED
      BY <2>2, <2>4, <3>2 DEF RecoveryInv
  <2> QED
    BY <2>1, <2>6, <2>7
<1>6. CASE UNCHANGED vars
  <2>1. UNCHANGED <<limiterVars, banVars, applied>>
    BY <1>6 DEF vars
  <2>2. CapInv'
    BY <2>1, <1>0, LetGoKeeps DEF RecoveryInv, CapInv, Limited, limiterVars, sendingVars
  <2>3. applied' \in BOOLEAN
    BY <2>1 DEF RecoveryInv, BanInv
  <2>4. BanInv'
    BY <2>1, <2>3, BanKeeps DEF RecoveryInv
  <2>5. UNCHANGED <<limits, phase, rampDay>>
    BY <2>1 DEF limiterVars, banVars
  <2>6. Throttled'
    BY <2>1, <2>5 DEF RecoveryInv, Throttled, WithinShare
  <2> QED
    BY <2>2, <2>4, <2>6 DEF RecoveryInv
<1> QED
  BY <1>1, <1>2, <1>3, <1>4, <1>5, <1>6 DEF Next

LEMMA RecoveryInvariant == Spec => []RecoveryInv
  BY RecoveryStarts, RecoveryKeeps, PTL DEF Spec

-----------------------------------------------------------------------------
(* WithinCaps: in every stretch of a minute, an hour or a day the messages  *)
(* that were really sent stay within the caps of the preset, up to the      *)
(* burst and one for each further loop.                                     *)
THEOREM CapsHold == Spec => []WithinCaps
<1>1. RecoveryInv => WithinCaps
  <2> SUFFICES ASSUME RecoveryInv PROVE WithinCaps
    OBVIOUS
  <2>1. PICK m \in Nat, h \in Nat, d \in Nat, n \in Nat, more \in Int, credit \in Nat :
          /\ m = SentWithin(Minute) /\ h = SentWithin(Hour) /\ d = SentWithin(Day)
          /\ n = Cardinality(admitted) /\ more = Overlap /\ credit = burstCredit
          /\ credit <= BurstAllowance
    BY SentType, AdmittedType, LimitAssumption DEF RecoveryInv, CapInv, Limited
  <2>2. /\ m + n <= MaxPerMinute + credit + more /\ h + n <= MaxPerHour + more
        /\ d + n <= MaxPerDay + more
    BY <2>1 DEF RecoveryInv, CapInv, Caps
  <2>3. /\ m <= MaxPerMinute + BurstAllowance + more /\ h <= MaxPerHour + more /\ d <= MaxPerDay + more
    BY <2>1, <2>2, LimitAssumption, LimitsAssumption
  <2> QED
    BY <2>1, <2>3 DEF WithinCaps
<1> QED
  BY <1>1, RecoveryInvariant, PTL

(* ThrottleApplied: once the multiplier of a ban has been applied, no Tick, *)
(* Reset, send or reconnect brings the limits above its share.              *)
THEOREM ThrottleKept == Spec => []ThrottleApplied
<1>1. RecoveryInv => ThrottleApplied
  <2> SUFFICES ASSUME RecoveryInv, applied, NEW w \in DOMAIN limits
               PROVE  AtMost(<<limits[w], 1>>,
                             <<Preset[w] * ClampFactor(Multiplier)[1], ClampFactor(Multiplier)[2]>>)
    BY DEF ThrottleApplied
  <2>1. w \in Windows /\ limits[w] \in Nat
    BY DEF RecoveryInv, CapInv, Limited
  <2>2. limits[w] * Den(phase) <= Preset[w] * Num(phase, rampDay)
    BY <2>1 DEF RecoveryInv, Throttled, WithinShare
  <2>3. ClampFactor(Multiplier) = <<Num(phase, rampDay), Den(phase)>>
    BY ClampedShare DEF RecoveryInv, BanInv, Multiplier
  <2>4. Preset[w] \in Nat /\ Num(phase, rampDay) \in Nat
    BY <2>1, PresetType, ClampedShare DEF RecoveryInv, BanInv
  <2> QED
    BY <2>1, <2>2, <2>3, <2>4 DEF AtMost
<1> QED
  BY <1>1, RecoveryInvariant, PTL

(* RampNeverFalls: no Tick lowers the multiplier, from any phase and on any *)
(* day of the ramp.                                                         *)
THEOREM RampOnlyRises == Spec => RampNeverFalls
<1>1. ASSUME RecoveryInv, Tick PROVE AtMost(Multiplier, NewMultiplier)
  <2>1. CASE phase = "paused"
    <3>1. Multiplier = <<0, 1>> /\ NewMultiplier = <<1, 4>>
      BY <1>1, <2>1 DEF Tick, Multiplier, NewMultiplier, getRateMultiplier, RecoveryRampPct
    <3> QED
      BY <3>1 DEF AtMost
  <2>2. CASE phase = "recovering"
    <3>1. Multiplier = <<1, 4>> /\ NewMultiplier = <<10, 28>>
      BY <1>1, <2>2 DEF Tick, Multiplier, NewMultiplier, getRateMultiplier, RecoveryRampPct
    <3> QED
      BY <3>1 DEF AtMost
  <2>3. CASE phase = "ramping"
    <3>1. PICK d \in 1 .. 7 : d = rampDay
      BY <1>1, <2>3 DEF RecoveryInv, BanInv
    <3>2. Multiplier = <<7 + 3 * d, 28>>
      BY <2>3, <3>1 DEF Multiplier, getRateMultiplier, RecoveryRampPct
    <3>3. CASE d = 7
      <4>1. phase' = "graduated"
        BY <1>1, <2>3, <3>1, <3>3 DEF Tick
      <4>2. NewMultiplier = <<1, 1>>
        BY <4>1 DEF NewMultiplier, getRateMultiplier
      <4> QED
        BY <3>2, <3>3, <4>2 DEF AtMost
    <3>4. CASE d # 7
      <4>1. phase' = "ramping" /\ rampDay' = d + 1
        BY <1>1, <2>3, <3>1, <3>4 DEF Tick
      <4>2. NewMultiplier = <<7 + 3 * (d + 1), 28>>
        BY <3>4, <4>1 DEF NewMultiplier, getRateMultiplier, RecoveryRampPct
      <4> QED
        BY <3>2, <4>2 DEF AtMost
    <3> QED
      BY <3>3, <3>4
  <2> QED
    BY <1>1, <2>1, <2>2, <2>3 DEF Tick
<1>2. RecoveryInv /\ [Next]_vars => [Tick => AtMost(Multiplier, NewMultiplier)]_vars
  BY <1>1
<1> QED
  BY <1>2, RecoveryInvariant, PTL DEF Spec, RampNeverFalls

(* OldBansForgiven: it takes MaxBansBeforeHard bans within one month to     *)
(* declare an account dead, whatever was recorded before.                   *)
THEOREM OldBansAreForgiven == Spec => OldBansForgiven
<1>1. ASSUME RecoveryInv, Next, phase' = "dead", phase # "dead"
      PROVE  Cardinality(Within(banEvents, Month)) + 1 >= MaxBansBeforeHard
  <2>1. PICK kind \in ErrorKinds : RecordBanEvent(ClassifyError(kind))
    BY <1>1 DEF Next, banVars, AfterSendFailed, OnStreamError, OnReconnect, RecoveryCall, Tick, Reset,
                GetStatus, DayPasses
  <2>2. Len(KeepAfter(Append(banEvents, 0), Month)) >= MaxBansBeforeHard
    BY <1>1, <2>1 DEF RecordBanEvent, pruneOldEvents
  <2>3. Month \in Nat /\ Month # 0 /\ banEvents \in Times(Month)
    BY <1>1, BanAssumption DEF RecoveryInv, BanInv
  <2>4. Append(banEvents, 0) \in Times(Month) /\ Count(Append(banEvents, 0), Month) = Count(banEvents, Month) + 1
    BY <2>3, CountAppend
  <2>5. Len(KeepAfter(Append(banEvents, 0), Month)) = Count(banEvents, Month) + 1
    BY <2>3, <2>4, KeepAfterFilters
  <2> QED
    BY <2>2, <2>5 DEF Count
<1>2. RecoveryInv /\ [Next]_vars =>
        [(phase' = "dead" /\ phase # "dead")
           => Cardinality(Within(banEvents, Month)) + 1 >= MaxBansBeforeHard]_vars
  BY <1>1
<1> QED
  BY <1>2, RecoveryInvariant, PTL DEF Spec, OldBansForgiven

-----------------------------------------------------------------------------
(* The day's cap and the longest delay, multiplied: what AdaptLimits takes  *)
(* from the one it gives to the other, and truncation only loses.           *)
Stretched ==
  /\ delays.max \in Nat /\ DOMAIN delays = {"min", "max"}
  /\ limits.day * delays.max <= MaxPerDay * MaxDelay

(* x is at most c * n / q and y at most m * q / n: together at most c * m.  *)
LEMMA ProductFalls ==
  ASSUME NEW c \in Nat, NEW m \in Nat, NEW n \in Nat \ {0}, NEW q \in Nat \ {0},
         NEW x \in Nat, NEW y \in Nat, x * q <= c * n, y * n <= m * q
  PROVE  x * y <= c * m
<1>1. PICK s \in Nat, t \in Nat, u \in Nat, v \in Nat :
        s = x * q /\ t = y * n /\ u = c * n /\ v = m * q
  OBVIOUS
<1>2. s * t <= u * v
  <2>1. s <= u /\ t <= v
    BY <1>1
  <2>2. s * t <= u * t /\ u * t <= u * v
    BY <2>1
  <2> QED BY <2>2
<1>3. PICK xy \in Nat, cm \in Nat, r \in Nat \ {0} : xy = x * y /\ cm = c * m /\ r = q * n
  OBVIOUS
<1>4. s * t = xy * r /\ u * v = cm * r
  BY <1>1, <1>3
<1>5. xy * r <= cm * r
  BY <1>2, <1>4
<1>6. xy <= cm
  <2> SUFFICES ASSUME xy >= cm + 1 PROVE FALSE
    OBVIOUS
  <2>1. xy * r >= (cm + 1) * r
    OBVIOUS
  <2>2. (cm + 1) * r = cm * r + r
    OBVIOUS
  <2> QED BY <1>5, <2>1, <2>2
<1> QED BY <1>3, <1>6

(* AdaptLimits keeps the product.                                           *)
LEMMA AdaptStretches ==
  ASSUME Limited, Stretched, NEW ph \in Phases, NEW day \in 0 .. 8,
         AdaptLimits(getRateMultiplier(ph, day))
  PROVE  Stretched'
<1>1. PICK n \in Nat \ {0}, q \in Nat \ {0} :
        ClampFactor(getRateMultiplier(ph, day)) = <<n, q>> /\ n = Num(ph, day)
  <2>1. Num(ph, day) # 0
    BY DEF Num
  <2> QED BY <2>1, ClampedShare
<1>2. /\ limits'.day = Scale(limits.day, <<n, q>>)
      /\ delays'.max = Stretch(delays.max, <<n, q>>)
      /\ DOMAIN delays' = {"min", "max"}
  BY <1>1 DEF AdaptLimits, AdaptCaps, AdaptDelays, Limited, Windows, Stretched
<1>3. PICK c \in Nat, m \in Nat : c = limits.day /\ m = delays.max
  BY DEF Limited, Windows, Stretched
<1>4. PICK x \in Nat : x = limits'.day /\ x * q <= c * n
  <2>1. PICK cn \in Nat : cn = c * n
    OBVIOUS
  <2>2. cn \div q \in Nat /\ (cn \div q) * q <= cn
    OBVIOUS
  <2>3. limits'.day = cn \div q
    BY <1>2, <1>3, <2>1 DEF Scale
  <2> QED BY <2>1, <2>2, <2>3
<1>5. PICK y \in Nat : y = delays'.max /\ y * n <= m * q
  <2>1. PICK mq \in Nat : mq = m * q
    OBVIOUS
  <2>2. PICK longer \in Nat : longer = mq \div n /\ longer * n <= mq
    OBVIOUS
  <2>3. delays'.max = IF longer > DelayCap THEN DelayCap ELSE longer
    BY <1>2, <1>3, <2>1, <2>2 DEF Stretch
  <2>4. delays'.max \in Nat /\ delays'.max <= longer
    BY <2>3, LimitsAssumption
  <2>5. delays'.max * n <= longer * n
    BY <2>4
  <2> QED BY <2>1, <2>2, <2>4, <2>5
<1>6. x * y <= c * m
  BY <1>4, <1>5, ProductFalls
<1>7. PICK bound \in Int : bound = MaxPerDay * MaxDelay
  BY LimitsAssumption
<1>8. c * m <= bound
  BY <1>3, <1>7 DEF Stretched
<1>9. x * y <= bound
  <2>1. x * y \in Nat /\ c * m \in Nat
    OBVIOUS
  <2> QED BY <1>6, <1>8, <2>1
<1> QED BY <1>2, <1>4, <1>5, <1>7, <1>9 DEF Stretched

(* DelayBounded: however often AdaptLimits has run, the delays stay below   *)
(* what the preset's day cap and delay give while that cap is above zero.   *)
THEOREM DelaysBounded == Spec => []DelayBounded
<1>1. Init => Stretched
  BY LimitsAssumption DEF Init, LimiterInit, Preset, PresetDelays, Stretched
<1>2. RecoveryInv /\ RecoveryInv' /\ Stretched /\ [Next]_vars => Stretched'
  <2> SUFFICES ASSUME RecoveryInv, RecoveryInv', Stretched, [Next]_vars PROVE Stretched'
    OBVIOUS
  <2>1. /\ Limited /\ phase \in Phases /\ rampDay \in 0 .. 8
        /\ phase' \in Phases /\ rampDay' \in 0 .. 8
    BY DEF RecoveryInv, CapInv, BanInv
  <2>2. CASE UNCHANGED <<limits, delays>>
    BY <2>2 DEF Stretched
  <2>3. ASSUME NEW l \in Loop, NEW kind \in ErrorKinds, AfterSendFailed(l, kind) PROVE Stretched'
    <3>1. AdaptLimits(getRateMultiplier(phase', rampDay')) \/ UNCHANGED <<limits, delays>>
      BY <2>3 DEF AfterSendFailed, NewMultiplier
    <3> QED BY <2>1, <2>2, <3>1, AdaptStretches
  <2>4. CASE OnReconnect
    <3>1. AdaptLimits(getRateMultiplier(phase, rampDay))
      BY <2>4 DEF OnReconnect, Multiplier
    <3> QED BY <2>1, <3>1, AdaptStretches
  <2>5. CASE LimiterNext
    BY <2>2, <2>5 DEF LimiterNext, Sending, CanSend, Record, NotSent, TimePasses
  <2> QED BY <2>2, <2>3, <2>4, <2>5 DEF Next, OnStreamError, RecoveryCall, vars, limiterVars
<1>3. RecoveryInv /\ Stretched => DelayBounded
  <2> SUFFICES ASSUME RecoveryInv, Stretched, limits.day > 0
               PROVE  delays.max <= MaxPerDay * MaxDelay
    BY DEF DelayBounded
  <2>1. PICK c \in Nat, m \in Nat, bound \in Int :
          c = limits.day /\ m = delays.max /\ bound = MaxPerDay * MaxDelay
    BY LimitsAssumption DEF RecoveryInv, CapInv, Limited, Windows, Stretched
  <2>2. c > 0 /\ c * m <= bound
    BY <2>1 DEF Stretched
  <2>3. m <= c * m
    BY <2>2
  <2>4. c * m \in Int
    OBVIOUS
  <2> QED BY <2>1, <2>2, <2>3, <2>4
<1> QED BY <1>1, <1>2, <1>3, RecoveryInvariant, PTL DEF Spec
=============================================================================
