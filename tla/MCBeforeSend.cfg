CONSTANTS
  User = {u1, u2, u3, u4, u5}
  MaxSize = 3
  HoursPerDay = 4
  ActiveHourStart = 1
  ActiveHourEnd = 3
  MaxPerMinute = 0
  MaxPerHour = 0
  MaxPerDay = 3
  MinDelay = 4
  MaxDelay = 40
  DelayCap = 40
  InitialDailyLimit = 1
  WarmUpDays = 3
  InactivityTD = 5
  Growth = {0, 6}
  Loop = {l1, l2}
  Chat = {p, g}
  Person = {p}
  Group = {g}
  NoChat = NoChat
  BlockDuration = 2
  MaxStrangerPerDay = 1
  GroupLurkPeriod = 2
  Sender = {s1, s2}
  Lifter = {t1, t2, t3}
  MaxErrors = 3
  RampDuration = 4
  InitialRate = 25
SPECIFICATION PartsSpec
INVARIANTS
  MapsInverse OrderMatchesCache Bounded
  WakesInActiveHours WarmUpPace AdmissionSlips
  NoSpuriousLift ThrottleHolds
PROPERTIES ImplementsContactBook LiftAnnounced
