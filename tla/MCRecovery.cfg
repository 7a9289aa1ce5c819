CONSTANTS
  Minute = 1
  Hour = 2
  Day = 3
  MaxPerMinute = 1
  MaxPerHour = 2
  MaxPerDay = 4
  MinDelay = 1
  MaxDelay = 1
  DelayCap = 5
  BurstAllowance = 1
  Loop = {l1, l2}
  MaxLogged = 6
  Month = 2
  MaxBansBeforeHard = 3
  MaxEvents = 3
SPECIFICATION Spec
INVARIANTS WithinCaps ThrottleApplied DelayBounded
PROPERTIES RampNeverFalls OldBansForgiven
SYMMETRY Symmetry
