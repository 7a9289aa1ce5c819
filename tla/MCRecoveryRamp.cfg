CONSTANTS
  Minute = 1
  Hour = 2
  Day = 3
  MaxPerMinute = 2
  MaxPerHour = 5
  MaxPerDay = 12
  MinDelay = 1
  MaxDelay = 2
  DelayCap = 2
  BurstAllowance = 0
  Loop = {l1}
  MaxLogged = 1
  Month = 2
  MaxBansBeforeHard = 3
  MaxEvents = 3
SPECIFICATION Spec
INVARIANT RampsUp
