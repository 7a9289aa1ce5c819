CONSTANTS
  AutoPauseRiskLevel = 50
  MaxIdle = 1
  MaxCallbacks = 2
  MinScore <- MCMinScore
  Handler = {h1, h2}
  MaxTimers = 1
  Socket = {s1, s2}
  NoSocket = NoSocket
  MaxAuto = 2
  Request = {r}
SPECIFICATION EventsSpec
INVARIANTS Hysteresis FlagFollowsHealth NeverStranded RetryNotForgotten
PROPERTY DisconnectSticks
SYMMETRY Symmetry
