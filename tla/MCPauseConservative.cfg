CONSTANTS
  AutoPauseRiskLevel = 30
  MaxIdle = 1
  MaxCallbacks = 2
  MinScore <- MCMinScore
  Handler = {h1}
  MaxTimers = 1
SPECIFICATION Spec
INVARIANT PausedOnElevatedRisk
