CONSTANTS
  Caller = {c1}
  NoCaller = NoCaller
  QueueCap = 1
  MaxStarts = 2
SPECIFICATION Spec
INVARIANT StopReturns
