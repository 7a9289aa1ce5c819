CONSTANTS
  Caller = {c1}
  NoCaller = NoCaller
  QueueCap = 1
  MaxStarts = 2
  Chat = {a}
  EventSaver = {e1}
  MaxSends = 1
  MaxCrashes = 1
SPECIFICATION ClientSpec
INVARIANTS NeverTorn CleanMeansSaved
PROPERTIES CancelFrees Answered StopEndsLoops SavedEventually
