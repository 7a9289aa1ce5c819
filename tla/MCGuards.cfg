CONSTANTS
  JID = {j, k}
  NoJID = NoJID
  Loop = {l1, l2}
  Threshold = 2
  Cooldown = 3
  Stale = 1
  MaxFailures = 4
  add = add
  create = create
  GroupOp = {add, create}
  GroupLimit <- Limits
  GroupWindow = 2
  MaxGroupTime = 5
  MaxGroupOps = 6
  RetryMsg = {m}
  SpiralThreshold = 2
  RetryWindow = 2
  RetryLag = 1
  MaxRetries = 4
  DeliveryHour = 2
  MaxSent = 3
  MaxReceipts = 6
  Endpoints = 3
  FailLimit = 2
  FailCap = 2
  Weight <- Weights
  MaxTickers = 2
SPECIFICATION GuardsSpec
INVARIANTS
  StateMatchesFailures RepeatedFailuresBlock
  GroupCap SpiralDetection DeliveryStatsExact RotatorChoice StopIsSafe
PROPERTIES AutoRecovers RetriesForgotten RotorsEnd
