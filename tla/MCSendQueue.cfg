CONSTANTS
  Caller = {c1, c2}
  NoCaller = NoCaller
  QueueCap = 1
  MaxStarts = 2
SPECIFICATION Spec
SYMMETRY Symmetry
INVARIANTS Conservation HonestReply BoundedSlip
PROPERTY ImplementsSendService
