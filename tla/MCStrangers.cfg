CONSTANTS
  Chat = {p, g}
  Person = {p}
  Group = {g}
  NoChat = NoChat
  BlockDuration = 2
  MaxStrangerPerDay = 1
  GroupLurkPeriod = 2
  Sender = {s1, s2}
SPECIFICATION StrangersSpec
INVARIANT StrangersLimited
