CONSTANTS
  Chat = {a}
  EventSaver = {e1}
  MaxSends = 1
  MaxCrashes = 1
SPECIFICATION PersistSpec
INVARIANT StopSaves
