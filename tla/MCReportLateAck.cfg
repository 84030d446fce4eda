SPECIFICATION Spec
CONSTANTS
  Async = TRUE
  Deleted = FALSE
  QueueLen = 1
  EventsLen = 2
  CmdsLen = 2
  MaxRec = 2
  MaxMsg = 3
  MaxMeta = 1
  MaxBoots = 0
INVARIANT
  NothingLost
