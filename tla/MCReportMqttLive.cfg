SPECIFICATION FairSpec
CONSTANTS
  Async = TRUE
  Deleted = FALSE
  QueueLen = 1
  EventsLen = 2
  CmdsLen = 2
  MaxRec = 1
  MaxMsg = 2
  MaxMeta = 1
  MaxBoots = 0
PROPERTY
  InProgressEnds
