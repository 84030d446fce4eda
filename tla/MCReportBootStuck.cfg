SPECIFICATION FairNetSpec
CONSTANTS
  Async = TRUE
  Deleted = FALSE
  QueueLen = 1
  EventsLen = 2
  CmdsLen = 2
  MaxRec = 0
  MaxMsg = 2
  MaxMeta = 1
  MaxBoots = 0
PROPERTY
  BootResolves
