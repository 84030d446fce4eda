SPECIFICATION FairSpec
CONSTANTS
  Async = FALSE
  Deleted = FALSE
  QueueLen = 1
  EventsLen = 2
  CmdsLen = 2
  MaxRec = 2
  MaxMsg = 1
  MaxMeta = 2
  MaxBoots = 1
INVARIANTS
  ReleasedOnlySent
  MetaDelivered
  CoredumpKept
PROPERTY
  InProgressEnds
