SPECIFICATION Spec
CONSTANTS
  Async = TRUE
  Deleted = TRUE
  QueueLen = 1
  EventsLen = 2
  CmdsLen = 2
  MaxRec = 2
  MaxMsg = 2
  MaxMeta = 1
  MaxBoots = 1
INVARIANTS
  TypeOK
  SomeoneWillClear
  ReleasedOnlySent
  CoredumpKept
