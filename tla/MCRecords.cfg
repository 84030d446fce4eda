SPECIFICATION Spec
CONSTANTS
  MaxArgs = 16
  LogSize = 1
  PtSize = 1
  StrSize = 2
  HdrSize = 1
  ReadCap = 5
  Formats <- MCFormats
  DataTypes = {"INT", "STR"}
  MaxCalls = 3
  MaxBoots = 2
INVARIANTS
  DocumentsWellFormed
  ConsumesWholeRecords
  FrontIsConsumed
  TakenOnce
  ArgsSurvive
CHECK_DEADLOCK FALSE
