SPECIFICATION Spec
CONSTANTS
  MaxArgs = 0
  Formats <- NoFormats
  LogSize = 1
  PtSize = 1
  StrSize = 2
  HdrSize = 1
  MaxMetrics = 2
  MaxVariables = 1
  Tags = {s, t}
  Keys = {a, b}
  MaxChanges = 3
SYMMETRY Names
INVARIANTS
  TablesWhole
  WalkIsSafe
  CloudKnowsTables
  MetaWellFormed
