SPECIFICATION Spec
CONSTANTS
  Size = 5
  OffsetMod = 16
  MinRecord = 2
  MaxRecord = 4
  a = a
  b = b
  Byte <- MCByte
  Records <- MCRecords
  PieceEnds <- Pieces
  Garbage <- MCGarbage
INVARIANTS
  TypeOK
  InBounds
  CopiedInPlace
  CopyInBounds
  ReadsOldest
PROPERTY
  ImplementsFifo
