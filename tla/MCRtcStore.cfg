SPECIFICATION Spec
CONSTANTS
  MaxMeta = 2
  IdxMod = 8
  BootMod = 2
  Gen = {0}
  CritSize = 4
  NoncSize = 5
  CritLen = 2
  NoncLens = {2, 3}
  Overwrite = FALSE
  MaxInits = 3
INVARIANTS
  TypeOK
  HeaderFresh
  BootsTold
  ConsumedIsOldest
  AlignedFront
