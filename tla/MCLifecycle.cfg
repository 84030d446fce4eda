SPECIFICATION Spec
CONSTANTS
  MinPeriod = 1
  MaxPeriod = 2
  QueueCap = 2
  Layouts = {1, 2}
  NoCrc = 0
INVARIANTS
  TypeOK
  UpMeansWhole
  DeadOnlyAfterDisable
  ChainGoesOn
  ForeignOnlyAfterLostCrc
PROPERTY
  CallbacksGoOn
