SPECIFICATION Spec
CONSTANTS
  r1 = r1
  r2 = r2
  a = a
  b = b
  none = none
  Runs <- MCRuns
  Bundles <- MCBundles
  IntegralTypes <- MCIntegralTypes
  OtherTypes <- NoTypes
  NotABundle <- none
  NumBlocks = 2
  Strict = TRUE
  Chained = TRUE
  MaxCalls = 5
SYMMETRY Symmetry
INVARIANTS
  TypeOK
  ServesOwnRegime
  MissesToldApart
  ReceiptsExplainTable
  ReceiptsReplay
  CountersMatchReceipts
PROPERTIES
  EvictsOldestAdmission
  RegimeMovesOnlyByEviction
  ImplementsRegimeCache
