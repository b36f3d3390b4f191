SPECIFICATION SystemSpec
CONSTANTS
  r1 = r1
  r2 = r2
  b1 = b1
  b2 = b2
  none = none
  Runs <- MCRuns
  Bundles <- MCBundles
  IntegralTypes <- MCIntegralTypes
  OtherTypes <- NoTypes
  NotABundle <- none
  NumBlocks = 2
  Strict = FALSE
  Chained = FALSE
  MaxCalls = 7
  BlockSize = 2
  Zero <- MCZero
  MaxWrites = 3
  MaxRequest = 2
SYMMETRY Symmetry
PROPERTIES ImplementsPagedServing
