SPECIFICATION Spec
CONSTANTS
  r1 = r1
  r2 = r2
  a = a
  b = b
  none = none
  Runs <- MCRuns
  Bundles <- MCBundles
  IntegralTypes <- MCIntegralTypes
  OtherTypes <- MCOtherTypes
  NotABundle <- none
  NumBlocks = 3
  Strict = TRUE
  Chained = FALSE
  MaxCalls = 6
SYMMETRY Symmetry
INVARIANTS
  AddressBook
  EveryBlockHasOnePlace
  RunsAreLive
