SPECIFICATION Spec
CONSTANTS
  run1 = run1
  run2 = run2
  regime1 = regime1
  regime2 = regime2
  Runs <- MCRuns
  Bundles <- MCBundles
  NumBlocks = 2
  Strict = TRUE
  BlockSize = 2
  none = none
  Zero <- MCZero
  MaxWrites = 4
  MaxRequest = 2
SYMMETRY Symmetry
INVARIANTS BoundPagesHoldTheirRows
PROPERTIES AttendsUnderOwnRegime
