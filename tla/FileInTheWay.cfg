SPECIFICATION Spec
CONSTANTS
  Paths <- MCPaths
  Contents <- MCContents
  Submodule = "submodule"
  Sources <- MCSources
  Payload <- MCPayload
  OwnedPaths <- MCOwned
  PrunedPaths <- MCPruned
  InTheWay <- FileInTheWay
  Branches = {"main", "version"}
  Trunk = "main"
  FirstTrees <- MainOnly
  Edits <- MCEdits
  NoFile = "none"
  MaxEdits = 1
  MaxFaults = 0
  MaxSwitches = 0
PROPERTIES OtherPathsAreKept
