SPECIFICATION FairSpec
CONSTANTS
  Paths <- MCPaths
  Contents <- MCContents
  Submodule = "submodule"
  Sources <- MCSources
  Payload <- TwinPayload
  OwnedPaths <- None
  PrunedPaths <- TwinPruned
  InTheWay <- FileInTheWay
  Branches = {"main"}
  Trunk = "main"
  FirstTrees <- MainOnly
  Edits <- MCEdits
  NoFile = "none"
  MaxEdits = 2
  MaxFaults = 1
  MaxSwitches = 1
PROPERTIES ImplementsHubMirror RunsConverge
