SPECIFICATION FairSpec
CONSTANTS
  Paths <- MCPaths
  Contents <- MCContents
  Submodule = "submodule"
  Sources <- MCSources
  Payload <- MCPayload
  OwnedPaths <- MCOwned
  PrunedPaths <- MCPruned
  InTheWay <- FileInTheWay
  Branches = {"main", "version"}
  Trunk = "main"
  FirstTrees <- MainOnly
  Edits <- MCEdits
  NoFile = "none"
  MaxEdits = 2
  MaxFaults = 1
  MaxSwitches = 1
INVARIANTS TypeOK ReportedWasServed
PROPERTIES NoCommitLost UnmanagedFilesSurvive EveryPushIsNeeded ImplementsHubMirror RunsConverge
