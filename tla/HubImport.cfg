SPECIFICATION FairSpec
CONSTANTS
  Repos <- MCRepos
  KindOf <- MCKindOf
  Cards = {"c", "d"}
  NoCard = "none"
  Arguments <- MCArguments
  MaxChanges = 1
  MaxFaults = 1
  MaxEdits = 1
INVARIANTS FetchedIsAccepted AcceptedIsTheHubs
PROPERTIES RefreshRepairs
