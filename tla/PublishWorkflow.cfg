SPECIFICATION FairSpec
CONSTANTS
  Commits = {"first", "second", "docs", "fork"}
  Reviewed = {"first", "second", "docs"}
  Content <- MCContent
  Branches = {"main", "version"}
  Main = "main"
  Absent = "absent"
  Foreign = "foreign"
  None = None
  Requests <- MCRequests
  MaxRequests = 3
  MaxEdits = 1
PROPERTIES OnlyReviewedIsPublished TwinFollowsKernel DriftGuardIsSound LostReleasesAreNoticed
