SPECIFICATION AppCreateSpec
CONSTANTS
  Name = {"shop", "cart"}
  Repo = {"shop"}
  Options <- MCOptions
  Contents <- MCContents
  MaxRuns = 2
  MaxRepos = 3
CHECK_DEADLOCK FALSE
INVARIANTS
  ApplicationsHaveTheirRepository
  RefusalsComeFirst
  ApplicationsFit
