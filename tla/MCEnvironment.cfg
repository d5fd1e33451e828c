SPECIFICATION EnvSpec
CONSTANTS
  MaxTag = 2
  Migrates = TRUE
  NotReadyGrace = 0
  OutOfSyncStuckAfter = 0
  ArrivingStuckAfter = 0
  UnreleasedAfter = 1
  LeavingStuckAfter = 0
  MaxCommits = 3
  MaxEvents = 3
  MaxCommitsDeleted = 1
  MaxFaults = 1
INVARIANTS NotDegradedWhileServing QuietMeansLanded
PROPERTIES HopsMoveForward NothingStallsSilently
CHECK_DEADLOCK TRUE
