SPECIFICATION ArgusSpec
CONSTANTS
  Subject = {"shop"}
  Warning = {"oom"}
  Probe = {"probe"}
  Browser = {b1}
  ClientBuffer = 2
  FeedSize = 2
  NotReadyGrace = 1
  WatchLostAfter = 1
  MaxChanges = 3
  MaxNow = 2
CHECK_DEADLOCK FALSE
INVARIANTS
  StreamAddsUp
  EveryEventHasOneFate
PROPERTIES
  NeverBackwards
  ViewsCatchUp
