SPECIFICATION FairSpec
CONSTANTS
  Path = {p1, p2}
  MaxAttempts = 5
  MaxVersion = 3
  MaxOps = 3
  MaxFaults = 1
INVARIANTS SnapshotComplete WatchesBehind
PROPERTIES FilesNeverGoBack Converges
CHECK_DEADLOCK FALSE
