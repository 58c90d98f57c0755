SPECIFICATION PartsSpec
CONSTANTS
  Names = {db, aux, st, bk}
  Excluded = {bk}
  Database = db
  MaxFaults = 2
  Failing = {"quiesce", "old", "new", "restart", "undo new", "undo old", "back", "abort"}
  Workers = {1, 2, 3}
  Hosts = {1}
  PerHost = 2
  Sources = {2}
  MaxEvents = 1
  MaxLost = 1
  Faults = {"exit", "delivery", "request", "event", "recycle"}
CHECK_DEADLOCK FALSE
INVARIANTS DoneOrUndone ExcludedKept EventReaches
PROPERTIES ClusterResumes Converges
