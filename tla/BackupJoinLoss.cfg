SPECIFICATION FairSpec
CONSTANTS
  Workers = {w1, w2}
  Joiners = {w2}
  Files = {f1}
  None = None
  MaxLeases = 2
  MaxFaults = 0
  Faults = {"timeout", "exit"}
CHECK_DEADLOCK FALSE
INVARIANTS SnapshotArchived
