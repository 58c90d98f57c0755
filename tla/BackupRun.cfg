SPECIFICATION FairSpec
CONSTANTS
  Workers = {w1, w2, w3}
  Joiners = {w3}
  Files = {f1}
  None = None
  MaxLeases = 2
  MaxFaults = 1
  Faults = {"timeout", "request", "error", "capture", "exit"}
CHECK_DEADLOCK FALSE
INVARIANTS ArchiveComplete FlagsFollowLease OneBackup
PROPERTIES BackupEnds
