SPECIFICATION FairSpec
CONSTANTS
  Followers = {f1}
  Leader = leader
  None = None
  MaxForks = 5
  MaxOps = 1
  MaxFaults = 2
  CrashBudget = 2
  Faults = {"start", "crash", "swap", "signal"}
CHECK_DEADLOCK FALSE
INVARIANTS NoOrphans GuardReleasedLast RestoringOwned
PROPERTIES AllServing ShutdownCompletes RestoreEnds
