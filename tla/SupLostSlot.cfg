SPECIFICATION FairSpec
CONSTANTS
  Followers = {f1}
  Leader = leader
  None = None
  MaxForks = 4
  MaxOps = 1
  MaxFaults = 1
  CrashBudget = 3
  Faults = {"recycle"}
CHECK_DEADLOCK FALSE
PROPERTIES AllServing
