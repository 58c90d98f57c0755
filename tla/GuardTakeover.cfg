SPECIFICATION FairSpec
CONSTANTS
  Procs = {p1, p2}
  Dead = Dead
  None = None
  MaxCrashes = 0
  Guards = {Dead}
CHECK_DEADLOCK FALSE
INVARIANTS OneOwner
