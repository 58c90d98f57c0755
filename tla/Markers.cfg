SPECIFICATION PartsSpec
CONSTANTS
  Procs = {p1, p2, p3}
  Dead = Dead
  None = None
  MaxCrashes = 2
  Guards = {None}
  Workers = {w1, w2}
  Kinds = {"settings", "collections"}
  MaxSaves = 2
  TxKinds = {"settings", "collections"}
  MaxTxs = 1
  MaxRestarts = 1
  MaxFails = 1
CHECK_DEADLOCK FALSE
INVARIANTS OneOwnerAlive SettingsCommitted
PROPERTIES GuardKept StartEnds 
