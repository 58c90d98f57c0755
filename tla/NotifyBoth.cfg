SPECIFICATION FairSpec
CONSTANTS
  Workers = {w1, w2}
  Kinds = {"settings", "collections"}
  None = None
  MaxSaves = 2
  TxKinds = {}
  MaxTxs = 0
  MaxRestarts = 0
  MaxFails = 0
CHECK_DEADLOCK FALSE
PROPERTIES CachesCatchUp
