SPECIFICATION PartsSpec
CONSTANTS
  Tasks = {t1, t2, t3}
  None = None
  MaxSyncs = 2
  Callers = {r1, r2}
  Saves = {1, 2}
  NoCaller = NoCaller
  MaxDepth = 3
  MaxEnters = 3
  Entries = {1, 2, 3, 4, 5}
  BatchSize = 2
CHECK_DEADLOCK FALSE
INVARIANTS Isolated OutcomeTold HooksTold KeptOnce
PROPERTIES SerialSpec CallsEnd TurnComes StopEnds
