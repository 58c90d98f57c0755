SPECIFICATION Spec
CONSTANTS
  Workers = {1, 2}
  Hosts = {1}
  PerHost = 1
  Sources = {2}
  MaxEvents = 1
  MaxFaults = 0
  Faults = {}
CHECK_DEADLOCK FALSE
INVARIANTS AllReached
