SPECIFICATION PartsSpec
CONSTANTS
  Followers = {f1}
  Leader = leader
  None = None
  MaxForks = 4
  MaxOps = 1
  MaxFaults = 2
  CrashBudget = 2
  Faults = {"start", "crash", "recycle", "slow", "delivery", "swap", "stray"}
  Remotes = {v}
  Parent = p
  Child = c
  Ops = {1, 2}
  MaxMissed = 1
  Servers = {a, b}
  Requests = {1, 2, 3}
  OldMax = 2
  NewMax = 1
  Interval = 2
  Keep = 0
  MaxTime = 3
  MaxLate = 1
  TTL = 2
  MaxClock = 3
  Savers = {s1, s2}
  Partial = {s2}
  Nobody = Nobody
  MaxSaves = 2
  MaxFails = 1
  Handlers = {"e", "g", "t"}
  Early = {"e"}
  Tagged = {"t"}
  Events = {x, y}
  Matching = {y}
  OneOff = "one-off"
  MaxChanges = 2
  People = {"x", "y", "z"}
  Owners = {"x"}
  MaxDeletes = 1
  MaxSets = 1
  Updates = {1, 2}
  Ids = {1, 2}
  Names = {m, n}
  Procs = {p, q}
  System = {1, 2}
  App = {3, 4}
  Aux = {1, 3}
  Repaired = {1}
  MaxRuns = 4
  MaxTorn = 1
  Paths = {p, q}
  Busy = p
  PerPath = 4
  Permits = 2
CHECK_DEADLOCK FALSE
INVARIANTS NoStale DeletesTold LimitsKept ClaimsKept FilesMatch AllRun NoDangling DefinitionsAgree HistoryTrue PermitsKept
