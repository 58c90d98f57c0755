SPECIFICATION FairSpec
CONSTANTS
  Names = {db, st, bk}
  Excluded = {bk}
  Database = db
  MaxFaults = 1
  Failing = {"new"}
CHECK_DEADLOCK FALSE
INVARIANTS AllOrNothing
