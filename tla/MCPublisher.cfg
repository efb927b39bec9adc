SPECIFICATION Spec
CONSTANTS
  MaxRecords = 3
  BatchSize = 2
  Rows = {"account", "order"}
  RowOf <- MCRowOf
  HasTrade <- MCHasTrade
  MaxFaults = 2
  MaxRestarts = 1
INVARIANTS TypeOK DatabaseExact NothingSkipped NothingLost
PROPERTIES CursorsAdvance Projected Published
CHECK_DEADLOCK FALSE
