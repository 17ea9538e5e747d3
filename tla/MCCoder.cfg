SPECIFICATION Spec
CONSTANTS
  c1 = c1
  c2 = c2
  Callers = {c1, c2}
  Settings <- MCSettings
  Requests <- MCRequests
  Positions = {64, 99, 299}
  MaxCalls = 1
INVARIANTS TypeOK CodedOnce RangesPartition Reusable RowsMatch
CHECK_DEADLOCK FALSE
PROPERTIES CacheSpec CallsReturn
