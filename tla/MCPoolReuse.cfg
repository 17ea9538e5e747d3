SPECIFICATION Spec
CONSTANTS
  c1 = c1
  c2 = c2
  Callers = {c1}
  Settings <- WideSettings
  Requests <- ReuseRequests
  Positions = {64}
  MaxCalls = 2
INVARIANT Reusable
CHECK_DEADLOCK FALSE
