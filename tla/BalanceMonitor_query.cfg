SPECIFICATION MonitorSpec
CONSTANTS
  Unknown = Unknown
  Monitor = monitor
  Callers = {q}
  Balances = {0, 1, 3}
  Threshold = 2
  ExactUpTo = 1
  MaxPolls = 1
CHECK_DEADLOCK FALSE
INVARIANTS
  QueryTellsTheBalance
