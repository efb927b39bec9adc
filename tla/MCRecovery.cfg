SPECIFICATION Spec
CONSTANTS
  Kinds = {"order", "account"}
  Window = 2
  MaxRequests = 4
  Undecodable = {3}
  KindOf <- MCKindOf
  TradesOf <- MCTradesOf
  Prefetch = 2
  Retention = 1
  MaxCrashes = 2
  MaxSnapshots = 2
INVARIANTS TypeOK Recovered CanStart RequestsKept
PROPERTIES RequestLogSpec Answered
CHECK_DEADLOCK FALSE
