SPECIFICATION FairServer
CONSTANTS
  Unset = unset
  Empty = empty
  Malformed = malformed
  Environments <- MCEnvironments
  Requests = {r1, r2}
  PoolSize = 1
CHECK_DEADLOCK FALSE
INVARIANTS ServerTypeOK SuccessLosesNobody RoutesSeparated
PROPERTIES SweeperStops ProgressWhenDbAnswers
