SPECIFICATION HostSpec
CONSTANTS
  Threads = {t1, t2}
  NoThread = none
  PoolSize = 2
  MaxRetries = 2
  MaxCalls = 3
  Handlers = {h1, h2}
  NoHandler = none
  Maps = {m, n}
  MaxRequests = 3
  Drivers = {"d", "e"}
  Jobs = {1, 2}
  Orders <- MCOrders
  MaxUploads = 2
INVARIANTS
  HostTypeOK
  RunsAtMostOnce
  OneUserPerClient
  StartIsUndisturbed
  MapsSurviveCreates
  CountersHeal
PROPERTY
  JobsEnd
CHECK_DEADLOCK FALSE
