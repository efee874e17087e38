CONSTANTS
  Mails = {1}
  MaxRetries = 1
  SkipBounceRetry = TRUE
  WorkerCount = 1
  BatchLimit = 1
  RetryLimit = 1
  Arrivals <- PlainArrivals
  Stalled = {}
  ListenOutcomes = {TRUE}
  MaxCrashes = 0
  MaxDbFaults = 0
  MaxOperator = 0
  MaxDisturbances = 0
SPECIFICATION Spec
INVARIANT NoDuplicateDelivery
