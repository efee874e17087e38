CONSTANTS
  Mails = {1}
  MaxRetries = 1
  SkipBounceRetry = TRUE
  WorkerCount = 1
  BatchLimit = 1
  RetryLimit = 1
  Arrivals <- GoodOrKept
  Stalled = {}
  ListenOutcomes = {TRUE, FALSE}
  MaxCrashes = 1
  MaxDbFaults = 0
  MaxOperator = 1
  MaxDisturbances = 1
SPECIFICATION FairSpec
PROPERTIES EventuallySettled LogCatchesUp
