CONSTANTS
  Mails = {1,2}
  MaxRetries = 0
  SkipBounceRetry = TRUE
  WorkerCount = 2
  BatchLimit = 2
  RetryLimit = 2
  Arrivals <- PlainArrivals
  Stalled = {1}
  ListenOutcomes = {FALSE}
  MaxCrashes = 0
  MaxDbFaults = 0
  MaxOperator = 0
  MaxDisturbances = 0
SPECIFICATION FairSpec
PROPERTY NotBlockedBySlowMail
