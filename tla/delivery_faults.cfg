CONSTANTS
  Mails = {1}
  MaxRetries = 1
  SkipBounceRetry = FALSE
  WorkerCount = 1
  BatchLimit = 1
  RetryLimit = 1
  Arrivals <- GoodOrKept
  Stalled = {}
  ListenOutcomes = {TRUE}
  MaxCrashes = 1
  MaxDbFaults = 1
  MaxOperator = 1
  MaxDisturbances = 3
SPECIFICATION Spec
INVARIANTS OwnedWhileDelivering HonestOutcome FullBudget
PROPERTIES LogWrittenOnce KeepsCustody
