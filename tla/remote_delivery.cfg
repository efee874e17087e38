CONSTANTS
  NumHosts = 2
  MaxAddrs = 2
  MaxUnread = 2
SPECIFICATION FairSpec
INVARIANTS TakenTwiceOnlyAfterError AnswersMatch ListExhausted PermanentHasReason
PROPERTIES KeepsContract Returns GoesForward
