SPECIFICATION FairSpec
CONSTANTS
  Domains = {d1, d2}
  Names = {mail, smtp}
  MaxTasks = 2
INVARIANTS ChallengeAnswered
PROPERTIES SetupCertified NobodyWaitsForever CatchesUp
CHECK_DEADLOCK FALSE
