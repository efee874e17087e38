SPECIFICATION Spec
CONSTANTS
  Sessions = {s1}
  Mails = {m1, m2}
  Rcpts = {local, foreign}
  Domains = {here, away}
  local = local
  foreign = foreign
  here = here
  away = away
  DomainOf <- Homes
  MaxRecipients = 2
  MaxAdmin = 1
SYMMETRY Symmetric
INVARIANTS QueuedAsNamed NothingElseQueued
PROPERTIES OutboundAuthenticated KeepsPromise
