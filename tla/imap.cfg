SPECIFICATION FairSpec
CONSTANTS
  Sessions = {s1}
  MaxMail = 3
INVARIANTS CachedUidsHold
PROPERTIES NewMailAnnounced IdleEnds
