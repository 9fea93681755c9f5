SPECIFICATION FairSpec
CONSTANTS
  Parent = parent
  OAuth = TRUE
  NoSession = NoSession
  Session = {t1, t2}
  Req = {r1, r2}
  Sweeper = {w1}
  Child = {}
  Retain = 1
  Ttl = 2
  MaxTime = 2
  MaxAsked = 5
INVARIANTS
  NoSessionsAfterPurge
PROPERTIES
  WindowCloses
CHECK_DEADLOCK FALSE
