SPECIFICATION Spec
CONSTANTS
  Parent = parent
  OAuth = FALSE
  NoSession = NoSession
  Session = {t1}
  Req = {r1, r2}
  Sweeper = {}
  Child = {}
  Retain = 1
  Ttl = 3
  MaxTime = 1
  MaxAsked = 3
INVARIANT DeletionCanBeCancelled
CHECK_DEADLOCK FALSE
