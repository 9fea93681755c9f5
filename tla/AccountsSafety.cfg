SPECIFICATION Spec
CONSTANTS
  Parent = parent
  OAuth = TRUE
  NoSession = NoSession
  Session = {t1, t2, t3, t4}
  Req = {r1, r2}
  Sweeper = {}
  Child = {c1}
  Retain = 1
  Ttl = 0
  MaxTime = 1
  MaxAsked = 6
SYMMETRY Symmetric
INVARIANTS
  TypeOK
  RevokedByDeletion
  LineageIsForward
  BoundedFork
CHECK_DEADLOCK FALSE
