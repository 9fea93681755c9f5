SPECIFICATION FairSpec
CONSTANTS
  Kid = {"k1", "k2", "k3"}
  NoKid = NoKid
  Name = {"ann", "bob", "cat"}
  NoName = NoName
  Foreign = {}
  Given <- MCGiven
  Limits = {1, 2}
  Request = {r1, r2}
  Prize = {p1}
  NoPrize = NoPrize
  Terms <- MCTerms
  Window = 1
  MaxTime = 2
  MaxAsked = 3
  MaxCrash = 1
INVARIANTS
  TypeOK
  LimitOverrun
PROPERTIES
  PurgeSparesRestored
  FulfilledOnce
  DueChildrenGo
CHECK_DEADLOCK FALSE
