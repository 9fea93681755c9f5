SPECIFICATION FairSpec
CONSTANTS
  basic = basic
  plus = plus
  Plan <- MCOnePlan
  Price <- MCOnePrice
  OverflowPrice = 20
  Period = 2
  Api = {a1}
  Hook = {h1}
  Sweeper = {s1}
  Event = {e1}
  Intent = {i1}
  How = {"intent", "ref"}
  Unreported <- MCUnreported
  MaxSuccess = 1
  MaxTime = 2
  MaxSub = 2
  MaxAsked = 4
  NoEvent = NoEvent
  NoIntent = NoIntent
  NoPlan = NoPlan
INVARIANT NoOrphans
PROPERTIES
  EventuallyProcessed
  EventuallyPurged
CHECK_DEADLOCK FALSE
