SPECIFICATION FairSpec
CONSTANTS
  LevelSpan = 2
  HistoryLength = 2
  LowMastery = 40
  StruggleAfter = 2
  Kid = {"k1"}
  Subject = {"math", "art"}
  Topic = {"t1", "t2"}
  HwId = {"h1", "h2"}
  NoHw = NoHw
  EventId = {"e1", "e2", "e3"}
  NoEvent = NoEvent
  Event <- MCEvent
  Given <- MCGiven
  Consumer = {c1, c2}
  Enforce = TRUE
  Assignable <- MCAssignable
  MaxTime = 2
  MaxAsked = 2
  MaxCrash = 1
INVARIANTS
  TypeOK
  
  StatusIsEarned
  
PROPERTIES
  ReceiverSpec
  OverdueEventually
  QueueDrains
CHECK_DEADLOCK FALSE
