SPECIFICATION Spec
CONSTANTS
  Kid = {c1}
  NoKid = NoKid
  NoNotice = NoNotice
  TicksPerDay = 2
  Offset = 1
  NoticeId = {1, 2, 3}
  Sweeper = {s1}
  Producer = {p1}
  Worker = {w1}
  Token = {k1}
  Cap = 1
  Attempts = 2
  Setup <- MCSetup
  Billed = FALSE
  MaxTime = 1
  MaxAsked = 2
  MaxFault = 2
  Edited = {"DAILY_STUDY"}
INVARIANTS
  EmailReachesParent
CHECK_DEADLOCK FALSE
