SPECIFICATION FairSpec
CONSTANTS
  Parent = {p1, p2}
  NoParent = NoParent
  Email = {e1, e2}
  NoEmail = NoEmail
  Invitation = {i1}
  Card = {c1, c2}
  NoCard = NoCard
  Method = {m1, m2}
  Export = {x1}
  Invoice = {v1}
  Request = {r1, r2}
  TokenTtl = 1
  InviteTtl = 1
  ExportTtl = 1
  Keep = 1
  InvoiceRetain = 1
  ConsentRetain = 1
  MaxTime = 2
  MaxAsked = 3
  MaxFault = 1
INVARIANTS
  TypeOK
  BytesFollowRows
  
  UsedInvitationIsSpent
PROPERTIES
  ExportsSettle
CHECK_DEADLOCK FALSE
