SPECIFICATION Spec
CONSTANTS
  basic = basic
  plus = plus
  Plan <- MCPlan
  Price <- MCPrice
  OverflowPrice = 20
  Period = 2
  Api = {a1}
  Hook = {h1, h2}
  Sweeper = {}
  Event = {e1, e2}
  Intent = {i1, i2}
  How = {"intent"}
  Unreported = {}
  MaxSuccess = 1
  MaxTime = 1
  MaxSub = 1
  MaxAsked = 4
  NoEvent = NoEvent
  NoIntent = NoIntent
  NoPlan = NoPlan
SYMMETRY Symmetric
INVARIANTS
  TypeOK
  OneInvoicePerEvent
  LedgerRowMeansEffect
  SlotsMatchInvoices
  InvoiceMatchesCharge
  VoidedByRefund
  CanceledHasDeadline
PROPERTY ReceiverSpec
CHECK_DEADLOCK FALSE
