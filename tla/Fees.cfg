SPECIFICATION FinanceSpec
CONSTANTS
  Parts = {"fees"}
  Requests = {r1}
  Invoices = {i1}
  Payments = {k1}
  Events = {e1}
  Amounts = {1, 2}
  Price <- Prices
  Length <- Days
  DueDays = 0
  Grace = 1
  Services <- Separately
  Terms = {1, 2}
  Dates = {0, 6}
  MaxDay = 3
  MaxCalls <- Bounds
  MaxStops = 1
  NoRow = NoRow
  NoEvent = NoEvent
  b1 = b1
  p1 = p1
  p2 = p2
  key1 = key1
  Bills = {b1}
  Workers = {w1, w2}
  Asked = {p1, p2}
  Keys = {key1}
  NoKey = NoKey
  None = None
  ReqInvoice <- OneBill
  ReqAmount <- AmountsAsked
  ReqKey <- OwnKey
  Net <- DueTwo
  RowLocks = TRUE
  Cancels = TRUE
  Refreshes = TRUE
  MaxPayments = 3
SYMMETRY Threads
INVARIANTS
  NoOverpayment
  ChargedOnce
CHECK_DEADLOCK FALSE
