SPECIFICATION Spec
CONSTANTS
  a1 = a1
  t1 = t1
  r1 = r1
  r2 = r2
  x1 = x1
  x2 = x2
  i1 = i1
  c1 = c1
  c2 = c2
  c3 = c3
  None = None
  Accounts <- OneAccount
  TopUps <- OneTopUp
  Requests <- TwoRequests
  Refunds <- TwoRefunds
  Invoices <- OneInvoice
  TopUpAccount <- TopUpOwner
  RequestAccount <- RequestOwner
  Calls <- ThreeCalls
  Worths <- TopUpWorths
  Prices <- QuotedPrices
  Measures <- MeasuredPrices
  Unknown <- NotMeasured
CHECK_DEADLOCK FALSE
SYMMETRY Symmetric
INVARIANTS
  TypeOK
  BooksBalance
  OneUpstreamCallPerKey
  ServiceIsCharged
  OpenHoldIsExplained
