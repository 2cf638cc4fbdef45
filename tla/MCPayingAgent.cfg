SPECIFICATION Spec
CONSTANTS
  c1 = c1
  c2 = c2
  i1 = i1
  i2 = i2
  i3 = i3
  day = day
  amount = amount
  None = None
  Calls <- TwoCalls
  Invoices <- ThreeInvoices
  Caps <- OneOrTwo
  Windows <- TwoWindows
  Quota <- Quotas
  Modes <- BothModes
SYMMETRY Symmetry
CHECK_DEADLOCK FALSE
INVARIANTS
  TypeOK
  PaidIsTracked
  OneRunPerPayment
