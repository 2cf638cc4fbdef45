SPECIFICATION FairSpec
CONSTANTS
  t1 = t1
  t2 = t2
  p1 = p1
  p2 = p2
  NoTx = NoTx
  Procs <- OneProc
  Txs <- BothTxs
  Values <- Amounts
  Price = 2
  Depth = 2
  MaxHeight = 4
  MaxPolls = 2
  MaxCrashes = 1
  Expires = TRUE
INVARIANTS
  TypeOK
  MerchantUpToDate
CHECK_DEADLOCK FALSE
PROPERTIES
  ExpiryIsPaymentAware
  PaidInvoiceCompletes
