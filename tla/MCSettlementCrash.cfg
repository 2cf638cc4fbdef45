SPECIFICATION FairSpec
CONSTANTS
  t1 = t1
  t2 = t2
  p1 = p1
  p2 = p2
  NoTx = NoTx
  Procs <- OneProc
  Txs <- OneTx
  Values <- FullOnly
  Price = 2
  Depth = 2
  MaxHeight = 4
  MaxPolls = 1
  MaxCrashes = 1
  Expires = FALSE
CHECK_DEADLOCK FALSE
PROPERTY
  FundedInvoiceCompletes
