SPECIFICATION Spec
CONSTANTS
  t1 = t1
  t2 = t2
  p1 = p1
  p2 = p2
  NoTx = NoTx
  Procs <- TwoProcs
  Txs <- BothTxs
  Values <- HalfOnly
  Price = 2
  Depth = 2
  MaxHeight = 4
  MaxPolls = 1
  MaxCrashes = 0
  Expires = FALSE
SYMMETRY Symmetries
CHECK_DEADLOCK FALSE
INVARIANTS
  ReceivedIsSum
  ShipOnlyOnConfirmedFunds
  EverythingAnnounced
