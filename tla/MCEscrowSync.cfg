SPECIFICATION FairSpec
CONSTANTS
  b1 = b1
  b2 = b2
  p1 = p1
  p2 = p2
  None = None
  Boxes <- TwoBoxes
  Polls <- TwoPolls
  Budget = 1
  Sinks <- BothSinks
  MaxCrashes = 1
CHECK_DEADLOCK FALSE
INVARIANTS
  TypeOK
  OutcomeIsTrue
  MoneyIsWatched
PROPERTY
  ChainReachesInvoice
