SPECIFICATION Spec
CONSTANTS
  b1 = b1
  b2 = b2
  p1 = p1
  p2 = p2
  None = None
  Boxes <- TwoBoxes
  Polls <- OnePoll
  Budget = 1
  Sinks <- BothSinks
  MaxCrashes = 0
CHECK_DEADLOCK FALSE
INVARIANT
  MisrouteNeverHidden
