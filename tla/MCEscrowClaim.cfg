SPECIFICATION Spec
CONSTANTS
  p1 = p1
  p2 = p2
  o1 = o1
  o2 = o2
  c1 = c1
  c2 = c2
  c3 = c3
  b1 = b1
  b2 = b2
  None = None
  Procs <- TwoProcs
  Orders <- TwoOrders
  Calls <- TwoCalls
  Boxes <- TwoBoxes
  TargetReady = 1
  RefillBelow = 1
  MaxRequotes = 1
  MaxFaults = 1
SYMMETRY Symmetries
CHECK_DEADLOCK FALSE
INVARIANTS
  TypeOK
  BoxServesOneOrder
  GateNeverOpen
  NoBoxLeaks
  ShownBoxIsOwn
  HeldRowIsInHand
