SPECIFICATION Spec
CONSTANTS
  c1 = c1
  c2 = c2
  c3 = c3
  pa = pa
  pb = pb
  r1 = r1
  r2 = r2
  None = None
  Calls <- MCCalls
  Pages <- MCPages
  PageOf <- MCPageOf
  Price <- MCPrice
  Reqs <- MCReqs
  Rough <- MCRough
  Cap = 2
  Window = 1
  Ttl = 1
  MaxClock = 2
SYMMETRY Symmetry
CHECK_DEADLOCK FALSE
INVARIANTS
  TypeOK
  ConcurrentCallsShareOnePayment
  SpendUnderCap
PROPERTY
  OneUnlockPerTtl
