SPECIFICATION Spec
CONSTANTS
  Ref = {r1}
  Body = {b1, b2}
  Node = {n1}
  Cranker = {c1, c2}
  Signature = {s1, s2}
  Call = {k1, k2}
  None = None
  ExpiryBound = 6
  Legacy = {r1}
INVARIANTS HolderExclusive OneSettlementPerPayment AuthorizationFresh AckedReportsStand
PROPERTIES ImplementsLifecycle OutcomeOfRunningLease
CHECK_DEADLOCK FALSE
SYMMETRY Symmetry
