CONSTANTS
  None = None
  SupplyBound = 2
  Depositor = {d1}
  Identifier = {i1, i2}
  Tip = {t1, t2}
  LegacyTip = {l1}
  Nonce = {n1, n2}
  SequenceBound = 2
SPECIFICATION Spec
SYMMETRY Symmetry
INVARIANTS
  DepositsFollowPolicy
  
  ClaimsChained
  AuthorizedChangeOnce
PROPERTIES
  RetiredForGood
  
CHECK_DEADLOCK FALSE
