SPECIFICATION FairPSpec
CONSTANTS
  Ref = {r1, r2}
  Body = {b1}
  Node = {n1}
  Cranker = {c1}
  Signature = {r1, r2}
  Nonce = {r1, r2}
  None = None
  ExpiryBound = 30
  Legacy = {}
  Valid = {r1}
  FailureLimit = 3
  Faults = 2
  Call <- Workers
  NonceOf <- OwnNonce
  DepositOf <- OwnDeposit
INVARIANTS ConfirmedLanded NoVerdictWithoutReason
PROPERTIES AcceptedIsFinished WakeIsHeeded
