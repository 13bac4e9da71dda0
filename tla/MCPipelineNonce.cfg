SPECIFICATION PSpec
CONSTANTS
  Ref = {r1, r2}
  Body = {b1}
  Node = {n1, n2}
  Cranker = {}
  Signature = {r1, r2}
  Nonce = {r1, r2}
  None = None
  ExpiryBound = 30
  Legacy = {}
  Valid = {r1, r2}
  FailureLimit = 3
  Faults = 1
  Call <- Workers
  NonceOf <- SharedNonce
  DepositOf <- OwnDeposit
INVARIANTS NoReplayedAuthorization
CHECK_DEADLOCK FALSE
