SPECIFICATION PSpec
CONSTANTS
  Ref = {r1}
  Body = {b1}
  Node = {n1}
  Cranker = {c1}
  Signature = {r1}
  Nonce = {r1}
  None = None
  ExpiryBound = 30
  Legacy = {}
  Valid = {r1}
  FailureLimit = 3
  Faults = 1
  Call <- Workers
  NonceOf <- OwnNonce
  DepositOf <- OwnDeposit
PROPERTIES NoFalseFailure
