CONSTANTS
  r1 = r1
  s1 = s1
  s2 = s2
  n1 = n1
  n2 = n2
  e1 = e1
  e2 = e2
  None = None
  Route = {r1}
  Settlement = {s1, s2}
  Executor = {e1, e2}
  Nonce = {n1, n2}
  Signed <- MCSigned
  VaultOf <- MCVaultOf
  ObservationBound = 2
  SupplyBound = 2
  DirectNonce = {n1, n2}
  DirectSigned <- MCDirectSigned
  DirectObservationBound = 3
  DirectSupplyBound = 3
SPECIFICATION LanesSpec
INVARIANTS
  PaidOnce
  UnpaidIsReserved
  BackedWhenPrudent
  PaidStaysReserved
PROPERTY ExpiredStaysUnpaid
CHECK_DEADLOCK FALSE
