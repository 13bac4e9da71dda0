CONSTANTS
  None = None
  m1 = m1
  Mint = {m1, m2}
  Slot = {s1}
  Cranker = {c1}
  Vault = {v1}
  Funder = {f1, f2}
  CrankerOf <- MCCrankerOf
  MintOf <- MCMintOf
  OperatorOf <- MCOperatorOf
  AmountBound = 2
  FundBound = 2
  FeeBound = 1
  VoucherBound = 2
  TimeBound = 2
SPECIFICATION Spec
INVARIANT SlotResolvedOnce
INVARIANT PaidAsVouched
INVARIANT TreasuryBacked
INVARIANT WithdrawableInFull
