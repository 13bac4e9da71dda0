CONSTANTS
  t1 = t1
  t2 = t2
  d1 = d1
  d2 = d2
  k1 = k1
  k2 = k2
  s1 = s1
  s2 = s2
  o1 = o1
  o2 = o2
  o3 = o3
  n1 = n1
  n2 = n2
  n3 = n3
  h1 = h1
  h2 = h2
  h3 = h3
  Tin = {t1, t2}
  Device = {d1, d2}
  Key = {k1, k2}
  PrivateSession = {s1}
  OwnerNonce = {o1, o2}
  RequestNonce = {n1, n2}
  Handler = {h1, h2}
  CreateScope = "private-session:create"
  ReadScope = "private-receipt:read"
  Scope = {"private-session:create", "private-receipt:read"}
SPECIFICATION PrivateSpec
SYMMETRY MCSymmetry
INVARIANTS
  RevokedIsRefused
  ServedAsGranted
