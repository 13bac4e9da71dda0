CONSTANTS
  n1 = n1
  n2 = n2
  s1 = s1
  s2 = s2
  c1 = c1
  c2 = c2
  n3 = n3
  s3 = s3
  None = None
  Nonce = {n1, n2, n3}
  Session = {s1, s2, s3}
  Call = {c1, c2}
  RepeatBound = 2
SPECIFICATION Spec
SYMMETRY MCSymmetry
INVARIANTS
  RunsInOrder
  OneSessionPerChallenge
  CallRunsOnce
  OnlyLapsedIsRefused
CHECK_DEADLOCK FALSE
