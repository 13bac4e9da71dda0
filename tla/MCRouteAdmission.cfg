CONSTANTS
  r1 = r1
  r2 = r2
  t1 = t1
  t2 = t2
  v1 = v1
  v2 = v2
  v3 = v3
  NoTerms = NoTerms
  Destination = {r1, r2}
  Terms = {t1, t2}
  Voter = {v1, v2, v3}
  Proposals <- MCProposals
  Quorum = 2
  VotingPeriod = 2
  ActivationDelay = 1
  TimeBound = 8
SPECIFICATION AdmissionSpec
INVARIANTS
  AdmittedByVote
CHECK_DEADLOCK FALSE
