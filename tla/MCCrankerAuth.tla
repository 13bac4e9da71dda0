----------------------------- MODULE MCCrankerAuth -----------------------------
(* Sessions, challenges and calls are interchangeable.                     *)
EXTENDS CrankerAuth, TLC

CONSTANTS n1, n2, n3, s1, s2, s3, c1, c2

MCSymmetry == Permutations(Nonce) \cup Permutations(Session) \cup Permutations(Call)
=============================================================================
