--------------------------- MODULE MCPrivateSessions ---------------------------
(* Everything but the permissions is interchangeable.                      *)
EXTENDS PrivateSessions, TLC

CONSTANTS t1, t2, d1, d2, k1, k2, s1, s2, o1, o2, o3, n1, n2, n3, h1, h2, h3

MCSymmetry ==
  UNION {Permutations(S) : S \in {Tin, Device, Key, PrivateSession, OwnerNonce, RequestNonce, Handler}}
=============================================================================
