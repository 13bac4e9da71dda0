--------------------------- MODULE MCRouteAdmission ---------------------------
(* Two routes; the terms of one were signed twice, for different blocks.   *)
EXTENDS RouteAdmission

CONSTANTS r1, r2, t1, t2, v1, v2, v3

MCProposals ==
  {[route |-> r1, terms |-> t1, deadline |-> 2], [route |-> r1, terms |-> t2, deadline |-> 4],
   [route |-> r2, terms |-> t1, deadline |-> 3]}
=============================================================================
