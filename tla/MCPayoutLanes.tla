----------------------------- MODULE MCPayoutLanes -----------------------------
(* Both payout lanes, each with two settlements, one of them signed twice, *)
(* and two executors in turn.  The lanes are contracts, vaults and tokens  *)
(* of their own and share no variable: one is followed while the other     *)
(* does nothing.                                                           *)
EXTENDS OnwardSettlement, DirectSettlement

CONSTANTS r1, s1, s2, n1, n2, e1, e2

MCVaultOf == [e \in Executor |-> r1]

DirectPayout(s, n, e, amount) ==
  [settlement |-> s, nonce |-> n, executor |-> e, amount |-> amount]

OnwardPayout(s, n, e, amount) ==
  [settlement |-> s, nonce |-> n, route |-> r1, executor |-> e, amount |-> amount]

MCSigned ==
  {OnwardPayout(s1, n1, e1, 2), OnwardPayout(s1, n1, e2, 1), OnwardPayout(s2, n2, e1, 1)}

MCDirectSigned ==
  {DirectPayout(s1, n1, e1, 1), DirectPayout(s1, n2, e2, 2), DirectPayout(s2, n2, e1, 1)}

VARIABLE followed   \* the lane that is followed

LanesInit ==
  /\ Init /\ DirectInit
  /\ \/ followed = "onward" /\ laneVault.executor = e1
     \/ followed = "direct" /\ vault[r1].executor = e1

LanesNext ==
  \/ followed = "onward" /\ Next /\ UNCHANGED <<followed, directVars>>
  \/ followed = "direct" /\ DirectNext /\ UNCHANGED <<followed, vars>>

LanesSpec == LanesInit /\ [][LanesNext]_<<followed, vars, directVars>>
=============================================================================
