---------------------------- MODULE MCTcapReserve ----------------------------
(* One depositor, whose two fundings order the nonces; a TIP and the       *)
(* successor its consumption creates; two exits, so that one is debited    *)
(* while another waits to be paid.                                         *)
EXTENDS TcapReserve, TLC

Symmetry ==
  Permutations(Identifier) \cup Permutations(Tip) \cup Permutations(Nonce)
=============================================================================
