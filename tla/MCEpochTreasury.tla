--------------------------- MODULE MCEpochTreasury ---------------------------
(* One Cranker with a vault of one mint; a second mint, whose treasury can *)
(* only refund; one slot, whose voucher may be replaced once.              *)
EXTENDS EpochTreasury

CONSTANT m1

MCCrankerOf == [v \in Vault |-> CHOOSE c \in Cranker : TRUE]
MCMintOf == [v \in Vault |-> m1]
MCOperatorOf == [c \in Cranker |-> CHOOSE f \in Funder : TRUE]
=============================================================================
