----------------------------- MODULE MCPipeline -----------------------------
(* The pipeline on small instances.  The signature of a deposit and the    *)
(* nonce of its message are written as the payments they belong to; in     *)
(* SharedNonce every payment signs the same one.                           *)
EXTENDS Pipeline

OwnNonce == [r \in Ref |-> r]
SharedNonce == [r \in Ref |-> CHOOSE q \in Ref : TRUE]
OwnDeposit == [r \in Ref |-> r]
Workers == Node \cup Cranker
=============================================================================
