----------------------------- MODULE MCLocalLock -----------------------------
(* Two processes that share the store: one that queues two mutations, next *)
(* to one that compacts and reads.                                         *)
EXTENDS LocalLock, TLC

CONSTANTS p1, p2, w1, w2, r1

MCQueued == (w1 :> p1) @@ (w2 :> p1) @@ (r1 :> p2)
=============================================================================
