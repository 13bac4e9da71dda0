-------------------------- MODULE ReceiverLifecycle --------------------------
(***************************************************************************)
(* The Receiver's queue implements WorkLifecycle: the status of a document *)
(* is its stage, and the owner of its lease is its holder.                 *)
(***************************************************************************)
EXTENDS Receiver

StageOf ==
  [ABSENT |-> "none", RECEIVED |-> "queued", NODE_VERIFYING |-> "checking",
   VERIFIED |-> "accepted", REJECTED |-> "rejected", CRANKER_LEASED |-> "executing",
   SUBMITTED |-> "submitted", CONFIRMED |-> "confirmed", FAILED |-> "failed"]

HolderOf(d) ==
  CASE d.status = "NODE_VERIFYING" -> d.nodeLease.owner
    [] d.status = "CRANKER_LEASED" -> d.crankerLease.owner
    [] OTHER -> None

Lifecycle == INSTANCE WorkLifecycle WITH
  Work <- WorkId, Verifier <- Node, Executor <- Cranker,
  Needs <- [w \in WorkId |-> IF w[2] = "ingress" THEN {} ELSE {FundingOf(w)}],
  stage <- [w \in WorkId |-> StageOf[work[w].status]],
  holder <- [w \in WorkId |-> HolderOf(work[w])]

(* The queue, with all its stale queries and retried requests, never does  *)
(* to a piece of work what the lifecycle does not allow.                   *)
ImplementsLifecycle == Lifecycle!Spec
=============================================================================
