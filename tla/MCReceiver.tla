----------------------------- MODULE MCReceiver -----------------------------
(* The Receiver on a small instance.  Bodies, Crankers, signatures and     *)
(* requests are interchangeable in every definition of Receiver, and the   *)
(* properties checked are all safety, so symmetry is sound.                *)
EXTENDS ReceiverLifecycle, TLC

Symmetry == Permutations(Body) \cup Permutations(Cranker)
              \cup Permutations(Signature) \cup Permutations(Call)
=============================================================================
