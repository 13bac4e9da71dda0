---------------------------- MODULE MCTinOperation ----------------------------
(* A staged creation, another owner's of the same lookup commitment and    *)
(* one more of the first owner; a blob of two chunks; room for three       *)
(* routes, none or two of them taken before.                               *)
EXTENDS TinOperation

CONSTANTS i1, i2, i3, o1, o2, l1, l2

Chunks == [identity |-> 2]
Blobs == <<"identity">>
Owners == i1 :> o1 @@ i2 :> o2 @@ i3 :> o1
Lookups == i1 :> l1 @@ i2 :> l1 @@ i3 :> l2
Expiries == [i \in Intent |-> 0]

Symmetry == Permutations(Cranker)
=============================================================================
