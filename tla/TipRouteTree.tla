----------------------------- MODULE TipRouteTree -----------------------------
(***************************************************************************)
(* The append-only Merkle tree of TIP routes (route_root.rs).  The program *)
(* keeps the root, the number of leaves and one node per level, the        *)
(* frontier, and recomputes the root with one hash per level.              *)
(*                                                                         *)
(* Hashes are free of collisions: the hash of two nodes is their pair.     *)
(***************************************************************************)
EXTENDS Integers, Sequences

CONSTANTS
  Zero,   \* the empty leaf
  Depth   \* levels of hashing, 32 in the program

ASSUME DepthAssumption == Depth \in Nat \ {0}

Level == 0..(Depth - 1)

poseidon2(left, right) == <<left, right>>

(* ROUTE_ZERO_HASHES_V1: the empty subtree of each height.                 *)
ZeroHash[level \in 0..Depth] ==
  IF level = 0 THEN Zero ELSE poseidon2(ZeroHash[level - 1], ZeroHash[level - 1])

(* The leaves of a subtree of each height: 2^level.                        *)
Width[level \in 0..Depth] == IF level = 0 THEN 1 ELSE 2 * Width[level - 1]

(* leaf_count >= u32::MAX is refused, so the last of the 2^32 leaves stays *)
(* unused.                                                                 *)
Capacity == Width[Depth] - 1

EmptyRoot ==
  [root |-> ZeroHash[Depth], leaf_count |-> 0, frontier |-> [level \in Level |-> Zero]]

(* leaf_count >> level                                                     *)
Shifted(count) ==
  LET half[level \in 0..Depth] == IF level = 0 THEN count ELSE half[level - 1] \div 2
  IN half

IsLeft(count, level) == Shifted(count)[level] % 2 = 0

(* The nodes above a new leaf, from itself to the root.                    *)
Path(state, leaf) ==
  LET node[level \in 0..Depth] ==
        IF level = 0 THEN leaf
        ELSE IF IsLeft(state.leaf_count, level - 1)
             THEN poseidon2(node[level - 1], ZeroHash[level - 1])
             ELSE poseidon2(state.frontier[level - 1], node[level - 1])
  IN node

(* Slip: the frontier keeps the node already hashed with its sibling.      *)
append_route_late(state, leaf) ==
  LET node == Path(state, leaf)
  IN [root |-> node[Depth], leaf_count |-> state.leaf_count + 1,
      frontier |-> [level \in Level |->
                      IF IsLeft(state.leaf_count, level) THEN node[level + 1]
                      ELSE state.frontier[level]]]

append_route(state, leaf) ==
  LET node == Path(state, leaf)
  IN [root |-> node[Depth], leaf_count |-> state.leaf_count + 1,
      frontier |-> [level \in Level |->
                      IF IsLeft(state.leaf_count, level) THEN node[level]
                      ELSE state.frontier[level]]]

(* The account after leaves were appended one by one.                      *)
Appended(leaves) ==
  LET after[n \in 0..Len(leaves)] ==
        IF n = 0 THEN EmptyRoot ELSE append_route(after[n - 1], leaves[n])
  IN after[Len(leaves)]

-----------------------------------------------------------------------------
(* The reference: the complete tree over the leaves, those missing on the  *)
(* right empty.  At each level, the subtrees from left to right.           *)
Subtree(leaves) ==
  LET row[level \in 0..Depth] ==
        [index \in Nat |->
           IF level = 0 THEN IF index < Len(leaves) THEN leaves[index + 1] ELSE Zero
           ELSE poseidon2(row[level - 1][2 * index], row[level - 1][2 * index + 1])]
  IN row

MerkleRoot(leaves) == Subtree(leaves)[Depth][0]
=============================================================================
