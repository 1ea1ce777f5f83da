------------------------- MODULE MCMerkleAntiEntropy -------------------------
(***************************************************************************)
(* Small instances of MerkleAntiEntropy: a binary tree over three cells,   *)
(* with two inner nodes below the root and one padding leaf, and two       *)
(* robots of which each sees something the other does not.                 *)
(***************************************************************************)
EXTENDS MerkleAntiEntropy, TLC

MCTruth == <<BLOCKED, FREE, BLOCKED>>

\* Robot 0 sees both halves of the tree, one before the other or at once.
Apart == (0 :> {{3}, {1, 3}}) @@ (1 :> {{2}})

\* Both robots see cell 3, so that their stamps of it differ.
Crossing == (0 :> {{1, 3}}) @@ (1 :> {{2, 3}})

=============================================================================
