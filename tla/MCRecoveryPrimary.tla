------------------------- MODULE MCRecoveryPrimary -------------------------
(* Instances of RecoveryPrimary for TLC. *)
EXTENDS RecoveryPrimaryInv, TLC

CONSTANTS n1, n2, n3, w1, w2

Symmetry == Permutations(Nodes) \cup Permutations(Workers)

=============================================================================
