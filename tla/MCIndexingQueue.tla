-------------------------- MODULE MCIndexingQueue --------------------------
(* Instances of IndexingQueue for TLC. *)
EXTENDS IndexingQueueInv, TLC

CONSTANTS d1, d2, w1, w2

Symmetry == Permutations(Docs) \cup Permutations(Workers)

=============================================================================
