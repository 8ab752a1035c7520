-------------------------- MODULE MCDocumentStore --------------------------
(* Instances of DocumentStore for TLC. *)
EXTENDS DocumentStoreInv, TLC

CONSTANTS d1, d2, c1, c2, t1, t2, x1, x2

Symmetry ==
  Permutations(Docs) \cup Permutations(Clients) \cup Permutations(Titles)
    \cup Permutations(Contents)

=============================================================================
