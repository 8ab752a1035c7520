----------------------- MODULE MCDocumentPermissions -----------------------
(* Instances of DocumentPermissions for TLC. *)
EXTENDS DocumentPermissionsInv, TLC

CONSTANTS owner, member, tenant, spelled, stranger, c1, c2

Symmetry == Permutations(Clients)

=============================================================================
