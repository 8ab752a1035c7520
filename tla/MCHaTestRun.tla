---------------------------- MODULE MCHaTestRun ----------------------------
(* Instances of HaTestRun for TLC. *)
EXTENDS HaTestRunInv, TLC

CONSTANTS r1, r2, r3

Symmetry == Permutations(Runs)

\* The tests with different faults are tried beside each other; H-1, which
\* injects nothing, beside H-4, whose fault is that of H-3.
Paired ==
  \/ \A r \in Runs : test[r] \in {"H-3", "H-5", "H-6"}
  \/ {test[r] : r \in Runs} = {"H-1", "H-4"}

PairedInit == Init /\ Paired
PairedSpec == PairedInit /\ [][Next]_vars

=============================================================================
