-------------------------- MODULE MCServingExport --------------------------
(* ServingExport for TLC. *)
EXTENDS ServingExport, TLC

\* Publish runs are interchangeable, and so are exports of a kind.
Symmetry ==
  Permutations(Publishers) \cup Permutations(DagExports)
    \cup Permutations(Exports \ DagExports)

=============================================================================
