-------------------------- MODULE MCTableIngestion --------------------------
(* TableIngestion for TLC. *)
EXTENDS TableIngestion, TLC

\* Runs are interchangeable, and so are rewinds and batch ids.
Symmetry ==
  Permutations(Runs) \cup Permutations(Rewinders) \cup Permutations(Batches)

=============================================================================
