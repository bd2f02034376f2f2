-------------------------- MODULE MCSourceMutation --------------------------
(* SourceMutation for TLC. *)
EXTENDS SourceMutation, TLC

\* Sessions of a kind are interchangeable, and so are tables.
Symmetry ==
  Permutations(Generators) \cup Permutations(Warehouses) \cup Permutations(Tables)

=============================================================================
