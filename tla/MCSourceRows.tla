---------------------------- MODULE MCSourceRows ----------------------------
(* SourceRows for TLC. *)
EXTENDS SourceRows, TLC

\* Orders are interchangeable, and so are seeded persons.
Symmetry == Permutations(OrderIds) \cup Permutations(Seeded)

=============================================================================
