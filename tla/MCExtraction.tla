---------------------------- MODULE MCExtraction ----------------------------
(* Extraction for TLC. *)
EXTENDS Extraction

\* Plans with at most this many rules, for the rows there can be.
FewRules(n) ==
  UNION {[D -> Kinds] :
           D \in {E \in SUBSET (0..(MaxKey - 1)) : Cardinality(E) <= n}}
TwoRules == FewRules(2)
NoRules  == FewRules(0)

=============================================================================
