-------------------------- MODULE MCDbtIncremental --------------------------
(* DbtIncremental for TLC. *)
EXTENDS DbtIncremental

=============================================================================
