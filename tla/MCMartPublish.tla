--------------------------- MODULE MCMartPublish ---------------------------
(* MartPublish for TLC. *)
EXTENDS MartPublish

=============================================================================
