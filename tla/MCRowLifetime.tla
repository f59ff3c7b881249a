--------------------------- MODULE MCRowLifetime ---------------------------
(* Instances of RowLifetime for TLC. *)
EXTENDS RowLifetime
=============================================================================
