---------------------------- MODULE MCL1KpmTrace ----------------------------
(* Instances of L1KpmTrace for TLC. *)
EXTENDS L1KpmTrace
=============================================================================
