----------------------------- MODULE SlotLadder -----------------------------
(* The sizes uplink_slot_collect.c can publish (jbpf_e3_slot_api.h). *)
EXTENDS Integers, FiniteSetsExt

\* E3_SLOT_BYTES_2P, _4P and _8P: ports x 14 symbols x 3276 subcarriers x 4.
Ladder == {366912, 733824, 1467648}

\* The rung taken for a grid of n bytes; 0 when none fits.
Rung(n) == Max({0} \cup {b \in Ladder : b <= n})
=============================================================================
