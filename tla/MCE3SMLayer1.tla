---------------------------- MODULE MCE3SMLayer1 ----------------------------
(* Instances of E3SMLayer1 for TLC. *)
EXTENDS E3SMLayer1

\* Four ports, as configured; a gNB with fewer, and one whose slots no row
\* holds.
MCgeom == [ports |-> 4, symbols |-> 14, subcarriers |-> 3276]
MCRanGeoms == {[MCgeom EXCEPT !.ports = p] : p \in {2, 4, 8}}
=============================================================================
