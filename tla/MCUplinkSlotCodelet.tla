------------------------ MODULE MCUplinkSlotCodelet ------------------------
(* Instances of UplinkSlotCodelet for TLC. *)
EXTENDS UplinkSlotCodelet

Bytes(ports, prbs) == ports * 14 * (prbs * 12) * 4

\* A row of four ports and 273 PRBs.
MCRow == Bytes(4, 273)

\* The gNB as configured, with fewer ports, with one, and with more.
MCGrids == {Bytes(p, 273) : p \in {1, 2, 4, 8}}

\* An 80 MHz cell with four ports, and its row.
Row80 == Bytes(4, 217)
Grids80 == {Bytes(4, 217)}
=============================================================================
