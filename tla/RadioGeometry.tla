--------------------------- MODULE RadioGeometry ---------------------------
(***************************************************************************)
(* e3config::RadioGeometry (include/e3_config.h, src/e3_config.cpp): the   *)
(* sizes every row of the region is computed from, and the conditions      *)
(* under which load_config() accepts a configuration.                      *)
(***************************************************************************)
EXTENDS Integers

Geometry == [nof_ports : Nat, nof_prbs : Nat, nof_symbols : Nat, scs_khz : Nat]

nof_subcarriers(g) == g.nof_prbs * 12

u16_per_ant(g) == g.nof_symbols * nof_subcarriers(g) * 2

num_fh_samples(g) == g.nof_ports * u16_per_ant(g)

row_bytes(g) == num_fh_samples(g) * 2

slots_per_frame(g) == 10 * (g.scs_khz \div 15)

validate(g) ==
    /\ g.nof_ports \in 1 .. 8
    /\ g.nof_prbs \in 1 .. 275
    /\ g.nof_symbols \in {12, 14}
    /\ g.scs_khz \in {15, 30, 60, 120}
    /\ u16_per_ant(g) % 8 = 0

HeaderBytes == 64    \* sizeof(SharedMemoryHeader), kHeaderBytes
NumBuffers == 2      \* num_buffers_, kNumBuffers

\* Mutant of RegionHoldsARow: the header is not taken off the region.
RegionHoldsARowNoHeader(g, size_bytes) ==
    size_bytes > HeaderBytes /\ size_bytes \div NumBuffers >= row_bytes(g)

\* load_config(): at least one row per buffer.
RegionHoldsARow(g, size_bytes) ==
    /\ size_bytes > HeaderBytes
    /\ (size_bytes - HeaderBytes) \div NumBuffers >= row_bytes(g)

TargetSlotExists(g, target_slot) ==
    target_slot >= 0 => target_slot < slots_per_frame(g)

\* The checks load_config() makes once the file is parsed; the scale is
\* positive or not.
load_config(c) ==
    /\ validate(c.radio)
    /\ RegionHoldsARow(c.radio, c.size_bytes)
    /\ c.cbf16_scale > 0
    /\ TargetSlotExists(c.radio, c.target_slot)
=============================================================================
