---------------------------- MODULE MCIqPipeline ----------------------------
(* Instances of IqPipeline for TLC. *)
EXTENDS IqPipeline

At(dir, prbs, bytes) ==
    [direction |-> dir, abs_slot |-> TARGET_ABS_SLOT, symbol |-> TARGET_SYMBOL_ID,
     num_prbu |-> prbs, bytes |-> bytes]

\* A whole carrier of 273 PRBs, one cut short, a narrow downlink section, and a
\* section of another symbol.
MCSections ==
    {At(1, 0, 7644), At(1, 0, 7643), At(0, 4, 112),
     [At(1, 0, 7644) EXCEPT !.symbol = 12]}
=============================================================================
