-------------------------- MODULE MCSlotIqPipeline --------------------------
(* Instances of SlotIqPipeline for TLC. *)
EXTENDS SlotIqPipeline, TLC

\* The channel never inspects which buffer of the pool it hands out.
BufferSymmetry == Permutations(Buffers)
=============================================================================
