--------------------------- MODULE MCShmIqWriter ---------------------------
(* Small regions: one or two rows per buffer, with and without bytes over, and *)
(* one whose buffers of three rows are larger than their uint32_t can say.     *)
EXTENDS ShmIqWriter

Radio(p, s) == [nof_ports |-> p, nof_prbs |-> 1, nof_symbols |-> s, scs_khz |-> 30]

Config(g, bytes, w) ==
    [radio |-> g, size_bytes |-> bytes, cbf16_scale |-> 1, target_slot |-> 3, writer |-> w]

\* Region sizes around the point where a buffer holds rows 1 and 2.
Sizes(g) ==
    {HeaderBytes + NumBuffers * n * row_bytes(g) + d : n \in {1, 2}, d \in {-1, 0, 5}}

MCConfigs ==
    {Config(Radio(2, 14), HeaderBytes + NumBuffers * 3 * row_bytes(Radio(2, 14)), w) :
        w \in Writers}
    \cup UNION {{Config(g, s, w) : s \in Sizes(g), w \in Writers} :
               g \in {Radio(2, 14), Radio(3, 12)}}
=============================================================================
