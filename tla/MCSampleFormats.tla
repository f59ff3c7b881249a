-------------------------- MODULE MCSampleFormats --------------------------
(* Inputs of SampleFormats for TLC. *)
EXTENDS SampleFormats

\* Every magnitude around a power of two, and a stretch of ordinary ones.
MCInt16s ==
    {v \in -2^15 .. 2^15 - 1 :
        \/ Abs(v) <= 2100
        \/ \E b \in 11 .. 15 : Abs(Abs(v) - 2^b) <= 130
        \/ v % 97 = 0}

\* The edges of the exponent ranges, with mantissas around each rounding case.
MCFloats ==
    [sign : {0, 1},
     exp8 : {0, 1, 101, 102, 103, 111, 112, 113, 114, 127, 141, 142, 143, 254, 255},
     man23 : {m * 2^13 + r : m \in {0, 1, 2, 511, 1022, 1023},
                             r \in {0, 1, 2^12 - 1, 2^12, 2^12 + 1, 2^13 - 1}}]

MCWindows == [1 .. 3 -> {0, 1, 127, 128, 255}]

MCExponents == {0, 1, 7, 8, 15, 16, 32, 48}

MCPrbCounts == {1, 2, 3, 10, 11, 21, 22, 85, 86}
=============================================================================
