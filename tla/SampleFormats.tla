--------------------------- MODULE SampleFormats ---------------------------
(***************************************************************************)
(* What a sample is converted to on its way to a dApp: int16 and bf16 to   *)
(* IEEE half (e3sm_shm_writer.cpp, e3_slot_convert.h), nine-bit block      *)
(* floating point to int16 (bfp_decompress.cpp) and a section to the bins  *)
(* of an FFT (e3sm_spectrum.cpp).  Each conversion is an action from an    *)
(* input to its result, and is compared with a definition of what it is    *)
(* meant to compute.  A half is the number with its 16 bits.               *)
(***************************************************************************)
EXTENDS Integers

CONSTANTS
    Int16s,       \* int16 samples
    Floats,       \* float32 products of a sample and the scale: see Float
    Windows,      \* three bytes of packed mantissas
    Exponents,    \* exponent bytes
    PrbCounts     \* section widths

Byte == 0 .. 2^8 - 1
MaxPrbs == 273
Float == [sign : {0, 1}, exp8 : Byte, man23 : 0 .. 2^23 - 1]

ASSUME FormatAssumption ==
    /\ Int16s \subseteq -2^15 .. 2^15 - 1
    /\ Floats \subseteq Float
    /\ Windows \subseteq [1 .. 3 -> Byte]
    /\ Exponents \subseteq Byte
    /\ PrbCounts \subseteq 1 .. MaxPrbs

VARIABLES input, result

formatVars == <<input, result>>

None == [conversion |-> "none"]

Shr(n, k) == n \div 2^k

Abs(n) == IF n < 0 THEN -n ELSE n

-----------------------------------------------------------------------------
(* int16 to half, divided by 2048. *)

MSB(n) == CHOOSE b \in 0 .. 15 : 2^b <= n /\ n < 2^(b + 1)

\* Mutant of RoundBit(mag, shift): the first bit that is kept.
RoundBitHigh(mag, shift) == Shr(mag, shift) % 2

\* For shift = 0 the code shifts by -1, which is undefined: the instruction takes
\* the count modulo 32, a vector one leaves zero, and neither leaves a bit.
RoundBit(mag, shift) == IF shift = 0 THEN 0 ELSE Shr(mag, shift - 1) % 2

int16_to_fp16(v) ==
    LET sign == IF v < 0 THEN 2^15 ELSE 0
        mag == IF v < 0 THEN -v ELSE v
        msb == MSB(mag)
        shift == msb - 10
        mantissa == IF shift >= 0 THEN Shr(mag, shift) % 2^10
                    ELSE (mag * 2^(-shift)) % 2^10
        round_bit == shift >= 0 /\ RoundBit(mag, shift) = 1
        sticky == shift > 0 /\ mag % 2^(shift - 1) # 0
        half == sign + (msb - 11 + 15) * 2^10 + mantissa
    IN IF v = 0 THEN 0
       ELSE IF round_bit /\ (sticky \/ mantissa % 2 = 1) THEN half + 1 ELSE half

ConvertInt16 ==
    /\ result = None
    /\ input.kind = "int16"
    /\ result' = [conversion |-> "int16", half |-> int16_to_fp16(input.v)]
    /\ UNCHANGED input

-----------------------------------------------------------------------------
(* float32 to half: by an instruction or, in a build without it, in software. *)

Inf == 31 * 2^10

\* n / 2^k rounded to nearest, ties to even.
RoundToEven(n, k) ==
    CHOOSE q \in {Shr(n, k), Shr(n, k) + 1} :
        \/ Abs(2 * (n - q * 2^k)) < 2^k
        \/ Abs(2 * (n - q * 2^k)) = 2^k /\ q % 2 = 0

\* vcvtps2ph (F16C) and fcvtn (NEON): rounded to nearest even, with subnormals
\* of 2^-24; a NaN is made quiet and keeps the upper bits of its payload.
HardwareHalf(f) ==
    LET sign == f.sign * 2^15
        normal == (f.exp8 - 113) * 2^10 + RoundToEven(2^23 + f.man23, 13)
    IN CASE f.exp8 = 255 ->
                sign + Inf
                  + (IF f.man23 # 0 THEN 2^9 + (Shr(f.man23, 13) % 2^9) ELSE 0)
         [] f.exp8 \in 113 .. 254 -> sign + (IF normal < Inf THEN normal ELSE Inf)
         [] f.exp8 \in 102 .. 112 ->
                sign + RoundToEven(2^23 + f.man23, 126 - f.exp8)
         [] OTHER -> sign

\* Mutant of HalfExponent(exp8): the float's bias of 128.
HalfExponentLow(exp8) == exp8 - 128 + 15

HalfExponent(exp8) == exp8 - 127 + 15

\* e3sm_shm_writer.cpp, the controller's rows, without F16C.
ControllerFallback(f) ==
    LET sign == f.sign * 2^15
        exp5 == HalfExponent(f.exp8)
    IN CASE f.exp8 = 0 -> sign
         [] f.exp8 = 255 -> sign + Inf + (IF f.man23 # 0 THEN 1 ELSE 0)
         [] f.exp8 \in 1 .. 254 /\ exp5 <= 0 -> sign
         [] f.exp8 \in 1 .. 254 /\ exp5 >= 31 -> sign + Inf
         [] OTHER -> sign + exp5 * 2^10 + Shr(f.man23, 13)

bf16_to_fp16(f16c, f) == IF f16c THEN HardwareHalf(f) ELSE ControllerFallback(f)

\* Mutant of RoundsUp(man23): ties are rounded up.
RoundsUpTies(man23) == man23 % 2^13 >= 2^12

RoundsUp(man23) ==
    LET rem == man23 % 2^13
    IN rem > 2^12 \/ (rem = 2^12 /\ Shr(man23, 13) % 2 = 1)

\* e3_slot_convert.h, the helper's rows, with neither F16C nor NEON.  A mantissa
\* of 1024 carries into the exponent, and there into infinity.
HelperFallback(f) ==
    LET sign == f.sign * 2^15
        exp5 == f.exp8 - 127 + 15
        man10 == Shr(f.man23, 13) + (IF RoundsUp(f.man23) THEN 1 ELSE 0)
    IN CASE f.exp8 = 0 -> sign
         [] f.exp8 = 255 -> sign + Inf + (IF f.man23 # 0 THEN 2^9 ELSE 0)
         [] f.exp8 \in 1 .. 254 /\ exp5 >= 31 -> sign + Inf
         [] f.exp8 \in 1 .. 254 /\ exp5 <= 0 -> sign
         [] OTHER -> sign + exp5 * 2^10 + man10

bf16_to_fp16_scalar(vector, f) ==
    IF vector THEN HardwareHalf(f) ELSE HelperFallback(f)

\* The loops over eight samples use the same instruction.  Each program has its
\* own build: the controller has no NEON path and has F16C only with
\* -march=native, the helper has a fallback only with E3_ALLOW_SCALAR_CONVERT.
ConvertFloat ==
    /\ result = None
    /\ input.kind = "float"
    /\ \E f16c, vector \in BOOLEAN :
          result' = [conversion |-> "float",
                     controller |-> bf16_to_fp16(f16c, input.f),
                     helper |-> bf16_to_fp16_scalar(vector, input.f)]
    /\ UNCHANGED input

-----------------------------------------------------------------------------
(* Block floating point. *)

\* Mutant of Align(bit_pos): one bit too far.
AlignOff(bit_pos) == 24 - bit_pos - 10

Align(bit_pos) == 24 - bit_pos - 9

\* extract_9bit() on the three bytes at bit_offset / 8.
extract_9bit(w, bit_pos) ==
    LET raw == Shr(w[1] * 2^16 + w[2] * 2^8 + w[3], Align(bit_pos)) % 2^9
    IN IF raw >= 2^8 THEN raw - 2^9 ELSE raw

Int16(n) == ((n + 2^15) % 2^16) - 2^15

\* The whole byte is the shift count.  From 32 on the shift is undefined: the
\* scalar instruction takes it modulo 32, the vector one leaves zero.
ShiftCounts(exponent) ==
    IF exponent < 32 THEN {exponent} ELSE {exponent % 32, 31}

\* value = mantissa << exponent, cut to an int16.
Scaled(mantissa, shift) ==
    IF shift >= 16 THEN 0 ELSE Int16(mantissa * 2^shift)

Decompress ==
    /\ result = None
    /\ input.kind = "bfp"
    /\ LET mantissa == extract_9bit(input.w, (input.i * 9) % 8)
       IN \E shift \in ShiftCounts(input.exponent) :
             result' = [conversion |-> "bfp", mantissa |-> mantissa,
                        value |-> Scaled(mantissa, shift)]
    /\ UNCHANGED input

-----------------------------------------------------------------------------
(* FFT padding.  bins[i] is the subcarrier in bin i, -1 for padding. *)

fft_size(sc) == 2^(CHOOSE k \in 0 .. 12 : 2^k >= sc /\ (k = 0 \/ 2^(k - 1) < sc))

\* Mutant of Bins(sc): the halves are not exchanged.
BinsInOrder(sc) ==
    LET half_sc == sc \div 2
        first_carrier_offset == fft_size(sc) - half_sc
    IN [i \in 0 .. fft_size(sc) - 1 |->
          IF i >= first_carrier_offset THEN half_sc + i - first_carrier_offset
          ELSE IF i < half_sc THEN i ELSE -1]

\* The first half of the section goes to the bins from first_carrier_offset,
\* the second half to the bins from 0.
Bins(sc) ==
    LET half_sc == sc \div 2
        first_carrier_offset == fft_size(sc) - half_sc
    IN [i \in 0 .. fft_size(sc) - 1 |->
          IF i >= first_carrier_offset THEN i - first_carrier_offset
          ELSE IF i < half_sc THEN half_sc + i ELSE -1]

Pad ==
    /\ result = None
    /\ input.kind = "section"
    /\ result' = [conversion |-> "section", bins |-> Bins(input.num_prbu * 12)]
    /\ UNCHANGED input

-----------------------------------------------------------------------------
Inputs ==
    [kind : {"int16"}, v : Int16s]
    \cup [kind : {"float"}, f : Floats]
    \cup [kind : {"bfp"}, w : Windows, i : 0 .. 23, exponent : Exponents]
    \cup [kind : {"section"}, num_prbu : PrbCounts]

FormatInit == input \in Inputs /\ result = None

FormatNext == ConvertInt16 \/ ConvertFloat \/ Decompress \/ Pad

FormatSpec == FormatInit /\ [][FormatNext]_formatVars

-----------------------------------------------------------------------------
(* Properties. *)

\* The value of a finite, normal half times 2048, in units of 2^-11.
HalfTimes2048(h) ==
    LET e == Shr(h % 2^15, 10)
        mag == (2^10 + (h % 2^10)) * 2^(e - 3)
    IN IF h >= 2^15 THEN -mag ELSE mag

\* int16_to_fp16() gives the half that is nearest to v / 2048, the even one of
\* two that are equally near, for every sample including -32768, and always a
\* normal number (its comment: "no subnormal handling is needed").
Int16Nearest ==
    result.conversion = "int16" /\ input.v # 0 =>
        LET h == result.half
            error(g) == Abs(HalfTimes2048(g) - input.v * 2^11)
        IN /\ Shr(h % 2^15, 10) \in 4 .. 19
           /\ \A g \in {h - 1, h + 1} :
                 error(h) < error(g) \/ (error(h) = error(g) /\ h % 2 = 0)

\* Where the result is a normal half or infinity, the helper's row has the half
\* nearest to the product, ties to even, whichever path it was built with: the
\* fallback of bf16_to_fp16_scalar() rounds as the instructions do.
HelperNearest ==
    result.conversion = "float" /\ input.f.exp8 \in 113 .. 254 =>
        LET f == input.f
            exact == (f.exp8 - 113) * 2^10 + RoundToEven(2^23 + f.man23, 13)
        IN result.helper = f.sign * 2^15 + (IF exact < Inf THEN exact ELSE Inf)

\* Whatever the builds of the two programs, the controller's and the helper's
\* rows agree on a product that is a number, needs no rounding to ten bits of
\* mantissa, as with a scale that is a power of two, and is not of the size of a
\* subnormal half, which the instructions give and the fallbacks make zero.
ExactProductsAgree ==
    /\ result.conversion = "float"
    /\ input.f.exp8 \notin 102 .. 112 /\ input.f.exp8 # 255
    /\ input.f.man23 % 2^13 = 0
    => result.controller = result.helper

\* extract_9bit() is the two's complement number of the nine bits that begin at
\* bit_offset; the third byte it loads, which for the last value of a PRB lies
\* beyond the block, has no part in it.  For the exponents nine-bit BFP of int16
\* samples can have, 0 to 7, in the low nibble as in compression_params of
\* xran_format.h and with the reserved bits zero, the sample is that number
\* scaled, without overflow.
BfpExact ==
    result.conversion = "bfp" =>
        LET p == (input.i * 9) % 8
            bit(k) == Shr(input.w[1] * 2^8 + input.w[2], 15 - p - k) % 2
            number == 2^7 * bit(1) + 2^6 * bit(2) + 2^5 * bit(3) + 2^4 * bit(4)
                        + 2^3 * bit(5) + 2^2 * bit(6) + 2 * bit(7) + bit(8)
                        - 2^8 * bit(0)
        IN /\ result.mantissa = number
           /\ input.exponent <= 7 => result.value = number * 2^input.exponent

\* Subcarrier k of a section, counted from the middle of the band, is in bin k
\* modulo the FFT size; every other bin is zero, and the size is the smallest
\* power of two that holds the section.
BinsAreCentred ==
    result.conversion = "section" =>
        LET sc == input.num_prbu * 12
        IN \E k \in 0 .. 12 :
              LET n == 2^k
              IN /\ DOMAIN result.bins = 0 .. n - 1
                 /\ n >= sc /\ n < 2 * sc
                 /\ \A i \in 0 .. n - 1 :
                       result.bins[i] = IF (i + sc \div 2) % n < sc
                                        THEN (i + sc \div 2) % n ELSE -1

\* "the controller and the gNB-side jbpf helper produce BYTE-IDENTICAL rows"
\* (e3_slot_convert.h:5).
RowsByteIdentical ==
    result.conversion = "float" => result.controller = result.helper

\* "First byte: exponent in upper 4 bits, reserved in lower 4"
\* (bfp_decompress.cpp:68; :7 and bfp_decompress.h:7 put the exponent first, too).
ExponentInUpperNibble ==
    result.conversion = "bfp" =>
        result.value = Scaled(result.mantissa, Shr(input.exponent, 4))
=============================================================================
