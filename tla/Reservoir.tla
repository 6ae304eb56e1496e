------------------------------ MODULE Reservoir ------------------------------
(***************************************************************************)
(* The arithmetic of the encoder's bit reservoir and of CBR framing        *)
(* (src/internal/enc/reservoir.go and the size functions of frame.go).     *)
(* One configuration of the encoder is an assignment of the constants; a   *)
(* stream never changes its bitrate, sample rate or channel count.         *)
(***************************************************************************)
EXTENDS Integers

CONSTANTS
    ByteRate,         \* 144000 * kbps
    SampleRate,       \* Hz
    HeaderBytes,      \* 4-byte header plus the side-info block
    ResHardCapBytes,  \* 511, the reach of the 9-bit main_data_begin field
    MaxPart23Length,  \* 4095, the 12-bit part_2_3_length field's limit
    NGC               \* granule-channels per frame, 2 * channels

MinOf(a, b) == IF a <= b THEN a ELSE b
MaxOf(a, b) == IF a >= b THEN a ELSE b

FrameLength(padding) == ByteRate \div SampleRate + padding

MainAreaBytes(padding) == FrameLength(padding) - HeaderBytes

\* Mutant: the reach of the field alone, with no bound on the depth.
ReachCap == ResHardCapBytes

\* Seven unpadded areas bound the depth of the pending-frame ring.
ResCapBytes == MinOf(ResHardCapBytes, 7 * MainAreaBytes(0))

ASSUME RateAssumption ==
    /\ ByteRate \in Nat /\ SampleRate \in Nat \ {0} /\ HeaderBytes \in Nat
    /\ ByteRate \div SampleRate \in Nat
    /\ ByteRate % SampleRate \in 0..SampleRate - 1

ASSUME AreaAssumption == ByteRate \div SampleRate > HeaderBytes

ASSUME LimitAssumption ==
    /\ ResHardCapBytes \in Nat /\ MaxPart23Length \in Nat
    /\ NGC \in {2, 4}

(***************************************************************************)
(* Padding accumulator: paddingState.next as a pair of functions of acc.   *)
(***************************************************************************)
PaddingSum(acc) == acc + (ByteRate % SampleRate)
\* Mutants: a padding slot paid late, and one that is never paid for.
PaddingBitLate(acc) == IF PaddingSum(acc) > SampleRate THEN 1 ELSE 0
PaddingUnpaid(acc) == PaddingSum(acc)

PaddingBit(acc) == IF PaddingSum(acc) >= SampleRate THEN 1 ELSE 0
PaddingNext(acc) == PaddingSum(acc) - (IF PaddingBit(acc) = 1 THEN SampleRate ELSE 0)

(***************************************************************************)
(* The legal physical spend of a frame, in bytes.                          *)
(***************************************************************************)
\* Mutant: no forced spend, the cap forgotten.
NoForcedSpend(occ, area) == 0

SpendLo(occ, area) == MaxOf(0, occ + area - ResCapBytes)
SpendHi(occ, area) == occ + area

\* The bytes the part_2_3_length fields of one frame can describe.
HuffCap == (NGC * MaxPart23Length + 7) \div 8
=============================================================================
