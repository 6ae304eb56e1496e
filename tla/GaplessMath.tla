----------------------------- MODULE GaplessMath -----------------------------
(***************************************************************************)
(* The gapless arithmetic of package pcm, in samples per channel: the      *)
(* padding field the encoder writes (src/pcm/infotag.go, lamePadding) and  *)
(* the trims the decoder derives from delay and padding fields             *)
(* (src/pcm/decoder.go, gaplessTrims and applyLAME).                       *)
(*                                                                         *)
(* The two sides were written apart and count differently: the field       *)
(* covers the encoder's share of the delay only, so the decoder adds its   *)
(* own share at the head and takes it off again at the tail.               *)
(***************************************************************************)
EXTENDS Integers

CONSTANTS
    FrameSize,      \* 1152: samples per channel of a frame
    EncoderDelay,   \* 528
    DecoderDelay,   \* lameDecoderDelay, 529
    FieldMax        \* 4095: the 12-bit padding field

\* The chain's delay is less than a frame, and the field holds what a short
\* last frame and the flush frame can leave.
ASSUME GaplessAssumption ==
    /\ FrameSize \in Nat \ {0} /\ EncoderDelay \in Nat /\ DecoderDelay \in Nat
    /\ FieldMax \in Nat
    /\ EncoderDelay + DecoderDelay <= FrameSize
    /\ 2 * FrameSize - 1 - EncoderDelay <= FieldMax

Least(a, b) == IF a <= b THEN a ELSE b
Most(a, b) == IF a <= b THEN b ELSE a

\* Frames that n samples fill, the last one padded with zeros, and the frames
\* coded for them: a drain adds the flush frame.
FramesFilled(n) == (n + FrameSize - 1) \div FrameSize
FramesCoded(n) == FramesFilled(n) + 1

\* Mutant: the whole chain's delay is taken off the padding.
LamePaddingTotal(audioFrames, nInput) ==
    Least(FieldMax, Most(0, audioFrames * FrameSize - nInput - EncoderDelay - DecoderDelay))

LamePadding(audioFrames, nInput) ==
    Least(FieldMax, Most(0, audioFrames * FrameSize - nInput - EncoderDelay))

\* gaplessTrims.
HeadTrim(delay) == delay + DecoderDelay
TailTrim(padding) == Most(padding - DecoderDelay, 0)

\* applyLAME, for a known length before the trims: the first sample dropped
\* at the tail, and the length left (0, "unknown", where nothing would be).
WindowEnd(preTrim, padding) == preTrim - Least(TailTrim(padding), preTrim)

Playable(preTrim, delay, padding) ==
    LET trims == HeadTrim(delay) + Least(TailTrim(padding), preTrim)
    IN  IF trims > preTrim THEN 0 ELSE preTrim - trims
=============================================================================
