------------------------------ MODULE HeaderMath ------------------------------
(***************************************************************************)
(* The size of a frame, as four places of the code derive it: the frame    *)
(* decoder's header macros (src/internal/dec/header.go), the seek's walk   *)
(* (src/pcm/seek.go, frameLength), the encoder (src/internal/enc/frame.go) *)
(* and the samples it stands for (src/pcm/xing.go).  Each has its own      *)
(* tables and formula; a difference of one byte for one header would make  *)
(* a seek land inside a frame.                                             *)
(*                                                                         *)
(* A header is its fields.  Version 3 is MPEG-1, 2 is MPEG-2, 0 is         *)
(* MPEG-2.5; layer 1 is Layer III, 3 is Layer I; `sync' is the eleven set  *)
(* bits.                                                                   *)
(***************************************************************************)
EXTENDS Integers

Header ==
    [sync : BOOLEAN, version : 0..3, layer : 0..3, bitrate : 0..15, rate : 0..3, padding : 0..1]

LayerIII == 1
FreeFormat == 0                     \* the bitrate field that gives no bitrate
MaxFrameBytes == 2880               \* of the PCM decoder's window

(***************************************************************************)
(* The frame decoder.                                                      *)
(***************************************************************************)
Mpeg1(h) == h.version \in {1, 3}
NotMpeg25(h) == h.version \in {2, 3}

HdrValid(h) ==
    /\ h.sync
    /\ NotMpeg25(h) \/ (h.version = 0 /\ h.layer = LayerIII)
    /\ h.layer # 0 /\ h.bitrate # 15 /\ h.rate # 3

\* hdrHalfrate, by the bitrate field; the rows of Layers III, II and I.
Halfrate1 ==
    << <<16, 20, 24, 28, 32, 40, 48, 56, 64, 80, 96, 112, 128, 160>>,
       <<16, 24, 28, 32, 40, 48, 56, 64, 80, 96, 112, 128, 160, 192>>,
       <<16, 32, 48, 64, 80, 96, 112, 128, 144, 160, 176, 192, 208, 224>> >>
Halfrate2 ==
    << <<4, 8, 12, 16, 20, 24, 28, 32, 40, 48, 56, 64, 72, 80>>,
       <<4, 8, 12, 16, 20, 24, 28, 32, 40, 48, 56, 64, 72, 80>>,
       <<16, 24, 28, 32, 40, 48, 56, 64, 72, 80, 88, 96, 112, 128>> >>

BitrateKbps(h) ==
    IF h.bitrate = FreeFormat THEN 0
    ELSE 2 * (IF Mpeg1(h) THEN Halfrate1 ELSE Halfrate2)[h.layer][h.bitrate]

Hz(field) == IF field = 0 THEN 44100 ELSE IF field = 1 THEN 48000 ELSE 32000

SampleRateHz(h) ==
    LET full == Hz(h.rate)
        half == IF Mpeg1(h) THEN full ELSE full \div 2
    IN  IF NotMpeg25(h) THEN half ELSE half \div 2

FrameSamples(h) ==
    IF h.layer = 3 THEN 384 ELSE IF h.layer = LayerIII /\ ~Mpeg1(h) THEN 576 ELSE 1152

\* A Layer I frame is cut to its four-byte slots.
StatedBytes(h) ==
    LET exact == (FrameSamples(h) * BitrateKbps(h) * 125) \div SampleRateHz(h)
    IN  IF h.layer = 3 THEN exact - (exact % 4) ELSE exact

\* `free' is what the decoder has learnt of a free-format stream.
FrameBytes(h, free) == IF StatedBytes(h) # 0 THEN StatedBytes(h) ELSE free

Padding(h) == IF h.padding = 0 THEN 0 ELSE IF h.layer = 3 THEN 4 ELSE 1

(***************************************************************************)
(* The seek.                                                               *)
(***************************************************************************)
BitrateV1L3 ==
    <<32000, 40000, 48000, 56000, 64000, 80000, 96000, 112000, 128000, 160000, 192000,
      224000, 256000, 320000>>
BitrateV2L3 ==
    <<8000, 16000, 24000, 32000, 40000, 48000, 56000, 64000, 80000, 96000, 112000, 128000,
      144000, 160000>>
SampleRates(version, field) ==
    IF version = 0 THEN IF field = 0 THEN 11025 ELSE IF field = 1 THEN 12000 ELSE 8000
    ELSE IF version = 2 THEN IF field = 0 THEN 22050 ELSE IF field = 1 THEN 24000 ELSE 16000
    ELSE IF field = 0 THEN 44100 ELSE IF field = 1 THEN 48000 ELSE 32000

Sizeable(h) ==
    /\ h.sync /\ h.layer = LayerIII /\ h.version # 1
    /\ h.bitrate \notin {FreeFormat, 15} /\ h.rate # 3

Length(h) ==
    h.padding + (IF h.version = 3 THEN 144 * BitrateV1L3[h.bitrate]
                 ELSE 72 * BitrateV2L3[h.bitrate]) \div SampleRates(h.version, h.rate)

\* frameLength's ok.
SeekSizes(h) == Sizeable(h) /\ Length(h) > 4

(***************************************************************************)
(* The encoder, and the samples of a tag's frame count.                    *)
(***************************************************************************)
BitrateKbpsTable == <<32, 40, 48, 56, 64, 80, 96, 112, 128, 160, 192, 224, 256, 320>>

EncoderLength(bitrateIndex, srIndex, padding) ==
    (144000 * BitrateKbpsTable[bitrateIndex]) \div Hz(srIndex) + padding

EncoderHeader(bitrateIndex, srIndex, p) ==
    [sync |-> TRUE, version |-> 3, layer |-> LayerIII, bitrate |-> bitrateIndex,
     rate |-> srIndex, padding |-> p]

SamplesPerFrame(sampleRate) == IF sampleRate >= 32000 THEN 1152 ELSE 576
=============================================================================
