---------------------------- MODULE MCPcmDecoder ----------------------------
(***************************************************************************)
(* Sources for PcmDecoder: what NewDecoder meets in files, small.          *)
(***************************************************************************)
EXTENDS PcmDecoder

Junk(n) == [p \in 1..n |-> Cell("junk", 0, 0)]

\* Frames from..to; every other one starts in the main data of the one before.
Run(kind, from, to) ==
    [p \in 1..(to - from + 1) * FrameLen |->
        LET k == (p - 1) \div FrameLen
        IN  IF p % FrameLen = 1 THEN Cell(kind, from + k, k % 2) ELSE Cell("body", from + k, 0)]
TagCells == Run(Sized, 0, 0)

Source(cells, n) ==
    [cells |-> cells, n |-> n, tag |-> NoTag, id3 |-> 0, trailer |-> 0,
     seekable |-> TRUE, whole |-> TRUE, ragged |-> FALSE]

\* What PcmEncoder writes for 13 samples.
Tagged ==
    [Source(TagCells \o Run(Sized, 1, 6), 6) EXCEPT
        !.tag = [present |-> TRUE, frames |-> 6, delay |-> EncoderDelay,
                 padding |-> LamePadding(6, 13)]]
HeadOnly ==
    [Source(Junk(1) \o TagCells \o Run(Sized, 1, 4), 4) EXCEPT
        !.id3 = 1, !.tag = [present |-> TRUE, frames |-> 0, delay |-> EncoderDelay, padding |-> 0]]
Trailed ==
    [Source(Junk(1) \o Run(Sized, 1, 5) \o Junk(2), 5) EXCEPT !.trailer = 2, !.ragged = TRUE]
FreeFormat == Source(Run(Free, 1, 5), 5)
\* Longer than what opening it buffers.
LongFree ==
    [Source(Run(Free, 0, 0) \o Run(Free, 1, 11), 11) EXCEPT
        !.tag = [present |-> TRUE, frames |-> 11, delay |-> EncoderDelay,
                 padding |-> LamePadding(11, 28)]]
Unseekable == [Source(Run(Sized, 1, 4), 4) EXCEPT !.seekable = FALSE]
Short == [Source(Run(Sized, 1, 4) \o <<Cell(Sized, 5, 0)>>, 4) EXCEPT !.ragged = TRUE]
Cut == [Source(<<Cell(Sized, 1, 1)>> \o Tail(Run(Sized, 1, 1)) \o Run(Sized, 2, 5), 5) EXCEPT !.whole = FALSE]
Gap(n) ==
    [Source(Run(Sized, 1, 4) \o Junk(n) \o Run(Sized, 5, 8), 8) EXCEPT !.whole = FALSE]

Files ==
    [tagged |-> Tagged, headOnly |-> HeadOnly, trailed |-> Trailed, free |-> FreeFormat,
     longFree |-> LongFree, unseekable |-> Unseekable, short |-> Short, cut |-> Cut,
     gap3 |-> Gap(3), gap11 |-> Gap(11), gap14 |-> Gap(14), gap40 |-> Gap(40)]
SomeFiles == Files              \* TLC keeps the value of Files

\* Junk behind the audio that is not an ID3v1 tag.
JunkEnded == [junk |-> [Source(Run(Sized, 1, 5) \o Junk(4), 5) EXCEPT !.ragged = TRUE]]

\* What is read behind a seek that was refused.
FreeOnly == [longFree |-> LongFree]

\* As many frames as matches are asked for, and an ID3v1 tag.
FewFrames ==
    [few |-> [Source(Run(Sized, 1, MaxMatches) \o Junk(2), MaxMatches) EXCEPT
                !.trailer = 2, !.ragged = TRUE]]
=============================================================================
