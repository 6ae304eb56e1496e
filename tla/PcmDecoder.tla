------------------------------ MODULE PcmDecoder ------------------------------
(***************************************************************************)
(* The streaming PCM decoder with its seeks (src/pcm/decoder.go,           *)
(* src/pcm/seek.go) over the frame decoder and its frame sync              *)
(* (src/internal/dec/decode.go, header.go), reading a source that may fail *)
(* at any read or seek.                                                    *)
(*                                                                         *)
(* A source is a sequence of cells.  A frame is a header cell, which knows *)
(* its number and how many earlier frames its main data reaches into, and  *)
(* body cells; the tag frame has number 0; a free-format header does not   *)
(* give its length.  All frames are equally long, and junk never looks     *)
(* like a header.  A decoded sample is its frame, the frame decoded before *)
(* it, whose overlap it contains, and its index: this is what a decode at  *)
(* the wrong place or without lead-in gets wrong.  Decoding silence leaves *)
(* the state of a reset, so the tag's number stands for both.              *)
(***************************************************************************)
EXTENDS GaplessMath, Sequences, FiniteSetsExt

CONSTANTS
    Sources,        \* what may be decoded, by name
    FrameLen,       \* cells of a frame
    MaxMatches,     \* maxFrameSyncMatches, 10
    SmallWindow,    \* maxFrameBytes, 2880
    ResyncWindow,   \* resyncWindowBytes, 16384
    Budget,         \* resyncBudgetBytes, 131072
    PrimeFrames,    \* seekPrimeFrames, 16
    BufSize,        \* readerBufSize, 65536
    NoEnd,          \* math.MaxUint64: no tail trim
    Targets,        \* samples the caller seeks
    MaxFaults       \* bound: reads and seeks of the source that fail

ASSUME PcmDecoderAssumption ==
    /\ {FrameLen, MaxMatches, SmallWindow, ResyncWindow, Budget, PrimeFrames, BufSize,
        NoEnd, MaxFaults} \cup Targets \subseteq Nat
    /\ FrameLen > 1 /\ SmallWindow > FrameLen /\ ResyncWindow > SmallWindow + 1 /\ BufSize > 0

Sized == "mp3"
Free == "free"
Cell(kind, id, need) == [kind |-> kind, id |-> id, need |-> need]
CellType == [kind : {Sized, Free, "body", "junk"}, id : Nat, need : Nat]
IsHeader(c) == c.kind \in {Sized, Free}

NoTag == [present |-> FALSE, frames |-> 0, delay |-> 0, padding |-> 0]

SourceType ==
    [cells : Seq(CellType), n : Nat, id3 : Nat, trailer : Nat,
     tag : [present : BOOLEAN, frames : Nat, delay : Nat, padding : Nat],
     seekable : BOOLEAN, whole : BOOLEAN, ragged : BOOLEAN]

\* Frames are numbered in the order of the source, and only a tag tells something.
ASSUME SourcesAssumption ==
    \A name \in DOMAIN Sources :
        LET s == Sources[name]
        IN  /\ s \in SourceType /\ s.id3 <= Len(s.cells) /\ (s.tag.present \/ s.tag = NoTag)
            /\ \A p, q \in DOMAIN s.cells :
                  p < q /\ IsHeader(s.cells[p]) /\ IsHeader(s.cells[q]) =>
                      s.cells[p].id < s.cells[q].id

\* The frames of a source without gaps: `count' of one kind, from behind `lead'
\* cells of junk; their main data reaches into what a decoder that began with the
\* first of them, or a lead-in before them, has; and their samples can be counted.
FirstId(s) == IF s.tag.present THEN 0 ELSE 1
Adjoining(s, lead, count, kind) ==
    /\ (FirstId(s) + count) * FrameSize <= NoEnd
    /\ \A p \in DOMAIN s.cells :
          IsHeader(s.cells[p]) => \E k \in 0..count - 1 : p = lead + k * FrameLen + 1
    /\ \A k \in 0..count - 1 :
          LET p == lead + k * FrameLen + 1
              c == s.cells[p]
          IN  /\ p \in DOMAIN s.cells /\ c.kind = kind /\ c.id = FirstId(s) + k
              /\ c.need <= Most(0, Least(c.id - 1, PrimeFrames - 1))

\* A free-format frame and its successor fit the small window, and junk before
\* the first frame is found in one window, or a window is far longer than the other.
Proportions(s, lead, kind) ==
    /\ kind = Free => 2 * FrameLen <= SmallWindow
    /\ s.id3 <= lead
    /\ \/ lead + 2 * FrameLen + 1 < ResyncWindow
       \/ 2 * SmallWindow + FrameLen < ResyncWindow

ASSUME WholeAssumption ==
    /\ PrimeFrames > 0 /\ MaxMatches > 0
    /\ \A name \in DOMAIN Sources :
          LET s == Sources[name]
          IN  s.whole =>
                \E lead, count \in 0..Len(s.cells), kind \in {Sized, Free} :
                    /\ Adjoining(s, lead, count, kind) /\ Proportions(s, lead, kind)
                    /\ s.tag.present => count > 0

VARIABLES
    file,     \* the name of the source, a parameter of the behaviour
    d,        \* the Decoder's fields
    dec,      \* the frame decoder: cached header, frames in the reservoir, overlap
    call,     \* the call in progress
    ret,      \* what the last call returned
    expect,   \* history: playable sample the caller gets next
    got,      \* history: frames delivered, or passed by a seek
    adrift,   \* history: what follows in the source is not what follows d's buffers
    faults

vars == <<file, d, dec, call, ret, expect, got, adrift, faults>>

src == Sources[file]

Cold == [hdr |-> "none", run |-> 0, prev |-> 0]
Fresh ==
    [pos |-> 0, br |-> <<>>, buf |-> <<>>, readErr |-> "none", pending |-> <<>>,
     tagChecked |-> FALSE, frames |-> 0, start |-> 0, end |-> NoEnd, produced |-> 0,
     audioStart |-> 0, firstBytes |-> 0, seen |-> FALSE, frameOff |-> <<>>,
     done |-> FALSE, err |-> "none", rate |-> FALSE, total |-> 0]

IdleCall == [at |-> "idle", op |-> "none", window |-> 0, skipped |-> 0, err |-> "none",
             asked |-> 0, frame |-> 0, target |-> 0, intra |-> 0]
Ret(op, err) == [op |-> op, err |-> err, out |-> <<>>, from |-> 0, after |-> 0,
                 asked |-> 0, landed |-> 0, adrift |-> FALSE]

\* Reset behind the ID3v2 tag.
Opening == [Fresh EXCEPT !.pos = src.id3, !.audioStart = src.id3]
ResetCall == [IdleCall EXCEPT !.at = "decode", !.op = "reset", !.window = ResyncWindow]

Init ==
    /\ file \in DOMAIN Sources
    /\ d = Opening /\ dec = Cold
    /\ call = ResetCall /\ ret = Ret("none", "none")
    /\ expect = 0 /\ got = {} /\ adrift = FALSE /\ faults = 0

Frames == {src.cells[p].id : p \in {q \in DOMAIN src.cells : IsHeader(src.cells[q])}} \ {0}
MayFail == faults < MaxFaults

(***************************************************************************)
(* fillTo: what frameBuf, bufio buffer and source are after it.            *)
(***************************************************************************)
Fills(target) ==
    LET need == target - Len(d.buf)
        rest == SubSeq(src.cells, d.pos + 1, Len(src.cells))
        stock == d.br \o rest
        beyond == need - Len(d.br)
        pulled == Least(Len(rest), BufSize * ((beyond + BufSize - 1) \div BufSize))
    IN  IF d.readErr # "none" \/ need <= 0 THEN {d}
        ELSE IF beyond <= 0
          THEN {[d EXCEPT !.buf = @ \o SubSeq(d.br, 1, need),
                          !.br = SubSeq(@, need + 1, Len(@))]}
        ELSE {[d EXCEPT !.buf = @ \o SubSeq(stock, 1, Least(need, Len(stock))),
                        !.br = SubSeq(stock, need + 1, Len(d.br) + pulled),
                        !.pos = @ + pulled,
                        !.readErr = IF Len(stock) < need THEN "eof" ELSE "none"]}
             \cup {[d EXCEPT !.buf = @ \o SubSeq(stock, 1, Len(d.br) + m),
                             !.br = <<>>, !.pos = @ + m, !.readErr = "io"] :
                       m \in IF MayFail THEN 0..Least(beyond - 1, Len(rest)) ELSE {}}

Count(f) == faults' = faults + (IF f.readErr = "io" /\ d.readErr # "io" THEN 1 ELSE 0)

(***************************************************************************)
(* DecodeFrame on buffer b: the fast path, or a search that drops all      *)
(* decoder state.                                                          *)
(***************************************************************************)
Same(a, b) == IsHeader(b) /\ a.kind = b.kind

FastPath(b) ==
    /\ Len(b) > 1 /\ IsHeader(b[1]) /\ dec.hdr = b[1].kind
    /\ \/ Len(b) = FrameLen
       \/ Len(b) > FrameLen /\ Same(b[1], b[FrameLen + 1])

\* matchFrame: the headers that follow, as far as the buffer goes, at least one.
MatchFrame(b, i) ==
    /\ i + FrameLen <= Len(b)
    /\ \A j \in 1..MaxMatches : i + j * FrameLen <= Len(b) => Same(b[i], b[i + j * FrameLen])

\* A free-format frame's length is found by its two successors.
Confirmed(b, i) ==
    \/ b[i].kind = Sized /\ (MatchFrame(b, i) \/ (i = 1 /\ Len(b) = FrameLen))
    \/ b[i].kind = Free /\ i + 2 * FrameLen < Len(b) /\ MatchFrame(b, i)

\* findFrame: cells before the first confirmed frame.
FindFrame(b) ==
    LET hits == {i \in 1..Len(b) - 1 : Confirmed(b, i)}
    IN  IF hits = {} THEN Len(b) ELSE Min(hits) - 1

DecodeFrame(b) ==
    LET fast == FastPath(b)
        base == IF fast THEN dec ELSE Cold
        off == IF fast THEN 0 ELSE FindFrame(b)
        head == IF off < Len(b) THEN b[off + 1] ELSE Cell("junk", 0, 0)
        ok == IsHeader(head) /\ head.need <= base.run
    IN  [hit |-> off < Len(b), off |-> off, id |-> head.id, ok |-> ok, prev |-> base.prev,
         bytes |-> IF off < Len(b) THEN off + FrameLen ELSE off,
         dec |-> IF off = Len(b) THEN Cold
                 ELSE [hdr |-> head.kind, run |-> Least(base.run + 1, PrimeFrames),
                       prev |-> IF ok THEN head.id ELSE base.prev]]

Consume(f, n) == [f EXCEPT !.buf = SubSeq(@, n + 1, Len(@))]
Samples(o, from, to) == [k \in 1..Most(0, to - from) |-> <<o.id, o.prev, from + k - 1>>]

(***************************************************************************)
(* decodeNextFrame, one turn of its loop at a time.                        *)
(***************************************************************************)
DecodeWindow(f) == IF f.rate THEN SmallWindow ELSE ResyncWindow

Again(f, window, skipped) ==
    d' = f /\ call' = [call EXCEPT !.window = window, !.skipped = skipped]

Back(f, err) == d' = f /\ call' = [call EXCEPT !.at = "back", !.err = err]

\* Mutant: a failed source counts as an end.
FinishClean(f) == Back([f EXCEPT !.done = TRUE], "eof")

Finish(f) ==
    IF f.readErr = "io" THEN Back([f EXCEPT !.err = "io"], "io")
    ELSE Back([f EXCEPT !.done = TRUE], "eof")

Truncated(b) == b[1].kind = Sized /\ Len(b) < FrameLen

\* Mutant: the whole window is retained.
RetainWindow == ResyncWindow

Retain == SmallWindow + 1

HandleNoFrame(f) ==
    LET discard == Len(f.buf) - Retain
        skipped == call.skipped + discard
    IN  IF f.readErr = "none"
          THEN IF Len(f.buf) < ResyncWindow THEN Again(f, ResyncWindow, call.skipped)
               ELSE IF skipped > Budget THEN Back([f EXCEPT !.err = "corrupt"], "corrupt")
               ELSE Again(Consume(f, discard), ResyncWindow, skipped)
        ELSE IF f.readErr = "eof" /\ Truncated(f.buf)
          THEN Back([f EXCEPT !.err = "corrupt"], "corrupt")
        ELSE Finish([f EXCEPT !.buf = <<>>])

\* applyXing and applyLAME.
ApplyTag(f, o) ==
    LET preTrim == src.tag.frames * FrameSize
    IN  [Consume(f, o.bytes) EXCEPT
            !.tagChecked = TRUE, !.audioStart = @ + o.bytes, !.frames = src.tag.frames,
            !.start = HeadTrim(src.tag.delay),
            !.end = IF preTrim = 0 THEN NoEnd ELSE WindowEnd(preTrim, src.tag.padding),
            !.total = IF preTrim = 0 THEN 0
                      ELSE Playable(preTrim, src.tag.delay, src.tag.padding)]

\* The first frame that is not the tag: where the audio starts.
FirstSeen(f, o) ==
    [Consume(f, o.bytes) EXCEPT
        !.tagChecked = TRUE, !.seen = TRUE,
        !.audioStart = IF f.seen THEN @ ELSE @ + o.off,
        !.firstBytes = IF f.seen THEN @ ELSE o.bytes - o.off]

\* A decoded frame against the window that is kept.
Keep(f, o) ==
    LET from == f.produced
        to == from + FrameSize
        lo == Most(from, f.start)
        hi == Least(to, f.end)
        g == [f EXCEPT !.produced = to, !.rate = TRUE]
    IN  IF to <= f.start THEN Again(g, DecodeWindow(f), 0)
        ELSE IF from >= f.end \/ lo >= hi THEN Back([g EXCEPT !.done = TRUE], "eof")
        ELSE Back([g EXCEPT !.pending = Samples(o, lo - from, hi - from)], "none")

HandleFrame(f, o) ==
    IF ~f.tagChecked /\ o.id = 0 THEN Again(ApplyTag(f, o), DecodeWindow(f), 0)
    ELSE LET g == FirstSeen(f, o)
         IN  IF o.ok THEN Keep(g, o) ELSE Again(g, DecodeWindow(f), 0)

DecodeStep ==
    /\ call.at = "decode"
    /\ \E f \in Fills(call.window) :
         /\ Count(f)
         /\ IF f.buf = <<>> THEN Finish(f) /\ UNCHANGED dec
            ELSE LET o == DecodeFrame(f.buf)
                 IN  /\ dec' = o.dec
                     /\ IF o.hit THEN HandleFrame(f, o) ELSE HandleNoFrame(f)
    /\ UNCHANGED <<file, ret, expect, got, adrift>>

\* Entering it; an ended stream stays ended.
Decoding(op) ==
    IF d.done THEN [IdleCall EXCEPT !.at = "back", !.op = op, !.err = "eof"]
    ELSE [IdleCall EXCEPT !.at = "decode", !.op = op, !.window = DecodeWindow(d)]

(***************************************************************************)
(* Reset to the rewound source.                                            *)
(***************************************************************************)
Return(r) == call' = IdleCall /\ ret' = r

Reset ==
    /\ call.at = "idle"
    /\ dec' = Cold /\ expect' = 0 /\ got' = {} /\ adrift' = FALSE
    /\ \/ d' = Opening /\ call' = ResetCall /\ UNCHANGED <<ret, faults>>
       \/ /\ MayFail /\ faults' = faults + 1      \* behind the ID3v2 tag: no further
          /\ \E m \in 0..src.id3 : d' = [Fresh EXCEPT !.pos = m, !.err = "io"]
          /\ Return(Ret("reset", "io"))
    /\ UNCHANGED file

\* estimateCBRDuration: the length, from the bytes less the ID3v1 tag it found.
Estimate(found) ==
    LET end == Len(src.cells)
        trailer == IF end - found <= d.audioStart THEN 0 ELSE found
        total == ((end - trailer - d.audioStart) \div d.firstBytes) * FrameSize
    IN  Most(0, total - d.start)

ResetEnds ==
    /\ call.at = "back" /\ call.op = "reset"
    /\ IF call.err # "none"
         THEN LET err == IF call.err = "eof" THEN "corrupt" ELSE call.err
              IN  d' = [d EXCEPT !.err = err] /\ Return(Ret("reset", err)) /\ UNCHANGED faults
       ELSE IF d.frames # 0 \/ ~src.seekable
         THEN Return(Ret("reset", "none")) /\ UNCHANGED <<d, faults>>
       ELSE \/ /\ d' = [d EXCEPT !.total = Estimate(src.trailer)]
               /\ Return(Ret("reset", "none")) /\ UNCHANGED faults
            \/ /\ MayFail /\ faults' = faults + 1      \* the tag cannot be read: audio
               /\ d' = [d EXCEPT !.total = Estimate(0)]
               /\ Return(Ret("reset", "none"))
            \/ /\ MayFail /\ faults' = faults + 1      \* measuring fails: unknown
               /\ Return(Ret("reset", "none")) /\ UNCHANGED d
            \/ /\ MayFail /\ faults' = faults + 1      \* putting it back fails
               /\ d' = [d EXCEPT !.err = "io", !.pos = Len(src.cells)]
               /\ Return(Ret("reset", "io"))
    /\ UNCHANGED <<file, dec, expect, got, adrift>>

(***************************************************************************)
(* Read and WriteTo.                                                       *)
(***************************************************************************)
Begin(op) ==
    /\ call.at = "idle"
    /\ IF d.err # "none" THEN ret' = Ret(op, d.err) /\ UNCHANGED call
       ELSE /\ call' = IF d.pending # <<>> THEN [IdleCall EXCEPT !.at = "back", !.op = op]
                       ELSE Decoding(op)
            /\ UNCHANGED ret
    /\ UNCHANGED <<file, d, dec, expect, got, adrift, faults>>

Read == Begin("read")
WriteTo == Begin("writeTo")

\* Handing out n of the pending samples.
Deliver(op, n, err) ==
    LET out == SubSeq(d.pending, 1, n)
    IN  /\ d' = [d EXCEPT !.pending = SubSeq(@, n + 1, Len(@))]
        /\ expect' = expect + n
        /\ got' = got \cup {out[k][1] : k \in 1..n}
        /\ ret' = [Ret(op, err) EXCEPT !.out = out, !.from = expect, !.adrift = adrift,
                                       !.after = IF 0 \in got THEN 0 ELSE Max(got \cup {0})]

ReadEnds ==
    /\ call.at = "back" /\ call.op = "read"
    /\ call' = IdleCall
    /\ IF call.err # "none" THEN ret' = Ret("read", call.err) /\ UNCHANGED <<d, expect, got>>
       ELSE \E n \in {1, Len(d.pending)} : Deliver("read", n, "none")
    /\ UNCHANGED <<file, dec, adrift, faults>>

\* The writer takes everything and WriteTo goes on, or it takes a part and fails.
WriteToGoesOn ==
    /\ call.at = "back" /\ call.op = "writeTo"
    /\ IF call.err # "none"
         THEN Return(Ret("writeTo", call.err)) /\ UNCHANGED <<d, expect, got>>
       ELSE \/ Deliver("writeTo", Len(d.pending), "none") /\ call' = Decoding("writeTo")
            \/ Deliver("writeTo", Len(d.pending) - 1, "sink") /\ call' = IdleCall
    /\ UNCHANGED <<file, dec, adrift, faults>>

(***************************************************************************)
(* SeekToSample.                                                           *)
(***************************************************************************)
SeekRet(s, err, landed) == [Ret("seek", err) EXCEPT !.asked = s, !.landed = landed]

SeekToEnd(f, s, total) ==
    /\ d' = [f EXCEPT !.done = TRUE, !.pending = <<>>, !.err = "none"]
    /\ Return(SeekRet(s, "none", total))
    /\ expect' = total /\ got' = Frames
    /\ UNCHANGED <<dec, adrift>>

SeekFailed(f, s, err) ==
    /\ d' = [f EXCEPT !.err = err, !.pending = <<>>]
    /\ Return(SeekRet(s, err, 0))
    /\ UNCHANGED <<expect, got, adrift>>

\* The walk over the headers from the highest cached frame, and where it stops.
Offsets == IF d.frameOff = <<>> THEN <<d.audioStart>> ELSE d.frameOff
WalkStart(target) == Least(Len(Offsets) - 1, target)
OffsetOf(i, target) ==
    LET start == WalkStart(target)
    IN  IF i < start THEN Offsets[i + 1] ELSE Offsets[start + 1] + (i - start) * FrameLen

Absent(i, target) == OffsetOf(i, target) >= Len(src.cells)
Unsized(i, target) == src.cells[OffsetOf(i, target) + 1].kind # Sized

\* Mutant: the cache is extended past the frame the walk stopped on.
StopsLate(target) ==
    Min({i \in WalkStart(target)..target : i = target \/ Absent(i, target)})

StopsAt(target) ==
    Min({i \in WalkStart(target)..target :
            i = target \/ Absent(i, target) \/ Unsized(i, target)})

\* frameOffsets' effects after a walk to frame i: the cache, and the source.
Walked(i, target) ==
    [d EXCEPT !.frameOff = IF Len(Offsets) > i THEN Offsets
                           ELSE [k \in 1..i + 1 |-> OffsetOf(k - 1, target)],
              !.pos = Least(OffsetOf(i, target) + 1, Len(src.cells))]

Reseek(f, pos) ==
    [f EXCEPT !.pos = pos, !.br = <<>>, !.buf = <<>>, !.pending = <<>>,
              !.readErr = "none", !.done = FALSE, !.err = "none"]

\* Mutant: the index is taken for one into the untrimmed stream.
RawItself(s) == s

Raw(s) == s + d.start

\* Mutant: no lead-in.
PrimeNone(target) == target

PrimeFrom(target) == Most(target - PrimeFrames, 0)

\* Mutant: the source is left where the walk stopped.
SeekUnrestored(f, s) ==
    /\ d' = f
    /\ Return(SeekRet(s, "unsupported", 0))
    /\ UNCHANGED <<dec, expect, got, adrift, faults>>

\* The source is put back, or that fails and nobody is told.
SeekUnsupported(f, s) ==
    /\ \/ d' = [f EXCEPT !.pos = d.pos] /\ UNCHANGED <<adrift, faults>>
       \/ MayFail /\ faults' = faults + 1 /\ d' = f /\ adrift' = TRUE
    /\ Return(SeekRet(s, "unsupported", 0))
    /\ UNCHANGED <<dec, expect, got>>

SeekWalk(s) ==
    LET raw == Raw(s)
        target == raw \div FrameSize
        prime == PrimeFrom(target)
        stop == StopsAt(target)
        f == Walked(stop, target)
    IN  \/ /\ MayFail /\ faults' = faults + 1
           /\ \E i \in WalkStart(target)..stop : SeekFailed(Walked(i, target), s, "io")
           /\ UNCHANGED dec
        \/ IF stop < target \/ Absent(stop, target)
             THEN IF stop = 0 /\ ~Absent(stop, target) THEN SeekUnsupported(f, s)
                  ELSE SeekToEnd(f, s, Most(stop * FrameSize - d.start, 0)) /\ UNCHANGED faults
           ELSE /\ d' = Reseek(f, OffsetOf(prime, target))
                /\ dec' = Cold /\ adrift' = FALSE
                /\ call' = [IdleCall EXCEPT !.at = "prime", !.op = "seek", !.asked = s,
                                            !.frame = prime, !.target = target,
                                            !.intra = raw % FrameSize]
                /\ UNCHANGED <<ret, expect, got, faults>>

Seek(s) ==
    /\ call.at = "idle" /\ d.rate
    /\ IF ~src.seekable
         THEN /\ ret' = SeekRet(s, "unsupported", 0)
              /\ UNCHANGED <<d, dec, call, expect, got, adrift, faults>>
       ELSE IF d.total # 0 /\ s >= d.total THEN SeekToEnd(d, s, d.total) /\ UNCHANGED faults
       ELSE SeekWalk(s)
    /\ UNCHANGED file

\* A seek passes the frames before its target; with gaps there is no telling (0).
Passed(target) == IF src.whole THEN 1..target ELSE Frames \cup {0}

\* The landing frame, from the sample asked for to the end that is kept.
Land(f, o, s) ==
    LET from == call.target * FrameSize
        hi == Least(from + FrameSize, f.end)
        landed == from + call.intra - f.start
    IN  /\ d' = [f EXCEPT !.produced = from + FrameSize,
                          !.pending = Samples(o, call.intra, hi - from)]
        /\ Return(SeekRet(s, "none", landed))
        /\ expect' = landed /\ got' = Passed(call.target)
        /\ UNCHANGED adrift

\* decodeRawFrame for each frame of the lead-in, and for the landing frame.
PrimeStep ==
    LET s == call.asked
    IN  /\ call.at = "prime"
        /\ \E f \in Fills(SmallWindow) :
             /\ Count(f)
             /\ IF f.readErr = "io" THEN SeekFailed(f, s, "io") /\ UNCHANGED dec
                ELSE IF f.buf = <<>> THEN SeekFailed(f, s, "eof") /\ UNCHANGED dec
                ELSE LET o == DecodeFrame(f.buf)
                         g == Consume(f, o.bytes)
                     IN  /\ dec' = o.dec
                         /\ IF call.frame < call.target
                              THEN /\ d' = g /\ call' = [call EXCEPT !.frame = @ + 1]
                                   /\ UNCHANGED <<ret, expect, got, adrift>>
                            ELSE IF o.ok THEN Land(g, o, s) ELSE SeekFailed(g, s, "corrupt")
        /\ UNCHANGED file

Step == DecodeStep \/ ResetEnds \/ ReadEnds \/ WriteToGoesOn \/ PrimeStep

Next == Reset \/ Read \/ WriteTo \/ (\E s \in Targets : Seek(s)) \/ Step

Spec == Init /\ [][Next]_vars
-----------------------------------------------------------------------------
HeaderOf(k) == CHOOSE p \in DOMAIN src.cells : IsHeader(src.cells[p]) /\ src.cells[p].id = k
HeaderAt(p) == p \in DOMAIN src.cells /\ IsHeader(src.cells[p])

\* What the source says about itself.
Start == IF src.tag.present THEN HeadTrim(src.tag.delay) ELSE 0
End == IF src.tag.frames = 0 THEN src.n * FrameSize
       ELSE WindowEnd(src.tag.frames * FrameSize, src.tag.padding)
PlayLen == End - Start

\* Frames that the next header or the source's end confirms, that find their
\* main data, and that are not trimmed away.
Expected ==
    {k \in Frames :
        LET p == HeaderOf(k)
        IN  /\ HeaderAt(p + FrameLen) \/ p + FrameLen = Len(src.cells) + 1
            /\ \A j \in 1..src.cells[p].need : HeaderAt(p - j * FrameLen)
            /\ src.whole =>
                  Most((k - 1) * FrameSize, Start) < Least(k * FrameSize, End)}

(***************************************************************************)
(* Buffers stay within their windows, and a cached seek offset is where a  *)
(* walk from the start of the audio would find that frame, now and         *)
(* whatever was sought before ("byte-identical either way").               *)
(***************************************************************************)
TypeOK ==
    /\ Len(d.buf) <= ResyncWindow /\ Len(d.br) <= BufSize /\ Len(d.pending) <= FrameSize
    /\ d.pos \in 0..Len(src.cells) /\ d.audioStart \in 0..Len(src.cells)
    /\ {d.readErr, d.err, call.err, ret.err}
          \subseteq {"none", "eof", "io", "corrupt", "unsupported", "sink"}
    /\ call.at \in {"idle", "decode", "back", "prime"}
    /\ \A k \in DOMAIN d.frameOff :
          /\ d.frameOff[k] = d.audioStart + (k - 1) * FrameLen
          /\ k > 1 => src.cells[d.frameOff[k - 1] + 1].kind = Sized

(***************************************************************************)
(* Whatever was read, sought, retried or failed before, the samples handed *)
(* out are those of the playable timeline at the position the caller has   *)
(* reason to expect, decoded as a straight read would have; and on a       *)
(* source with gaps they at least never go back.  One failure is excepted: *)
(* a free-format walk that cannot put the source back tells nobody, and    *)
(* until a Reset, or a seek that finds its place, what is read is astray.  *)
(***************************************************************************)
Timeline(s) ==
    LET raw == s + Start IN <<raw \div FrameSize + 1, raw \div FrameSize, raw % FrameSize>>

DeliversTimeline ==
    ~ret.adrift =>
        /\ src.whole => \A k \in DOMAIN ret.out : ret.out[k] = Timeline(ret.from + k - 1)
        /\ \A k \in DOMAIN ret.out : ret.out[k][1] >= ret.after

(***************************************************************************)
(* A seek whose landing frame can be confirmed lands exactly where asked,  *)
(* one past the end lands at the end, and one fails only where the source  *)
(* does or cannot be walked.                                               *)
(***************************************************************************)
Walkable == src.seekable /\ src.cells[HeaderOf(1)].kind = Sized

SeekExact ==
    ret.op = "seek" /\ src.whole /\ (ret.asked < PlayLen \/ ~src.ragged) =>
        LET inside == ret.asked < PlayLen
            frame == (ret.asked + Start) \div FrameSize + 1
        IN  \/ ret.err = "io"
            \/ ret.err = "unsupported" /\ ~Walkable
            \/ ret.err = "none" /\ ret.landed = Least(ret.asked, PlayLen)
            \/ inside /\ frame \notin Expected

(***************************************************************************)
(* A clean end is reported only when every frame that can be confirmed and *)
(* decoded has been handed out: neither a failing source nor junk that is  *)
(* skipped ends a stream early, but for the failure excepted above.  (A    *)
(* seek that failed with io.EOF told the caller so, and keeps telling.)    *)
(***************************************************************************)
EofIsTheEnd ==
    /\ call.at = "idle" /\ ret.op \in {"read", "writeTo"} /\ ret.err = "eof"
    /\ d.err # "eof" /\ ~adrift
    => Expected \subseteq got

(***************************************************************************)
(* No call spins: every turn of the decode loop that does not end the call *)
(* consumes input, or has widened its window to consume it in the next,    *)
(* over junk of any length and a source that fails at any point.           *)
(***************************************************************************)
Left ==
    2 * (Len(src.cells) - d.pos + Len(d.br) + Len(d.buf))
    + (IF call.window = ResyncWindow THEN 0 ELSE 1)

NeverSpins == [][call.at = "decode" /\ call'.err = "none" => Left' < Left]_vars

(***************************************************************************)
(* What SeekToSample's comments say of a seek that cannot walk a free-     *)
(* format stream: it leaves the decoder usable, the source restored for    *)
(* the reads that follow.  So they go on where the caller was.             *)
(***************************************************************************)
UnsupportedSeekIsHarmless ==
    src.whole => \A k \in DOMAIN ret.out : ret.out[k] = Timeline(ret.from + k - 1)

(***************************************************************************)
(* What a test says of junk behind the last frame: it costs at most that   *)
(* frame, and everything before it survives.  So opening succeeds.         *)
(***************************************************************************)
JunkCostsFinalFrame ==
    ret.op = "reset" /\ src.whole /\ Cardinality(Frames) > 1 => ret.err \in {"none", "io"}

(***************************************************************************)
(* What SeekToSample's comment says: a trailing non-frame header met after *)
(* at least one real frame is treated like the stream end, landing there   *)
(* rather than failing.                                                    *)
(***************************************************************************)
TrailerIsTheEnd ==
    ret.op = "seek" /\ src.whole /\ ret.asked >= PlayLen => ret.err \in {"none", "io"}
=============================================================================
