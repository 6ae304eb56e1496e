---------------------------- MODULE PcmDecoderInv ----------------------------
(***************************************************************************)
(* The PCM decoder, for every set of sources, windows, budgets and seek    *)
(* targets there may be.                                                   *)
(*                                                                         *)
(* BInv is what holds of any source.  Of it, `Stocked' is the heart: until *)
(* the stream ends or fails, or a seek sets it adrift, the two buffers     *)
(* hold exactly the cells behind `Here', so that a decode decides on what  *)
(* the source says.  From BInv follow the type invariant and that no turn  *)
(* of the decode loop spins.  The other parts are of what is not adrift;   *)
(* from then on only what the tag told and where the audio starts are      *)
(* known, until a Reset or a seek that finds its place.                    *)
(*                                                                         *)
(* WInv is what a source without gaps adds.  A reading decoder is before   *)
(* the first frame, or directly behind frame `id' with that frame's        *)
(* overlap and a warm reservoir, its sample count and the caller's         *)
(* position those of that frame; or, when a search found nothing, it has   *)
(* lost every frame that could still be confirmed.  A priming one is       *)
(* aligned with the frame it is about to decode, or can land no more.      *)
(*                                                                         *)
(* OrderInv is what remains of a source with gaps: what was delivered      *)
(* lies before what is pending, and that before what follows.              *)
(*                                                                         *)
(* EndInv is what a source without gaps adds about its end: the decoder    *)
(* knows the length its tag tells, what the frame decoder has behind it is *)
(* delivered or pending, and a decoder that has lost its place, or has     *)
(* ended, has delivered everything there was to expect.                    *)
(***************************************************************************)
EXTENDS PcmDecoder

-----------------------------------------------------------------------------
(***************************************************************************)
(* The invariant.                                                          *)
(***************************************************************************)
DFields ==
    {"pos", "br", "buf", "readErr", "pending", "tagChecked", "frames", "start", "end",
     "produced", "audioStart", "firstBytes", "seen", "frameOff", "done", "err", "rate", "total"}
Buffers == {"pos", "br", "buf", "readErr"}
CallFields ==
    {"at", "op", "window", "skipped", "err", "asked", "frame", "target", "intra"}
RetFields == {"op", "err", "out", "from", "after", "asked", "landed", "adrift"}
Errs == {"none", "eof", "io", "corrupt", "unsupported", "sink"}
Sample == Nat \X Nat \X Nat

DTypes(f) ==
    /\ DOMAIN f = DFields
    /\ f.pos \in Nat /\ f.br \in Seq(CellType) /\ f.buf \in Seq(CellType)
    /\ f.readErr \in {"none", "eof", "io"} /\ f.err \in Errs
    /\ f.pending \in Seq(Sample) /\ f.frameOff \in Seq(Nat)
    /\ f.tagChecked \in BOOLEAN /\ f.seen \in BOOLEAN /\ f.done \in BOOLEAN /\ f.rate \in BOOLEAN
    /\ f.frames \in Nat /\ f.start \in Nat /\ f.end \in Nat /\ f.produced \in Nat
    /\ f.audioStart \in Nat /\ f.firstBytes \in Nat /\ f.total \in Nat

DecTypes(s) ==
    s.hdr \in {"none", Sized, Free} /\ s.run \in Nat /\ s.prev \in Nat

CallTypes(c) ==
    /\ DOMAIN c = CallFields
    /\ c.at \in {"idle", "decode", "back", "prime"}
    /\ c.op \in {"none", "reset", "read", "writeTo", "seek"}
    /\ c.window \in {0, SmallWindow, ResyncWindow} /\ c.skipped \in Nat /\ c.err \in Errs
    /\ c.asked \in Nat /\ c.frame \in Nat /\ c.target \in Nat /\ c.intra \in Nat

RetTypes(r) ==
    /\ DOMAIN r = RetFields
    /\ r.op \in {"none", "reset", "read", "writeTo", "seek"} /\ r.err \in Errs
    /\ r.out \in Seq(Sample) /\ r.from \in Nat /\ r.after \in Nat
    /\ r.asked \in Nat /\ r.landed \in Nat

Sizes(f) ==
    /\ Len(f.buf) <= ResyncWindow /\ Len(f.br) <= BufSize /\ Len(f.pending) <= FrameSize
    /\ f.pos <= Len(src.cells) /\ f.audioStart <= Len(src.cells)

\* Nothing has ended or failed: what the buffers hold is what follows in the source.
Live(f) == f.err = "none" /\ ~f.done
Here(f) == f.pos - Len(f.br) - Len(f.buf)
Stocked(f) ==
    /\ Len(f.br) + Len(f.buf) <= f.pos
    /\ \A i \in 1..Len(f.buf) : f.buf[i] = src.cells[Here(f) + i]
    /\ \A i \in 1..Len(f.br) : f.br[i] = src.cells[Here(f) + Len(f.buf) + i]
    /\ f.readErr = "eof" => f.pos = Len(src.cells) /\ f.br = <<>>

\* What is known of the first frame, and when.
Opened(f) ==
    /\ f.rate => f.seen
    /\ f.seen => f.tagChecked /\ f.firstBytes = FrameLen
    /\ ~f.seen => f.frameOff = <<>>
    /\ Live(f) /\ ~f.seen => f.audioStart <= Here(f)

Phases ==
    /\ call.at = "decode" =>
          /\ Live(d) /\ d.pending = <<>> /\ call.op \in {"reset", "read", "writeTo"}
          /\ call.window \in {SmallWindow, ResyncWindow}
          /\ call.op = "reset" \/ d.rate
    /\ call.at = "back" =>
          /\ call.op \in {"reset", "read", "writeTo"}
          /\ call.err = "none" => Live(d) /\ d.rate /\ d.pending # <<>>
          /\ call.err # "none" => ~Live(d)
    /\ call.at = "idle" /\ Live(d) => d.rate
    /\ call.at = "prime" =>
          Live(d) /\ d.rate /\ d.pending = <<>> /\ call.op = "seek" /\ call.frame <= call.target
          /\ call.intra < FrameSize
          /\ call.target * FrameSize + call.intra = call.asked + d.start
    /\ d.pending # <<>> => ~d.done

CachedOffsets(f) ==
    \A k \in DOMAIN f.frameOff :
        /\ f.frameOff[k] = f.audioStart + (k - 1) * FrameLen
        /\ k > 1 => src.cells[f.frameOff[k - 1] + 1].kind = Sized

\* A decoder that goes adrift is one that has decoded; nobody is told, and it stays live.
Sound(f) ==
    /\ DTypes(f) /\ Sizes(f) /\ (Live(f) /\ ~adrift => Stocked(f)) /\ Opened(f)
    /\ CachedOffsets(f) /\ (adrift => f.rate)

\* The frames handed out, and those to be, are not unbounded: there is a last one.
Bounded(f, s) ==
    \E b \in Nat : /\ \A g \in s : g <= b
                  /\ \A i \in DOMAIN f.pending : f.pending[i][1] <= b

BInv ==
    /\ file \in DOMAIN Sources
    /\ Sound(d) /\ DecTypes(dec) /\ CallTypes(call) /\ RetTypes(ret)
    /\ expect \in Nat /\ got \subseteq Nat /\ faults \in Nat
    /\ Bounded(d, got) /\ Phases

-----------------------------------------------------------------------------
\* The frames of a whole source.
ShapeOf(s) ==
    CHOOSE t \in (0..Len(s.cells)) \X (0..Len(s.cells)) \X {Sized, Free} :
        /\ Adjoining(s, t[1], t[2], t[3]) /\ Proportions(s, t[1], t[3])
        /\ s.tag.present => t[2] > 0
Lead == ShapeOf(src)[1]
Many == ShapeOf(src)[2]
Kind == ShapeOf(src)[3]
First == FirstId(src)
At(k) == Lead + k * FrameLen
AudioAt == At(1 - First)

\* Before the first frame; the start of the audio is known by its distance.
Astray(f) == f.audioStart + SmallWindow + FrameLen <= Here(f)
NotYet(f, s, e) ==
    /\ s = Cold /\ Here(f) <= Lead
    /\ ~f.tagChecked /\ ~f.seen /\ ~f.rate /\ f.produced = 0 /\ f.pending = <<>>
    /\ f.start = 0 /\ (f.audioStart = Here(f) \/ Astray(f)) /\ e = 0

\* Behind frame `id' of the source: where the decoders stand, what they have counted,
\* and which samples come next.
Warm(s, id) == s.run >= Least(PrimeFrames, id)
Placed(f, s, id) ==
    /\ First <= id /\ id < First + Many
    /\ Here(f) = At(id + 1 - First) /\ s.hdr = Kind /\ s.prev = id /\ Warm(s, id)
Counted(f, id) ==
    /\ f.tagChecked /\ f.start = Start /\ f.produced = id * FrameSize
    /\ IF id = 0 THEN ~f.seen /\ ~f.rate /\ (f.audioStart = Here(f) \/ Astray(f)) ELSE f.rate
Timed(f, e, id) ==
    /\ f.pending = <<>> /\ f.produced < f.end => e + Start = Most(Start, f.produced)
    /\ f.pending # <<>> =>
          \E x \in 0..FrameSize - 1 :
             /\ x + Len(f.pending) <= FrameSize
             /\ f.produced < f.end => x + Len(f.pending) = FrameSize
             /\ e + Start = (id - 1) * FrameSize + x
             /\ \A i \in DOMAIN f.pending : f.pending[i] = <<id, id - 1, x + i - 1>>
On(f, s, e, id) == Placed(f, s, id) /\ Counted(f, id) /\ Timed(f, e, id)

\* No frame behind the first h cells can be confirmed, by what the first e show.
Hidden(h, e) ==
    \A p \in DOMAIN src.cells :
        p > h /\ IsHeader(src.cells[p]) =>
            \/ p + FrameLen > Len(src.cells) + 1
            \/ \E j \in 1..MaxMatches :
                 p + j * FrameLen <= e /\ ~IsHeader(src.cells[p + j * FrameLen])
Lost(f) == Hidden(Here(f), Here(f) + Len(f.buf))

\* In the lead-in of a seek.
Aligned(f, s, c) ==
    /\ f.audioStart = AudioAt /\ Here(f) = At(c.frame + 1 - First)
    /\ c.target + 1 - First <= Many /\ (c.target > 0 => Kind = Sized)
    /\ PrimeFrom(c.target) <= c.frame
    /\ IF c.frame = PrimeFrom(c.target) THEN s = Cold ELSE s.hdr = Kind
    /\ Warm(s, c.frame - PrimeFrom(c.target))
    /\ c.frame = c.target => s.prev = c.target
Gone(h) == \A p \in DOMAIN src.cells : p > h => ~IsHeader(src.cells[p])
Blind(f, s, c) == c.target = 0 /\ s = Cold /\ f.buf = <<>> /\ Here(f) + SmallWindow <= Lead

Reading(f, s, c, e) ==
    \/ c.at = "decode" /\ (NotYet(f, s, e) \/ (s = Cold /\ Lost(f)))
    \/ \E id \in Nat : On(f, s, e, id)
Priming(f, s, c) == Aligned(f, s, c) \/ (s = Cold /\ Gone(Here(f))) \/ Blind(f, s, c)
Synced(f, s, c, e) ==
    Live(f) => IF c.at = "prime" THEN Priming(f, s, c) ELSE Reading(f, s, c, e)

AudioKnown(f) ==
    f.rate => /\ f.start = Start
              /\ f.audioStart = AudioAt \/ f.audioStart + SmallWindow <= Lead

WInv == src.whole => AudioKnown(d) /\ (~adrift => Synced(d, dec, call, expect))

-----------------------------------------------------------------------------
\* What has been delivered lies before what is pending, and that before what follows.
Ahead(h, n) == \A p \in DOMAIN src.cells : p > h /\ IsHeader(src.cells[p]) => n <= src.cells[p].id
OneFrame(f) == \A i, k \in DOMAIN f.pending : f.pending[i][1] = f.pending[k][1]
PendingBehind(f) == Live(f) => \A i \in DOMAIN f.pending : Ahead(Here(f), f.pending[i][1])
Behind(f, c, s) ==
    Live(f) /\ c.at # "prime" /\ 0 \notin s =>
        \A g \in s : Ahead(Here(f), g) /\ \A i \in DOMAIN f.pending : g <= f.pending[i][1]

OrderInv == ~adrift => OneFrame(d) /\ PendingBehind(d) /\ Behind(d, call, got)

-----------------------------------------------------------------------------
\* What the decoder knows of the source's length.
Told(f) ==
    /\ f.frames = IF f.tagChecked THEN src.tag.frames ELSE 0
    /\ f.end = IF f.frames = 0 THEN NoEnd ELSE End
    /\ f.frames # 0 => f.total = Playable(f.frames * FrameSize, src.tag.delay, src.tag.padding)

\* What the frame decoder has behind it is delivered or pending; if it has lost its place
\* then everything is, or the source is being opened.
Given(f, s, c, g) ==
    Live(f) /\ c.at # "prime" =>
        \/ s = Cold /\ c.at = "decode" /\ (c.op = "reset" \/ Expected \subseteq g)
        \/ /\ s # Cold
           /\ \A k \in Expected : k <= s.prev => k \in g \/ (f.pending # <<>> /\ k = s.prev)

\* A seek lands before the end, if that is known.
Inside(f, c) == c.at = "prime" /\ f.total # 0 => c.asked < f.total

\* A stream that has ended has delivered everything, or is found empty when opened; and a
\* call tells of an end only then.
Over(f, c, g) ==
    f.done /\ f.err = "none" => Expected \subseteq g \/ (c.at = "back" /\ c.op = "reset")
Ended(f, c, r) ==
    /\ c.at = "back" /\ c.err = "eof" => f.done /\ f.err = "none"
    /\ c.at = "idle" /\ r.op \in {"read", "writeTo"} /\ r.err = "eof" /\ f.err # "eof" =>
          f.done /\ f.err = "none"

AllGiven(f, s, c, r, g) ==
    Told(f) /\ Given(f, s, c, g) /\ Inside(f, c) /\ Over(f, c, g) /\ Ended(f, c, r)
EndInv == src.whole => Told(d) /\ (~adrift => AllGiven(d, dec, call, ret, got))

-----------------------------------------------------------------------------
(***************************************************************************)
(* What the turns of the decode loop and the seeks come to.                *)
(***************************************************************************)
\* The fields that changed.
Changed(g, f, S) == DOMAIN g = DFields /\ \A x \in DFields \ S : g[x] = f[x]

\* What has been decoded of the buffer.
Hit(f, o) ==
    /\ Sound(f) /\ Live(f) /\ o.off \in Nat /\ o.bytes \in Nat /\ o.off < Len(f.buf)
    /\ o.bytes = o.off + FrameLen /\ o.bytes <= Len(f.buf) /\ o.id \in Nat /\ o.prev \in Nat

\* The call fields that changed.
CallChanged(S) == DOMAIN call' = CallFields /\ \A x \in CallFields \ S : call'[x] = call[x]

\* The stream ends or fails.
Ends(f) ==
    /\ Sound(d') /\ ~Live(d') /\ Changed(d', f, {"buf", "done", "err"})
    /\ call'.at = "back" /\ call'.err \in {"eof", "io", "corrupt"} /\ CallChanged({"at", "err"})
    /\ IF call'.err = "eof" THEN d'.done /\ f.readErr = "eof" /\ d'.err = f.err
       ELSE d'.err = call'.err

\* The next turn: over a wider window, or behind junk.
Widens(f) ==
    /\ d' = f /\ f.readErr = "none" /\ Len(f.buf) < ResyncWindow
    /\ call'.window = ResyncWindow /\ CallChanged({"window", "skipped"}) /\ call'.skipped = call.skipped
Drops(f) ==
    /\ Len(f.buf) = ResyncWindow /\ f.readErr = "none" /\ d' = Consume(f, ResyncWindow - Retain)
    /\ call'.window = ResyncWindow /\ CallChanged({"window", "skipped"}) /\ call'.skipped \in Nat

\* Behind a frame: the tag, one that finds no main data, one trimmed away, the last, or
\* one that has samples to hand out.
GoesOn(f, g) ==
    /\ d' = g /\ call'.window = DecodeWindow(f) /\ call'.skipped = 0
    /\ CallChanged({"window", "skipped"})
Tags(f, o) == ~f.tagChecked /\ o.id = 0 /\ GoesOn(f, ApplyTag(f, o))
Skips(f, o) == ~o.ok /\ GoesOn(f, FirstSeen(f, o))
Kept(f, o) ==
    [FirstSeen(f, o) EXCEPT !.produced = f.produced + FrameSize, !.rate = TRUE]
Trims(f, o) == o.ok /\ f.produced + FrameSize <= f.start /\ GoesOn(f, Kept(f, o))
PastEnd(f, o) ==
    /\ o.ok /\ d' = [Kept(f, o) EXCEPT !.done = TRUE]
    /\ f.produced >= f.end \/ Most(f.produced, f.start) >= Least(f.produced + FrameSize, f.end)
    /\ f.start < f.produced + FrameSize
    /\ call'.at = "back" /\ call'.err = "eof" /\ CallChanged({"at", "err"})
HandsOut(f, o) ==
    LET from == Most(f.produced, f.start)
        to == Least(f.produced + FrameSize, f.end)
    IN  /\ o.ok /\ from < to /\ f.produced < f.end /\ f.start < f.produced + FrameSize
        /\ d' = [Kept(f, o) EXCEPT !.pending = Samples(o, from - f.produced, to - f.produced)]
        /\ call'.at = "back" /\ call'.err = "none" /\ CallChanged({"at", "err"})

Frame(f, o) ==
    /\ Hit(f, o) /\ o.hit
    /\ \/ Tags(f, o)
       \/ /\ f.tagChecked \/ o.id # 0
          /\ Skips(f, o) \/ Trims(f, o) \/ PastEnd(f, o) \/ HandsOut(f, o)

Turn(f) ==
    \/ f.buf = <<>> /\ UNCHANGED dec /\ Ends(f)
    \/ LET o == DecodeFrame(f.buf)
       IN  /\ f.buf # <<>> /\ dec' = o.dec
           /\ Frame(f, o) \/ (~o.hit /\ (Ends(f) \/ Widens(f) \/ Drops(f)))

\* The same frame of the source, and the same counts.
Stays(g, f) ==
    /\ Here(g) = Here(f) /\ g.tagChecked = f.tagChecked /\ g.seen = f.seen /\ g.rate = f.rate
    /\ g.start = f.start /\ g.end = f.end /\ g.produced = f.produced
    /\ g.audioStart = f.audioStart
Alike(g, f) == Stays(g, f) /\ g.pending = f.pending
SameTag(g, f) ==
    g.tagChecked = f.tagChecked /\ g.frames = f.frames /\ g.end = f.end /\ g.total = f.total

\* A seek fails, or ends behind the last frame; or the source stands where it stood.
Failed ==
    /\ adrift' = adrift /\ ~Live(d') /\ d'.pending = <<>> /\ d'.rate = d.rate /\ d'.start = d.start
    /\ d'.audioStart = d.audioStart /\ call'.at = "idle" /\ ret'.out = <<>>
    /\ SameTag(d', d) /\ (d'.err # "none" \/ got' = Frames) /\ ret'.op = "seek"
Refused ==
    /\ adrift' = adrift /\ Alike(d', d) /\ (Live(d') <=> Live(d)) /\ UNCHANGED <<dec, expect, got>>
    /\ call'.at = "idle" /\ ret'.out = <<>>
    /\ SameTag(d', d) /\ d'.done = d.done /\ d'.err = d.err /\ ret'.op = "seek"

\* The source is not put back.
Strayed == adrift' /\ Changed(d', d, {"frameOff", "pos"}) /\ ret'.out = <<>>

\* The lead-in to frame `target' begins; the walk found the frames before it.
Sought(target) ==
    /\ ~adrift' /\ Live(d') /\ d'.pending = <<>> /\ d'.buf = <<>> /\ dec' = Cold
    /\ Here(d') = d.audioStart + PrimeFrom(target) * FrameLen
    /\ d'.rate = d.rate /\ d'.start = d.start /\ d'.audioStart = d.audioStart
    /\ call'.at = "prime" /\ call'.frame = PrimeFrom(target) /\ call'.target = target
    /\ UNCHANGED <<ret, expect, got>>
    /\ SameTag(d', d) /\ (d.total # 0 => call'.asked < d.total)
    /\ \A i \in Nat : i < target =>
          /\ d.audioStart + i * FrameLen + 1 \in DOMAIN src.cells
          /\ src.cells[d.audioStart + i * FrameLen + 1].kind = Sized
=============================================================================
