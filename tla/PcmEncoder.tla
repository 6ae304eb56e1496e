------------------------------ MODULE PcmEncoder ------------------------------
(***************************************************************************)
(* The streaming PCM encoder and the one-shot built on it                  *)
(* (src/pcm/encoder.go, src/pcm/encode_oneshot.go): bytes arrive in chunks *)
(* of any size, whole frames go to the root encoder, what it returns goes  *)
(* to a sink that may fail at any call, and Close drains and, on a         *)
(* seekable sink, patches the tag reserved at the start.                   *)
(*                                                                         *)
(* Bytes are their numbers in the caller's input.  A caller whose Write    *)
(* failed may, against the contract, go on with the bytes not reported as  *)
(* written.  The root encoder is its public behaviour (EncoderContract,    *)
(* FrameFIFO): N frames and a drain code N + 1 frames, a coded frame may   *)
(* leave at any later call, and all have left after the drain.  A sink's   *)
(* unit is one coded frame, the tag being one more.                        *)
(***************************************************************************)
EXTENDS GaplessMath, Sequences

CONSTANTS
    Stride,       \* bytes of one sample of all channels
    Chunks,       \* sizes of the caller's writes
    MaxBytes,     \* bound: bytes of one input
    MaxStreams,   \* bound: streams encoded on one Encoder
    MaxFaults     \* bound: calls on sinks that fail

ASSUME PcmEncoderAssumption ==
    Stride \in Nat \ {0} /\ {MaxBytes, MaxStreams, MaxFaults} \cup Chunks \subseteq Nat

VARIABLES
    e,        \* the Encoder's own fields
    enc,      \* the root encoder
    sinks,    \* what every sink holds, and where it is positioned
    call,     \* the Write or Close in progress
    job,      \* the one-shot in progress
    ret,      \* what the last call returned
    next,     \* the caller: first byte not reported as written
    streams, faults

vars == <<e, enc, sinks, call, job, ret, next, streams, faults>>

FrameBytes == Stride * FrameSize
Body == 0         \* the one-shot's buffer
NoSink == -1

Bytes(from, to) == [k \in 1..Most(0, to - from + 1) |-> from + k - 1]
Coded(k) == [frame |-> k]
CodedRun(from, to) == [k \in 1..Most(0, to - from + 1) |-> Coded(from + k - 1)]
Tag(frames, total, padding) == [frames |-> frames, total |-> total, padding |-> padding]
Placeholder == Tag(0, 0, 0)
Old == [frame |-> 0]                  \* what a file held before

Ret(op, n, err) == [op |-> op, n |-> n, err |-> err]
IdleCall == [at |-> "idle", p |-> <<>>, written |-> 0, n |-> 0, err |-> "none"]
NoJob == [at |-> "off", tagged |-> FALSE, todo |-> 0]

\* A fresh sink: a seekable one may be positioned in the middle of a file.
Sink(seekable) ==
    [seekable |-> seekable, file |-> IF seekable THEN <<Old, Old>> ELSE <<>>,
     pos |-> IF seekable THEN 1 ELSE 0]
Start(s) == IF s.seekable THEN 1 ELSE 0

\* What overwriting from the current position leaves.
Put(s, items) ==
    LET end == s.pos + Len(items)
    IN  [s EXCEPT !.pos = end,
                  !.file = [k \in 1..Most(Len(@), end) |->
                               IF k \in s.pos + 1..end THEN items[k - s.pos] ELSE s.file[k]]]

\* frames and durable are history: the frames given to the encoder, and the bytes
\* of those whose output was written.
NewEnc == [frames |-> <<>>, durable |-> <<>>, sent |-> 0, final |-> FALSE, drained |-> FALSE]

\* Stats().Frames: the newest frame is held until the next call.
FramesOf(r) == IF r.drained THEN Len(r.frames) + 1 ELSE Most(Len(r.frames) - 1, 0)

Init ==
    /\ e = [closed |-> TRUE, w |-> NoSink, seeker |-> NoSink, tagOff |-> 0,
            carry |-> <<>>, samplesIn |-> 0, streamErr |-> "none"]
    /\ enc = NewEnc
    /\ sinks = [k \in 0..MaxStreams |-> Sink(FALSE)]
    /\ call = IdleCall /\ job = NoJob /\ ret = Ret("none", 0, "none")
    /\ next = 1 /\ streams = 0 /\ faults = 0

(***************************************************************************)
(* One Write on sink k: it takes everything, or fails having taken a part. *)
(* The one-shot's buffer never fails.                                      *)
(***************************************************************************)
SinkWrites(k, items) ==
    {[sink |-> Put(sinks[k], items), err |-> "none"]} \cup
    IF k = Body \/ faults = MaxFaults THEN {}
    ELSE {[sink |-> Put(sinks[k], SubSeq(items, 1, m)), err |-> "sink"] : m \in 0..Len(items) - 1}

Fault(err) == faults' = faults + (IF err = "sink" THEN 1 ELSE 0)

\* Handing out the coded frames up to number k, and writing them.
Deliver(r, k) ==
    {[enc |-> [r EXCEPT !.sent = k], sink |-> o.sink, err |-> o.err] :
        o \in SinkWrites(e.w, CodedRun(r.sent + 1, k))}

\* History: whether the output of the newest frame was written.
Noted(o, chunk) ==
    [o EXCEPT !.enc.frames = Append(@, [bytes |-> chunk, ok |-> o.err = "none"]),
              !.enc.durable = IF o.err = "none" THEN @ \o chunk ELSE @]

\* EncodeFrame of the root encoder with n samples, and the write of its output:
\* some of the frames before this one.
Emissions(chunk, n) ==
    LET r == [enc EXCEPT !.final = n < FrameSize]
    IN  IF enc.drained \/ enc.final
          THEN {[enc |-> enc, sink |-> sinks[e.w], err |-> "finalized"]}
          ELSE {Noted(o, chunk) : o \in UNION {Deliver(r, k) : k \in r.sent..Len(r.frames)}}

\* Mutant: after a failure the carry is left at a whole frame.
EmitUnreverted(o, n) ==
    /\ enc' = o.enc /\ sinks' = [sinks EXCEPT ![e.w] = o.sink] /\ Fault(o.err)
    /\ e' = [e EXCEPT !.samplesIn = @ + n,
                      !.streamErr = IF o.err = "none" THEN @ ELSE o.err,
                      !.carry = IF o.err = "none" THEN <<>> ELSE Bytes(1, FrameBytes)]

\* emitFrame's effects; the carry is given up only for a frame that was written.
Emit(o, n) ==
    /\ enc' = o.enc /\ sinks' = [sinks EXCEPT ![e.w] = o.sink] /\ Fault(o.err)
    /\ e' = [e EXCEPT !.samplesIn = @ + n,
                      !.streamErr = IF o.err = "none" THEN @ ELSE o.err,
                      !.carry = IF o.err = "none" THEN <<>> ELSE @]

(***************************************************************************)
(* Reset to a new sink, wanting a tag or not.                              *)
(***************************************************************************)
SeekerOf(k, tagged) == IF tagged THEN k ELSE NoSink

Opened(k, tagged, pos) ==
    [closed |-> FALSE, w |-> k, seeker |-> SeekerOf(k, tagged),
     tagOff |-> IF tagged THEN pos ELSE 0,
     carry |-> <<>>, samplesIn |-> 0, streamErr |-> "none"]

Idle == call.at = "idle" /\ job.at = "off"

\* A nil writer or a bad config: closed, and detached from the old sink.
ResetRefused ==
    /\ Idle /\ ~(e.closed /\ e.w = NoSink)
    /\ e' = [e EXCEPT !.closed = TRUE, !.w = NoSink]
    /\ ret' = Ret("reset", 0, "argument")
    /\ UNCHANGED <<enc, sinks, call, job, next, streams, faults>>

Reset(seekable, omitTag) ==
    LET k == streams + 1
        tagged == seekable /\ ~omitTag
        fresh == Sink(seekable)
    IN  /\ Idle /\ k <= MaxStreams
        /\ streams' = k /\ next' = 1 /\ enc' = NewEnc
        /\ \/ /\ e' = Opened(k, tagged, fresh.pos)
              /\ sinks' = [sinks EXCEPT ![k] = IF tagged THEN Put(fresh, <<Placeholder>>) ELSE fresh]
              /\ ret' = Ret("reset", 0, "none")
              /\ UNCHANGED faults
           \/ /\ tagged /\ faults < MaxFaults          \* Seek or the placeholder fails
              /\ e' = [Opened(k, FALSE, 0) EXCEPT !.closed = TRUE]
              /\ sinks' = [sinks EXCEPT ![k] = fresh]
              /\ ret' = Ret("reset", 0, "sink")
              /\ faults' = faults + 1
        /\ UNCHANGED <<call, job>>

(***************************************************************************)
(* Write: complete the carried frame, emit whole frames, keep the rest.    *)
(***************************************************************************)
BeginWrite(n) ==
    LET p == Bytes(next, next + n - 1)
    IN  /\ call.at = "idle"
        /\ IF e.closed
             THEN ret' = Ret("write", 0, "closed") /\ UNCHANGED <<e, call, next>>
           ELSE IF e.carry # <<>> /\ Len(e.carry) + n < FrameBytes
             THEN /\ e' = [e EXCEPT !.carry = @ \o p]
                  /\ ret' = Ret("write", n, "none") /\ next' = next + n
                  /\ UNCHANGED call
             ELSE /\ call' = [IdleCall EXCEPT !.at = IF e.carry # <<>> THEN "carry" ELSE "whole",
                                              !.p = p, !.n = n]
                  /\ UNCHANGED <<e, ret, next>>
        /\ UNCHANGED <<enc, sinks, streams, faults>>

\* An encoder back in the pool is open without a sink, and nobody's.
Pooled == ~e.closed /\ e.w = NoSink

Write(n) ==
    /\ Idle /\ ~Pooled /\ next + n - 1 <= MaxBytes
    /\ BeginWrite(n)
    /\ UNCHANGED job

WriteReturns(n, err) ==
    call' = IdleCall /\ ret' = Ret("write", n, err) /\ next' = next + n

\* Mutant: a frame completed from the carry is not counted as written.
NeedOnly(need) == 0

Taken(need) == need

EmitCarry ==
    LET need == FrameBytes - Len(e.carry)
    IN  /\ call.at = "carry"
        /\ \E o \in Emissions(e.carry \o SubSeq(call.p, 1, need), FrameSize) :
             /\ Emit(o, FrameSize)
             /\ IF o.err # "none" THEN WriteReturns(0, o.err)
                ELSE /\ call' = [call EXCEPT !.at = "whole", !.written = Taken(need),
                                             !.p = SubSeq(@, need + 1, Len(@))]
                     /\ UNCHANGED <<ret, next>>
        /\ UNCHANGED <<job, streams>>

EmitWhole ==
    /\ call.at = "whole" /\ Len(call.p) >= FrameBytes
    /\ \E o \in Emissions(SubSeq(call.p, 1, FrameBytes), FrameSize) :
         /\ Emit(o, FrameSize)
         /\ IF o.err # "none" THEN WriteReturns(call.written, o.err)
            ELSE /\ call' = [call EXCEPT !.written = @ + FrameBytes,
                                         !.p = SubSeq(@, FrameBytes + 1, Len(@))]
                 /\ UNCHANGED <<ret, next>>
    /\ UNCHANGED <<job, streams>>

Stash ==
    /\ call.at = "whole" /\ Len(call.p) < FrameBytes
    /\ e' = [e EXCEPT !.carry = call.p]
    /\ WriteReturns(call.n, "none")
    /\ UNCHANGED <<enc, sinks, job, streams, faults>>

(***************************************************************************)
(* Close: the rest of the carry, the drain whatever came before, and the   *)
(* tag if nothing failed.  call.err is the first error.                    *)
(***************************************************************************)
BeginClose ==
    /\ call.at = "idle"
    /\ IF e.closed THEN ret' = Ret("closeAgain", 0, "none") /\ UNCHANGED <<e, call>>
       ELSE /\ e' = [e EXCEPT !.closed = TRUE]
            /\ call' = [IdleCall EXCEPT !.at = "rest"]
            /\ UNCHANGED ret
    /\ UNCHANGED <<enc, sinks, next, streams, faults>>

Close == Idle /\ ~Pooled /\ BeginClose /\ UNCHANGED job

CloseRest ==
    /\ call.at = "rest"
    /\ IF Len(e.carry) % Stride = 0 /\ e.carry # <<>>
         THEN LET n == Len(e.carry) \div Stride
              IN  \E o \in Emissions(e.carry, n) :
                    Emit(o, n) /\ call' = [call EXCEPT !.at = "drain", !.err = o.err]
         ELSE /\ call' = [call EXCEPT !.at = "drain",
                                      !.err = IF e.carry = <<>> THEN "none" ELSE "partial"]
              /\ UNCHANGED <<e, enc, sinks, faults>>
    /\ UNCHANGED <<job, ret, next, streams>>

\* Mutant: an error swallowed by the caller of Write is forgotten.
FirstErrOfClose(err) == err

\* An earlier failure counts too, even one the caller ignored.
FirstErr(err) == IF err = "none" THEN e.streamErr ELSE err

CloseDrain ==
    LET r == [enc EXCEPT !.drained = TRUE]
    IN  /\ call.at = "drain"
        /\ \E o \in Deliver(r, FramesOf(r)) :
             LET err == FirstErr(IF call.err = "none" THEN o.err ELSE call.err)
             IN  /\ enc' = o.enc /\ sinks' = [sinks EXCEPT ![e.w] = o.sink] /\ Fault(o.err)
                 /\ IF e.seeker # NoSink /\ err = "none"
                      THEN call' = [call EXCEPT !.at = "patch"] /\ UNCHANGED ret
                      ELSE call' = IdleCall /\ ret' = Ret("close", 0, err)
        /\ e' = [e EXCEPT !.carry = <<>>]
        /\ UNCHANGED <<job, next, streams>>

FinalTag(end) ==
    Tag(FramesOf(enc), end, LamePadding(FramesOf(enc), e.samplesIn))

\* Two seeks, the tag, and the seek back to the end.
ClosePatch ==
    LET s == sinks[e.seeker]
        back == [s EXCEPT !.pos = e.tagOff]
        tagged == Put(back, <<FinalTag(s.pos - e.tagOff)>>)
    IN  /\ call.at = "patch"
        /\ \/ /\ sinks' = [sinks EXCEPT ![e.seeker] = [tagged EXCEPT !.pos = s.pos]]
              /\ ret' = Ret("close", 0, "none")
              /\ UNCHANGED faults
           \/ /\ faults < MaxFaults
              /\ \E left \in {s, back, tagged} : sinks' = [sinks EXCEPT ![e.seeker] = left]
              /\ ret' = Ret("close", 0, "sink")
              /\ faults' = faults + 1
        /\ call' = IdleCall
        /\ UNCHANGED <<e, enc, job, next, streams>>

(***************************************************************************)
(* The one-shot: encode n bytes frame by frame, by way of the buffer if    *)
(* the stream gets a tag, and give up between two steps once cancelled.    *)
(***************************************************************************)
OneShotReturns(err) ==
    /\ job' = [job EXCEPT !.at = "off"]
    /\ ret' = Ret("oneShot", 0, err)

\* The pooled encoder is put back without its sink.
Finish(err) == OneShotReturns(err) /\ e' = [e EXCEPT !.w = NoSink]

OneShot(n, tagged) ==
    LET k == streams + 1
        w == IF tagged THEN Body ELSE k
    IN  /\ Idle /\ k <= MaxStreams /\ n <= MaxBytes
        /\ IF n % Stride # 0
             THEN OneShotReturns("partial") /\ UNCHANGED <<e, enc, sinks, next, streams>>
             ELSE /\ job' = [at |-> "write", tagged |-> tagged, todo |-> n]
                  /\ streams' = k /\ next' = 1 /\ enc' = NewEnc
                  /\ sinks' = [sinks EXCEPT ![k] = Sink(FALSE), ![Body] = Sink(FALSE)]
                  /\ e' = Opened(w, FALSE, 0)
                  /\ ret' = Ret("none", 0, "none")
        /\ UNCHANGED <<call, faults>>

OneShotWrite ==
    LET n == Least(job.todo, FrameBytes)
    IN  /\ job.at = "write" /\ job.todo > 0 /\ call.at = "idle" /\ ret.err = "none"
        /\ BeginWrite(n)
        /\ job' = [job EXCEPT !.todo = @ - n]

OneShotClose ==
    /\ job.at = "write" /\ job.todo = 0 /\ call.at = "idle" /\ ret.err = "none"
    /\ BeginClose
    /\ job' = [job EXCEPT !.at = "closed"]

\* Write or Close failed.
OneShotFails ==
    /\ job.at \in {"write", "closed"} /\ call.at = "idle" /\ ret.err # "none"
    /\ Finish(ret.err)
    /\ UNCHANGED <<enc, sinks, call, next, streams, faults>>

CancelPoint == job.at = "write" \/ (job.at = "closed" /\ job.tagged)

Cancel ==
    /\ CancelPoint /\ call.at = "idle" /\ ret.err = "none"
    /\ Finish("canceled")
    /\ UNCHANGED <<enc, sinks, call, next, streams, faults>>

OneShotUntagged ==
    /\ job.at = "closed" /\ ~job.tagged /\ call.at = "idle" /\ ret.err = "none"
    /\ Finish("none")
    /\ UNCHANGED <<enc, sinks, call, next, streams, faults>>

\* The tag, and then the body, written to the target.
WriteToTarget(items, after) ==
    /\ call.at = "idle"
    /\ \E o \in SinkWrites(streams, items) :
         /\ sinks' = [sinks EXCEPT ![streams] = o.sink] /\ Fault(o.err)
         /\ IF o.err = "none" /\ after # "off"
              THEN job' = [job EXCEPT !.at = after] /\ UNCHANGED <<e, ret>>
              ELSE Finish(o.err)
    /\ UNCHANGED <<enc, call, next, streams>>

OneShotTag ==
    /\ job.at = "closed" /\ job.tagged /\ ret.err = "none"
    /\ WriteToTarget(<<FinalTag(1 + Len(sinks[Body].file))>>, "body")

OneShotBody == job.at = "body" /\ WriteToTarget(sinks[Body].file, "off")

Next ==
    \/ ResetRefused
    \/ \E seekable, omitTag \in BOOLEAN : Reset(seekable, omitTag)
    \/ \E n \in Chunks : Write(n)
    \/ EmitCarry \/ EmitWhole \/ Stash
    \/ Close \/ CloseRest \/ CloseDrain \/ ClosePatch
    \/ \E n \in 0..MaxBytes, tagged \in BOOLEAN : OneShot(n, tagged)
    \/ OneShotWrite \/ OneShotClose \/ OneShotFails \/ Cancel
    \/ OneShotUntagged \/ OneShotTag \/ OneShotBody

Spec == Init /\ [][Next]_vars
-----------------------------------------------------------------------------
Errors == {"none", "closed", "argument", "sink", "partial", "finalized", "canceled"}

(***************************************************************************)
(* The carry never holds a whole frame between calls (the field's          *)
(* comment), and positions stay within what was written.                   *)
(***************************************************************************)
TypeOK ==
    /\ e.closed \in BOOLEAN /\ {e.w, e.seeker} \subseteq NoSink..MaxStreams
    /\ e.carry \in Seq(1..MaxBytes) /\ Len(e.carry) < FrameBytes
    /\ {e.streamErr, ret.err, call.err} \subseteq Errors
    /\ next \in 1..MaxBytes + 1
    /\ enc.sent <= FramesOf(enc)
    /\ \A k \in DOMAIN sinks : sinks[k].pos <= Len(sinks[k].file)

(***************************************************************************)
(* What a return value promises.  A nil Close or one-shot: the input, cut  *)
(* into frames whatever the chunks were, has been coded once, the sink has *)
(* all N + 1 frames from where it stood, behind a tag if one was due, it   *)
(* is positioned at their end, and the tag lets a decoder play exactly the *)
(* samples given.  So one-shot and streaming agree.  A cancelled one-shot  *)
(* that was to write a tag has left its sink alone.                        *)
(***************************************************************************)
InputFrames(n) ==
    [k \in 1..FramesFilled(n \div Stride) |->
        [bytes |-> Bytes((k - 1) * FrameBytes + 1, Least(k * FrameBytes, n)), ok |-> TRUE]]

Complete(s, n, tag) ==
    LET frames == FramesCoded(n \div Stride)
        body == CodedRun(1, frames)
        file == SubSeq(s.file, Start(s) + 1, Len(s.file))
        t == file[1]
    IN  /\ s.pos = Len(s.file)
        /\ enc.frames = InputFrames(n)
        /\ IF ~tag THEN file = body
           ELSE /\ file = <<t>> \o body /\ t.total = frames + 1
                /\ Playable(t.frames * FrameSize, EncoderDelay, t.padding) = n \div Stride

ReturnMeansSink ==
    /\ ret.op = "close" /\ ret.err = "none" =>
          Complete(sinks[IF e.w = NoSink THEN streams ELSE e.w], next - 1, e.seeker # NoSink)
    /\ ret.op = "oneShot" /\ ret.err = "none" =>
          Complete(sinks[streams], next - 1, job.tagged)
    /\ ret.op = "oneShot" /\ ret.err = "canceled" /\ job.tagged => sinks[streams] = Sink(FALSE)

(***************************************************************************)
(* "A confident tag over a broken stream is worse than no tag": a tag      *)
(* other than the placeholder stands only in front of all the frames it    *)
(* counts, and of the stream it was reserved for.                          *)
(***************************************************************************)
TagOnlyOverHealthy ==
    e.seeker # NoSink =>
        LET s == sinks[e.seeker]
            t == s.file[e.tagOff + 1]
        IN  t # Placeholder =>
              /\ e.seeker = streams /\ enc.drained
              /\ \A k \in DOMAIN enc.frames : enc.frames[k].ok
              /\ SubSeq(s.file, e.tagOff + 2, Len(s.file)) = CodedRun(1, t.frames)
              /\ t.frames = FramesOf(enc)

(***************************************************************************)
(* "The number of bytes of p that were durably consumed": between calls,   *)
(* whatever failed in between, the bytes reported as written are those of  *)
(* the frames whose output was written, each once and in order, and the    *)
(* carry.                                                                  *)
(***************************************************************************)
ReportedIsConsumed ==
    call.at = "idle" /\ ~e.closed => enc.durable \o e.carry = Bytes(1, next - 1)
=============================================================================
