--------------------------- MODULE PcmEncoder_proofs ---------------------------
(***************************************************************************)
(* The PCM encoder, for all chunkings, streams and failures: the bytes     *)
(* reported as written, what a sink holds, and when it holds a tag.        *)
(***************************************************************************)
EXTENDS PcmEncoder, SequenceTheorems, TLAPS

-----------------------------------------------------------------------------
(***************************************************************************)
(* The invariant.                                                          *)
(***************************************************************************)
FrameType == [bytes : Seq(Int), ok : BOOLEAN]
Item == [frame : Nat] \cup [frames : Nat, total : Int, padding : Int]
SinkType == [seekable : BOOLEAN, file : Seq(Item), pos : Nat]

EType ==
    [closed : BOOLEAN, w : NoSink..MaxStreams, seeker : NoSink..MaxStreams,
     tagOff : {0, 1}, carry : Seq(1..MaxBytes), samplesIn : Nat, streamErr : Errors]
EncType ==
    [frames : Seq(FrameType), durable : Seq(Int), sent : Nat, final : BOOLEAN, drained : BOOLEAN]

CallType ==
    [at : {"idle", "carry", "whole", "rest", "drain", "patch"}, p : Seq(1..MaxBytes),
     written : Nat, n : Nat, err : Errors]
JobType == [at : {"off", "write", "closed", "body"}, tagged : BOOLEAN, todo : Nat]
RetType ==
    [op : {"none", "reset", "write", "close", "closeAgain", "oneShot"}, n : Nat, err : Errors]

Types ==
    /\ e \in EType /\ enc \in EncType
    /\ sinks \in [0..MaxStreams -> SinkType]
    /\ call \in CallType /\ job \in JobType /\ ret \in RetType
    /\ streams \in 0..MaxStreams /\ faults \in Nat

\* An encoder that may still code: open, or closing with its carry to code.
Running == ~e.closed \/ call.at = "rest"

\* Who calls, and which flags that implies.
Phases ==
    /\ call.at \in {"carry", "whole"} => ~e.closed
    /\ call.at \in {"rest", "drain", "patch"} => e.closed
    /\ call.at = "idle" => call = IdleCall
    /\ call.at \in {"carry", "whole", "rest"} => call.err = "none"
    /\ call.at # "idle" \/ job.at # "off" => e.w # NoSink
    /\ job.at = "write" => ~e.closed
    /\ job.at \in {"closed", "body"} => e.closed
    /\ job.at = "closed" /\ call.at = "idle" => ret.op = "close"
    /\ job.at = "body" => call.at = "idle" /\ ret.op = "close" /\ ret.err = "none" /\ job.tagged
    /\ ret.op = "close" => e.closed /\ call.at = "idle" /\ e.w # NoSink
    /\ ret.op = "oneShot" /\ ret.err \in {"none", "canceled"} => Idle /\ e.w = NoSink
    /\ Running => ~enc.drained /\ ~enc.final
    /\ call.at = "drain" => ~enc.drained

\* Where the encoder writes.
Attached ==
    /\ e.w # NoSink => e.w \in {Body, streams} /\ streams > 0
    /\ e.w = Body => job.at # "off"
    /\ job.at # "off" =>
          /\ e.w = (IF job.tagged THEN Body ELSE streams)
          /\ ~sinks[e.w].seekable /\ e.seeker = NoSink
    /\ e.seeker # NoSink =>
          /\ e.seeker = streams /\ streams > 0 /\ e.w \in {streams, NoSink}
          /\ e.tagOff = 1 /\ sinks[e.seeker].seekable
    /\ job.at \in {"write", "closed"} /\ job.tagged => sinks[streams] = Sink(FALSE)
    /\ job.at = "body" =>
          sinks[streams] = Put(Sink(FALSE), <<FinalTag(1 + Len(sinks[Body].file))>>)

\* The bytes written out are the first ones of the input, and what the carry
\* and the write in progress hold follows them.
D == Len(enc.durable)
Todo == IF job.at = "write" THEN job.todo ELSE 0

Reported ==
    /\ enc.durable = Bytes(1, D)
    /\ Running /\ call.at # "whole" => e.carry = Bytes(D + 1, next - 1) /\ D <= next - 1
    /\ call.at = "carry" =>
          /\ e.carry # <<>> /\ Len(e.carry) + call.n >= FrameBytes
          /\ call.written = 0 /\ call.p = Bytes(next, next + call.n - 1)
    /\ call.at = "whole" =>
          /\ e.carry = <<>> /\ D = next - 1 + call.written /\ call.written <= call.n
          /\ call.p = Bytes(D + 1, next + call.n - 1)
    /\ next - 1 + call.n + Todo <= MaxBytes

\* As long as nothing failed: whole frames, counted, and what has left them is
\* behind the lead of the sink.
Lead == Start(sinks[e.w]) + (IF e.seeker = NoSink THEN 0 ELSE 1)

Holds(s, lead, k) ==
    /\ s.pos = lead + k /\ s.pos <= Len(s.file) /\ Len(s.file) <= lead + Most(k, 1)
    /\ \A j \in 1..k : s.file[lead + j] = Coded(j)

FullFrame(k) == [bytes |-> Bytes((k - 1) * FrameBytes + 1, k * FrameBytes), ok |-> TRUE]
Counted == enc.frames = InputFrames(next - 1) /\ e.samplesIn = (next - 1) \div Stride
Unfailed == e.streamErr = "none" /\ call.err = "none"

Sound ==
    /\ Running /\ e.w # NoSink /\ e.streamErr = "none" =>
         /\ D = Len(enc.frames) * FrameBytes /\ e.samplesIn = Len(enc.frames) * FrameSize
         /\ \A k \in DOMAIN enc.frames : enc.frames[k] = FullFrame(k)
         /\ Holds(sinks[e.w], Lead, enc.sent)
    /\ call.at = "drain" /\ Unfailed => Counted /\ Holds(sinks[e.w], Lead, enc.sent)
    /\ call.at = "patch" =>
         /\ e.seeker # NoSink /\ e.w = e.seeker /\ enc.drained /\ Unfailed /\ Counted
         /\ enc.sent = FramesOf(enc) /\ Holds(sinks[e.w], Lead, enc.sent)
    /\ ret.op = "close" /\ ret.err = "none" => enc.drained /\ Counted

\* The reserved tag stays a placeholder until the patch.
Reserved ==
    e.seeker # NoSink =>
        /\ Len(sinks[e.seeker].file) >= 2
        /\ ~e.closed \/ call.at # "idle" =>
              sinks[e.seeker].file[2] = Placeholder /\ sinks[e.seeker].pos >= 2

IInv ==
    /\ Types /\ TypeOK /\ Phases /\ Attached /\ Reported /\ Sound /\ Reserved
    /\ TagOnlyOverHealthy /\ ReturnMeansSink

(***************************************************************************)
(* The sample count, for every length of the input: what the padding field *)
(* holds, and what a decoder keeps of the N + 1 frames once it has trimmed *)
(* both ends.                                                              *)
(***************************************************************************)
\* Rounding up to whole frames adds less than a frame.
LEMMA FilledBounds ==
    ASSUME NEW n \in Nat
    PROVE  /\ FramesFilled(n) \in Nat
           /\ n <= FramesFilled(n) * FrameSize
           /\ FramesFilled(n) * FrameSize <= n + FrameSize - 1
  <1> USE GaplessAssumption
  <1> DEFINE q == (n + FrameSize - 1) \div FrameSize
             m == (n + FrameSize - 1) % FrameSize
  <1>1. n + FrameSize - 1 \in Nat /\ FrameSize \in Nat /\ FrameSize > 0
    OBVIOUS
  <1>2. q \in Nat /\ m \in 0..FrameSize - 1 /\ n + FrameSize - 1 = FrameSize * q + m
    BY <1>1, SMTT(30)
  <1>3. FrameSize * q \in Nat /\ FrameSize * q = q * FrameSize
    BY <1>2, SMTT(30)
  <1> QED
    BY <1>2, <1>3 DEF FramesFilled

\* The padding field is never clamped, at either end: what the encoder writes
\* is the number of samples behind the last one of the input.
THEOREM PaddingUnclamped ==
    ASSUME NEW n \in Nat
    PROVE  /\ LamePadding(FramesCoded(n), n) = FramesCoded(n) * FrameSize - n - EncoderDelay
           /\ LamePadding(FramesCoded(n), n)
                 \in FrameSize - EncoderDelay..2 * FrameSize - 1 - EncoderDelay
  <1> USE GaplessAssumption
  <1> DEFINE P == FramesFilled(n) * FrameSize
  <1>1. P \in Nat /\ n <= P /\ P <= n + FrameSize - 1
    BY FilledBounds
  <1>2. FramesCoded(n) * FrameSize = P + FrameSize
    BY FilledBounds, SMTT(30) DEF FramesCoded
  <1> HIDE DEF P
  <1> QED
    BY <1>1, <1>2 DEF LamePadding, Least, Most

\* A decoder that trims by the tag plays exactly the n samples given, and what
\* it drops at the tail are whole samples of the stream.
THEOREM RoundTrip ==
    ASSUME NEW n \in Nat
    PROVE  LET total == FramesCoded(n) * FrameSize
               padding == LamePadding(FramesCoded(n), n)
           IN  /\ Playable(total, EncoderDelay, padding) = n
               /\ WindowEnd(total, padding) = HeadTrim(EncoderDelay) + n
  <1> USE GaplessAssumption
  <1> DEFINE total == FramesCoded(n) * FrameSize
             padding == LamePadding(FramesCoded(n), n)
  <1>1. total \in Nat
    BY FilledBounds, SMTT(30) DEF FramesCoded
  <1>2. /\ padding = total - n - EncoderDelay
        /\ padding \in FrameSize - EncoderDelay..2 * FrameSize - 1 - EncoderDelay
    BY PaddingUnclamped
  <1> HIDE DEF total, padding
  <1>3. TailTrim(padding) = padding - DecoderDelay /\ TailTrim(padding) <= total
    BY <1>1, <1>2 DEF TailTrim, Most
  <1>4. WindowEnd(total, padding) = HeadTrim(EncoderDelay) + n
    BY <1>1, <1>2, <1>3 DEF WindowEnd, HeadTrim, Least
  <1>5. Playable(total, EncoderDelay, padding) = n
    BY <1>1, <1>2, <1>3 DEF Playable, HeadTrim, Least
  <1> QED
    BY <1>4, <1>5 DEF total, padding

-----------------------------------------------------------------------------
(***************************************************************************)
(* Runs of consecutive bytes and frames.                                   *)
(***************************************************************************)
LEMMA BytesFacts ==
    ASSUME NEW a \in Int, NEW b \in Int, NEW S, a..b \subseteq S
    PROVE  /\ Bytes(a, b) \in Seq(S)
           /\ Len(Bytes(a, b)) = IF a <= b THEN b - a + 1 ELSE 0
           /\ \A k \in 1..(b - a + 1) : Bytes(a, b)[k] = a + k - 1
  <1> DEFINE n == Most(0, b - a + 1)
  <1>1. n \in Nat /\ n = (IF a <= b THEN b - a + 1 ELSE 0) /\ 1..n = 1..(b - a + 1)
    BY DEF Most
  <1>2. \A k \in 1..n : a + k - 1 \in S
    BY <1>1
  <1>3. Bytes(a, b) = [k \in 1..n |-> a + k - 1]
    BY DEF Bytes
  <1> HIDE DEF n
  <1>4. Bytes(a, b) \in [1..n -> S]
    BY <1>2, <1>3
  <1>5. Bytes(a, b) \in Seq(S) /\ Len(Bytes(a, b)) = n
    BY <1>1, <1>4
  <1> QED  BY <1>1, <1>3, <1>5

LEMMA BytesInt ==
    ASSUME NEW a \in Int, NEW b \in Int, a <= b + 1
    PROVE  /\ Bytes(a, b) \in Seq(Int) /\ Len(Bytes(a, b)) = b - a + 1
           /\ \A k \in 1..(b - a + 1) : Bytes(a, b)[k] = a + k - 1
  <1>1. a..b \subseteq Int /\ (IF a <= b THEN b - a + 1 ELSE 0) = b - a + 1
    OBVIOUS
  <1> QED  BY <1>1, BytesFacts

LEMMA BytesEmpty ==
    ASSUME NEW a \in Int, NEW b \in Int, b < a
    PROVE  Bytes(a, b) = <<>>
  <1>1. a..b \subseteq Int
    OBVIOUS
  <1>2. Bytes(a, b) \in Seq(Int) /\ Len(Bytes(a, b)) = 0
    BY <1>1, BytesFacts
  <1> QED  BY <1>2, EmptySeq

LEMMA BytesJoin ==
    ASSUME NEW a \in Int, NEW b \in Int, NEW c \in Int, a <= b + 1, b <= c
    PROVE  Bytes(a, b) \o Bytes(b + 1, c) = Bytes(a, c)
  <1> DEFINE s == Bytes(a, b)  t == Bytes(b + 1, c)  u == Bytes(a, c)
  <1>1. /\ s \in Seq(Int) /\ Len(s) = b - a + 1
        /\ \A k \in 1..(b - a + 1) : s[k] = a + k - 1
    BY BytesInt
  <1>2. /\ t \in Seq(Int) /\ Len(t) = c - b
        /\ \A k \in 1..(c - b) : t[k] = b + k
    <2>1. b + 1 \in Int /\ b + 1 <= c + 1
      OBVIOUS
    <2>2. t \in Seq(Int) /\ Len(t) = c - (b + 1) + 1
          /\ \A k \in 1..(c - (b + 1) + 1) : t[k] = b + 1 + k - 1
      BY <2>1, BytesInt
    <2> QED  BY <2>2
  <1>3. /\ u \in Seq(Int) /\ Len(u) = c - a + 1
        /\ \A k \in 1..(c - a + 1) : u[k] = a + k - 1
    <2>1. a <= c + 1
      OBVIOUS
    <2> QED  BY <2>1, BytesInt
  <1> HIDE DEF s, t, u
  <1>4. s \o t \in Seq(Int) /\ Len(s \o t) = c - a + 1
    <2>1. s \o t \in Seq(Int) /\ Len(s \o t) = Len(s) + Len(t)
      BY <1>1, <1>2, ConcatProperties
    <2> QED  BY <1>1, <1>2, <2>1
  <1>5. \A k \in 1..Len(s \o t) : (s \o t)[k] = u[k]
    <2> TAKE k \in 1..Len(s \o t)
    <2>1. k \in 1..Len(s) + Len(t) /\ k \in 1..(c - a + 1)
      BY <1>1, <1>2, <1>4
    <2>2. (s \o t)[k] = IF k <= Len(s) THEN s[k] ELSE t[k - Len(s)]
      BY <1>1, <1>2, <2>1, ConcatProperties
    <2>3. CASE k <= Len(s)
      BY <1>1, <1>3, <2>1, <2>2, <2>3
    <2>4. CASE ~(k <= Len(s))
      <3>1. k - Len(s) \in 1..(c - b) /\ b + (k - Len(s)) = a + k - 1
        BY <1>1, <2>1, <2>4
      <3> QED  BY <1>2, <1>3, <2>1, <2>2, <2>4, <3>1
    <2> QED  BY <2>3, <2>4
  <1>6. s \o t = u
    BY <1>3, <1>4, <1>5, SeqEqual
  <1> QED  BY <1>6 DEF s, t, u

Piece(a, b, i, j) == SubSeq(Bytes(a, b), i, j)

LEMMA BytesCut ==
    ASSUME NEW a \in Int, NEW b \in Int, NEW i \in Int, NEW j \in Int,
           1 <= i, i <= j + 1, j <= b - a + 1
    PROVE  Piece(a, b, i, j) = Bytes(a + i - 1, a + j - 1)
  <1> DEFINE s == Bytes(a, b)  f == a + i - 1  g == a + j - 1  t == Bytes(f, g)
  <1>1. \A k \in 1..(b - a + 1) : s[k] = a + k - 1
    <2>1. a <= b + 1
      OBVIOUS
    <2> QED  BY <2>1, BytesInt
  <1>2. /\ t \in Seq(Int) /\ Len(t) = j - i + 1
        /\ \A k \in 1..(j - i + 1) : t[k] = a + i - 1 + k - 1
    <2>1. f \in Int /\ g \in Int /\ f <= g + 1 /\ g - f + 1 = j - i + 1
      OBVIOUS
    <2> HIDE DEF f, g
    <2>2. Bytes(f, g) \in Seq(Int) /\ Len(Bytes(f, g)) = g - f + 1
          /\ \A k \in 1..(g - f + 1) : Bytes(f, g)[k] = f + k - 1
      BY <2>1, BytesInt
    <2> QED  BY <2>1, <2>2 DEF f, g
  <1> HIDE DEF s, t
  <1>3. \A k \in i..j : s[k] \in Int
    BY <1>1
  <1>4. /\ SubSeq(s, i, j) \in Seq(Int)
        /\ Len(SubSeq(s, i, j)) = IF i <= j THEN j - i + 1 ELSE 0
        /\ \A k \in 1..(j - i + 1) : SubSeq(s, i, j)[k] = s[i + k - 1]
    BY <1>3, SubSeqProperties
  <1>5. Len(SubSeq(s, i, j)) = j - i + 1
    BY <1>4
  <1>6. \A k \in 1..(j - i + 1) : SubSeq(s, i, j)[k] = t[k]
    BY <1>1, <1>2, <1>4
  <1>7. SubSeq(s, i, j) = t
    BY <1>2, <1>4, <1>5, <1>6, SeqEqual
  <1> QED  BY <1>7 DEF s, t, f, g, Piece

LEMMA CodedRunFacts ==
    ASSUME NEW a \in Nat, NEW b \in Int, a <= b + 1
    PROVE  /\ CodedRun(a, b) \in Seq(Item) /\ Len(CodedRun(a, b)) = b - a + 1
           /\ \A k \in 1..(b - a + 1) : CodedRun(a, b)[k] = Coded(a + k - 1)
  <1> DEFINE n == Most(0, b - a + 1)
  <1>1. n \in Nat /\ n = b - a + 1
    BY DEF Most
  <1>2. CodedRun(a, b) = [k \in 1..n |-> Coded(a + k - 1)]
    BY DEF CodedRun
  <1> HIDE DEF n
  <1>3. \A k \in 1..n : Coded(a + k - 1) \in Item
    BY <1>1 DEF Item, Coded
  <1>4. CodedRun(a, b) \in [1..n -> Item]
    BY <1>2, <1>3
  <1>5. CodedRun(a, b) \in Seq(Item) /\ Len(CodedRun(a, b)) = n
    BY <1>1, <1>4
  <1> QED  BY <1>1, <1>2, <1>5

\* What a write leaves of a sink: the items behind its position, and the rest.
LEMMA PutFacts ==
    ASSUME NEW s \in SinkType, NEW items \in Seq(Item), s.pos <= Len(s.file)
    PROVE  /\ Put(s, items) \in SinkType
           /\ Put(s, items).seekable = s.seekable
           /\ Put(s, items).pos = s.pos + Len(items)
           /\ Len(Put(s, items).file) = Most(Len(s.file), s.pos + Len(items))
           /\ \A k \in 1..s.pos : Put(s, items).file[k] = s.file[k]
           /\ \A k \in 1..Len(items) : Put(s, items).file[s.pos + k] = items[k]
           /\ \A k \in s.pos + Len(items) + 1..Len(s.file) : Put(s, items).file[k] = s.file[k]
  <1> DEFINE end == s.pos + Len(items)
             n == Most(Len(s.file), end)
             file == [k \in 1..n |-> IF k \in s.pos + 1..end THEN items[k - s.pos] ELSE s.file[k]]
  <1>1. /\ s.pos \in Nat /\ s.file \in Seq(Item) /\ s.seekable \in BOOLEAN
        /\ Len(s.file) \in Nat /\ Len(items) \in Nat
    BY LenProperties DEF SinkType
  <1>2. n \in Nat /\ end \in Nat /\ s.pos <= end /\ end <= n /\ Len(s.file) <= n /\ (n = Len(s.file) \/ n = end)
    BY <1>1 DEF Most
  <1>3. Put(s, items) = [s EXCEPT !.pos = end, !.file = file]
    BY DEF Put
  <1>4. \A k \in 1..n : file[k] \in Item
    <2> TAKE k \in 1..n
    <2>1. CASE k \in s.pos + 1..end
      <3>1. k - s.pos \in 1..Len(items)
        BY <1>1, <2>1
      <3> QED  BY <2>1, <3>1, ElementOfSeq
    <2>2. CASE ~(k \in s.pos + 1..end)
      <3>1. k \in 1..Len(s.file)
        BY <1>1, <1>2, <2>2
      <3> QED  BY <1>1, <2>2, <3>1, ElementOfSeq
    <2> QED  BY <2>1, <2>2
  <1>5. file \in [1..n -> Item]
    BY <1>4
  <1>6. file \in Seq(Item) /\ Len(file) = n
    <2> HIDE DEF file, n
    <2> QED  BY <1>2, <1>5
  <1>7. \A k \in 1..s.pos : file[k] = s.file[k]
    BY <1>1, <1>2
  <1>8. \A k \in 1..Len(items) : file[s.pos + k] = items[k]
    <2> TAKE k \in 1..Len(items)
    <2>1. s.pos + k \in s.pos + 1..end /\ s.pos + k \in 1..n /\ (s.pos + k) - s.pos = k
      BY <1>1, <1>2
    <2> QED  BY <2>1
  <1>9. \A k \in end + 1..Len(s.file) : file[k] = s.file[k]
    BY <1>1, <1>2
  <1> HIDE DEF file, n
  <1>10. /\ Put(s, items) \in SinkType /\ Put(s, items).seekable = s.seekable
         /\ Put(s, items).pos = end /\ Put(s, items).file = file
    BY <1>1, <1>2, <1>3, <1>6 DEF SinkType
  <1> QED  BY <1>6, <1>7, <1>8, <1>9, <1>10 DEF n

LEMMA Sizes ==
    /\ FrameSize \in Nat \ {0} /\ Stride \in Nat \ {0} /\ FrameBytes \in Nat \ {0}
    /\ MaxBytes \in Nat /\ MaxStreams \in Nat /\ MaxFaults \in Nat /\ Chunks \subseteq Nat
  <1>1. /\ FrameSize \in Nat \ {0} /\ Stride \in Nat \ {0}
        /\ MaxBytes \in Nat /\ MaxStreams \in Nat /\ MaxFaults \in Nat /\ Chunks \subseteq Nat
    BY PcmEncoderAssumption, GaplessAssumption
  <1>2. Stride * FrameSize \in Nat \ {0}
    BY <1>1, SMTT(30)
  <1> QED  BY <1>1, <1>2 DEF FrameBytes

-----------------------------------------------------------------------------
(***************************************************************************)
(* Handing frames to the sink.                                             *)
(***************************************************************************)
LEMMA HoldsPut ==
    ASSUME NEW s \in SinkType, NEW lead \in Nat, NEW k \in Nat, NEW m \in Nat, k <= m,
           Holds(s, lead, k)
    PROVE  Holds(Put(s, CodedRun(k + 1, m)), lead, m)
  <1> DEFINE run == CodedRun(k + 1, m)
             t == Put(s, run)
  <1>1. /\ run \in Seq(Item) /\ Len(run) = m - k
        /\ \A j \in 1..(m - k) : run[j] = Coded(k + j)
    <2> DEFINE f == k + 1
    <2>1. f \in Nat /\ f <= m + 1 /\ m \in Int /\ m - f + 1 = m - k
      OBVIOUS
    <2> HIDE DEF f
    <2>2. /\ CodedRun(f, m) \in Seq(Item) /\ Len(CodedRun(f, m)) = m - f + 1
          /\ \A j \in 1..(m - f + 1) : CodedRun(f, m)[j] = Coded(f + j - 1)
      BY <2>1, CodedRunFacts
    <2>3. ASSUME NEW j \in 1..(m - k) PROVE CodedRun(f, m)[j] = Coded(k + j)
      <3>1. f + j - 1 = k + j
        BY DEF f
      <3> QED  BY <2>1, <2>2, <3>1
    <2> QED  BY <2>1, <2>2, <2>3 DEF f
  <1>2. /\ s.pos = lead + k /\ s.pos <= Len(s.file) /\ Len(s.file) <= lead + Most(k, 1)
        /\ \A j \in 1..k : s.file[lead + j] = Coded(j)
        /\ Len(s.file) \in Nat
    BY LenProperties DEF Holds, SinkType
  <1> HIDE DEF run
  <1>3. /\ t.pos = s.pos + Len(run)
        /\ Len(t.file) = Most(Len(s.file), s.pos + Len(run))
        /\ \A j \in 1..s.pos : t.file[j] = s.file[j]
        /\ \A j \in 1..Len(run) : t.file[s.pos + j] = run[j]
    BY <1>1, <1>2, PutFacts
  <1> HIDE DEF t
  <1>4. t.pos = lead + m
    BY <1>1, <1>2, <1>3
  <1>5. t.pos <= Len(t.file) /\ Len(t.file) <= lead + Most(m, 1)
    BY <1>1, <1>2, <1>3 DEF Most
  <1>6. ASSUME NEW j \in 1..m PROVE t.file[lead + j] = Coded(j)
    <2>1. CASE j <= k
      <3>1. j \in 1..k /\ lead + j \in 1..s.pos
        BY <1>2, <2>1
      <3> QED  BY <1>2, <1>3, <3>1
    <2>2. CASE ~(j <= k)
      <3>1. j - k \in 1..(m - k) /\ lead + j = s.pos + (j - k) /\ k + (j - k) = j
        BY <1>2, <2>2
      <3>2. t.file[s.pos + (j - k)] = run[j - k]
        BY <1>1, <1>3, <3>1
      <3>3. run[j - k] = Coded(k + (j - k))
        BY <1>1, <3>1
      <3> QED  BY <3>1, <3>2, <3>3
    <2> QED  BY <2>1, <2>2
  <1>7. Holds(t, lead, m)
    BY <1>4, <1>5, <1>6 DEF Holds
  <1> QED  BY <1>7 DEF t, run

\* One write of coded frames: all of them, or a part and a failure.
LEMMA SinkWritesFacts ==
    ASSUME Types, NEW k \in 0..MaxStreams, sinks[k].pos <= Len(sinks[k].file),
           NEW items \in Seq(Item), NEW o \in SinkWrites(k, items)
    PROVE  /\ o.err \in {"none", "sink"} /\ o.sink \in SinkType
           /\ o.sink.seekable = sinks[k].seekable
           /\ o.sink.pos >= sinks[k].pos /\ o.sink.pos <= Len(o.sink.file)
           /\ Len(o.sink.file) >= Len(sinks[k].file)
           /\ \A j \in 1..sinks[k].pos : o.sink.file[j] = sinks[k].file[j]
           /\ o.err = "none" => o.sink = Put(sinks[k], items)
  <1>1. sinks[k] \in SinkType /\ sinks[k].pos \in Nat /\ Len(sinks[k].file) \in Nat /\ Len(items) \in Nat
    BY LenProperties DEF Types, SinkType
  <1>2. CASE o = [sink |-> Put(sinks[k], items), err |-> "none"]
    <2>1. o.sink = Put(sinks[k], items) /\ o.err = "none"
      BY <1>2
    <2>2. /\ o.sink \in SinkType /\ o.sink.seekable = sinks[k].seekable
          /\ o.sink.pos = sinks[k].pos + Len(items)
          /\ Len(o.sink.file) = Most(Len(sinks[k].file), sinks[k].pos + Len(items))
          /\ \A j \in 1..sinks[k].pos : o.sink.file[j] = sinks[k].file[j]
      <3> DEFINE s == sinks[k]  t == o.sink
      <3>1. s \in SinkType /\ s.pos <= Len(s.file) /\ t = Put(s, items)
        BY <1>1, <2>1
      <3> HIDE DEF s, t
      <3>2. t \in SinkType /\ t.seekable = s.seekable /\ t.pos = s.pos + Len(items)
        BY <3>1, PutFacts
      <3>3. Len(t.file) = Most(Len(s.file), s.pos + Len(items)) /\ \A j \in 1..s.pos : t.file[j] = s.file[j]
        BY <3>1, PutFacts
      <3> QED  BY <3>2, <3>3 DEF s, t
    <2>3. /\ o.sink.pos >= sinks[k].pos /\ o.sink.pos <= Len(o.sink.file)
          /\ Len(o.sink.file) >= Len(sinks[k].file)
      BY <1>1, <2>2 DEF Most
    <2> QED  BY <2>1, <2>2, <2>3
  <1>3. CASE \E m \in 0..Len(items) - 1 : o = [sink |-> Put(sinks[k], SubSeq(items, 1, m)), err |-> "sink"]
    <2>1. PICK m \in 0..Len(items) - 1 : o = [sink |-> Put(sinks[k], SubSeq(items, 1, m)), err |-> "sink"]
      BY <1>3
    <2>2. o.sink = Put(sinks[k], SubSeq(items, 1, m)) /\ o.err = "sink"
      BY <2>1
    <2>3. SubSeq(items, 1, m) \in Seq(Item) /\ Len(SubSeq(items, 1, m)) \in Nat
      <3>1. \A j \in 1..m : items[j] \in Item
        BY <1>1, ElementOfSeq
      <3>2. SubSeq(items, 1, m) \in Seq(Item)
        BY <3>1, SubSeqProperties
      <3> QED  BY <3>2, LenProperties
    <2> DEFINE part == SubSeq(items, 1, m)
    <2> HIDE DEF part
    <2>4. /\ Put(sinks[k], part) \in SinkType /\ Put(sinks[k], part).seekable = sinks[k].seekable
          /\ Put(sinks[k], part).pos = sinks[k].pos + Len(part)
          /\ Len(Put(sinks[k], part).file) = Most(Len(sinks[k].file), sinks[k].pos + Len(part))
          /\ \A j \in 1..sinks[k].pos : Put(sinks[k], part).file[j] = sinks[k].file[j]
      <3>1. part \in Seq(Item)
        BY <2>3 DEF part
      <3> QED  BY <1>1, <3>1, PutFacts
    <2>5. o.sink = Put(sinks[k], part) /\ Len(part) \in Nat
      BY <2>2, <2>3 DEF part
    <2>6. /\ o.sink.pos >= sinks[k].pos /\ o.sink.pos <= Len(o.sink.file)
          /\ Len(o.sink.file) >= Len(sinks[k].file)
      BY <1>1, <2>4, <2>5 DEF Most
    <2> QED  BY <2>2, <2>4, <2>5, <2>6
  <1> QED  BY <1>2, <1>3 DEF SinkWrites

LEMMA EmissionFacts ==
    ASSUME Types, e.w \in 0..MaxStreams, sinks[e.w].pos <= Len(sinks[e.w].file),
           ~enc.drained, ~enc.final, enc.sent <= Len(enc.frames),
           NEW chunk \in Seq(Int), NEW n \in Nat, NEW o \in Emissions(chunk, n)
    PROVE  /\ o.err \in {"none", "sink"}
           /\ o.enc.frames = Append(enc.frames, [bytes |-> chunk, ok |-> o.err = "none"])
           /\ o.enc.durable = IF o.err = "none" THEN enc.durable \o chunk ELSE enc.durable
           /\ o.enc.final = (n < FrameSize) /\ o.enc.drained = FALSE
           /\ o.enc.sent \in enc.sent..Len(enc.frames)
           /\ o.enc \in EncType
           /\ o.sink \in SinkType /\ o.sink.seekable = sinks[e.w].seekable
           /\ o.sink.pos >= sinks[e.w].pos /\ o.sink.pos <= Len(o.sink.file)
           /\ Len(o.sink.file) >= Len(sinks[e.w].file)
           /\ \A j \in 1..sinks[e.w].pos : o.sink.file[j] = sinks[e.w].file[j]
           /\ o.err = "none" => o.sink = Put(sinks[e.w], CodedRun(enc.sent + 1, o.enc.sent))
  <1> DEFINE r == [enc EXCEPT !.final = n < FrameSize]
  <1>1. /\ enc.frames \in Seq(FrameType) /\ enc.durable \in Seq(Int) /\ enc.sent \in Nat
        /\ Len(enc.frames) \in Nat
    BY LenProperties DEF Types, EncType
  <1>2. /\ r.frames = enc.frames /\ r.durable = enc.durable /\ r.sent = enc.sent
        /\ r.drained = FALSE /\ r.final = (n < FrameSize) /\ r \in EncType
    <2>1. enc \in EncType /\ enc.drained = FALSE /\ (n < FrameSize) \in BOOLEAN
      BY DEF Types, EncType
    <2> QED  BY <2>1 DEF EncType
  <1>3. PICK k \in enc.sent..Len(enc.frames) : \E q \in Deliver(r, k) : o = Noted(q, chunk)
    BY <1>2 DEF Emissions
  <1>4. PICK q \in Deliver(r, k) : o = Noted(q, chunk)
    BY <1>3
  <1>5. PICK u \in SinkWrites(e.w, CodedRun(enc.sent + 1, k)) :
            q = [enc |-> [r EXCEPT !.sent = k], sink |-> u.sink, err |-> u.err]
    BY <1>2, <1>4 DEF Deliver
  <1>6. CodedRun(enc.sent + 1, k) \in Seq(Item)
    <2>1. enc.sent + 1 \in Nat /\ k \in Int /\ enc.sent + 1 <= k + 1
      BY <1>1
    <2> QED  BY <2>1, CodedRunFacts
  <1>7. /\ u.err \in {"none", "sink"} /\ u.sink \in SinkType
        /\ u.sink.seekable = sinks[e.w].seekable
        /\ u.sink.pos >= sinks[e.w].pos /\ u.sink.pos <= Len(u.sink.file)
        /\ Len(u.sink.file) >= Len(sinks[e.w].file)
        /\ \A j \in 1..sinks[e.w].pos : u.sink.file[j] = sinks[e.w].file[j]
        /\ u.err = "none" => u.sink = Put(sinks[e.w], CodedRun(enc.sent + 1, k))
    BY <1>5, <1>6, SinkWritesFacts
  <1>8. /\ q.sink = u.sink /\ q.err = u.err /\ q.enc \in EncType
        /\ q.enc.frames = enc.frames /\ q.enc.durable = enc.durable /\ q.enc.sent = k
        /\ q.enc.final = (n < FrameSize) /\ q.enc.drained = FALSE
    <2>1. q.sink = u.sink /\ q.err = u.err /\ q.enc = [r EXCEPT !.sent = k] /\ k \in Nat
      BY <1>1, <1>5
    <2> HIDE DEF r
    <2> QED  BY <1>2, <2>1 DEF EncType
  <1> DEFINE frames == Append(enc.frames, [bytes |-> chunk, ok |-> u.err = "none"])
             durable == IF u.err = "none" THEN enc.durable \o chunk ELSE enc.durable
  <1>9. frames \in Seq(FrameType)
    <2>1. [bytes |-> chunk, ok |-> u.err = "none"] \in FrameType
      BY DEF FrameType
    <2> QED  BY <1>1, <2>1, AppendProperties
  <1>10. durable \in Seq(Int)
    BY <1>1, ConcatProperties
  <1>11. /\ o.sink = u.sink /\ o.err = u.err
         /\ o.enc = [q.enc EXCEPT !.frames = frames, !.durable = durable]
    BY <1>4, <1>5, <1>8 DEF Noted
  <1> HIDE DEF frames, durable, r
  <1>12. /\ o.enc \in EncType /\ o.enc.frames = frames /\ o.enc.durable = durable /\ o.enc.sent = k
         /\ o.enc.final = (n < FrameSize) /\ o.enc.drained = FALSE
    BY <1>8, <1>9, <1>10, <1>11 DEF EncType
  <1> QED  BY <1>7, <1>11, <1>12 DEF frames, durable

\* In every state, what the invariant says of the types.
LEMMA OfE ==
    ASSUME IInv
    PROVE  /\ e \in EType /\ e.closed \in BOOLEAN /\ e.w \in NoSink..MaxStreams
           /\ e.seeker \in NoSink..MaxStreams /\ e.tagOff \in {0, 1}
           /\ e.carry \in Seq(1..MaxBytes) /\ Len(e.carry) \in Nat /\ Len(e.carry) < FrameBytes
           /\ e.samplesIn \in Nat /\ e.streamErr \in Errors
  <1>1. e \in EType /\ Len(e.carry) < FrameBytes
    BY DEF IInv, Types, TypeOK
  <1>2. e.carry \in Seq(1..MaxBytes)
    BY <1>1 DEF EType
  <1>3. Len(e.carry) \in Nat
    BY <1>2, LenProperties
  <1> QED  BY <1>1, <1>2, <1>3 DEF EType

LEMMA OfEnc ==
    ASSUME IInv
    PROVE  /\ enc \in EncType /\ enc.frames \in Seq(FrameType) /\ Len(enc.frames) \in Nat
           /\ enc.durable \in Seq(Int) /\ D \in Nat
           /\ enc.sent \in Nat /\ enc.drained \in BOOLEAN /\ enc.final \in BOOLEAN
           /\ enc.sent <= FramesOf(enc)
  <1>1. enc \in EncType /\ enc.sent <= FramesOf(enc)
    BY DEF IInv, Types, TypeOK
  <1>2. enc.frames \in Seq(FrameType) /\ enc.durable \in Seq(Int)
    BY <1>1 DEF EncType
  <1>3. Len(enc.frames) \in Nat /\ D \in Nat
    BY <1>2, LenProperties DEF D
  <1> QED  BY <1>1, <1>2, <1>3 DEF EncType

LEMMA OfSinks ==
    ASSUME IInv, NEW k \in 0..MaxStreams
    PROVE  /\ sinks[k] \in SinkType /\ sinks[k].pos \in Nat /\ sinks[k].pos <= Len(sinks[k].file)
           /\ sinks[k].file \in Seq(Item) /\ Len(sinks[k].file) \in Nat
           /\ sinks[k].seekable \in BOOLEAN
  <1>1. sinks[k] \in SinkType /\ sinks[k].pos <= Len(sinks[k].file)
    BY DEF IInv, Types, TypeOK
  <1>2. sinks[k].file \in Seq(Item)
    BY <1>1 DEF SinkType
  <1> QED  BY <1>1, <1>2, LenProperties DEF SinkType

LEMMA OfCall ==
    ASSUME IInv
    PROVE  /\ next \in 1..MaxBytes + 1 /\ streams \in 0..MaxStreams /\ faults \in Nat
           /\ call.p \in Seq(1..MaxBytes) /\ Len(call.p) \in Nat /\ call.written \in Nat
           /\ call.n \in Nat /\ call.err \in Errors
           /\ job.todo \in Nat /\ job.tagged \in BOOLEAN /\ ret.n \in Nat /\ ret.err \in Errors
  <1>1. /\ next \in 1..MaxBytes + 1 /\ streams \in 0..MaxStreams /\ faults \in Nat
        /\ call.p \in Seq(1..MaxBytes) /\ call.written \in Nat
        /\ call.n \in Nat /\ call.err \in Errors
        /\ job.todo \in Nat /\ job.tagged \in BOOLEAN /\ ret.n \in Nat /\ ret.err \in Errors
    BY DEF IInv, Types, TypeOK, CallType, JobType, RetType
  <1> QED  BY <1>1, LenProperties

\* The output of a frame that was coded, wherever the frame came from.
LEMMA EmitStep ==
    ASSUME IInv, call.at \in {"carry", "whole", "rest"},
           NEW chunk \in Seq(Int), NEW n \in Nat,
           NEW o \in Emissions(chunk, n), Emit(o, n)
    PROVE  /\ o.err \in {"none", "sink"}
           /\ e' \in EType /\ enc' \in EncType /\ sinks' \in [0..MaxStreams -> SinkType]
           /\ faults' \in Nat
           /\ e'.closed = e.closed /\ e'.w = e.w /\ e'.seeker = e.seeker /\ e'.tagOff = e.tagOff
           /\ e'.samplesIn = e.samplesIn + n
           /\ e'.streamErr = (IF o.err = "none" THEN e.streamErr ELSE "sink")
           /\ e'.carry = (IF o.err = "none" THEN <<>> ELSE e.carry)
           /\ enc'.frames = Append(enc.frames, [bytes |-> chunk, ok |-> o.err = "none"])
           /\ enc'.durable = (IF o.err = "none" THEN enc.durable \o chunk ELSE enc.durable)
           /\ enc'.final = (n < FrameSize) /\ enc'.drained = FALSE
           /\ enc'.sent <= FramesOf(enc')
           /\ \A k \in 0..MaxStreams : sinks'[k].pos <= Len(sinks'[k].file)
           /\ \A k \in 0..MaxStreams : k # e.w => sinks'[k] = sinks[k]
           /\ sinks'[e.w].seekable = sinks[e.w].seekable
           /\ e.seeker # NoSink =>
                 /\ Len(sinks'[e.seeker].file) >= 2 /\ sinks'[e.seeker].pos >= 2
                 /\ sinks'[e.seeker].file[2] = Placeholder
           /\ o.err = "none" /\ Holds(sinks[e.w], Lead, enc.sent) =>
                 Holds(sinks'[e.w], Lead', enc'.sent)
  <1>1. /\ e.w \in 0..MaxStreams /\ ~enc.drained /\ ~enc.final
        /\ ~e.closed \/ call.at # "idle"
    <2>1. e.w # NoSink /\ ~enc.drained /\ ~enc.final /\ (~e.closed \/ call.at # "idle")
      BY DEF IInv, Phases, Running
    <2>2. NoSink = -1 /\ e.w \in NoSink..MaxStreams /\ MaxStreams \in Nat
      BY OfE, Sizes DEF NoSink
    <2> QED  BY <2>1, <2>2
  <1>2. enc.sent <= Len(enc.frames)
    BY <1>1, OfEnc DEF FramesOf, Most
  <1>3. /\ sinks[e.w] \in SinkType /\ sinks[e.w].pos \in Nat /\ sinks[e.w].pos <= Len(sinks[e.w].file)
        /\ Types
    BY <1>1, OfSinks DEF IInv
  <1>4. /\ o.err \in {"none", "sink"}
        /\ o.enc.frames = Append(enc.frames, [bytes |-> chunk, ok |-> o.err = "none"])
        /\ o.enc.durable = IF o.err = "none" THEN enc.durable \o chunk ELSE enc.durable
        /\ o.enc.final = (n < FrameSize) /\ o.enc.drained = FALSE
        /\ o.enc.sent \in enc.sent..Len(enc.frames)
        /\ o.enc \in EncType
        /\ o.sink \in SinkType /\ o.sink.seekable = sinks[e.w].seekable
        /\ o.sink.pos >= sinks[e.w].pos /\ o.sink.pos <= Len(o.sink.file)
        /\ Len(o.sink.file) >= Len(sinks[e.w].file)
        /\ \A j \in 1..sinks[e.w].pos : o.sink.file[j] = sinks[e.w].file[j]
        /\ o.err = "none" => o.sink = Put(sinks[e.w], CodedRun(enc.sent + 1, o.enc.sent))
    BY <1>1, <1>2, <1>3, EmissionFacts
  <1>5. /\ enc' = o.enc /\ sinks' = [sinks EXCEPT ![e.w] = o.sink]
        /\ faults' = faults + (IF o.err = "sink" THEN 1 ELSE 0)
        /\ e' = [e EXCEPT !.samplesIn = @ + n,
                          !.streamErr = IF o.err = "none" THEN @ ELSE o.err,
                          !.carry = IF o.err = "none" THEN <<>> ELSE @]
    BY DEF Emit, Fault
  <1>6. /\ e' \in EType
        /\ e'.closed = e.closed /\ e'.w = e.w /\ e'.seeker = e.seeker /\ e'.tagOff = e.tagOff
        /\ e'.samplesIn = e.samplesIn + n
        /\ e'.streamErr = (IF o.err = "none" THEN e.streamErr ELSE "sink")
        /\ e'.carry = (IF o.err = "none" THEN <<>> ELSE e.carry)
    <2>1. e \in EType /\ e.samplesIn + n \in Nat /\ "sink" \in Errors /\ <<>> \in Seq(1..MaxBytes)
      <3>1. e \in EType /\ e.samplesIn \in Nat
        BY OfE
      <3> QED  BY <3>1, EmptySeq DEF Errors
    <2>2. o.err \in {"none", "sink"}
      BY <1>4
    <2> QED  BY <1>5, <2>1, <2>2 DEF EType
  <1>7. /\ sinks' \in [0..MaxStreams -> SinkType] /\ sinks'[e.w] = o.sink
        /\ \A k \in 0..MaxStreams : k # e.w => sinks'[k] = sinks[k]
    BY <1>1, <1>3, <1>4, <1>5 DEF Types
  <1>8. \A k \in 0..MaxStreams : sinks'[k].pos <= Len(sinks'[k].file)
    BY <1>4, <1>7, OfSinks
  <1>9. Len(enc'.frames) = Len(enc.frames) + 1 /\ enc'.sent <= FramesOf(enc')
    <2>1. Len(enc'.frames) = Len(enc.frames) + 1
      <3>1. [bytes |-> chunk, ok |-> o.err = "none"] \in FrameType
        BY DEF FrameType
      <3>2. enc'.frames = Append(enc.frames, [bytes |-> chunk, ok |-> o.err = "none"])
        BY <1>4, <1>5
      <3>3. enc.frames \in Seq(FrameType)
        BY OfEnc
      <3> QED  BY <3>1, <3>2, <3>3, AppendProperties
    <2>2. enc'.drained = FALSE /\ enc'.sent \in enc.sent..Len(enc.frames)
      BY <1>4, <1>5
    <2>3. enc.sent \in Nat /\ Len(enc.frames) \in Nat
      BY OfEnc
    <2> QED  BY <2>1, <2>2, <2>3 DEF FramesOf, Most
  <1>10. ASSUME e.seeker # NoSink
         PROVE  /\ Len(sinks'[e.seeker].file) >= 2 /\ sinks'[e.seeker].pos >= 2
                /\ sinks'[e.seeker].file[2] = Placeholder
    <2>1. e.w = e.seeker
      BY <1>1, <1>10 DEF IInv, Attached, NoSink
    <2>2. /\ Len(sinks[e.w].file) >= 2 /\ sinks[e.w].file[2] = Placeholder /\ sinks[e.w].pos >= 2
      BY <1>1, <1>10, <2>1 DEF IInv, Reserved
    <2>3. 2 \in 1..sinks[e.w].pos /\ Len(o.sink.file) \in Nat /\ o.sink.pos \in Nat
          /\ Len(sinks[e.w].file) \in Nat
      BY <1>3, <1>4, <2>2, LenProperties DEF SinkType
    <2>4. sinks'[e.seeker] = o.sink /\ o.sink.file[2] = Placeholder
      BY <1>4, <1>7, <2>1, <2>2, <2>3
    <2>5. o.sink.pos >= sinks[e.w].pos /\ Len(o.sink.file) >= Len(sinks[e.w].file)
          /\ sinks[e.w].pos \in Nat
      BY <1>3, <1>4
    <2> DEFINE l == Len(o.sink.file)  m == Len(sinks[e.w].file)  p == o.sink.pos  q == sinks[e.w].pos
    <2>6. l \in Nat /\ m \in Nat /\ p \in Nat /\ q \in Nat /\ p >= q /\ l >= m /\ m >= 2 /\ q >= 2
      BY <2>2, <2>3, <2>5
    <2> HIDE DEF l, m, p, q
    <2>7. l >= 2 /\ p >= 2
      BY <2>6
    <2> QED  BY <2>4, <2>7 DEF l, p
  <1>11. ASSUME o.err = "none", Holds(sinks[e.w], Lead, enc.sent)
         PROVE  Holds(sinks'[e.w], Lead', enc'.sent)
    <2>1. Lead \in Nat /\ Lead' = Lead
      BY <1>4, <1>6, <1>7 DEF Lead, Start
    <2>3. enc.sent \in Nat /\ o.enc.sent \in Nat /\ enc.sent <= o.enc.sent
      BY <1>4, OfEnc
    <2>2. Holds(Put(sinks[e.w], CodedRun(enc.sent + 1, o.enc.sent)), Lead, o.enc.sent)
      BY <1>3, <1>11, <2>1, <2>3, HoldsPut
    <2> QED  BY <1>4, <1>5, <1>7, <1>11, <2>1, <2>2
  <1>12. faults' \in Nat
    <2>1. o.err \in {"none", "sink"} /\ faults' = faults + (IF o.err = "sink" THEN 1 ELSE 0) /\ faults \in Nat
      BY <1>4, <1>5, OfCall
    <2> QED  BY <2>1
  <1>13. enc' = o.enc
    BY <1>5
  <1> QED  BY <1>4, <1>6, <1>7, <1>8, <1>9, <1>10, <1>11, <1>12, <1>13

\* The bytes of the next frame.
LEMMA NextFrame ==
    ASSUME NEW d \in Nat, NEW m \in Nat
    PROVE  /\ Bytes(d + 1, d + m) \in Seq(Int) /\ Len(Bytes(d + 1, d + m)) = m
           /\ Bytes(1, d) \o Bytes(d + 1, d + m) = Bytes(1, d + m)
           /\ Bytes(1, d + m) \in Seq(Int) /\ Len(Bytes(1, d + m)) = d + m
  <1> DEFINE a == d + 1  b == d + m
  <1>1. a \in Int /\ b \in Int /\ a <= b + 1 /\ b - a + 1 = m /\ d <= b /\ 1 <= d + 1 /\ 1 <= b + 1
        /\ b - 1 + 1 = b
    OBVIOUS
  <1> HIDE DEF a, b
  <1>2. Bytes(a, b) \in Seq(Int) /\ Len(Bytes(a, b)) = m
    BY <1>1, BytesInt
  <1>3. Bytes(1, d) \o Bytes(d + 1, b) = Bytes(1, b)
    <2> DEFINE f == 1
    <2>1. f \in Int /\ d \in Int /\ b \in Int /\ f <= d + 1 /\ d <= b
      BY <1>1
    <2> HIDE DEF f
    <2>2. Bytes(f, d) \o Bytes(d + 1, b) = Bytes(f, b)
      BY <2>1, BytesJoin
    <2> QED  BY <2>2 DEF f
  <1>4. Bytes(1, b) \in Seq(Int) /\ Len(Bytes(1, b)) = b
    BY <1>1, BytesInt
  <1> QED  BY <1>2, <1>3, <1>4 DEF a, b

\* A whole frame, coded by a Write.
LEMMA WholeFrame ==
    ASSUME IInv, call.at \in {"carry", "whole"},
           NEW o \in Emissions(Bytes(D + 1, D + FrameBytes), FrameSize), Emit(o, FrameSize)
    PROVE  /\ enc'.final = FALSE
           /\ D' = (IF o.err = "none" THEN D + FrameBytes ELSE D) /\ enc'.durable = Bytes(1, D')
           /\ e'.streamErr = "none" =>
                 /\ D' = Len(enc'.frames) * FrameBytes
                 /\ e'.samplesIn = Len(enc'.frames) * FrameSize
                 /\ \A k \in DOMAIN enc'.frames : enc'.frames[k] = FullFrame(k)
                 /\ Holds(sinks'[e'.w], Lead', enc'.sent)
  <1> DEFINE chunk == Bytes(D + 1, D + FrameBytes)
             F == Len(enc.frames)
  <1>1. FrameSize \in Nat \ {0} /\ FrameBytes \in Nat \ {0} /\ D \in Nat /\ F \in Nat
    BY Sizes, OfEnc
  <1>2. /\ chunk \in Seq(Int) /\ Len(chunk) = FrameBytes
        /\ Bytes(1, D) \o chunk = Bytes(1, D + FrameBytes)
        /\ Len(Bytes(1, D + FrameBytes)) = D + FrameBytes
    BY <1>1, NextFrame
  <1> HIDE DEF chunk
  <1>3. /\ o.err \in {"none", "sink"}
        /\ e'.w = e.w /\ e'.samplesIn = e.samplesIn + FrameSize
        /\ e'.streamErr = (IF o.err = "none" THEN e.streamErr ELSE "sink")
        /\ enc'.frames = Append(enc.frames, [bytes |-> chunk, ok |-> o.err = "none"])
        /\ enc'.durable = (IF o.err = "none" THEN enc.durable \o chunk ELSE enc.durable)
        /\ enc'.final = (FrameSize < FrameSize)
        /\ o.err = "none" /\ Holds(sinks[e.w], Lead, enc.sent) => Holds(sinks'[e.w], Lead', enc'.sent)
    BY <1>1, <1>2, EmitStep DEF chunk
  <1>4. enc'.final = FALSE
    <2>1. (FrameSize < FrameSize) = FALSE
      BY <1>1
    <2> QED  BY <1>3, <2>1, Zenon
  <1>5. enc.durable = Bytes(1, D)
    BY DEF IInv, Reported
  <1>6. D' = (IF o.err = "none" THEN D + FrameBytes ELSE D) /\ enc'.durable = Bytes(1, D')
    <2>1. D' = Len(enc'.durable)
      BY DEF D
    <2>2. CASE o.err = "none"
      <3>1. enc'.durable = Bytes(1, D + FrameBytes)
        BY <1>2, <1>3, <1>5, <2>2
      <3> QED  BY <1>2, <2>1, <2>2, <3>1
    <2>3. CASE o.err # "none"
      <3>1. enc'.durable = enc.durable
        BY <1>3, <2>3
      <3>2. D' = D
        BY <2>1, <3>1 DEF D
      <3> QED  BY <1>5, <2>3, <3>1, <3>2
    <2> QED  BY <2>2, <2>3
  <1>7. ASSUME e'.streamErr = "none"
        PROVE  /\ D' = Len(enc'.frames) * FrameBytes
               /\ e'.samplesIn = Len(enc'.frames) * FrameSize
               /\ \A k \in DOMAIN enc'.frames : enc'.frames[k] = FullFrame(k)
               /\ Holds(sinks'[e'.w], Lead', enc'.sent)
    <2>1. o.err = "none" /\ e.streamErr = "none"
      BY <1>3, <1>7
    <2>2. Running /\ e.w # NoSink
      BY DEF IInv, Phases, Running
    <2>3. /\ D = F * FrameBytes /\ e.samplesIn = F * FrameSize
          /\ \A k \in DOMAIN enc.frames : enc.frames[k] = FullFrame(k)
          /\ Holds(sinks[e.w], Lead, enc.sent)
      BY <2>1, <2>2 DEF IInv, Sound
    <2> DEFINE g == [bytes |-> chunk, ok |-> TRUE]
    <2>4. enc.frames \in Seq(FrameType) /\ g \in FrameType /\ enc'.frames = Append(enc.frames, g)
      BY <1>2, <1>3, <2>1, OfEnc DEF FrameType
    <2> HIDE DEF g
    <2>5. /\ Append(enc.frames, g) \in Seq(FrameType) /\ Len(Append(enc.frames, g)) = F + 1
          /\ \A k \in 1..F : Append(enc.frames, g)[k] = enc.frames[k]
          /\ Append(enc.frames, g)[F + 1] = g
      BY <2>4, AppendProperties
    <2>6. Len(enc'.frames) = F + 1 /\ DOMAIN enc'.frames = 1..F + 1 /\ DOMAIN enc.frames = 1..F
      BY <2>4, <2>5, LenProperties
    <2> HIDE DEF F
    <2>7. (F + 1) * FrameBytes = F * FrameBytes + FrameBytes /\ (F + 1) * FrameSize = F * FrameSize + FrameSize
          /\ (F + 1) - 1 = F
      BY <1>1
    <2>8. g = FullFrame(F + 1)
      BY <2>3, <2>7 DEF g, chunk, FullFrame
    <2>9. ASSUME NEW k \in DOMAIN enc'.frames PROVE enc'.frames[k] = FullFrame(k)
      <3>1. k \in 1..F \/ k = F + 1
        BY <1>1, <2>6
      <3> QED  BY <2>3, <2>4, <2>5, <2>6, <2>8, <3>1
    <2>10. D' = (F + 1) * FrameBytes /\ e'.samplesIn = (F + 1) * FrameSize
      BY <1>3, <1>6, <2>1, <2>3, <2>7
    <2>11. Holds(sinks'[e'.w], Lead', enc'.sent)
      BY <1>3, <2>1, <2>3
    <2> QED  BY <2>6, <2>9, <2>10, <2>11
  <1> QED  BY <1>4, <1>6, <1>7

\* While a call is in progress, or an attached encoder open, the last result
\* promises nothing.
LEMMA NoPromise ==
    ASSUME IInv, e.w # NoSink, ~e.closed \/ call.at # "idle"
    PROVE  /\ ret.op # "close" /\ ~(ret.op = "oneShot" /\ ret.err \in {"none", "canceled"})
           /\ job.at # "body"
  BY DEF IInv, Phases, Idle

-----------------------------------------------------------------------------
(***************************************************************************)
(* Write.                                                                  *)
(***************************************************************************)
\* A sink that still holds the placeholder holds no tag.
LEMMA StillPlaceholder ==
    ASSUME e'.seeker # NoSink => e'.tagOff = 1 /\ sinks'[e'.seeker].file[2] = Placeholder
    PROVE  TagOnlyOverHealthy'
  <1>1. e'.seeker # NoSink => sinks'[e'.seeker].file[e'.tagOff + 1] = Placeholder
    BY DEF Placeholder
  <1> QED  BY <1>1 DEF TagOnlyOverHealthy

LEMMA IdleCallType == IdleCall \in CallType
  BY EmptySeq DEF IdleCall, CallType, Errors

LEMMA WriteEmits ==
    ASSUME IInv, call.at \in {"carry", "whole"},
           NEW o \in Emissions(Bytes(D + 1, D + FrameBytes), FrameSize), Emit(o, FrameSize),
           UNCHANGED <<job, streams>>,
           call' \in CallType, ret' \in RetType, next' \in 1..MaxBytes + 1, Reported',
           \/ o.err = "none" /\ call'.at = "whole" /\ call'.err = "none" /\ UNCHANGED ret
           \/ call' = IdleCall /\ ret'.op = "write"
    PROVE  IInv'
  <1>1. Bytes(D + 1, D + FrameBytes) \in Seq(Int) /\ FrameSize \in Nat
    BY Sizes, OfEnc, NextFrame
  <1>2. /\ o.err \in {"none", "sink"}
        /\ e' \in EType /\ enc' \in EncType /\ sinks' \in [0..MaxStreams -> SinkType]
        /\ faults' \in Nat
        /\ e'.closed = e.closed /\ e'.w = e.w /\ e'.seeker = e.seeker /\ e'.tagOff = e.tagOff
        /\ e'.carry = (IF o.err = "none" THEN <<>> ELSE e.carry)
        /\ enc'.drained = FALSE /\ enc'.sent <= FramesOf(enc')
        /\ \A k \in 0..MaxStreams : sinks'[k].pos <= Len(sinks'[k].file)
        /\ \A k \in 0..MaxStreams : k # e.w => sinks'[k] = sinks[k]
        /\ sinks'[e.w].seekable = sinks[e.w].seekable
        /\ e.seeker # NoSink =>
              /\ Len(sinks'[e.seeker].file) >= 2 /\ sinks'[e.seeker].pos >= 2
              /\ sinks'[e.seeker].file[2] = Placeholder
    BY <1>1, EmitStep
  <1>3. /\ enc'.final = FALSE
        /\ e'.streamErr = "none" =>
              /\ D' = Len(enc'.frames) * FrameBytes
              /\ e'.samplesIn = Len(enc'.frames) * FrameSize
              /\ \A k \in DOMAIN enc'.frames : enc'.frames[k] = FullFrame(k)
              /\ Holds(sinks'[e'.w], Lead', enc'.sent)
    BY WholeFrame
  <1>4. /\ ~e.closed /\ e.w # NoSink /\ job.at \in {"off", "write"} /\ job' = job /\ streams' = streams
        /\ ret.op # "close" /\ ~(ret.op = "oneShot" /\ ret.err \in {"none", "canceled"})
    <2>1. ~e.closed /\ e.w # NoSink /\ job.at \notin {"closed", "body"} /\ UNCHANGED <<job, streams>>
      BY DEF IInv, Phases
    <2>2. job.at \in {"off", "write", "closed", "body"}
      BY DEF IInv, Types, JobType
    <2> QED  BY <2>1, <2>2, NoPromise
  <1>5. call'.at \in {"idle", "whole"} /\ call'.err = "none" /\ (call'.at = "idle" => call' = IdleCall)
    BY DEF IdleCall
  <1>6. ret'.op # "close" /\ ~(ret'.op = "oneShot" /\ ret'.err \in {"none", "canceled"})
    BY <1>4
  <1>7. Types'
    BY <1>2, <1>4 DEF IInv, Types
  <1>8. TypeOK'
    <2>1. /\ e'.closed \in BOOLEAN /\ {e'.w, e'.seeker} \subseteq NoSink..MaxStreams
          /\ e'.carry \in Seq(1..MaxBytes) /\ e'.streamErr \in Errors
          /\ ret'.err \in Errors /\ call'.err \in Errors /\ DOMAIN sinks' = 0..MaxStreams
      BY <1>2 DEF EType, CallType, RetType
    <2>2. Len(e'.carry) < FrameBytes
      BY <1>2, OfE, Sizes, EmptySeq
    <2> QED  BY <1>2, <2>1, <2>2 DEF TypeOK
  <1>9. Phases'
    BY <1>2, <1>3, <1>4, <1>5, <1>6 DEF Phases, Running
  <1>10. Attached'
    <2>1. e.w \in 0..MaxStreams /\ streams \in 0..MaxStreams
      <3>1. e.w \in NoSink..MaxStreams /\ streams \in 0..MaxStreams
        BY OfE, OfCall
      <3>2. MaxStreams \in Nat /\ NoSink = -1 /\ e.w # NoSink
        BY <1>4, Sizes DEF NoSink
      <3> QED  BY <3>1, <3>2
    <2>2. Attached
      BY DEF IInv
    <2>3. job.at # "off" /\ job.tagged => streams # e.w
      BY <1>4, <2>2, <2>1 DEF Attached, Body
    <2>4. sinks'[e'.w].seekable = sinks[e.w].seekable
      BY <1>2
    <2>5. e.seeker # NoSink => e.seeker = e.w
      BY <1>4, <2>2, <2>1 DEF Attached, Body
    <2> QED  BY <1>2, <1>4, <2>1, <2>2, <2>3, <2>4, <2>5 DEF Attached
  <1>11. Sound'
    BY <1>2, <1>3, <1>4, <1>5 DEF Sound
  <1>12. Reserved'
    BY <1>2 DEF Reserved
  <1>13. TagOnlyOverHealthy'
    <2>1. e'.seeker # NoSink => e'.tagOff = 1 /\ sinks'[e'.seeker].file[2] = Placeholder
      BY <1>2 DEF IInv, Attached
    <2> QED  BY <2>1, StillPlaceholder
  <1>14. ReturnMeansSink'
    BY <1>6 DEF ReturnMeansSink
  <1> QED  BY <1>7, <1>8, <1>9, <1>10, <1>11, <1>12, <1>13, <1>14 DEF IInv

\* Runs of the caller's bytes are sequences of them.
LEMMA BytesOfInput ==
    ASSUME NEW a \in Nat \ {0}, NEW b \in Int, b <= MaxBytes
    PROVE  Bytes(a, b) \in Seq(1..MaxBytes)
  <1>1. a..b \subseteq 1..MaxBytes /\ a \in Int
    BY Sizes
  <1> QED  BY <1>1, BytesFacts

\* A run of n bytes, cut behind its first m.
LEMMA SplitRun ==
    ASSUME NEW f \in Nat, NEW n \in Nat, NEW m \in 0..n
    PROVE  LET run == Bytes(f, f + n - 1)
           IN  /\ Len(run) = n
               /\ SubSeq(run, 1, m) = Bytes(f, f + m - 1)
               /\ SubSeq(run, m + 1, Len(run)) = Bytes(f + m, f + n - 1)
  <1> DEFINE b == f + n - 1
  <1>1. b \in Int /\ f \in Int /\ n \in Int /\ m \in Int /\ f <= b + 1 /\ n = b - f + 1
    OBVIOUS
  <1> HIDE DEF b
  <1>2. Len(Bytes(f, b)) = n
    BY <1>1, BytesInt
  <1>3. Piece(f, b, 1, m) = Bytes(f, f + m - 1) /\ Piece(f, b, m + 1, n) = Bytes(f + m, f + n - 1)
    BY <1>1, BytesCut
  <1> QED  BY <1>2, <1>3 DEF Piece, b

LEMMA EmitCarryInv == IInv /\ EmitCarry => IInv'
  <1> SUFFICES ASSUME IInv, EmitCarry PROVE IInv'
    OBVIOUS
  <1> DEFINE need == FrameBytes - Len(e.carry)
             c == Len(e.carry)
             N == call.n
             rest == SubSeq(call.p, need + 1, Len(call.p))
  <1>1. /\ call.at = "carry" /\ UNCHANGED <<job, streams>>
        /\ e.carry = Bytes(D + 1, next - 1) /\ D <= next - 1 /\ enc.durable = Bytes(1, D)
        /\ e.carry # <<>> /\ c + N >= FrameBytes /\ call.written = 0
        /\ call.p = Bytes(next, next + N - 1) /\ next - 1 + N + Todo <= MaxBytes
    BY DEF EmitCarry, IInv, Reported, Phases, Running
  <1>2. /\ FrameBytes \in Nat \ {0} /\ D \in Nat /\ next \in Nat \ {0} /\ N \in Nat
        /\ c \in Nat /\ c < FrameBytes /\ MaxBytes \in Nat /\ Todo \in Nat
    <2>1. FrameBytes \in Nat \ {0} /\ MaxBytes \in Nat
      BY Sizes
    <2>2. next \in 1..MaxBytes + 1 /\ N \in Nat /\ job.todo \in Nat
      BY OfCall
    <2>3. c \in Nat /\ c < FrameBytes /\ D \in Nat
      BY OfE, OfEnc
    <2>4. Todo \in Nat
      BY <2>2 DEF Todo
    <2> QED  BY <2>1, <2>2, <2>3, <2>4
  <1>3. PICK o \in Emissions(e.carry \o SubSeq(call.p, 1, need), FrameSize) :
            /\ Emit(o, FrameSize)
            /\ IF o.err # "none" THEN WriteReturns(0, o.err)
               ELSE /\ call' = [call EXCEPT !.at = "whole", !.written = need, !.p = rest]
                    /\ UNCHANGED <<ret, next>>
    BY DEF EmitCarry, Taken
  <1>4. c = next - 1 - D /\ need \in 1..N /\ D + FrameBytes = next + need - 1
    <2>1. D + 1 \in Int /\ next - 1 \in Int /\ D + 1 <= next - 1 + 1 /\ (next - 1) - (D + 1) + 1 = next - 1 - D
      BY <1>1, <1>2
    <2>2. Len(Bytes(D + 1, next - 1)) = next - 1 - D
      <3> DEFINE a == D + 1  b == next - 1
      <3> HIDE DEF a, b
      <3>1. Len(Bytes(a, b)) = b - a + 1
        BY <2>1, BytesInt DEF a, b
      <3> QED  BY <2>1, <3>1 DEF a, b
    <2>3. c = next - 1 - D
      BY <1>1, <2>2
    <2>4. need = FrameBytes - c /\ c # 0
      BY <1>1, OfE, EmptySeq
    <2> DEFINE F == FrameBytes
    <2> HIDE DEF c, need, N, F
    <2>5. F \in Nat /\ c \in Nat /\ N \in Nat /\ next \in Nat /\ D \in Nat /\ c < F /\ c + N >= F
          /\ need = F - c /\ c # 0
      BY <1>1, <1>2, <2>4 DEF F
    <2>6. need \in 1..N
      BY <2>5
    <2>7. D + F = next + need - 1
      BY <2>3, <2>5
    <2> QED  BY <2>3, <2>6, <2>7 DEF F
  <1> HIDE DEF c, need
  <1>5. SubSeq(call.p, 1, need) = Bytes(next, next + need - 1)
        /\ rest = Bytes(next + need, next + N - 1)
    <2>1. next \in Nat /\ N \in Nat /\ need \in 0..N
      BY <1>2, <1>4
    <2> HIDE DEF N
    <2>2. /\ SubSeq(Bytes(next, next + N - 1), 1, need) = Bytes(next, next + need - 1)
          /\ SubSeq(Bytes(next, next + N - 1), need + 1, Len(Bytes(next, next + N - 1)))
                = Bytes(next + need, next + N - 1)
      BY <2>1, SplitRun
    <2> QED  BY <1>1, <2>2
  <1>6. e.carry \o SubSeq(call.p, 1, need) = Bytes(D + 1, D + FrameBytes)
    <2> DEFINE a == D + 1  b == next - 1  f == next + need - 1
    <2>1. a \in Int /\ b \in Int /\ f \in Int /\ a <= b + 1 /\ b <= f /\ b + 1 = next /\ f = D + FrameBytes
      BY <1>1, <1>2, <1>4
    <2>2. e.carry = Bytes(a, b) /\ SubSeq(call.p, 1, need) = Bytes(next, f)
      BY <1>1, <1>5
    <2> HIDE DEF a, b, f
    <2>3. Bytes(a, b) \o Bytes(b + 1, f) = Bytes(a, f)
      BY <2>1, BytesJoin
    <2> QED  BY <2>1, <2>2, <2>3 DEF a
  <1>7. o \in Emissions(Bytes(D + 1, D + FrameBytes), FrameSize)
    BY <1>3, <1>6
  <1>8. /\ D' = (IF o.err = "none" THEN D + FrameBytes ELSE D) /\ enc'.durable = Bytes(1, D')
    BY <1>1, <1>3, <1>7, WholeFrame
  <1>9. Bytes(D + 1, D + FrameBytes) \in Seq(Int) /\ FrameSize \in Nat
    BY <1>2, NextFrame, Sizes
  <1>10. /\ e'.carry = (IF o.err = "none" THEN <<>> ELSE e.carry) /\ e'.closed = e.closed
         /\ o.err \in {"none", "sink"}
    BY <1>1, <1>3, <1>7, <1>9, EmitStep
  <1>11. ~e.closed /\ call.err = "none"
    BY <1>1 DEF IInv, Phases
  <1>12. CASE o.err = "none"
    <2>1. call' = [call EXCEPT !.at = "whole", !.written = need, !.p = rest] /\ UNCHANGED <<ret, next>>
      BY <1>3, <1>12
    <2>2. rest \in Seq(1..MaxBytes)
      <3>1. next + need \in Nat \ {0} /\ next + N - 1 \in Int /\ next + N - 1 <= MaxBytes
        <4> DEFINE t == Todo
        <4>1. next - 1 + N + t <= MaxBytes /\ t \in Nat /\ next \in Nat \ {0} /\ N \in Nat /\ MaxBytes \in Nat
              /\ need \in 1..N
          BY <1>1, <1>2, <1>4
        <4> HIDE DEF t, N
        <4> QED  BY <4>1
      <3> HIDE DEF rest
      <3> QED  BY <1>5, <3>1, BytesOfInput
    <2> HIDE DEF rest
    <2>3. /\ call' \in CallType /\ call'.at = "whole" /\ call'.written = need /\ call'.p = rest
          /\ call'.n = N /\ call'.err = "none"
      <3>1. call \in CallType /\ need \in Nat
        BY <1>2, <1>4 DEF IInv, Types
      <3> QED  BY <1>11, <2>1, <2>2, <3>1 DEF CallType
    <2>4. ret' \in RetType /\ next' \in 1..MaxBytes + 1 /\ next' = next
      BY <2>1, OfCall DEF IInv, Types
    <2>5. D' = next - 1 + need /\ next + need = D' + 1
      BY <1>2, <1>4, <1>8, <1>12
    <2>6. call'.p = Bytes(D' + 1, next + N - 1)
      BY <1>5, <2>3, <2>5
    <2>7. Reported'
      <3>1. Todo' = Todo
        BY <1>1 DEF Todo
      <3>2. call'.n = N /\ call'.at = "whole" /\ e'.carry = <<>> /\ enc'.durable = Bytes(1, D')
        BY <1>8, <1>10, <1>12, <2>3
      <3>3. D' = next - 1 + call'.written /\ call'.written <= N
        BY <1>2, <1>4, <1>8, <1>12, <2>3, <2>5
      <3>4. next - 1 + N + Todo' <= MaxBytes /\ next' = next
        BY <1>1, <2>1, <3>1
      <3> QED  BY <2>6, <3>2, <3>3, <3>4 DEF Reported
    <2> QED  BY <1>1, <1>3, <1>7, <1>12, <2>1, <2>3, <2>4, <2>7, WriteEmits
  <1>13. CASE o.err # "none"
    <2>1. call' = IdleCall /\ ret' = Ret("write", 0, o.err) /\ next' = next + 0
      BY <1>3, <1>13 DEF WriteReturns
    <2>2. ret' \in RetType /\ ret'.op = "write" /\ next' = next /\ next' \in 1..MaxBytes + 1
      BY <1>10, <2>1, OfCall DEF Ret, RetType, Errors
    <2>3. call' \in CallType /\ call'.at = "idle" /\ call'.n = 0
      BY <2>1, IdleCallType DEF IdleCall
    <2>4. Reported'
      <3>1. Todo' = Todo /\ D' = D
        BY <1>1, <1>8, <1>13 DEF Todo
      <3>2. next' - 1 + call'.n + Todo' <= MaxBytes
        <4>1. next' - 1 + call'.n + Todo' = next - 1 + 0 + Todo
          BY <2>2, <2>3, <3>1
        <4>2. next - 1 + N + Todo <= MaxBytes
          BY <1>1
        <4> HIDE DEF N
        <4> QED  BY <1>2, <4>1, <4>2
      <3> QED  BY <1>1, <1>8, <1>10, <1>13, <2>2, <2>3, <3>1, <3>2 DEF Reported
    <2> QED  BY <1>1, <1>3, <1>7, <2>1, <2>2, <2>3, <2>4, WriteEmits
  <1> QED  BY <1>12, <1>13

LEMMA EmitWholeInv == IInv /\ EmitWhole => IInv'
  <1> SUFFICES ASSUME IInv, EmitWhole PROVE IInv'
    OBVIOUS
  <1> DEFINE N == call.n
             left == N - call.written
             rest == SubSeq(call.p, FrameBytes + 1, Len(call.p))
  <1>1. /\ call.at = "whole" /\ Len(call.p) >= FrameBytes /\ UNCHANGED <<job, streams>>
        /\ e.carry = <<>> /\ D = next - 1 + call.written /\ call.written <= N
        /\ enc.durable = Bytes(1, D)
        /\ call.p = Bytes(D + 1, next + N - 1) /\ next - 1 + N + Todo <= MaxBytes
    BY DEF EmitWhole, IInv, Reported
  <1>2. /\ FrameBytes \in Nat \ {0} /\ D \in Nat /\ next \in Nat \ {0} /\ N \in Nat
        /\ MaxBytes \in Nat /\ Todo \in Nat /\ call.written \in Nat
    <2>1. FrameBytes \in Nat \ {0} /\ MaxBytes \in Nat
      BY Sizes
    <2>2. next \in 1..MaxBytes + 1 /\ N \in Nat /\ job.todo \in Nat /\ call.written \in Nat
      BY OfCall
    <2>3. D \in Nat
      BY OfEnc
    <2>4. Todo \in Nat
      BY <2>2 DEF Todo
    <2> QED  BY <2>1, <2>2, <2>3, <2>4
  <1>3. PICK o \in Emissions(SubSeq(call.p, 1, FrameBytes), FrameSize) :
            /\ Emit(o, FrameSize)
            /\ IF o.err # "none" THEN WriteReturns(call.written, o.err)
               ELSE /\ call' = [call EXCEPT !.written = @ + FrameBytes, !.p = rest]
                    /\ UNCHANGED <<ret, next>>
    BY DEF EmitWhole
  <1> DEFINE W == call.written
  <1>num. /\ D = next - 1 + W /\ W <= N /\ next - 1 + N + Todo <= MaxBytes
    BY <1>1
  <1> HIDE DEF N, W
  <1>4. left \in Nat /\ call.p = Bytes(D + 1, (D + 1) + left - 1) /\ D + 1 \in Nat
        /\ (D + 1) + left - 1 = next + N - 1
    <2>1. left = N - W
      BY DEF W
    <2>2. W \in Nat
      BY <1>2 DEF W
    <2>3. left \in Nat /\ D + 1 \in Nat /\ (D + 1) + left - 1 = next + N - 1
      BY <1>2, <1>num, <2>1, <2>2
    <2> QED  BY <1>1, <2>3 DEF N
  <1> HIDE DEF left
  <1>5. Len(call.p) = left /\ FrameBytes \in 0..left
    <2>1. 0 \in 0..left
      BY <1>4
    <2>2. Len(call.p) = left
      <3> DEFINE f == D + 1
      <3>1. f \in Nat /\ left \in Nat /\ call.p = Bytes(f, f + left - 1) /\ 0 \in 0..left
        BY <1>4, <2>1
      <3> HIDE DEF f
      <3> QED  BY <3>1, SplitRun
    <2> QED  BY <1>1, <1>2, <1>4, <2>2
  <1>6. SubSeq(call.p, 1, FrameBytes) = Bytes(D + 1, D + FrameBytes)
        /\ rest = Bytes(D + FrameBytes + 1, next + N - 1)
    <2> DEFINE f == D + 1
    <2>1. f + FrameBytes - 1 = D + FrameBytes /\ f + FrameBytes = D + FrameBytes + 1
      BY <1>2
    <2>2. f \in Nat /\ call.p = Bytes(f, f + left - 1) /\ f + left - 1 = next + N - 1
      BY <1>4
    <2> HIDE DEF f
    <2>3. LET run == Bytes(f, f + left - 1)
          IN  /\ SubSeq(run, 1, FrameBytes) = Bytes(f, f + FrameBytes - 1)
              /\ SubSeq(run, FrameBytes + 1, Len(run)) = Bytes(f + FrameBytes, f + left - 1)
      BY <1>4, <1>5, <2>2, SplitRun
    <2> QED  BY <2>1, <2>2, <2>3 DEF f
  <1>7. o \in Emissions(Bytes(D + 1, D + FrameBytes), FrameSize)
    BY <1>3, <1>6
  <1>8. /\ D' = (IF o.err = "none" THEN D + FrameBytes ELSE D) /\ enc'.durable = Bytes(1, D')
    BY <1>1, <1>3, <1>7, WholeFrame
  <1>9. Bytes(D + 1, D + FrameBytes) \in Seq(Int) /\ FrameSize \in Nat
    BY <1>2, NextFrame, Sizes
  <1>10. /\ e'.carry = <<>> /\ e'.closed = e.closed /\ o.err \in {"none", "sink"}
    BY <1>1, <1>3, <1>7, <1>9, EmitStep
  <1>11. ~e.closed /\ call.err = "none"
    BY <1>1 DEF IInv, Phases
  <1>12. CASE o.err = "none"
    <2>1. call' = [call EXCEPT !.written = @ + FrameBytes, !.p = rest] /\ UNCHANGED <<ret, next>>
      BY <1>3, <1>12
    <2>2. rest \in Seq(1..MaxBytes)
      <3>1. D + FrameBytes + 1 \in Nat \ {0} /\ next + N - 1 \in Int /\ next + N - 1 <= MaxBytes
        BY <1>2, <1>num
      <3> HIDE DEF rest
      <3> QED  BY <1>6, <3>1, BytesOfInput
    <2> HIDE DEF rest
    <2>3. /\ call' \in CallType /\ call'.at = "whole" /\ call'.written = call.written + FrameBytes
          /\ call'.p = rest /\ call'.n = N /\ call'.err = "none"
      <3>1. call \in CallType /\ call.written + FrameBytes \in Nat
        BY <1>2 DEF IInv, Types
      <3> QED  BY <1>1, <1>11, <2>1, <2>2, <3>1 DEF CallType, N
    <2>4. ret' \in RetType /\ next' \in 1..MaxBytes + 1 /\ next' = next
      BY <2>1, OfCall DEF IInv, Types
    <2>5. D' = next - 1 + call'.written /\ D' = D + FrameBytes /\ call'.written <= N
      <3>1. call'.written = W + FrameBytes /\ D' = D + FrameBytes
        BY <1>8, <1>12, <2>3 DEF W
      <3>2. left = N - W /\ FrameBytes <= left /\ W \in Nat
        BY <1>2, <1>5 DEF left, W
      <3> QED  BY <1>2, <1>num, <3>1, <3>2
    <2>6. call'.p = Bytes(D' + 1, next + N - 1)
      BY <1>6, <2>3, <2>5
    <2>7. Reported'
      <3>1. Todo' = Todo
        BY <1>1 DEF Todo
      <3> QED  BY <1>1, <1>2, <1>8, <1>10, <2>3, <2>4, <2>5, <2>6, <3>1 DEF Reported
    <2> QED  BY <1>1, <1>3, <1>7, <1>12, <2>1, <2>3, <2>4, <2>7, WriteEmits
  <1>13. CASE o.err # "none"
    <2>1. call' = IdleCall /\ ret' = Ret("write", call.written, o.err) /\ next' = next + call.written
      BY <1>3, <1>13 DEF WriteReturns
    <2>2. /\ ret' \in RetType /\ ret'.op = "write" /\ next' = D + 1 /\ next' \in 1..MaxBytes + 1
      <3>1. ret' \in RetType /\ ret'.op = "write"
        BY <1>2, <1>10, <2>1 DEF Ret, RetType, Errors
      <3>2. next' = next + W /\ W \in Nat
        BY <1>2, <2>1 DEF W
      <3>3. next' = D + 1 /\ next' \in 1..MaxBytes + 1
        BY <1>2, <1>num, <3>2
      <3> QED  BY <3>1, <3>3
    <2>3. call' \in CallType /\ call'.at = "idle" /\ call'.n = 0
      BY <2>1, IdleCallType DEF IdleCall
    <2>4. Reported'
      <3>1. Todo' = Todo /\ D' = D
        BY <1>1, <1>8, <1>13 DEF Todo
      <3>2. next' - 1 + call'.n + Todo' <= MaxBytes
        <4>2. W \in Nat
          BY <1>2 DEF W
        <4>1. next' - 1 + call'.n + Todo' = D + Todo
          BY <1>2, <2>2, <2>3, <3>1
        <4> QED  BY <1>2, <1>num, <4>1, <4>2
      <3>3. e'.carry = Bytes(D' + 1, next' - 1) /\ D' <= next' - 1
        <4>1. D + 1 \in Int /\ next' - 1 \in Int /\ next' - 1 < D + 1
          BY <1>2, <2>2
        <4> QED  BY <1>2, <1>10, <2>2, <3>1, <4>1, BytesEmpty
      <3> QED  BY <1>8, <2>3, <3>2, <3>3 DEF Reported
    <2> QED  BY <1>1, <1>3, <1>7, <2>1, <2>2, <2>3, <2>4, WriteEmits
  <1> QED  BY <1>12, <1>13

\* A step of Write that codes nothing: what is kept, and where the call goes.
LEMMA WriteKeeps ==
    ASSUME IInv, e.w # NoSink, ~e.closed, UNCHANGED <<enc, sinks, streams, faults>>,
           e' \in EType, e' = [e EXCEPT !.carry = e'.carry], Len(e'.carry) < FrameBytes,
           call' \in CallType, ret' \in RetType, next' \in 1..MaxBytes + 1, Reported',
           \/ UNCHANGED job
           \/ job.at = "write" /\ job'.at = "write" /\ job'.tagged = job.tagged /\ job' \in JobType,
           \/ call'.at \in {"carry", "whole"} /\ call'.err = "none" /\ UNCHANGED ret
           \/ call' = IdleCall /\ ret'.op = "write"
    PROVE  IInv'
  <1>1. /\ e \in EType /\ e'.closed = e.closed /\ e'.w = e.w /\ e'.seeker = e.seeker /\ e'.tagOff = e.tagOff
        /\ e'.samplesIn = e.samplesIn /\ e'.streamErr = e.streamErr
    <2>1. e \in EType
      BY OfE
    <2> QED  BY <2>1 DEF EType
  <1>2. /\ ret.op # "close" /\ ~(ret.op = "oneShot" /\ ret.err \in {"none", "canceled"})
        /\ job.at \in {"off", "write"} /\ job' \in JobType
    <2>1. job.at \notin {"closed", "body"}
      BY DEF IInv, Phases
    <2>2. job \in JobType
      BY DEF IInv, Types
    <2> QED  BY <2>1, <2>2, NoPromise DEF JobType
  <1>3. job'.at = job.at /\ job'.tagged = job.tagged
    OBVIOUS
  <1>4. /\ call'.at \in {"idle", "carry", "whole"} /\ call'.err = "none"
        /\ (call'.at = "idle" => call' = IdleCall)
    BY DEF IdleCall
  <1>5. ret'.op # "close" /\ ~(ret'.op = "oneShot" /\ ret'.err \in {"none", "canceled"})
    BY <1>2
  <1>6. ~enc.drained /\ ~enc.final
    BY DEF IInv, Phases, Running
  <1>7. Types'
    BY <1>2 DEF IInv, Types
  <1>8. TypeOK'
    <2>1. /\ e'.closed \in BOOLEAN /\ {e'.w, e'.seeker} \subseteq NoSink..MaxStreams
          /\ e'.carry \in Seq(1..MaxBytes) /\ e'.streamErr \in Errors
          /\ ret'.err \in Errors /\ call'.err \in Errors
      BY DEF EType, CallType, RetType
    <2> QED  BY <2>1 DEF IInv, TypeOK, FramesOf
  <1>9. Phases'
    BY <1>1, <1>2, <1>3, <1>4, <1>5, <1>6 DEF Phases, Running
  <1>10. Attached'
    BY <1>1, <1>2, <1>3 DEF IInv, Attached
  <1>11. Sound'
    <2>1. D' = D /\ Lead' = Lead
      BY <1>1 DEF D, Lead
    <2> QED  BY <1>1, <1>4, <1>5, <2>1 DEF IInv, Sound, Running
  <1>12. Reserved'
    BY <1>1 DEF IInv, Reserved
  <1>13. TagOnlyOverHealthy'
    BY <1>1 DEF IInv, TagOnlyOverHealthy, FramesOf
  <1>14. ReturnMeansSink'
    BY <1>5 DEF ReturnMeansSink
  <1> QED  BY <1>7, <1>8, <1>9, <1>10, <1>11, <1>12, <1>13, <1>14 DEF IInv

LEMMA StashInv == IInv /\ Stash => IInv'
  <1> SUFFICES ASSUME IInv, Stash PROVE IInv'
    OBVIOUS
  <1> DEFINE N == call.n
  <1>1. /\ call.at = "whole" /\ Len(call.p) < FrameBytes /\ UNCHANGED <<enc, sinks, job, streams, faults>>
        /\ e' = [e EXCEPT !.carry = call.p]
        /\ call' = IdleCall /\ ret' = Ret("write", N, "none") /\ next' = next + N
    BY DEF Stash, WriteReturns
  <1>2. /\ D = next - 1 + call.written /\ call.written <= N /\ next - 1 + N + Todo <= MaxBytes
        /\ call.p = Bytes(D + 1, next + N - 1) /\ enc.durable = Bytes(1, D)
    BY <1>1 DEF IInv, Reported
  <1>3. /\ N \in Nat /\ next \in 1..MaxBytes + 1 /\ call.written \in Nat /\ Todo \in Nat
        /\ MaxBytes \in Nat /\ D \in Nat /\ call.p \in Seq(1..MaxBytes)
    BY OfCall, OfEnc, Sizes DEF Todo
  <1>4. ~e.closed /\ e.w # NoSink /\ e \in EType
    BY <1>1, OfE DEF IInv, Phases
  <1>5. e' \in EType /\ e'.carry = call.p /\ e' = [e EXCEPT !.carry = e'.carry] /\ e'.closed = e.closed
    BY <1>1, <1>3, <1>4 DEF EType
  <1>6. call' \in CallType /\ call'.at = "idle" /\ call'.n = 0
    BY <1>1, IdleCallType DEF IdleCall
  <1>7. ret' \in RetType /\ ret'.op = "write"
    BY <1>1, <1>3 DEF Ret, RetType, Errors
  <1>8. D' = D /\ Todo' = Todo
    BY <1>1 DEF D, Todo
  <1>9. next' \in 1..MaxBytes + 1 /\ D <= next' - 1 /\ next' - 1 = next + N - 1
        /\ next' - 1 + 0 + Todo <= MaxBytes
    <2>1. next' = next + N
      BY <1>1
    <2>2. D = next - 1 + call.written /\ call.written <= N /\ next - 1 + N + Todo <= MaxBytes
      BY <1>2
    <2> HIDE DEF N
    <2> QED  BY <1>3, <2>1, <2>2
  <1>10. Reported'
    <2>1. e'.carry = Bytes(D' + 1, next' - 1)
      BY <1>2, <1>5, <1>8, <1>9
    <2> QED  BY <1>1, <1>2, <1>6, <1>8, <1>9, <2>1 DEF Reported
  <1> QED  BY <1>1, <1>4, <1>5, <1>6, <1>7, <1>9, <1>10, WriteKeeps

\* A call that only returns.
LEMMA OnlyRet ==
    ASSUME IInv, call.at = "idle", job.at = "off", UNCHANGED <<e, enc, sinks, call, job, next, streams, faults>>,
           ret' \in RetType, ret'.op # "close", ~(ret'.op = "oneShot" /\ ret'.err \in {"none", "canceled"})
    PROVE  IInv'
  <1>1. Types' /\ TypeOK'
    BY DEF IInv, Types, TypeOK, FramesOf, RetType
  <1>2. Phases'
    BY DEF IInv, Phases, Running
  <1>3. Attached'
    BY DEF IInv, Attached
  <1>4. Reported'
    BY DEF IInv, Reported, D, Todo, Running
  <1>5. Sound'
    <2>1. D' = D /\ Lead' = Lead /\ (Running <=> Running') /\ (Counted <=> Counted') /\ (Unfailed <=> Unfailed')
      BY DEF D, Lead, Running, Counted, Unfailed
    <2>2. \A k \in DOMAIN enc'.frames : FullFrame(k)' = FullFrame(k)
      BY DEF FullFrame
    <2>3. Holds(sinks[e.w], Lead, enc.sent)' <=> Holds(sinks[e.w], Lead, enc.sent)
      BY <2>1 DEF Holds
    <2>4. FramesOf(enc)' = FramesOf(enc)
      BY DEF FramesOf
    <2>5. Sound
      BY DEF IInv
    <2> QED  BY <2>1, <2>3, <2>4, <2>5 DEF Sound
  <1>6. Reserved' /\ TagOnlyOverHealthy'
    BY DEF IInv, Reserved, TagOnlyOverHealthy, FramesOf
  <1>7. ReturnMeansSink'
    BY DEF ReturnMeansSink
  <1> QED  BY <1>1, <1>2, <1>3, <1>4, <1>5, <1>6, <1>7 DEF IInv

LEMMA BeginWriteInv ==
    ASSUME IInv, NEW n \in Nat, BeginWrite(n), next - 1 + n + Todo' <= MaxBytes,
           e.closed => job.at = "off", ~e.closed => e.w # NoSink,
           \/ UNCHANGED job
           \/ job.at = "write" /\ job'.at = "write" /\ job'.tagged = job.tagged /\ job' \in JobType
    PROVE  IInv'
  <1> DEFINE p == Bytes(next, next + n - 1)
             c == Len(e.carry)
  <1>1. call.at = "idle" /\ call = IdleCall /\ UNCHANGED <<enc, sinks, streams, faults>>
    BY DEF BeginWrite, IInv, Phases
  <1>2. /\ next \in 1..MaxBytes + 1 /\ MaxBytes \in Nat /\ D \in Nat /\ c \in Nat
        /\ FrameBytes \in Nat \ {0} /\ e.carry \in Seq(1..MaxBytes) /\ e \in EType
    BY OfCall, OfEnc, OfE, Sizes
  <1>3. Todo' \in Nat
    <2>1. job' \in JobType
      <3>1. job \in JobType
        BY DEF IInv, Types
      <3> QED  BY <3>1
    <2> QED  BY <2>1 DEF Todo, JobType
  <1>4. next + n - 1 <= MaxBytes /\ next \in Nat \ {0} /\ next + n \in 1..MaxBytes + 1 /\ next + n - 1 \in Int
    <2>1. next \in 1..MaxBytes + 1 /\ MaxBytes \in Nat
      BY <1>2
    <2> DEFINE t == Todo'
    <2>2. next - 1 + n + t <= MaxBytes /\ t \in Nat
      BY <1>3
    <2> HIDE DEF t
    <2> QED  BY <2>1, <2>2
  <1>5. p \in Seq(1..MaxBytes)
    BY <1>4, BytesOfInput
  <1>6. Len(p) = n
    <2>1. 0 \in 0..n /\ next \in Nat
      BY <1>4
    <2> QED  BY <2>1, SplitRun
  <1> HIDE DEF p
  <1>7. CASE e.closed
    <2>1. ret' = Ret("write", 0, "closed") /\ UNCHANGED <<e, call, next>>
      BY <1>7 DEF BeginWrite
    <2>2. ret' \in RetType /\ ret'.op \notin {"close", "oneShot"}
      BY <2>1 DEF Ret, RetType, Errors
    <2>3. UNCHANGED job
      BY <1>7
    <2> QED  BY <1>1, <1>7, <2>1, <2>2, <2>3, OnlyRet
  <1>8. CASE ~e.closed
    <2>1. e.carry = Bytes(D + 1, next - 1) /\ D <= next - 1 /\ enc.durable = Bytes(1, D)
      BY <1>1, <1>8 DEF IInv, Reported, Running
    <2>2. CASE e.carry # <<>> /\ c + n < FrameBytes
      <3>1. /\ e' = [e EXCEPT !.carry = @ \o p] /\ ret' = Ret("write", n, "none")
            /\ next' = next + n /\ UNCHANGED call
        BY <1>8, <2>2 DEF BeginWrite, p
      <3>2. e.carry \o p \in Seq(1..MaxBytes) /\ Len(e.carry \o p) = c + n
        BY <1>2, <1>5, <1>6, ConcatProperties
      <3>3. /\ e' \in EType /\ e'.carry = e.carry \o p /\ e' = [e EXCEPT !.carry = e'.carry]
            /\ e'.closed = e.closed
        BY <1>2, <3>1, <3>2 DEF EType
      <3>4. ret' \in RetType /\ ret'.op = "write"
        BY <3>1 DEF Ret, RetType, Errors
      <3>5. call' = IdleCall /\ call' \in CallType /\ call'.at = "idle" /\ call'.n = 0
        BY <1>1, <3>1, IdleCallType DEF IdleCall
      <3>6. D' = D
        BY <1>1 DEF D
      <3>7. e.carry \o p = Bytes(D + 1, next + n - 1)
        <4> DEFINE a == D + 1  b == next - 1  f == next + n - 1
        <4>1. a \in Int /\ b \in Int /\ f \in Int /\ a <= b + 1 /\ b <= f /\ b + 1 = next
          BY <1>2, <2>1
        <4>2. e.carry = Bytes(a, b) /\ p = Bytes(next, f)
          BY <2>1 DEF p
        <4> HIDE DEF a, b, f
        <4>3. Bytes(a, b) \o Bytes(b + 1, f) = Bytes(a, f)
          BY <4>1, BytesJoin
        <4> QED  BY <4>1, <4>2, <4>3 DEF a, f
      <3>8. next' \in 1..MaxBytes + 1 /\ next' - 1 = next + n - 1 /\ D <= next' - 1
            /\ next' - 1 + 0 + Todo' <= MaxBytes
        <4>1. next' = next + n /\ D <= next - 1 /\ next - 1 + n + Todo' <= MaxBytes
          BY <2>1, <3>1
        <4>2. D \in Nat /\ MaxBytes \in Nat
          BY <1>2
        <4> DEFINE t == Todo'
        <4>3. next - 1 + n + t <= MaxBytes /\ t \in Nat
          BY <1>3
        <4>4. t = Todo'
          OBVIOUS
        <4> HIDE DEF t
        <4>5. next' - 1 + 0 + t <= MaxBytes /\ next' \in 1..MaxBytes + 1 /\ next' - 1 = next + n - 1 /\ D <= next' - 1
          BY <1>4, <4>1, <4>2, <4>3
        <4> QED  BY <4>4, <4>5
      <3>9. Reported'
        <4>1. e'.carry = Bytes(D' + 1, next' - 1)
          BY <3>3, <3>6, <3>7, <3>8
        <4> QED  BY <1>1, <2>1, <3>5, <3>6, <3>8, <4>1 DEF Reported
      <3>10. Len(e'.carry) < FrameBytes
        BY <2>2, <3>2, <3>3
      <3> QED  BY <1>1, <1>8, <3>3, <3>4, <3>5, <3>8, <3>9, <3>10, WriteKeeps
    <2>3. CASE ~(e.carry # <<>> /\ c + n < FrameBytes)
      <3> DEFINE at == IF e.carry # <<>> THEN "carry" ELSE "whole"
      <3>1. call' = [IdleCall EXCEPT !.at = at, !.p = p, !.n = n] /\ UNCHANGED <<e, ret, next>>
        BY <1>8, <2>3 DEF BeginWrite, p
      <3>2. /\ call' \in CallType /\ call'.at = at /\ call'.p = p /\ call'.n = n
            /\ call'.written = 0 /\ call'.err = "none"
        BY <1>5, <3>1 DEF IdleCall, CallType, Errors
      <3>3. D' = D /\ ret' \in RetType
        BY <1>1, <3>1 DEF D, IInv, Types
      <3>4. CASE e.carry # <<>>
        <4>1. call'.at = "carry" /\ c + n >= FrameBytes
          BY <1>2, <2>3, <3>2, <3>4
        <4>2. Reported'
          <5>1. next' = next /\ e'.carry = e.carry /\ enc'.durable = enc.durable
            BY <1>1, <3>1
          <5>2. Len(e'.carry) + call'.n >= FrameBytes
            BY <3>2, <4>1, <5>1
          <5>3. next' - 1 + call'.n + Todo' <= MaxBytes
            BY <3>2, <5>1
          <5>4. call'.p = Bytes(next', next' + call'.n - 1)
            BY <3>2, <5>1 DEF p
          <5> QED  BY <2>1, <3>2, <3>3, <3>4, <4>1, <5>1, <5>2, <5>3, <5>4 DEF Reported
        <4>3. e' \in EType /\ e' = [e EXCEPT !.carry = e'.carry] /\ Len(e'.carry) < FrameBytes
          BY <1>2, <3>1, OfE DEF EType
        <4> QED  BY <1>1, <1>2, <1>8, <3>1, <3>2, <3>3, <4>1, <4>2, <4>3, WriteKeeps
      <3>5. CASE e.carry = <<>>
        <4>1. call'.at = "whole"
          BY <3>2, <3>5
        <4>2. D = next - 1 + 0
          <5> DEFINE a == D + 1  b == next - 1
          <5>1. a \in Int /\ b \in Int /\ a <= b + 1 /\ D = a - 1 /\ next = b + 1
            BY <1>2, <2>1
          <5>2. Len(Bytes(a, b)) = 0
            BY <2>1, <3>5, EmptySeq
          <5> HIDE DEF a, b
          <5>3. Len(Bytes(a, b)) = b - a + 1
            BY <5>1, BytesInt
          <5> QED  BY <5>1, <5>2, <5>3
        <4>3. Reported'
          <5>1. call'.p = Bytes(D + 1, next + n - 1)
            <6>1. D + 1 = next
              BY <1>2, <4>2
            <6> QED  BY <3>2, <6>1 DEF p
          <5>2. next' = next /\ e'.carry = <<>> /\ enc'.durable = enc.durable
            BY <1>1, <3>1, <3>5
          <5>3. next' - 1 + call'.n + Todo' <= MaxBytes
            BY <3>2, <5>2
          <5>4. D' = next' - 1 + call'.written /\ call'.written <= call'.n
            BY <3>2, <3>3, <4>2, <5>2
          <5>5. call'.p = Bytes(D' + 1, next' + call'.n - 1)
            BY <3>2, <3>3, <5>1, <5>2
          <5> QED  BY <2>1, <3>3, <4>1, <5>2, <5>3, <5>4, <5>5 DEF Reported
        <4>4. e' \in EType /\ e' = [e EXCEPT !.carry = e'.carry] /\ Len(e'.carry) < FrameBytes
          BY <1>2, <3>1, OfE DEF EType
        <4> QED  BY <1>1, <1>2, <1>8, <3>1, <3>2, <3>3, <4>1, <4>3, <4>4, WriteKeeps
      <3> QED  BY <3>4, <3>5
    <2> QED  BY <2>2, <2>3
  <1> QED  BY <1>7, <1>8

LEMMA WriteInv ==
    ASSUME IInv, NEW n \in Chunks, Write(n)
    PROVE  IInv'
  <1>1. n \in Nat /\ MaxBytes \in Nat
    BY Sizes
  <1>2. /\ call.at = "idle" /\ job.at = "off" /\ (~e.closed => e.w # NoSink) /\ next + n - 1 <= MaxBytes
        /\ BeginWrite(n) /\ UNCHANGED job
    BY DEF Write, Idle, Pooled
  <1>3. Todo' = 0
    BY <1>2 DEF Todo
  <1>4. next - 1 + n + Todo' <= MaxBytes
    BY <1>1, <1>2, <1>3, OfCall
  <1> QED  BY <1>1, <1>2, <1>4, BeginWriteInv

LEMMA OneShotWriteInv == IInv /\ OneShotWrite => IInv'
  <1> SUFFICES ASSUME IInv, OneShotWrite PROVE IInv'
    OBVIOUS
  <1> DEFINE n == Least(job.todo, FrameBytes)
  <1>1. /\ job.at = "write" /\ BeginWrite(n) /\ job' = [job EXCEPT !.todo = @ - n] /\ call.at = "idle"
    BY DEF OneShotWrite
  <1>2. job \in JobType /\ job.todo \in Nat /\ FrameBytes \in Nat
    BY OfCall, Sizes DEF IInv, Types
  <1>3. n \in Nat /\ n <= job.todo
    BY <1>2 DEF Least
  <1>4. job' \in JobType /\ job'.at = "write" /\ job'.tagged = job.tagged /\ job'.todo = job.todo - n
    <2>1. job.todo - n \in Nat
      BY <1>2, <1>3
    <2> HIDE DEF n
    <2> QED  BY <1>1, <1>2, <2>1 DEF JobType
  <1>5. ~e.closed /\ e.w # NoSink /\ call = IdleCall
    BY <1>1 DEF IInv, Phases
  <1>6. next - 1 + 0 + job.todo <= MaxBytes
    BY <1>1, <1>5 DEF IInv, Reported, Todo, IdleCall
  <1>7. next - 1 + n + Todo' <= MaxBytes
    <2>1. Todo' = job.todo - n
      BY <1>4 DEF Todo
    <2>2. next \in Nat /\ MaxBytes \in Nat
      BY OfCall, Sizes
    <2> HIDE DEF n
    <2> QED  BY <1>2, <1>3, <1>6, <2>1, <2>2
  <1> QED  BY <1>1, <1>3, <1>4, <1>5, <1>7, BeginWriteInv

-----------------------------------------------------------------------------
(***************************************************************************)
(* Cutting the input into frames.                                          *)
(***************************************************************************)
LEMMA DivUnique ==
    ASSUME NEW a \in Nat, NEW b \in Nat \ {0}, NEW q \in Nat, NEW r \in Nat, r < b, a = q * b + r
    PROVE  a \div b = q
  <1> DEFINE z == a \div b  m == a % b
  <1>1. z \in Nat /\ m \in Nat /\ m < b /\ a = b * z + m
    BY SMTT(30)
  <1> HIDE DEF z, m
  <1>2. ~(z > q)
    <2> SUFFICES ASSUME z > q PROVE FALSE
      OBVIOUS
    <2>1. z - q - 1 \in Nat
      BY <1>1
    <2>2. b * (z - q - 1) \in Nat
      BY <2>1, SMTT(30)
    <2>3. b * (z - q - 1) = b * z - q * b - b
      BY <1>1, SMTT(30)
    <2>4. b * z \in Int /\ q * b \in Int
      BY <1>1, SMTT(30)
    <2> QED  BY <1>1, <2>2, <2>3, <2>4
  <1>3. ~(z < q)
    <2> SUFFICES ASSUME z < q PROVE FALSE
      OBVIOUS
    <2>1. q - z - 1 \in Nat
      BY <1>1
    <2>2. b * (q - z - 1) \in Nat
      BY <2>1, SMTT(30)
    <2>3. b * (q - z - 1) = q * b - b * z - b
      BY <1>1, SMTT(30)
    <2>4. b * z \in Int /\ q * b \in Int
      BY <1>1, SMTT(30)
    <2> QED  BY <1>1, <2>2, <2>3, <2>4
  <1>4. z = q
    BY <1>1, <1>2, <1>3
  <1> QED  BY <1>4 DEF z

\* f whole frames and c further bytes, a whole number of samples.
LEMMA Cut ==
    ASSUME NEW f \in Nat, NEW c \in Nat, c < FrameBytes, c % Stride = 0
    PROVE  LET n == f * FrameBytes + c
           IN  /\ c \div Stride \in Nat /\ c \div Stride < FrameSize
               /\ n \div Stride = f * FrameSize + c \div Stride
               /\ FramesFilled(n \div Stride) = IF c = 0 THEN f ELSE f + 1
  <1> DEFINE n == f * FrameBytes + c
             r == c \div Stride
  <1>1. FrameSize \in Nat \ {0} /\ Stride \in Nat \ {0} /\ FrameBytes = Stride * FrameSize
    BY Sizes DEF FrameBytes
  <1>2. r \in Nat /\ c = Stride * r
    BY <1>1, SMTT(30)
  <1> HIDE DEF r
  <1>3. r < FrameSize
    <2> SUFFICES ASSUME FrameSize <= r PROVE FALSE
      BY <1>1, <1>2
    <2>1. r - FrameSize \in Nat
      BY <1>1, <1>2
    <2>2. Stride * (r - FrameSize) \in Nat
      BY <1>1, <2>1, SMTT(30)
    <2>3. Stride * (r - FrameSize) = Stride * r - Stride * FrameSize
      BY <1>1, <1>2, SMTT(30)
    <2>4. Stride * r \in Int /\ Stride * FrameSize \in Int
      BY <1>1, <1>2, SMTT(30)
    <2> QED  BY <1>1, <1>2, <2>2, <2>3, <2>4
  <1>4. f * FrameSize \in Nat /\ f * FrameSize + r \in Nat
    BY <1>1, <1>2, SMTT(30)
  <1>5. n = (f * FrameSize + r) * Stride + 0 /\ n \in Nat
    <2>1. f * (Stride * FrameSize) = (f * FrameSize) * Stride
      BY <1>1, SMTT(30)
    <2> DEFINE x == f * FrameSize
    <2>2. x \in Nat
      BY <1>4
    <2>3. (x + r) * Stride = x * Stride + Stride * r /\ (x + r) * Stride \in Nat
      <3> HIDE DEF x
      <3> QED  BY <1>1, <1>2, <2>2, SMTT(30)
    <2> QED  BY <1>1, <1>2, <2>1, <2>3
  <1>6. n \div Stride = f * FrameSize + r
    <2> DEFINE q == f * FrameSize + r
    <2>1. q \in Nat /\ n = q * Stride + 0 /\ n \in Nat /\ 0 < Stride /\ 0 \in Nat
      BY <1>1, <1>4, <1>5
    <2> HIDE DEF q, n
    <2>2. n \div Stride = q
      BY <1>1, <2>1, DivUnique
    <2> QED  BY <2>2 DEF q
  <1>7. c = 0 <=> r = 0
    <2>1. r = 0 => c = 0
      BY <1>1, <1>2
    <2>2. r # 0 => c # 0
      BY <1>1, <1>2, SMTT(30)
    <2> QED  BY <2>1, <2>2
  <1>8. FramesFilled(f * FrameSize + r) = IF r = 0 THEN f ELSE f + 1
    <2> DEFINE x == f * FrameSize
               a == x + r + FrameSize - 1
    <2>1. x \in Nat /\ a \in Nat
      BY <1>1, <1>2, <1>4
    <2>2. CASE r = 0
      <3>1. a = f * FrameSize + (FrameSize - 1) /\ FrameSize - 1 \in Nat /\ FrameSize - 1 < FrameSize
        BY <1>1, <2>1, <2>2
      <3> HIDE DEF a
      <3>2. a \div FrameSize = f
        BY <1>1, <2>1, <3>1, DivUnique
      <3> QED  BY <2>2, <3>2 DEF FramesFilled, a
    <2>3. CASE r # 0
      <3>1. (f + 1) * FrameSize = f * FrameSize + FrameSize
        BY <1>1, SMTT(30)
      <3>2. a = (f + 1) * FrameSize + (r - 1) /\ r - 1 \in Nat /\ r - 1 < FrameSize /\ f + 1 \in Nat
        BY <1>1, <1>2, <1>3, <2>1, <2>3, <3>1
      <3> HIDE DEF a
      <3>3. a \div FrameSize = f + 1
        BY <1>1, <2>1, <3>2, DivUnique
      <3> QED  BY <2>3, <3>3 DEF FramesFilled, a
    <2> QED  BY <2>2, <2>3
  <1>9. n \div Stride = f * FrameSize + r /\ FramesFilled(n \div Stride) = IF c = 0 THEN f ELSE f + 1
    <2> HIDE DEF n
    <2> QED  BY <1>6, <1>7, <1>8
  <1> QED  BY <1>2, <1>3, <1>9 DEF r

LEMMA InputCut ==
    ASSUME NEW f \in Nat, NEW c \in Nat, c < FrameBytes, c % Stride = 0,
           NEW s \in Seq(FrameType), Len(s) = (IF c = 0 THEN f ELSE f + 1),
           \A k \in 1..f : s[k] = FullFrame(k),
           c # 0 => s[f + 1] = [bytes |-> Bytes(f * FrameBytes + 1, f * FrameBytes + c), ok |-> TRUE]
    PROVE  s = InputFrames(f * FrameBytes + c)
  <1> DEFINE n == f * FrameBytes + c
             count == IF c = 0 THEN f ELSE f + 1
             frame(k) == [bytes |-> Bytes((k - 1) * FrameBytes + 1, Least(k * FrameBytes, n)), ok |-> TRUE]
  <1>1. FrameBytes \in Nat \ {0} /\ f * FrameBytes \in Nat /\ n \in Nat
    BY Sizes, SMTT(30)
  <1>2. InputFrames(n) = [k \in 1..count |-> frame(k)]
    BY Cut DEF InputFrames
  <1>3. ASSUME NEW k \in 1..count PROVE s[k] = frame(k)
    <2>1. CASE k <= f
      <3>1. k \in 1..f /\ f - k \in Nat /\ k \in Nat
        BY <2>1
      <3>2. (f - k) * FrameBytes \in Nat
        BY <1>1, <3>1, SMTT(30)
      <3>3. (f - k) * FrameBytes = f * FrameBytes - k * FrameBytes /\ k * FrameBytes \in Nat
        BY <1>1, <3>1, SMTT(30)
      <3>4. Least(k * FrameBytes, n) = k * FrameBytes
        BY <1>1, <3>2, <3>3 DEF Least
      <3> QED  BY <3>1, <3>4 DEF FullFrame
    <2>2. CASE ~(k <= f)
      <3>1. c # 0 /\ k = f + 1 /\ k - 1 = f
        BY <2>2
      <3>2. k * FrameBytes = f * FrameBytes + FrameBytes
        BY <1>1, <3>1, SMTT(30)
      <3>3. Least(k * FrameBytes, n) = n
        BY <1>1, <3>2 DEF Least
      <3> QED  BY <3>1, <3>3
    <2> QED  BY <2>1, <2>2
  <1>4. s = [k \in 1..count |-> s[k]]
    <2>1. s \in [1..Len(s) -> FrameType] /\ Len(s) = count
      BY LenProperties
    <2> QED  BY <2>1
  <1>5. [k \in 1..count |-> s[k]] = [k \in 1..count |-> frame(k)]
    <2> HIDE DEF count, frame
    <2> QED  BY <1>3
  <1> QED  BY <1>2, <1>4, <1>5

-----------------------------------------------------------------------------
(***************************************************************************)
(* Close.                                                                  *)
(***************************************************************************)
LEMMA BeginCloseInv ==
    ASSUME IInv, BeginClose, e.closed => job.at = "off", ~e.closed => e.w # NoSink,
           \/ UNCHANGED job /\ job.at = "off"
           \/ /\ job.at = "write" /\ job'.at = "closed" /\ job'.tagged = job.tagged
              /\ job' \in JobType /\ job'.todo = job.todo
    PROVE  IInv'
  <1>1. call = IdleCall /\ call.at = "idle" /\ UNCHANGED <<enc, sinks, next, streams, faults>>
    BY DEF BeginClose, IInv, Phases
  <1>2. CASE e.closed
    <2>1. ret' = Ret("closeAgain", 0, "none") /\ UNCHANGED <<e, call>>
      BY <1>2 DEF BeginClose
    <2>2. ret' \in RetType /\ ret'.op \notin {"close", "oneShot"}
      BY <2>1 DEF Ret, RetType, Errors
    <2>3. UNCHANGED job
      BY <1>2
    <2> QED  BY <1>1, <1>2, <2>1, <2>2, <2>3, OnlyRet
  <1>3. CASE ~e.closed
    <2>1. e' = [e EXCEPT !.closed = TRUE] /\ call' = [IdleCall EXCEPT !.at = "rest"] /\ UNCHANGED ret
      BY <1>3 DEF BeginClose
    <2>2. /\ e' \in EType /\ e'.closed /\ e'.w = e.w /\ e'.seeker = e.seeker /\ e'.tagOff = e.tagOff
          /\ e'.samplesIn = e.samplesIn /\ e'.streamErr = e.streamErr /\ e'.carry = e.carry
      BY <2>1, OfE DEF EType
    <2>3. /\ call' \in CallType /\ call'.at = "rest" /\ call'.n = 0 /\ call'.err = "none"
      BY <2>1, EmptySeq DEF IdleCall, CallType, Errors
    <2>4. /\ ret.op # "close" /\ ~(ret.op = "oneShot" /\ ret.err \in {"none", "canceled"})
          /\ job.at # "body" /\ e.w # NoSink /\ job.at # "closed"
      BY <1>3, NoPromise DEF IInv, Phases
    <2>5. Types'
      BY <1>1, <2>1, <2>2, <2>3 DEF IInv, Types
    <2>6. TypeOK'
      <3>1. /\ e'.closed \in BOOLEAN /\ {e'.w, e'.seeker} \subseteq NoSink..MaxStreams
            /\ e'.carry \in Seq(1..MaxBytes) /\ e'.streamErr \in Errors /\ call'.err \in Errors
        BY <2>2, <2>3 DEF EType, CallType
      <3> QED  BY <1>1, <2>1, <2>2, <3>1 DEF IInv, TypeOK, FramesOf
    <2>7. Phases'
      <3>1. ~enc'.drained /\ ~enc'.final
        BY <1>1, <1>3 DEF IInv, Phases, Running
      <3>2. job'.at # "off" => e'.w # NoSink
        BY <2>2, <2>4
      <3>3. job'.at # "write" => job'.at # "body"
        BY <2>4
      <3>4. ret' = ret /\ job'.at # "body" /\ ret'.op # "close"
            /\ ~(ret'.op = "oneShot" /\ ret'.err \in {"none", "canceled"})
        BY <2>1, <2>4
      <3>5. job'.at # "write"
        BY <1>1, <1>3, <2>1, <2>2
      <3> QED  BY <2>2, <2>3, <2>4, <3>1, <3>4, <3>5 DEF Phases, Running
    <2>8. Attached'
      BY <1>1, <2>2, <2>4 DEF IInv, Attached
    <2>9. Reported'
      <3>1. D' = D
        BY <1>1 DEF D
      <3>2. e.carry = Bytes(D + 1, next - 1) /\ D <= next - 1 /\ enc.durable = Bytes(1, D)
            /\ next - 1 + 0 + Todo <= MaxBytes
        BY <1>1, <1>3 DEF IInv, Reported, Running, IdleCall
      <3>3. next' - 1 + call'.n + Todo' <= MaxBytes
        <4>1. Todo \in Nat /\ Todo' \in {Todo, 0}
          BY OfCall DEF Todo
        <4>2. next \in Nat /\ MaxBytes \in Nat /\ next' = next
          BY <1>1, OfCall, Sizes
        <4> DEFINE t == Todo  u == Todo'
        <4>3. t \in Nat /\ u <= t /\ next - 1 + 0 + t <= MaxBytes /\ u \in Nat
          BY <3>2, <4>1
        <4> HIDE DEF t, u
        <4>4. next' - 1 + 0 + u <= MaxBytes
          BY <4>2, <4>3
        <4> QED  BY <2>3, <4>4 DEF u
      <3> QED  BY <1>1, <2>2, <2>3, <3>1, <3>2, <3>3 DEF Reported
    <2>10. Sound'
      <3>1. D' = D /\ Lead' = Lead
        BY <1>1, <2>2 DEF D, Lead
      <3> QED  BY <1>1, <1>3, <2>1, <2>2, <2>3, <2>4, <3>1 DEF IInv, Sound, Running
    <2>11. Reserved'
      BY <1>1, <1>3, <2>2 DEF IInv, Reserved
    <2>12. TagOnlyOverHealthy'
      BY <1>1, <2>2 DEF IInv, TagOnlyOverHealthy, FramesOf
    <2>13. ReturnMeansSink'
      BY <2>1, <2>4 DEF ReturnMeansSink
    <2> QED  BY <2>5, <2>6, <2>7, <2>8, <2>9, <2>10, <2>11, <2>12, <2>13 DEF IInv
  <1> QED  BY <1>2, <1>3

LEMMA CloseInv == IInv /\ Close => IInv'
  <1> SUFFICES ASSUME IInv, Close PROVE IInv'
    OBVIOUS
  <1>1. job.at = "off" /\ (~e.closed => e.w # NoSink) /\ BeginClose /\ UNCHANGED job
    BY DEF Close, Idle, Pooled
  <1> QED  BY <1>1, BeginCloseInv

LEMMA OneShotCloseInv == IInv /\ OneShotClose => IInv'
  <1> SUFFICES ASSUME IInv, OneShotClose PROVE IInv'
    OBVIOUS
  <1>1. job.at = "write" /\ BeginClose /\ job' = [job EXCEPT !.at = "closed"] /\ job \in JobType
    BY DEF OneShotClose, IInv, Types
  <1>2. ~e.closed /\ e.w # NoSink
    BY <1>1 DEF IInv, Phases
  <1>3. job'.at = "closed" /\ job'.tagged = job.tagged /\ job' \in JobType /\ job'.todo = job.todo
    BY <1>1 DEF JobType
  <1> QED  BY <1>1, <1>2, <1>3, BeginCloseInv

\* The sinks after a write to the attached one.
LEMMA AttachedKept ==
    ASSUME IInv, e.w # NoSink, job.at # "body", UNCHANGED <<job, streams>>,
           e'.w = e.w, e'.seeker = e.seeker, e'.tagOff = e.tagOff,
           \A k \in 0..MaxStreams : k # e.w => sinks'[k] = sinks[k],
           sinks'[e.w].seekable = sinks[e.w].seekable
    PROVE  Attached'
  <1>1. e.w \in 0..MaxStreams /\ streams \in 0..MaxStreams
    <2>1. e.w \in NoSink..MaxStreams /\ streams \in 0..MaxStreams
      BY OfE, OfCall
    <2>2. MaxStreams \in Nat /\ NoSink = -1 /\ e.w # NoSink
      BY Sizes DEF NoSink
    <2> QED  BY <2>1, <2>2
  <1>2. Attached
    BY DEF IInv
  <1>3. job.at # "off" /\ job.tagged => streams # e.w
    BY <1>1, <1>2 DEF Attached, Body
  <1>4. e.seeker # NoSink => e.seeker = e.w
    BY <1>1, <1>2 DEF Attached, Body
  <1> QED  BY <1>1, <1>2, <1>3, <1>4 DEF Attached

LEMMA CloseRestInv == IInv /\ CloseRest => IInv'
  <1> SUFFICES ASSUME IInv, CloseRest PROVE IInv'
    OBVIOUS
  <1> DEFINE c == Len(e.carry)
             n == c \div Stride
             F == Len(enc.frames)
  <1>1. /\ call.at = "rest" /\ UNCHANGED <<job, ret, next, streams>>
        /\ e.closed /\ call.err = "none" /\ e.w # NoSink
        /\ job.at \in {"off", "closed"} /\ ~enc.drained /\ ~enc.final
    <2>1. /\ call.at = "rest" /\ UNCHANGED <<job, ret, next, streams>>
          /\ e.closed /\ call.err = "none" /\ e.w # NoSink
          /\ job.at \notin {"write", "body"} /\ ~enc.drained /\ ~enc.final
      BY DEF CloseRest, IInv, Phases, Running
    <2>2. job.at \in {"off", "write", "closed", "body"}
      BY DEF IInv, Types, JobType
    <2> QED  BY <2>1, <2>2
  <1>2. /\ e.carry = Bytes(D + 1, next - 1) /\ D <= next - 1 /\ enc.durable = Bytes(1, D)
        /\ next - 1 + call.n + Todo <= MaxBytes /\ Running
    BY <1>1 DEF IInv, Reported, Running
  <1>3. /\ c \in Nat /\ D \in Nat /\ next \in Nat /\ c < FrameBytes /\ F \in Nat
        /\ Stride \in Nat \ {0} /\ e.carry \in Seq(1..MaxBytes) /\ e.carry \in Seq(Int)
        /\ FrameBytes \in Nat /\ FrameSize \in Nat
    <2>1. next \in 1..MaxBytes + 1 /\ MaxBytes \in Nat
      BY OfCall, Sizes
    <2>2. e.carry \in Seq(1..MaxBytes) /\ 1..MaxBytes \subseteq Int
      BY OfE
    <2> QED  BY <2>1, <2>2, OfE, OfEnc, Sizes
  <1>4. c = next - 1 - D
    <2> DEFINE a == D + 1  b == next - 1
    <2>1. a \in Int /\ b \in Int /\ a <= b + 1 /\ b - a + 1 = next - 1 - D
      BY <1>2, <1>3
    <2> HIDE DEF a, b
    <2>2. Len(Bytes(a, b)) = b - a + 1
      BY <2>1, BytesInt
    <2> QED  BY <1>2, <2>1, <2>2 DEF a, b
  <1>5. c = 0 <=> e.carry = <<>>
    BY <1>3, EmptySeq
  <1>6. /\ ret.op # "close" /\ ~(ret.op = "oneShot" /\ ret.err \in {"none", "canceled"})
    BY <1>1, NoPromise
  <1>7. ASSUME NEW s \in Seq(FrameType), Len(s) = (IF c = 0 THEN F ELSE F + 1),
               D = F * FrameBytes, c % Stride = 0,
               \A k \in 1..F : s[k] = FullFrame(k),
               c # 0 => s[F + 1] = [bytes |-> e.carry, ok |-> TRUE]
        PROVE  s = InputFrames(next - 1) /\ (next - 1) \div Stride = F * FrameSize + n
    <2>1. F * FrameBytes + c = next - 1
      BY <1>3, <1>4, <1>7
    <2>2. e.carry = Bytes(F * FrameBytes + 1, F * FrameBytes + c)
      BY <1>2, <1>7, <2>1
    <2> HIDE DEF c, n, F
    <2>3. s = InputFrames(F * FrameBytes + c)
      BY <1>3, <1>7, <2>2, InputCut
    <2>4. (F * FrameBytes + c) \div Stride = F * FrameSize + c \div Stride
      BY <1>3, <1>7, Cut
    <2> QED  BY <2>1, <2>3, <2>4 DEF n
  <1>8. CASE c % Stride = 0 /\ e.carry # <<>>
    <2>1. PICK o \in Emissions(e.carry, n) :
              Emit(o, n) /\ call' = [call EXCEPT !.at = "drain", !.err = o.err]
      BY <1>8 DEF CloseRest
    <2>2. n \in Nat /\ n < FrameSize
      BY <1>3, <1>8, Cut
    <2>3. /\ o.err \in {"none", "sink"}
          /\ e' \in EType /\ enc' \in EncType /\ sinks' \in [0..MaxStreams -> SinkType]
          /\ faults' \in Nat
          /\ e'.closed = e.closed /\ e'.w = e.w /\ e'.seeker = e.seeker /\ e'.tagOff = e.tagOff
          /\ e'.samplesIn = e.samplesIn + n
          /\ e'.streamErr = (IF o.err = "none" THEN e.streamErr ELSE "sink")
          /\ e'.carry = (IF o.err = "none" THEN <<>> ELSE e.carry)
          /\ enc'.frames = Append(enc.frames, [bytes |-> e.carry, ok |-> o.err = "none"])
          /\ enc'.durable = (IF o.err = "none" THEN enc.durable \o e.carry ELSE enc.durable)
          /\ enc'.drained = FALSE
          /\ enc'.sent <= FramesOf(enc')
          /\ \A k \in 0..MaxStreams : sinks'[k].pos <= Len(sinks'[k].file)
          /\ \A k \in 0..MaxStreams : k # e.w => sinks'[k] = sinks[k]
          /\ sinks'[e.w].seekable = sinks[e.w].seekable
          /\ e.seeker # NoSink =>
                /\ Len(sinks'[e.seeker].file) >= 2 /\ sinks'[e.seeker].pos >= 2
                /\ sinks'[e.seeker].file[2] = Placeholder
          /\ o.err = "none" /\ Holds(sinks[e.w], Lead, enc.sent) =>
                Holds(sinks'[e.w], Lead', enc'.sent)
      <3> HIDE DEF n
      <3> QED  BY <1>1, <1>3, <2>1, <2>2, EmitStep
    <2>4. call' \in CallType /\ call'.at = "drain" /\ call'.err = o.err /\ call'.n = call.n
      <3>1. call \in CallType
        BY DEF IInv, Types
      <3> QED  BY <2>1, <2>3, <3>1 DEF CallType, Errors
    <2>5. Types'
      BY <1>1, <2>3, <2>4 DEF IInv, Types
    <2>6. TypeOK'
      <3>1. /\ e'.closed \in BOOLEAN /\ {e'.w, e'.seeker} \subseteq NoSink..MaxStreams
            /\ e'.carry \in Seq(1..MaxBytes) /\ e'.streamErr \in Errors
            /\ ret'.err \in Errors /\ call'.err \in Errors /\ DOMAIN sinks' = 0..MaxStreams
            /\ next' \in 1..MaxBytes + 1
        BY <1>1, <2>3, <2>4, OfCall DEF EType, CallType
      <3>2. Len(e'.carry) < FrameBytes
        BY <2>3, OfE, Sizes, EmptySeq
      <3> QED  BY <2>3, <3>1, <3>2 DEF TypeOK
    <2>7. Phases'
      BY <1>1, <1>6, <2>3, <2>4 DEF Phases, Running
    <2>8. Attached'
      BY <1>1, <2>3, AttachedKept
    <2>9. Reported'
      <3>1. enc'.durable = Bytes(1, D')
        <4>1. CASE o.err = "none"
          <5>0. next - 1 = D + c
            <6> HIDE DEF c
            <6> QED  BY <1>3, <1>4
          <5>1. enc'.durable = Bytes(1, D) \o Bytes(D + 1, D + c)
            <6>1. enc'.durable = enc.durable \o e.carry
              BY <2>3, <4>1
            <6> QED  BY <1>2, <5>0, <6>1
          <5>2. /\ Bytes(1, D) \o Bytes(D + 1, D + c) = Bytes(1, D + c)
                /\ Len(Bytes(1, D + c)) = D + c
            <6> HIDE DEF c
            <6> QED  BY <1>3, NextFrame
          <5> QED  BY <5>1, <5>2 DEF D
        <4>2. CASE o.err # "none"
          BY <1>2, <2>3, <4>2 DEF D
        <4> QED  BY <4>1, <4>2
      <3>2. Todo' = Todo /\ next' = next
        BY <1>1 DEF Todo
      <3>3. next' - 1 + call'.n + Todo' <= MaxBytes
        BY <1>2, <2>4, <3>2
      <3> QED  BY <1>1, <2>3, <2>4, <3>1, <3>3 DEF Reported, Running
    <2>10. Sound'
      <3>1. ASSUME Unfailed' PROVE Counted' /\ Holds(sinks[e.w], Lead, enc.sent)'
        <4>1. o.err = "none" /\ e.streamErr = "none"
          BY <2>3, <2>4, <3>1 DEF Unfailed
        <4>2. /\ D = F * FrameBytes /\ e.samplesIn = F * FrameSize
              /\ \A k \in DOMAIN enc.frames : enc.frames[k] = FullFrame(k)
              /\ Holds(sinks[e.w], Lead, enc.sent)
          BY <1>1, <1>2, <4>1 DEF IInv, Sound
        <4> DEFINE g == [bytes |-> e.carry, ok |-> TRUE]
        <4>3. enc.frames \in Seq(FrameType) /\ g \in FrameType /\ enc'.frames = Append(enc.frames, g)
          BY <1>3, <2>3, <4>1, OfEnc DEF FrameType
        <4> HIDE DEF g
        <4>4. /\ Append(enc.frames, g) \in Seq(FrameType) /\ Len(Append(enc.frames, g)) = F + 1
              /\ \A k \in 1..F : Append(enc.frames, g)[k] = enc.frames[k]
              /\ Append(enc.frames, g)[F + 1] = g
          BY <4>3, AppendProperties
        <4>5. \A k \in 1..F : Append(enc.frames, g)[k] = FullFrame(k)
          <5>1. DOMAIN enc.frames = 1..F
            BY <4>3, LenProperties
          <5> QED  BY <4>2, <4>4, <5>1
        <4>6. c # 0
          BY <1>5, <1>8
        <4>7. enc'.frames = InputFrames(next - 1) /\ (next - 1) \div Stride = F * FrameSize + n
          <5> HIDE DEF c, n, F
          <5> QED  BY <1>7, <1>8, <4>2, <4>3, <4>4, <4>5, <4>6 DEF g
        <4>8. e'.samplesIn = (next - 1) \div Stride
          BY <2>3, <4>2, <4>7
        <4>9. InputFrames(next - 1)' = InputFrames(next - 1)
          BY <1>1
        <4> QED  BY <1>1, <2>3, <4>1, <4>2, <4>7, <4>8, <4>9 DEF Counted
      <3> QED  BY <1>1, <1>6, <2>3, <2>4, <3>1 DEF Sound, Running
    <2>11. Reserved'
      BY <2>3 DEF Reserved
    <2>12. TagOnlyOverHealthy'
      <3>1. e'.seeker # NoSink => e'.tagOff = 1 /\ sinks'[e'.seeker].file[2] = Placeholder
        BY <2>3 DEF IInv, Attached
      <3> QED  BY <3>1, StillPlaceholder
    <2>13. ReturnMeansSink'
      BY <1>1, <1>6 DEF ReturnMeansSink
    <2> QED  BY <2>5, <2>6, <2>7, <2>8, <2>9, <2>10, <2>11, <2>12, <2>13 DEF IInv
  <1>9. CASE ~(c % Stride = 0 /\ e.carry # <<>>)
    <2>1. /\ call' = [call EXCEPT !.at = "drain", !.err = IF e.carry = <<>> THEN "none" ELSE "partial"]
          /\ UNCHANGED <<e, enc, sinks, faults>>
      BY <1>9 DEF CloseRest
    <2>2. /\ call' \in CallType /\ call'.at = "drain" /\ call'.n = call.n
          /\ call'.err = IF e.carry = <<>> THEN "none" ELSE "partial"
      <3>1. call \in CallType
        BY DEF IInv, Types
      <3> QED  BY <2>1, <3>1 DEF CallType, Errors
    <2>3. Types'
      BY <1>1, <2>1, <2>2 DEF IInv, Types
    <2>4. TypeOK'
      <3>1. call'.err \in Errors
        BY <2>2 DEF Errors
      <3> QED  BY <1>1, <2>1, <3>1 DEF IInv, TypeOK, FramesOf
    <2>5. Phases'
      BY <1>1, <1>6, <2>1, <2>2 DEF Phases, Running
    <2>6. Attached'
      BY <1>1, <2>1, AttachedKept
    <2>7. Reported'
      <3>1. Todo' = Todo /\ next' = next /\ D' = D
        BY <1>1, <2>1 DEF Todo, D
      <3>2. next' - 1 + call'.n + Todo' <= MaxBytes
        BY <1>2, <2>2, <3>1
      <3> QED  BY <1>1, <1>2, <2>1, <2>2, <3>1, <3>2 DEF Reported, Running
    <2>8. Sound'
      <3>1. ASSUME Unfailed' PROVE Counted' /\ Holds(sinks[e.w], Lead, enc.sent)'
        <4>1. c = 0 /\ e.streamErr = "none"
          BY <1>5, <2>1, <2>2, <3>1 DEF Unfailed
        <4>2. /\ D = F * FrameBytes /\ e.samplesIn = F * FrameSize
              /\ \A k \in DOMAIN enc.frames : enc.frames[k] = FullFrame(k)
              /\ Holds(sinks[e.w], Lead, enc.sent)
          BY <1>1, <1>2, <4>1 DEF IInv, Sound
        <4>3. enc.frames \in Seq(FrameType) /\ DOMAIN enc.frames = 1..F
          BY OfEnc, LenProperties
        <4>4. c % Stride = 0 /\ n = 0
          BY <1>3, <4>1
        <4>5. enc.frames = InputFrames(next - 1) /\ (next - 1) \div Stride = F * FrameSize + n
          <5>1. Len(enc.frames) = F
            OBVIOUS
          <5> HIDE DEF c, n, F
          <5> QED  BY <1>7, <4>1, <4>2, <4>3, <4>4, <5>1
        <4>6. e.samplesIn = (next - 1) \div Stride
          <5>1. F * FrameSize + 0 = F * FrameSize
            BY <1>3, SMTT(30)
          <5> QED  BY <4>2, <4>4, <4>5, <5>1
        <4>7. Lead' = Lead /\ sinks' = sinks /\ enc' = enc /\ e' = e /\ next' = next
          BY <1>1, <2>1 DEF Lead
        <4> QED  BY <4>2, <4>5, <4>6, <4>7 DEF Counted, Holds
      <3> QED  BY <1>1, <1>6, <2>1, <2>2, <3>1 DEF Sound, Running
    <2>9. Reserved'
      BY <1>1, <2>1 DEF IInv, Reserved
    <2>10. TagOnlyOverHealthy'
      BY <1>1, <2>1 DEF IInv, TagOnlyOverHealthy, FramesOf
    <2>11. ReturnMeansSink'
      BY <1>1, <1>6 DEF ReturnMeansSink
    <2> QED  BY <2>3, <2>4, <2>5, <2>6, <2>7, <2>8, <2>9, <2>10, <2>11 DEF IInv
  <1> QED  BY <1>8, <1>9

\* A write to the attached sink that leaves the coding state alone.
LEMMA SinkStep ==
    ASSUME IInv, e.w # NoSink, NEW items \in Seq(Item),
           NEW o \in SinkWrites(e.w, items),
           sinks' = [sinks EXCEPT ![e.w] = o.sink], Fault(o.err)
    PROVE  /\ e.w \in 0..MaxStreams
           /\ sinks' \in [0..MaxStreams -> SinkType] /\ faults' \in Nat
           /\ \A k \in 0..MaxStreams : sinks'[k].pos <= Len(sinks'[k].file)
           /\ \A k \in 0..MaxStreams : k # e.w => sinks'[k] = sinks[k]
           /\ sinks'[e.w].seekable = sinks[e.w].seekable
           /\ e.seeker # NoSink /\ (~e.closed \/ call.at # "idle") =>
                 /\ Len(sinks'[e.seeker].file) >= 2 /\ sinks'[e.seeker].pos >= 2
                 /\ sinks'[e.seeker].file[2] = Placeholder
           /\ o.err \in {"none", "sink"}
           /\ o.err = "none" => sinks'[e.w] = Put(sinks[e.w], items)
  <1>1. e.w \in 0..MaxStreams
    <2>1. NoSink = -1 /\ e.w \in NoSink..MaxStreams /\ MaxStreams \in Nat
      BY OfE, Sizes DEF NoSink
    <2> QED  BY <2>1
  <1>2. /\ sinks[e.w] \in SinkType /\ sinks[e.w].pos \in Nat /\ sinks[e.w].pos <= Len(sinks[e.w].file)
        /\ Len(sinks[e.w].file) \in Nat /\ Types
    BY <1>1, OfSinks DEF IInv
  <1>3. /\ o.err \in {"none", "sink"} /\ o.sink \in SinkType
        /\ o.sink.seekable = sinks[e.w].seekable
        /\ o.sink.pos >= sinks[e.w].pos /\ o.sink.pos <= Len(o.sink.file)
        /\ Len(o.sink.file) >= Len(sinks[e.w].file)
        /\ \A j \in 1..sinks[e.w].pos : o.sink.file[j] = sinks[e.w].file[j]
        /\ o.err = "none" => o.sink = Put(sinks[e.w], items)
    BY <1>1, <1>2, SinkWritesFacts
  <1>4. /\ sinks' \in [0..MaxStreams -> SinkType] /\ sinks'[e.w] = o.sink
        /\ \A k \in 0..MaxStreams : k # e.w => sinks'[k] = sinks[k]
    BY <1>1, <1>2, <1>3 DEF Types
  <1>5. \A k \in 0..MaxStreams : sinks'[k].pos <= Len(sinks'[k].file)
    BY <1>3, <1>4, OfSinks
  <1>6. ASSUME e.seeker # NoSink, ~e.closed \/ call.at # "idle"
        PROVE  /\ Len(sinks'[e.seeker].file) >= 2 /\ sinks'[e.seeker].pos >= 2
               /\ sinks'[e.seeker].file[2] = Placeholder
    <2>1. e.w = e.seeker
      BY <1>6 DEF IInv, Attached
    <2>2. /\ Len(sinks[e.w].file) >= 2 /\ sinks[e.w].file[2] = Placeholder /\ sinks[e.w].pos >= 2
      BY <1>6, <2>1 DEF IInv, Reserved
    <2>3. o.sink.pos \in Nat /\ Len(o.sink.file) \in Nat
      BY <1>3, LenProperties DEF SinkType
    <2>4. 2 \in 1..sinks[e.w].pos
      BY <1>2, <2>2
    <2>5. sinks'[e.seeker] = o.sink /\ o.sink.file[2] = Placeholder
      BY <1>3, <1>4, <2>1, <2>2, <2>4
    <2>6. Len(o.sink.file) >= 2 /\ o.sink.pos >= 2
      BY <1>2, <1>3, <2>2, <2>3
    <2> QED  BY <2>5, <2>6
  <1>7. faults' \in Nat
    <2>1. faults' = faults + (IF o.err = "sink" THEN 1 ELSE 0) /\ faults \in Nat
      BY OfCall DEF Fault
    <2> QED  BY <2>1
  <1> QED  BY <1>1, <1>3, <1>4, <1>5, <1>6, <1>7

\* A sink that holds all the frames holds nothing behind them.
LEMMA WholeBody ==
    ASSUME NEW s \in SinkType, NEW lead \in Nat, NEW k \in Nat \ {0}, Holds(s, lead, k)
    PROVE  /\ s.pos = Len(s.file) /\ Len(s.file) = lead + k
           /\ SubSeq(s.file, lead + 1, Len(s.file)) = CodedRun(1, k)
  <1>1. /\ s.pos = lead + k /\ s.pos <= Len(s.file) /\ Len(s.file) <= lead + Most(k, 1)
        /\ \A j \in 1..k : s.file[lead + j] = Coded(j)
        /\ s.file \in Seq(Item) /\ Len(s.file) \in Nat
    BY LenProperties DEF Holds, SinkType
  <1>2. Len(s.file) = lead + k
    BY <1>1 DEF Most
  <1> DEFINE run == CodedRun(1, k)
             i == lead + 1
             m == lead + k
             cut == SubSeq(s.file, i, m)
  <1>3. run \in Seq(Item) /\ Len(run) = k /\ \A j \in 1..k : run[j] = Coded(j)
    <2> DEFINE f == 1
    <2>1. f \in Nat /\ k \in Int /\ f <= k + 1 /\ k - f + 1 = k
      OBVIOUS
    <2> HIDE DEF f
    <2>2. /\ CodedRun(f, k) \in Seq(Item) /\ Len(CodedRun(f, k)) = k - f + 1
          /\ \A j \in 1..(k - f + 1) : CodedRun(f, k)[j] = Coded(f + j - 1)
      BY <2>1, CodedRunFacts
    <2>3. ASSUME NEW j \in 1..k PROVE f + j - 1 = j
      BY DEF f
    <2> QED  BY <2>1, <2>2, <2>3 DEF f
  <1>4. i \in Int /\ m \in Int /\ i <= m /\ m - i + 1 = k /\ 1 <= i /\ m = Len(s.file)
        /\ \A j \in 1..k : i + j - 1 = lead + j
    BY <1>1, <1>2
  <1>5. cut \in Seq(Item) /\ Len(cut) = k /\ \A j \in 1..k : cut[j] = s.file[lead + j]
    <2>1. \A j \in i..m : s.file[j] \in Item
      BY <1>1, <1>4, ElementOfSeq
    <2> HIDE DEF i, m
    <2>2. /\ SubSeq(s.file, i, m) \in Seq(Item)
          /\ Len(SubSeq(s.file, i, m)) = (IF i <= m THEN m - i + 1 ELSE 0)
          /\ \A j \in 1..(m - i + 1) : SubSeq(s.file, i, m)[j] = s.file[i + j - 1]
      BY <1>4, <2>1, SubSeqProperties
    <2> QED  BY <1>4, <2>2
  <1>6. cut = run
    <2> HIDE DEF cut, run
    <2>1. \A j \in 1..k : cut[j] = run[j]
      BY <1>1, <1>3, <1>5
    <2> QED  BY <1>3, <1>5, <2>1, SeqEqual
  <1> QED  BY <1>1, <1>2, <1>6

\* What is counted is what the drain has coded.
LEMMA CountedFrames ==
    ASSUME IInv, Counted
    PROVE  LET n == (next - 1) \div Stride
           IN  /\ n \in Nat /\ e.samplesIn = n
               /\ FramesCoded(n) = Len(enc.frames) + 1
               /\ \A k \in DOMAIN enc.frames : enc.frames[k].ok
  <1> DEFINE n == (next - 1) \div Stride
  <1>1. n \in Nat
    <2>1. next - 1 \in Nat /\ Stride \in Nat \ {0}
      <3>1. next \in 1..MaxBytes + 1 /\ MaxBytes \in Nat /\ Stride \in Nat \ {0}
        BY OfCall, Sizes
      <3> QED  BY <3>1
    <2> DEFINE m == next - 1
    <2> HIDE DEF m
    <2>2. m \in Nat => m \div Stride \in Nat
      BY <2>1, SMTT(30)
    <2> QED  BY <2>1, <2>2 DEF m
  <1> HIDE DEF n
  <1>2. enc.frames = InputFrames(next - 1) /\ e.samplesIn = n
    BY DEF Counted, n
  <1>3. FramesFilled(n) \in Nat
    BY <1>1, FilledBounds
  <1> DEFINE g(k) == [bytes |-> Bytes((k - 1) * FrameBytes + 1, Least(k * FrameBytes, next - 1)), ok |-> TRUE]
  <1>4. enc.frames = [k \in 1..FramesFilled(n) |-> g(k)]
    BY <1>2 DEF InputFrames, n
  <1>5. \A k \in DOMAIN enc.frames : enc.frames[k].ok
    BY <1>4
  <1>6. DOMAIN enc.frames = 1..FramesFilled(n)
    BY <1>4
  <1>7. Len(enc.frames) = FramesFilled(n)
    BY <1>3, <1>6, OfEnc, LenProperties
  <1> QED  BY <1>1, <1>2, <1>5, <1>7 DEF FramesCoded, n

LEMMA CloseDrainInv == IInv /\ CloseDrain => IInv'
  <1> SUFFICES ASSUME IInv, CloseDrain PROVE IInv'
    OBVIOUS
  <1> DEFINE F == Len(enc.frames)
             r == [enc EXCEPT !.drained = TRUE]
             items == CodedRun(enc.sent + 1, F + 1)
  <1>1. /\ call.at = "drain" /\ UNCHANGED <<job, next, streams>> /\ e' = [e EXCEPT !.carry = <<>>]
        /\ e.closed /\ e.w # NoSink /\ job.at \in {"off", "closed"} /\ ~enc.drained
    <2>1. /\ call.at = "drain" /\ UNCHANGED <<job, next, streams>> /\ e' = [e EXCEPT !.carry = <<>>]
          /\ e.closed /\ e.w # NoSink /\ job.at \notin {"write", "body"} /\ ~enc.drained
      BY DEF CloseDrain, IInv, Phases
    <2>2. job.at \in {"off", "write", "closed", "body"}
      BY DEF IInv, Types, JobType
    <2> QED  BY <2>1, <2>2
  <1>2. /\ enc \in EncType /\ F \in Nat /\ enc.sent \in Nat /\ enc.sent <= F
        /\ enc.durable = Bytes(1, D)
    <2>1. enc \in EncType /\ F \in Nat /\ enc.sent \in Nat /\ enc.sent <= FramesOf(enc)
      BY OfEnc
    <2>2. enc.sent <= F
      BY <1>1, <2>1 DEF FramesOf, Most
    <2> QED  BY <2>1, <2>2 DEF IInv, Reported
  <1>3. /\ r \in EncType /\ r.frames = enc.frames /\ r.durable = enc.durable /\ r.sent = enc.sent
        /\ r.final = enc.final /\ r.drained = TRUE /\ FramesOf(r) = F + 1
    BY <1>2 DEF EncType, FramesOf
  <1> HIDE DEF r
  <1>4. PICK o \in Deliver(r, F + 1) :
            LET err == FirstErr(IF call.err = "none" THEN o.err ELSE call.err)
            IN  /\ enc' = o.enc /\ sinks' = [sinks EXCEPT ![e.w] = o.sink] /\ Fault(o.err)
                /\ IF e.seeker # NoSink /\ err = "none"
                     THEN call' = [call EXCEPT !.at = "patch"] /\ UNCHANGED ret
                     ELSE call' = IdleCall /\ ret' = Ret("close", 0, err)
    BY <1>3 DEF CloseDrain, r
  <1> DEFINE err == FirstErr(IF call.err = "none" THEN o.err ELSE call.err)
  <1>5. PICK u \in SinkWrites(e.w, items) :
            o = [enc |-> [r EXCEPT !.sent = F + 1], sink |-> u.sink, err |-> u.err]
    BY <1>3, <1>4 DEF Deliver
  <1>6. items \in Seq(Item)
    <2>1. enc.sent + 1 \in Nat /\ F + 1 \in Int /\ enc.sent + 1 <= F + 1 + 1
      BY <1>2
    <2> HIDE DEF F
    <2> QED  BY <2>1, CodedRunFacts
  <1>7. /\ enc' \in EncType /\ enc'.frames = enc.frames /\ enc'.durable = enc.durable
        /\ enc'.sent = F + 1 /\ enc'.drained = TRUE /\ FramesOf(enc') = F + 1
    <2>1. enc' = [r EXCEPT !.sent = F + 1] /\ F + 1 \in Nat
      BY <1>2, <1>4, <1>5
    <2>2. /\ enc' \in EncType /\ enc'.frames = enc.frames /\ enc'.durable = enc.durable
          /\ enc'.sent = F + 1 /\ enc'.drained = TRUE
      <3> HIDE DEF F
      <3> QED  BY <1>3, <2>1 DEF EncType
    <2> QED  BY <2>2 DEF FramesOf
  <1>8. o.err \in {"none", "sink"}
    <2>1. u.err \in {"none", "sink"}
      BY <1>5 DEF SinkWrites
    <2> QED  BY <1>5, <2>1
  <1>9. /\ e.w \in 0..MaxStreams
        /\ sinks' \in [0..MaxStreams -> SinkType] /\ faults' \in Nat
        /\ \A k \in 0..MaxStreams : sinks'[k].pos <= Len(sinks'[k].file)
        /\ \A k \in 0..MaxStreams : k # e.w => sinks'[k] = sinks[k]
        /\ sinks'[e.w].seekable = sinks[e.w].seekable
        /\ e.seeker # NoSink =>
              /\ Len(sinks'[e.seeker].file) >= 2 /\ sinks'[e.seeker].pos >= 2
              /\ sinks'[e.seeker].file[2] = Placeholder
        /\ o.err = "none" => sinks'[e.w] = Put(sinks[e.w], items)
    <2>1. o.sink = u.sink /\ o.err = u.err
      BY <1>5
    <2>2. sinks' = [sinks EXCEPT ![e.w] = u.sink] /\ Fault(u.err) /\ call.at # "idle"
      BY <1>1, <1>4, <2>1
    <2> HIDE DEF items
    <2>3. u \in SinkWrites(e.w, items)
      BY <1>5
    <2>4. /\ e.w \in 0..MaxStreams
          /\ sinks' \in [0..MaxStreams -> SinkType] /\ faults' \in Nat
          /\ \A k \in 0..MaxStreams : sinks'[k].pos <= Len(sinks'[k].file)
          /\ \A k \in 0..MaxStreams : k # e.w => sinks'[k] = sinks[k]
          /\ sinks'[e.w].seekable = sinks[e.w].seekable
          /\ e.seeker # NoSink /\ (~e.closed \/ call.at # "idle") =>
                /\ Len(sinks'[e.seeker].file) >= 2 /\ sinks'[e.seeker].pos >= 2
                /\ sinks'[e.seeker].file[2] = Placeholder
          /\ u.err = "none" => sinks'[e.w] = Put(sinks[e.w], items)
      BY <1>1, <1>6, <2>2, <2>3, SinkStep
    <2> QED  BY <2>1, <2>2, <2>4
  <1>10. /\ e' \in EType /\ e'.carry = <<>> /\ e'.closed = e.closed /\ e'.w = e.w /\ e'.seeker = e.seeker
         /\ e'.tagOff = e.tagOff /\ e'.samplesIn = e.samplesIn /\ e'.streamErr = e.streamErr
    <2>1. e \in EType /\ <<>> \in Seq(1..MaxBytes)
      BY OfE, EmptySeq
    <2> QED  BY <1>1, <2>1 DEF EType
  <1>11. Lead' = Lead /\ Lead \in Nat
    BY <1>9, <1>10 DEF Lead, Start
  <1>12. err \in Errors /\ (err = "none" => o.err = "none" /\ Unfailed)
    <2>1. call.err \in Errors /\ e.streamErr \in Errors /\ o.err \in Errors
      BY <1>8, OfCall, OfE DEF Errors
    <2> QED  BY <2>1 DEF FirstErr, Unfailed
  <1>13. ASSUME err = "none"
         PROVE  Counted /\ Counted' /\ Holds(sinks'[e.w], Lead, F + 1)
    <2>1. Counted /\ Holds(sinks[e.w], Lead, enc.sent) /\ o.err = "none"
      BY <1>1, <1>12, <1>13 DEF IInv, Sound
    <2>2. Counted'
      <3>1. InputFrames(next - 1)' = InputFrames(next - 1) /\ next' = next
        BY <1>1
      <3> QED  BY <1>7, <1>10, <2>1, <3>1 DEF Counted
    <2>3. sinks[e.w] \in SinkType /\ F + 1 \in Nat /\ enc.sent <= F + 1 /\ enc.sent \in Nat
      BY <1>2, <1>9, OfSinks
    <2> HIDE DEF F
    <2>4. Holds(Put(sinks[e.w], items), Lead, F + 1)
      BY <1>11, <2>1, <2>3, HoldsPut
    <2> QED  BY <1>9, <2>1, <2>2, <2>4
  <1> HIDE DEF err
  <1>14. /\ ret.op # "close" /\ ~(ret.op = "oneShot" /\ ret.err \in {"none", "canceled"})
    BY <1>1, NoPromise
  <1>15. CASE e.seeker # NoSink /\ err = "none"
    <2>1. call' = [call EXCEPT !.at = "patch"] /\ UNCHANGED ret
      BY <1>4, <1>15 DEF err
    <2>2. call' \in CallType /\ call'.at = "patch" /\ call'.err = call.err /\ call'.n = call.n
      <3>1. call \in CallType
        BY DEF IInv, Types
      <3> QED  BY <2>1, <3>1 DEF CallType
    <2>3. Types'
      BY <1>1, <1>7, <1>9, <1>10, <2>1, <2>2 DEF IInv, Types
    <2>4. TypeOK'
      <3>1. /\ e'.closed \in BOOLEAN /\ {e'.w, e'.seeker} \subseteq NoSink..MaxStreams
            /\ e'.carry \in Seq(1..MaxBytes) /\ e'.streamErr \in Errors
            /\ ret'.err \in Errors /\ call'.err \in Errors /\ DOMAIN sinks' = 0..MaxStreams
            /\ next' \in 1..MaxBytes + 1
        BY <1>1, <1>9, <1>10, <2>1, <2>2, OfCall DEF EType, CallType
      <3>2. Len(e'.carry) < FrameBytes
        BY <1>10, Sizes, EmptySeq
      <3>3. enc'.sent <= FramesOf(enc')
        BY <1>2, <1>7
      <3> QED  BY <1>9, <3>1, <3>2, <3>3 DEF TypeOK
    <2>5. Phases'
      BY <1>1, <1>10, <1>14, <2>1, <2>2 DEF Phases, Running
    <2>6. Attached'
      BY <1>1, <1>9, <1>10, AttachedKept
    <2>7. Reported'
      <3>1. Todo' = Todo /\ next' = next /\ D' = D
        BY <1>1, <1>7 DEF Todo, D
      <3>2. next - 1 + call.n + Todo <= MaxBytes
        BY DEF IInv, Reported
      <3>3. next' - 1 + call'.n + Todo' <= MaxBytes
        BY <2>2, <3>1, <3>2
      <3> QED  BY <1>1, <1>2, <1>7, <1>10, <2>2, <3>1, <3>3 DEF Reported, Running
    <2>8. Sound'
      <3>1. e.w = e.seeker
        BY <1>1, <1>15 DEF IInv, Attached
      <3>2. Unfailed'
        BY <1>10, <1>12, <1>15, <2>2 DEF Unfailed
      <3>3. Holds(sinks[e.w], Lead, enc.sent)'
        BY <1>7, <1>10, <1>11, <1>13, <1>15
      <3>4. ret'.op # "close"
        BY <1>14, <2>1
      <3>5. enc'.sent = FramesOf(enc')
        BY <1>7
      <3>6. ~Running'
        BY <1>1, <1>10, <2>2 DEF Running
      <3> QED  BY <1>7, <1>10, <1>13, <1>15, <2>2, <3>1, <3>2, <3>3, <3>4, <3>5, <3>6 DEF Sound
    <2>9. Reserved'
      BY <1>9, <1>10 DEF Reserved
    <2>10. TagOnlyOverHealthy'
      <3>1. e'.seeker # NoSink => e'.tagOff = 1 /\ sinks'[e'.seeker].file[2] = Placeholder
        BY <1>9, <1>10 DEF IInv, Attached
      <3> QED  BY <3>1, StillPlaceholder
    <2>11. ReturnMeansSink'
      BY <1>14, <2>1 DEF ReturnMeansSink
    <2> QED  BY <2>3, <2>4, <2>5, <2>6, <2>7, <2>8, <2>9, <2>10, <2>11 DEF IInv
  <1>16. CASE ~(e.seeker # NoSink /\ err = "none")
    <2>1. call' = IdleCall /\ ret' = Ret("close", 0, err)
      BY <1>4, <1>16 DEF err
    <2>2. /\ call' \in CallType /\ call'.at = "idle" /\ call'.err = "none" /\ call'.n = 0
          /\ ret' \in RetType /\ ret'.op = "close" /\ ret'.err = err
      BY <1>12, <2>1, IdleCallType DEF IdleCall, Ret, RetType
    <2>3. Types'
      BY <1>1, <1>7, <1>9, <1>10, <2>2 DEF IInv, Types
    <2>4. TypeOK'
      <3>1. /\ e'.closed \in BOOLEAN /\ {e'.w, e'.seeker} \subseteq NoSink..MaxStreams
            /\ e'.carry \in Seq(1..MaxBytes) /\ e'.streamErr \in Errors
            /\ ret'.err \in Errors /\ call'.err \in Errors /\ DOMAIN sinks' = 0..MaxStreams
            /\ next' \in 1..MaxBytes + 1
        BY <1>1, <1>9, <1>10, <1>12, <2>2, OfCall DEF EType, CallType
      <3>2. Len(e'.carry) < FrameBytes
        BY <1>10, Sizes, EmptySeq
      <3>3. enc'.sent <= FramesOf(enc')
        BY <1>2, <1>7
      <3> QED  BY <1>9, <3>1, <3>2, <3>3 DEF TypeOK
    <2>5. Phases'
      BY <1>1, <1>10, <2>1, <2>2 DEF Phases, Running
    <2>6. Attached'
      BY <1>1, <1>9, <1>10, AttachedKept
    <2>7. Reported'
      <3>1. Todo' = Todo /\ next' = next /\ D' = D
        BY <1>1, <1>7 DEF Todo, D
      <3>2. next - 1 + call.n + Todo <= MaxBytes
        BY DEF IInv, Reported
      <3>3. next' - 1 + call'.n + Todo' <= MaxBytes
        <4> DEFINE t == Todo
        <4>1. t \in Nat /\ next \in Nat /\ call.n \in Nat /\ MaxBytes \in Nat /\ next - 1 + call.n + t <= MaxBytes
          BY <3>2, OfCall, Sizes DEF Todo
        <4>2. next' = next /\ call'.n = 0 /\ Todo' = t
          BY <2>2, <3>1
        <4> HIDE DEF t
        <4>3. next - 1 + 0 + t <= MaxBytes
          BY <4>1
        <4> QED  BY <4>2, <4>3
      <3> QED  BY <1>1, <1>2, <1>7, <1>10, <2>2, <3>1, <3>3 DEF Reported, Running
    <2>8. Sound'
      <3>1. ~Running'
        BY <1>1, <1>10, <2>2 DEF Running
      <3> QED  BY <1>7, <1>13, <2>2, <3>1 DEF Sound
    <2>9. Reserved'
      BY <1>9, <1>10 DEF Reserved
    <2>10. TagOnlyOverHealthy'
      <3>1. e'.seeker # NoSink => e'.tagOff = 1 /\ sinks'[e'.seeker].file[2] = Placeholder
        BY <1>9, <1>10 DEF IInv, Attached
      <3> QED  BY <3>1, StillPlaceholder
    <2>11. ReturnMeansSink'
      <3>1. ASSUME err = "none"
            PROVE  Complete(sinks[e.w], next - 1, FALSE)' /\ e.seeker = NoSink
        <4>1. Counted /\ Counted' /\ Holds(sinks'[e.w], Lead, F + 1)
          BY <1>13, <3>1
        <4>2. e.seeker = NoSink /\ Lead = Start(sinks'[e.w])
          BY <1>9, <1>16, <3>1, <1>11 DEF Lead, Start
        <4>3. FramesCoded((next - 1) \div Stride) = F + 1
          BY <4>1, CountedFrames
        <4>4. /\ sinks'[e.w].pos = Len(sinks'[e.w].file)
              /\ SubSeq(sinks'[e.w].file, Lead + 1, Len(sinks'[e.w].file)) = CodedRun(1, F + 1)
          <5>1. sinks'[e.w] \in SinkType /\ F + 1 \in Nat \ {0}
            BY <1>2, <1>9
          <5> HIDE DEF F
          <5> QED  BY <1>11, <4>1, <5>1, WholeBody
        <4>5. enc'.frames = InputFrames(next - 1)'
          BY <4>1 DEF Counted
        <4>6. next' = next /\ e'.w = e.w
          BY <1>1, <1>10
        <4> HIDE DEF F
        <4> QED  BY <4>2, <4>3, <4>4, <4>5, <4>6 DEF Complete
      <3>2. e'.w # NoSink /\ e'.w = e.w /\ e'.seeker = e.seeker
        BY <1>1, <1>10
      <3> QED  BY <2>2, <3>1, <3>2 DEF ReturnMeansSink
    <2> QED  BY <2>3, <2>4, <2>5, <2>6, <2>7, <2>8, <2>9, <2>10, <2>11 DEF IInv
  <1> QED  BY <1>15, <1>16

LEMMA FinalTagType ==
    ASSUME IInv, NEW end \in Int
    PROVE  /\ FinalTag(end) \in Item
           /\ FinalTag(end).frames = FramesOf(enc) /\ FinalTag(end).total = end
           /\ FinalTag(end).padding = LamePadding(FramesOf(enc), e.samplesIn)
  <1>1. FramesOf(enc) \in Nat /\ e.samplesIn \in Nat
    <2>1. Len(enc.frames) \in Nat /\ enc.drained \in BOOLEAN /\ e.samplesIn \in Nat
      BY OfEnc, OfE
    <2> QED  BY <2>1 DEF FramesOf, Most
  <1> DEFINE k == FramesOf(enc)  n == e.samplesIn
  <1>2. LamePadding(k, n) \in Nat
    <2> HIDE DEF k, n
    <2>1. k \in Nat /\ n \in Nat /\ FrameSize \in Nat /\ EncoderDelay \in Nat /\ FieldMax \in Nat
      BY <1>1, GaplessAssumption DEF k, n
    <2>2. k * FrameSize \in Nat
      BY <2>1, SMTT(30)
    <2> QED  BY <2>1, <2>2 DEF LamePadding, Least, Most
  <1>3. FinalTag(end) = [frames |-> k, total |-> end, padding |-> LamePadding(k, n)]
    BY DEF FinalTag, Tag
  <1> HIDE DEF k, n
  <1>4. k \in Nat
    BY <1>1 DEF k
  <1> QED  BY <1>2, <1>3, <1>4 DEF Item, k, n

LEMMA Seeked ==
    ASSUME NEW s \in SinkType, NEW p \in Nat
    PROVE  LET t == [s EXCEPT !.pos = p]
           IN  t \in SinkType /\ t.pos = p /\ t.file = s.file /\ t.seekable = s.seekable
  BY DEF SinkType

\* A file from item i on is that item and the rest.
LEMMA HeadTail ==
    ASSUME NEW file \in Seq(Item), NEW i \in 1..Len(file)
    PROVE  SubSeq(file, i, Len(file)) = <<file[i]>> \o SubSeq(file, i + 1, Len(file))
  <1>1. 1 <= i /\ i <= Len(file) /\ Len(file) <= Len(file) /\ i \in Int /\ Len(file) \in Nat
    BY LenProperties
  <1> QED  BY <1>1, SubSeqRecursiveFirst

\* The tag written over the placeholder.
LEMMA PatchFacts ==
    ASSUME NEW s \in SinkType, NEW k \in Nat \ {0}, Holds(s, 2, k), NEW t \in Item,
           NEW back \in SinkType, back.pos = 1, back.file = s.file, back.seekable = s.seekable
    PROVE  /\ Put(back, <<t>>) \in SinkType /\ Put(back, <<t>>).pos = 2
           /\ Put(back, <<t>>).seekable = s.seekable
           /\ Len(s.file) = 2 + k /\ Len(Put(back, <<t>>).file) = 2 + k
           /\ Put(back, <<t>>).file[2] = t
           /\ \A j \in 1..k : Put(back, <<t>>).file[2 + j] = Coded(j)
  <1> DEFINE one == <<t>>
             tagged == Put(back, one)
  <1>1. /\ s.pos = 2 + k /\ Len(s.file) = 2 + k /\ s.file \in Seq(Item)
        /\ \A j \in 1..k : s.file[2 + j] = Coded(j)
    BY WholeBody DEF Holds, SinkType
  <1>2. back \in SinkType /\ back.pos = 1 /\ back.file = s.file /\ back.seekable = s.seekable
    OBVIOUS
  <1>3. one \in Seq(Item) /\ Len(one) = 1 /\ one[1] = t
    OBVIOUS
  <1> HIDE DEF one
  <1>4. /\ tagged \in SinkType /\ tagged.seekable = back.seekable
        /\ tagged.pos = back.pos + Len(one)
        /\ Len(tagged.file) = Most(Len(back.file), back.pos + Len(one))
        /\ \A j \in 1..Len(one) : tagged.file[back.pos + j] = one[j]
        /\ \A j \in back.pos + Len(one) + 1..Len(back.file) : tagged.file[j] = back.file[j]
    <2>1. back.pos <= Len(back.file)
      BY <1>1, <1>2
    <2> QED  BY <1>2, <1>3, <2>1, PutFacts
  <1> HIDE DEF tagged
  <1>5. back.pos + Len(one) = 2 /\ back.pos + 1 = 2 /\ Most(2 + k, 2) = 2 + k /\ 1 \in 1..Len(one)
    BY <1>2, <1>3 DEF Most
  <1>6. tagged.file[2] = t
    <2>1. tagged.file[back.pos + 1] = one[1]
      BY <1>4, <1>5
    <2> QED  BY <1>3, <1>5, <2>1
  <1>7. ASSUME NEW j \in 1..k PROVE tagged.file[2 + j] = Coded(j)
    <2>1. 2 + j \in back.pos + Len(one) + 1..Len(back.file)
      BY <1>1, <1>2, <1>5
    <2> QED  BY <1>1, <1>2, <1>4, <2>1
  <1>8. Len(tagged.file) = 2 + k
    BY <1>1, <1>2, <1>4, <1>5
  <1>9. tagged = Put(back, <<t>>)
    BY DEF tagged, one
  <1> QED  BY <1>1, <1>2, <1>4, <1>5, <1>6, <1>7, <1>8, <1>9

LEMMA ClosePatchInv == IInv /\ ClosePatch => IInv'
  <1> SUFFICES ASSUME IInv, ClosePatch PROVE IInv'
    OBVIOUS
  <1> DEFINE s == sinks[e.seeker]
             k == FramesOf(enc)
             tag == FinalTag(s.pos - e.tagOff)
             back == [s EXCEPT !.pos = e.tagOff]
             tagged == Put(back, <<tag>>)
             done == [tagged EXCEPT !.pos = s.pos]
             n == (next - 1) \div Stride
  <1>1. /\ call.at = "patch" /\ call' = IdleCall /\ UNCHANGED <<e, enc, job, next, streams>>
        /\ e.closed /\ e.seeker # NoSink /\ e.w = e.seeker /\ enc.drained /\ Unfailed /\ Counted
        /\ enc.sent = k /\ Holds(s, Lead, k)
    BY DEF ClosePatch, IInv, Phases, Sound
  <1>2. e.seeker = streams /\ streams > 0 /\ e.tagOff = 1 /\ s.seekable /\ job.at = "off"
    BY <1>1 DEF IInv, Attached
  <1>3. Lead = 2
    BY <1>1, <1>2 DEF Lead, Start
  <1>4. n \in Nat /\ e.samplesIn = n /\ FramesCoded(n) = k /\ k \in Nat \ {0}
        /\ \A j \in DOMAIN enc.frames : enc.frames[j].ok
    <2>1. /\ n \in Nat /\ e.samplesIn = n /\ FramesCoded(n) = Len(enc.frames) + 1
          /\ \A j \in DOMAIN enc.frames : enc.frames[j].ok
      BY <1>1, CountedFrames
    <2>2. k = Len(enc.frames) + 1 /\ Len(enc.frames) \in Nat
      BY <1>1, OfEnc DEF FramesOf
    <2> HIDE DEF k, n
    <2> QED  BY <2>1, <2>2
  <1>5. e.seeker \in 0..MaxStreams /\ s \in SinkType /\ s.pos = Len(s.file) /\ s.pos = 2 + k
    <2>1. e.seeker \in 0..MaxStreams
      BY <1>2, OfCall
    <2>2. s \in SinkType
      BY <2>1, OfSinks
    <2>3. Holds(s, 2, k) /\ 2 \in Nat
      BY <1>1, <1>3
    <2>4. s.pos = Len(s.file) /\ Len(s.file) = 2 + k
      <3> HIDE DEF s, k
      <3> QED  BY <1>4, <2>2, <2>3, WholeBody
    <2> QED  BY <2>1, <2>2, <2>4
  <1>6. tag \in Item /\ tag.frames = k /\ tag.total = k + 1 /\ tag.padding = LamePadding(k, n)
    <2>1. s.pos - e.tagOff = k + 1 /\ k + 1 \in Int
      <3> HIDE DEF k, s
      <3> QED  BY <1>2, <1>4, <1>5
    <2>2. /\ FinalTag(k + 1) \in Item /\ FinalTag(k + 1).frames = FramesOf(enc)
          /\ FinalTag(k + 1).total = k + 1
          /\ FinalTag(k + 1).padding = LamePadding(FramesOf(enc), e.samplesIn)
      BY <2>1, FinalTagType
    <2> QED  BY <1>4, <2>1, <2>2
  <1> HIDE DEF tag
  <1>7. /\ back \in SinkType /\ back.pos = 1 /\ back.file = s.file /\ back.seekable
        /\ tagged \in SinkType /\ tagged.pos = 2 /\ tagged.seekable
        /\ Len(s.file) = 2 + k /\ Len(tagged.file) = 2 + k /\ tagged.file[2] = tag
        /\ \A j \in 1..k : tagged.file[2 + j] = Coded(j)
    <2>1. Holds(s, 2, k)
      BY <1>1, <1>3
    <2>2. back \in SinkType /\ back.pos = 1 /\ back.file = s.file /\ back.seekable = s.seekable
      <3>1. s \in SinkType /\ e.tagOff \in Nat /\ e.tagOff = 1
        BY <1>2, <1>5
      <3> HIDE DEF s
      <3> QED  BY <3>1, Seeked
    <2>3. s.seekable /\ tagged = Put(back, <<tag>>)
      BY <1>2
    <2>4. s \in SinkType /\ k \in Nat \ {0} /\ tag \in Item
      BY <1>4, <1>5, <1>6
    <2> HIDE DEF s, k, back, tagged
    <2>5. /\ Put(back, <<tag>>) \in SinkType /\ Put(back, <<tag>>).pos = 2
          /\ Put(back, <<tag>>).seekable = s.seekable
      BY <2>1, <2>2, <2>4, PatchFacts
    <2>6. /\ Len(s.file) = 2 + k /\ Len(Put(back, <<tag>>).file) = 2 + k
          /\ Put(back, <<tag>>).file[2] = tag
      BY <2>1, <2>2, <2>4, PatchFacts
    <2>7. \A j \in 1..k : Put(back, <<tag>>).file[2 + j] = Coded(j)
      BY <2>1, <2>2, <2>4, PatchFacts
    <2> QED  BY <2>2, <2>3, <2>5, <2>6, <2>7
  <1> HIDE DEF back
  <1>8. done \in SinkType /\ done.pos = s.pos /\ done.file = tagged.file /\ done.seekable
    <2>1. tagged \in SinkType /\ s.pos \in Nat
      BY <1>5, <1>7 DEF SinkType
    <2> HIDE DEF tagged, s
    <2> QED  BY <1>7, <2>1, Seeked
  <1>tail. /\ SubSeq(tagged.file, 3, Len(tagged.file)) = CodedRun(1, k)
         /\ SubSeq(tagged.file, 2, Len(tagged.file)) = <<tag>> \o CodedRun(1, k)
    <2>1. s.pos = 2 + k /\ Len(tagged.file) = 2 + k /\ tagged.file[2] = tag /\ tagged.file \in Seq(Item)
      BY <1>5, <1>7 DEF SinkType
    <2>2. Holds(done, 2, k) /\ done \in SinkType /\ 2 \in Nat /\ k \in Nat \ {0} /\ done.file = tagged.file
      <3>1. done.pos = 2 + k /\ Len(done.file) = 2 + k /\ \A j \in 1..k : done.file[2 + j] = Coded(j)
        BY <1>7, <1>8, <2>1
      <3> HIDE DEF done, k, tagged
      <3>2. done.pos <= Len(done.file) /\ Len(done.file) <= 2 + Most(k, 1)
        BY <1>4, <3>1 DEF Most
      <3> QED  BY <1>4, <1>8, <3>1, <3>2 DEF Holds
    <2> HIDE DEF done, k, tagged
    <2>3. SubSeq(done.file, 2 + 1, Len(done.file)) = CodedRun(1, k)
      BY <2>2, WholeBody
    <2>4. SubSeq(tagged.file, 2, Len(tagged.file)) = <<tagged.file[2]>> \o SubSeq(tagged.file, 2 + 1, Len(tagged.file))
      <3>1. 2 \in 1..Len(tagged.file)
        BY <2>1, <2>2
      <3> QED  BY <2>1, <3>1, HeadTail
    <2> QED  BY <2>1, <2>2, <2>3, <2>4
  <1>9. /\ s.file[2] = Placeholder
        /\ \A left \in {s, back, tagged, done} :
              /\ left \in SinkType /\ left.pos <= Len(left.file) /\ left.seekable /\ Len(left.file) = 2 + k
              /\ \/ left.file[2] = Placeholder
                 \/ left.file[2] = tag /\ SubSeq(left.file, 3, Len(left.file)) = CodedRun(1, k)
    <2>1. s.file[2] = Placeholder
      BY <1>1 DEF IInv, Reserved
    <2>2. 1 <= 2 + k /\ 2 <= 2 + k
      <3> HIDE DEF k
      <3> QED  BY <1>4
    <2>3. s.seekable
      BY <1>2
    <2> HIDE DEF s, k, tagged, done
    <2>4. /\ s.pos <= Len(s.file) /\ back.pos <= Len(back.file) /\ tagged.pos <= Len(tagged.file)
          /\ done.pos <= Len(done.file)
      BY <1>5, <1>7, <1>8, <2>2
    <2>5. Len(s.file) = 2 + k /\ Len(back.file) = 2 + k /\ Len(tagged.file) = 2 + k /\ Len(done.file) = 2 + k
      BY <1>7, <1>8
    <2>6. back.file[2] = Placeholder /\ done.file[2] = tag
          /\ SubSeq(done.file, 3, Len(done.file)) = CodedRun(1, k)
      BY <1>7, <1>8, <1>tail, <2>1
    <2> QED  BY <1>5, <1>7, <1>8, <1>tail, <2>1, <2>3, <2>4, <2>5, <2>6
  <1>10. PICK left \in {s, back, tagged, done} :
            /\ sinks' = [sinks EXCEPT ![e.seeker] = left] /\ faults' \in Nat
            /\ \/ left = done /\ ret' = Ret("close", 0, "none")
               \/ ret' = Ret("close", 0, "sink")
    <2>1. faults \in Nat /\ faults + 1 \in Nat
      BY OfCall
    <2>2. CASE /\ sinks' = [sinks EXCEPT ![e.seeker] = [tagged EXCEPT !.pos = s.pos]]
               /\ ret' = Ret("close", 0, "none") /\ UNCHANGED faults
      BY <2>1, <2>2
    <2>3. CASE /\ \E left \in {s, back, tagged} : sinks' = [sinks EXCEPT ![e.seeker] = left]
               /\ ret' = Ret("close", 0, "sink") /\ faults' = faults + 1
      BY <2>1, <2>3
    <2> QED  BY <2>2, <2>3 DEF ClosePatch, back, tag
  <1> HIDE DEF s, tagged, done, k
  <1>11. /\ left \in SinkType /\ left.pos <= Len(left.file) /\ left.seekable /\ Len(left.file) = 2 + k
         /\ \/ left.file[2] = Placeholder
            \/ left.file[2] = tag /\ SubSeq(left.file, 3, Len(left.file)) = CodedRun(1, k)
    BY <1>9
  <1>12. /\ sinks' \in [0..MaxStreams -> SinkType] /\ sinks'[e.seeker] = left
         /\ \A j \in 0..MaxStreams : j # e.seeker => sinks'[j] = sinks[j]
    BY <1>5, <1>10, <1>11 DEF IInv, Types
  <1>13. \A j \in 0..MaxStreams : sinks'[j].pos <= Len(sinks'[j].file)
    BY <1>11, <1>12, OfSinks
  <1>14. /\ call' \in CallType /\ call'.at = "idle" /\ call'.err = "none" /\ call'.n = 0 /\ call' = IdleCall
         /\ ret' \in RetType /\ ret'.op = "close"
    BY <1>1, <1>10, IdleCallType DEF IdleCall, Ret, RetType, Errors
  <1>15. Types'
    BY <1>1, <1>10, <1>12, <1>14 DEF IInv, Types
  <1>16. TypeOK'
    <2>1. ret'.err \in Errors /\ call'.err \in Errors /\ DOMAIN sinks' = 0..MaxStreams
      BY <1>12, <1>14 DEF RetType, CallType
    <2> QED  BY <1>1, <1>13, <2>1 DEF IInv, TypeOK, FramesOf
  <1>17. Phases'
    <2>1. e.w # NoSink
      BY <1>1
    <2> QED  BY <1>1, <1>2, <1>14, <2>1 DEF Phases, Running
  <1>18. Attached'
    <2>1. job.at # "body" /\ UNCHANGED <<job, streams>> /\ e'.w = e.w /\ e'.seeker = e.seeker /\ e'.tagOff = e.tagOff
      BY <1>1, <1>2
    <2>2. sinks'[e.w].seekable = sinks[e.w].seekable
      <3>1. sinks'[e.w].seekable /\ sinks[e.w].seekable
        BY <1>1, <1>2, <1>11, <1>12 DEF s
      <3>2. sinks'[e.w].seekable \in BOOLEAN /\ sinks[e.w].seekable \in BOOLEAN
        BY <1>1, <1>5, <1>11, <1>12 DEF SinkType, s
      <3> QED  BY <3>1, <3>2
    <2> QED  BY <1>1, <1>12, <2>1, <2>2, AttachedKept
  <1>19. Reported'
    <2>1. D' = D /\ Todo' = 0 /\ Todo = 0
      BY <1>1, <1>2 DEF D, Todo
    <2>2. next - 1 + call.n + Todo <= MaxBytes /\ enc.durable = Bytes(1, D)
      BY DEF IInv, Reported
    <2>3. next' - 1 + call'.n + Todo' <= MaxBytes
      <3>1. next \in Nat /\ call.n \in Nat /\ MaxBytes \in Nat /\ next' = next
        BY <1>1, OfCall, Sizes
      <3>2. next - 1 + call.n + 0 <= MaxBytes
        BY <2>1, <2>2
      <3>3. next - 1 + 0 + 0 <= MaxBytes
        BY <3>1, <3>2
      <3> QED  BY <1>14, <2>1, <3>1, <3>3
    <2> QED  BY <1>1, <1>14, <2>1, <2>2, <2>3 DEF Reported, Running
  <1>20. Sound'
    <2>1. Counted'
      BY <1>1 DEF Counted
    <2>2. ~Running'
      BY <1>1, <1>14 DEF Running
    <2> QED  BY <1>1, <1>14, <2>1, <2>2 DEF Sound
  <1>21. Reserved'
    <2>1. Len(left.file) >= 2
      BY <1>4, <1>11
    <2> QED  BY <1>1, <1>12, <1>14, <2>1 DEF Reserved
  <1>22. TagOnlyOverHealthy'
    <2>1. e'.seeker = streams' /\ enc'.drained /\ e'.tagOff = 1 /\ sinks'[e'.seeker] = left
      BY <1>1, <1>2, <1>12
    <2>2. \A j \in DOMAIN enc'.frames : enc'.frames[j].ok
      BY <1>1, <1>4
    <2>3. tag.frames = FramesOf(enc')
      BY <1>1, <1>6 DEF k
    <2>4. 1 + 1 = 2 /\ 1 + 2 = 3
      OBVIOUS
    <2>5. SubSeq(left.file, 3, Len(left.file)) = CodedRun(1, k) =>
             SubSeq(left.file, 3, Len(left.file)) = CodedRun(1, tag.frames)
      BY <1>6
    <2> QED  BY <1>11, <2>1, <2>2, <2>3, <2>4, <2>5 DEF TagOnlyOverHealthy
  <1>23. ReturnMeansSink'
    <2>1. ASSUME ret'.err = "none" PROVE Complete(sinks[e.w], next - 1, TRUE)'
      <3>1. left = done
        BY <1>10, <2>1 DEF Ret
      <3>2. /\ sinks'[e'.w] = done /\ next' = next /\ done.pos = Len(done.file) /\ Start(done) = 1
            /\ done.file = tagged.file
        BY <1>1, <1>5, <1>7, <1>8, <1>12, <3>1 DEF Start
      <3>3. enc'.frames = InputFrames(next - 1)'
        BY <1>1 DEF Counted
      <3>4. Playable(tag.frames * FrameSize, EncoderDelay, tag.padding) = n
        BY <1>4, <1>6, RoundTrip
      <3> DEFINE file == SubSeq(done.file, 2, Len(done.file))
      <3>5. file = <<tag>> \o CodedRun(1, k) /\ file[1] = tag
        <4>1. file = <<tag>> \o CodedRun(1, k)
          BY <1>8, <1>tail
        <4>2. CodedRun(1, k) \in Seq(Item)
          <5> DEFINE f == 1
          <5>1. f \in Nat /\ k \in Int /\ f <= k + 1
            BY <1>4
          <5> HIDE DEF f
          <5>2. CodedRun(f, k) \in Seq(Item)
            BY <5>1, CodedRunFacts
          <5> QED  BY <5>2 DEF f
        <4>3. (<<tag>> \o CodedRun(1, k))[1] = tag
          BY <1>6, <4>2
        <4> QED  BY <4>1, <4>3
      <3> HIDE DEF file
      <3>6. tag.total = k + 1 /\ FramesCoded((next' - 1) \div Stride) = k
        BY <1>4, <1>6, <3>2
      <3>7. file = SubSeq(done.file, 1 + 1, Len(done.file))
        BY DEF file
      <3>8. Playable(tag.frames * FrameSize, EncoderDelay, tag.padding) = (next' - 1) \div Stride
        BY <3>2, <3>4
      <3> HIDE DEF n
      <3> QED  BY <3>2, <3>3, <3>5, <3>6, <3>7, <3>8 DEF Complete
    <2>2. e'.w # NoSink /\ e'.seeker # NoSink /\ TRUE = (e'.seeker # NoSink)
      BY <1>1
    <2> QED  BY <1>14, <2>1, <2>2 DEF ReturnMeansSink
  <1> QED  BY <1>15, <1>16, <1>17, <1>18, <1>19, <1>20, <1>21, <1>22, <1>23 DEF IInv

-----------------------------------------------------------------------------
(***************************************************************************)
(* Reset, and the one-shot's own encoder.                                  *)
(***************************************************************************)
LEMMA SinkFacts ==
    ASSUME NEW b \in BOOLEAN
    PROVE  /\ Sink(b) \in SinkType /\ Sink(b).seekable = b
           /\ Sink(b).pos = (IF b THEN 1 ELSE 0) /\ Len(Sink(b).file) = (IF b THEN 2 ELSE 0)
           /\ Sink(b).pos <= Len(Sink(b).file)
           /\ Holds(Sink(b), Start(Sink(b)), 0)
  <1>1. Old \in Item
    BY DEF Old, Item
  <1>2. <<Old, Old>> \in Seq(Item) /\ Len(<<Old, Old>>) = 2
    BY <1>1
  <1>3. <<>> \in Seq(Item) /\ Len(<<>>) = 0
    BY EmptySeq
  <1> DEFINE file == IF b THEN <<Old, Old>> ELSE <<>>
  <1>4. file \in Seq(Item) /\ Len(file) = IF b THEN 2 ELSE 0
    BY <1>2, <1>3
  <1> HIDE DEF file
  <1>5. Sink(b) = [seekable |-> b, file |-> file, pos |-> IF b THEN 1 ELSE 0]
    BY DEF Sink, file
  <1>6. /\ Sink(b) \in SinkType /\ Sink(b).file = file /\ Sink(b).pos = (IF b THEN 1 ELSE 0)
        /\ Sink(b).seekable = b
    BY <1>4, <1>5 DEF SinkType
  <1>7. Start(Sink(b)) = IF b THEN 1 ELSE 0
    BY <1>6 DEF Start
  <1>8. Holds(Sink(b), Start(Sink(b)), 0)
    BY <1>4, <1>6, <1>7 DEF Holds, Most
  <1>9. Sink(b).pos <= Len(Sink(b).file) /\ Len(Sink(b).file) = (IF b THEN 2 ELSE 0)
    <2>1. Len(Sink(b).file) = Len(file)
      BY <1>6
    <2>2. Len(Sink(b).file) = (IF b THEN 2 ELSE 0)
      BY <1>4, <2>1
    <2> QED  BY <1>6, <2>2
  <1> QED  BY <1>6, <1>8, <1>9

LEMMA ReservedSink ==
    LET s == Put(Sink(TRUE), <<Placeholder>>)
    IN  /\ s \in SinkType /\ s.seekable /\ s.pos = 2 /\ Len(s.file) = 2
        /\ s.file[2] = Placeholder /\ Holds(s, 2, 0)
  <1> DEFINE one == <<Placeholder>>
             b == TRUE
             s == Put(Sink(b), one)
  <1>1. Placeholder \in Item
    BY DEF Placeholder, Tag, Item
  <1>2. one \in Seq(Item) /\ Len(one) = 1 /\ one[1] = Placeholder
    BY <1>1
  <1>3. /\ Sink(b) \in SinkType /\ Sink(b).seekable = TRUE /\ Sink(b).pos = 1
        /\ Len(Sink(b).file) = 2 /\ Sink(b).pos <= Len(Sink(b).file)
    BY SinkFacts
  <1> HIDE DEF one, b
  <1>4. /\ Put(Sink(b), one) \in SinkType
        /\ Put(Sink(b), one).seekable = Sink(b).seekable
        /\ Put(Sink(b), one).pos = Sink(b).pos + Len(one)
        /\ Len(Put(Sink(b), one).file) = Most(Len(Sink(b).file), Sink(b).pos + Len(one))
        /\ \A j \in 1..Len(one) : Put(Sink(b), one).file[Sink(b).pos + j] = one[j]
    <2> DEFINE z == Sink(b)
    <2>1. z \in SinkType /\ z.pos <= Len(z.file)
      BY <1>3
    <2> HIDE DEF z
    <2>2. Put(z, one) \in SinkType /\ Put(z, one).seekable = z.seekable /\ Put(z, one).pos = z.pos + Len(one)
      BY <1>2, <2>1, PutFacts
    <2>3. /\ Len(Put(z, one).file) = Most(Len(z.file), z.pos + Len(one))
          /\ \A j \in 1..Len(one) : Put(z, one).file[z.pos + j] = one[j]
      BY <1>2, <2>1, PutFacts
    <2> QED  BY <2>2, <2>3 DEF z
  <1>5. Sink(b).pos + Len(one) = 2 /\ Sink(b).pos + 1 = 2 /\ 1 \in 1..Len(one) /\ Most(2, 2) = 2
    BY <1>2, <1>3 DEF Most
  <1>6. /\ s \in SinkType /\ s.seekable /\ s.pos = 2 /\ Len(s.file) = 2 /\ s.file[2] = Placeholder
    <2>1. Put(Sink(b), one).file[Sink(b).pos + 1] = one[1]
      BY <1>4, <1>5
    <2> QED  BY <1>2, <1>3, <1>4, <1>5, <2>1
  <1> HIDE DEF s
  <1>7. Holds(s, 2, 0)
    BY <1>6 DEF Holds, Most
  <1> QED  BY <1>6, <1>7 DEF s, one, b

LEMMA NewEncFacts ==
    /\ NewEnc \in EncType /\ NewEnc.frames = <<>> /\ NewEnc.durable = <<>> /\ NewEnc.sent = 0
    /\ ~NewEnc.final /\ ~NewEnc.drained /\ Len(NewEnc.frames) = 0 /\ Len(NewEnc.durable) = 0
    /\ FramesOf(NewEnc) = 0 /\ Bytes(1, 0) = <<>>
  <1>1. <<>> \in Seq(FrameType) /\ <<>> \in Seq(Int) /\ Len(<<>>) = 0
    BY EmptySeq
  <1>2. Bytes(1, 0) = <<>>
    BY BytesEmpty
  <1> QED  BY <1>1, <1>2 DEF NewEnc, EncType, FramesOf, Most

\* A stream that begins, or failed to.
LEMMA NewStream ==
    ASSUME IInv, Idle, streams' = streams + 1, streams' <= MaxStreams,
           enc' = NewEnc, next' = 1, call' = call, faults' \in Nat,
           NEW closed \in BOOLEAN, NEW w \in {Body, streams'}, NEW seeker \in {NoSink, streams'},
           e' = [closed |-> closed, w |-> w, seeker |-> seeker,
                 tagOff |-> IF seeker = NoSink THEN 0 ELSE 1,
                 carry |-> <<>>, samplesIn |-> 0, streamErr |-> "none"],
           sinks' \in [0..MaxStreams -> SinkType],
           \A j \in 0..MaxStreams : sinks'[j].pos <= Len(sinks'[j].file),
           job' \in JobType, job'.at \in {"off", "write"}, Todo' <= MaxBytes,
           ret' \in RetType, ret'.op \in {"none", "reset"},
           job'.at = "off" => w # Body,
           job'.at # "off" => /\ ~closed /\ seeker = NoSink /\ ~sinks'[w].seekable
                              /\ w = (IF job'.tagged THEN Body ELSE streams')
                              /\ job'.tagged => sinks'[streams'] = Sink(FALSE),
           seeker # NoSink => /\ ~closed /\ w = seeker /\ sinks'[seeker].seekable /\ Len(sinks'[seeker].file) = 2
                              /\ sinks'[seeker].pos = 2 /\ sinks'[seeker].file[2] = Placeholder,
           ~closed => Holds(sinks'[w], Lead', 0)
    PROVE  IInv'
  <1>1. /\ streams' \in 1..MaxStreams /\ MaxStreams \in Nat /\ MaxBytes \in Nat /\ FrameBytes \in Nat \ {0}
        /\ streams' # NoSink /\ Body # NoSink /\ {w, seeker} \subseteq NoSink..MaxStreams /\ w # NoSink
    <2>1. streams \in 0..MaxStreams /\ MaxStreams \in Nat
      BY OfCall, Sizes
    <2>2. streams' \in 1..MaxStreams
      BY <2>1
    <2> QED  BY <2>1, <2>2, Sizes DEF NoSink, Body
  <1>2. /\ e' \in EType /\ e'.closed = closed /\ e'.w = w /\ e'.seeker = seeker
        /\ e'.tagOff = (IF seeker = NoSink THEN 0 ELSE 1)
        /\ e'.carry = <<>> /\ e'.samplesIn = 0 /\ e'.streamErr = "none" /\ Len(e'.carry) = 0
    BY <1>1, EmptySeq DEF EType, Errors
  <1>3. call' = IdleCall /\ call'.at = "idle" /\ call'.err = "none" /\ call'.n = 0 /\ call' \in CallType
    BY IdleCallType DEF Idle, IInv, Phases, IdleCall
  <1>4. D' = 0 /\ enc'.durable = Bytes(1, D') /\ Len(enc'.frames) = 0 /\ enc'.frames = <<>>
    BY NewEncFacts DEF D
  <1>5. Types'
    BY <1>1, <1>2, <1>3, NewEncFacts DEF Types
  <1>6. TypeOK'
    <2>1. /\ e'.closed \in BOOLEAN /\ {e'.w, e'.seeker} \subseteq NoSink..MaxStreams
          /\ e'.carry \in Seq(1..MaxBytes) /\ e'.streamErr \in Errors /\ Len(e'.carry) < FrameBytes
          /\ ret'.err \in Errors /\ call'.err \in Errors /\ DOMAIN sinks' = 0..MaxStreams
      BY <1>1, <1>2, <1>3 DEF EType, CallType, RetType
    <2>2. next' \in 1..MaxBytes + 1
      BY <1>1
    <2>3. enc'.sent <= FramesOf(enc')
      BY NewEncFacts
    <2> QED  BY <2>1, <2>2, <2>3 DEF TypeOK
  <1>7. Phases'
    BY <1>1, <1>2, <1>3, NewEncFacts DEF Phases, Running
  <1>8. Attached'
    <2>1. streams' > 0
      BY <1>1
    <2> QED  BY <1>1, <1>2, <2>1 DEF Attached
  <1>9. Reported'
    <2>1. next' - 1 = 0 /\ D' + 1 = 1 /\ D' <= next' - 1
      BY <1>4
    <2>2. e'.carry = Bytes(D' + 1, next' - 1)
      BY <1>2, <2>1, NewEncFacts
    <2>3. next' - 1 + call'.n + Todo' <= MaxBytes
      <3> DEFINE u == Todo'
      <3>1. u \in Nat /\ u <= MaxBytes
        BY DEF Todo, JobType
      <3> HIDE DEF u
      <3>2. 0 + 0 + u <= MaxBytes
        BY <1>1, <3>1
      <3> QED  BY <1>3, <2>1, <3>2 DEF u
    <2> QED  BY <1>3, <1>4, <2>1, <2>2, <2>3 DEF Reported
  <1>10. Sound'
    <2>1. ASSUME ~closed
          PROVE  /\ D' = Len(enc'.frames) * FrameBytes /\ e'.samplesIn = Len(enc'.frames) * FrameSize
                 /\ \A k \in DOMAIN enc'.frames : enc'.frames[k] = FullFrame(k)
                 /\ Holds(sinks'[e'.w], Lead', enc'.sent)
      <3>1. 0 * FrameBytes = 0 /\ 0 * FrameSize = 0
        BY Sizes
      <3>2. \A k \in DOMAIN enc'.frames : FALSE
        BY <1>4
      <3> QED  BY <1>2, <1>4, <2>1, <3>1, <3>2, NewEncFacts
    <2> QED  BY <1>2, <1>3, <2>1 DEF Sound, Running
  <1>11. Reserved'
    BY <1>2 DEF Reserved
  <1>12. TagOnlyOverHealthy'
    BY <1>1, <1>2 DEF TagOnlyOverHealthy
  <1>13. ReturnMeansSink'
    BY DEF ReturnMeansSink
  <1> QED  BY <1>5, <1>6, <1>7, <1>8, <1>9, <1>10, <1>11, <1>12, <1>13 DEF IInv

LEMMA ResetRefusedInv == IInv /\ ResetRefused => IInv'
  <1> SUFFICES ASSUME IInv, ResetRefused PROVE IInv'
    OBVIOUS
  <1>1. /\ call.at = "idle" /\ job.at = "off" /\ e' = [e EXCEPT !.closed = TRUE, !.w = NoSink]
        /\ ret' = Ret("reset", 0, "argument") /\ UNCHANGED <<enc, sinks, call, job, next, streams, faults>>
    BY DEF ResetRefused, Idle
  <1>2. /\ e' \in EType /\ e'.closed = TRUE /\ e'.w = NoSink /\ e'.seeker = e.seeker
        /\ e'.tagOff = e.tagOff /\ e'.carry = e.carry /\ e'.streamErr = e.streamErr
    <2>1. e \in EType /\ NoSink \in NoSink..MaxStreams
      BY OfE, Sizes DEF NoSink
    <2> QED  BY <1>1, <2>1 DEF EType
  <1>3. ret' \in RetType /\ ret'.op = "reset" /\ ret'.err = "argument"
    BY <1>1 DEF Ret, RetType, Errors
  <1>4. call = IdleCall /\ call.err = "none"
    BY <1>1 DEF IInv, Phases, IdleCall
  <1>5. Types'
    BY <1>1, <1>2, <1>3 DEF IInv, Types
  <1>6. TypeOK'
    <2>1. {e'.w, e'.seeker} \subseteq NoSink..MaxStreams /\ e'.streamErr \in Errors
          /\ ret'.err \in Errors
      BY <1>2, <1>3 DEF EType, RetType
    <2> QED  BY <1>1, <1>2, <2>1 DEF IInv, TypeOK, FramesOf
  <1>7. Phases'
    BY <1>1, <1>2, <1>3, <1>4 DEF Phases, Running
  <1>8. Attached'
    <2>1. e'.w # Body
      BY <1>2 DEF NoSink, Body
    <2> QED  BY <1>1, <1>2, <2>1 DEF IInv, Attached
  <1>9. Reported'
    <2>1. D' = D /\ Todo' = Todo /\ ~Running'
      BY <1>1, <1>2 DEF D, Todo, Running
    <2> QED  BY <1>1, <2>1 DEF IInv, Reported
  <1>10. Sound'
    BY <1>1, <1>2, <1>3 DEF Sound, Running
  <1>11. Reserved'
    BY <1>1, <1>2 DEF IInv, Reserved
  <1>12. TagOnlyOverHealthy'
    BY <1>1, <1>2 DEF IInv, TagOnlyOverHealthy, FramesOf
  <1>13. ReturnMeansSink'
    BY <1>3 DEF ReturnMeansSink
  <1> QED  BY <1>5, <1>6, <1>7, <1>8, <1>9, <1>10, <1>11, <1>12, <1>13 DEF IInv

LEMMA ResetInv ==
    ASSUME IInv, NEW seekable \in BOOLEAN, NEW omitTag \in BOOLEAN, Reset(seekable, omitTag)
    PROVE  IInv'
  <1> DEFINE k == streams + 1
             tagged == seekable /\ ~omitTag
             fresh == Sink(seekable)
             kept == IF tagged THEN Put(fresh, <<Placeholder>>) ELSE fresh
  <1>1. /\ Idle /\ k <= MaxStreams /\ streams' = k /\ next' = 1 /\ enc' = NewEnc /\ UNCHANGED <<call, job>>
        /\ tagged \in BOOLEAN /\ job' \in JobType /\ job'.at = "off" /\ Todo' = 0
        /\ k \in 1..MaxStreams /\ k # NoSink /\ k # Body
    <2>1. /\ Idle /\ k <= MaxStreams /\ streams' = k /\ next' = 1 /\ enc' = NewEnc /\ UNCHANGED <<call, job>>
      BY DEF Reset
    <2>2. job \in JobType /\ job.at = "off"
      BY <2>1 DEF IInv, Types, Idle
    <2>3. streams \in 0..MaxStreams /\ MaxStreams \in Nat
      BY OfCall, Sizes
    <2> QED  BY <2>1, <2>2, <2>3 DEF Todo, NoSink, Body
  <1>2. /\ fresh \in SinkType /\ fresh.seekable = seekable /\ fresh.pos = (IF seekable THEN 1 ELSE 0)
        /\ fresh.pos <= Len(fresh.file) /\ Holds(fresh, Start(fresh), 0)
    BY SinkFacts
  <1>3. /\ kept \in SinkType /\ kept.seekable = seekable /\ kept.pos <= Len(kept.file)
        /\ tagged => /\ kept.pos = 2 /\ Len(kept.file) = 2 /\ kept.file[2] = Placeholder
                     /\ Holds(kept, 2, 0)
        /\ ~tagged => Holds(kept, Start(kept), 0)
    <2>1. CASE tagged
      <3>1. kept = Put(Sink(TRUE), <<Placeholder>>) /\ seekable = TRUE
        BY <2>1
      <3> HIDE DEF kept
      <3>2. kept \in SinkType /\ kept.seekable /\ kept.pos = 2 /\ Len(kept.file) = 2
            /\ kept.file[2] = Placeholder /\ Holds(kept, 2, 0)
        BY <3>1, ReservedSink
      <3>3. kept.seekable = seekable
        <4>1. kept.seekable \in BOOLEAN
          BY <3>2 DEF SinkType
        <4> QED  BY <3>1, <3>2, <4>1
      <3>4. kept.pos <= Len(kept.file)
        BY <3>2
      <3> QED  BY <2>1, <3>2, <3>3, <3>4
    <2>2. CASE ~tagged
      <3>1. kept = fresh
        BY <2>2
      <3> QED  BY <1>2, <2>2, <3>1
    <2> QED  BY <2>1, <2>2
  <1> HIDE DEF kept, fresh
  <1>4. MaxBytes \in Nat /\ faults \in Nat /\ MaxStreams \in Nat
    BY OfCall, Sizes
  <1>5. CASE /\ e' = Opened(k, tagged, fresh.pos) /\ sinks' = [sinks EXCEPT ![k] = kept]
             /\ ret' = Ret("reset", 0, "none") /\ UNCHANGED faults
    <2> DEFINE seeker == IF tagged THEN k ELSE NoSink
    <2>1. e' = [closed |-> FALSE, w |-> k, seeker |-> seeker,
                tagOff |-> IF seeker = NoSink THEN 0 ELSE 1,
                carry |-> <<>>, samplesIn |-> 0, streamErr |-> "none"]
      BY <1>1, <1>2, <1>5 DEF Opened, SeekerOf
    <2>2. ret' \in RetType /\ ret'.op = "reset"
      BY <1>5 DEF Ret, RetType, Errors
    <2>3. /\ sinks' \in [0..MaxStreams -> SinkType] /\ sinks'[k] = kept
          /\ \A j \in 0..MaxStreams : j # k => sinks'[j] = sinks[j]
      BY <1>1, <1>3, <1>4, <1>5 DEF IInv, Types
    <2>4. \A j \in 0..MaxStreams : sinks'[j].pos <= Len(sinks'[j].file)
      BY <1>3, <2>3, OfSinks
    <2>5. Lead' = IF tagged THEN 2 ELSE Start(kept)
      <3>1. e'.w = k /\ e'.seeker = seeker
        BY <2>1
      <3>2. tagged => Start(kept) = 1 /\ seeker # NoSink
        BY <1>1, <1>3 DEF Start
      <3>3. ~tagged => Start(kept) + 0 = Start(kept) /\ seeker = NoSink
        BY DEF Start
      <3> HIDE DEF tagged, seeker
      <3> QED  BY <2>3, <3>1, <3>2, <3>3 DEF Lead
    <2>6. Holds(sinks'[k], Lead', 0)
      BY <1>3, <2>3, <2>5
    <2>7. seeker # NoSink => /\ seeker = k /\ sinks'[seeker].seekable /\ Len(sinks'[seeker].file) = 2
                             /\ sinks'[seeker].pos = 2 /\ sinks'[seeker].file[2] = Placeholder
      BY <1>3, <2>3
    <2>8. seeker \in {NoSink, streams'} /\ k \in {Body, streams'} /\ Todo' <= MaxBytes /\ FALSE \in BOOLEAN
          /\ faults' \in Nat
      BY <1>1, <1>4, <1>5
    <2> HIDE DEF seeker, tagged, k
    <2> QED  BY <1>1, <2>1, <2>2, <2>3, <2>4, <2>6, <2>7, <2>8, NewStream DEF k
  <1>6. CASE /\ e' = [Opened(k, FALSE, 0) EXCEPT !.closed = TRUE] /\ sinks' = [sinks EXCEPT ![k] = fresh]
             /\ ret' = Ret("reset", 0, "sink") /\ faults' = faults + 1
    <2> DEFINE none == NoSink
    <2>1. e' = [closed |-> TRUE, w |-> k, seeker |-> none,
                tagOff |-> IF none = NoSink THEN 0 ELSE 1,
                carry |-> <<>>, samplesIn |-> 0, streamErr |-> "none"]
      BY <1>6 DEF Opened, SeekerOf
    <2>2. ret' \in RetType /\ ret'.op = "reset"
      BY <1>6 DEF Ret, RetType, Errors
    <2>3. /\ sinks' \in [0..MaxStreams -> SinkType] /\ sinks'[k] = fresh
          /\ \A j \in 0..MaxStreams : j # k => sinks'[j] = sinks[j]
      BY <1>1, <1>2, <1>4, <1>6 DEF IInv, Types
    <2>4. \A j \in 0..MaxStreams : sinks'[j].pos <= Len(sinks'[j].file)
      BY <1>2, <2>3, OfSinks
    <2>5. none \in {NoSink, streams'} /\ k \in {Body, streams'} /\ Todo' <= MaxBytes /\ TRUE \in BOOLEAN
          /\ faults' \in Nat /\ none = NoSink
      BY <1>1, <1>4, <1>6
    <2> HIDE DEF none, k
    <2> QED  BY <1>1, <2>1, <2>2, <2>3, <2>4, <2>5, NewStream DEF k
  <1> QED  BY <1>5, <1>6 DEF Reset, kept, fresh

LEMMA OneShotInv ==
    ASSUME IInv, NEW n \in 0..MaxBytes, NEW tagged \in BOOLEAN, OneShot(n, tagged)
    PROVE  IInv'
  <1> DEFINE k == streams + 1
             w == IF tagged THEN Body ELSE k
             none == NoSink
  <1>1. /\ Idle /\ k <= MaxStreams /\ UNCHANGED <<call, faults>> /\ job \in JobType /\ job.at = "off"
    BY DEF OneShot, Idle, IInv, Types
  <1>2. CASE n % Stride # 0
    <2>1. job' = [job EXCEPT !.at = "off"] /\ ret' = Ret("oneShot", 0, "partial")
          /\ UNCHANGED <<e, enc, sinks, next, streams>>
      BY <1>2 DEF OneShot, OneShotReturns
    <2>2. job' = job
      BY <1>1, <2>1 DEF JobType
    <2>3. ret' \in RetType /\ ret'.op # "close" /\ ret'.err = "partial"
      BY <2>1 DEF Ret, RetType, Errors
    <2> QED  BY <1>1, <2>1, <2>2, <2>3, OnlyRet DEF Idle
  <1>3. CASE n % Stride = 0
    <2>1. /\ job' = [at |-> "write", tagged |-> tagged, todo |-> n]
          /\ streams' = k /\ next' = 1 /\ enc' = NewEnc
          /\ sinks' = [sinks EXCEPT ![k] = Sink(FALSE), ![Body] = Sink(FALSE)]
          /\ e' = Opened(w, FALSE, 0) /\ ret' = Ret("none", 0, "none")
      BY <1>3 DEF OneShot
    <2>2. k \in 1..MaxStreams /\ MaxStreams \in Nat /\ MaxBytes \in Nat /\ faults \in Nat
      <3>1. streams \in 0..MaxStreams /\ MaxStreams \in Nat /\ MaxBytes \in Nat /\ faults \in Nat
        BY OfCall, Sizes
      <3> QED  BY <1>1, <3>1
    <2>3. Sink(FALSE) \in SinkType /\ Sink(FALSE).pos <= Len(Sink(FALSE).file)
          /\ ~Sink(FALSE).seekable /\ Holds(Sink(FALSE), 0, 0)
      <3> DEFINE b == FALSE
      <3>1. b \in BOOLEAN /\ ~b
        OBVIOUS
      <3> HIDE DEF b
      <3>2. Sink(b) \in SinkType /\ Sink(b).pos <= Len(Sink(b).file)
            /\ Sink(b).seekable = b /\ Holds(Sink(b), Start(Sink(b)), 0)
        BY <3>1, SinkFacts
      <3>3. ~Sink(b).seekable /\ Start(Sink(b)) = 0
        BY <3>1, <3>2 DEF Start
      <3> QED  BY <3>2, <3>3 DEF b
    <2>4. /\ sinks' \in [0..MaxStreams -> SinkType] /\ sinks'[k] = Sink(FALSE) /\ sinks'[Body] = Sink(FALSE)
          /\ \A j \in 0..MaxStreams : j \notin {k, Body} => sinks'[j] = sinks[j]
      <3> DEFINE z == Sink(FALSE)
                 mid == [sinks EXCEPT ![k] = z]
      <3>1. z \in SinkType
        BY <2>3
      <3>2. k # Body /\ Body \in 0..MaxStreams /\ k \in 0..MaxStreams
        BY <2>2 DEF Body
      <3>3. sinks' = [mid EXCEPT ![Body] = z] /\ sinks \in [0..MaxStreams -> SinkType]
        BY <2>1 DEF IInv, Types
      <3> HIDE DEF z, k
      <3>4. /\ mid \in [0..MaxStreams -> SinkType] /\ mid[k] = z
            /\ \A j \in 0..MaxStreams : j # k => mid[j] = sinks[j]
        BY <3>1, <3>2, <3>3
      <3> HIDE DEF mid
      <3>5. /\ sinks' \in [0..MaxStreams -> SinkType] /\ sinks'[k] = z /\ sinks'[Body] = z
            /\ \A j \in 0..MaxStreams : j \notin {k, Body} => sinks'[j] = sinks[j]
        BY <3>1, <3>2, <3>3, <3>4
      <3> QED  BY <3>5 DEF z
    <2>5. \A j \in 0..MaxStreams : sinks'[j].pos <= Len(sinks'[j].file)
      BY <2>3, <2>4, OfSinks
    <2>6. e' = [closed |-> FALSE, w |-> w, seeker |-> none,
                tagOff |-> IF none = NoSink THEN 0 ELSE 1,
                carry |-> <<>>, samplesIn |-> 0, streamErr |-> "none"]
      BY <2>1 DEF Opened, SeekerOf
    <2>7. ret' \in RetType /\ ret'.op = "none"
      BY <2>1 DEF Ret, RetType, Errors
    <2>8. job' \in JobType /\ job'.at = "write" /\ job'.tagged = tagged /\ job'.todo = n
      <3>1. n \in Nat
        BY <2>2
      <3> QED  BY <2>1, <3>1 DEF JobType
    <2>9. Todo' <= MaxBytes
      <3>1. Todo' = n /\ n <= MaxBytes
        BY <2>2, <2>8 DEF Todo
      <3> QED  BY <3>1
    <2>10. w \in {Body, streams'} /\ none \in {NoSink, streams'} /\ none = NoSink /\ sinks'[w] = Sink(FALSE)
           /\ w = (IF job'.tagged THEN Body ELSE streams') /\ sinks'[streams'] = Sink(FALSE)
      BY <2>1, <2>4, <2>8
    <2>11. Lead' = 0
      <3>1. e'.w = w /\ e'.seeker = NoSink
        BY <2>6
      <3> HIDE DEF w
      <3>2. Start(sinks'[w]) = 0
        BY <2>3, <2>10 DEF Start
      <3> QED  BY <3>1, <3>2 DEF Lead
    <2>12. Holds(sinks'[w], Lead', 0) /\ ~sinks'[w].seekable
      BY <2>3, <2>10, <2>11
    <2>13. faults' \in Nat /\ call' = call /\ streams' = streams + 1 /\ streams' <= MaxStreams /\ FALSE \in BOOLEAN
      BY <1>1, <2>1, <2>2
    <2> HIDE DEF w, none, k
    <2> QED  BY <1>1, <2>1, <2>4, <2>5, <2>6, <2>7, <2>8, <2>9, <2>10, <2>12, <2>13, NewStream
  <1> QED  BY <1>2, <1>3

\* The end of a one-shot: the encoder goes back to the pool.
LEMMA FinishInv ==
    ASSUME IInv, job.at # "off", call.at = "idle", NEW err \in Errors, Finish(err),
           UNCHANGED <<enc, call, next, streams>>, faults' \in Nat,
           sinks' \in [0..MaxStreams -> SinkType],
           \A j \in 0..MaxStreams : sinks'[j].pos <= Len(sinks'[j].file),
           err = "none" => Complete(sinks[streams], next - 1, job.tagged)',
           err = "canceled" /\ job.tagged => sinks'[streams] = Sink(FALSE)
    PROVE  IInv'
  <1>1. e' = [e EXCEPT !.w = NoSink] /\ job' = [job EXCEPT !.at = "off"] /\ ret' = Ret("oneShot", 0, err)
    BY DEF Finish, OneShotReturns
  <1>2. /\ e' \in EType /\ e'.closed = e.closed /\ e'.w = NoSink /\ e'.seeker = e.seeker
        /\ e'.tagOff = e.tagOff /\ e'.carry = e.carry /\ e'.streamErr = e.streamErr
    <2>1. e \in EType /\ NoSink \in NoSink..MaxStreams
      BY OfE, Sizes DEF NoSink
    <2> QED  BY <1>1, <2>1 DEF EType
  <1>3. ret' \in RetType /\ ret'.op = "oneShot" /\ ret'.err = err
    BY <1>1 DEF Ret, RetType
  <1>4. job' \in JobType /\ job'.at = "off" /\ job'.tagged = job.tagged /\ job'.todo = job.todo
    <2>1. job \in JobType
      BY DEF IInv, Types
    <2> QED  BY <1>1, <2>1 DEF JobType
  <1>5. call = IdleCall /\ call.err = "none" /\ call.n = 0
    BY DEF IInv, Phases, IdleCall
  <1>6. e.seeker = NoSink
    BY DEF IInv, Attached
  <1>7. Types'
    BY <1>2, <1>3, <1>4 DEF IInv, Types
  <1>8. TypeOK'
    <2>1. {e'.w, e'.seeker} \subseteq NoSink..MaxStreams /\ e'.streamErr \in Errors
          /\ ret'.err \in Errors /\ DOMAIN sinks' = 0..MaxStreams
      BY <1>2, <1>3 DEF EType, RetType
    <2> QED  BY <1>2, <2>1 DEF IInv, TypeOK, FramesOf
  <1>9. Phases'
    BY <1>2, <1>3, <1>4, <1>5 DEF IInv, Phases, Running, Idle
  <1>10. Attached'
    <2>1. e'.w # Body
      BY <1>2 DEF NoSink, Body
    <2> QED  BY <1>2, <1>4, <1>6, <2>1 DEF Attached
  <1>11. Reported'
    <2>1. D' = D /\ Todo' = 0 /\ (Running' <=> Running)
      BY <1>2, <1>4 DEF D, Todo, Running
    <2>2. next - 1 + call.n + Todo <= MaxBytes
      BY DEF IInv, Reported
    <2>3. next' - 1 + call'.n + Todo' <= MaxBytes
      <3> DEFINE t == Todo
      <3>1. t \in Nat /\ next \in Nat /\ MaxBytes \in Nat /\ next - 1 + call.n + t <= MaxBytes
        BY <2>2, OfCall, Sizes DEF Todo
      <3> HIDE DEF t
      <3>2. next - 1 + 0 + 0 <= MaxBytes
        BY <1>5, <3>1
      <3> QED  BY <1>5, <2>1, <3>2
    <2>4. enc.durable = Bytes(1, D) /\ (Running => e.carry = Bytes(D + 1, next - 1) /\ D <= next - 1)
      BY DEF IInv, Reported
    <2> QED  BY <1>2, <1>5, <2>1, <2>3, <2>4 DEF Reported
  <1>12. Sound'
    BY <1>2, <1>3, <1>5 DEF Sound, Running
  <1>13. Reserved' /\ TagOnlyOverHealthy'
    BY <1>2, <1>6 DEF Reserved, TagOnlyOverHealthy
  <1>14. ReturnMeansSink'
    BY <1>3, <1>4 DEF ReturnMeansSink
  <1> QED  BY <1>7, <1>8, <1>9, <1>10, <1>11, <1>12, <1>13, <1>14 DEF IInv

\* Before its tag is due, a one-shot has not touched its target.
LEMMA Untouched ==
    ASSUME IInv, job.at \in {"write", "closed"}, job.tagged
    PROVE  sinks[streams] = Sink(FALSE)
  BY DEF IInv, Attached

LEMMA OneShotEnds ==
    ASSUME IInv, OneShotFails \/ Cancel \/ OneShotUntagged
    PROVE  IInv'
  <1>1. /\ sinks \in [0..MaxStreams -> SinkType] /\ faults \in Nat /\ ret.err \in Errors
        /\ \A j \in 0..MaxStreams : sinks[j].pos <= Len(sinks[j].file)
    <2>1. sinks \in [0..MaxStreams -> SinkType]
      BY DEF IInv, Types
    <2> QED  BY <2>1, OfCall, OfSinks
  <1>2. CASE OneShotFails
    <2>1. /\ job.at \in {"write", "closed"} /\ call.at = "idle" /\ ret.err # "none" /\ Finish(ret.err)
          /\ UNCHANGED <<enc, sinks, call, next, streams, faults>>
      BY <1>2 DEF OneShotFails
    <2>2. job.tagged => sinks'[streams] = Sink(FALSE)
      BY <2>1, Untouched
    <2> QED  BY <1>1, <2>1, <2>2, FinishInv
  <1>3. CASE Cancel
    <2>1. /\ job.at \in {"write", "closed"} /\ call.at = "idle" /\ Finish("canceled")
          /\ UNCHANGED <<enc, sinks, call, next, streams, faults>>
      BY <1>3 DEF Cancel, CancelPoint
    <2>2. job.tagged => sinks'[streams] = Sink(FALSE)
      BY <2>1, Untouched
    <2>3. "canceled" \in Errors
      BY DEF Errors
    <2> QED  BY <1>1, <2>1, <2>2, <2>3, FinishInv
  <1>4. CASE OneShotUntagged
    <2>1. /\ job.at = "closed" /\ ~job.tagged /\ call.at = "idle" /\ ret.err = "none" /\ Finish("none")
          /\ UNCHANGED <<enc, sinks, call, next, streams, faults>>
      BY <1>4 DEF OneShotUntagged
    <2>2. ret.op = "close" /\ e.w # NoSink /\ e.w = streams /\ e.seeker = NoSink
      BY <2>1 DEF IInv, Phases, Attached
    <2>3. Complete(sinks[streams], next - 1, FALSE)
      <3>1. Complete(sinks[IF e.w = NoSink THEN streams ELSE e.w], next - 1, e.seeker # NoSink)
        BY <2>1, <2>2 DEF IInv, ReturnMeansSink
      <3>2. (e.seeker # NoSink) = FALSE /\ (IF e.w = NoSink THEN streams ELSE e.w) = streams
        BY <2>2
      <3> QED  BY <3>1, <3>2, Zenon
    <2>4. job'.tagged = FALSE
      <3>1. job \in JobType /\ job' = [job EXCEPT !.at = "off"]
        BY <2>1 DEF Finish, OneShotReturns, IInv, Types
      <3>2. job'.tagged = job.tagged /\ job.tagged \in BOOLEAN
        BY <3>1 DEF JobType
      <3> QED  BY <2>1, <3>2
    <2>5. Complete(sinks[streams], next - 1, job.tagged)'
      <3>1. Complete(sinks[streams], next - 1, FALSE)'
        BY <2>1, <2>3 DEF Complete
      <3> QED  BY <2>4, <3>1, Zenon
    <2>6. "none" \in Errors /\ "none" # "canceled"
      BY DEF Errors
    <2> QED  BY <1>1, <2>1, <2>5, <2>6, FinishInv
  <1> QED  BY <1>2, <1>3, <1>4

\* The write to the target: the step's shape, and what it does to the sinks.
LEMMA TargetStep ==
    ASSUME IInv, job.at \in {"closed", "body"}, job.tagged, call.at = "idle",
           NEW items \in Seq(Item), NEW o \in SinkWrites(streams, items),
           sinks' = [sinks EXCEPT ![streams] = o.sink], Fault(o.err)
    PROVE  /\ streams \in 1..MaxStreams /\ streams # Body /\ Body \in 0..MaxStreams /\ e.w = Body
           /\ e.seeker = NoSink
           /\ sinks' \in [0..MaxStreams -> SinkType] /\ faults' \in Nat
           /\ \A k \in 0..MaxStreams : sinks'[k].pos <= Len(sinks'[k].file)
           /\ \A k \in 0..MaxStreams : k # streams => sinks'[k] = sinks[k]
           /\ o.err \in {"none", "sink"} /\ o.err \in Errors
           /\ o.err = "none" => sinks'[streams] = Put(sinks[streams], items)
  <1>1. e.w = Body /\ e.seeker = NoSink /\ streams > 0
    <2>1. e.w # NoSink
      BY DEF IInv, Phases
    <2> QED  BY <2>1 DEF IInv, Attached
  <1>2. streams \in 1..MaxStreams /\ streams \in 0..MaxStreams /\ streams # Body /\ Body \in 0..MaxStreams
    BY <1>1, OfCall, Sizes DEF Body
  <1>3. Types /\ sinks[streams].pos <= Len(sinks[streams].file)
    BY <1>2, OfSinks DEF IInv
  <1>4. /\ o.err \in {"none", "sink"} /\ o.sink \in SinkType /\ o.sink.pos <= Len(o.sink.file)
        /\ o.err = "none" => o.sink = Put(sinks[streams], items)
    BY <1>2, <1>3, SinkWritesFacts
  <1>5. /\ sinks' \in [0..MaxStreams -> SinkType] /\ sinks'[streams] = o.sink
        /\ \A k \in 0..MaxStreams : k # streams => sinks'[k] = sinks[k]
    BY <1>2, <1>3, <1>4 DEF Types
  <1>6. \A k \in 0..MaxStreams : sinks'[k].pos <= Len(sinks'[k].file)
    BY <1>4, <1>5, OfSinks
  <1>7. faults' \in Nat
    BY <1>4, OfCall DEF Fault
  <1>8. o.err \in Errors
    BY <1>4 DEF Errors
  <1> QED  BY <1>1, <1>2, <1>4, <1>5, <1>6, <1>7, <1>8

LEMMA OneShotTagInv == IInv /\ OneShotTag => IInv'
  <1> SUFFICES ASSUME IInv, OneShotTag PROVE IInv'
    OBVIOUS
  <1> DEFINE tag == FinalTag(1 + Len(sinks[Body].file))
             items == <<tag>>
  <1>1. /\ job.at = "closed" /\ job.tagged /\ ret.err = "none" /\ call.at = "idle"
        /\ UNCHANGED <<enc, call, next, streams>>
    BY DEF OneShotTag, WriteToTarget
  <1>2. PICK o \in SinkWrites(streams, items) :
           /\ sinks' = [sinks EXCEPT ![streams] = o.sink] /\ Fault(o.err)
           /\ IF o.err = "none" /\ "body" # "off"
                THEN job' = [job EXCEPT !.at = "body"] /\ UNCHANGED <<e, ret>>
                ELSE Finish(o.err)
    BY DEF OneShotTag, WriteToTarget
  <1>3. tag \in Item /\ items \in Seq(Item)
    <2>1. Body \in 0..MaxStreams
      BY Sizes DEF Body
    <2>2. 1 + Len(sinks[Body].file) \in Int
      BY <2>1, OfSinks
    <2> QED  BY <2>2, FinalTagType
  <1> HIDE DEF tag
  <1>4. /\ streams \in 1..MaxStreams /\ streams # Body /\ Body \in 0..MaxStreams /\ e.w = Body
        /\ e.seeker = NoSink
        /\ sinks' \in [0..MaxStreams -> SinkType] /\ faults' \in Nat
        /\ \A k \in 0..MaxStreams : sinks'[k].pos <= Len(sinks'[k].file)
        /\ \A k \in 0..MaxStreams : k # streams => sinks'[k] = sinks[k]
        /\ o.err \in {"none", "sink"} /\ o.err \in Errors
        /\ o.err = "none" => sinks'[streams] = Put(sinks[streams], items)
    <2> HIDE DEF items
    <2>1. job.at \in {"closed", "body"}
      BY <1>1
    <2> QED  BY <1>1, <1>2, <1>3, <2>1, TargetStep
  <1>5. CASE o.err # "none"
    <2>1. Finish(o.err) /\ o.err = "sink" /\ o.err # "canceled" /\ job.at # "off"
      BY <1>1, <1>2, <1>4, <1>5
    <2> QED  BY <1>1, <1>4, <1>5, <2>1, FinishInv
  <1>6. CASE o.err = "none"
    <2>1. job' = [job EXCEPT !.at = "body"] /\ UNCHANGED <<e, ret>>
      BY <1>2, <1>6
    <2>2. job' \in JobType /\ job'.at = "body" /\ job'.tagged = job.tagged /\ job'.todo = job.todo
      <3>1. job \in JobType
        BY DEF IInv, Types
      <3> QED  BY <2>1, <3>1 DEF JobType
    <2>3. sinks'[streams] = Put(Sink(FALSE), items) /\ sinks'[Body] = sinks[Body]
      <3>1. sinks[streams] = Sink(FALSE)
        BY <1>1, Untouched
      <3> QED  BY <1>4, <1>6, <3>1
    <2>4. ret.op = "close" /\ e.closed /\ call = IdleCall /\ e.w # NoSink /\ NoSink # Body
      BY <1>1, <1>4 DEF IInv, Phases, NoSink, Body
    <2>5. Types'
      BY <1>1, <1>4, <2>1, <2>2 DEF IInv, Types
    <2>6. TypeOK'
      <3>1. DOMAIN sinks' = 0..MaxStreams
        BY <1>4
      <3> QED  BY <1>1, <1>4, <2>1, <3>1 DEF IInv, TypeOK, FramesOf
    <2>7. Phases'
      BY <1>1, <2>1, <2>2, <2>4 DEF IInv, Phases, Running, Idle
    <2>8. Attached'
      <3>1. FinalTag(1 + Len(sinks[Body].file))' = tag
        BY <1>1, <2>1, <2>3 DEF FinalTag, FramesOf, tag
      <3>2. sinks'[streams'] = Put(Sink(FALSE), <<FinalTag(1 + Len(sinks[Body].file))'>>)
        BY <1>1, <2>3, <3>1
      <3>3. e'.w = Body /\ ~sinks'[Body].seekable /\ e'.seeker = NoSink /\ streams' > 0
        BY <1>1, <1>4, <2>1, <2>3 DEF IInv, Attached
      <3> QED  BY <1>1, <2>2, <3>2, <3>3 DEF Attached
    <2>9. Reported'
      <3>1. D' = D /\ Todo' = 0 /\ Todo = 0
        BY <1>1, <2>2 DEF D, Todo
      <3>2. Running' <=> Running
        BY <1>1, <2>1 DEF Running
      <3> QED  BY <1>1, <2>1, <3>1, <3>2 DEF IInv, Reported
    <2>10. Sound'
      <3>1. ~Running' /\ (Counted' <=> Counted)
        BY <1>1, <2>1, <2>4 DEF Running, Counted
      <3> QED  BY <1>1, <2>1, <3>1 DEF IInv, Sound
    <2>11. Reserved' /\ TagOnlyOverHealthy'
      BY <1>4, <2>1 DEF Reserved, TagOnlyOverHealthy
    <2>12. ReturnMeansSink'
      <3>1. Complete(sinks[Body], next - 1, FALSE)
        <4>1. Complete(sinks[IF e.w = NoSink THEN streams ELSE e.w], next - 1, e.seeker # NoSink)
          BY <1>1, <2>4 DEF IInv, ReturnMeansSink
        <4>2. (e.seeker # NoSink) = FALSE /\ (IF e.w = NoSink THEN streams ELSE e.w) = Body
          BY <1>4, <2>4
        <4> QED  BY <4>1, <4>2, Zenon
      <3>2. Complete(sinks[Body], next - 1, FALSE)'
        BY <1>1, <2>3, <3>1 DEF Complete
      <3>3. (e'.seeker # NoSink) = FALSE /\ (IF e'.w = NoSink THEN streams' ELSE e'.w) = Body
        BY <1>4, <2>1, <2>4
      <3>4. Complete(sinks[IF e.w = NoSink THEN streams ELSE e.w], next - 1, e.seeker # NoSink)'
        BY <3>2, <3>3, Zenon
      <3> QED  BY <2>1, <2>4, <3>4 DEF ReturnMeansSink
    <2> QED  BY <2>5, <2>6, <2>7, <2>8, <2>9, <2>10, <2>11, <2>12 DEF IInv
  <1> QED  BY <1>5, <1>6

\* A tag and a whole body, written to an empty sink that cannot seek.
LEMMA TagThenBody ==
    ASSUME NEW t \in Item, NEW k \in Nat \ {0}
    PROVE  LET z == Put(Put(Sink(FALSE), <<t>>), CodedRun(1, k))
           IN  /\ z \in SinkType /\ Start(z) = 0 /\ z.pos = Len(z.file)
               /\ SubSeq(z.file, 1, Len(z.file)) = <<t>> \o CodedRun(1, k)
  <1> DEFINE s == Sink(FALSE)
             h == Put(s, <<t>>)
             run == CodedRun(0 + 1, k)
             z == Put(h, run)
             one == <<t>>
  <1>1. /\ s \in SinkType /\ s.seekable = FALSE /\ s.pos = 0 /\ Len(s.file) = 0 /\ s.pos <= Len(s.file)
    <2> DEFINE b == FALSE
    <2>1. b \in BOOLEAN /\ ~b
      OBVIOUS
    <2> HIDE DEF b
    <2>2. /\ Sink(b) \in SinkType /\ Sink(b).seekable = b /\ Sink(b).pos = (IF b THEN 1 ELSE 0)
          /\ Len(Sink(b).file) = (IF b THEN 2 ELSE 0) /\ Sink(b).pos <= Len(Sink(b).file)
      BY <2>1, SinkFacts
    <2> QED  BY <2>1, <2>2 DEF b
  <1>2. one \in Seq(Item) /\ Len(one) = 1 /\ one[1] = t
    OBVIOUS
  <1> HIDE DEF s, one
  <1>3. /\ Put(s, one) \in SinkType /\ Put(s, one).seekable = FALSE /\ Put(s, one).pos = 1
        /\ Len(Put(s, one).file) = 1 /\ Put(s, one).file[1] = t
    <2>1. /\ Put(s, one) \in SinkType /\ Put(s, one).seekable = s.seekable
          /\ Put(s, one).pos = s.pos + Len(one)
          /\ Len(Put(s, one).file) = Most(Len(s.file), s.pos + Len(one))
          /\ \A j \in 1..Len(one) : Put(s, one).file[s.pos + j] = one[j]
      BY <1>1, <1>2, PutFacts
    <2>2. s.pos + Len(one) = 1 /\ Most(Len(s.file), s.pos + Len(one)) = 1 /\ s.pos + 1 = 1 /\ 1 \in 1..Len(one)
      BY <1>1, <1>2 DEF Most
    <2> QED  BY <1>1, <1>2, <2>1, <2>2
  <1>4. /\ h \in SinkType /\ h.seekable = FALSE /\ h.pos = 1 /\ Len(h.file) = 1 /\ h.file[1] = t
    BY <1>3 DEF one
  <1> HIDE DEF h
  <1>5. Holds(h, 1, 0)
    <2>1. h.pos = 1 + 0 /\ h.pos <= Len(h.file) /\ Len(h.file) <= 1 + Most(0, 1)
      BY <1>4 DEF Most
    <2>2. \A j \in 1..0 : FALSE
      OBVIOUS
    <2> QED  BY <2>1, <2>2 DEF Holds
  <1>6. Holds(z, 1, k)
    <2> DEFINE o == 1
               i == 0
    <2>1. o \in Nat /\ i \in Nat /\ k \in Nat /\ i <= k /\ Holds(h, o, i)
      BY <1>5
    <2> HIDE DEF o, i
    <2>2. Holds(Put(h, CodedRun(i + 1, k)), o, k)
      BY <1>4, <2>1, HoldsPut
    <2> QED  BY <2>2 DEF o, i
  <1>7. run \in Seq(Item) /\ run = CodedRun(1, k)
    <2> DEFINE f == 1
    <2>1. f \in Nat /\ k \in Int /\ f <= k + 1
      OBVIOUS
    <2>2. 0 + 1 = f
      OBVIOUS
    <2> HIDE DEF f
    <2>3. CodedRun(f, k) \in Seq(Item)
      BY <2>1, CodedRunFacts
    <2> QED  BY <2>2, <2>3 DEF f
  <1> HIDE DEF run
  <1>8. z \in SinkType /\ z.seekable = FALSE /\ z.file[1] = t
    <2>1. h.pos <= Len(h.file) /\ 1 \in 1..h.pos
      BY <1>4
    <2>2. /\ Put(h, run) \in SinkType /\ Put(h, run).seekable = h.seekable
          /\ \A j \in 1..h.pos : Put(h, run).file[j] = h.file[j]
      BY <1>4, <1>7, <2>1, PutFacts
    <2> QED  BY <1>4, <2>1, <2>2
  <1> HIDE DEF z
  <1>9. /\ z.pos = Len(z.file) /\ Len(z.file) = 1 + k
        /\ SubSeq(z.file, 1 + 1, Len(z.file)) = CodedRun(1, k)
    <2> DEFINE o == 1
    <2>1. o \in Nat /\ Holds(z, o, k) /\ k \in Nat \ {0}
      BY <1>6
    <2> HIDE DEF o
    <2>2. z.pos = Len(z.file) /\ Len(z.file) = o + k /\ SubSeq(z.file, o + 1, Len(z.file)) = CodedRun(1, k)
      BY <1>8, <2>1, WholeBody
    <2> QED  BY <2>2 DEF o
  <1>10. SubSeq(z.file, 1, Len(z.file)) = <<t>> \o CodedRun(1, k)
    <2> DEFINE o == 1
    <2>1. o \in 1..Len(z.file) /\ z.file \in Seq(Item) /\ z.file[o] = t
      BY <1>8, <1>9 DEF SinkType
    <2>2. SubSeq(z.file, o + 1, Len(z.file)) = CodedRun(1, k)
      BY <1>9
    <2> HIDE DEF o
    <2>3. SubSeq(z.file, o, Len(z.file)) = <<z.file[o]>> \o SubSeq(z.file, o + 1, Len(z.file))
      BY <2>1, HeadTail
    <2>4. SubSeq(z.file, o, Len(z.file)) = <<t>> \o CodedRun(1, k)
      BY <2>1, <2>2, <2>3
    <2> QED  BY <2>4 DEF o
  <1>11. Start(z) = 0
    BY <1>8 DEF Start
  <1>12. z = Put(Put(Sink(FALSE), <<t>>), CodedRun(1, k))
    BY <1>7 DEF z, h, s
  <1> QED  BY <1>8, <1>9, <1>10, <1>11, <1>12

LEMMA OneShotBodyInv == IInv /\ OneShotBody => IInv'
  <1> SUFFICES ASSUME IInv, OneShotBody PROVE IInv'
    OBVIOUS
  <1> DEFINE body == sinks[Body]
             items == body.file
             tag == FinalTag(1 + Len(items))
             n == (next - 1) \div Stride
             F == FramesCoded(n)
  <1>1. /\ job.at = "body" /\ job.tagged /\ ret.op = "close" /\ ret.err = "none" /\ call.at = "idle"
        /\ UNCHANGED <<enc, call, next, streams>>
    BY DEF OneShotBody, WriteToTarget, IInv, Phases
  <1>2. PICK o \in SinkWrites(streams, items) :
           /\ sinks' = [sinks EXCEPT ![streams] = o.sink] /\ Fault(o.err) /\ Finish(o.err)
    BY DEF OneShotBody, WriteToTarget
  <1>3. Body \in 0..MaxStreams /\ body \in SinkType /\ items \in Seq(Item) /\ Len(items) \in Nat
    <2>1. Body \in 0..MaxStreams
      BY Sizes DEF Body
    <2> QED  BY <2>1, OfSinks
  <1> HIDE DEF items
  <1>4. /\ streams \in 1..MaxStreams /\ streams # Body /\ e.w = Body /\ e.seeker = NoSink
        /\ sinks' \in [0..MaxStreams -> SinkType] /\ faults' \in Nat
        /\ \A k \in 0..MaxStreams : sinks'[k].pos <= Len(sinks'[k].file)
        /\ \A k \in 0..MaxStreams : k # streams => sinks'[k] = sinks[k]
        /\ o.err \in {"none", "sink"} /\ o.err \in Errors
        /\ o.err = "none" => sinks'[streams] = Put(sinks[streams], items)
    <2>1. job.at \in {"closed", "body"}
      BY <1>1
    <2> QED  BY <1>1, <1>2, <1>3, <2>1, TargetStep
  <1>5. ASSUME o.err = "none" PROVE Complete(sinks[streams], next - 1, job.tagged)'
    <2>1. enc.drained /\ Counted
      BY <1>1 DEF IInv, Sound
    <2>2. n \in Nat /\ e.samplesIn = n /\ F = FramesOf(enc) /\ F \in Nat \ {0}
      <3>1. n \in Nat /\ e.samplesIn = n /\ F = Len(enc.frames) + 1
        BY <2>1, CountedFrames
      <3>2. FramesOf(enc) = Len(enc.frames) + 1 /\ Len(enc.frames) \in Nat
        BY <2>1, OfEnc DEF FramesOf
      <3> HIDE DEF F, n
      <3> QED  BY <3>1, <3>2
    <2>3. items = CodedRun(1, F) /\ Len(items) = F
      <3>1. Complete(body, next - 1, FALSE)
        <4>1. Complete(sinks[IF e.w = NoSink THEN streams ELSE e.w], next - 1, e.seeker # NoSink)
          BY <1>1 DEF IInv, ReturnMeansSink
        <4>2. (e.seeker # NoSink) = FALSE /\ (IF e.w = NoSink THEN streams ELSE e.w) = Body
          BY <1>4 DEF NoSink, Body
        <4> QED  BY <4>1, <4>2, Zenon
      <3>2. Start(body) = 0
        BY <1>1, <1>4 DEF IInv, Attached, Start
      <3>3. SubSeq(body.file, Start(body) + 1, Len(body.file)) = CodedRun(1, F)
        BY <3>1 DEF Complete
      <3>4. items = CodedRun(1, F)
        <4>1. SubSeq(items, 1, Len(items)) = items
          BY <1>3, SubSeqFull
        <4> HIDE DEF body, F
        <4>2. SubSeq(items, 0 + 1, Len(items)) = CodedRun(1, F)
          BY <3>2, <3>3 DEF items
        <4> QED  BY <4>1, <4>2
      <3>5. Len(CodedRun(1, F)) = F
        <4> DEFINE f == 1
        <4> HIDE DEF F
        <4>1. f \in Nat /\ F \in Int /\ f <= F + 1 /\ F - f + 1 = F
          BY <2>2
        <4> HIDE DEF f
        <4>2. Len(CodedRun(f, F)) = F - f + 1
          BY <4>1, CodedRunFacts
        <4> QED  BY <4>1, <4>2 DEF f
      <3> QED  BY <3>4, <3>5
    <2>4. tag \in Item /\ tag.frames = F /\ tag.total = F + 1 /\ tag.padding = LamePadding(F, n)
      <3> DEFINE end == 1 + Len(items)
      <3>1. end \in Int /\ end = F + 1
        <4> HIDE DEF F
        <4> QED  BY <2>2, <2>3
      <3> HIDE DEF end
      <3>2. /\ FinalTag(end) \in Item /\ FinalTag(end).frames = FramesOf(enc) /\ FinalTag(end).total = end
            /\ FinalTag(end).padding = LamePadding(FramesOf(enc), e.samplesIn)
        BY <3>1, FinalTagType
      <3> QED  BY <2>2, <3>1, <3>2 DEF end
    <2> DEFINE z == Put(Put(Sink(FALSE), <<tag>>), CodedRun(1, F))
    <2>5. sinks[streams] = Put(Sink(FALSE), <<tag>>)
      BY <1>1 DEF IInv, Attached, items
    <2>6. Playable(tag.frames * FrameSize, EncoderDelay, tag.padding) = n
      BY <2>2, <2>4, RoundTrip
    <2> HIDE DEF tag, F
    <2>7. sinks'[streams] = z
      BY <1>4, <1>5, <2>3, <2>5
    <2>8. /\ z \in SinkType /\ Start(z) = 0 /\ z.pos = Len(z.file)
          /\ SubSeq(z.file, 1, Len(z.file)) = <<tag>> \o CodedRun(1, F)
      BY <2>2, <2>4, TagThenBody
    <2> HIDE DEF z
    <2>9. (<<tag>> \o CodedRun(1, F))[1] = tag
      <3>1. CodedRun(1, F) \in Seq(Item)
        BY <1>3, <2>3
      <3> QED  BY <2>4, <3>1
    <2>10. job'.tagged = TRUE
      <3>1. job \in JobType /\ job' = [job EXCEPT !.at = "off"]
        BY <1>2 DEF Finish, OneShotReturns, IInv, Types
      <3>2. job'.tagged = job.tagged /\ job.tagged \in BOOLEAN
        BY <3>1 DEF JobType
      <3> QED  BY <1>1, <3>2
    <2>11. SubSeq(z.file, Start(z) + 1, Len(z.file)) = <<tag>> \o CodedRun(1, F)
      BY <2>8
    <2>12. sinks'[streams'] = z /\ next' = next /\ enc'.frames = InputFrames(next - 1)
      BY <1>1, <2>1, <2>7 DEF Counted
    <2>13. Complete(sinks[streams], next - 1, TRUE)'
      <3>1. FramesCoded((next' - 1) \div Stride) = F
            /\ Playable(tag.frames * FrameSize, EncoderDelay, tag.padding) = (next' - 1) \div Stride
        BY <2>6, <2>12 DEF F
      <3>2. enc'.frames = InputFrames(next' - 1)
        BY <2>12
      <3> HIDE DEF n
      <3> QED  BY <2>4, <2>8, <2>9, <2>11, <2>12, <3>1, <3>2 DEF Complete
    <2> QED  BY <2>10, <2>13, Zenon
  <1>6. job.at # "off" /\ o.err # "canceled" /\ call.at = "idle"
    BY <1>1, <1>4
  <1> QED  BY <1>1, <1>2, <1>4, <1>5, <1>6, FinishInv

-----------------------------------------------------------------------------
(***************************************************************************)
(* The theorems.                                                           *)
(***************************************************************************)
LEMMA InitInv == Init => IInv
  <1> SUFFICES ASSUME Init PROVE IInv
    OBVIOUS
  <1>1. /\ e = [closed |-> TRUE, w |-> NoSink, seeker |-> NoSink, tagOff |-> 0,
                carry |-> <<>>, samplesIn |-> 0, streamErr |-> "none"]
        /\ enc = NewEnc /\ sinks = [k \in 0..MaxStreams |-> Sink(FALSE)]
        /\ call = IdleCall /\ job = NoJob /\ ret = Ret("none", 0, "none")
        /\ next = 1 /\ streams = 0 /\ faults = 0
    BY DEF Init
  <1>2. /\ NewEnc \in EncType /\ NewEnc.durable = <<>> /\ NewEnc.sent = 0 /\ Len(NewEnc.durable) = 0
        /\ ~NewEnc.drained /\ ~NewEnc.final /\ FramesOf(NewEnc) = 0 /\ Bytes(1, 0) = <<>>
    BY NewEncFacts
  <1>3. Sink(FALSE) \in SinkType /\ Sink(FALSE).pos <= Len(Sink(FALSE).file)
    <2> DEFINE b == FALSE
    <2>1. b \in BOOLEAN
      OBVIOUS
    <2> HIDE DEF b
    <2>2. Sink(b) \in SinkType /\ Sink(b).pos <= Len(Sink(b).file)
      BY <2>1, SinkFacts
    <2> QED  BY <2>2 DEF b
  <1>4. /\ MaxBytes \in Nat /\ MaxStreams \in Nat /\ FrameBytes \in Nat \ {0}
        /\ NoSink \in NoSink..MaxStreams /\ 0 \in 0..MaxStreams /\ 1 \in 1..MaxBytes + 1
    BY Sizes DEF NoSink
  <1>5. /\ e.closed = TRUE /\ e.w = NoSink /\ e.seeker = NoSink /\ e.carry = <<>>
        /\ e.streamErr = "none" /\ e \in EType
    BY <1>1, <1>4 DEF EType, Errors
  <1>6. call \in CallType /\ call.at = "idle" /\ call.n = 0 /\ call.err = "none" /\ call = IdleCall
    BY <1>1, IdleCallType DEF IdleCall
  <1>7. job \in JobType /\ job.at = "off"
    BY <1>1 DEF NoJob, JobType
  <1>8. ret \in RetType /\ ret.op = "none" /\ ret.err = "none"
    BY <1>1 DEF Ret, RetType, Errors
  <1>9. sinks \in [0..MaxStreams -> SinkType] /\ \A k \in 0..MaxStreams : sinks[k].pos <= Len(sinks[k].file)
    BY <1>1, <1>3
  <1>10. Types
    <2>1. streams \in 0..MaxStreams /\ faults \in Nat /\ enc \in EncType
      BY <1>1, <1>2, <1>4
    <2> QED  BY <1>5, <1>6, <1>7, <1>8, <1>9, <2>1 DEF Types
  <1>11. TypeOK
    <2>1. {e.w, e.seeker} \subseteq NoSink..MaxStreams /\ {e.streamErr, ret.err, call.err} \subseteq Errors
      BY <1>4, <1>5, <1>6, <1>8 DEF Errors
    <2>2. e.carry \in Seq(1..MaxBytes) /\ Len(e.carry) < FrameBytes
      BY <1>4, <1>5
    <2>3. enc.sent <= FramesOf(enc) /\ DOMAIN sinks = 0..MaxStreams /\ next \in 1..MaxBytes + 1
          /\ e.closed \in BOOLEAN
      BY <1>1, <1>2, <1>4, <1>5
    <2> QED  BY <1>9, <2>1, <2>2, <2>3 DEF TypeOK
  <1>12. Phases
    BY <1>5, <1>6, <1>7, <1>8 DEF Phases, Running
  <1>13. Attached
    BY <1>5, <1>7 DEF Attached, NoSink, Body
  <1>14. Reported
    <2>1. D = 0 /\ Todo = 0 /\ enc.durable = Bytes(1, D)
      BY <1>1, <1>2, <1>7 DEF D, Todo
    <2>2. next - 1 + call.n + Todo <= MaxBytes
      BY <1>1, <1>4, <1>6, <2>1
    <2> QED  BY <1>5, <1>6, <2>1, <2>2 DEF Reported, Running
  <1>15. Sound
    BY <1>5, <1>6, <1>8 DEF Sound, Running
  <1>16. Reserved /\ TagOnlyOverHealthy
    BY <1>5 DEF Reserved, TagOnlyOverHealthy
  <1>17. ReturnMeansSink
    BY <1>8 DEF ReturnMeansSink
  <1> QED  BY <1>10, <1>11, <1>12, <1>13, <1>14, <1>15, <1>16, <1>17 DEF IInv

LEMMA StutterInv == IInv /\ UNCHANGED vars => IInv'
  <1> SUFFICES ASSUME IInv, UNCHANGED vars PROVE IInv'
    OBVIOUS
  <1>1. UNCHANGED <<e, enc, sinks, call, job, ret, next, streams, faults>>
    BY DEF vars
  <1>2. Types' /\ TypeOK'
    <2>1. Types'
      BY <1>1 DEF IInv, Types
    <2>2. TypeOK'
      BY <1>1 DEF IInv, TypeOK, FramesOf
    <2> QED  BY <2>1, <2>2
  <1>3. Phases'
    BY <1>1 DEF IInv, Phases, Running, Idle
  <1>4. Attached'
    BY <1>1 DEF IInv, Attached, FinalTag, FramesOf
  <1>5. Reported'
    BY <1>1 DEF IInv, Reported, D, Todo, Running
  <1>6. Sound'
    BY <1>1 DEF IInv, Sound, D, Running, Unfailed, Counted, Lead, FramesOf
  <1>7. Reserved' /\ TagOnlyOverHealthy'
    BY <1>1 DEF IInv, Reserved, TagOnlyOverHealthy, FramesOf
  <1>8. ReturnMeansSink'
    BY <1>1 DEF IInv, ReturnMeansSink, Complete
  <1> QED  BY <1>2, <1>3, <1>4, <1>5, <1>6, <1>7, <1>8 DEF IInv

LEMMA NextInv == IInv /\ [Next]_vars => IInv'
  <1> SUFFICES ASSUME IInv, [Next]_vars PROVE IInv'
    OBVIOUS
  <1>1. CASE \E seekable, omitTag \in BOOLEAN : Reset(seekable, omitTag)
    BY <1>1, ResetInv
  <1>2. CASE \E n \in Chunks : Write(n)
    BY <1>2, WriteInv
  <1>3. CASE \E n \in 0..MaxBytes, tagged \in BOOLEAN : OneShot(n, tagged)
    BY <1>3, OneShotInv
  <1>4. CASE ResetRefused \/ EmitCarry \/ EmitWhole \/ Stash
    BY <1>4, ResetRefusedInv, EmitCarryInv, EmitWholeInv, StashInv
  <1>5. CASE Close \/ CloseRest \/ CloseDrain \/ ClosePatch
    BY <1>5, CloseInv, CloseRestInv, CloseDrainInv, ClosePatchInv
  <1>6. CASE OneShotFails \/ Cancel \/ OneShotUntagged
    BY <1>6, OneShotEnds
  <1>7. CASE OneShotWrite \/ OneShotClose \/ OneShotTag \/ OneShotBody
    BY <1>7, OneShotWriteInv, OneShotCloseInv, OneShotTagInv, OneShotBodyInv
  <1>8. CASE UNCHANGED vars
    BY <1>8, StutterInv
  <1> QED  BY <1>1, <1>2, <1>3, <1>4, <1>5, <1>6, <1>7, <1>8 DEF Next

LEMMA Invariant == Spec => []IInv
  BY InitInv, NextInv, PTL DEF Spec

(***************************************************************************)
(* The encoder's fields stay in their ranges, the carry never holds a      *)
(* whole frame, and no sink is positioned behind its end.                  *)
(***************************************************************************)
THEOREM TypeCorrect == Spec => []TypeOK
  <1>1. IInv => TypeOK
    BY DEF IInv
  <1> QED  BY <1>1, Invariant, PTL

(***************************************************************************)
(* Between calls on an open encoder, the bytes Write has reported as       *)
(* written are those of the frames whose output reached the sink and those *)
(* of the carry, each once and in order, whatever failed before.           *)
(***************************************************************************)
THEOREM WriteCountsConsumed == Spec => []ReportedIsConsumed
  <1>1. IInv => ReportedIsConsumed
    <2> SUFFICES ASSUME IInv, call.at = "idle", ~e.closed
                 PROVE  enc.durable \o e.carry = Bytes(1, next - 1)
      BY DEF ReportedIsConsumed
    <2>1. enc.durable = Bytes(1, D) /\ e.carry = Bytes(D + 1, next - 1) /\ D <= next - 1
      BY DEF IInv, Reported, Running
    <2> DEFINE f == 1
               c == next - 1
    <2>2. f \in Int /\ D \in Int /\ c \in Int /\ f <= D + 1 /\ D <= c
      <3>1. next \in Int /\ D \in Nat
        BY OfCall, OfEnc, Sizes
      <3> QED  BY <2>1, <3>1
    <2> HIDE DEF f, c
    <2>3. Bytes(f, D) \o Bytes(D + 1, c) = Bytes(f, c)
      BY <2>2, BytesJoin
    <2> QED  BY <2>1, <2>3 DEF f, c
  <1> QED  BY <1>1, Invariant, PTL

(***************************************************************************)
(* A sink holds a tag other than the placeholder only in front of all the  *)
(* frames of a healthy, drained stream that the tag counts.                *)
(***************************************************************************)
THEOREM TagMeansHealthy == Spec => []TagOnlyOverHealthy
  <1>1. IInv => TagOnlyOverHealthy
    BY DEF IInv
  <1> QED  BY <1>1, Invariant, PTL

(***************************************************************************)
(* A Close or one-shot that returns nil has coded the input once, cut into *)
(* frames whatever the chunks were, left all N + 1 frames in the sink, and *)
(* before them a tag that plays exactly the samples given if one was due.  *)
(***************************************************************************)
THEOREM NilMeansComplete == Spec => []ReturnMeansSink
  <1>1. IInv => ReturnMeansSink
    BY DEF IInv
  <1> QED  BY <1>1, Invariant, PTL
=============================================================================
