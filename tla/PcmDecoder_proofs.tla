--------------------------- MODULE PcmDecoder_proofs ---------------------------
(***************************************************************************)
(* The theorems about the PCM decoder, for every set of sources, windows,  *)
(* budgets and seek targets there may be.  The invariants are those of     *)
(* PcmDecoderInv: first what holds of any source, then where a decoder of  *)
(* a source without gaps stands, then what is in order on every source,    *)
(* and last what a source without gaps adds about its end.                 *)
(***************************************************************************)
EXTENDS PcmDecoderInv, SequenceTheorems, WellFoundedInduction, TLAPS

-----------------------------------------------------------------------------
(***************************************************************************)
(* Sequences, records and numbers.                                         *)
(***************************************************************************)
LEMMA ConstTypes ==
    /\ FrameSize \in Nat /\ FrameSize > 0 /\ EncoderDelay \in Nat /\ DecoderDelay \in Nat
    /\ FrameLen \in Nat /\ FrameLen > 1 /\ MaxMatches \in Nat /\ MaxMatches > 0
    /\ SmallWindow \in Nat /\ SmallWindow > FrameLen
    /\ ResyncWindow \in Nat /\ ResyncWindow > SmallWindow + 1
    /\ Budget \in Nat /\ PrimeFrames \in Nat /\ PrimeFrames > 0
    /\ BufSize \in Nat /\ BufSize > 0 /\ MaxFaults \in Nat /\ Targets \subseteq Nat
    /\ NoEnd \in Nat
  BY GaplessAssumption, PcmDecoderAssumption, WholeAssumption

\* What a source is made of.
LEMMA SrcTypes ==
    ASSUME file \in DOMAIN Sources
    PROVE  /\ src.cells \in Seq(CellType) /\ Len(src.cells) \in Nat
           /\ src.id3 \in Nat /\ src.id3 <= Len(src.cells) /\ src.n \in Nat /\ src.trailer \in Nat
           /\ src.tag.present \in BOOLEAN /\ src.tag.frames \in Nat
           /\ src.tag.delay \in Nat /\ src.tag.padding \in Nat
           /\ src.seekable \in BOOLEAN /\ src.whole \in BOOLEAN /\ src.ragged \in BOOLEAN
  <1>1. src \in SourceType /\ src.id3 <= Len(src.cells)  BY SourcesAssumption DEF src
  <1>2. src.cells \in Seq(CellType)  BY <1>1 DEF SourceType
  <1>3. Len(src.cells) \in Nat  BY <1>2, LenProperties
  <1> QED  BY <1>1, <1>2, <1>3 DEF SourceType

\* What a cell is made of.
LEMMA CellFacts ==
    ASSUME NEW c \in CellType
    PROVE  /\ c.kind \in {Sized, Free, "body", "junk"} /\ c.id \in Nat /\ c.need \in Nat
           /\ IsHeader(c) <=> c.kind \in {Sized, Free}
  BY DEF CellType, IsHeader

\* SubSeq, by its length and elements.
LEMMA SliceFacts ==
    ASSUME NEW S, NEW s \in Seq(S), NEW a \in Nat \ {0}, NEW b \in Nat, b <= Len(s)
    PROVE  /\ SubSeq(s, a, b) \in Seq(S)
           /\ Len(SubSeq(s, a, b)) = IF a <= b THEN b - a + 1 ELSE 0
           /\ \A i \in 1..b - a + 1 : SubSeq(s, a, b)[i] = s[a + i - 1]
  <1>1. Len(s) \in Nat /\ DOMAIN s = 1..Len(s) /\ \A i \in 1..Len(s) : s[i] \in S
    BY LenProperties, ElementOfSeq
  <1>2. \A i \in a..b : s[i] \in S  BY <1>1
  <1> QED  BY <1>2, SubSeqProperties

\* The length and the domain of a sequence.
LEMMA LenNat == ASSUME NEW S, NEW s \in Seq(S) PROVE Len(s) \in Nat /\ DOMAIN s = 1..Len(s)
  BY LenProperties

\* Only the empty sequence has no elements.
LEMMA EmptyLen == ASSUME NEW S, NEW s \in Seq(S) PROVE Len(s) = 0 <=> s = <<>>
  BY EmptySeq, LenProperties

-----------------------------------------------------------------------------
(***************************************************************************)
(* Filling the buffer.                                                     *)
(***************************************************************************)
\* The buffers replaced.
Rebuffered(f, buf, br, pos, readErr) ==
    [f EXCEPT !.buf = buf, !.br = br, !.pos = pos, !.readErr = readErr]

Unbuffered(f, g) == \A x \in DFields \ Buffers : f[x] = g[x]

Replaced(r, f, buf, br, pos, readErr) ==
    /\ DTypes(r) /\ Unbuffered(r, f)
    /\ r.buf = buf /\ r.br = br /\ r.pos = pos /\ r.readErr = readErr

\* Replacing the buffers leaves the other fields.
LEMMA RebufferedFacts ==
    ASSUME NEW f, DTypes(f), NEW buf \in Seq(CellType), NEW br \in Seq(CellType), NEW pos \in Nat,
           NEW readErr \in {"none", "eof", "io"}
    PROVE  Replaced(Rebuffered(f, buf, br, pos, readErr), f, buf, br, pos, readErr)
  <1> DEFINE r == Rebuffered(f, buf, br, pos, readErr)
  <1>1. DOMAIN f = DFields  BY DEF DTypes
  <1>2. /\ DOMAIN r = DFields /\ r.buf = buf /\ r.br = br /\ r.pos = pos /\ r.readErr = readErr
    BY <1>1, Zenon DEF Rebuffered, DFields
  <1>3. \A x \in DFields \ Buffers : r[x] = f[x]  BY <1>1, Zenon DEF Rebuffered, DFields, Buffers
  <1> HIDE DEF r
  <1>4. /\ r.err = f.err /\ r.pending = f.pending /\ r.frameOff = f.frameOff
        /\ r.tagChecked = f.tagChecked /\ r.seen = f.seen /\ r.done = f.done /\ r.rate = f.rate
        /\ r.frames = f.frames /\ r.start = f.start /\ r.end = f.end /\ r.produced = f.produced
        /\ r.audioStart = f.audioStart /\ r.firstBytes = f.firstBytes /\ r.total = f.total
    BY <1>3 DEF DFields, Buffers
  <1>5. DTypes(r) /\ Unbuffered(r, f)  BY <1>2, <1>3, <1>4 DEF DTypes, Unbuffered
  <1>6. Replaced(r, f, buf, br, pos, readErr)  BY <1>2, <1>5 DEF Replaced
  <1> QED  BY <1>6 DEF r

\* `m' cells from behind position h on, of the source if not adrift.
Span(s, m, h) ==
    /\ m \in Nat /\ h \in Int /\ s \in Seq(CellType) /\ Len(s) = m
    /\ ~adrift => \A i \in 1..m : s[i] = src.cells[h + i]

\* Spans that meet are one span.
LEMMA SpanJoin ==
    ASSUME NEW s, NEW t, NEW a, NEW b, NEW h, Span(s, a, h), Span(t, b, h + a)
    PROVE  Span(s \o t, a + b, h)
  <1> DEFINE u == s \o t
  <1>1. a \in Nat /\ b \in Nat /\ h \in Int  BY DEF Span
  <1>2. /\ u \in Seq(CellType) /\ Len(u) = a + b
        /\ \A i \in 1..a + b : u[i] = IF i <= a THEN s[i] ELSE t[i - a]
    <2>1. s \in Seq(CellType) /\ t \in Seq(CellType) /\ Len(s) = a /\ Len(t) = b  BY DEF Span
    <2>2. /\ s \o t \in Seq(CellType) /\ Len(s \o t) = Len(s) + Len(t)
          /\ \A i \in 1..Len(s) + Len(t) : (s \o t)[i] = IF i <= Len(s) THEN s[i] ELSE t[i - Len(s)]
      BY <2>1, ConcatProperties
    <2> QED  BY <2>1, <2>2
  <1>3. ~adrift => /\ \A i \in 1..a : s[i] = src.cells[h + i]
                   /\ \A i \in 1..b : t[i] = src.cells[h + a + i]
    BY DEF Span
  <1> HIDE DEF u
  <1>4. ASSUME ~adrift, NEW i \in 1..a + b PROVE u[i] = src.cells[h + i]
    <2>1. CASE i <= a
      <3>1. i \in 1..a  BY <1>1, <2>1
      <3>2. u[i] = s[i]  BY <1>2, <2>1
      <3> QED  BY <1>3, <1>4, <3>1, <3>2
    <2>2. CASE i > a
      <3>1. i - a \in 1..b /\ h + a + (i - a) = h + i  BY <1>1, <2>2
      <3>2. t[i - a] = src.cells[h + a + (i - a)]  BY <1>3, <1>4, <3>1
      <3>3. ~(i <= a)  BY <1>1, <2>2
      <3>4. u[i] = t[i - a]  BY <1>2, <3>3
      <3> QED  BY <3>1, <3>2, <3>4
    <2> QED  BY <1>1, <2>1, <2>2
  <1>5. a + b \in Nat  BY <1>1
  <1>6. Span(u, a + b, h)  BY <1>1, <1>2, <1>4, <1>5 DEF Span
  <1> QED  BY <1>6 DEF u

\* A part of a span is the span of its cells.
LEMMA SpanSlice ==
    ASSUME NEW s, NEW m, NEW h, Span(s, m, h), NEW a \in Nat, NEW b \in Nat, a <= b, b <= m
    PROVE  Span(SubSeq(s, a + 1, b), b - a, h + a)
  <1> DEFINE u == SubSeq(s, a + 1, b)
  <1>1. m \in Nat /\ h \in Int /\ b - a \in Nat /\ h + a \in Int  BY DEF Span
  <1>2. /\ s \in Seq(CellType) /\ Len(s) = m
        /\ ~adrift => \A i \in 1..m : s[i] = src.cells[h + i]
    BY DEF Span
  <1>3. /\ u \in Seq(CellType) /\ Len(u) = (IF a + 1 <= b THEN b - (a + 1) + 1 ELSE 0)
        /\ \A i \in 1..b - (a + 1) + 1 : u[i] = s[a + 1 + i - 1]
    <2>1. a + 1 \in Nat \ {0} /\ b <= Len(s)  BY <1>2
    <2> QED  BY <1>2, <2>1, SliceFacts
  <1> HIDE DEF u
  <1>4. Len(u) = b - a  BY <1>3
  <1>5. ASSUME ~adrift, NEW i \in 1..b - a PROVE u[i] = src.cells[h + a + i]
    <2>1. u[i] = s[a + i]  BY <1>3
    <2>2. a + i \in 1..m  BY <1>1
    <2>3. s[a + i] = src.cells[h + (a + i)]  BY <1>2, <1>5, <2>2
    <2>4. h + (a + i) = h + a + i  BY <1>1
    <2> QED  BY <2>1, <2>3, <2>4
  <1>6. Span(u, b - a, h + a)  BY <1>1, <1>3, <1>4, <1>5 DEF Span
  <1> QED  BY <1>6 DEF u

\* The types in a span.
LEMMA SpanTypes ==
    ASSUME NEW s, NEW m, NEW h, Span(s, m, h)
    PROVE  m \in Nat /\ h \in Int /\ s \in Seq(CellType) /\ Len(s) = m
  BY DEF Span

\* Behind the first h cells, lb are in the buffer and lr in bufio.
Loaded(f, h, lb, lr) ==
    /\ Span(f.buf, lb, h) /\ Span(f.br, lr, h + lb) /\ f.pos = h + lb + lr
    /\ ~adrift => h \in Nat /\ (f.readErr = "eof" => h + lb = Len(src.cells) /\ lr = 0)

\* What loaded buffers say of the fields.
LEMMA LoadedFacts ==
    ASSUME NEW f, NEW h, NEW lb, NEW lr, Loaded(f, h, lb, lr)
    PROVE  /\ h \in Int /\ lb \in Nat /\ lr \in Nat
           /\ Here(f) = h /\ Len(f.buf) = lb /\ Len(f.br) = lr /\ f.pos = h + lb + lr
           /\ ~adrift => h \in Nat /\ Stocked(f)
  <1>1. /\ h \in Int /\ lb \in Nat /\ lr \in Nat
        /\ Len(f.buf) = lb /\ Len(f.br) = lr /\ f.pos = h + lb + lr
    BY SpanTypes DEF Loaded
  <1>2. f.pos - lr - lb = h  BY <1>1
  <1>3. Here(f) = h  BY <1>1, <1>2 DEF Here
  <1> SUFFICES ASSUME ~adrift PROVE h \in Nat /\ Stocked(f)  BY <1>1, <1>3
  <1>0. h \in Nat  BY DEF Loaded
  <1>7. lr + lb <= f.pos  BY <1>0, <1>1
  <1>4. /\ \A i \in 1..lb : f.buf[i] = src.cells[h + i]
        /\ \A i \in 1..lr : f.br[i] = src.cells[h + lb + i]
        /\ f.br \in Seq(CellType)
    BY DEF Loaded, Span
  <1>5. lr = 0 => f.br = <<>>  BY <1>1, <1>4, EmptyLen
  <1>6. f.readErr = "eof" => f.pos = Len(src.cells) /\ f.br = <<>>
    <2>1. lr = 0 => h + lb + lr = h + lb  BY <1>1
    <2> QED  BY <1>1, <1>5, <2>1 DEF Loaded
  <1> QED  BY <1>0, <1>1, <1>3, <1>4, <1>6, <1>7 DEF Stocked

\* Stocked buffers are loaded with what they hold.
LEMMA StockedLoaded ==
    ASSUME NEW f, DTypes(f), ~adrift => Stocked(f)
    PROVE  Loaded(f, Here(f), Len(f.buf), Len(f.br))
  <1>1. f.pos \in Nat /\ f.buf \in Seq(CellType) /\ f.br \in Seq(CellType)  BY DEF DTypes
  <1>2. PICK lb \in Nat, lr \in Nat : lb = Len(f.buf) /\ lr = Len(f.br)  BY <1>1, LenNat
  <1>3. PICK p \in Nat : p = f.pos  BY <1>1
  <1>4. ~adrift => lr + lb <= p  BY <1>2, <1>3 DEF Stocked
  <1>5. PICK h \in Int : h = p - lr - lb  OBVIOUS
  <1>12. ~adrift => h \in Nat  BY <1>4, <1>5
  <1>6. Here(f) = h  BY <1>2, <1>3, <1>5 DEF Here
  <1>7. p = h + lb + lr /\ h + lb \in Int  BY <1>5
  <1>8. Span(f.buf, lb, h)  BY <1>1, <1>2, <1>6 DEF Stocked, Span
  <1>9. Span(f.br, lr, h + lb)  BY <1>1, <1>2, <1>6, <1>7 DEF Stocked, Span
  <1>10. ~adrift /\ f.readErr = "eof" => p = Len(src.cells) /\ lr = 0
    BY <1>1, <1>2, <1>3, EmptyLen DEF Stocked
  <1>11. ~adrift /\ f.readErr = "eof" => h + lb = Len(src.cells) /\ lr = 0
    <2>1. lr = 0 => p = h + lb  BY <1>7
    <2> QED  BY <1>10, <2>1
  <1> QED  BY <1>2, <1>3, <1>6, <1>7, <1>8, <1>9, <1>11, <1>12 DEF Loaded

\* Nothing is a span from anywhere.
LEMMA SpanEmpty == ASSUME NEW h \in Int PROVE Span(<<>>, 0, h)
  <1>1. <<>> \in Seq(CellType) /\ Len(<<>>) = 0 /\ 1..0 = {}  OBVIOUS
  <1> QED  BY <1>1 DEF Span

\* What is left behind the end of a span is nothing.
LEMMA SpanNothing ==
    ASSUME NEW s, NEW m, NEW h, Span(s, m, h), NEW a \in Nat, a >= m, NEW g \in Int
    PROVE  Span(SubSeq(s, a + 1, m), 0, g)
  <1>1. m \in Nat /\ s \in Seq(CellType) /\ Len(s) = m  BY SpanTypes
  <1>2. a + 1 \in Nat \ {0} /\ m <= Len(s) /\ ~(a + 1 <= m)  BY <1>1
  <1>3. SubSeq(s, a + 1, m) \in Seq(CellType) /\ Len(SubSeq(s, a + 1, m)) = 0
    BY <1>1, <1>2, SliceFacts
  <1>4. SubSeq(s, a + 1, m) = <<>>  BY <1>3, EmptyLen
  <1> QED  BY <1>4, SpanEmpty

\* The first cells of a span.
LEMMA SpanFront ==
    ASSUME NEW s, NEW m, NEW h, Span(s, m, h), NEW b \in Nat, b <= m
    PROVE  Span(SubSeq(s, 1, b), b, h)
  <1>1. h \in Int  BY SpanTypes
  <1>2. 0 \in Nat /\ 0 <= b  OBVIOUS
  <1>3. Span(SubSeq(s, 0 + 1, b), b - 0, h + 0)  BY <1>2, SpanSlice
  <1>4. 0 + 1 = 1 /\ b - 0 = b /\ h + 0 = h  BY <1>1
  <1> QED  BY <1>3, <1>4

\* What follows the buffer: what bufio holds, then the rest of the source.
Rest == SubSeq(src.cells, d.pos + 1, Len(src.cells))
Stock == d.br \o Rest

\* What is left of the source, alone and behind the bufio buffer, is a span.
LEMMA StockSpan ==
    ASSUME file \in DOMAIN Sources, NEW h, NEW lb, NEW lr, NEW n, Loaded(d, h, lb, lr),
           n = Len(src.cells), h + lb + lr <= n, d.pos \in Nat
    PROVE  /\ Span(Rest, n - (h + lb + lr), h + lb + lr)
           /\ Span(Stock, n - (h + lb), h + lb)
  <1>1. h \in Int /\ lb \in Nat /\ lr \in Nat /\ d.pos = h + lb + lr  BY LoadedFacts
  <1>2. PICK p \in Nat : p = h + lb + lr  BY <1>1
  <1>3. src.cells \in Seq(CellType) /\ n \in Nat  BY SrcTypes
  <1>4. Span(src.cells, n, 0)
    <2>1. \A i \in 1..n : 0 + i = i  BY <1>3
    <2> QED  BY <1>3, <2>1 DEF Span
  <1>5. p \in Nat /\ n \in Nat /\ p <= n /\ n <= n  BY <1>2, <1>3
  <1>6. Span(SubSeq(src.cells, p + 1, n), n - p, 0 + p)  BY <1>4, <1>5, SpanSlice
  <1>7. 0 + p = p  BY <1>2
  <1>8. Rest = SubSeq(src.cells, p + 1, n)  BY <1>1, <1>2 DEF Rest
  <1>9. Span(Rest, n - p, p)  BY <1>6, <1>7, <1>8
  <1>10. PICK g \in Int : g = h + lb  BY <1>1
  <1>11. Span(d.br, lr, g)  BY <1>10 DEF Loaded
  <1>12. p = g + lr  BY <1>1, <1>2, <1>10
  <1>13. Span(Stock, lr + (n - p), g)
    <2>1. Span(Rest, n - p, g + lr)  BY <1>9, <1>12
    <2> QED  BY <1>11, <2>1, SpanJoin DEF Stock
  <1>14. lr + (n - p) = n - g  BY <1>1, <1>3, <1>10, <1>12
  <1>15. Span(Stock, n - g, g)  BY <1>13, <1>14
  <1> QED  BY <1>2, <1>9, <1>10, <1>15

\* `taken' cells go to the buffer and leave `kept' in bufio.
LEMMA Takes ==
    ASSUME DTypes(d), NEW h, NEW lb, NEW lr, Loaded(d, h, lb, lr),
           NEW n, n = Len(src.cells),
           NEW t, NEW taken, Span(t, taken, h + lb),
           NEW r, NEW kept, Span(r, kept, h + lb + taken),
           NEW p \in Nat, p = h + lb + taken + kept,
           NEW readErr \in {"none", "eof", "io"},
           readErr = "eof" => kept = 0 /\ h + lb + taken = n,
           NEW f, f = Rebuffered(d, d.buf \o t, r, p, readErr)
    PROVE  /\ DTypes(f) /\ Loaded(f, h, lb + taken, kept) /\ f.readErr = readErr
           /\ Unbuffered(f, d)
  <1>1. /\ h \in Int /\ lb \in Nat /\ lr \in Nat
        /\ ~adrift => h \in Nat
    BY LoadedFacts
  <1>2. taken \in Nat /\ kept \in Nat  BY SpanTypes
  <1> DEFINE buf == d.buf \o t
  <1>3. Span(buf, lb + taken, h)
    <2>1. Span(d.buf, lb, h)  BY DEF Loaded
    <2> QED  BY <2>1, SpanJoin
  <1> HIDE DEF buf
  <1>4. buf \in Seq(CellType) /\ r \in Seq(CellType)  BY <1>3, SpanTypes
  <1>5. p \in Nat  OBVIOUS
  <1>6. f = Rebuffered(d, buf, r, p, readErr)  BY DEF buf
  <1>7. readErr \in {"none", "eof", "io"}  OBVIOUS
  <1>8. /\ DTypes(f) /\ f.buf = buf /\ f.br = r /\ f.pos = p /\ f.readErr = readErr
        /\ Unbuffered(f, d)
    <2>1. Replaced(Rebuffered(d, buf, r, p, readErr), d, buf, r, p, readErr)
      BY <1>4, <1>5, <1>7, RebufferedFacts, Zenon
    <2> QED  BY <1>6, <2>1 DEF Replaced
  <1>9. h + (lb + taken) = h + lb + taken  BY <1>1, <1>2
  <1>10. p = h + (lb + taken) + kept  BY <1>9
  <1>11. readErr = "eof" => kept = 0 /\ h + (lb + taken) = n  BY <1>9
  <1>12. Span(r, kept, h + (lb + taken))  BY <1>9
  <1>13. Loaded(f, h, lb + taken, kept)  BY <1>1, <1>3, <1>8, <1>10, <1>11, <1>12 DEF Loaded
  <1> QED  BY <1>8, <1>13

\* What filling to the target leaves.
Filled(f, target) ==
    /\ DTypes(f) /\ (~adrift => Stocked(f)) /\ Here(f) = Here(d)
    /\ Unbuffered(f, d)
    /\ Len(d.buf) <= Len(f.buf) /\ Len(f.buf) <= Most(target, Len(d.buf))
    /\ f.readErr = "none" => Len(f.buf) >= target
    /\ Len(f.br) <= BufSize /\ f.pos <= Len(src.cells)

\* Taking a span into the frame buffer, and keeping the next, is a fill.
LEMMA TakesFills ==
    ASSUME DTypes(d), NEW target \in Nat,
           NEW h, NEW lb, NEW lr, Loaded(d, h, lb, lr),
           NEW n, n = Len(src.cells),
           NEW t, NEW taken, Span(t, taken, h + lb),
           NEW r, NEW kept, Span(r, kept, h + lb + taken),
           NEW p \in Nat, p = h + lb + taken + kept, p <= n, kept <= BufSize,
           NEW readErr \in {"none", "eof", "io"},
           readErr = "eof" => kept = 0 /\ h + lb + taken = n,
           readErr = "none" => lb + taken >= target,
           lb + taken <= Most(target, lb),
           NEW f, f = Rebuffered(d, d.buf \o t, r, p, readErr)
    PROVE  Filled(f, target)
  <1>1. /\ DTypes(f) /\ Loaded(f, h, lb + taken, kept) /\ f.readErr = readErr
        /\ Unbuffered(f, d)
    BY Takes
  <1>2. /\ h \in Int /\ lb \in Nat /\ Here(d) = h /\ Len(d.buf) = lb
    BY LoadedFacts
  <1>3. taken \in Nat /\ kept \in Nat  BY SpanTypes
  <1>4. /\ Here(f) = h /\ Len(f.buf) = lb + taken /\ Len(f.br) = kept
        /\ f.pos = h + (lb + taken) + kept /\ (~adrift => Stocked(f))
    BY <1>1, LoadedFacts
  <1>5. h + (lb + taken) + kept = p /\ lb <= lb + taken  BY <1>2, <1>3
  <1>6. Len(d.buf) <= Len(f.buf)  BY <1>2, <1>4, <1>5
  <1> QED  BY <1>1, <1>2, <1>4, <1>5, <1>6 DEF Filled

\* Rounding up to reads of BufSize.
LEMMA ReadsUp ==
    ASSUME NEW x \in Nat
    PROVE  /\ BufSize * ((x + BufSize - 1) \div BufSize) \in Nat
           /\ x <= BufSize * ((x + BufSize - 1) \div BufSize)
           /\ BufSize * ((x + BufSize - 1) \div BufSize) <= x + BufSize - 1
  <1>1. BufSize \in Nat /\ BufSize > 0  BY ConstTypes
  <1> DEFINE y == x + BufSize - 1
             q == y \div BufSize
  <1>2. y \in Nat  BY <1>1
  <1>3. /\ q \in Nat /\ y % BufSize \in 0..BufSize - 1
        /\ y = BufSize * q + (y % BufSize)
    BY <1>1, <1>2
  <1>4. PICK z \in Int : z = BufSize * q  BY <1>1, <1>3
  <1>5. z >= 0  BY <1>1, <1>3, <1>4
  <1>6. y = z + (y % BufSize)  BY <1>3, <1>4
  <1>7. z \in Nat /\ x <= z /\ z <= x + BufSize - 1
    <2>1. PICK w \in 0..BufSize - 1 : w = y % BufSize  BY <1>3
    <2>2. x + BufSize - 1 = z + w  BY <1>6, <2>1
    <2> QED  BY <1>1, <1>5, <2>1, <2>2
  <1> QED  BY <1>4, <1>7

\* Every way of filling it leaves what follows in the source.
LEMMA FillsFilled ==
    ASSUME file \in DOMAIN Sources, DTypes(d), Sizes(d), ~adrift => Stocked(d), NEW target \in Nat,
           NEW f \in Fills(target)
    PROVE  Filled(f, target)
  <1>1. PICK h, lb, lr : Loaded(d, h, lb, lr) /\ lb = Len(d.buf) /\ lr = Len(d.br)
    BY StockedLoaded
  <1>2. /\ h \in Int /\ lb \in Nat /\ lr \in Nat /\ d.pos = h + lb + lr /\ Here(d) = h
        /\ d.pos \in Nat
    BY <1>1, LoadedFacts DEF DTypes
  <1>3. PICK n \in Nat : n = Len(src.cells)  BY SrcTypes
  <1>4. h + lb + lr <= n /\ lr <= BufSize  BY <1>1, <1>2, <1>3 DEF Sizes
  <1>5. BufSize \in Nat /\ BufSize > 0  BY ConstTypes
  <1>6. Span(Rest, n - (h + lb + lr), h + lb + lr) /\ Span(Stock, n - (h + lb), h + lb)
    BY <1>1, <1>2, <1>3, <1>4, StockSpan
  <1>7. PICK x \in Nat : x = n - (h + lb + lr)  BY <1>2, <1>4
  <1>8. Len(Rest) = x /\ Len(Stock) = lr + x
    <2>1. Len(Rest) = n - (h + lb + lr) /\ Len(Stock) = n - (h + lb)  BY <1>6, SpanTypes
    <2>2. n - (h + lb) = lr + x  BY <1>2, <1>7
    <2> QED  BY <1>7, <2>1, <2>2
  <1>9. PICK need \in Int : need = target - lb  BY <1>2
  <1>10. CASE d.readErr # "none" \/ need <= 0
    <2>1. f = d  BY <1>1, <1>9, <1>10 DEF Fills
    <2>2. d.readErr = "none" => lb >= target  BY <1>2, <1>9, <1>10
    <2>3. lb <= Most(target, lb)  BY <1>2 DEF Most
    <2> QED  BY <1>1, <1>3, <1>4, <2>1, <2>2, <2>3 DEF Filled, Unbuffered, Sizes
  <1>11. CASE ~(d.readErr # "none" \/ need <= 0)
    <2>1. d.readErr = "none" /\ need > 0 /\ need \in Nat /\ need = target - lb
      BY <1>9, <1>11
    <2>2. lb + need = target /\ target >= lb  BY <1>2, <2>1
    <2>3. Most(target, lb) = target  BY <1>2, <2>2 DEF Most
    <2>4. CASE need <= lr
      <3>1. f = [d EXCEPT !.buf = @ \o SubSeq(d.br, 1, need), !.br = SubSeq(@, need + 1, Len(@))]
        <4>1. need - lr <= 0  BY <1>2, <2>1, <2>4
        <4>2. ~(d.readErr # "none" \/ target - Len(d.buf) <= 0)  BY <1>1, <1>9, <1>11
        <4>3. target - Len(d.buf) - Len(d.br) <= 0  BY <1>1, <1>9, <4>1
        <4>4. f \in {[d EXCEPT !.buf = @ \o SubSeq(d.br, 1, target - Len(d.buf)),
                               !.br = SubSeq(@, target - Len(d.buf) + 1, Len(@))]}
          BY <4>2, <4>3 DEF Fills
        <4> QED  BY <1>1, <1>9, <4>4
      <3> DEFINE t == SubSeq(d.br, 1, need)
                 r == SubSeq(d.br, need + 1, lr)
      <3>2. f = Rebuffered(d, d.buf \o t, r, d.pos, d.readErr)
        BY <1>1, <3>1, Zenon DEF Rebuffered, DTypes, DFields
      <3>3. Span(d.br, lr, h + lb)  BY <1>1 DEF Loaded
      <3>4. Span(t, need, h + lb)
        BY <2>1, <2>4, <3>3, SpanFront
      <3>5. Span(r, lr - need, h + lb + need)
        <4>1. lr <= lr  BY <1>2
        <4> QED  BY <1>2, <2>1, <2>4, <3>3, <4>1, SpanSlice
      <3> HIDE DEF t, r
      <3>6. PICK kept \in Nat : kept = lr - need  BY <1>2, <2>1, <2>4
      <3>7. d.pos = h + lb + need + kept  BY <1>2, <2>1, <3>6
      <3>8. d.pos <= n  BY <1>2, <1>4
      <3>9. kept <= BufSize  BY <1>2, <1>4, <1>5, <2>1, <3>6
      <3>10. lb + need >= target /\ lb + need <= Most(target, lb)  BY <1>2, <2>2, <2>3
      <3>11. Span(r, kept, h + lb + need)  BY <3>5, <3>6
      <3>12. d.readErr \in {"none", "eof", "io"} /\ d.readErr # "eof"  BY <2>1
      <3> QED  BY <1>1, <1>2, <1>3, <3>2, <3>4, <3>7, <3>8, <3>9, <3>10, <3>11, <3>12, TakesFills
    <2>5. CASE need > lr
      <3> DEFINE beyond == need - lr
                 pulled == Least(x, BufSize * ((beyond + BufSize - 1) \div BufSize))
                 taken == Least(need, lr + x)
      <3>1. beyond \in Nat /\ beyond > 0  BY <1>2, <2>1, <2>5
      <3>2. \/ f = [d EXCEPT !.buf = @ \o SubSeq(Stock, 1, taken),
                             !.br = SubSeq(Stock, need + 1, lr + pulled),
                             !.pos = @ + pulled,
                             !.readErr = IF lr + x < need THEN "eof" ELSE "none"]
            \/ \E m \in 0..Least(beyond - 1, x) :
                  f = [d EXCEPT !.buf = @ \o SubSeq(Stock, 1, lr + m),
                                !.br = <<>>, !.pos = @ + m, !.readErr = "io"]
        <4>1. ~(d.readErr # "none" \/ target - Len(d.buf) <= 0)  BY <1>1, <1>9, <1>11
        <4>2. ~(target - Len(d.buf) - Len(d.br) <= 0)
          <5>1. ~(need - lr <= 0)  BY <1>2, <2>1, <2>5
          <5> QED  BY <1>1, <1>9, <5>1
        <4>3. target - Len(d.buf) = need /\ need - Len(d.br) = beyond  BY <1>1, <1>9
        <4> HIDE DEF beyond
        <4>4. \/ f = [d EXCEPT !.buf = @ \o SubSeq(Stock, 1, Least(need, Len(Stock))),
                             !.br = SubSeq(Stock, need + 1, Len(d.br) + pulled),
                             !.pos = @ + pulled,
                             !.readErr = IF Len(Stock) < need THEN "eof" ELSE "none"]
              \/ \E m \in 0..Least(beyond - 1, Len(Rest)) :
                  f = [d EXCEPT !.buf = @ \o SubSeq(Stock, 1, Len(d.br) + m),
                                !.br = <<>>, !.pos = @ + m, !.readErr = "io"]
          BY <1>8, <4>1, <4>2, <4>3 DEF Fills, Stock, Rest
        <4> QED  BY <1>1, <1>8, <4>4
      <3> HIDE DEF beyond
      <3>3. Span(Stock, lr + x, h + lb)  BY <1>2, <1>6, <1>7
      <3>4. CASE f = [d EXCEPT !.buf = @ \o SubSeq(Stock, 1, taken),
                               !.br = SubSeq(Stock, need + 1, lr + pulled),
                               !.pos = @ + pulled,
                               !.readErr = IF lr + x < need THEN "eof" ELSE "none"]
        <4>1. CASE lr + x < need
          <5>1. taken = lr + x /\ lr + x \in Nat  BY <1>2, <1>7, <2>1, <4>1 DEF Least
          <5>2. pulled = x
            <6>1. PICK y \in Nat : y = BufSize * ((beyond + BufSize - 1) \div BufSize) /\ beyond <= y
              BY <3>1, ReadsUp
            <6>2. x < beyond  BY <1>2, <1>7, <2>1, <4>1 DEF beyond
            <6>3. x <= y  BY <1>7, <3>1, <6>1, <6>2
            <6> QED  BY <6>1, <6>3 DEF Least
          <5> DEFINE t == SubSeq(Stock, 1, lr + x)
                     r == SubSeq(Stock, need + 1, lr + x)
          <5>3. Span(t, lr + x, h + lb)
            <6>1. lr + x <= lr + x  BY <5>1
            <6> QED  BY <3>3, <5>1, <6>1, SpanFront
          <5>4. Span(r, 0, h + lb + (lr + x))
            <6>1. need >= lr + x /\ h + lb + (lr + x) \in Int  BY <1>2, <2>1, <4>1, <5>1
            <6> QED  BY <2>1, <3>3, <6>1, SpanNothing
          <5> HIDE DEF taken, pulled
          <5>5. f = [d EXCEPT !.buf = @ \o t, !.br = r, !.pos = @ + x, !.readErr = "eof"]
            BY <3>4, <4>1, <5>1, <5>2
          <5> HIDE DEF t, r
          <5>6. PICK p \in Nat : p = d.pos + x  BY <1>2, <1>7
          <5>7. f = Rebuffered(d, d.buf \o t, r, p, "eof")
            BY <5>5, <5>6, Zenon DEF Rebuffered
          <5>8. p = h + lb + (lr + x) + 0 /\ h + lb + (lr + x) = n /\ p <= n
            BY <1>2, <1>7, <5>6
          <5>9. lb + (lr + x) <= Most(target, lb)
            <6>1. lb + (lr + x) <= target  BY <1>2, <2>2, <4>1, <5>1, <2>1
            <6> QED  BY <2>3, <6>1
          <5>10. 0 <= BufSize /\ "eof" \in {"none", "eof", "io"} /\ "eof" # "none"  BY <1>5
          <5> QED  BY <1>1, <1>3, <5>3, <5>4, <5>7, <5>8, <5>9, <5>10, TakesFills
        <4>2. CASE need <= lr + x
          <5>1. taken = need  BY <4>2 DEF Least
          <5>2. PICK pu \in Nat : pu = pulled /\ pu <= x /\ beyond <= pu /\ pu <= beyond + BufSize - 1
            <6>1. PICK y \in Nat : /\ y = BufSize * ((beyond + BufSize - 1) \div BufSize)
                                   /\ beyond <= y /\ y <= beyond + BufSize - 1
              BY <3>1, ReadsUp
            <6>2. beyond <= x  BY <1>2, <1>7, <2>1, <4>2 DEF beyond
            <6>3. pulled = Least(x, y)  BY <6>1
            <6>4. Least(x, y) \in Nat /\ Least(x, y) <= x /\ beyond <= Least(x, y) /\ Least(x, y) <= y
              BY <1>7, <3>1, <6>1, <6>2 DEF Least
            <6> HIDE DEF pulled
            <6>5. Least(x, y) <= beyond + BufSize - 1  BY <1>5, <3>1, <6>1, <6>4
            <6> QED  BY <6>3, <6>4, <6>5
          <5> HIDE DEF pulled, taken
          <5>3. PICK kept \in Nat : kept = lr + pu - need /\ kept <= BufSize
            <6>1. lr + pu - need \in Nat /\ lr + pu - need <= BufSize
              BY <1>2, <1>5, <2>1, <3>1, <5>2 DEF beyond
            <6> QED  BY <6>1
          <5> DEFINE t == SubSeq(Stock, 1, need)
                     r == SubSeq(Stock, need + 1, lr + pu)
          <5>4. Span(t, need, h + lb)  BY <2>1, <3>3, <4>2, SpanFront
          <5>5. Span(r, kept, h + lb + need)
            <6>1. PICK e \in Nat : e = lr + pu  BY <1>2, <5>2
            <6>2. need \in Nat /\ need <= e /\ e <= lr + x  BY <1>2, <1>7, <2>1, <5>2, <5>3, <6>1
            <6>3. Span(SubSeq(Stock, need + 1, e), e - need, h + lb + need)
              BY <3>3, <6>2, SpanSlice
            <6>4. kept = e - need  BY <1>2, <5>3, <6>1
            <6>5. r = SubSeq(Stock, need + 1, e)  BY <6>1
            <6> HIDE DEF r
            <6> QED  BY <6>3, <6>4, <6>5
          <5>6. f = [d EXCEPT !.buf = @ \o t, !.br = r, !.pos = @ + pu, !.readErr = "none"]
            <6>1. ~(lr + x < need)  BY <1>2, <1>7, <2>1, <4>2
            <6> QED  BY <3>4, <5>1, <5>2, <6>1
          <5> HIDE DEF t, r
          <5>7. PICK p \in Nat : p = d.pos + pu  BY <1>2, <5>2
          <5>8. f = Rebuffered(d, d.buf \o t, r, p, "none")
            BY <5>6, <5>7, Zenon DEF Rebuffered
          <5>9. p = h + lb + need + kept /\ p <= n
            BY <1>2, <1>7, <2>1, <5>2, <5>3, <5>7
          <5>10. lb + need <= Most(target, lb) /\ lb + need >= target  BY <1>2, <2>2, <2>3
          <5>11. "none" \in {"none", "eof", "io"} /\ "none" # "eof"  OBVIOUS
          <5> QED  BY <1>1, <1>3, <5>3, <5>4, <5>5, <5>8, <5>9, <5>10, <5>11, TakesFills
        <4> QED  BY <1>2, <1>7, <2>1, <4>1, <4>2
      <3>5. CASE \E m \in 0..Least(beyond - 1, x) :
                  f = [d EXCEPT !.buf = @ \o SubSeq(Stock, 1, lr + m),
                                !.br = <<>>, !.pos = @ + m, !.readErr = "io"]
        <4>1. PICK m \in 0..Least(beyond - 1, x) :
                  f = [d EXCEPT !.buf = @ \o SubSeq(Stock, 1, lr + m),
                                !.br = <<>>, !.pos = @ + m, !.readErr = "io"]
          BY <3>5
        <4>2. m \in Nat /\ m < beyond /\ m <= x  BY <1>7, <3>1 DEF Least
        <4>3. PICK taken2 \in Nat : taken2 = lr + m  BY <1>2, <4>2
        <4> DEFINE t == SubSeq(Stock, 1, taken2)
        <4>4. Span(t, taken2, h + lb)
          <5>1. taken2 <= lr + x  BY <1>2, <1>7, <4>2, <4>3
          <5> QED  BY <3>3, <5>1, SpanFront
        <4>5. Span(<<>>, 0, h + lb + taken2)
          <5>1. h + lb + taken2 \in Int  BY <1>2
          <5> QED  BY <5>1, SpanEmpty
        <4>6. PICK p \in Nat : p = d.pos + m  BY <1>2, <4>2
        <4>7. f = [d EXCEPT !.buf = @ \o t, !.br = <<>>, !.pos = p, !.readErr = "io"]
          BY <4>1, <4>3, <4>6
        <4> HIDE DEF t
        <4>8. f = Rebuffered(d, d.buf \o t, <<>>, p, "io")
          BY <4>7, Zenon DEF Rebuffered
        <4>9. p = h + lb + taken2 + 0 /\ p <= n
          BY <1>2, <1>7, <4>2, <4>3, <4>6
        <4>10. lb + taken2 <= Most(target, lb)
          <5>1. lb + taken2 <= target  BY <1>2, <2>1, <2>2, <4>2, <4>3 DEF beyond
          <5> QED  BY <2>3, <5>1
        <4>11. 0 <= BufSize /\ "io" \in {"none", "eof", "io"} /\ "io" # "none" /\ "io" # "eof"
          BY <1>5
        <4> QED  BY <1>1, <1>3, <4>4, <4>5, <4>8, <4>9, <4>10, <4>11, TakesFills
      <3> QED  BY <3>2, <3>4, <3>5
    <2> QED  BY <1>2, <2>1, <2>4, <2>5
  <1> QED  BY <1>10, <1>11

-----------------------------------------------------------------------------
(***************************************************************************)
(* Some fields change.                                                     *)
(***************************************************************************)
\* Fields outside the changed ones are as they were, one by one.
LEMMA ChangedFields ==
    ASSUME NEW f, NEW g, NEW S, Changed(g, f, S)
    PROVE  /\ "pos" \notin S => g.pos = f.pos
           /\ "br" \notin S => g.br = f.br
           /\ "buf" \notin S => g.buf = f.buf
           /\ "readErr" \notin S => g.readErr = f.readErr
           /\ "pending" \notin S => g.pending = f.pending
           /\ "tagChecked" \notin S => g.tagChecked = f.tagChecked
           /\ "frames" \notin S => g.frames = f.frames
           /\ "start" \notin S => g.start = f.start
           /\ "end" \notin S => g.end = f.end
           /\ "produced" \notin S => g.produced = f.produced
           /\ "audioStart" \notin S => g.audioStart = f.audioStart
           /\ "firstBytes" \notin S => g.firstBytes = f.firstBytes
           /\ "seen" \notin S => g.seen = f.seen
           /\ "frameOff" \notin S => g.frameOff = f.frameOff
           /\ "done" \notin S => g.done = f.done
           /\ "err" \notin S => g.err = f.err
           /\ "rate" \notin S => g.rate = f.rate
           /\ "total" \notin S => g.total = f.total
  BY Zenon DEF Changed, DFields

\* The fields there are.
LEMMA DomainOf == ASSUME NEW f, DTypes(f) PROVE DOMAIN f = DFields
  BY DEF DTypes

\* What the end of a stream, or an error, leaves sound.
LEMMA SoundChanged ==
    ASSUME NEW f, Sound(f), NEW g, DTypes(g), Changed(g, f, DFields \ Buffers),
           Len(g.pending) <= FrameSize, g.audioStart <= Len(src.cells),
           Live(g) => Live(f), Opened(g), CachedOffsets(g), f.rate => g.rate
    PROVE  Sound(g) /\ Here(g) = Here(f)
  <1>1. g.pos = f.pos /\ g.br = f.br /\ g.buf = f.buf /\ g.readErr = f.readErr
    <2>1. \A x \in Buffers : x \in DFields /\ x \notin DFields \ Buffers  BY DEF Buffers, DFields
    <2> QED  BY <2>1, Zenon DEF Changed, Buffers
  <1>2. Here(g) = Here(f)  BY <1>1 DEF Here
  <1>3. (Live(f) /\ ~adrift => Stocked(f)) /\ (adrift => f.rate)  BY DEF Sound
  <1>4. Stocked(f) => Stocked(g)  BY <1>1, <1>2 DEF Stocked
  <1>5. Sizes(g)  BY <1>1 DEF Sound, Sizes
  <1> QED  BY <1>2, <1>3, <1>4, <1>5 DEF Sound

\* A bound on the changed fields may be widened.
LEMMA ChangedLess ==
    ASSUME NEW f, NEW g, NEW S, NEW T, S \subseteq T, Changed(g, f, S)
    PROVE  Changed(g, f, T)
  BY DEF Changed

\* Two changes in a row.
LEMMA ChangedTwice ==
    ASSUME NEW f, NEW g, NEW h, NEW S, NEW T, Changed(g, f, S), Changed(h, g, T)
    PROVE  Changed(h, f, S \cup T)
  BY Zenon DEF Changed

\* Dropping the first n cells of the buffer.
LEMMA ConsumeFacts ==
    ASSUME NEW f, Sound(f), Live(f), NEW n \in Nat, n <= Len(f.buf)
    PROVE  LET g == Consume(f, n)
           IN  /\ Sound(g) /\ Live(g) /\ Changed(g, f, {"buf"})
               /\ Len(g.buf) = Len(f.buf) - n /\ Here(g) = Here(f) + n
  <1> DEFINE g == Consume(f, n)
  <1>1. DTypes(f) /\ (~adrift => Stocked(f))  BY DEF Sound
  <1>2. DOMAIN f = DFields  BY <1>1, DomainOf
  <1>3. PICK h, lb, lr : Loaded(f, h, lb, lr) /\ lb = Len(f.buf)  BY <1>1, StockedLoaded
  <1>4. /\ h \in Int /\ lb \in Nat /\ lr \in Nat /\ f.pos = h + lb + lr /\ Here(f) = h
        /\ Len(f.br) = lr /\ (~adrift => h \in Nat)
    BY <1>3, LoadedFacts
  <1>5. g = [f EXCEPT !.buf = SubSeq(f.buf, n + 1, lb)]  BY <1>3 DEF Consume
  <1> DEFINE b == SubSeq(f.buf, n + 1, lb)
  <1>6. Span(b, lb - n, h + n)
    <2>1. Span(f.buf, lb, h)  BY <1>3 DEF Loaded
    <2>2. lb <= lb /\ n <= lb  BY <1>3, <1>4
    <2> QED  BY <1>4, <2>1, <2>2, SpanSlice
  <1>7. b \in Seq(CellType) /\ Len(b) = lb - n  BY <1>6, SpanTypes
  <1> HIDE DEF b
  <1>8. DOMAIN g = DFields /\ g.buf = b /\ \A x \in DFields \ {"buf"} : g[x] = f[x]
    BY <1>2, <1>5, Zenon DEF DFields, b
  <1> HIDE DEF g
  <1>9. Changed(g, f, {"buf"})  BY <1>8 DEF Changed
  <1>10. /\ g.pos = f.pos /\ g.br = f.br /\ g.readErr = f.readErr /\ g.pending = f.pending
         /\ g.tagChecked = f.tagChecked /\ g.frames = f.frames /\ g.start = f.start /\ g.end = f.end
         /\ g.produced = f.produced /\ g.audioStart = f.audioStart /\ g.firstBytes = f.firstBytes
         /\ g.seen = f.seen /\ g.frameOff = f.frameOff /\ g.done = f.done /\ g.err = f.err
         /\ g.rate = f.rate /\ g.total = f.total
    BY <1>9, ChangedFields
  <1>11. DTypes(g)  BY <1>1, <1>7, <1>8, <1>10 DEF DTypes
  <1>12. PICK m \in Nat, k \in Int : m = lb - n /\ k = h + n
    <2>1. n <= lb  BY <1>3
    <2>2. lb - n \in Nat /\ h + n \in Int  BY <1>4, <2>1
    <2> QED  BY <2>2
  <1>13. Loaded(g, k, m, lr)
    <2>1. k + m = h + lb  BY <1>4, <1>12
    <2>2. Span(g.buf, m, k)  BY <1>6, <1>8, <1>12 DEF b
    <2>3. Span(g.br, lr, k + m)  BY <1>3, <1>10, <2>1 DEF Loaded
    <2>4. g.pos = k + m + lr  BY <1>4, <1>10, <2>1
    <2>5. ~adrift /\ g.readErr = "eof" => k + m = Len(src.cells) /\ lr = 0
      BY <1>3, <1>10, <2>1 DEF Loaded
    <2>6. ~adrift => k \in Nat  BY <1>4, <1>12
    <2> QED  BY <2>2, <2>3, <2>4, <2>5, <2>6 DEF Loaded
  <1>14. Here(g) = k /\ Len(g.buf) = m /\ (~adrift => Stocked(g))  BY <1>13, LoadedFacts
  <1>15. Live(g)  BY <1>10 DEF Live
  <1>16. Sizes(g)
    <2>1. m <= lb  BY <1>4, <1>12
    <2>2. ResyncWindow \in Nat  BY ConstTypes
    <2>3. lb <= ResyncWindow  BY <1>3 DEF Sound, Sizes
    <2>4. m <= ResyncWindow  BY <1>4, <2>1, <2>2, <2>3
    <2> QED  BY <1>10, <1>14, <2>4 DEF Sound, Sizes
  <1>17. Opened(g)
    <2>1. ~f.seen => f.audioStart <= h  BY <1>4 DEF Sound, Opened
    <2>2. f.audioStart \in Nat  BY <1>1 DEF DTypes
    <2>3. ~f.seen => f.audioStart <= k  BY <1>4, <1>12, <2>1, <2>2
    <2> QED  BY <1>10, <1>14, <2>3 DEF Sound, Opened
  <1>18. CachedOffsets(g)  BY <1>10 DEF Sound, CachedOffsets
  <1>19. Sound(g)  BY <1>10, <1>11, <1>14, <1>16, <1>17, <1>18 DEF Sound
  <1>20. Len(g.buf) = Len(f.buf) - n /\ Here(g) = Here(f) + n
    BY <1>3, <1>4, <1>12, <1>14
  <1> QED  BY <1>9, <1>15, <1>19, <1>20 DEF g

\* Filling the buffer of a live decoder.
LEMMA FillFacts ==
    ASSUME file \in DOMAIN Sources, Sound(d), Live(d), NEW target \in Nat, target <= ResyncWindow,
           NEW f \in Fills(target)
    PROVE  /\ Sound(f) /\ Live(f) /\ Filled(f, target) /\ Changed(f, d, Buffers)
           /\ Here(f) = Here(d)
  <1>1. DTypes(d) /\ Sizes(d) /\ (~adrift => Stocked(d))  BY DEF Sound
  <1>2. Filled(f, target)  BY <1>1, FillsFilled
  <1>3. /\ DTypes(f) /\ (~adrift => Stocked(f)) /\ Here(f) = Here(d)
        /\ Unbuffered(f, d)
    BY <1>2 DEF Filled
  <1>4. Changed(f, d, Buffers)  BY <1>3, DomainOf DEF Changed, Unbuffered
  <1>5. /\ f.pending = d.pending
        /\ f.tagChecked = d.tagChecked /\ f.frames = d.frames /\ f.start = d.start /\ f.end = d.end
        /\ f.produced = d.produced /\ f.audioStart = d.audioStart /\ f.firstBytes = d.firstBytes
        /\ f.seen = d.seen /\ f.frameOff = d.frameOff /\ f.done = d.done /\ f.err = d.err
        /\ f.rate = d.rate /\ f.total = d.total
    BY <1>4, ChangedFields DEF Buffers
  <1>6. Live(f)  BY <1>5 DEF Live
  <1>7. Len(f.buf) <= ResyncWindow
    <2>1. Len(f.buf) \in Nat /\ Len(d.buf) \in Nat  BY <1>1, <1>3, LenNat DEF DTypes
    <2>2. Len(f.buf) <= Most(target, Len(d.buf))  BY <1>2 DEF Filled
    <2>3. Len(d.buf) <= ResyncWindow  BY <1>1 DEF Sizes
    <2>4. ResyncWindow \in Nat  BY ConstTypes
    <2>5. Most(target, Len(d.buf)) \in {target, Len(d.buf)}  BY DEF Most
    <2> QED  BY <2>1, <2>2, <2>3, <2>4, <2>5
  <1>8. Sizes(f)  BY <1>1, <1>2, <1>5, <1>7 DEF Sizes, Filled
  <1>9. Opened(f)  BY <1>3, <1>5 DEF Sound, Opened, Live
  <1>10. CachedOffsets(f)  BY <1>5 DEF Sound, CachedOffsets
  <1> QED  BY <1>2, <1>3, <1>4, <1>5, <1>6, <1>8, <1>9, <1>10 DEF Sound

-----------------------------------------------------------------------------
(***************************************************************************)
(* Numbers, and one decoded frame.                                         *)
(***************************************************************************)
Below == {p \in Nat \X Nat : p[1] < p[2]}

\* A set of numbers has a smallest one.
LEMMA Smallest ==
    ASSUME NEW S \in SUBSET Nat, S # {}
    PROVE  \E n \in S : \A m \in S : n <= m
  <1>1. IsWellFoundedOn(Below, Nat)  BY NatLessThanWellFounded DEF OpToRel, Below
  <1>2. PICK x \in S : \A y \in S : <<y, x>> \notin Below
    <2>1. S \subseteq Nat  OBVIOUS
    <2> QED  BY <1>1, WFMin, <2>1
  <1>3. ASSUME NEW y \in S PROVE x <= y
    <2>1. x \in Nat /\ y \in Nat  OBVIOUS
    <2>2. <<y, x>> \notin Below  BY <1>2
    <2>3. ~(y < x)  BY <2>1, <2>2 DEF Below
    <2> QED  BY <2>1, <2>3
  <1> QED  BY <1>3

\* What Min chooses.
LEMMA MinIs ==
    ASSUME NEW S \in SUBSET Nat, S # {}
    PROVE  Min(S) \in S /\ \A y \in S : Min(S) <= y
  BY Smallest DEF Min

\* What Max chooses from a bounded set.
LEMMA MaxIs ==
    ASSUME NEW S \in SUBSET Nat, S # {}, NEW n \in Nat, \A x \in S : x <= n
    PROVE  Max(S) \in S /\ \A y \in S : Max(S) >= y
  <1> DEFINE T == {n - x : x \in S}
  <1>0. ASSUME NEW x \in S PROVE n - x \in Nat
    <2>1. x \in Nat /\ x <= n  OBVIOUS
    <2> QED  BY <2>1
  <1>1. T \in SUBSET Nat /\ T # {}  BY <1>0
  <1>2. PICK m \in T : \A k \in T : m <= k
    <2> HIDE DEF T
    <2> QED  BY <1>1, Smallest
  <1>3. PICK x \in S : m = n - x  BY <1>2
  <1>4. ASSUME NEW y \in S PROVE x >= y
    <2>1. n - y \in T  OBVIOUS
    <2>2. n - x <= n - y  BY <1>2, <1>3, <2>1
    <2>3. x \in Nat /\ y \in Nat  OBVIOUS
    <2> QED  BY <2>2, <2>3
  <1> QED  BY <1>4 DEF Max

\* Where the first confirmed frame is.
LEMMA FindFrameFacts ==
    ASSUME NEW b, NEW n \in Nat, b \in Seq(CellType), n = Len(b)
    PROVE  /\ FindFrame(b) \in 0..n
           /\ FindFrame(b) < n =>
                 /\ Confirmed(b, FindFrame(b) + 1) /\ FindFrame(b) + 1 \in 1..n - 1
                 /\ \A i \in 1..FindFrame(b) : ~Confirmed(b, i)
           /\ FindFrame(b) = n => \A i \in 1..n - 1 : ~Confirmed(b, i)
  <1> DEFINE hits == {i \in 1..n - 1 : Confirmed(b, i)}
  <1>1. FindFrame(b) = IF hits = {} THEN n ELSE Min(hits) - 1  BY DEF FindFrame
  <1>2. CASE hits = {}
    <2>1. FindFrame(b) = n  BY <1>1, <1>2
    <2>2. \A i \in 1..n - 1 : ~Confirmed(b, i)  BY <1>2
    <2>3. ~(n < n) /\ n \in 0..n  OBVIOUS
    <2> QED  BY <2>1, <2>2, <2>3
  <1>3. CASE hits # {}
    <2>1. hits \in SUBSET Nat  OBVIOUS
    <2>2. \A i \in hits : i \in 1..n - 1 /\ Confirmed(b, i)  OBVIOUS
    <2>3. \A i \in 1..n - 1 : Confirmed(b, i) => i \in hits  OBVIOUS
    <2> HIDE DEF hits
    <2>4. PICK m : m = Min(hits)  OBVIOUS
    <2>5. m \in hits /\ \A y \in hits : m <= y  BY <1>3, <2>1, <2>4, MinIs
    <2>6. m \in 1..n - 1 /\ Confirmed(b, m)  BY <2>2, <2>5
    <2>7. PICK o \in Nat : o = m - 1 /\ o + 1 = m /\ o < n /\ o # n  BY <2>6
    <2>8. FindFrame(b) = o  BY <1>1, <1>3, <2>4, <2>7
    <2>9. ASSUME NEW i \in 1..o PROVE ~Confirmed(b, i)
      <3>1. i \in 1..n - 1 /\ ~(m <= i)  BY <2>6, <2>7
      <3> QED  BY <2>3, <2>5, <3>1
    <2> QED  BY <2>6, <2>7, <2>8, <2>9
  <1> QED  BY <1>2, <1>3

\* A confirmed frame begins with a header and lies within the buffer.
LEMMA ConfirmedFacts ==
    ASSUME NEW b, NEW n \in Nat, b \in Seq(CellType), n = Len(b), NEW i \in 1..n, Confirmed(b, i)
    PROVE  IsHeader(b[i]) /\ i + FrameLen <= n + 1
  <1>1. b[i].kind \in {Sized, Free}  BY DEF Confirmed
  <1>2. FrameLen \in Nat  BY ConstTypes
  <1>3. CASE MatchFrame(b, i)
    <2>1. i + FrameLen <= n  BY <1>3 DEF MatchFrame
    <2> QED  BY <1>1, <1>2, <2>1 DEF IsHeader
  <1>4. CASE i = 1 /\ n = FrameLen  BY <1>1, <1>2, <1>4 DEF IsHeader
  <1> QED  BY <1>3, <1>4 DEF Confirmed

\* So does one on the fast path.
LEMMA FastPathFacts ==
    ASSUME NEW b, NEW n \in Nat, b \in Seq(CellType), n = Len(b), FastPath(b)
    PROVE  n > 0 /\ IsHeader(b[1]) /\ FrameLen <= n
  <1>1. FrameLen \in Nat  BY ConstTypes
  <1> QED  BY <1>1 DEF FastPath

\* What one decoded frame is: the one at the front, or the first confirmed one.
Base(b) == IF FastPath(b) THEN dec ELSE Cold
OffIn(b) == IF FastPath(b) THEN 0 ELSE FindFrame(b)

\* Where a decode finds a frame, if it does.
LEMMA OffInFacts ==
    ASSUME NEW b, b \in Seq(CellType), NEW n \in Nat, n = Len(b), n > 0, NEW off, off = OffIn(b)
    PROVE  /\ off \in 0..n
           /\ off < n => /\ IsHeader(b[off + 1]) /\ off + FrameLen <= n /\ b[off + 1] \in CellType
  <1>1. FrameLen \in Nat  BY ConstTypes
  <1>2. \A i \in 1..n : b[i] \in CellType  BY ElementOfSeq
  <1>3. CASE FastPath(b)
    <2>1. off = 0  BY <1>3 DEF OffIn
    <2>2. IsHeader(b[1]) /\ FrameLen <= n  BY <1>3, FastPathFacts
    <2>3. 0 + 1 = 1 /\ 0 + FrameLen = FrameLen /\ 1 \in 1..n /\ 0 \in 0..n  BY <1>1
    <2> QED  BY <1>2, <2>1, <2>2, <2>3
  <1>4. CASE ~FastPath(b)
    <2>1. off = FindFrame(b)  BY <1>4 DEF OffIn
    <2>2. off \in 0..n  BY <2>1, FindFrameFacts
    <2>3. ASSUME off < n
          PROVE  IsHeader(b[off + 1]) /\ off + FrameLen <= n /\ b[off + 1] \in CellType
      <3>1. Confirmed(b, off + 1) /\ off + 1 \in 1..n - 1  BY <2>1, <2>3, FindFrameFacts
      <3>2. off + 1 \in 1..n  BY <3>1
      <3>3. IsHeader(b[off + 1]) /\ (off + 1) + FrameLen <= n + 1  BY <3>1, <3>2, ConfirmedFacts
      <3>4. off + FrameLen <= n  BY <1>1, <2>2, <3>3
      <3> QED  BY <1>2, <3>2, <3>3, <3>4
    <2> QED  BY <2>2, <2>3
  <1> QED  BY <1>3, <1>4

\* The decoder after the frame at off.
After(b, off) ==
    [hdr |-> b[off + 1].kind, run |-> Least(Base(b).run + 1, PrimeFrames),
     prev |-> IF b[off + 1].need <= Base(b).run THEN b[off + 1].id ELSE Base(b).prev]

HitAt(b, off) ==
    [hit |-> TRUE, off |-> off, id |-> b[off + 1].id, ok |-> b[off + 1].need <= Base(b).run,
     prev |-> Base(b).prev, bytes |-> off + FrameLen, dec |-> After(b, off)]

\* DecodeFrame when it finds a frame.
LEMMA DecodeHit ==
    ASSUME NEW b, b \in Seq(CellType), NEW n \in Nat, n = Len(b), n > 0, NEW off, off = OffIn(b),
           off < n
    PROVE  DecodeFrame(b) = HitAt(b, off)
  <1>1. off \in 0..n /\ IsHeader(b[off + 1])  BY OffInFacts
  <1>2. off # n  BY <1>1
  <1> DEFINE head == b[off + 1]
             ok == IsHeader(head) /\ head.need <= Base(b).run
  <1>3. DecodeFrame(b) =
            [hit |-> off < n, off |-> off, id |-> head.id, ok |-> ok, prev |-> Base(b).prev,
             bytes |-> IF off < n THEN off + FrameLen ELSE off,
             dec |-> IF off = n THEN Cold
                     ELSE [hdr |-> head.kind, run |-> Least(Base(b).run + 1, PrimeFrames),
                           prev |-> IF ok THEN head.id ELSE Base(b).prev]]
    BY DEF DecodeFrame, Base, OffIn
  <1>4. ok = (head.need <= Base(b).run)  BY <1>1
  <1> HIDE DEF head, ok
  <1>5. DecodeFrame(b) =
            [hit |-> TRUE, off |-> off, id |-> head.id, ok |-> ok, prev |-> Base(b).prev,
             bytes |-> off + FrameLen,
             dec |-> [hdr |-> head.kind, run |-> Least(Base(b).run + 1, PrimeFrames),
                      prev |-> IF ok THEN head.id ELSE Base(b).prev]]
    BY <1>2, <1>3
  <1> QED  BY <1>4, <1>5, Zenon DEF head, HitAt, After

\* DecodeFrame when it finds none.
LEMMA DecodeMiss ==
    ASSUME NEW b, b \in Seq(CellType), NEW n \in Nat, n = Len(b), n > 0, NEW off, off = OffIn(b),
           off = n
    PROVE  /\ DecodeFrame(b).hit = FALSE /\ DecodeFrame(b).off = n /\ DecodeFrame(b).bytes = n
           /\ DecodeFrame(b).dec = Cold /\ DecodeFrame(b).ok = FALSE
  <1>1. ~(off < n)  OBVIOUS
  <1> DEFINE head == IF off < n THEN b[off + 1] ELSE Cell("junk", 0, 0)
             ok == IsHeader(head) /\ head.need <= Base(b).run
             next == [hdr |-> head.kind, run |-> Least(Base(b).run + 1, PrimeFrames),
                      prev |-> IF ok THEN head.id ELSE Base(b).prev]
  <1>2. DecodeFrame(b) =
            [hit |-> off < n, off |-> off, id |-> head.id, ok |-> ok, prev |-> Base(b).prev,
             bytes |-> IF off < n THEN off + FrameLen ELSE off,
             dec |-> IF off = n THEN Cold ELSE next]
    BY DEF DecodeFrame, Base, OffIn
  <1>4. ok = FALSE  BY <1>1 DEF Cell, IsHeader, Sized, Free
  <1> HIDE DEF head, ok, next
  <1>3. DecodeFrame(b) =
            [hit |-> FALSE, off |-> n, id |-> head.id, ok |-> ok, prev |-> Base(b).prev,
             bytes |-> n, dec |-> Cold]
    <2>1. (off < n) = FALSE  BY <1>1
    <2>2. (IF off < n THEN off + FrameLen ELSE off) = n  BY <1>1
    <2>3. (IF off = n THEN Cold ELSE next) = Cold  OBVIOUS
    <2>4. off = n  OBVIOUS
    <2> QED  BY <1>2, <2>1, <2>2, <2>3, <2>4
  <1> QED  BY <1>3, <1>4

\* DecodeFrame by its result: types, sizes, and the header it names.
LEMMA DecodeFacts ==
    ASSUME DecTypes(dec), NEW b, b \in Seq(CellType), NEW n \in Nat, n = Len(b), n > 0,
           NEW o, o = DecodeFrame(b)
    PROVE  /\ DecTypes(o.dec) /\ o.off \in 0..n /\ o.bytes \in 0..n /\ o.hit \in BOOLEAN
           /\ ~o.hit => o.off = n /\ o.bytes = n /\ o.dec = Cold /\ ~o.ok
           /\ o.hit => /\ o.off < n /\ o.bytes = o.off + FrameLen /\ o.id \in Nat /\ o.prev \in Nat
                       /\ IsHeader(b[o.off + 1]) /\ o.id = b[o.off + 1].id
  <1>1. PICK off : off = OffIn(b)  OBVIOUS
  <1>2. off \in 0..n /\ (off < n => IsHeader(b[off + 1]) /\ off + FrameLen <= n /\ b[off + 1] \in CellType)
    BY <1>1, OffInFacts
  <1>3. DecTypes(Cold)  BY DEF DecTypes, Cold
  <1>4. DecTypes(Base(b))  BY <1>3 DEF Base
  <1>5. CASE off = n
    <2>1. o.off = off /\ o.hit = FALSE /\ o.bytes = off /\ o.dec = Cold /\ o.ok = FALSE
      BY <1>1, <1>5, DecodeMiss
    <2> QED  BY <1>2, <1>3, <1>5, <2>1
  <1>6. CASE off < n
    <2>1. /\ o.off = off /\ o.hit = TRUE /\ o.bytes = off + FrameLen /\ o.id = b[off + 1].id
          /\ o.prev = Base(b).prev /\ o.dec = After(b, off)
      <3>1. o = HitAt(b, off)  BY <1>1, <1>6, DecodeHit
      <3> QED  BY <3>1 DEF HitAt
    <2>2. b[off + 1].kind \in {Sized, Free} /\ b[off + 1].id \in Nat
      BY <1>2, <1>6, CellFacts DEF IsHeader
    <2>3. FrameLen \in Nat /\ PrimeFrames \in Nat  BY ConstTypes
    <2>4. Base(b).run \in Nat /\ Base(b).prev \in Nat  BY <1>4 DEF DecTypes
    <2>5. Least(Base(b).run + 1, PrimeFrames) \in Nat  BY <2>3, <2>4 DEF Least
    <2>6. DecTypes(After(b, off))  BY <2>2, <2>4, <2>5 DEF DecTypes, After
    <2>7. off + FrameLen \in 0..n  BY <1>2, <1>6, <2>3
    <2> QED  BY <1>2, <1>6, <2>1, <2>2, <2>4, <2>6, <2>7
  <1> QED  BY <1>2, <1>5, <1>6

-----------------------------------------------------------------------------
(***************************************************************************)
(* Turns of the decode loop: what they do to the fields.                   *)
(***************************************************************************)
\* Nothing left to decode, or an error.
LEMMA EndedFacts ==
    ASSUME NEW f, Sound(f), NEW g, DTypes(g), Changed(g, f, {"buf", "done", "err", "pending"}),
           ~Live(g), Len(g.buf) <= ResyncWindow, Len(g.pending) <= FrameSize
    PROVE  Sound(g)
  <1>1. /\ g.pos = f.pos /\ g.br = f.br
        /\ g.tagChecked = f.tagChecked /\ g.audioStart = f.audioStart
        /\ g.firstBytes = f.firstBytes /\ g.seen = f.seen /\ g.frameOff = f.frameOff
        /\ g.rate = f.rate
    BY ChangedFields
  <1>2. Sizes(g)  BY <1>1 DEF Sound, Sizes
  <1>3. Opened(g)  BY <1>1 DEF Sound, Opened
  <1>4. CachedOffsets(g)  BY <1>1 DEF Sound, CachedOffsets
  <1>5. adrift => g.rate  BY <1>1 DEF Sound
  <1> QED  BY <1>2, <1>3, <1>4, <1>5 DEF Sound

\* A decoder that has reached the end is sound.
LEMMA DoneFacts ==
    ASSUME NEW f, Sound(f), NEW g, g = [f EXCEPT !.done = TRUE]
    PROVE  Sound(g) /\ ~Live(g) /\ g.done /\ Changed(g, f, {"done"})
  <1>1. DTypes(f) /\ DOMAIN f = DFields  BY DomainOf DEF Sound
  <1>2. DOMAIN g = DFields /\ g.done = TRUE /\ \A x \in DFields \ {"done"} : g[x] = f[x]
    BY <1>1, Zenon DEF DFields
  <1>3. Changed(g, f, {"done"})  BY <1>2 DEF Changed
  <1>4. ~Live(g)  BY <1>2 DEF Live
  <1>5. /\ g.pos = f.pos /\ g.br = f.br /\ g.buf = f.buf /\ g.readErr = f.readErr
        /\ g.pending = f.pending /\ g.tagChecked = f.tagChecked /\ g.frames = f.frames
        /\ g.start = f.start /\ g.end = f.end /\ g.produced = f.produced
        /\ g.audioStart = f.audioStart /\ g.firstBytes = f.firstBytes
        /\ g.seen = f.seen /\ g.frameOff = f.frameOff /\ g.err = f.err
        /\ g.rate = f.rate /\ g.total = f.total
    BY <1>3, ChangedFields
  <1>6. DTypes(g)  BY <1>1, <1>2, <1>5 DEF DTypes
  <1>7. Changed(g, f, {"buf", "done", "err", "pending"})  BY <1>3, ChangedLess
  <1>8. Len(g.buf) <= ResyncWindow /\ Len(g.pending) <= FrameSize  BY <1>5 DEF Sound, Sizes
  <1> QED  BY <1>2, <1>3, <1>4, <1>6, <1>7, <1>8, EndedFacts

\* And one that has failed.
LEMMA FailedFacts ==
    ASSUME NEW f, Sound(f), NEW e \in Errs \ {"none"}, NEW g, g = [f EXCEPT !.err = e]
    PROVE  Sound(g) /\ ~Live(g) /\ g.err = e /\ Changed(g, f, {"err"})
  <1>1. DTypes(f) /\ DOMAIN f = DFields  BY DomainOf DEF Sound
  <1>2. DOMAIN g = DFields /\ g.err = e /\ \A x \in DFields \ {"err"} : g[x] = f[x]
    BY <1>1, Zenon DEF DFields
  <1>3. Changed(g, f, {"err"})  BY <1>2 DEF Changed
  <1>4. ~Live(g)  BY <1>2 DEF Live
  <1>5. /\ g.pos = f.pos /\ g.br = f.br /\ g.buf = f.buf /\ g.readErr = f.readErr
        /\ g.pending = f.pending /\ g.tagChecked = f.tagChecked /\ g.frames = f.frames
        /\ g.start = f.start /\ g.end = f.end /\ g.produced = f.produced
        /\ g.audioStart = f.audioStart /\ g.firstBytes = f.firstBytes
        /\ g.seen = f.seen /\ g.frameOff = f.frameOff /\ g.done = f.done
        /\ g.rate = f.rate /\ g.total = f.total
    BY <1>3, ChangedFields
  <1>6. DTypes(g)  BY <1>1, <1>2, <1>5 DEF DTypes
  <1>7. Changed(g, f, {"buf", "done", "err", "pending"})  BY <1>3, ChangedLess
  <1>8. Len(g.buf) <= ResyncWindow /\ Len(g.pending) <= FrameSize  BY <1>5 DEF Sound, Sizes
  <1> QED  BY <1>2, <1>3, <1>4, <1>6, <1>7, <1>8, EndedFacts

\* Forgetting what is left in the buffer is consuming it.
LEMMA EmptiedFacts ==
    ASSUME NEW f, Sound(f), Live(f), NEW g, g = [f EXCEPT !.buf = <<>>]
    PROVE  Sound(g) /\ Live(g) /\ Changed(g, f, {"buf"}) /\ g.buf = <<>>
  <1>1. f.buf \in Seq(CellType)  BY DEF Sound, DTypes
  <1>2. PICK n \in Nat : n = Len(f.buf) /\ n <= Len(f.buf)
    <2>1. Len(f.buf) \in Nat  BY <1>1, LenNat
    <2>2. Len(f.buf) <= Len(f.buf)  BY <2>1
    <2> QED  BY <2>1, <2>2
  <1>3. SubSeq(f.buf, n + 1, n) = <<>>
    <2>1. n + 1 \in Nat \ {0} /\ ~(n + 1 <= n)  OBVIOUS
    <2>2. /\ SubSeq(f.buf, n + 1, n) \in Seq(CellType) /\ Len(SubSeq(f.buf, n + 1, n)) = 0
      BY <1>1, <1>2, <2>1, SliceFacts
    <2> QED  BY <2>2, EmptyLen
  <1>4. g = Consume(f, n)  BY <1>2, <1>3 DEF Consume
  <1>5. Sound(g) /\ Live(g) /\ Changed(g, f, {"buf"})  BY <1>2, <1>4, ConsumeFacts
  <1>6. g.buf = <<>>
    <2>1. DOMAIN f = DFields  BY DomainOf DEF Sound
    <2> QED  BY <2>1, Zenon DEF DFields
  <1> QED  BY <1>5, <1>6

\* The source's tag is applied.
LEMMA GaplessTypes ==
    ASSUME NEW n \in Nat, NEW delay \in Nat, NEW padding \in Nat
    PROVE  /\ HeadTrim(delay) \in Nat /\ n * FrameSize \in Nat
           /\ WindowEnd(n * FrameSize, padding) \in Nat /\ Playable(n * FrameSize, delay, padding) \in Nat
  <1>1. FrameSize \in Nat /\ DecoderDelay \in Nat  BY ConstTypes
  <1>2. PICK m \in Nat : m = n * FrameSize  BY <1>1
  <1>3. HeadTrim(delay) \in Nat  BY <1>1 DEF HeadTrim
  <1>4. TailTrim(padding) \in Nat  BY <1>1 DEF TailTrim, Most
  <1>5. Least(TailTrim(padding), m) \in 0..m  BY <1>4 DEF Least
  <1>6. WindowEnd(m, padding) \in Nat  BY <1>5 DEF WindowEnd
  <1>7. Playable(m, delay, padding) \in Nat  BY <1>3, <1>5 DEF Playable
  <1> QED  BY <1>2, <1>3, <1>6, <1>7

TagFields == {"buf", "tagChecked", "audioStart", "frames", "start", "end", "total"}

\* What applying the tag changes.
LEMMA TagFacts ==
    ASSUME file \in DOMAIN Sources, NEW f, NEW o, Hit(f, o), ~f.tagChecked,
           NEW g, g = ApplyTag(f, o)
    PROVE  /\ Sound(g) /\ Live(g) /\ Changed(g, f, TagFields)
           /\ Len(g.buf) = Len(f.buf) - o.bytes /\ Here(g) = Here(f) + o.bytes
           /\ g.tagChecked /\ g.audioStart = f.audioStart + o.bytes
           /\ g.start = HeadTrim(src.tag.delay) /\ g.frames = src.tag.frames
           /\ g.end = IF src.tag.frames * FrameSize = 0 THEN NoEnd
                      ELSE WindowEnd(src.tag.frames * FrameSize, src.tag.padding)
           /\ g.total = IF src.tag.frames * FrameSize = 0 THEN 0
                        ELSE Playable(src.tag.frames * FrameSize, src.tag.delay, src.tag.padding)
  <1>1. Sound(f) /\ Live(f) /\ o.bytes \in Nat /\ o.bytes <= Len(f.buf)  BY DEF Hit
  <1> DEFINE c == Consume(f, o.bytes)
             pre == src.tag.frames * FrameSize
             end == IF pre = 0 THEN NoEnd ELSE WindowEnd(pre, src.tag.padding)
             total == IF pre = 0 THEN 0 ELSE Playable(pre, src.tag.delay, src.tag.padding)
  <1>2. /\ Sound(c) /\ Live(c) /\ Changed(c, f, {"buf"})
        /\ Len(c.buf) = Len(f.buf) - o.bytes /\ Here(c) = Here(f) + o.bytes
    BY <1>1, ConsumeFacts
  <1>3. /\ src.tag.frames \in Nat /\ HeadTrim(src.tag.delay) \in Nat /\ end \in Nat /\ total \in Nat
    <2>1. src.tag.frames \in Nat /\ src.tag.delay \in Nat /\ src.tag.padding \in Nat  BY SrcTypes
    <2>2. HeadTrim(src.tag.delay) \in Nat  BY <2>1, GaplessTypes
    <2>3. /\ WindowEnd(pre, src.tag.padding) \in Nat
          /\ Playable(pre, src.tag.delay, src.tag.padding) \in Nat
      BY <2>1, GaplessTypes
    <2>4. NoEnd \in Nat /\ 0 \in Nat  BY ConstTypes
    <2> HIDE DEF pre
    <2> QED  BY <2>1, <2>2, <2>3, <2>4
  <1>4. g = [c EXCEPT !.tagChecked = TRUE, !.audioStart = c.audioStart + o.bytes,
                      !.frames = src.tag.frames, !.start = HeadTrim(src.tag.delay),
                      !.end = end, !.total = total]
    BY DEF ApplyTag
  <1> HIDE DEF c, end, total
  <1>5. DTypes(c) /\ DOMAIN c = DFields  BY <1>2, DomainOf DEF Sound
  <1> DEFINE S == {"tagChecked", "audioStart", "frames", "start", "end", "total"}
  <1>6. /\ DOMAIN g = DFields /\ g.tagChecked = TRUE /\ g.audioStart = c.audioStart + o.bytes
        /\ g.frames = src.tag.frames /\ g.start = HeadTrim(src.tag.delay)
        /\ g.end = end /\ g.total = total
        /\ \A x \in DFields \ S : g[x] = c[x]
    BY <1>4, <1>5, Zenon DEF DFields
  <1>7. Changed(g, c, S)  BY <1>6 DEF Changed
  <1>8. /\ g.pos = c.pos /\ g.br = c.br /\ g.buf = c.buf /\ g.readErr = c.readErr
        /\ g.pending = c.pending /\ g.produced = c.produced /\ g.firstBytes = c.firstBytes
        /\ g.seen = c.seen /\ g.frameOff = c.frameOff /\ g.err = c.err /\ g.done = c.done
        /\ g.rate = c.rate
    BY <1>7, ChangedFields
  <1>9. c.audioStart = f.audioStart /\ c.tagChecked = f.tagChecked  BY <1>2, ChangedFields
  <1>10. c.audioStart \in Nat /\ c.audioStart + o.bytes \in Nat
    <2>1. c.audioStart \in Nat  BY <1>5 DEF DTypes
    <2>2. o.bytes \in Nat  BY <1>1
    <2> QED  BY <2>1, <2>2
  <1>11. DTypes(g)  BY <1>3, <1>5, <1>6, <1>8, <1>10 DEF DTypes
  <1>12. ~c.seen /\ ~c.rate /\ c.frameOff = <<>>  BY <1>2, <1>9 DEF Sound, Opened
  <1>13. c.audioStart + o.bytes <= Here(c)
    <2>1. ~f.seen  BY <1>1, <1>9 DEF Sound, Opened
    <2>2. f.audioStart <= Here(f)  BY <1>1, <2>1 DEF Sound, Opened
    <2>3. (~adrift => Stocked(f)) /\ DTypes(f)  BY <1>1 DEF Sound
    <2>4. Here(f) \in Int  BY <2>3, StockedLoaded, LoadedFacts
    <2>5. f.audioStart \in Nat  BY <2>3 DEF DTypes
    <2>6. f.audioStart + o.bytes <= Here(f) + o.bytes  BY <1>1, <2>2, <2>4, <2>5
    <2> QED  BY <1>2, <1>9, <2>6
  <1>14. c.audioStart + o.bytes <= Len(src.cells)
    <2>1. (~adrift => Stocked(c)) /\ Sizes(c)  BY <1>2 DEF Sound
    <2>2. PICK h, lb, lr : Loaded(c, h, lb, lr)  BY <1>5, <2>1, StockedLoaded
    <2>3. h \in Int /\ lb \in Nat /\ lr \in Nat /\ Here(c) = h /\ c.pos = h + lb + lr
      BY <2>2, LoadedFacts
    <2>4. c.pos <= Len(src.cells) /\ Len(src.cells) \in Nat  BY <2>1, SrcTypes DEF Sizes
    <2> QED  BY <1>10, <1>13, <2>3, <2>4
  <1>15. Live(g)  BY <1>2, <1>8 DEF Live
  <1>16. Here(g) = Here(c)  BY <1>8 DEF Here
  <1>17. Opened(g)  BY <1>6, <1>8, <1>12, <1>13, <1>16 DEF Opened
  <1>18. CachedOffsets(g)
    <2>1. DOMAIN g.frameOff = {}  BY <1>8, <1>12
    <2> QED  BY <2>1 DEF CachedOffsets
  <1>19. (~adrift => Stocked(g)) /\ (adrift => g.rate)  BY <1>2, <1>8, <1>16 DEF Sound, Stocked
  <1>20. Sizes(g)  BY <1>2, <1>6, <1>8, <1>14 DEF Sound, Sizes
  <1>21. Sound(g)  BY <1>11, <1>17, <1>18, <1>19, <1>20 DEF Sound
  <1>22. Changed(g, f, TagFields)
    <2>1. Changed(g, f, {"buf"} \cup S)  BY <1>2, <1>7, ChangedTwice
    <2>2. {"buf"} \cup S \subseteq TagFields  BY DEF TagFields
    <2> HIDE DEF S
    <2> QED  BY <2>1, <2>2, ChangedLess
  <1>23. g.audioStart = f.audioStart + o.bytes  BY <1>6, <1>9
  <1> QED  BY <1>2, <1>6, <1>8, <1>15, <1>16, <1>21, <1>22, <1>23 DEF end, total

\* The first frame that is not the tag, and every later one.
SeenFields == {"buf", "tagChecked", "seen", "audioStart", "firstBytes"}

\* What the first frame behind the tag changes.
LEMMA SeenFacts ==
    ASSUME file \in DOMAIN Sources, NEW f, NEW o, Hit(f, o), NEW g, g = FirstSeen(f, o)
    PROVE  /\ Sound(g) /\ Live(g) /\ Changed(g, f, SeenFields)
           /\ Len(g.buf) = Len(f.buf) - o.bytes /\ Here(g) = Here(f) + o.bytes
           /\ g.tagChecked /\ g.seen
           /\ g.audioStart = IF f.seen THEN f.audioStart ELSE f.audioStart + o.off
  <1>1. /\ Sound(f) /\ Live(f) /\ o.bytes \in Nat /\ o.bytes <= Len(f.buf)
        /\ o.off \in Nat /\ o.bytes = o.off + FrameLen
    BY DEF Hit
  <1> DEFINE c == Consume(f, o.bytes)
             audio == IF f.seen THEN c.audioStart ELSE c.audioStart + o.off
             bytes == IF f.seen THEN c.firstBytes ELSE o.bytes - o.off
  <1>2. /\ Sound(c) /\ Live(c) /\ Changed(c, f, {"buf"})
        /\ Len(c.buf) = Len(f.buf) - o.bytes /\ Here(c) = Here(f) + o.bytes
    BY <1>1, ConsumeFacts
  <1>3. g = [c EXCEPT !.tagChecked = TRUE, !.seen = TRUE, !.audioStart = audio, !.firstBytes = bytes]
    BY DEF FirstSeen
  <1> HIDE DEF c
  <1>4. DTypes(c) /\ DOMAIN c = DFields  BY <1>2, DomainOf DEF Sound
  <1>5. /\ c.audioStart = f.audioStart /\ c.seen = f.seen /\ c.firstBytes = f.firstBytes
        /\ c.tagChecked = f.tagChecked /\ c.rate = f.rate /\ c.frameOff = f.frameOff
    BY <1>2, ChangedFields
  <1>6. FrameLen \in Nat /\ f.audioStart \in Nat /\ f.firstBytes \in Nat
    BY <1>4, <1>5, ConstTypes DEF DTypes
  <1>7. audio \in Nat /\ (f.seen => audio = f.audioStart) /\ (~f.seen => audio = f.audioStart + o.off)
    BY <1>1, <1>5, <1>6
  <1>8. bytes = FrameLen /\ bytes \in Nat
    <2>1. CASE f.seen
      <3>1. f.firstBytes = FrameLen  BY <1>1, <2>1 DEF Sound, Opened
      <3> QED  BY <1>5, <1>6, <2>1, <3>1
    <2>2. CASE ~f.seen
      <3>1. o.bytes - o.off = FrameLen  BY <1>1, <1>6
      <3> QED  BY <1>6, <2>2, <3>1
    <2> QED  BY <2>1, <2>2
  <1> HIDE DEF audio, bytes
  <1> DEFINE S == {"tagChecked", "seen", "audioStart", "firstBytes"}
  <1>9. /\ DOMAIN g = DFields /\ g.tagChecked = TRUE /\ g.seen = TRUE /\ g.audioStart = audio
        /\ g.firstBytes = bytes /\ \A x \in DFields \ S : g[x] = c[x]
    BY <1>3, <1>4, Zenon DEF DFields
  <1>10. Changed(g, c, S)  BY <1>9 DEF Changed
  <1>11. /\ g.pos = c.pos /\ g.br = c.br /\ g.buf = c.buf /\ g.readErr = c.readErr
         /\ g.pending = c.pending /\ g.produced = c.produced /\ g.frames = c.frames
         /\ g.start = c.start /\ g.end = c.end /\ g.total = c.total
         /\ g.frameOff = c.frameOff /\ g.err = c.err /\ g.done = c.done /\ g.rate = c.rate
    BY <1>10, ChangedFields
  <1>12. DTypes(g)  BY <1>4, <1>7, <1>8, <1>9, <1>11 DEF DTypes
  <1>13. Here(g) = Here(c)  BY <1>11 DEF Here
  <1>14. Live(g)  BY <1>2, <1>11 DEF Live
  <1>15. (~adrift => Stocked(g)) /\ (adrift => g.rate)
    <2>1. ~adrift => Stocked(c)  BY <1>2 DEF Sound
    <2>2. Stocked(c) => Stocked(g)  BY <1>11, <1>13 DEF Stocked
    <2>3. adrift => g.rate  BY <1>2, <1>11 DEF Sound
    <2> QED  BY <2>1, <2>2, <2>3
  <1>16. audio <= Len(src.cells)
    <2>1. CASE f.seen
      <3>1. c.audioStart <= Len(src.cells)  BY <1>2 DEF Sound, Sizes
      <3> QED  BY <1>5, <1>7, <2>1, <3>1
    <2>2. CASE ~f.seen
      <3>1. f.audioStart <= Here(f)  BY <1>1, <2>2 DEF Sound, Opened
      <3>2. (~adrift => Stocked(c) /\ Stocked(f)) /\ Sizes(c) /\ DTypes(f)
        BY <1>1, <1>2 DEF Sound
      <3>3. PICK h, lb, lr : Loaded(c, h, lb, lr)  BY <1>4, <3>2, StockedLoaded
      <3>4. h \in Int /\ lb \in Nat /\ lr \in Nat /\ Here(c) = h /\ c.pos = h + lb + lr
        BY <3>3, LoadedFacts
      <3>5. c.pos <= Len(src.cells) /\ Len(src.cells) \in Nat  BY <3>2, SrcTypes DEF Sizes
      <3>6. Here(f) \in Int  BY <3>2, StockedLoaded, LoadedFacts
      <3>7. h = Here(f) + (o.off + FrameLen)  BY <1>1, <1>2, <3>4
      <3>8. f.audioStart + o.off <= h  BY <1>1, <1>6, <3>1, <3>6, <3>7
      <3>9. audio <= h  BY <1>7, <2>2, <3>8
      <3> QED  BY <1>7, <3>4, <3>5, <3>9
    <2> QED  BY <2>1, <2>2
  <1>17. Sizes(g)  BY <1>2, <1>9, <1>11, <1>16 DEF Sound, Sizes
  <1>18. Opened(g)  BY <1>8, <1>9 DEF Opened
  <1>19. CachedOffsets(g)
    <2>1. CASE f.seen  BY <1>2, <1>5, <1>7, <1>9, <1>11, <2>1 DEF Sound, CachedOffsets
    <2>2. CASE ~f.seen
      <3>1. f.frameOff = <<>>  BY <1>1, <2>2 DEF Sound, Opened
      <3>2. DOMAIN g.frameOff = {}  BY <1>5, <1>11, <3>1
      <3> QED  BY <3>2 DEF CachedOffsets
    <2> QED  BY <2>1, <2>2
  <1>20. Sound(g)  BY <1>12, <1>15, <1>17, <1>18, <1>19 DEF Sound
  <1>21. Changed(g, f, SeenFields)
    <2>1. Changed(g, f, {"buf"} \cup S)  BY <1>2, <1>10, ChangedTwice
    <2>2. {"buf"} \cup S \subseteq SeenFields  BY DEF SeenFields
    <2> HIDE DEF S
    <2> QED  BY <2>1, <2>2, ChangedLess
  <1>22. g.audioStart = IF f.seen THEN f.audioStart ELSE f.audioStart + o.off  BY <1>7, <1>9
  <1> QED  BY <1>2, <1>9, <1>11, <1>13, <1>14, <1>20, <1>21, <1>22

\* The samples of a frame from one to another.
LEMMA SamplesFacts ==
    ASSUME NEW o, o.id \in Nat, o.prev \in Nat, NEW from \in Nat, NEW to \in Int
    PROVE  LET s == Samples(o, from, to)
           IN  /\ s \in Seq(Sample) /\ Len(s) = Most(0, to - from) /\ DOMAIN s = 1..Most(0, to - from)
               /\ \A k \in DOMAIN s : s[k] = <<o.id, o.prev, from + k - 1>>
  <1> DEFINE s == Samples(o, from, to)
             n == Most(0, to - from)
  <1>1. n \in Nat  BY DEF Most
  <1> HIDE DEF n
  <1>2. s = [k \in 1..n |-> <<o.id, o.prev, from + k - 1>>]  BY DEF Samples, n
  <1>3. \A k \in 1..n : <<o.id, o.prev, from + k - 1>> \in Sample
    <2>1. \A k \in 1..n : from + k - 1 \in Nat  BY <1>1
    <2> QED  BY <2>1 DEF Sample
  <1> HIDE DEF s
  <1>4. s \in [1..n -> Sample]  BY <1>2, <1>3
  <1>5. s \in Seq(Sample) /\ Len(s) = n /\ DOMAIN s = 1..n  BY <1>1, <1>4, SeqDef, LenProperties
  <1> QED  BY <1>2, <1>5 DEF s, n

\* Samples to hand out.
LEMMA PendingFacts ==
    ASSUME NEW f, Sound(f), NEW s \in Seq(Sample), Len(s) <= FrameSize,
           NEW g, g = [f EXCEPT !.pending = s]
    PROVE  /\ Sound(g) /\ Changed(g, f, {"pending"}) /\ g.pending = s /\ Here(g) = Here(f)
           /\ Live(g) <=> Live(f)
  <1>1. DTypes(f) /\ DOMAIN f = DFields  BY DomainOf DEF Sound
  <1>2. DOMAIN g = DFields /\ g.pending = s /\ \A x \in DFields \ {"pending"} : g[x] = f[x]
    BY <1>1, Zenon DEF DFields
  <1>3. Changed(g, f, {"pending"})  BY <1>2 DEF Changed
  <1>4. /\ g.pos = f.pos /\ g.br = f.br /\ g.buf = f.buf /\ g.readErr = f.readErr
        /\ g.tagChecked = f.tagChecked /\ g.frames = f.frames
        /\ g.start = f.start /\ g.end = f.end /\ g.produced = f.produced
        /\ g.audioStart = f.audioStart /\ g.firstBytes = f.firstBytes
        /\ g.seen = f.seen /\ g.frameOff = f.frameOff /\ g.err = f.err /\ g.done = f.done
        /\ g.rate = f.rate /\ g.total = f.total
    BY <1>3, ChangedFields
  <1>5. DTypes(g)  BY <1>1, <1>2, <1>4 DEF DTypes
  <1>6. Changed(g, f, DFields \ Buffers)
    <2>1. {"pending"} \subseteq DFields \ Buffers  BY DEF DFields, Buffers
    <2> QED  BY <1>3, <2>1, ChangedLess
  <1>7. (Live(g) <=> Live(f)) /\ Here(g) = Here(f)  BY <1>4 DEF Live, Here
  <1>8. Opened(g)  BY <1>4, <1>7 DEF Sound, Opened
  <1>9. CachedOffsets(g)  BY <1>4 DEF Sound, CachedOffsets
  <1>10. Len(g.pending) <= FrameSize /\ g.audioStart <= Len(src.cells)
    BY <1>2, <1>4 DEF Sound, Sizes
  <1>11. f.rate => g.rate  BY <1>4
  <1> QED  BY <1>2, <1>3, <1>5, <1>6, <1>7, <1>8, <1>9, <1>10, <1>11, SoundChanged

\* A frame has been decoded.
LEMMA ProducedFacts ==
    ASSUME NEW f, Sound(f), f.seen, NEW g, NEW to \in Nat,
           g = [f EXCEPT !.produced = to, !.rate = TRUE]
    PROVE  /\ Sound(g) /\ Changed(g, f, {"produced", "rate"}) /\ g.produced = to /\ g.rate
           /\ Here(g) = Here(f) /\ (Live(g) <=> Live(f))
  <1>1. DTypes(f) /\ DOMAIN f = DFields  BY DomainOf DEF Sound
  <1>2. /\ DOMAIN g = DFields /\ g.produced = to /\ g.rate = TRUE
        /\ \A x \in DFields \ {"produced", "rate"} : g[x] = f[x]
    BY <1>1, Zenon DEF DFields
  <1>3. Changed(g, f, {"produced", "rate"})  BY <1>2 DEF Changed
  <1>4. /\ g.pos = f.pos /\ g.br = f.br /\ g.buf = f.buf /\ g.readErr = f.readErr
        /\ g.tagChecked = f.tagChecked /\ g.frames = f.frames /\ g.pending = f.pending
        /\ g.start = f.start /\ g.end = f.end
        /\ g.audioStart = f.audioStart /\ g.firstBytes = f.firstBytes
        /\ g.seen = f.seen /\ g.frameOff = f.frameOff /\ g.err = f.err /\ g.done = f.done
        /\ g.total = f.total
    BY <1>2, Zenon DEF DFields
  <1>5. DTypes(g)  BY <1>1, <1>2, <1>4 DEF DTypes
  <1>6. Changed(g, f, DFields \ Buffers)
    <2>1. {"produced", "rate"} \subseteq DFields \ Buffers  BY DEF DFields, Buffers
    <2> QED  BY <1>3, <2>1, ChangedLess
  <1>7. (Live(g) <=> Live(f)) /\ Here(g) = Here(f)  BY <1>4 DEF Live, Here
  <1>8. Opened(g)  BY <1>4, <1>7 DEF Sound, Opened
  <1>9. CachedOffsets(g)  BY <1>4 DEF Sound, CachedOffsets
  <1>10. Len(g.pending) <= FrameSize /\ g.audioStart <= Len(src.cells)  BY <1>4 DEF Sound, Sizes
  <1> QED  BY <1>2, <1>3, <1>5, <1>6, <1>7, <1>8, <1>9, <1>10, SoundChanged

-----------------------------------------------------------------------------
(***************************************************************************)
(* What a turn of the decode loop comes to.                                *)
(***************************************************************************)
\* The two ways in which a turn changes the call.
LEMMA CallUpdates ==
    ASSUME CallTypes(call)
    PROVE  /\ \A w, s : call' = [call EXCEPT !.window = w, !.skipped = s] =>
                 CallChanged({"window", "skipped"}) /\ call'.window = w /\ call'.skipped = s
           /\ \A e : call' = [call EXCEPT !.at = "back", !.err = e] =>
                 CallChanged({"at", "err"}) /\ call'.at = "back" /\ call'.err = e
  <1>1. DOMAIN call = CallFields  BY DEF CallTypes
  <1>2. ASSUME NEW w, NEW s, call' = [call EXCEPT !.window = w, !.skipped = s]
        PROVE  CallChanged({"window", "skipped"}) /\ call'.window = w /\ call'.skipped = s
    BY <1>1, <1>2, Zenon DEF CallChanged, CallFields
  <1>3. ASSUME NEW e, call' = [call EXCEPT !.at = "back", !.err = e]
        PROVE  CallChanged({"at", "err"}) /\ call'.at = "back" /\ call'.err = e
    BY <1>1, <1>3, Zenon DEF CallChanged, CallFields
  <1> QED  BY <1>2, <1>3

\* A Finish is an end.
LEMMA FailsEnds ==
    ASSUME CallTypes(call), NEW f, Sound(f), NEW g, Sound(g), Changed(g, f, {"buf"}),
           NEW e \in {"io", "corrupt"}, Back([g EXCEPT !.err = e], e)
    PROVE  Ends(f)
  <1>1. d' = [g EXCEPT !.err = e] /\ call' = [call EXCEPT !.at = "back", !.err = e]
    BY DEF Back
  <1>2. e \in Errs \ {"none"} /\ e # "eof"  BY DEF Errs
  <1>3. Sound(d') /\ ~Live(d') /\ Changed(d', g, {"err"})  BY <1>1, <1>2, FailedFacts
  <1>4. CallChanged({"at", "err"}) /\ call'.at = "back" /\ call'.err = e  BY <1>1, CallUpdates
  <1>5. Changed(d', f, {"buf", "done", "err"})
    <2>1. Changed(d', f, {"buf"} \cup {"err"})  BY <1>3, ChangedTwice
    <2>2. {"buf"} \cup {"err"} \subseteq {"buf", "done", "err"}  OBVIOUS
    <2> QED  BY <2>1, <2>2, ChangedLess
  <1>6. d'.err = e
    <2>1. DOMAIN g = DFields  BY DomainOf DEF Sound
    <2> QED  BY <1>1, <2>1, Zenon DEF DFields
  <1> QED  BY <1>2, <1>3, <1>4, <1>5, <1>6 DEF Ends

\* Finishing after the source ended or failed ends the call.
LEMMA FinishEnds ==
    ASSUME CallTypes(call), NEW f, Sound(f), NEW g, Sound(g), Changed(g, f, {"buf"}), Finish(g),
           g.readErr \in {"eof", "io"}
    PROVE  Ends(f)
  <1>1. g.readErr = f.readErr  BY ChangedFields
  <1>2. CASE g.readErr = "io"
    <2>1. Back([g EXCEPT !.err = "io"], "io")  BY <1>2 DEF Finish
    <2> QED  BY <2>1, FailsEnds
  <1>3. CASE g.readErr = "eof"
    <2>1. d' = [g EXCEPT !.done = TRUE] /\ call' = [call EXCEPT !.at = "back", !.err = "eof"]
      BY <1>3 DEF Finish, Back
    <2>2. Sound(d') /\ ~Live(d') /\ d'.done /\ Changed(d', g, {"done"})  BY <2>1, DoneFacts
    <2>3. CallChanged({"at", "err"}) /\ call'.at = "back" /\ call'.err = "eof"  BY <2>1, CallUpdates
    <2>4. Changed(d', f, {"buf", "done", "err"})
      <3>1. Changed(d', f, {"buf"} \cup {"done"})  BY <2>2, ChangedTwice
      <3>2. {"buf"} \cup {"done"} \subseteq {"buf", "done", "err"}  OBVIOUS
      <3> QED  BY <3>1, <3>2, ChangedLess
    <2>5. d'.err = f.err
      <3>1. d'.err = g.err  BY <2>2, ChangedFields
      <3>2. g.err = f.err  BY ChangedFields
      <3> QED  BY <3>1, <3>2
    <2> QED  BY <1>1, <1>3, <2>2, <2>3, <2>4, <2>5 DEF Ends
  <1> QED  BY <1>2, <1>3

\* No change is a change of no more than anything.
LEMMA SameChanged == ASSUME NEW f, DTypes(f), NEW S PROVE Changed(f, f, S)
  BY DomainOf DEF Changed

\* Without a frame in the buffer.
LEMMA NoFrameTurn ==
    ASSUME CallTypes(call), NEW f, Sound(f), Live(f), f.buf # <<>>, HandleNoFrame(f),
           f.readErr = "none" => Len(f.buf) >= call.window
    PROVE  Ends(f) \/ Widens(f) \/ Drops(f)
  <1>1. DTypes(f)  BY DEF Sound
  <1>2. Changed(f, f, {"buf"})  BY <1>1, SameChanged
  <1>3. Len(f.buf) \in Nat /\ Len(f.buf) <= ResyncWindow  BY <1>1, LenNat DEF DTypes, Sound, Sizes
  <1>4. /\ ResyncWindow \in Nat /\ SmallWindow \in Nat /\ ResyncWindow > SmallWindow + 1
        /\ Retain = SmallWindow + 1
    BY ConstTypes DEF Retain
  <1>5. CASE f.readErr = "none" /\ Len(f.buf) < ResyncWindow
    <2>1. d' = f /\ call' = [call EXCEPT !.window = ResyncWindow, !.skipped = call.skipped]
      BY <1>5 DEF HandleNoFrame, Again
    <2>2. /\ CallChanged({"window", "skipped"}) /\ call'.window = ResyncWindow
          /\ call'.skipped = call.skipped
      BY <2>1, CallUpdates
    <2> QED  BY <1>5, <2>1, <2>2 DEF Widens
  <1>6. CASE f.readErr = "none" /\ ~(Len(f.buf) < ResyncWindow)
    <2>1. Len(f.buf) = ResyncWindow  BY <1>3, <1>4, <1>6
    <2> DEFINE skipped == call.skipped + (Len(f.buf) - Retain)
    <2>2. CASE skipped > Budget
      <3>1. Back([f EXCEPT !.err = "corrupt"], "corrupt")  BY <1>6, <2>2 DEF HandleNoFrame
      <3> QED  BY <1>2, <3>1, FailsEnds
    <2>3. CASE ~(skipped > Budget)
      <3>1. Again(Consume(f, Len(f.buf) - Retain), ResyncWindow, skipped)
        BY <1>6, <2>3 DEF HandleNoFrame
      <3>2. skipped \in Nat
        <4>1. call.skipped \in Nat  BY DEF CallTypes
        <4>2. ResyncWindow - Retain \in Nat  BY <1>4
        <4> QED  BY <2>1, <4>1, <4>2
      <3> HIDE DEF skipped
      <3>3. /\ d' = Consume(f, ResyncWindow - Retain)
            /\ call' = [call EXCEPT !.window = ResyncWindow, !.skipped = skipped]
        BY <2>1, <3>1 DEF Again
      <3>4. /\ CallChanged({"window", "skipped"}) /\ call'.window = ResyncWindow
            /\ call'.skipped = skipped
        BY <3>3, CallUpdates
      <3> QED  BY <1>6, <2>1, <3>2, <3>3, <3>4 DEF Drops
    <2> QED  BY <2>2, <2>3
  <1>7. CASE f.readErr # "none"
    <2>1. f.readErr \in {"eof", "io"}  BY <1>1, <1>7 DEF DTypes
    <2>2. CASE f.readErr = "eof" /\ Truncated(f.buf)
      <3>1. Back([f EXCEPT !.err = "corrupt"], "corrupt")  BY <1>7, <2>2 DEF HandleNoFrame
      <3> QED  BY <1>2, <3>1, FailsEnds
    <2>3. CASE ~(f.readErr = "eof" /\ Truncated(f.buf))
      <3> DEFINE g == [f EXCEPT !.buf = <<>>]
      <3>1. Finish(g)  BY <1>7, <2>3 DEF HandleNoFrame
      <3> HIDE DEF g
      <3>2. Sound(g) /\ Changed(g, f, {"buf"})  BY EmptiedFacts DEF g
      <3>3. g.readErr = f.readErr  BY <3>2, ChangedFields
      <3> QED  BY <2>1, <3>1, <3>2, <3>3, FinishEnds
    <2> QED  BY <2>2, <2>3
  <1> QED  BY <1>5, <1>6, <1>7

\* With one.
LEMMA AgainGoesOn ==
    ASSUME CallTypes(call), NEW f, NEW g, NEW w, w = DecodeWindow(f), Again(g, w, 0)
    PROVE  GoesOn(f, g)
  <1>1. d' = g /\ call' = [call EXCEPT !.window = w, !.skipped = 0]  BY DEF Again
  <1>2. CallChanged({"window", "skipped"}) /\ call'.window = w /\ call'.skipped = 0
    BY <1>1, CallUpdates
  <1> QED  BY <1>1, <1>2 DEF GoesOn

\* HandleFrame is one of the ways a frame is dealt with.
LEMMA FrameTurn ==
    ASSUME file \in DOMAIN Sources, CallTypes(call), NEW f, NEW o, Hit(f, o), o.hit, HandleFrame(f, o)
    PROVE  Frame(f, o)
  <1>1. CASE ~f.tagChecked /\ o.id = 0
    <2>1. Again(ApplyTag(f, o), DecodeWindow(f), 0)  BY <1>1 DEF HandleFrame
    <2>2. GoesOn(f, ApplyTag(f, o))  BY <2>1, AgainGoesOn
    <2> QED  BY <1>1, <2>2 DEF Frame, Tags
  <1> DEFINE s == FirstSeen(f, o)
             g == [s EXCEPT !.produced = s.produced + FrameSize, !.rate = TRUE]
  <1>2. CASE ~(~f.tagChecked /\ o.id = 0) /\ ~o.ok
    <2>1. Again(s, DecodeWindow(f), 0)  BY <1>2 DEF HandleFrame
    <2>2. GoesOn(f, s)  BY <2>1, AgainGoesOn
    <2> QED  BY <1>2, <2>2 DEF Frame, Skips
  <1>3. CASE ~(~f.tagChecked /\ o.id = 0) /\ o.ok
    <2>1. Keep(s, o)  BY <1>3 DEF HandleFrame
    <2>2. Changed(s, f, SeenFields)  BY SeenFacts
    <2>3. s.produced = f.produced /\ s.start = f.start /\ s.end = f.end /\ s.rate = f.rate
      BY <2>2, ChangedFields DEF SeenFields
    <2>4. DecodeWindow(s) = DecodeWindow(f)  BY <2>3 DEF DecodeWindow
    <2>5. g = Kept(f, o)  BY <2>3 DEF Kept
    <2> DEFINE to == f.produced + FrameSize
               lo == Most(f.produced, f.start)
               hi == Least(to, f.end)
    <2>6. \/ to <= f.start /\ Again(g, DecodeWindow(f), 0)
          \/ /\ ~(to <= f.start) /\ (f.produced >= f.end \/ lo >= hi)
             /\ Back([g EXCEPT !.done = TRUE], "eof")
          \/ /\ ~(to <= f.start) /\ ~(f.produced >= f.end \/ lo >= hi)
             /\ Back([g EXCEPT !.pending = Samples(o, lo - f.produced, hi - f.produced)], "none")
      <3> HIDE DEF s
      <3> QED  BY <2>1, <2>3, <2>4 DEF Keep
    <2>7. CASE to <= f.start /\ Again(g, DecodeWindow(f), 0)
      <3>1. GoesOn(f, g)  BY <2>7, AgainGoesOn
      <3> QED  BY <1>3, <2>5, <2>7, <3>1 DEF Frame, Trims
    <2>8. CASE /\ ~(to <= f.start) /\ (f.produced >= f.end \/ lo >= hi)
               /\ Back([g EXCEPT !.done = TRUE], "eof")
      <3>1. d' = [g EXCEPT !.done = TRUE] /\ call' = [call EXCEPT !.at = "back", !.err = "eof"]
        BY <2>8 DEF Back
      <3>2. CallChanged({"at", "err"}) /\ call'.at = "back" /\ call'.err = "eof"
        BY <3>1, CallUpdates
      <3>3. d' = [Kept(f, o) EXCEPT !.done = TRUE]  BY <2>5, <3>1
      <3>4. f.start < to
        <4>1. f.produced \in Nat /\ f.start \in Nat /\ FrameSize \in Nat
          BY ConstTypes DEF Hit, Sound, DTypes
        <4> QED  BY <2>8, <4>1
      <3> QED  BY <1>3, <2>8, <3>2, <3>3, <3>4 DEF Frame, PastEnd
    <2>9. CASE /\ ~(to <= f.start) /\ ~(f.produced >= f.end \/ lo >= hi)
               /\ Back([g EXCEPT !.pending = Samples(o, lo - f.produced, hi - f.produced)], "none")
      <3>1. /\ d' = [g EXCEPT !.pending = Samples(o, lo - f.produced, hi - f.produced)]
            /\ call' = [call EXCEPT !.at = "back", !.err = "none"]
        BY <2>9 DEF Back
      <3>2. CallChanged({"at", "err"}) /\ call'.at = "back" /\ call'.err = "none"
        BY <3>1, CallUpdates
      <3>3. d' = [Kept(f, o) EXCEPT !.pending = Samples(o, lo - f.produced, hi - f.produced)]
        BY <2>5, <3>1
      <3>4. lo < hi /\ f.produced < f.end /\ f.start < to
        <4>1. /\ f.produced \in Nat /\ f.start \in Nat /\ f.end \in Nat /\ FrameSize \in Nat
          BY ConstTypes DEF Hit, Sound, DTypes
        <4>2. lo \in Nat /\ hi \in Nat /\ to \in Nat  BY <4>1 DEF Least, Most
        <4> HIDE DEF lo, hi, to
        <4> QED  BY <2>9, <4>1, <4>2
      <3> QED  BY <1>3, <3>2, <3>3, <3>4 DEF Frame, HandsOut
    <2> HIDE DEF g, lo, hi, to
    <2> QED  BY <2>6, <2>7, <2>8, <2>9
  <1> QED  BY <1>1, <1>2, <1>3

\* Everything a turn of the decode loop may do.
LEMMA DecodeTurn ==
    ASSUME BInv, DecodeStep
    PROVE  /\ UNCHANGED <<file, ret, expect, got, adrift>>
           /\ \E f \in Fills(call.window) :
                 /\ Sound(f) /\ Live(f) /\ Filled(f, call.window) /\ Changed(f, d, Buffers)
                 /\ Here(f) = Here(d) /\ Turn(f)
                 /\ faults' = faults + (IF f.readErr = "io" /\ d.readErr # "io" THEN 1 ELSE 0)
  <1>1. /\ file \in DOMAIN Sources /\ CallTypes(call) /\ Sound(d) /\ DecTypes(dec) /\ call.at = "decode"
        /\ Live(d) /\ call.window \in {SmallWindow, ResyncWindow}
    BY DEF BInv, Phases, DecodeStep
  <1>2. PICK f \in Fills(call.window) :
           /\ Count(f)
           /\ IF f.buf = <<>> THEN Finish(f) /\ UNCHANGED dec
              ELSE LET o == DecodeFrame(f.buf)
                   IN  /\ dec' = o.dec
                       /\ IF o.hit THEN HandleFrame(f, o) ELSE HandleNoFrame(f)
    BY DEF DecodeStep
  <1>3. call.window \in Nat /\ call.window <= ResyncWindow /\ call.window > 0
    BY <1>1, ConstTypes
  <1>4. /\ Sound(f) /\ Live(f) /\ Filled(f, call.window) /\ Changed(f, d, Buffers) /\ Here(f) = Here(d)
    BY <1>1, <1>3, FillFacts
  <1>5. f.buf \in Seq(CellType) /\ f.readErr \in {"none", "eof", "io"} /\ DTypes(f)
    BY <1>4 DEF Sound, DTypes
  <1>6. f.readErr = "none" => Len(f.buf) >= call.window  BY <1>4 DEF Filled
  <1>7. Turn(f)
    <2>1. CASE f.buf = <<>>
      <3>1. f.readErr \in {"eof", "io"}
        <4>1. Len(f.buf) = 0  BY <2>1
        <4>2. ~(0 >= call.window)  BY <1>3
        <4> QED  BY <1>5, <1>6, <4>1, <4>2
      <3>2. Finish(f) /\ UNCHANGED dec  BY <1>2, <2>1
      <3>3. Changed(f, f, {"buf"})  BY <1>5, SameChanged
      <3>4. Ends(f)  BY <1>1, <1>4, <3>1, <3>2, <3>3, FinishEnds
      <3> QED  BY <2>1, <3>2, <3>4 DEF Turn
    <2>2. CASE f.buf # <<>>
      <3>1. PICK n \in Nat : n = Len(f.buf) /\ n > 0
        <4>1. Len(f.buf) \in Nat /\ Len(f.buf) # 0  BY <1>5, <2>2, LenNat, EmptyLen
        <4> QED  BY <4>1
      <3>2. PICK o : o = DecodeFrame(f.buf)  OBVIOUS
      <3>3. dec' = o.dec /\ IF o.hit THEN HandleFrame(f, o) ELSE HandleNoFrame(f)
        BY <1>2, <2>2, <3>2
      <3>4. CASE o.hit
        <4>1. /\ o.off \in 0..n /\ o.bytes \in 0..n /\ o.off < n /\ o.bytes = o.off + FrameLen
              /\ o.id \in Nat /\ o.prev \in Nat
          BY <1>1, <1>5, <3>1, <3>2, <3>4, DecodeFacts
        <4>2. o.off \in Nat /\ o.bytes \in Nat /\ o.bytes <= n  BY <4>1
        <4>3. Hit(f, o)  BY <1>4, <3>1, <4>1, <4>2 DEF Hit
        <4>4. Frame(f, o)  BY <1>1, <3>3, <3>4, <4>3, FrameTurn
        <4> QED  BY <2>2, <3>2, <3>3, <4>4 DEF Turn
      <3>5. CASE ~o.hit
        <4>1. Ends(f) \/ Widens(f) \/ Drops(f)
          BY <1>1, <1>4, <1>6, <2>2, <3>3, <3>5, NoFrameTurn
        <4> QED  BY <2>2, <3>2, <3>3, <3>5, <4>1 DEF Turn
      <3> QED  BY <3>4, <3>5
    <2> QED  BY <2>1, <2>2
  <1>8. UNCHANGED <<file, ret, expect, got, adrift>>  BY DEF DecodeStep
  <1> QED  BY <1>2, <1>4, <1>7, <1>8 DEF Count

\* The next state, with the source it has.
LEMMA SoundNext == ASSUME UNCHANGED <<file, adrift>>, Sound(d') PROVE Sound(d)'
  BY DEF Sound, DTypes, Sizes, Live, Stocked, Here, Opened, CachedOffsets, src

\* The call and the phase of a loop that goes on.
LEMMA TurnAgain ==
    ASSUME BInv, call.at = "decode", Live(d'), d'.pending = <<>>, d.rate => d'.rate,
           CallChanged({"window", "skipped"}), call'.window \in {SmallWindow, ResyncWindow},
           call'.skipped \in Nat
    PROVE  CallTypes(call)' /\ Phases'
  <1>1. /\ call'.at = call.at /\ call'.op = call.op /\ call'.err = call.err /\ call'.asked = call.asked
        /\ call'.frame = call.frame /\ call'.target = call.target /\ call'.intra = call.intra
    BY DEF CallChanged, CallFields
  <1>2. CallTypes(call)'  BY <1>1 DEF BInv, CallTypes, CallChanged
  <1>3. Phases'  BY <1>1 DEF BInv, Phases, Live
  <1> QED  BY <1>2, <1>3

\* And of one that goes back to its caller.
LEMMA TurnBack ==
    ASSUME BInv, call.at = "decode", CallChanged({"at", "err"}), call'.at = "back",
           call'.err \in Errs, call'.err = "none" => Live(d') /\ d'.rate /\ d'.pending # <<>>,
           call'.err # "none" => ~Live(d'), d'.pending # <<>> => ~d'.done
    PROVE  CallTypes(call)' /\ Phases'
  <1>1. /\ call'.window = call.window /\ call'.skipped = call.skipped
        /\ call'.op = call.op /\ call'.asked = call.asked
        /\ call'.frame = call.frame /\ call'.target = call.target /\ call'.intra = call.intra
    BY DEF CallChanged, CallFields
  <1>2. CallTypes(call)'  BY <1>1 DEF BInv, CallTypes, CallChanged
  <1>3. Phases'  BY <1>1 DEF BInv, Phases, Live
  <1> QED  BY <1>2, <1>3

\* Without pending samples the bound on the frames stays.
LEMMA NonePending ==
    ASSUME BInv, d'.pending = <<>>, got' = got
    PROVE  Bounded(d, got)'
  <1>1. PICK b \in Nat : \A g \in got : g <= b  BY DEF BInv, Bounded
  <1>2. DOMAIN d'.pending = {}  OBVIOUS
  <1> QED  BY <1>1, <1>2 DEF Bounded

\* Behind a frame.
LEMMA KeptFacts ==
    ASSUME file \in DOMAIN Sources, NEW f, NEW o, Hit(f, o), NEW g, g = Kept(f, o)
    PROVE  /\ Sound(g) /\ Live(g) /\ Changed(g, f, SeenFields \cup {"produced", "rate"})
           /\ g.rate /\ g.seen /\ g.tagChecked /\ g.produced = f.produced + FrameSize
           /\ Here(g) = Here(f) + o.bytes
           /\ g.audioStart = IF f.seen THEN f.audioStart ELSE f.audioStart + o.off
  <1> DEFINE s == FirstSeen(f, o)
  <1>1. /\ Sound(s) /\ Live(s) /\ Changed(s, f, SeenFields) /\ s.seen /\ s.tagChecked
        /\ Here(s) = Here(f) + o.bytes
        /\ s.audioStart = IF f.seen THEN f.audioStart ELSE f.audioStart + o.off
    BY SeenFacts
  <1>2. PICK to \in Nat : to = f.produced + FrameSize
    <2>1. f.produced \in Nat /\ FrameSize \in Nat  BY ConstTypes DEF Hit, Sound, DTypes
    <2> QED  BY <2>1
  <1>3. g = [s EXCEPT !.produced = to, !.rate = TRUE]  BY <1>2 DEF Kept
  <1> HIDE DEF s
  <1>4. /\ Sound(g) /\ Changed(g, s, {"produced", "rate"}) /\ g.produced = to /\ g.rate
        /\ Here(g) = Here(s) /\ (Live(g) <=> Live(s))
    BY <1>1, <1>3, ProducedFacts
  <1>5. g.audioStart = s.audioStart /\ g.seen = s.seen /\ g.tagChecked = s.tagChecked
    BY <1>4, ChangedFields
  <1>6. Changed(g, f, SeenFields \cup {"produced", "rate"})  BY <1>1, <1>4, ChangedTwice
  <1> QED  BY <1>1, <1>2, <1>4, <1>5, <1>6

\* A turn of the decode loop preserves BInv.
LEMMA DecodeStepB == BInv /\ DecodeStep => BInv'
  <1> SUFFICES ASSUME BInv, DecodeStep PROVE BInv'  OBVIOUS
  <1>1. /\ file' = file /\ ret' = ret /\ expect' = expect /\ got' = got /\ adrift' = adrift
    BY DecodeTurn
  <1>2. PICK f \in Fills(call.window) :
           /\ Sound(f) /\ Live(f) /\ Changed(f, d, Buffers) /\ Turn(f)
           /\ faults' = faults + (IF f.readErr = "io" /\ d.readErr # "io" THEN 1 ELSE 0)
    BY DecodeTurn
  <1>3. /\ file \in DOMAIN Sources /\ DecTypes(dec) /\ CallTypes(call) /\ RetTypes(ret)
        /\ expect \in Nat /\ got \subseteq Nat /\ faults \in Nat
        /\ call.at = "decode" /\ d.pending = <<>> /\ call.window \in {SmallWindow, ResyncWindow}
    BY DEF BInv, Phases, DecodeStep
  <1>4. faults' \in Nat  BY <1>2, <1>3
  <1>5. f.pending = d.pending /\ f.rate = d.rate  BY <1>2, ChangedFields DEF Buffers
  <1>6. DTypes(f) /\ f.buf \in Seq(CellType)  BY <1>2 DEF Sound, DTypes
  <1>7. DecTypes(dec')
    <2>1. CASE f.buf # <<>>
      <3>1. PICK n \in Nat : n = Len(f.buf) /\ n > 0
        <4>1. Len(f.buf) \in Nat /\ Len(f.buf) # 0  BY <1>6, <2>1, LenNat, EmptyLen
        <4> QED  BY <4>1
      <3>2. dec' = DecodeFrame(f.buf).dec  BY <1>2, <2>1 DEF Turn
      <3> QED  BY <1>3, <1>6, <3>1, <3>2, DecodeFacts
    <2>2. CASE f.buf = <<>>  BY <1>2, <1>3, <2>2 DEF Turn
    <2> QED  BY <2>1, <2>2
  <1>8. Sound(d') /\ CallTypes(call)' /\ Phases' /\ Bounded(d, got)'
    <2>1. CASE Ends(f)
      <3>1. /\ Sound(d') /\ ~Live(d') /\ Changed(d', f, {"buf", "done", "err"})
            /\ call'.at = "back" /\ call'.err \in {"eof", "io", "corrupt"} /\ CallChanged({"at", "err"})
            /\ call'.err = "eof" => d'.done
        BY <2>1 DEF Ends
      <3>2. d'.pending = <<>>  BY <1>3, <1>5, <3>1, ChangedFields
      <3>3. call'.err \in Errs /\ call'.err # "none"  BY <3>1 DEF Errs
      <3> QED  BY <1>1, <1>3, <3>1, <3>2, <3>3, TurnBack, NonePending
    <2>2. CASE Widens(f)
      <3>1. /\ d' = f /\ call'.window = ResyncWindow /\ CallChanged({"window", "skipped"})
            /\ call'.skipped = call.skipped
        BY <2>2 DEF Widens
      <3>2. call.skipped \in Nat  BY <1>3 DEF CallTypes
      <3> QED  BY <1>1, <1>2, <1>3, <1>5, <3>1, <3>2, TurnAgain, NonePending
    <2>3. CASE Drops(f)
      <3>1. /\ Len(f.buf) = ResyncWindow /\ d' = Consume(f, ResyncWindow - Retain)
            /\ call'.window = ResyncWindow /\ CallChanged({"window", "skipped"})
            /\ call'.skipped \in Nat
        BY <2>3 DEF Drops
      <3>2. ResyncWindow - Retain \in Nat /\ ResyncWindow - Retain <= ResyncWindow
        BY ConstTypes DEF Retain
      <3>3. Sound(d') /\ Live(d') /\ Changed(d', f, {"buf"})  BY <1>2, <3>1, <3>2, ConsumeFacts
      <3>4. d'.pending = <<>> /\ d'.rate = d.rate  BY <1>3, <1>5, <3>3, ChangedFields
      <3> QED  BY <1>1, <1>3, <3>1, <3>3, <3>4, TurnAgain, NonePending
    <2>4. ASSUME NEW o, o = DecodeFrame(f.buf), Frame(f, o)
          PROVE  Sound(d') /\ CallTypes(call)' /\ Phases' /\ Bounded(d, got)'
      <3>1. Hit(f, o)  BY <2>4 DEF Frame
      <3>2. \A g : DecodeWindow(g) \in {SmallWindow, ResyncWindow}  BY DEF DecodeWindow
      <3>3. ASSUME NEW g, GoesOn(f, g), Sound(g), Live(g), g.pending = f.pending, f.rate => g.rate
            PROVE  Sound(d') /\ CallTypes(call)' /\ Phases' /\ Bounded(d, got)'
        <4>1. /\ d' = g /\ call'.window \in {SmallWindow, ResyncWindow} /\ call'.skipped \in Nat
              /\ CallChanged({"window", "skipped"})
          BY <3>2, <3>3 DEF GoesOn
        <4>2. d'.pending = <<>> /\ (d.rate => d'.rate)  BY <1>3, <1>5, <3>3, <4>1
        <4> QED  BY <1>1, <1>3, <3>3, <4>1, <4>2, TurnAgain, NonePending
      <3>4. CASE Tags(f, o)
        <4>1. ~f.tagChecked /\ GoesOn(f, ApplyTag(f, o))  BY <3>4 DEF Tags
        <4> DEFINE g == ApplyTag(f, o)
        <4>2. Sound(g) /\ Live(g) /\ Changed(g, f, TagFields)  BY <1>3, <3>1, <4>1, TagFacts
        <4>3. g.pending = f.pending /\ g.rate = f.rate  BY <4>2, ChangedFields DEF TagFields
        <4> HIDE DEF g
        <4> QED  BY <3>3, <4>1, <4>2, <4>3 DEF g
      <3>5. CASE Skips(f, o)
        <4> DEFINE g == FirstSeen(f, o)
        <4>1. GoesOn(f, g)  BY <3>5 DEF Skips
        <4>2. Sound(g) /\ Live(g) /\ Changed(g, f, SeenFields)  BY <1>3, <3>1, SeenFacts
        <4>3. g.pending = f.pending /\ g.rate = f.rate  BY <4>2, ChangedFields DEF SeenFields
        <4> HIDE DEF g
        <4> QED  BY <3>3, <4>1, <4>2, <4>3
      <3> DEFINE g == Kept(f, o)
      <3>6. /\ Sound(g) /\ Live(g) /\ Changed(g, f, SeenFields \cup {"produced", "rate"})
            /\ g.rate /\ g.produced = f.produced + FrameSize
        BY <1>3, <3>1, KeptFacts
      <3>7. g.pending = f.pending  BY <3>6, ChangedFields DEF SeenFields
      <3> HIDE DEF g
      <3>8. CASE Trims(f, o)
        <4>1. GoesOn(f, g)  BY <3>8 DEF Trims, g
        <4> QED  BY <3>3, <3>6, <3>7, <4>1
      <3>9. CASE PastEnd(f, o)
        <4>1. /\ d' = [g EXCEPT !.done = TRUE] /\ call'.at = "back" /\ call'.err = "eof"
              /\ CallChanged({"at", "err"})
          BY <3>9 DEF PastEnd, g
        <4>2. Sound(d') /\ ~Live(d') /\ d'.done /\ Changed(d', g, {"done"})
          BY <3>6, <4>1, DoneFacts
        <4>3. d'.pending = <<>>  BY <1>3, <1>5, <3>7, <4>2, ChangedFields
        <4>4. call'.err \in Errs /\ call'.err # "none"  BY <4>1 DEF Errs
        <4> QED  BY <1>1, <1>3, <4>1, <4>2, <4>3, <4>4, TurnBack, NonePending
      <3>10. CASE HandsOut(f, o)
        <4> DEFINE from == Most(f.produced, f.start)
                   to == Least(f.produced + FrameSize, f.end)
                   s == Samples(o, from - f.produced, to - f.produced)
        <4>1. /\ from < to /\ d' = [g EXCEPT !.pending = s] /\ call'.at = "back"
              /\ call'.err = "none" /\ CallChanged({"at", "err"})
          BY <3>10 DEF HandsOut, g
        <4>2. f.produced \in Nat /\ f.start \in Nat /\ f.end \in Nat /\ FrameSize \in Nat
          BY <1>6, ConstTypes DEF DTypes
        <4>3. /\ from \in Nat /\ to \in Nat /\ f.produced <= from /\ to <= f.produced + FrameSize
          BY <4>2 DEF Most, Least
        <4>4. PICK a \in Nat, z \in Int : a = from - f.produced /\ z = to - f.produced
          BY <4>2, <4>3
        <4>5. a < z /\ z <= FrameSize /\ Most(0, z - a) = z - a /\ z - a \in Nat /\ z - a > 0
          <5>1. a < z /\ z <= FrameSize  BY <4>1, <4>2, <4>3, <4>4
          <5> QED  BY <5>1 DEF Most
        <4> HIDE DEF from, to
        <4>6. s = Samples(o, a, z)  BY <4>4
        <4>7. o.id \in Nat /\ o.prev \in Nat  BY <3>1 DEF Hit
        <4> HIDE DEF s
        <4>8. /\ s \in Seq(Sample) /\ Len(s) = z - a /\ DOMAIN s = 1..z - a
              /\ \A k \in DOMAIN s : s[k] = <<o.id, o.prev, a + k - 1>>
          <5>1. /\ s \in Seq(Sample) /\ Len(s) = Most(0, z - a) /\ DOMAIN s = 1..Most(0, z - a)
                /\ \A k \in DOMAIN s : s[k] = <<o.id, o.prev, a + k - 1>>
            BY <4>6, <4>7, SamplesFacts
          <5> QED  BY <4>5, <5>1
        <4>9. Len(s) <= FrameSize /\ s # <<>>
          <5>1. z - a <= FrameSize  BY <4>2, <4>5
          <5>2. Len(s) # 0  BY <4>5, <4>8
          <5> QED  BY <4>8, <5>1, <5>2, EmptyLen
        <4>10. Sound(d') /\ d'.pending = s /\ Live(d') /\ Changed(d', g, {"pending"})
          BY <3>6, <4>1, <4>8, <4>9, PendingFacts
        <4>11. d'.rate /\ ~d'.done  BY <3>6, <4>10, ChangedFields DEF Live
        <4>12. Bounded(d, got)'
          <5>1. PICK b \in Nat : \A h \in got : h <= b  BY DEF BInv, Bounded
          <5>2. PICK c \in Nat : b <= c /\ o.id <= c
            <6>1. b + o.id \in Nat /\ b <= b + o.id /\ o.id <= b + o.id  BY <4>7
            <6> QED  BY <6>1
          <5>3. \A h \in got : h <= c  BY <1>3, <5>1, <5>2
          <5>4. \A i \in DOMAIN s : s[i][1] = o.id
            <6>1. ASSUME NEW i \in DOMAIN s PROVE s[i][1] = o.id
              <7>1. s[i] = <<o.id, o.prev, a + i - 1>>  BY <4>8
              <7> QED  BY <7>1
            <6> QED  BY <6>1
          <5>5. \A i \in DOMAIN s : s[i][1] <= c  BY <5>2, <5>4
          <5> QED  BY <1>1, <4>10, <5>2, <5>3, <5>5 DEF Bounded
        <4>13. call'.err \in Errs /\ call'.err # "eof"  BY <4>1 DEF Errs
        <4>14. CallTypes(call)' /\ Phases'  BY <1>3, <4>1, <4>9, <4>10, <4>11, <4>13, TurnBack
        <4> QED  BY <4>10, <4>12, <4>14
      <3> QED  BY <2>4, <3>4, <3>5, <3>8, <3>9, <3>10 DEF Frame
    <2> QED  BY <1>2, <2>1, <2>2, <2>3, <2>4 DEF Turn
  <1>9. Sound(d)'  BY <1>1, <1>8, SoundNext
  <1>10. DecTypes(dec)'  BY <1>7 DEF DecTypes
  <1> QED  BY <1>1, <1>3, <1>4, <1>8, <1>9, <1>10 DEF BInv

-----------------------------------------------------------------------------
(***************************************************************************)
(* The other operations.                                                   *)
(***************************************************************************)
Ops == {"none", "reset", "read", "writeTo", "seek"}

\* What is sound of a decoder whose source is where it should be.
Steady(f) ==
    DTypes(f) /\ Sizes(f) /\ (Live(f) => Stocked(f)) /\ Opened(f) /\ CachedOffsets(f)

\* So it is sound once nothing is adrift.
LEMMA SteadySound == ASSUME NEW f, Steady(f), ~adrift PROVE Sound(f)
  BY DEF Steady, Sound

LEMMA SteadyNext == ASSUME file' = file, ~adrift', Steady(d') PROVE Sound(d)'
  BY DEF Steady, Sound, DTypes, Sizes, Live, Stocked, Here, Opened, CachedOffsets, src

\* The decoder behind the ID3v2 tag.
LEMMA OpeningFacts ==
    ASSUME file \in DOMAIN Sources, NEW f, f = Opening
    PROVE  /\ Steady(f) /\ Live(f) /\ f.pending = <<>> /\ ~f.rate /\ ~f.seen /\ ~f.tagChecked
           /\ Here(f) = src.id3 /\ f.audioStart = src.id3 /\ f.pos = src.id3
           /\ f.produced = 0 /\ f.start = 0 /\ f.frameOff = <<>> /\ f.buf = <<>> /\ f.br = <<>>
           /\ f.readErr = "none" /\ f.frames = 0 /\ f.end = NoEnd
  <1>1. /\ DOMAIN f = DFields /\ f.pos = src.id3 /\ f.audioStart = src.id3
        /\ f.br = <<>> /\ f.buf = <<>> /\ f.readErr = "none" /\ f.pending = <<>>
        /\ f.tagChecked = FALSE /\ f.frames = 0 /\ f.start = 0 /\ f.end = NoEnd /\ f.produced = 0
        /\ f.firstBytes = 0 /\ f.seen = FALSE /\ f.frameOff = <<>>
        /\ f.done = FALSE /\ f.err = "none" /\ f.rate = FALSE /\ f.total = 0
    BY DEF Opening, Fresh, DFields
  <1>2. src.id3 \in Nat /\ src.id3 <= Len(src.cells) /\ Len(src.cells) \in Nat  BY SrcTypes
  <1>3. NoEnd \in Nat  BY ConstTypes
  <1>4. /\ f.br \in Seq(CellType) /\ f.buf \in Seq(CellType) /\ f.pending \in Seq(Sample)
        /\ f.frameOff \in Seq(Nat)
    BY <1>1
  <1>5. DTypes(f)
    <2>1. /\ DOMAIN f = DFields /\ f.pos \in Nat /\ f.audioStart \in Nat /\ f.frames \in Nat
          /\ f.start \in Nat /\ f.end \in Nat /\ f.produced \in Nat /\ f.firstBytes \in Nat
          /\ f.total \in Nat
      BY <1>1, <1>2, <1>3
    <2>2. /\ f.readErr \in {"none", "eof", "io"} /\ f.err \in Errs
          /\ f.tagChecked \in BOOLEAN /\ f.seen \in BOOLEAN /\ f.done \in BOOLEAN /\ f.rate \in BOOLEAN
      BY <1>1 DEF Errs
    <2> QED  BY <1>4, <2>1, <2>2 DEF DTypes
  <1>6. Len(f.buf) = 0 /\ Len(f.br) = 0 /\ Len(f.pending) = 0  BY <1>1
  <1>7. Here(f) = src.id3  BY <1>1, <1>2, <1>6 DEF Here
  <1>8. Stocked(f)  BY <1>1, <1>2, <1>6 DEF Stocked
  <1>9. Sizes(f)  BY <1>1, <1>2, <1>6, ConstTypes DEF Sizes
  <1>10. Opened(f)  BY <1>1, <1>2, <1>7 DEF Opened
  <1>11. CachedOffsets(f)
    <2>1. DOMAIN f.frameOff = {}  BY <1>1
    <2> QED  BY <2>1 DEF CachedOffsets
  <1>12. Live(f)  BY <1>1 DEF Live
  <1> QED  BY <1>1, <1>5, <1>7, <1>8, <1>9, <1>10, <1>11, <1>12 DEF Steady

\* And one whose source fails on the way there.
Unopened(f) ==
    /\ Steady(f) /\ ~Live(f) /\ f.pending = <<>> /\ f.err = "io" /\ ~f.done /\ ~f.rate
    /\ ~f.tagChecked /\ f.frames = 0 /\ f.end = NoEnd

LEMMA UnopenedFacts ==
    ASSUME file \in DOMAIN Sources, NEW m \in 0..src.id3,
           NEW f, f = [Fresh EXCEPT !.pos = m, !.err = "io"]
    PROVE  Unopened(f)
  <1>1. /\ DOMAIN f = DFields /\ f.pos = m /\ f.audioStart = 0
        /\ f.br = <<>> /\ f.buf = <<>> /\ f.readErr = "none" /\ f.pending = <<>>
        /\ f.tagChecked = FALSE /\ f.frames = 0 /\ f.start = 0 /\ f.end = NoEnd /\ f.produced = 0
        /\ f.firstBytes = 0 /\ f.seen = FALSE /\ f.frameOff = <<>>
        /\ f.done = FALSE /\ f.err = "io" /\ f.rate = FALSE /\ f.total = 0
    BY DEF Fresh, DFields
  <1>2. m \in Nat /\ m <= Len(src.cells) /\ Len(src.cells) \in Nat
    <2>1. src.id3 \in Nat /\ src.id3 <= Len(src.cells) /\ Len(src.cells) \in Nat  BY SrcTypes
    <2> QED  BY <2>1
  <1>3. NoEnd \in Nat  BY ConstTypes
  <1>4. /\ f.br \in Seq(CellType) /\ f.buf \in Seq(CellType) /\ f.pending \in Seq(Sample)
        /\ f.frameOff \in Seq(Nat)
    <2>1. \A S : <<>> \in Seq(S)  OBVIOUS
    <2> QED  BY <1>1, <2>1, Zenon
  <1>5. DTypes(f)
    <2>1. /\ DOMAIN f = DFields /\ f.pos \in Nat /\ f.audioStart \in Nat /\ f.frames \in Nat
          /\ f.start \in Nat /\ f.end \in Nat /\ f.produced \in Nat /\ f.firstBytes \in Nat
          /\ f.total \in Nat
      BY <1>1, <1>2, <1>3
    <2>2. /\ f.readErr \in {"none", "eof", "io"} /\ f.err \in Errs
          /\ f.tagChecked \in BOOLEAN /\ f.seen \in BOOLEAN /\ f.done \in BOOLEAN /\ f.rate \in BOOLEAN
      BY <1>1 DEF Errs
    <2> QED  BY <1>4, <2>1, <2>2 DEF DTypes
  <1>6. Len(f.buf) = 0 /\ Len(f.br) = 0 /\ Len(f.pending) = 0  BY <1>1
  <1>7. ~Live(f)  BY <1>1 DEF Live
  <1>8. Sizes(f)  BY <1>1, <1>2, <1>6, ConstTypes DEF Sizes
  <1>9. Opened(f)  BY <1>1, <1>7 DEF Opened
  <1>10. CachedOffsets(f)
    <2>1. DOMAIN f.frameOff = {}  BY <1>1
    <2> QED  BY <2>1 DEF CachedOffsets
  <1>11. Steady(f)  BY <1>5, <1>7, <1>8, <1>9, <1>10 DEF Steady
  <1> QED  BY <1>1, <1>7, <1>11 DEF Unopened

\* No call is in progress.
LEMMA IdleFacts ==
    CallTypes(IdleCall) /\ IdleCall.at = "idle" /\ IdleCall.op = "none" /\ IdleCall.err = "none"
    /\ IdleCall.window = 0
  BY DEF CallTypes, IdleCall, CallFields, Errs

\* What a call returns, by its fields.
LEMMA RetFacts ==
    ASSUME NEW op \in Ops, NEW err \in Errs, NEW r, r = Ret(op, err)
    PROVE  RetTypes(r) /\ r.op = op /\ r.err = err /\ r.out = <<>>
  BY DEF RetTypes, Ret, RetFields, Ops

\* And what a seek returns.
LEMMA SeekRetFacts ==
    ASSUME NEW s \in Nat, NEW err \in Errs, NEW landed \in Nat, NEW r, r = SeekRet(s, err, landed)
    PROVE  RetTypes(r) /\ r.op = "seek" /\ r.err = err /\ r.out = <<>>
  BY DEF RetTypes, Ret, SeekRet, RetFields

\* The decode that opens a source.
LEMMA ResetCallFacts ==
    /\ CallTypes(ResetCall) /\ ResetCall.at = "decode" /\ ResetCall.op = "reset"
    /\ ResetCall.window = ResyncWindow
  BY DEF CallTypes, IdleCall, ResetCall, CallFields, Errs

\* A call that has returned.
LEMMA PhasesIdle ==
    ASSUME call'.at = "idle", Live(d') => d'.rate, d'.pending # <<>> => ~d'.done PROVE Phases'
  BY DEF Phases, Live

\* BInv holds in the beginning.
LEMMA InitB == ASSUME Init PROVE BInv
  <1>1. file \in DOMAIN Sources /\ d = Opening /\ dec = Cold /\ call = ResetCall
        /\ ret = Ret("none", "none") /\ expect = 0 /\ got = {} /\ faults = 0 /\ ~adrift
    BY DEF Init
  <1>2. Sound(d) /\ Live(d) /\ d.pending = <<>>  BY <1>1, OpeningFacts, SteadySound
  <1>3. DecTypes(dec)  BY <1>1 DEF DecTypes, Cold
  <1>4. CallTypes(call) /\ call.at = "decode" /\ call.op = "reset" /\ call.window = ResyncWindow
    BY <1>1, ResetCallFacts
  <1>5. RetTypes(ret)  BY <1>1, RetFacts DEF Ops, Errs
  <1>6. Phases  BY <1>2, <1>4 DEF Phases
  <1>7. Bounded(d, got)
    <2>1. DOMAIN d.pending = {} /\ 0 \in Nat  BY <1>2
    <2> QED  BY <1>1, <2>1 DEF Bounded
  <1> QED  BY <1>1, <1>2, <1>3, <1>4, <1>5, <1>6, <1>7 DEF BInv

\* Reset begins the source again, or fails on the way to it.
Opens == d' = Opening /\ call' = ResetCall /\ UNCHANGED <<ret, faults>>
OpensNot ==
    /\ Unopened(d') /\ call' = IdleCall /\ call'.at = "idle" /\ faults' = faults + 1
    /\ RetTypes(ret') /\ ret'.op = "reset" /\ ret'.err = "io" /\ ret'.out = <<>>

LEMMA ResetTurns ==
    ASSUME BInv, Reset
    PROVE  /\ file' = file /\ dec' = Cold /\ expect' = 0 /\ got' = {} /\ ~adrift'
           /\ Opens \/ OpensNot
  <1>1. file' = file /\ dec' = Cold /\ expect' = 0 /\ got' = {} /\ ~adrift'  BY DEF Reset
  <1>2. \/ Opens
        \/ /\ call' = IdleCall /\ faults' = faults + 1 /\ ret' = Ret("reset", "io")
           /\ \E m \in 0..src.id3 : d' = [Fresh EXCEPT !.pos = m, !.err = "io"]
    BY DEF Reset, Opens, Return
  <1>3. ASSUME call' = IdleCall, faults' = faults + 1, ret' = Ret("reset", "io"),
               NEW m \in 0..src.id3, d' = [Fresh EXCEPT !.pos = m, !.err = "io"]
        PROVE  OpensNot
    <2>1. Unopened(d')  BY <1>3, UnopenedFacts DEF BInv
    <2>2. "reset" \in Ops /\ "io" \in Errs  BY DEF Ops, Errs
    <2>3. RetTypes(ret') /\ ret'.op = "reset" /\ ret'.err = "io" /\ ret'.out = <<>>
      BY <1>3, <2>2, RetFacts
    <2> QED  BY <1>3, <2>1, <2>3, IdleFacts DEF OpensNot
  <1> QED  BY <1>1, <1>2, <1>3

\* It establishes BInv.
LEMMA ResetB == BInv /\ Reset => BInv'
  <1> SUFFICES ASSUME BInv, Reset PROVE BInv'  OBVIOUS
  <1>1. /\ file' = file /\ dec' = Cold /\ expect' = 0 /\ got' = {} /\ ~adrift'
        /\ file \in DOMAIN Sources /\ RetTypes(ret) /\ faults \in Nat
    BY ResetTurns DEF BInv
  <1>2. Steady(d') /\ d'.pending = <<>>
    BY <1>1, ResetTurns, OpeningFacts DEF Opens, OpensNot, Unopened
  <1>3. DecTypes(dec)'  BY <1>1 DEF DecTypes, Cold
  <1>4. Bounded(d, got)'
    <2>1. DOMAIN d'.pending = {} /\ 0 \in Nat  BY <1>2
    <2> QED  BY <1>1, <2>1 DEF Bounded
  <1>5. Sound(d)'  BY <1>1, <1>2, SteadyNext
  <1>6. CallTypes(call)' /\ Phases' /\ RetTypes(ret)' /\ faults' \in Nat
    <2>1. CASE Opens
      <3>1. Live(d') /\ faults' = faults /\ RetTypes(ret)'
        BY <1>1, <2>1, OpeningFacts DEF Opens, RetTypes
      <3>2. /\ CallTypes(call') /\ call'.at = "decode" /\ call'.op = "reset"
            /\ call'.window = ResyncWindow
        BY <2>1, ResetCallFacts DEF Opens
      <3>3. CallTypes(call)'  BY <3>2 DEF CallTypes
      <3>4. Phases'  BY <1>2, <3>1, <3>2 DEF Phases, Live
      <3> QED  BY <1>1, <3>1, <3>3, <3>4
    <2>2. CASE OpensNot
      <3>1. ~Live(d') /\ faults' = faults + 1 /\ call' = IdleCall /\ RetTypes(ret')
        BY <2>2 DEF OpensNot, Unopened
      <3>2. CallTypes(call)' /\ call'.at = "idle"  BY <3>1, IdleFacts DEF CallTypes
      <3>3. Phases'  BY <1>2, <3>1, <3>2, PhasesIdle
      <3> QED  BY <1>1, <3>1, <3>2, <3>3 DEF RetTypes
    <2> QED  BY <2>1, <2>2, ResetTurns
  <1> QED  BY <1>1, <1>3, <1>4, <1>5, <1>6 DEF BInv

\* Entering the decode loop.
LEMMA DecodingFacts ==
    ASSUME NEW op \in {"read", "writeTo"}, NEW c, c = Decoding(op)
    PROVE  /\ CallTypes(c) /\ c.op = op
           /\ d.done => c.at = "back" /\ c.err = "eof"
           /\ ~d.done => c.at = "decode" /\ c.err = "none" /\ c.window = DecodeWindow(d)
  <1>1. CASE d.done
    <2>1. c = [IdleCall EXCEPT !.at = "back", !.op = op, !.err = "eof"]  BY <1>1 DEF Decoding
    <2> QED  BY <1>1, <2>1 DEF CallTypes, IdleCall, CallFields, Errs
  <1>2. CASE ~d.done
    <2> DEFINE w == DecodeWindow(d)
    <2>1. c = [IdleCall EXCEPT !.at = "decode", !.op = op, !.window = w]  BY <1>2 DEF Decoding
    <2>2. w \in {0, SmallWindow, ResyncWindow}  BY DEF DecodeWindow
    <2> HIDE DEF w
    <2>3. /\ CallTypes(c) /\ c.op = op /\ c.at = "decode" /\ c.err = "none" /\ c.window = w
      BY <2>1, <2>2 DEF CallTypes, IdleCall, CallFields, Errs
    <2> QED  BY <1>2, <2>3 DEF w
  <1> QED  BY <1>1, <1>2

\* The beginning of a read or of a WriteTo preserves it.
LEMMA BeginB ==
    ASSUME BInv, NEW op \in {"read", "writeTo"}, Begin(op) PROVE BInv'
  <1>1. /\ file' = file /\ d' = d /\ dec' = dec /\ expect' = expect /\ got' = got /\ faults' = faults
        /\ adrift' = adrift /\ call.at = "idle"
    BY DEF Begin
  <1>2. /\ file \in DOMAIN Sources /\ Sound(d) /\ DecTypes(dec) /\ CallTypes(call) /\ RetTypes(ret)
        /\ expect \in Nat /\ got \subseteq Nat /\ faults \in Nat /\ Bounded(d, got)
        /\ (Live(d) => d.rate) /\ (d.pending # <<>> => ~d.done) /\ DTypes(d)
    BY <1>1 DEF BInv, Phases, Sound
  <1>3. CASE d.err # "none"
    <2>1. ret' = Ret(op, d.err) /\ call' = call  BY <1>3 DEF Begin
    <2>2. RetTypes(ret')  BY <1>2, <2>1, RetFacts DEF Ops, DTypes
    <2>3. CallTypes(call') /\ Phases'  BY <1>1, <1>2, <2>1, PhasesIdle
    <2> QED  BY <1>1, <1>2, <2>2, <2>3, SoundNext DEF BInv, DecTypes, CallTypes, RetTypes, Bounded
  <1>4. CASE d.err = "none"
    <2>1. /\ ret' = ret
          /\ call' = IF d.pending # <<>> THEN [IdleCall EXCEPT !.at = "back", !.op = op] ELSE Decoding(op)
      BY <1>4 DEF Begin
    <2>2. CASE d.pending # <<>>
      <3>1. CallTypes(call') /\ call'.at = "back" /\ call'.op = op /\ call'.err = "none"
        BY <2>1, <2>2 DEF CallTypes, IdleCall, CallFields, Errs
      <3>2. Live(d)  BY <1>2, <1>4, <2>2 DEF Live
      <3>3. Phases'  BY <1>1, <1>2, <2>2, <3>1, <3>2 DEF Phases, Live
      <3> QED
        BY <1>1, <1>2, <2>1, <3>1, <3>3, SoundNext DEF BInv, DecTypes, CallTypes, RetTypes, Bounded
    <2>3. CASE d.pending = <<>>
      <3>1. call' = Decoding(op)  BY <2>1, <2>3
      <3>2. /\ CallTypes(call') /\ call'.op = op
            /\ d.done => call'.at = "back" /\ call'.err = "eof"
            /\ ~d.done => call'.at = "decode" /\ call'.err = "none" /\ call'.window = DecodeWindow(d)
        BY <3>1, DecodingFacts
      <3>3. ~d.done => Live(d) /\ d.rate  BY <1>2, <1>4 DEF Live
      <3>4. DecodeWindow(d) \in {SmallWindow, ResyncWindow}  BY DEF DecodeWindow
      <3>5. Phases'  BY <1>1, <1>2, <2>3, <3>2, <3>3, <3>4 DEF Phases, Live
      <3> QED
        BY <1>1, <1>2, <2>1, <3>2, <3>5, SoundNext DEF BInv, DecTypes, CallTypes, RetTypes, Bounded
    <2> QED  BY <2>2, <2>3
  <1> QED  BY <1>3, <1>4

\* A stream at rest, having failed or ended, wherever its source stands.
LEMMA RestFacts ==
    ASSUME NEW f, Sound(f), NEW g, DTypes(g), ~Live(g), g.pos <= Len(src.cells),
           Changed(g, f, {"pos", "buf", "done", "err", "pending", "frameOff"}),
           Len(g.buf) <= ResyncWindow, Len(g.pending) <= FrameSize,
           CachedOffsets(g), ~g.seen => g.frameOff = <<>>
    PROVE  Sound(g)
  <1>1. /\ g.br = f.br /\ g.tagChecked = f.tagChecked /\ g.audioStart = f.audioStart
        /\ g.firstBytes = f.firstBytes /\ g.seen = f.seen /\ g.rate = f.rate
    BY ChangedFields
  <1>2. Sizes(g)  BY <1>1 DEF Sound, Sizes
  <1>3. Opened(g)  BY <1>1 DEF Sound, Opened
  <1>4. adrift => g.rate  BY <1>1 DEF Sound
  <1> QED  BY <1>2, <1>3, <1>4 DEF Sound

\* Setting the length leaves the decoder sound.
LEMMA TotalFacts ==
    ASSUME NEW f, Sound(f), NEW n \in Nat, NEW g, g = [f EXCEPT !.total = n]
    PROVE  Sound(g) /\ Changed(g, f, {"total"}) /\ (Live(g) <=> Live(f)) /\ Here(g) = Here(f)
  <1>1. DTypes(f) /\ DOMAIN f = DFields  BY DomainOf DEF Sound
  <1>2. DOMAIN g = DFields /\ g.total = n /\ \A x \in DFields \ {"total"} : g[x] = f[x]
    BY <1>1, Zenon DEF DFields
  <1>3. Changed(g, f, {"total"})  BY <1>2 DEF Changed
  <1>4. /\ g.pos = f.pos /\ g.br = f.br /\ g.buf = f.buf /\ g.readErr = f.readErr
        /\ g.tagChecked = f.tagChecked /\ g.frames = f.frames /\ g.pending = f.pending
        /\ g.start = f.start /\ g.end = f.end /\ g.produced = f.produced
        /\ g.audioStart = f.audioStart /\ g.firstBytes = f.firstBytes
        /\ g.seen = f.seen /\ g.frameOff = f.frameOff /\ g.err = f.err /\ g.done = f.done
        /\ g.rate = f.rate
    BY <1>3, ChangedFields
  <1>5. DTypes(g)  BY <1>1, <1>2, <1>4 DEF DTypes
  <1>6. Changed(g, f, DFields \ Buffers)
    <2>1. {"total"} \subseteq DFields \ Buffers  BY DEF DFields, Buffers
    <2> QED  BY <1>3, <2>1, ChangedLess
  <1>7. (Live(g) <=> Live(f)) /\ Here(g) = Here(f)  BY <1>4 DEF Live, Here
  <1>8. Opened(g)  BY <1>4, <1>7 DEF Sound, Opened
  <1>9. CachedOffsets(g)  BY <1>4 DEF Sound, CachedOffsets
  <1>10. Len(g.pending) <= FrameSize /\ g.audioStart <= Len(src.cells)  BY <1>4 DEF Sound, Sizes
  <1>11. f.rate => g.rate  BY <1>4
  <1> QED  BY <1>3, <1>5, <1>6, <1>7, <1>8, <1>9, <1>10, <1>11, SoundChanged

\* A source that could not be put back.
LEMMA UnplacedFacts ==
    ASSUME file \in DOMAIN Sources, NEW f, Sound(f),
           NEW g, g = [f EXCEPT !.err = "io", !.pos = Len(src.cells)]
    PROVE  Sound(g) /\ ~Live(g) /\ Changed(g, f, {"err", "pos"}) /\ g.err = "io"
  <1>1. DTypes(f) /\ DOMAIN f = DFields  BY DomainOf DEF Sound
  <1>2. /\ DOMAIN g = DFields /\ g.err = "io" /\ g.pos = Len(src.cells)
        /\ \A x \in DFields \ {"err", "pos"} : g[x] = f[x]
    BY <1>1, Zenon DEF DFields
  <1>3. Changed(g, f, {"err", "pos"})  BY <1>2 DEF Changed
  <1>4. /\ g.br = f.br /\ g.buf = f.buf /\ g.readErr = f.readErr
        /\ g.tagChecked = f.tagChecked /\ g.frames = f.frames /\ g.pending = f.pending
        /\ g.start = f.start /\ g.end = f.end /\ g.produced = f.produced
        /\ g.audioStart = f.audioStart /\ g.firstBytes = f.firstBytes
        /\ g.seen = f.seen /\ g.frameOff = f.frameOff /\ g.done = f.done
        /\ g.rate = f.rate /\ g.total = f.total
    BY <1>3, ChangedFields
  <1>5. g.pos \in Nat /\ g.pos <= Len(src.cells)  BY <1>2, SrcTypes
  <1>6. g.err \in Errs /\ ~Live(g)  BY <1>2 DEF Errs, Live
  <1>7. DTypes(g)  BY <1>1, <1>2, <1>4, <1>5, <1>6 DEF DTypes
  <1>8. Changed(g, f, {"pos", "buf", "done", "err", "pending", "frameOff"})
    BY <1>3, ChangedLess
  <1>9. Len(g.buf) <= ResyncWindow /\ Len(g.pending) <= FrameSize  BY <1>4 DEF Sound, Sizes
  <1>10. CachedOffsets(g) /\ (~g.seen => g.frameOff = <<>>)
    BY <1>4 DEF Sound, CachedOffsets, Opened
  <1> QED  BY <1>2, <1>3, <1>5, <1>6, <1>7, <1>8, <1>9, <1>10, RestFacts

\* The estimated length is a number: the first frame has a length to divide by.
LEMMA EstimateNat ==
    ASSUME file \in DOMAIN Sources, Sound(d), d.seen, NEW found \in Nat
    PROVE  Estimate(found) \in Nat
  <1>1. d.firstBytes = FrameLen /\ d.audioStart \in Nat /\ d.start \in Nat
    BY DEF Sound, Opened, DTypes
  <1>2. FrameLen \in Nat /\ FrameLen > 1 /\ FrameSize \in Nat  BY ConstTypes
  <1>3. Len(src.cells) \in Nat  BY SrcTypes
  <1>4. PICK n \in Int : n = Len(src.cells)
                             - (IF Len(src.cells) - found <= d.audioStart THEN 0 ELSE found)
                             - d.audioStart
    <2>1. PICK tail \in Nat : tail = IF Len(src.cells) - found <= d.audioStart THEN 0 ELSE found
      OBVIOUS
    <2>2. PICK a \in Nat, m \in Nat : a = d.audioStart /\ m = Len(src.cells)  BY <1>1, <1>3
    <2>3. m - tail - a \in Int  OBVIOUS
    <2> QED  BY <2>1, <2>2, <2>3
  <1>5. PICK m \in Int : m = n \div FrameLen  BY <1>2
  <1>6. PICK k \in Int : k = m * FrameSize  BY <1>2
  <1>7. Estimate(found) = Most(0, k - d.start)  BY <1>1, <1>4, <1>5, <1>6 DEF Estimate
  <1>8. k - d.start \in Int  BY <1>1
  <1> QED  BY <1>7, <1>8 DEF Most

\* With the same samples pending the bound on the frames stays.
LEMMA SamePending ==
    ASSUME BInv, d'.pending = d.pending, got' = got PROVE Bounded(d, got)'
  BY DEF BInv, Bounded

\* What the end of a reset leaves: the decoder as it is, one that has failed, or one that
\* knows a length.
Untouched == d' = d /\ call.err = "none"
Failing == ~Live(d') /\ d'.err # "none" /\ Changed(d', d, {"err", "pos"})
Measured ==
    /\ Changed(d', d, {"total"}) /\ Live(d') /\ Here(d') = Here(d)
    /\ call.err = "none" /\ d.frames = 0

LEMMA ResetOutcome ==
    ASSUME BInv, ResetEnds
    PROVE  /\ UNCHANGED <<file, dec, expect, got, adrift>> /\ call.at = "back" /\ call' = IdleCall
           /\ faults' \in Nat /\ RetTypes(ret') /\ ret'.op = "reset" /\ ret'.out = <<>>
           /\ Sound(d') /\ (Untouched \/ Failing \/ Measured)
  <1>1. /\ UNCHANGED <<file, dec, expect, got, adrift>> /\ call.at = "back" /\ call' = IdleCall
        /\ faults' \in {faults, faults + 1}
        /\ \/ Untouched /\ ret' = Ret("reset", "none")
           \/ /\ \E found \in {0, src.trailer} : d' = [d EXCEPT !.total = Estimate(found)]
              /\ ret' = Ret("reset", "none") /\ call.err = "none" /\ d.frames = 0
           \/ d' = [d EXCEPT !.err = "io", !.pos = Len(src.cells)] /\ ret' = Ret("reset", "io")
           \/ \E e : /\ e = (IF call.err = "eof" THEN "corrupt" ELSE call.err) /\ call.err # "none"
                     /\ d' = [d EXCEPT !.err = e] /\ ret' = Ret("reset", e)
    BY DEF ResetEnds, Return, Untouched
  <1>2. /\ file \in DOMAIN Sources /\ Sound(d) /\ call.err \in Errs /\ faults \in Nat
        /\ (call.err = "none" => Live(d))
    BY <1>1 DEF BInv, Phases, CallTypes
  <1>3. /\ faults' \in Nat
        /\ \A e \in Errs : LET r == Ret("reset", e)
                           IN  RetTypes(r) /\ r.op = "reset" /\ r.out = <<>>
    <2>1. "reset" \in Ops  BY DEF Ops
    <2> QED  BY <1>1, <1>2, <2>1, RetFacts
  <1>4. "none" \in Errs /\ "io" \in Errs  BY DEF Errs
  <1>5. CASE Untouched /\ ret' = Ret("reset", "none")
    BY <1>1, <1>2, <1>3, <1>4, <1>5 DEF Untouched
  <1>6. CASE /\ \E found \in {0, src.trailer} : d' = [d EXCEPT !.total = Estimate(found)]
             /\ ret' = Ret("reset", "none") /\ call.err = "none" /\ d.frames = 0
    <2>1. PICK found \in {0, src.trailer} : d' = [d EXCEPT !.total = Estimate(found)]  BY <1>6
    <2>2. found \in Nat  BY <1>2, SrcTypes
    <2>3. PICK n \in Nat : n = Estimate(found)
      <3>1. d.seen  BY <1>1, <1>2, <1>6 DEF BInv, Phases, Sound, Opened
      <3> QED  BY <1>2, <2>2, <3>1, EstimateNat
    <2>4. Sound(d') /\ Measured  BY <1>2, <1>6, <2>1, <2>3, TotalFacts DEF Measured
    <2> QED  BY <1>1, <1>3, <1>4, <1>6, <2>4
  <1>7. CASE d' = [d EXCEPT !.err = "io", !.pos = Len(src.cells)] /\ ret' = Ret("reset", "io")
    <2>1. Sound(d') /\ Failing  BY <1>2, <1>7, UnplacedFacts DEF Failing
    <2> QED  BY <1>1, <1>3, <1>4, <1>7, <2>1
  <1>8. ASSUME NEW e, e = (IF call.err = "eof" THEN "corrupt" ELSE call.err), call.err # "none",
               d' = [d EXCEPT !.err = e], ret' = Ret("reset", e)
        PROVE  Sound(d') /\ Failing /\ e \in Errs
    <2>1. e \in Errs \ {"none"}  BY <1>2, <1>8 DEF Errs
    <2>2. Sound(d') /\ ~Live(d') /\ d'.err = e /\ Changed(d', d, {"err"})
      BY <1>2, <1>8, <2>1, FailedFacts
    <2> QED  BY <2>1, <2>2 DEF Failing, Changed
  <1> QED  BY <1>1, <1>3, <1>5, <1>6, <1>7, <1>8

\* The end of a reset preserves BInv.
LEMMA ResetEndsB == BInv /\ ResetEnds => BInv'
  <1> SUFFICES ASSUME BInv, ResetEnds PROVE BInv'  OBVIOUS
  <1>1. /\ UNCHANGED <<file, dec, expect, got, adrift>> /\ call.at = "back" /\ call' = IdleCall
        /\ faults' \in Nat /\ RetTypes(ret') /\ Sound(d') /\ (Untouched \/ Failing \/ Measured)
    BY ResetOutcome
  <1>2. /\ file \in DOMAIN Sources /\ DecTypes(dec) /\ expect \in Nat /\ got \subseteq Nat
        /\ (call.err = "none" => d.rate) /\ (d.pending # <<>> => ~d.done)
    BY <1>1 DEF BInv, Phases
  <1>3. CallTypes(call)' /\ call'.at = "idle"  BY <1>1, IdleFacts DEF CallTypes
  <1>4. DecTypes(dec)' /\ RetTypes(ret)'  BY <1>1, <1>2 DEF DecTypes, RetTypes
  <1>5. d'.pending = d.pending /\ d'.done = d.done /\ (Live(d') => d'.rate)
    BY <1>1, <1>2, ChangedFields DEF Untouched, Failing, Measured
  <1>6. Phases'  BY <1>2, <1>3, <1>5, PhasesIdle
  <1>7. Bounded(d, got)'  BY <1>1, <1>5, SamePending
  <1> QED  BY <1>1, <1>2, <1>3, <1>4, <1>6, <1>7, SoundNext DEF BInv

-----------------------------------------------------------------------------
(***************************************************************************)
(* Handing samples out.                                                    *)
(***************************************************************************)
\* The first n pending samples are handed out at the position expected.
Handed(n) ==
    /\ DOMAIN ret'.out = 1..n /\ \A k \in 1..n : ret'.out[k] = d.pending[k]
    /\ ret'.from = expect /\ expect' = expect + n /\ ret'.adrift = adrift
    /\ ret'.after = (IF 0 \in got THEN 0 ELSE Max(got \cup {0}))
    /\ got' = got \cup {d.pending[k][1] : k \in 1..n}
    /\ Len(d'.pending) = Len(d.pending) - n
    /\ \A k \in DOMAIN d'.pending : n + k \in DOMAIN d.pending /\ d'.pending[k] = d.pending[n + k]

\* The last frame delivered is a number, and bounded by what bounds them all.
LEMMA LastIs ==
    ASSUME NEW S \in SUBSET Nat, NEW b \in Nat, \A x \in S : x <= b
    PROVE  /\ (IF 0 \in S THEN 0 ELSE Max(S \cup {0})) \in Nat
           /\ \A n \in Nat : (\A x \in S : x <= n) => (IF 0 \in S THEN 0 ELSE Max(S \cup {0})) <= n
  <1> DEFINE T == S \cup {0}
  <1>1. T \in SUBSET Nat /\ T # {} /\ \A x \in T : x <= b  OBVIOUS
  <1>2. \A n \in Nat : (\A x \in S : x <= n) => \A x \in T : x <= n  OBVIOUS
  <1> HIDE DEF T
  <1>3. Max(T) \in T  BY <1>1, MaxIs
  <1>4. Max(T) \in Nat  BY <1>1, <1>3
  <1>5. \A n \in Nat : (\A x \in S : x <= n) => Max(T) <= n  BY <1>2, <1>3
  <1> QED  BY <1>4, <1>5 DEF T

\* Handing samples out, by the fields it changes.
LEMMA DeliverFacts ==
    ASSUME BInv, NEW op \in Ops, NEW err \in Errs, NEW n \in Nat, n <= Len(d.pending),
           Deliver(op, n, err)
    PROVE  /\ Sound(d') /\ Changed(d', d, {"pending"}) /\ (Live(d') <=> Live(d))
           /\ RetTypes(ret') /\ ret'.op = op /\ ret'.err = err
           /\ expect' \in Nat /\ got' \subseteq Nat /\ Handed(n) /\ Bounded(d, got)'
  <1>1. /\ Sound(d) /\ DTypes(d) /\ got \subseteq Nat /\ expect \in Nat
        /\ d.pending \in Seq(Sample)
    BY DEF BInv, Sound, DTypes
  <1>2. PICK p \in Seq(Sample) : p = d.pending  BY <1>1
  <1>3. PICK m \in Nat : m = Len(p) /\ n <= m /\ DOMAIN p = 1..m  BY <1>2, LenNat
  <1> DEFINE out == SubSeq(p, 1, n)
             rest == SubSeq(p, n + 1, m)
  <1>4. /\ out \in Seq(Sample) /\ Len(out) = n /\ \A i \in 1..n : out[i] = p[i]
    <2>1. /\ out \in Seq(Sample) /\ Len(out) = (IF 1 <= n THEN n - 1 + 1 ELSE 0)
          /\ \A i \in 1..n - 1 + 1 : out[i] = p[1 + i - 1]
      <3>1. 1 \in Nat \ {0} /\ n <= Len(p)  BY <1>3
      <3> QED  BY <3>1, SliceFacts
    <2>2. n - 1 + 1 = n /\ (n < 1 => n = 0) /\ \A i \in 1..n : 1 + i - 1 = i  OBVIOUS
    <2> HIDE DEF out
    <2> QED  BY <2>1, <2>2
  <1>5. /\ rest \in Seq(Sample) /\ Len(rest) = m - n /\ \A i \in 1..m - n : rest[i] = p[n + i]
    <2>1. /\ rest \in Seq(Sample) /\ Len(rest) = (IF n + 1 <= m THEN m - (n + 1) + 1 ELSE 0)
          /\ \A i \in 1..m - (n + 1) + 1 : rest[i] = p[n + 1 + i - 1]
      <3>1. n + 1 \in Nat \ {0} /\ m <= Len(p)  BY <1>3
      <3> QED  BY <3>1, SliceFacts
    <2>2. /\ m - (n + 1) + 1 = m - n /\ (~(n + 1 <= m) => m - n = 0)
          /\ \A i \in 1..m - n : n + 1 + i - 1 = n + i
      BY <1>3
    <2> HIDE DEF rest
    <2> QED  BY <2>1, <2>2
  <1>6. /\ d' = [d EXCEPT !.pending = rest] /\ expect' = expect + n
        /\ got' = got \cup {out[k][1] : k \in 1..n}
        /\ ret' = [Ret(op, err) EXCEPT !.out = out, !.from = expect, !.adrift = adrift,
                                       !.after = IF 0 \in got THEN 0 ELSE Max(got \cup {0})]
    BY <1>2, <1>3 DEF Deliver
  <1> HIDE DEF out, rest
  <1>7. DOMAIN out = 1..n /\ DOMAIN rest = 1..m - n /\ m - n \in Nat  BY <1>3, <1>4, <1>5, LenNat
  <1>8. got' = got \cup {p[k][1] : k \in 1..n}  BY <1>4, <1>6
  <1>9. \A k \in 1..m : p[k] \in Sample /\ p[k][1] \in Nat
    <2>1. \A k \in 1..m : p[k] \in Sample  BY <1>3, ElementOfSeq
    <2> QED  BY <2>1 DEF Sample
  <1>10. \A k \in 1..n : k \in 1..m  BY <1>3
  <1>11. got' \subseteq Nat  BY <1>1, <1>8, <1>9, <1>10
  <1>12. PICK b \in Nat : /\ \A g \in got : g <= b
                          /\ \A i \in 1..m : p[i][1] <= b
    BY <1>2, <1>3 DEF BInv, Bounded
  <1> DEFINE last == IF 0 \in got THEN 0 ELSE Max(got \cup {0})
  <1>13. last \in Nat  BY <1>1, <1>12, LastIs
  <1>14. m - n <= FrameSize
    <2>1. m <= FrameSize  BY <1>1, <1>2, <1>3 DEF Sound, Sizes
    <2> QED  BY <1>3, <2>1, ConstTypes
  <1>15. /\ Sound(d') /\ Changed(d', d, {"pending"}) /\ d'.pending = rest /\ (Live(d') <=> Live(d))
    BY <1>1, <1>5, <1>6, <1>14, PendingFacts
  <1>16. ret' = [Ret(op, err) EXCEPT !.out = out, !.from = expect, !.adrift = adrift, !.after = last]
    BY <1>6
  <1> HIDE DEF last
  <1>17. /\ RetTypes(ret') /\ ret'.op = op /\ ret'.err = err /\ ret'.out = out
         /\ ret'.from = expect /\ ret'.after = last /\ ret'.adrift = adrift
    <2>1. /\ DOMAIN ret' = RetFields /\ ret'.op = op /\ ret'.err = err /\ ret'.out = out
          /\ ret'.from = expect /\ ret'.after = last /\ ret'.asked = 0 /\ ret'.landed = 0
          /\ ret'.adrift = adrift
      BY <1>16 DEF Ret, RetFields
    <2>2. op \in {"none", "reset", "read", "writeTo", "seek"}  BY DEF Ops
    <2>3. ret'.out \in Seq(Sample) /\ ret'.from \in Nat /\ ret'.after \in Nat
      BY <1>1, <1>4, <1>13, <2>1
    <2> QED  BY <2>1, <2>2, <2>3 DEF RetTypes
  <1>18. \A k \in 1..m - n : n + k \in 1..m  BY <1>3
  <1>19. Handed(n)
    <2>1. DOMAIN ret'.out = 1..n /\ \A k \in 1..n : ret'.out[k] = d.pending[k]
      BY <1>2, <1>4, <1>7, <1>17
    <2>2. /\ Len(d'.pending) = Len(d.pending) - n
          /\ \A k \in DOMAIN d'.pending : n + k \in DOMAIN d.pending /\ d'.pending[k] = d.pending[n + k]
      BY <1>2, <1>3, <1>5, <1>7, <1>15, <1>18
    <2>3. got' = got \cup {d.pending[k][1] : k \in 1..n}  BY <1>2, <1>8
    <2> QED  BY <1>6, <1>17, <2>1, <2>2, <2>3 DEF Handed, last
  <1>20. Bounded(d, got)'
    <2>1. \A g \in got' : g <= b  BY <1>8, <1>10, <1>12
    <2>2. \A i \in DOMAIN d'.pending : d'.pending[i][1] <= b
      BY <1>5, <1>7, <1>12, <1>15, <1>18
    <2> QED  BY <2>1, <2>2 DEF Bounded
  <1>21. expect' \in Nat  BY <1>1, <1>6
  <1> QED  BY <1>11, <1>15, <1>17, <1>19, <1>20, <1>21

\* The steps that hand samples out: a read ends, WriteTo goes on or its writer fails.
Gives(op, n, err) ==
    /\ n <= Len(d.pending) /\ Deliver(op, n, err)
    /\ call' = IdleCall \/ (call' = Decoding("writeTo") /\ n = Len(d.pending))
Hands ==
    /\ call.err = "none"
    /\ \E op \in {"read", "writeTo"}, err \in {"none", "sink"}, n \in Nat : Gives(op, n, err)

\* Ending a read and turning a WriteTo hand samples out, or return the error there is.
LEMMA HandsOutOrNot ==
    ASSUME BInv, ReadEnds \/ WriteToGoesOn
    PROVE  /\ UNCHANGED <<file, dec, adrift, faults>> /\ call.at = "back"
           /\ \/ Hands
              \/ /\ UNCHANGED <<d, expect, got>> /\ call' = IdleCall
                 /\ call.err # "none" /\ (call.op = "read" \/ call.op = "writeTo")
                 /\ ret' = Ret(call.op, call.err) /\ RetTypes(ret') /\ ret'.out = <<>>
  <1>1. UNCHANGED <<file, dec, adrift, faults>> /\ call.at = "back"  BY DEF ReadEnds, WriteToGoesOn
  <1>2. CASE call.err # "none"
    <2>1. /\ UNCHANGED <<d, expect, got>> /\ call' = IdleCall
          /\ (call.op = "read" \/ call.op = "writeTo") /\ ret' = Ret(call.op, call.err)
      BY <1>2 DEF ReadEnds, WriteToGoesOn, Return
    <2>2. call.op \in Ops /\ call.err \in Errs  BY <2>1 DEF Ops, BInv, CallTypes
    <2> QED  BY <1>1, <1>2, <2>1, <2>2, RetFacts
  <1>3. CASE call.err = "none"
    <2>1. PICK m \in Nat : m = Len(d.pending) /\ m > 0
      <3>1. d.pending \in Seq(Sample) /\ d.pending # <<>>
        BY <1>1, <1>3 DEF BInv, Phases, Sound, DTypes
      <3>2. Len(d.pending) \in Nat /\ Len(d.pending) # 0  BY <3>1, LenNat, EmptyLen
      <3> QED  BY <3>2
    <2>2. CASE ReadEnds
      <3>1. PICK n \in {1, m} : Deliver("read", n, "none")  BY <1>3, <2>1, <2>2 DEF ReadEnds
      <3>2. n \in Nat /\ n <= Len(d.pending) /\ call' = IdleCall  BY <2>1, <2>2 DEF ReadEnds
      <3>3. Gives("read", n, "none")  BY <3>1, <3>2 DEF Gives
      <3> QED  BY <1>1, <1>3, <3>2, <3>3 DEF Hands
    <2>3. CASE WriteToGoesOn
      <3>1. m - 1 \in Nat /\ m - 1 <= Len(d.pending) /\ m <= Len(d.pending)  BY <2>1
      <3>2. Gives("writeTo", m, "none") \/ Gives("writeTo", m - 1, "sink")
        BY <1>3, <2>1, <2>3, <3>1 DEF WriteToGoesOn, Gives
      <3> QED  BY <1>1, <1>3, <2>1, <3>1, <3>2 DEF Hands
    <2> QED  BY <2>2, <2>3
  <1> QED  BY <1>2, <1>3

\* Both preserve BInv.
LEMMA HandsB == ASSUME BInv, ReadEnds \/ WriteToGoesOn PROVE BInv'
  <1>1. UNCHANGED <<file, dec, adrift, faults>> /\ call.at = "back"  BY HandsOutOrNot
  <1>2. /\ file \in DOMAIN Sources /\ Sound(d) /\ DecTypes(dec)
        /\ expect \in Nat /\ got \subseteq Nat /\ faults \in Nat
        /\ (call.err = "none" => Live(d) /\ d.rate /\ d.pending # <<>>)
        /\ (call.err # "none" => ~Live(d)) /\ (d.pending # <<>> => ~d.done)
    BY <1>1 DEF BInv, Phases
  <1>3. DecTypes(dec)'  BY <1>1, <1>2 DEF DecTypes
  <1>4. /\ Sound(d') /\ CallTypes(call') /\ Phases'
        /\ RetTypes(ret') /\ expect' \in Nat /\ got' \subseteq Nat /\ Bounded(d, got)'
    <2>1. CASE Hands
      <3>1. PICK op \in {"read", "writeTo"}, err \in {"none", "sink"}, n \in Nat : Gives(op, n, err)
        BY <2>1 DEF Hands
      <3>2. op \in Ops /\ err \in Errs /\ n <= Len(d.pending) /\ Deliver(op, n, err)
        BY <3>1 DEF Ops, Errs, Gives
      <3>3. /\ Sound(d') /\ Changed(d', d, {"pending"}) /\ (Live(d') <=> Live(d))
            /\ RetTypes(ret') /\ expect' \in Nat /\ got' \subseteq Nat /\ Handed(n) /\ Bounded(d, got)'
        BY <3>2, DeliverFacts
      <3>4. d'.rate = d.rate /\ d'.done = d.done  BY <3>3, ChangedFields
      <3>5. Live(d) /\ d.rate /\ ~d.done  BY <1>2, <2>1 DEF Hands, Live
      <3>6. CASE call' = IdleCall
        <4>1. CallTypes(call') /\ call'.at = "idle"  BY <3>6, IdleFacts
        <4>2. Phases'  BY <3>4, <3>5, <4>1, PhasesIdle
        <4> QED  BY <3>3, <4>1, <4>2
      <3>7. CASE call' = Decoding("writeTo") /\ n = Len(d.pending)
        <4>1. d'.pending = <<>>
          <5>1. d'.pending \in Seq(Sample)  BY <3>3 DEF Sound, DTypes
          <5>2. Len(d'.pending) = 0  BY <3>3, <3>7 DEF Handed
          <5> QED  BY <5>1, <5>2, EmptyLen
        <4>2. /\ CallTypes(call') /\ call'.op = "writeTo" /\ call'.at = "decode"
              /\ call'.err = "none" /\ call'.window = SmallWindow
          BY <3>5, <3>7, DecodingFacts DEF DecodeWindow
        <4>3. Phases'  BY <3>3, <3>4, <3>5, <4>1, <4>2 DEF Phases, Live
        <4> QED  BY <3>3, <4>2, <4>3
      <3> QED  BY <3>1, <3>6, <3>7 DEF Gives
    <2>2. CASE /\ UNCHANGED <<d, expect, got>> /\ call' = IdleCall
               /\ call.err # "none" /\ RetTypes(ret')
      <3>1. CallTypes(call') /\ call'.at = "idle"  BY <2>2, IdleFacts
      <3>2. Phases'  BY <1>2, <2>2, <3>1, PhasesIdle
      <3> QED  BY <1>2, <2>2, <3>1, <3>2, SamePending
    <2> QED  BY <2>1, <2>2, HandsOutOrNot
  <1>5. RetTypes(ret)' /\ CallTypes(call)'  BY <1>4 DEF RetTypes, CallTypes
  <1> QED  BY <1>1, <1>2, <1>3, <1>4, <1>5, SoundNext DEF BInv

-----------------------------------------------------------------------------
(***************************************************************************)
(* The walk of a seek, and its cache.                                      *)
(***************************************************************************)
LEMMA DivFacts ==
    ASSUME NEW a \in Nat, NEW b \in Nat \ {0}
    PROVE  a \div b \in Nat /\ a % b \in Nat /\ a % b < b /\ (a \div b) * b + (a % b) = a
  OBVIOUS

\* Multiples of the frame's length.
LEMMA Times ==
    ASSUME NEW i \in Nat, NEW k \in Nat, i <= k
    PROVE  /\ i * FrameLen \in Nat /\ k * FrameLen \in Nat /\ (k - i) * FrameLen \in Nat
           /\ i * FrameLen <= k * FrameLen /\ i * FrameLen + (k - i) * FrameLen = k * FrameLen
           /\ i < k => i * FrameLen + FrameLen <= k * FrameLen
  <1>1. FrameLen \in Nat  BY ConstTypes
  <1>2. PICK j \in Nat : j = k - i  OBVIOUS
  <1>3. i * FrameLen \in Nat /\ j * FrameLen \in Nat /\ k * FrameLen \in Nat  BY <1>1
  <1>4. k = i + j  BY <1>2
  <1>5. i * FrameLen + j * FrameLen = k * FrameLen  BY <1>1, <1>4
  <1>6. i < k => j * FrameLen >= FrameLen
    <2>1. SUFFICES ASSUME i < k PROVE j * FrameLen >= FrameLen  OBVIOUS
    <2>2. PICK l \in Nat : j = l + 1  BY <1>4, <2>1
    <2>3. j * FrameLen = l * FrameLen + FrameLen /\ l * FrameLen \in Nat  BY <1>1, <2>2
    <2> QED  BY <1>1, <2>3
  <1> QED  BY <1>1, <1>2, <1>3, <1>5, <1>6

\* The cache a walk begins with, and where it begins.
LEMMA OffsetsFacts ==
    ASSUME file \in DOMAIN Sources, Sound(d)
    PROVE  \E n \in Nat \ {0} :
              /\ n = Len(Offsets) /\ DOMAIN Offsets = 1..n /\ Offsets \in Seq(Nat)
              /\ \A k \in 1..n : /\ Offsets[k] = d.audioStart + (k - 1) * FrameLen
                                 /\ k > 1 => src.cells[Offsets[k - 1] + 1].kind = Sized
  <1>1. d.frameOff \in Seq(Nat) /\ CachedOffsets(d) /\ d.audioStart \in Nat  BY DEF Sound, DTypes
  <1>2. CASE d.frameOff = <<>>
    <2>1. Offsets = <<d.audioStart>>  BY <1>2 DEF Offsets
    <2>2. (1 - 1) * FrameLen = 0 /\ d.audioStart + 0 = d.audioStart  BY <1>1, ConstTypes
    <2>3. /\ Len(Offsets) = 1 /\ DOMAIN Offsets = 1..1 /\ Offsets \in Seq(Nat)
          /\ Offsets[1] = d.audioStart
      BY <1>1, <2>1
    <2>4. \A k \in 1..1 : k = 1  OBVIOUS
    <2> QED  BY <2>2, <2>3, <2>4
  <1>3. CASE d.frameOff # <<>>
    <2>1. Offsets = d.frameOff  BY <1>3 DEF Offsets
    <2>2. PICK n \in Nat : n = Len(Offsets) /\ DOMAIN Offsets = 1..n /\ n # 0
      BY <1>1, <1>3, <2>1, LenNat, EmptyLen
    <2> QED  BY <1>1, <2>1, <2>2 DEF CachedOffsets
  <1> QED  BY <1>2, <1>3

\* A walk, cached or not, finds frame i at i lengths behind the audio's start.
LEMMA OffsetOfFacts ==
    ASSUME file \in DOMAIN Sources, Sound(d), NEW target \in Nat
    PROVE  /\ WalkStart(target) \in 0..target /\ WalkStart(target) < Len(Offsets)
           /\ \A i \in 0..target :
                 /\ OffsetOf(i, target) = d.audioStart + i * FrameLen
                 /\ OffsetOf(i, target) \in Nat
  <1>1. PICK n \in Nat \ {0} :
              /\ n = Len(Offsets) /\ DOMAIN Offsets = 1..n
              /\ \A k \in 1..n : Offsets[k] = d.audioStart + (k - 1) * FrameLen
    BY OffsetsFacts
  <1>2. PICK start \in Nat : start = WalkStart(target) /\ start <= target /\ start < n
    BY <1>1 DEF WalkStart, Least
  <1>3. d.audioStart \in Nat  BY DEF Sound, DTypes
  <1>4. ASSUME NEW i \in 0..target PROVE OffsetOf(i, target) = d.audioStart + i * FrameLen
    <2>1. OffsetOf(i, target) =
             IF i < start THEN Offsets[i + 1] ELSE Offsets[start + 1] + (i - start) * FrameLen
      BY <1>2 DEF OffsetOf
    <2>2. CASE i < start
      <3>1. i + 1 \in 1..n /\ i + 1 - 1 = i  BY <1>2, <2>2
      <3> QED  BY <1>1, <2>1, <2>2, <3>1
    <2>3. CASE ~(i < start)
      <3>1. start + 1 \in 1..n /\ start + 1 - 1 = start /\ start <= i  BY <1>2, <2>3
      <3>2. PICK a \in Nat, b \in Nat, c \in Nat :
               /\ a = start * FrameLen /\ b = (i - start) * FrameLen /\ c = i * FrameLen /\ a + b = c
        <4>1. i \in Nat /\ start \in Nat /\ start <= i  BY <3>1
        <4> QED  BY <4>1, Times
      <3>3. Offsets[start + 1] = d.audioStart + a  BY <1>1, <3>1, <3>2
      <3>4. OffsetOf(i, target) = d.audioStart + a + b  BY <2>1, <2>3, <3>2, <3>3
      <3> QED  BY <1>3, <3>2, <3>4
    <2> QED  BY <2>2, <2>3
  <1>5. \A i \in 0..target : d.audioStart + i * FrameLen \in Nat
    <2>1. \A i \in 0..target : i * FrameLen \in Nat  BY Times
    <2> QED  BY <1>3, <2>1
  <1> QED  BY <1>1, <1>2, <1>4, <1>5

\* Where a walk stops, and what it has passed.
LEMMA StopsAtFacts ==
    ASSUME file \in DOMAIN Sources, Sound(d), NEW target \in Nat
    PROVE  /\ StopsAt(target) \in WalkStart(target)..target /\ StopsAt(target) \in 0..target
           /\ StopsAt(target) = target \/ Absent(StopsAt(target), target)
                                       \/ Unsized(StopsAt(target), target)
           /\ \A i \in WalkStart(target)..StopsAt(target) - 1 :
                 ~Absent(i, target) /\ ~Unsized(i, target)
  <1> DEFINE start == WalkStart(target)
             S == {i \in start..target : i = target \/ Absent(i, target) \/ Unsized(i, target)}
  <1>1. start \in Nat /\ start <= target  BY OffsetOfFacts
  <1> HIDE DEF start
  <1>2. S \in SUBSET Nat /\ target \in S  BY <1>1
  <1>3. \A i \in S : i \in start..target /\ (i = target \/ Absent(i, target) \/ Unsized(i, target))
    OBVIOUS
  <1>4. \A i \in start..target : i \notin S => ~Absent(i, target) /\ ~Unsized(i, target)  OBVIOUS
  <1>5. StopsAt(target) = Min(S)  BY DEF StopsAt, start
  <1> HIDE DEF S
  <1>6. PICK m : m = Min(S)  OBVIOUS
  <1>7. m \in S /\ \A y \in S : m <= y  BY <1>2, <1>6, MinIs
  <1>8. m \in start..target  BY <1>3, <1>7
  <1>9. ASSUME NEW i \in start..m - 1 PROVE ~Absent(i, target) /\ ~Unsized(i, target)
    <2>1. i \in start..target /\ ~(m <= i)  BY <1>1, <1>8
    <2> QED  BY <1>4, <1>7, <2>1
  <1>10. m \in 0..target  BY <1>1, <1>8
  <1> QED  BY <1>3, <1>5, <1>6, <1>7, <1>8, <1>9, <1>10 DEF start

\* Sound but for where the source stands.
Parked(f) ==
    /\ DTypes(f) /\ Sizes(f) /\ CachedOffsets(f)
    /\ f.rate /\ f.seen /\ f.tagChecked /\ f.firstBytes = FrameLen

\* A sound decoder may be parked where it is.
LEMMA SoundParked == ASSUME NEW f, Sound(f), f.rate PROVE Parked(f)
  BY DEF Sound, Opened, Parked

\* And one that is parked where its source was left, unnoticed, is sound.
LEMMA ParkedNext == ASSUME file' = file, adrift', Parked(d') PROVE Sound(d)'
  BY DEF Parked, Sound, DTypes, Sizes, Live, Opened, CachedOffsets, src

\* A walk changes the cache and the place in the source, and no more.
LEMMA WalkedFacts ==
    ASSUME file \in DOMAIN Sources, Sound(d), d.rate, NEW target \in Nat,
           NEW i \in WalkStart(target)..StopsAt(target), NEW f, f = Walked(i, target)
    PROVE  Parked(f) /\ Changed(f, d, {"frameOff", "pos"})
  <1>1. /\ DTypes(d) /\ DOMAIN d = DFields /\ CachedOffsets(d) /\ Sizes(d)
        /\ d.rate /\ d.seen /\ d.tagChecked /\ d.firstBytes = FrameLen
    BY DomainOf DEF Sound, Opened
  <1>2. PICK n \in Nat \ {0} :
              /\ n = Len(Offsets) /\ DOMAIN Offsets = 1..n /\ Offsets \in Seq(Nat)
              /\ \A k \in 1..n : /\ Offsets[k] = d.audioStart + (k - 1) * FrameLen
                                 /\ k > 1 => src.cells[Offsets[k - 1] + 1].kind = Sized
    BY OffsetsFacts
  <1>3. PICK start \in Nat : start = WalkStart(target) /\ start <= target /\ start < n
    BY <1>2, OffsetOfFacts
  <1>4. PICK stop \in Nat :
           /\ stop = StopsAt(target) /\ stop <= target
           /\ \A j \in start..stop - 1 : ~Unsized(j, target)
    BY <1>3, StopsAtFacts
  <1>5. i \in Nat /\ i <= stop /\ start <= i  BY <1>3, <1>4
  <1>6. \A j \in 0..target : OffsetOf(j, target) = d.audioStart + j * FrameLen
                             /\ OffsetOf(j, target) \in Nat
    BY OffsetOfFacts
  <1> DEFINE walk == [k \in 1..i + 1 |-> OffsetOf(k - 1, target)]
             offs == IF Len(Offsets) > i THEN Offsets ELSE walk
             pos == Least(OffsetOf(i, target) + 1, Len(src.cells))
  <1>7. f = [d EXCEPT !.frameOff = offs, !.pos = pos]  BY DEF Walked
  <1>8. \A k \in 1..i + 1 : k - 1 \in 0..target /\ walk[k] = OffsetOf(k - 1, target)
    BY <1>4, <1>5
  <1>9. walk \in Seq(Nat) /\ DOMAIN walk = 1..i + 1
    <2>1. i + 1 \in Nat  BY <1>5
    <2>2. walk \in [1..i + 1 -> Nat]  BY <1>6, <1>8
    <2> HIDE DEF walk
    <2> QED  BY <2>1, <2>2, SeqDef
  <1> HIDE DEF walk
  <1>10. offs \in Seq(Nat)  BY <1>2, <1>9
  <1>11. \A k \in DOMAIN offs :
            /\ offs[k] = d.audioStart + (k - 1) * FrameLen
            /\ k > 1 => src.cells[offs[k - 1] + 1].kind = Sized
    <2>1. CASE Len(Offsets) > i  BY <1>2, <2>1
    <2>2. CASE ~(Len(Offsets) > i)
      <3>1. offs = walk  BY <2>2
      <3>2. ASSUME NEW k \in 1..i + 1
            PROVE  /\ walk[k] = d.audioStart + (k - 1) * FrameLen
                   /\ k > 1 => src.cells[walk[k - 1] + 1].kind = Sized
        <4>1. walk[k] = d.audioStart + (k - 1) * FrameLen  BY <1>6, <1>8
        <4>2. ASSUME k > 1 PROVE src.cells[walk[k - 1] + 1].kind = Sized
          <5>1. PICK j \in Nat : j = k - 2  BY <4>2
          <5>2. k - 1 \in 1..i + 1 /\ k - 1 - 1 = j /\ j <= i - 1 /\ j \in 0..target
            BY <1>4, <1>5, <4>2, <5>1
          <5>3. walk[k - 1] = OffsetOf(j, target)  BY <1>8, <5>2
          <5>4. CASE j < start
            <6>1. j + 2 \in 1..n /\ j + 2 > 1 /\ j + 2 - 1 = j + 1 /\ j + 1 \in 1..n /\ j + 1 - 1 = j
              BY <1>3, <5>4
            <6>2. src.cells[Offsets[j + 1] + 1].kind = Sized  BY <1>2, <6>1
            <6>3. Offsets[j + 1] = d.audioStart + j * FrameLen  BY <1>2, <6>1
            <6> QED  BY <1>6, <5>2, <5>3, <6>2, <6>3
          <5>5. CASE ~(j < start)
            <6>1. j \in start..stop - 1  BY <1>3, <1>4, <1>5, <5>2, <5>5
            <6> QED  BY <1>4, <5>3, <6>1 DEF Unsized
          <5> QED  BY <5>4, <5>5
        <4> QED  BY <4>1, <4>2
      <3> QED  BY <1>9, <3>1, <3>2
    <2> QED  BY <2>1, <2>2
  <1>12. pos \in Nat /\ pos <= Len(src.cells)
    <2>1. OffsetOf(i, target) \in Nat /\ Len(src.cells) \in Nat  BY <1>4, <1>5, <1>6, SrcTypes
    <2> QED  BY <2>1 DEF Least
  <1> HIDE DEF offs, pos
  <1>13. /\ DOMAIN f = DFields /\ f.frameOff = offs /\ f.pos = pos
         /\ \A x \in DFields \ {"frameOff", "pos"} : f[x] = d[x]
    BY <1>1, <1>7, Zenon DEF DFields
  <1>14. Changed(f, d, {"frameOff", "pos"})  BY <1>13 DEF Changed
  <1>15. /\ f.br = d.br /\ f.buf = d.buf /\ f.readErr = d.readErr
         /\ f.tagChecked = d.tagChecked /\ f.frames = d.frames /\ f.pending = d.pending
         /\ f.start = d.start /\ f.end = d.end /\ f.produced = d.produced
         /\ f.audioStart = d.audioStart /\ f.firstBytes = d.firstBytes
         /\ f.seen = d.seen /\ f.err = d.err /\ f.done = d.done
         /\ f.rate = d.rate /\ f.total = d.total
    BY <1>13, Zenon DEF DFields
  <1>16. DTypes(f)  BY <1>1, <1>10, <1>12, <1>13, <1>15 DEF DTypes
  <1>17. Sizes(f)  BY <1>1, <1>12, <1>13, <1>15 DEF Sizes
  <1>18. CachedOffsets(f)  BY <1>11, <1>13, <1>15 DEF CachedOffsets
  <1> QED  BY <1>1, <1>14, <1>15, <1>16, <1>17, <1>18 DEF Parked

\* Landing at the end, and failing.
LEMMA EndsAt ==
    ASSUME NEW f, Parked(f), NEW g, g = [f EXCEPT !.done = TRUE, !.pending = <<>>, !.err = "none"]
    PROVE  Sound(g) /\ ~Live(g) /\ g.pending = <<>> /\ g.done /\ Changed(g, f, {"done", "pending", "err"})
  <1>1. DTypes(f) /\ DOMAIN f = DFields  BY DomainOf DEF Parked
  <1>2. /\ DOMAIN g = DFields /\ g.done = TRUE /\ g.pending = <<>> /\ g.err = "none"
        /\ \A x \in DFields \ {"done", "pending", "err"} : g[x] = f[x]
    BY <1>1, Zenon DEF DFields
  <1>3. Changed(g, f, {"done", "pending", "err"})  BY <1>2 DEF Changed
  <1>4. /\ g.pos = f.pos /\ g.br = f.br /\ g.buf = f.buf /\ g.readErr = f.readErr
        /\ g.tagChecked = f.tagChecked /\ g.frames = f.frames
        /\ g.start = f.start /\ g.end = f.end /\ g.produced = f.produced
        /\ g.audioStart = f.audioStart /\ g.firstBytes = f.firstBytes
        /\ g.seen = f.seen /\ g.frameOff = f.frameOff /\ g.rate = f.rate /\ g.total = f.total
    BY <1>2, Zenon DEF DFields
  <1>5. g.pending \in Seq(Sample) /\ Len(g.pending) = 0  BY <1>2
  <1>6. g.err \in Errs /\ g.done \in BOOLEAN /\ ~Live(g)  BY <1>2 DEF Errs, Live
  <1>7. DTypes(g)  BY <1>1, <1>2, <1>4, <1>5, <1>6 DEF DTypes
  <1>8. Sizes(g)  BY <1>4, <1>5, ConstTypes DEF Parked, Sizes
  <1>9. Opened(g) /\ CachedOffsets(g)  BY <1>4, <1>6 DEF Parked, Opened, CachedOffsets
  <1>10. g.rate  BY <1>4 DEF Parked
  <1> QED  BY <1>2, <1>3, <1>6, <1>7, <1>8, <1>9, <1>10 DEF Sound

\* A seek that fails leaves a sound decoder.
LEMMA FailsAt ==
    ASSUME NEW f, Parked(f), NEW e \in Errs \ {"none"}, NEW g, g = [f EXCEPT !.err = e, !.pending = <<>>]
    PROVE  Sound(g) /\ ~Live(g) /\ g.pending = <<>> /\ Changed(g, f, {"pending", "err"})
  <1>1. DTypes(f) /\ DOMAIN f = DFields  BY DomainOf DEF Parked
  <1>2. /\ DOMAIN g = DFields /\ g.pending = <<>> /\ g.err = e
        /\ \A x \in DFields \ {"pending", "err"} : g[x] = f[x]
    BY <1>1, Zenon DEF DFields
  <1>3. Changed(g, f, {"pending", "err"})  BY <1>2 DEF Changed
  <1>4. /\ g.pos = f.pos /\ g.br = f.br /\ g.buf = f.buf /\ g.readErr = f.readErr
        /\ g.tagChecked = f.tagChecked /\ g.frames = f.frames /\ g.done = f.done
        /\ g.start = f.start /\ g.end = f.end /\ g.produced = f.produced
        /\ g.audioStart = f.audioStart /\ g.firstBytes = f.firstBytes
        /\ g.seen = f.seen /\ g.frameOff = f.frameOff /\ g.rate = f.rate /\ g.total = f.total
    BY <1>2, Zenon DEF DFields
  <1>5. g.pending \in Seq(Sample) /\ Len(g.pending) = 0  BY <1>2
  <1>6. g.err \in Errs /\ ~Live(g)  BY <1>2 DEF Live
  <1>7. DTypes(g)  BY <1>1, <1>2, <1>4, <1>5, <1>6 DEF DTypes
  <1>8. Sizes(g)  BY <1>4, <1>5, ConstTypes DEF Parked, Sizes
  <1>9. Opened(g) /\ CachedOffsets(g)  BY <1>4, <1>6 DEF Parked, Opened, CachedOffsets
  <1>10. g.rate  BY <1>4 DEF Parked
  <1> QED  BY <1>2, <1>3, <1>6, <1>7, <1>8, <1>9, <1>10 DEF Sound

\* A walk that changed nothing but the cache.
LEMMA CachedFacts ==
    ASSUME NEW f, Parked(f), Changed(f, d, {"frameOff", "pos"}), Sound(d), d.rate,
           NEW g, g = [f EXCEPT !.pos = d.pos]
    PROVE  Sound(g) /\ Changed(g, d, {"frameOff"})
  <1>1. DTypes(f) /\ DOMAIN f = DFields  BY DomainOf DEF Parked
  <1>2. DOMAIN g = DFields /\ g.pos = d.pos /\ \A x \in DFields \ {"pos"} : g[x] = f[x]
    BY <1>1, Zenon DEF DFields
  <1>3. Changed(g, d, {"frameOff"})  BY <1>2, Zenon DEF Changed, DFields
  <1>4. /\ g.pos = d.pos /\ g.br = d.br /\ g.buf = d.buf /\ g.readErr = d.readErr
        /\ g.tagChecked = d.tagChecked /\ g.frames = d.frames /\ g.pending = d.pending
        /\ g.start = d.start /\ g.end = d.end /\ g.produced = d.produced
        /\ g.audioStart = d.audioStart /\ g.firstBytes = d.firstBytes
        /\ g.seen = d.seen /\ g.err = d.err /\ g.done = d.done
        /\ g.rate = d.rate /\ g.total = d.total
    BY <1>3, Zenon DEF Changed, DFields
  <1>5. g.frameOff = f.frameOff  BY <1>2, Zenon DEF DFields
  <1>6. f.frameOff \in Seq(Nat) /\ f.audioStart = d.audioStart
    <2>1. f.audioStart = d.audioStart  BY ChangedFields
    <2>2. f.frameOff \in Seq(Nat)  BY <1>1 DEF DTypes
    <2> QED  BY <2>1, <2>2
  <1>7. DTypes(d)  BY DEF Sound
  <1>8. DTypes(g)  BY <1>2, <1>4, <1>5, <1>6, <1>7 DEF DTypes
  <1>9. Opened(g)  BY <1>4 DEF Sound, Opened
  <1>10. CachedOffsets(g)  BY <1>4, <1>5, <1>6 DEF Parked, CachedOffsets
  <1>11. Changed(g, d, DFields \ Buffers)
    <2>1. {"frameOff"} \subseteq DFields \ Buffers  BY DEF DFields, Buffers
    <2> QED  BY <1>3, <2>1, ChangedLess
  <1>12. /\ Len(g.pending) <= FrameSize /\ g.audioStart <= Len(src.cells)
         /\ (Live(g) => Live(d)) /\ (d.rate => g.rate)
    BY <1>4 DEF Sound, Sizes, Live
  <1> QED  BY <1>3, <1>8, <1>9, <1>10, <1>11, <1>12, SoundChanged

\* The source put where the lead-in begins.
LEMMA ReseekFacts ==
    ASSUME file \in DOMAIN Sources, NEW f, Parked(f), NEW pos \in Nat, pos <= Len(src.cells),
           NEW g, g = Reseek(f, pos)
    PROVE  /\ Steady(g) /\ Live(g) /\ g.pending = <<>> /\ Here(g) = pos /\ g.buf = <<>>
           /\ Changed(g, f, {"pos", "br", "buf", "pending", "readErr", "done", "err"})
  <1> DEFINE S == {"pos", "br", "buf", "pending", "readErr", "done", "err"}
  <1>1. DTypes(f) /\ DOMAIN f = DFields  BY DomainOf DEF Parked
  <1>2. /\ DOMAIN g = DFields /\ g.pos = pos /\ g.br = <<>> /\ g.buf = <<>> /\ g.pending = <<>>
        /\ g.readErr = "none" /\ g.done = FALSE /\ g.err = "none"
        /\ \A x \in DFields \ S : g[x] = f[x]
    BY <1>1, Zenon DEF DFields, Reseek
  <1>3. Changed(g, f, S)  BY <1>2 DEF Changed
  <1>4. /\ g.tagChecked = f.tagChecked /\ g.frames = f.frames
        /\ g.start = f.start /\ g.end = f.end /\ g.produced = f.produced
        /\ g.audioStart = f.audioStart /\ g.firstBytes = f.firstBytes
        /\ g.seen = f.seen /\ g.frameOff = f.frameOff /\ g.rate = f.rate /\ g.total = f.total
    BY <1>2, Zenon DEF DFields
  <1>5. /\ g.pending \in Seq(Sample) /\ g.br \in Seq(CellType) /\ g.buf \in Seq(CellType)
        /\ Len(g.pending) = 0 /\ Len(g.br) = 0 /\ Len(g.buf) = 0
    BY <1>2
  <1>6. /\ g.err \in Errs /\ g.readErr \in {"none", "eof", "io"} /\ g.done \in BOOLEAN /\ g.pos \in Nat
        /\ Live(g)
    BY <1>2 DEF Errs, Live
  <1>7. DTypes(g)
    <2>1. /\ g.tagChecked \in BOOLEAN /\ g.seen \in BOOLEAN /\ g.rate \in BOOLEAN /\ g.frameOff \in Seq(Nat)
          /\ g.frames \in Nat /\ g.start \in Nat /\ g.end \in Nat /\ g.produced \in Nat
          /\ g.audioStart \in Nat /\ g.firstBytes \in Nat /\ g.total \in Nat
      BY <1>1, <1>4 DEF DTypes
    <2>2. DOMAIN g = DFields  BY <1>2
    <2> QED  BY <1>5, <1>6, <2>1, <2>2 DEF DTypes
  <1>8. Sizes(g)
    <2>1. g.audioStart <= Len(src.cells)  BY <1>4 DEF Parked, Sizes
    <2>2. 0 <= ResyncWindow /\ 0 <= BufSize /\ 0 <= FrameSize  BY ConstTypes
    <2> QED  BY <1>2, <1>5, <2>1, <2>2 DEF Sizes
  <1>9. Opened(g) /\ CachedOffsets(g)  BY <1>4 DEF Parked, Opened, CachedOffsets
  <1>10. Here(g) = pos  BY <1>2, <1>5 DEF Here
  <1>11. Stocked(g)
    <2>1. \A i \in 1..0 : FALSE  OBVIOUS
    <2> QED  BY <1>2, <1>5, <1>6, <2>1 DEF Stocked
  <1> QED  BY <1>2, <1>3, <1>6, <1>7, <1>8, <1>9, <1>10, <1>11 DEF Steady

\* There is a last frame.
LEMMA FramesFacts ==
    ASSUME file \in DOMAIN Sources
    PROVE  Frames \subseteq Nat /\ \E b \in Nat : \A g \in Frames : g <= b
  <1> DEFINE ids(n) == {b \in Nat : \A k \in 1..n : src.cells[k].id <= b}
             open == {n \in 0..Len(src.cells) : ids(n) = {}}
  <1>1. Len(src.cells) \in Nat /\ DOMAIN src.cells = 1..Len(src.cells)  BY SrcTypes, LenNat
  <1>2. \A k \in DOMAIN src.cells : src.cells[k].id \in Nat
    <2>1. \A k \in DOMAIN src.cells : src.cells[k] \in CellType  BY <1>1, SrcTypes, ElementOfSeq
    <2> QED  BY <2>1, CellFacts
  <1>3. open = {}
    <2>1. SUFFICES ASSUME open # {} PROVE FALSE  OBVIOUS
    <2>2. open \in SUBSET Nat  OBVIOUS
    <2>3. PICK m \in open : \A n \in open : m <= n
      <3> HIDE DEF open
      <3> QED  BY <2>1, <2>2, Smallest
    <2>4. m \in 0..Len(src.cells) /\ ids(m) = {}  OBVIOUS
    <2>5. m # 0
      <3>1. 0 \in ids(0)  OBVIOUS
      <3> HIDE DEF ids
      <3> QED  BY <2>4, <3>1
    <2>6. PICK n \in Nat : n + 1 = m /\ n \in 0..Len(src.cells) /\ ~(m <= n)
      <3>1. m - 1 \in Nat /\ m - 1 + 1 = m /\ m - 1 \in 0..Len(src.cells) /\ ~(m <= m - 1)
        BY <1>1, <2>4, <2>5
      <3> QED  BY <3>1
    <2>7. ids(n) # {}  BY <2>3, <2>6
    <2>8. PICK b \in Nat : \A k \in 1..n : src.cells[k].id <= b  BY <2>7
    <2>9. m \in DOMAIN src.cells  BY <1>1, <2>4, <2>5
    <2>10. PICK c \in Nat : c = src.cells[m].id  BY <1>2, <2>9
    <2>11. b + c \in Nat /\ \A k \in 1..m : src.cells[k].id <= b + c
      <3>1. ASSUME NEW k \in 1..m PROVE src.cells[k].id <= b + c
        <4>1. CASE k = m  BY <2>10, <4>1
        <4>2. CASE k # m
          <5>1. k \in 1..n /\ k \in DOMAIN src.cells  BY <1>1, <2>4, <2>6, <4>2
          <5>2. src.cells[k].id <= b /\ src.cells[k].id \in Nat  BY <1>2, <2>8, <5>1
          <5> QED  BY <5>2
        <4> QED  BY <4>1, <4>2
      <3> QED  BY <3>1
    <2>12. b + c \in ids(m)  BY <2>11
    <2> HIDE DEF ids
    <2> QED  BY <2>4, <2>12
  <1>4. PICK n \in Nat : n = Len(src.cells) /\ n \in 0..Len(src.cells)  BY <1>1
  <1>5. ids(n) # {}  BY <1>3, <1>4
  <1>6. PICK b \in Nat : \A k \in 1..n : src.cells[k].id <= b  BY <1>5
  <1>7. \A g \in Frames : \E k \in 1..n : g = src.cells[k].id  BY <1>1, <1>4 DEF Frames
  <1> QED  BY <1>1, <1>2, <1>4, <1>6, <1>7

\* The frames a seek passes are numbers, and bounded.
LEMMA PassedFacts ==
    ASSUME file \in DOMAIN Sources, NEW target \in Nat
    PROVE  Passed(target) \subseteq Nat /\ \E b \in Nat : \A g \in Passed(target) : g <= b
  <1>1. PICK b \in Nat : \A g \in Frames : g <= b  BY FramesFacts
  <1>2. CASE src.whole
    <2>1. Passed(target) = 1..target  BY <1>2 DEF Passed
    <2> QED  BY <2>1
  <1>3. CASE ~src.whole
    <2>1. Passed(target) = Frames \cup {0}  BY <1>3 DEF Passed
    <2>2. \A g \in Passed(target) : g <= b  BY <1>1, <2>1
    <2> QED  BY <2>1, <2>2, FramesFacts
  <1> QED  BY <1>2, <1>3

-----------------------------------------------------------------------------
\* A bound on the frames delivered is enough when none is pending.
LEMMA EmptyBounded ==
    ASSUME NEW b \in Nat, \A g \in got' : g <= b, d'.pending = <<>>
    PROVE  Bounded(d, got)'
  <1>1. DOMAIN d'.pending = {}  OBVIOUS
  <1> QED  BY <1>1 DEF Bounded

\* A seek to the end preserves BInv.
LEMMA SeekToEndB ==
    ASSUME BInv, NEW f, Parked(f), NEW s \in Nat, NEW total \in Nat, SeekToEnd(f, s, total),
           UNCHANGED file, faults' \in Nat
    PROVE  BInv'
  <1>1. /\ d' = [f EXCEPT !.done = TRUE, !.pending = <<>>, !.err = "none"]
        /\ call' = IdleCall /\ ret' = SeekRet(s, "none", total)
        /\ expect' = total /\ got' = Frames /\ dec' = dec /\ file' = file /\ adrift' = adrift
    BY DEF SeekToEnd, Return
  <1>2. file \in DOMAIN Sources /\ DecTypes(dec)  BY DEF BInv
  <1>3. Sound(d') /\ ~Live(d') /\ d'.pending = <<>>  BY <1>1, EndsAt
  <1>4. CallTypes(call') /\ call'.at = "idle"  BY <1>1, IdleFacts
  <1>5. Phases'  BY <1>3, <1>4, PhasesIdle
  <1>6. RetTypes(ret')  BY <1>1, SeekRetFacts DEF Errs
  <1>7. got' \subseteq Nat /\ Bounded(d, got)'  BY <1>1, <1>2, <1>3, FramesFacts, EmptyBounded
  <1> QED
    BY <1>1, <1>2, <1>3, <1>4, <1>5, <1>6, <1>7, SoundNext DEF BInv, DecTypes, CallTypes, RetTypes

\* So does one that fails.
LEMMA SeekFailedB ==
    ASSUME BInv, NEW f, Parked(f), NEW s \in Nat, NEW e \in Errs \ {"none"}, SeekFailed(f, s, e),
           UNCHANGED file, faults' \in Nat, DecTypes(dec')
    PROVE  BInv'
  <1>1. /\ d' = [f EXCEPT !.err = e, !.pending = <<>>]
        /\ call' = IdleCall /\ ret' = SeekRet(s, e, 0)
        /\ expect' = expect /\ got' = got /\ file' = file /\ adrift' = adrift
    BY DEF SeekFailed, Return
  <1>2. file \in DOMAIN Sources /\ expect \in Nat /\ got \subseteq Nat  BY DEF BInv
  <1>3. Sound(d') /\ ~Live(d') /\ d'.pending = <<>>  BY <1>1, FailsAt
  <1>4. CallTypes(call') /\ call'.at = "idle"  BY <1>1, IdleFacts
  <1>5. Phases'  BY <1>3, <1>4, PhasesIdle
  <1>6. RetTypes(ret')  BY <1>1, SeekRetFacts
  <1>7. Bounded(d, got)'  BY <1>1, <1>3, NonePending
  <1> QED
    BY <1>1, <1>2, <1>3, <1>4, <1>5, <1>6, <1>7, SoundNext DEF BInv, DecTypes, CallTypes, RetTypes

\* Where a seek's lead-in begins.
LEMMA PrimeFromFacts ==
    ASSUME NEW target \in Nat PROVE PrimeFrom(target) \in Nat /\ PrimeFrom(target) <= target
  BY ConstTypes DEF PrimeFrom, Most

\* The reset state of the frame decoder has its types.
LEMMA ColdTypes == DecTypes(Cold)
  BY DEF DecTypes, Cold

\* The call in the lead-in.
PrimeCall(s, prime, target, intra) ==
    [IdleCall EXCEPT !.at = "prime", !.op = "seek", !.asked = s,
                     !.frame = prime, !.target = target, !.intra = intra]

\* The call that decodes a lead-in, by its fields.
LEMMA PrimeCallFacts ==
    ASSUME NEW s \in Nat, NEW prime \in Nat, NEW target \in Nat, NEW intra \in Nat,
           NEW c, c = PrimeCall(s, prime, target, intra)
    PROVE  /\ CallTypes(c) /\ c.at = "prime" /\ c.op = "seek" /\ c.asked = s /\ c.frame = prime
           /\ c.target = target /\ c.intra = intra
  BY DEF PrimeCall, CallTypes, IdleCall, CallFields, Errs

\* A seek that walks preserves BInv.
LEMMA SeekWalkB ==
    ASSUME BInv, NEW s \in Nat, call.at = "idle", d.rate, SeekWalk(s), UNCHANGED file
    PROVE  BInv'
  <1>1. /\ file \in DOMAIN Sources /\ Sound(d) /\ DecTypes(dec) /\ CallTypes(call) /\ RetTypes(ret)
        /\ expect \in Nat /\ got \subseteq Nat /\ faults \in Nat /\ d.seen
        /\ d.start \in Nat /\ (d.pending # <<>> => ~d.done) /\ (Live(d) => d.rate)
    BY DEF BInv, Phases, Sound, Opened, DTypes
  <1>2. PICK raw \in Nat : raw = Raw(s)  BY <1>1 DEF Raw
  <1>3. PICK target \in Nat, intra \in Nat :
           /\ target = raw \div FrameSize /\ intra = raw % FrameSize /\ intra < FrameSize
           /\ target * FrameSize + intra = raw
    BY DivFacts, ConstTypes
  <1>4. PICK prime \in Nat : prime = PrimeFrom(target) /\ prime <= target  BY PrimeFromFacts
  <1>5. PICK stop \in Nat : /\ stop = StopsAt(target) /\ stop <= target
                            /\ stop \in WalkStart(target)..StopsAt(target)
                            /\ WalkStart(target) \in Nat
    <2>1. StopsAt(target) \in WalkStart(target)..target /\ StopsAt(target) \in 0..target
      BY <1>1, StopsAtFacts
    <2>2. WalkStart(target) \in 0..target  BY <1>1, OffsetOfFacts
    <2> QED  BY <2>1, <2>2
  <1>6. \A i \in WalkStart(target)..stop :
           Parked(Walked(i, target)) /\ Changed(Walked(i, target), d, {"frameOff", "pos"})
    BY <1>1, <1>5, WalkedFacts
  <1> DEFINE f == Walked(stop, target)
  <1>7. Parked(f) /\ Changed(f, d, {"frameOff", "pos"})  BY <1>5, <1>6
  <1> HIDE DEF f
  <1>8. \/ /\ faults' = faults + 1 /\ UNCHANGED dec
           /\ \E i \in WalkStart(target)..stop : SeekFailed(Walked(i, target), s, "io")
        \/ /\ \/ d' = [f EXCEPT !.pos = d.pos] /\ UNCHANGED <<adrift, faults>>
              \/ d' = f /\ adrift' = TRUE /\ faults' = faults + 1
           /\ Return(SeekRet(s, "unsupported", 0))
           /\ UNCHANGED <<dec, expect, got>>
        \/ /\ faults' = faults
           /\ SeekToEnd(f, s, Most(stop * FrameSize - d.start, 0))
        \/ /\ faults' = faults /\ stop = target /\ ~Absent(stop, target)
           /\ d' = Reseek(f, OffsetOf(prime, target)) /\ dec' = Cold /\ adrift' = FALSE
           /\ call' = PrimeCall(s, prime, target, intra)
           /\ UNCHANGED <<ret, expect, got>>
    <2>1. ~(stop < target) => stop = target  BY <1>5
    <2> QED  BY <1>2, <1>3, <1>4, <1>5, <2>1 DEF SeekWalk, SeekUnsupported, PrimeCall, f
  <1>9. CASE /\ faults' = faults + 1 /\ UNCHANGED dec
             /\ \E i \in WalkStart(target)..stop : SeekFailed(Walked(i, target), s, "io")
    <2>1. PICK i \in WalkStart(target)..stop : SeekFailed(Walked(i, target), s, "io")  BY <1>9
    <2>2. DecTypes(dec') /\ faults' \in Nat /\ "io" \in Errs \ {"none"}  BY <1>1, <1>9 DEF Errs
    <2> QED  BY <1>6, <2>1, <2>2, SeekFailedB
  <1>10. CASE /\ \/ d' = [f EXCEPT !.pos = d.pos] /\ UNCHANGED <<adrift, faults>>
                 \/ d' = f /\ adrift' = TRUE /\ faults' = faults + 1
              /\ Return(SeekRet(s, "unsupported", 0)) /\ UNCHANGED <<dec, expect, got>>
    <2>1. /\ Sound(d)' /\ Changed(d', d, {"frameOff", "pos"}) /\ faults' \in Nat
      <3>1. CASE d' = [f EXCEPT !.pos = d.pos] /\ UNCHANGED <<adrift, faults>>
        <4>1. Sound(d') /\ Changed(d', d, {"frameOff"})  BY <1>1, <1>7, <3>1, CachedFacts
        <4> QED  BY <1>1, <3>1, <4>1, SoundNext, ChangedLess
      <3>2. CASE d' = f /\ adrift' = TRUE /\ faults' = faults + 1
        BY <1>1, <1>7, <3>2, ParkedNext
      <3> QED  BY <1>10, <3>1, <3>2
    <2>2. d'.pending = d.pending /\ d'.rate = d.rate /\ d'.done = d.done /\ d'.err = d.err
      BY <2>1, Zenon DEF Changed, DFields
    <2>3. call' = IdleCall /\ ret' = SeekRet(s, "unsupported", 0)  BY <1>10 DEF Return
    <2>4. CallTypes(call') /\ call'.at = "idle"  BY <2>3, IdleFacts
    <2>5. RetTypes(ret')  BY <2>3, SeekRetFacts DEF Errs
    <2>6. Phases'  BY <1>1, <2>2, <2>4, PhasesIdle
    <2>7. Bounded(d, got)'  BY <1>10, <2>2, SamePending
    <2> QED
      BY <1>1, <1>10, <2>1, <2>4, <2>5, <2>6, <2>7
         DEF BInv, DecTypes, CallTypes, RetTypes
  <1>11. CASE faults' = faults /\ SeekToEnd(f, s, Most(stop * FrameSize - d.start, 0))
    <2>1. Most(stop * FrameSize - d.start, 0) \in Nat
      <3>1. stop * FrameSize \in Nat  BY ConstTypes
      <3> QED  BY <1>1, <3>1 DEF Most
    <2> QED  BY <1>1, <1>7, <1>11, <2>1, SeekToEndB
  <1>12. CASE /\ faults' = faults /\ stop = target /\ ~Absent(stop, target)
              /\ d' = Reseek(f, OffsetOf(prime, target)) /\ dec' = Cold /\ adrift' = FALSE
              /\ call' = PrimeCall(s, prime, target, intra)
              /\ UNCHANGED <<ret, expect, got>>
    <2>1. OffsetOf(prime, target) \in Nat /\ OffsetOf(prime, target) <= Len(src.cells)
      <3>1. prime \in 0..target /\ target \in 0..target  BY <1>4
      <3>2. PICK p \in Nat, t \in Nat : p = prime * FrameLen /\ t = target * FrameLen /\ p <= t
        BY <1>4, Times
      <3>3. PICK a \in Nat : a = d.audioStart  BY <1>1 DEF Sound, DTypes
      <3>4. OffsetOf(prime, target) = a + p /\ OffsetOf(target, target) = a + t
        BY <1>1, <3>1, <3>2, <3>3, OffsetOfFacts
      <3>5. PICK n \in Nat : n = Len(src.cells)  BY <1>1, SrcTypes
      <3>6. ~(a + t >= n)  BY <1>12, <3>4, <3>5 DEF Absent
      <3> QED  BY <3>2, <3>4, <3>5, <3>6
    <2>2. /\ Steady(d') /\ Live(d') /\ d'.pending = <<>>
          /\ Changed(d', f, {"pos", "br", "buf", "pending", "readErr", "done", "err"})
      BY <1>1, <1>7, <1>12, <2>1, ReseekFacts
    <2>3. d'.rate = d.rate /\ d'.start = d.start
      BY <1>7, <2>2, Zenon DEF Changed, DFields
    <2>4. /\ CallTypes(call') /\ call'.at = "prime" /\ call'.op = "seek" /\ call'.asked = s
          /\ call'.frame = prime /\ call'.target = target /\ call'.intra = intra
      BY <1>12, PrimeCallFacts
    <2>5. target * FrameSize + intra = s + d.start  BY <1>2, <1>3 DEF Raw
    <2>6. Phases'  BY <1>3, <1>4, <2>2, <2>3, <2>4, <2>5 DEF Phases, Live
    <2>7. Bounded(d, got)'  BY <1>12, <2>2, NonePending
    <2>8. DecTypes(dec')  BY <1>12, ColdTypes
    <2> QED
      BY <1>1, <1>12, <2>2, <2>4, <2>6, <2>7, <2>8, SteadyNext
         DEF BInv, DecTypes, CallTypes, RetTypes
  <1> QED  BY <1>8, <1>9, <1>10, <1>11, <1>12

\* Every seek preserves BInv.
LEMMA SeekB == ASSUME BInv, NEW s \in Targets, Seek(s) PROVE BInv'
  <1>1. file' = file /\ call.at = "idle" /\ d.rate /\ s \in Nat  BY ConstTypes DEF Seek
  <1>2. /\ file \in DOMAIN Sources /\ Sound(d) /\ DecTypes(dec) /\ CallTypes(call) /\ RetTypes(ret)
        /\ expect \in Nat /\ got \subseteq Nat /\ faults \in Nat /\ d.seen
        /\ (d.pending # <<>> => ~d.done) /\ (Live(d) => d.rate) /\ d.total \in Nat
    BY <1>1 DEF BInv, Phases, Sound, Opened, DTypes
  <1>3. CASE ret' = SeekRet(s, "unsupported", 0) /\ UNCHANGED <<d, dec, call, expect, got, adrift, faults>>
    <2>1. RetTypes(ret')  BY <1>1, <1>3, SeekRetFacts DEF Errs
    <2>2. Phases'  BY <1>1, <1>2, <1>3, PhasesIdle
    <2>3. Bounded(d, got)'  BY <1>3, SamePending
    <2> QED
      BY <1>1, <1>2, <1>3, <2>1, <2>2, <2>3, SoundNext DEF BInv, DecTypes, CallTypes, RetTypes
  <1>4. CASE SeekToEnd(d, s, d.total) /\ UNCHANGED faults
    BY <1>1, <1>2, <1>4, SoundParked, SeekToEndB
  <1>5. CASE SeekWalk(s)  BY <1>1, <1>5, SeekWalkB
  <1> QED  BY <1>3, <1>4, <1>5 DEF Seek

Landing(g, f, n, s) ==
    /\ Sound(g) /\ Changed(g, f, {"produced", "pending"}) /\ g.pending = s /\ g.produced = n
    /\ Here(g) = Here(f) /\ (Live(g) <=> Live(f)) /\ g.rate = f.rate /\ g.done = f.done

\* A landed decoder is sound.
LEMMA LandedFacts ==
    ASSUME NEW f, Sound(f), NEW n \in Nat, NEW s \in Seq(Sample), Len(s) <= FrameSize
    PROVE  Landing([f EXCEPT !.produced = n, !.pending = s], f, n, s)
  <1>0. PICK g : g = [f EXCEPT !.produced = n, !.pending = s]  OBVIOUS
  <1>1. DTypes(f) /\ DOMAIN f = DFields  BY DomainOf DEF Sound
  <1>2. /\ DOMAIN g = DFields /\ g.produced = n /\ g.pending = s
        /\ \A x \in DFields \ {"produced", "pending"} : g[x] = f[x]
    BY <1>0, <1>1, Zenon DEF DFields
  <1>3. Changed(g, f, {"produced", "pending"})  BY <1>2 DEF Changed
  <1>4. /\ g.pos = f.pos /\ g.br = f.br /\ g.buf = f.buf /\ g.readErr = f.readErr
        /\ g.tagChecked = f.tagChecked /\ g.frames = f.frames
        /\ g.start = f.start /\ g.end = f.end
        /\ g.audioStart = f.audioStart /\ g.firstBytes = f.firstBytes
        /\ g.seen = f.seen /\ g.frameOff = f.frameOff /\ g.err = f.err /\ g.done = f.done
        /\ g.rate = f.rate /\ g.total = f.total
    BY <1>2, Zenon DEF DFields
  <1>5. DTypes(g)  BY <1>1, <1>2, <1>4 DEF DTypes
  <1>6. Changed(g, f, DFields \ Buffers)
    <2>1. {"produced", "pending"} \subseteq DFields \ Buffers  BY DEF DFields, Buffers
    <2> QED  BY <1>3, <2>1, ChangedLess
  <1>7. (Live(g) <=> Live(f)) /\ Here(g) = Here(f)  BY <1>4 DEF Live, Here
  <1>8. Opened(g)  BY <1>4, <1>7 DEF Sound, Opened
  <1>9. CachedOffsets(g)  BY <1>4 DEF Sound, CachedOffsets
  <1>10. Len(g.pending) <= FrameSize /\ g.audioStart <= Len(src.cells)
    BY <1>2, <1>4 DEF Sound, Sizes
  <1>13. f.rate => g.rate  BY <1>4
  <1>11. Sound(g) /\ Here(g) = Here(f)
    BY <1>3, <1>5, <1>6, <1>7, <1>8, <1>9, <1>10, <1>13, SoundChanged
  <1>12. Landing(g, f, n, s)  BY <1>2, <1>3, <1>4, <1>7, <1>11 DEF Landing
  <1> QED  BY <1>0, <1>12

\* Landing in the frame sought.
LEMMA LandB ==
    ASSUME BInv, call.at = "prime", NEW f, Sound(f), Live(f), f.start = d.start, f.rate, NEW o,
           o.id \in Nat, o.prev \in Nat, Land(f, o, call.asked),
           UNCHANGED file, faults' \in Nat, DecTypes(dec')
    PROVE  BInv'
  <1>1. /\ file \in DOMAIN Sources /\ call.asked \in Nat /\ call.target \in Nat /\ call.intra \in Nat
        /\ call.intra < FrameSize /\ call.target * FrameSize + call.intra = call.asked + d.start
        /\ d.start \in Nat
    BY DEF BInv, Phases, CallTypes, Sound, DTypes
  <1>2. f.end \in Nat  BY DEF Sound, DTypes
  <1>3. FrameSize \in Nat  BY ConstTypes
  <1>4. PICK from \in Nat : from = call.target * FrameSize  BY <1>1, <1>3
  <1>5. PICK landed \in Nat : landed = from + call.intra - f.start /\ landed = call.asked
    <2>1. from + call.intra = call.asked + d.start  BY <1>1, <1>4
    <2>2. PICK i \in Nat, a \in Nat, b \in Nat : i = call.intra /\ a = call.asked /\ b = f.start
      BY <1>1
    <2>3. from + i = a + b  BY <2>1, <2>2
    <2>4. from + i - b = a  BY <2>3
    <2> QED  BY <2>2, <2>4
  <1>6. PICK to \in Int : to = Least(from + FrameSize, f.end) - from /\ to <= FrameSize
    <2>1. Least(from + FrameSize, f.end) \in Nat /\ Least(from + FrameSize, f.end) <= from + FrameSize
      BY <1>2, <1>3, <1>4 DEF Least
    <2> HIDE DEF Least
    <2> QED  BY <1>3, <1>4, <2>1
  <1>0. PICK intra \in Nat : intra = call.intra  BY <1>1
  <1> DEFINE s == Samples(o, intra, to)
  <1>7. /\ d' = [f EXCEPT !.produced = from + FrameSize, !.pending = s]
        /\ call' = IdleCall /\ ret' = SeekRet(call.asked, "none", landed)
        /\ expect' = landed /\ got' = Passed(call.target) /\ adrift' = adrift
    BY <1>0, <1>4, <1>5, <1>6 DEF Land, Return
  <1>8. /\ s \in Seq(Sample) /\ Len(s) = Most(0, to - intra)
        /\ \A k \in DOMAIN s : s[k] = <<o.id, o.prev, intra + k - 1>>
    BY SamplesFacts
  <1> HIDE DEF s
  <1>9. Len(s) <= FrameSize  BY <1>3, <1>6, <1>8 DEF Most
  <1>10. from + FrameSize \in Nat  BY <1>3, <1>4
  <1>11. /\ Sound(d') /\ (Live(d') <=> Live(f)) /\ d'.pending = s /\ d'.rate = f.rate /\ d'.done = f.done
    <2>1. d' = [f EXCEPT !.produced = from + FrameSize, !.pending = s]  BY <1>7
    <2>2. PICK n \in Nat : n = from + FrameSize  BY <1>10
    <2>3. d' = [f EXCEPT !.produced = n, !.pending = s]  BY <2>1, <2>2
    <2>4. s \in Seq(Sample) /\ Len(s) <= FrameSize  BY <1>8, <1>9
    <2>5. Landing([f EXCEPT !.produced = n, !.pending = s], f, n, s)
      BY <2>4, LandedFacts, Zenon
    <2>6. Landing(d', f, n, s)  BY <2>3, <2>5
    <2> QED  BY <2>6 DEF Landing
  <1>12. CallTypes(call') /\ call'.at = "idle"  BY <1>7, IdleFacts
  <1>13. ~d'.done  BY <1>11 DEF Live
  <1>14. Phases'  BY <1>11, <1>12, <1>13, PhasesIdle
  <1>15. RetTypes(ret')
    <2>1. "none" \in Errs  BY DEF Errs
    <2>2. PICK a \in Nat : a = call.asked  BY <1>1
    <2>3. RetTypes(SeekRet(a, "none", landed))  BY <2>1, SeekRetFacts
    <2> QED  BY <1>7, <2>2, <2>3
  <1>16. got' \subseteq Nat /\ Bounded(d, got)'
    <2>1. PICK b \in Nat : \A g \in Passed(call.target) : g <= b  BY <1>1, PassedFacts
    <2>2. PICK c \in Nat : b <= c /\ o.id <= c
      <3>1. b + o.id \in Nat /\ b <= b + o.id /\ o.id <= b + o.id  OBVIOUS
      <3> QED  BY <3>1
    <2>3. Passed(call.target) \subseteq Nat  BY <1>1, PassedFacts
    <2>4. \A g \in got' : g <= c  BY <1>7, <2>1, <2>2, <2>3
    <2>5. ASSUME NEW i \in DOMAIN s PROVE s[i][1] <= c
      <3>1. s[i] = <<o.id, o.prev, intra + i - 1>>  BY <1>8
      <3> QED  BY <2>2, <3>1
    <2> QED  BY <1>7, <1>11, <2>2, <2>3, <2>4, <2>5 DEF Bounded
  <1>17. expect' \in Nat  BY <1>7
  <1> QED
    BY <1>1, <1>7, <1>11, <1>12, <1>14, <1>15, <1>16, <1>17, SoundNext
       DEF BInv, DecTypes, CallTypes, RetTypes

\* A step of the lead-in preserves BInv.
LEMMA PrimeStepB == BInv /\ PrimeStep => BInv'
  <1> SUFFICES ASSUME BInv, PrimeStep PROVE BInv'  OBVIOUS
  <1>1. /\ file' = file /\ call.at = "prime" /\ file \in DOMAIN Sources /\ Sound(d) /\ Live(d) /\ d.rate
        /\ DecTypes(dec) /\ CallTypes(call) /\ RetTypes(ret) /\ d.pending = <<>>
        /\ expect \in Nat /\ got \subseteq Nat /\ faults \in Nat /\ call.asked \in Nat
        /\ call.frame \in Nat /\ call.target \in Nat
    BY DEF PrimeStep, BInv, Phases, CallTypes
  <1>2. SmallWindow \in Nat /\ SmallWindow <= ResyncWindow  BY ConstTypes
  <1>3. PICK f \in Fills(SmallWindow) :
           /\ Count(f)
           /\ IF f.readErr = "io" THEN SeekFailed(f, call.asked, "io") /\ UNCHANGED dec
              ELSE IF f.buf = <<>> THEN SeekFailed(f, call.asked, "eof") /\ UNCHANGED dec
              ELSE LET o == DecodeFrame(f.buf)
                       g == Consume(f, o.bytes)
                   IN  /\ dec' = o.dec
                       /\ IF call.frame < call.target
                            THEN /\ d' = g /\ call' = [call EXCEPT !.frame = @ + 1]
                                 /\ UNCHANGED <<ret, expect, got, adrift>>
                          ELSE IF o.ok THEN Land(g, o, call.asked)
                               ELSE SeekFailed(g, call.asked, "corrupt")
    BY DEF PrimeStep
  <1>4. Sound(f) /\ Live(f) /\ Changed(f, d, Buffers)  BY <1>1, <1>2, FillFacts
  <1>5. f.pending = <<>> /\ f.rate /\ f.start = d.start /\ f.buf \in Seq(CellType)
    <2>1. f.pending = d.pending /\ f.rate = d.rate /\ f.start = d.start
      BY <1>4, ChangedFields DEF Buffers
    <2>2. f.buf \in Seq(CellType)  BY <1>4 DEF Sound, DTypes
    <2> QED  BY <1>1, <2>1, <2>2
  <1>6. f.seen  BY <1>4, <1>5 DEF Sound, Opened
  <1>7. faults' \in Nat  BY <1>1, <1>3 DEF Count
  <1>8. {"io", "eof", "corrupt"} \subseteq Errs \ {"none"}  BY DEF Errs
  <1>9. CASE f.readErr = "io" \/ f.buf = <<>>
    <2>1. PICK e \in {"io", "eof"} : SeekFailed(f, call.asked, e) /\ UNCHANGED dec  BY <1>3, <1>9
    <2>2. DecTypes(dec')  BY <1>1, <2>1
    <2> QED  BY <1>1, <1>4, <1>5, <1>7, <1>8, <2>1, <2>2, SoundParked, SeekFailedB
  <1>10. CASE ~(f.readErr = "io" \/ f.buf = <<>>)
    <2>1. PICK n \in Nat : n = Len(f.buf) /\ n > 0
      <3>1. Len(f.buf) \in Nat /\ Len(f.buf) # 0  BY <1>5, <1>10, LenNat, EmptyLen
      <3> QED  BY <3>1
    <2>2. PICK o : o = DecodeFrame(f.buf)  OBVIOUS
    <2>3. PICK g : g = Consume(f, o.bytes)  OBVIOUS
    <2>4. /\ dec' = o.dec
          /\ IF call.frame < call.target
               THEN /\ d' = g /\ call' = [call EXCEPT !.frame = @ + 1]
                    /\ UNCHANGED <<ret, expect, got, adrift>>
             ELSE IF o.ok THEN Land(g, o, call.asked) ELSE SeekFailed(g, call.asked, "corrupt")
      BY <1>3, <1>10, <2>2, <2>3
    <2>5. /\ DecTypes(o.dec) /\ o.bytes \in 0..n /\ o.hit \in BOOLEAN
          /\ (o.hit => o.id \in Nat /\ o.prev \in Nat) /\ (~o.hit => ~o.ok)
      BY <1>1, <1>5, <2>1, <2>2, DecodeFacts
    <2>6. o.bytes \in Nat /\ o.bytes <= Len(f.buf)  BY <2>1, <2>5
    <2>7. Sound(g) /\ Live(g) /\ Changed(g, f, {"buf"})  BY <1>4, <2>3, <2>6, ConsumeFacts
    <2>8. g.pending = <<>> /\ g.rate /\ g.seen /\ g.start = d.start
      BY <1>5, <1>6, <2>7, ChangedFields
    <2>9. CASE call.frame < call.target
      <3>1. /\ d' = g /\ call' = [call EXCEPT !.frame = call.frame + 1]
            /\ UNCHANGED <<ret, expect, got, adrift>>
        BY <2>4, <2>9
      <3>2. /\ CallTypes(call') /\ call'.at = "prime" /\ call'.op = call.op
            /\ call'.asked = call.asked /\ call'.frame = call.frame + 1
            /\ call'.target = call.target /\ call'.intra = call.intra
        <4>1. DOMAIN call = CallFields  BY <1>1 DEF CallTypes
        <4>2. /\ DOMAIN call' = CallFields /\ call'.frame = call.frame + 1
              /\ call'.at = call.at /\ call'.op = call.op /\ call'.window = call.window
              /\ call'.skipped = call.skipped /\ call'.err = call.err /\ call'.asked = call.asked
              /\ call'.target = call.target /\ call'.intra = call.intra
          BY <3>1, <4>1, Zenon DEF CallFields
        <4>3. call.frame + 1 \in Nat  BY <1>1
        <4> QED  BY <1>1, <4>2, <4>3 DEF CallTypes
      <3>3. call'.frame <= call'.target  BY <1>1, <2>9, <3>2
      <3>4. Phases'  BY <1>1, <2>7, <2>8, <3>1, <3>2, <3>3 DEF Phases, BInv, Live
      <3>5. Bounded(d, got)'  BY <2>8, <3>1, NonePending
      <3>6. DecTypes(dec')  BY <2>4, <2>5
      <3> QED
        BY <1>1, <1>7, <2>7, <3>1, <3>2, <3>4, <3>5, <3>6, SoundNext
        DEF BInv, DecTypes, CallTypes, RetTypes
    <2>10. CASE ~(call.frame < call.target) /\ o.ok
      BY <1>1, <1>7, <2>4, <2>5, <2>7, <2>8, <2>10, LandB
    <2>11. CASE ~(call.frame < call.target) /\ ~o.ok
      BY <1>1, <1>7, <1>8, <2>4, <2>5, <2>7, <2>8, <2>11, SoundParked, SeekFailedB
    <2> QED  BY <2>9, <2>10, <2>11
  <1> QED  BY <1>9, <1>10

-----------------------------------------------------------------------------
\* Stuttering preserves BInv.
LEMMA StutterB == BInv /\ UNCHANGED vars => BInv'
  <1> SUFFICES ASSUME BInv, UNCHANGED vars PROVE BInv'  OBVIOUS
  <1>1. /\ file' = file /\ d' = d /\ dec' = dec /\ call' = call /\ ret' = ret
        /\ expect' = expect /\ got' = got /\ adrift' = adrift /\ faults' = faults
    BY DEF vars
  <1>2. Sound(d)'
    <2>1. Sound(d')  BY <1>1 DEF BInv
    <2> QED  BY <1>1, <2>1, SoundNext
  <1>3. Phases'  BY <1>1 DEF BInv, Phases, Live
  <1>4. Bounded(d, got)'  BY <1>1, SamePending
  <1> QED  BY <1>1, <1>2, <1>3, <1>4 DEF BInv, DecTypes, CallTypes, RetTypes

\* Every step preserves BInv.
LEMMA NextB == BInv /\ [Next]_vars => BInv'
  <1> SUFFICES ASSUME BInv, Next PROVE BInv'  BY StutterB
  <1>1. ASSUME Read PROVE BInv'  BY <1>1, BeginB DEF Read
  <1>2. ASSUME WriteTo PROVE BInv'  BY <1>2, BeginB DEF WriteTo
  <1> QED
    BY <1>1, <1>2, ResetB, SeekB, DecodeStepB, ResetEndsB, HandsB, PrimeStepB
    DEF Next, Step

\* What holds of any source at every moment: the buffers hold what follows in it, the
\* first frame is known before anything is sought, and each phase of a call has what it needs.
THEOREM Inductive == Spec => []BInv
  <1>1. Init => BInv  BY InitB
  <1> QED  BY <1>1, NextB, PTL DEF Spec

\* TypeOK is a part of it.
THEOREM TypeOKHolds == Spec => []TypeOK
  <1>1. BInv => TypeOK
    <2> SUFFICES ASSUME BInv PROVE TypeOK  OBVIOUS
    <2>1. file \in DOMAIN Sources /\ DTypes(d) /\ Sizes(d) /\ CachedOffsets(d)
      BY DEF BInv, Sound
    <2>2. d.pos \in 0..Len(src.cells) /\ d.audioStart \in 0..Len(src.cells)
      BY <2>1, SrcTypes DEF DTypes, Sizes
    <2>3. /\ d.readErr \in Errs /\ d.err \in Errs /\ call.err \in Errs /\ ret.err \in Errs
          /\ call.at \in {"idle", "decode", "back", "prime"}
      BY <2>1 DEF BInv, DTypes, CallTypes, RetTypes, Errs
    <2> QED  BY <2>1, <2>2, <2>3 DEF TypeOK, Sizes, CachedOffsets, Errs
  <1> QED  BY <1>1, Inductive, PTL

-----------------------------------------------------------------------------
(***************************************************************************)
(* Every turn that goes on makes progress.                                 *)
(***************************************************************************)
LEMMA HereNat ==
    ASSUME NEW f, Sound(f), Live(f) PROVE Here(f) \in Int /\ (~adrift => Here(f) \in Nat)
  <1>1. DTypes(f) /\ (~adrift => Stocked(f))  BY DEF Sound
  <1> QED  BY <1>1, StockedLoaded, LoadedFacts

\* The measure of NeverSpins counts the cells behind `Here'.
LEMMA LeftIs ==
    ASSUME file \in DOMAIN Sources, NEW f, DTypes(f)
    PROVE  Len(src.cells) - f.pos + Len(f.br) + Len(f.buf) = Len(src.cells) - Here(f)
  <1>1. PICK n \in Nat, p \in Nat, br \in Nat, buf \in Nat :
           n = Len(src.cells) /\ p = f.pos /\ br = Len(f.br) /\ buf = Len(f.buf)
    BY SrcTypes, LenNat DEF DTypes
  <1>2. n - p + br + buf = n - (p - br - buf)  OBVIOUS
  <1> QED  BY <1>1, <1>2 DEF Here

\* How far a turn that goes on gets.
LEMMA FrameAhead ==
    ASSUME file \in DOMAIN Sources, NEW f, NEW o, Frame(f, o), call'.err = "none"
    PROVE  Here(d') = Here(f) + o.bytes /\ o.bytes \in Nat /\ o.bytes >= 2
  <1>1. Hit(f, o)  BY DEF Frame
  <1>2. o.bytes \in Nat /\ o.bytes >= 2  BY <1>1, ConstTypes DEF Hit
  <1>3. CASE Tags(f, o)
    <2>1. d' = ApplyTag(f, o) /\ ~f.tagChecked  BY <1>3 DEF Tags, GoesOn
    <2> QED  BY <1>1, <1>2, <2>1, TagFacts
  <1>4. CASE Skips(f, o)
    <2>1. d' = FirstSeen(f, o)  BY <1>4 DEF Skips, GoesOn
    <2> QED  BY <1>1, <1>2, <2>1, SeenFacts
  <1> DEFINE g == Kept(f, o)
  <1>5. Sound(g) /\ Here(g) = Here(f) + o.bytes  BY <1>1, KeptFacts
  <1> HIDE DEF g
  <1>6. CASE Trims(f, o)
    <2>1. d' = g  BY <1>6 DEF Trims, GoesOn, g
    <2> QED  BY <1>2, <1>5, <2>1
  <1>7. CASE PastEnd(f, o)  BY <1>7 DEF PastEnd
  <1>8. CASE HandsOut(f, o)
    <2>1. PICK s : d' = [g EXCEPT !.pending = s]  BY <1>8 DEF HandsOut, g
    <2>2. DOMAIN g = DFields  BY <1>5, DomainOf DEF Sound
    <2>3. d'.pos = g.pos /\ d'.br = g.br /\ d'.buf = g.buf  BY <2>1, <2>2, Zenon DEF DFields
    <2>4. Here(d') = Here(g)  BY <2>3 DEF Here
    <2> QED  BY <1>2, <1>5, <2>4
  <1> QED  BY <1>3, <1>4, <1>6, <1>7, <1>8 DEF Frame

\* A turn that does not end the call makes the measure smaller.
LEMMA DecodeProgress ==
    ASSUME BInv, BInv', DecodeStep, call'.err = "none" PROVE Left' < Left
  <1>1. /\ file \in DOMAIN Sources /\ Sound(d) /\ Live(d) /\ call.window \in {SmallWindow, ResyncWindow}
    BY DEF BInv, Phases, DecodeStep
  <1>2. file' = file  BY DecodeTurn
  <1>3. PICK f \in Fills(call.window) :
           Sound(f) /\ Live(f) /\ Filled(f, call.window) /\ Here(f) = Here(d) /\ Turn(f)
    BY DecodeTurn
  <1>4. /\ ResyncWindow \in Nat /\ SmallWindow \in Nat /\ ResyncWindow > SmallWindow + 1
    BY ConstTypes
  <1>5. PICK n \in Nat, h \in Int : n = Len(src.cells) /\ h = Here(d)
    BY <1>1, SrcTypes, HereNat
  <1>6. PICK w \in {0, 1} : w = IF call.window = ResyncWindow THEN 0 ELSE 1  OBVIOUS
  <1>7. PICK v \in {0, 1} : v = IF call'.window = ResyncWindow THEN 0 ELSE 1  OBVIOUS
  <1>8. Left = 2 * (n - h) + w
    <2>1. Len(src.cells) - d.pos + Len(d.br) + Len(d.buf) = n - h
      BY <1>1, <1>5, LeftIs DEF Sound
    <2> QED  BY <1>6, <2>1 DEF Left
  <1>9. PICK k \in Int : k = Here(d') /\ (k >= h + 1 \/ (k = h /\ v < w))
    <2>1. CASE Ends(f)  BY <2>1 DEF Ends
    <2>2. CASE Widens(f)
      <3>1. d' = f /\ f.readErr = "none" /\ Len(f.buf) < ResyncWindow /\ call'.window = ResyncWindow
        BY <2>2 DEF Widens
      <3>2. Len(f.buf) >= call.window  BY <1>3, <3>1 DEF Filled
      <3>3. Len(f.buf) \in Nat  BY <1>3, LenNat DEF Sound, DTypes
      <3>4. call.window # ResyncWindow  BY <1>4, <3>1, <3>2, <3>3
      <3>5. v = 0 /\ w = 1  BY <1>6, <1>7, <3>1, <3>4
      <3>6. Here(d') = h  BY <1>3, <1>5, <3>1
      <3> QED  BY <1>5, <3>5, <3>6
    <2>3. CASE Drops(f)
      <3>1. Len(f.buf) = ResyncWindow /\ d' = Consume(f, ResyncWindow - Retain)  BY <2>3 DEF Drops
      <3>2. PICK m \in Nat : m = ResyncWindow - Retain /\ m <= Len(f.buf) /\ m >= 1
        BY <1>4, <3>1 DEF Retain
      <3>3. Here(d') = Here(f) + m  BY <1>3, <3>1, <3>2, ConsumeFacts
      <3>4. Here(d') = h + m  BY <1>3, <1>5, <3>3
      <3> QED  BY <1>5, <3>2, <3>4
    <2>4. ASSUME NEW o, Frame(f, o)
          PROVE  \E x \in Int : x = Here(d') /\ (x >= h + 1 \/ (x = h /\ v < w))
      <3>1. Here(d') = Here(f) + o.bytes /\ o.bytes \in Nat /\ o.bytes >= 2
        BY <1>1, <2>4, FrameAhead
      <3>2. PICK m \in Nat : m = o.bytes /\ m >= 2  BY <3>1
      <3>3. Here(d') = h + m  BY <1>3, <1>5, <3>1, <3>2
      <3>4. h + m >= h + 1 /\ h + m \in Int  BY <3>2
      <3> QED  BY <3>3, <3>4
    <2> QED  BY <1>3, <2>1, <2>2, <2>3, <2>4 DEF Turn
  <1>10. Left' = 2 * (n - k) + v
    <2>1. DTypes(d')  BY DEF BInv, Sound, DTypes
    <2>2. Len(src.cells) - d'.pos + Len(d'.br) + Len(d'.buf) = n - k
      BY <1>1, <1>5, <1>9, <2>1, LeftIs
    <2> QED  BY <1>2, <1>7, <2>2 DEF Left, src
  <1>11. 2 * (n - k) + v < 2 * (n - h) + w  BY <1>6, <1>7, <1>9
  <1> QED  BY <1>8, <1>10, <1>11

\* No call spins, on any source.
THEOREM NeverSpinsHolds == Spec => NeverSpins
  <1>1. BInv /\ BInv' /\ [Next]_vars => [call.at = "decode" /\ call'.err = "none" => Left' < Left]_vars
    <2> SUFFICES ASSUME BInv, BInv', Next, call.at = "decode", call'.err = "none" PROVE Left' < Left
      OBVIOUS
    <2>1. DecodeStep
      <3>1. ~Reset /\ ~Read /\ ~WriteTo /\ (\A s \in Targets : ~Seek(s))
        BY DEF Reset, Read, WriteTo, Begin, Seek
      <3>2. ~ResetEnds /\ ~ReadEnds /\ ~WriteToGoesOn /\ ~PrimeStep
        BY DEF ResetEnds, ReadEnds, WriteToGoesOn, PrimeStep
      <3> QED  BY <3>1, <3>2 DEF Next, Step
    <2> QED  BY <2>1, DecodeProgress
  <1> QED  BY <1>1, Inductive, PTL DEF Spec, NeverSpins
-----------------------------------------------------------------------------
(***************************************************************************)
(* The frames of a whole source, by their numbers from its first.          *)
(***************************************************************************)
Whole == file \in DOMAIN Sources /\ src.whole

\* The shape of a whole source.
LEMMA ShapeFacts ==
    ASSUME Whole
    PROVE  /\ Lead \in Nat /\ Many \in Nat /\ Kind \in {Sized, Free}
           /\ Adjoining(src, Lead, Many, Kind) /\ Proportions(src, Lead, Kind)
           /\ (src.tag.present => Many > 0) /\ First \in {0, 1} /\ (First = 0 <=> src.tag.present)
  <1> DEFINE P(t) == /\ Adjoining(src, t[1], t[2], t[3]) /\ Proportions(src, t[1], t[3])
                     /\ src.tag.present => t[2] > 0
             S == (0..Len(src.cells)) \X (0..Len(src.cells)) \X {Sized, Free}
  <1>1. \E t \in S : P(t)
    <2>1. PICK lead \in 0..Len(src.cells), count \in 0..Len(src.cells), kind \in {Sized, Free} :
             /\ Adjoining(src, lead, count, kind) /\ Proportions(src, lead, kind)
             /\ src.tag.present => count > 0
      BY WholeAssumption DEF Whole, src
    <2>2. <<lead, count, kind>> \in S  OBVIOUS
    <2>3. P(<<lead, count, kind>>)  BY <2>1
    <2> QED  BY <2>2, <2>3
  <1>2. ShapeOf(src) = CHOOSE t \in S : P(t)  BY DEF ShapeOf
  <1>3. ShapeOf(src) \in S /\ P(ShapeOf(src))
    <2> HIDE DEF P, S
    <2> QED  BY <1>1, <1>2
  <1>4. Len(src.cells) \in Nat  BY SrcTypes DEF Whole
  <1>5. First \in {0, 1} /\ (First = 0 <=> src.tag.present)  BY DEF First, FirstId
  <1> QED  BY <1>3, <1>4, <1>5 DEF Lead, Many, Kind

\* Its frames adjoin.
LEMMA AtFacts ==
    ASSUME Whole, NEW k \in Nat
    PROVE  /\ At(k) \in Nat /\ At(0) = Lead /\ Lead <= At(k) /\ At(k + 1) = At(k) + FrameLen
           /\ \A j \in Nat : /\ j * FrameLen \in Nat /\ At(k + j) = At(k) + j * FrameLen
                             /\ (j > 0 => j * FrameLen >= FrameLen)
           /\ \A j \in Nat : j < k => At(j) + FrameLen <= At(k)
           /\ \A j \in Nat : At(j) >= At(k) => j >= k
  <1>1. Lead \in Nat /\ FrameLen \in Nat /\ FrameLen > 1  BY ShapeFacts, ConstTypes
  <1>2. k * FrameLen \in Nat /\ 0 * FrameLen = 0  BY <1>1
  <1>3. At(k) \in Nat /\ At(0) = Lead /\ Lead <= At(k)  BY <1>1, <1>2 DEF At
  <1>4. (k + 1) * FrameLen = k * FrameLen + FrameLen  BY <1>1
  <1>5. At(k + 1) = At(k) + FrameLen  BY <1>1, <1>2, <1>4 DEF At
  <1>6. ASSUME NEW j \in Nat
        PROVE  j * FrameLen \in Nat /\ At(k + j) = At(k) + j * FrameLen /\ (j > 0 => j * FrameLen >= FrameLen)
    <2>1. PICK a \in Nat, b \in Nat, c \in Nat :
             a = k * FrameLen /\ b = j * FrameLen /\ c = (k + j) * FrameLen /\ c = a + b
      BY <1>1
    <2>2. At(k + j) = At(k) + b  BY <1>1, <2>1 DEF At
    <2>3. j > 0 => j * FrameLen >= FrameLen
      <3>1. 0 \in Nat /\ 0 <= j  OBVIOUS
      <3>2. 0 < j => 0 * FrameLen + FrameLen <= j * FrameLen  BY <3>1, Times
      <3> QED  BY <1>1, <1>2, <3>2
    <2> QED  BY <2>1, <2>2, <2>3
  <1>7. ASSUME NEW j \in Nat, j < k PROVE At(j) + FrameLen <= At(k)
    <2>1. PICK a \in Nat, b \in Nat : a = j * FrameLen /\ b = k * FrameLen /\ a + FrameLen <= b
      <3>1. j <= k  BY <1>7
      <3>2. /\ j * FrameLen \in Nat /\ k * FrameLen \in Nat
            /\ j * FrameLen + FrameLen <= k * FrameLen
        BY <1>7, <3>1, Times, Zenon
      <3> QED  BY <3>2, Zenon
    <2> QED  BY <1>1, <2>1 DEF At
  <1>8. ASSUME NEW j \in Nat, At(j) >= At(k) PROVE j >= k
    <2>1. At(j) \in Nat
      <3>1. j * FrameLen \in Nat  BY <1>1
      <3> QED  BY <1>1, <3>1 DEF At
    <2> QED  BY <1>1, <1>3, <1>7, <1>8, <2>1
  <1> QED  BY <1>3, <1>5, <1>6, <1>7, <1>8

\* The k-th frame's header.
LEMMA FrameAt ==
    ASSUME Whole, NEW k \in Nat, k < Many
    PROVE  /\ At(k) + 1 \in DOMAIN src.cells /\ At(k) + 1 <= Len(src.cells)
           /\ IsHeader(src.cells[At(k) + 1]) /\ src.cells[At(k) + 1].kind = Kind
           /\ src.cells[At(k) + 1].id = First + k
           /\ src.cells[At(k) + 1].need <= Most(0, Least(First + k - 1, PrimeFrames - 1))
  <1>1. Many \in Nat /\ Kind \in {Sized, Free} /\ Adjoining(src, Lead, Many, Kind)  BY ShapeFacts
  <1>2. k \in 0..Many - 1  BY <1>1
  <1> DEFINE p == Lead + k * FrameLen + 1
  <1>3. /\ p \in DOMAIN src.cells /\ src.cells[p].kind = Kind /\ src.cells[p].id = FirstId(src) + k
        /\ src.cells[p].need <= Most(0, Least(src.cells[p].id - 1, PrimeFrames - 1))
    BY <1>1, <1>2 DEF Adjoining
  <1>4. p = At(k) + 1  BY DEF At
  <1> HIDE DEF p
  <1>5. IsHeader(src.cells[p])  BY <1>1, <1>3 DEF IsHeader
  <1>6. p <= Len(src.cells)  BY <1>3, SrcTypes, LenNat DEF Whole
  <1>7. FirstId(src) = First  BY DEF First
  <1>8. src.cells[p].id = First + k  BY <1>3, <1>7
  <1>9. src.cells[p].need <= Most(0, Least(First + k - 1, PrimeFrames - 1))
    <2>1. PICK id \in Nat : id = First + k  BY ShapeFacts
    <2>2. src.cells[p].id = id  BY <1>8, <2>1
    <2>3. src.cells[p].need <= Most(0, Least(id - 1, PrimeFrames - 1))  BY <1>3, <2>2
    <2>4. id - 1 = First + k - 1  BY <2>1, ShapeFacts
    <2> QED  BY <2>3, <2>4, Zenon
  <1> QED  BY <1>3, <1>4, <1>5, <1>6, <1>8, <1>9, Zenon

\* Every header is one of these.
LEMMA HeadAt ==
    ASSUME Whole, NEW p \in DOMAIN src.cells, IsHeader(src.cells[p])
    PROVE  \E k \in Nat : k < Many /\ p = At(k) + 1
  <1>1. Many \in Nat /\ Adjoining(src, Lead, Many, Kind)  BY ShapeFacts
  <1>2. PICK k \in 0..Many - 1 : p = Lead + k * FrameLen + 1  BY <1>1 DEF Adjoining
  <1>3. k \in Nat /\ k < Many  BY <1>1, <1>2
  <1> QED  BY <1>2, <1>3 DEF At

\* What is j frames on.
LEMMA OnFrom ==
    ASSUME Whole, NEW k \in Nat, NEW j \in Nat, NEW p, p = At(k) + 1 + j * FrameLen
    PROVE  /\ k + j < Many => IsHeader(src.cells[p]) /\ src.cells[p].kind = Kind
           /\ p \in DOMAIN src.cells /\ IsHeader(src.cells[p]) => k + j < Many
  <1>1. /\ At(k + j) = At(k) + j * FrameLen /\ At(k) \in Nat /\ j * FrameLen \in Nat
    BY AtFacts
  <1>2. p = At(k + j) + 1  BY <1>1
  <1>3. k + j < Many => IsHeader(src.cells[p]) /\ src.cells[p].kind = Kind
    <2>1. k + j \in Nat  OBVIOUS
    <2> QED  BY <1>2, <2>1, FrameAt
  <1>4. ASSUME p \in DOMAIN src.cells, IsHeader(src.cells[p]) PROVE k + j < Many
    <2>1. PICK i \in Nat : i < Many /\ p = At(i) + 1  BY <1>4, HeadAt
    <2>2. At(i) \in Nat /\ At(k + j) \in Nat
      <3>1. k + j \in Nat  OBVIOUS
      <3> HIDE DEF At
      <3> QED  BY <3>1, AtFacts, Zenon
    <2>3. At(i) = At(k + j)  BY <1>2, <2>1, <2>2
    <2>4. i >= k + j
      <3>1. k + j \in Nat /\ At(i) >= At(k + j)  BY <2>2, <2>3
      <3> QED  BY <3>1, AtFacts
    <2>5. Many \in Nat  BY ShapeFacts
    <2> QED  BY <2>1, <2>4, <2>5
  <1> QED  BY <1>3, <1>4

\* The buffer holds the n cells from behind position h.
View(b, n, h) == ~adrift /\ h \in Nat /\ Span(b, n, h) /\ h + n <= Len(src.cells)

\* A view holds what the source does.
LEMMA ViewFacts ==
    ASSUME Whole, NEW b, NEW n, NEW h, View(b, n, h)
    PROVE  /\ b \in Seq(CellType) /\ n \in Nat /\ h \in Nat /\ n = Len(b)
           /\ h + n <= Len(src.cells) /\ Len(src.cells) \in Nat
           /\ \A i \in 1..n : b[i] = src.cells[h + i] /\ h + i \in DOMAIN src.cells
  <1>1. Len(src.cells) \in Nat /\ DOMAIN src.cells = 1..Len(src.cells)
    BY SrcTypes, LenNat DEF Whole
  <1>2. b \in Seq(CellType) /\ n \in Nat /\ h \in Nat /\ n = Len(b)
        /\ \A i \in 1..n : b[i] = src.cells[h + i]
    BY DEF View, Span
  <1>3. h + n <= Len(src.cells)  BY DEF View
  <1>4. \A i \in 1..n : h + i \in 1..Len(src.cells)  BY <1>1, <1>2, <1>3
  <1> QED  BY <1>1, <1>2, <1>3, <1>4

\* The frame buffer of a live decoder is a view; at the end of input, to the end.
LEMMA BufferView ==
    ASSUME Whole, NEW f, Sound(f), Live(f), ~adrift
    PROVE  /\ View(f.buf, Len(f.buf), Here(f))
           /\ f.readErr = "eof" => Here(f) + Len(f.buf) = Len(src.cells)
  <1>1. DTypes(f) /\ Stocked(f) /\ Sizes(f)  BY DEF Sound
  <1>2. Loaded(f, Here(f), Len(f.buf), Len(f.br))  BY <1>1, StockedLoaded
  <1>3. PICK h \in Nat, n \in Nat, m \in Nat :
           h = Here(f) /\ n = Len(f.buf) /\ m = Len(f.br) /\ f.pos = h + n + m
    BY <1>2, LoadedFacts
  <1>4. f.pos <= Len(src.cells) /\ Len(src.cells) \in Nat  BY <1>1, SrcTypes DEF Sizes, Whole
  <1>5. h + n <= Len(src.cells)  BY <1>3, <1>4
  <1> QED  BY <1>2, <1>3, <1>5 DEF Loaded, View

-----------------------------------------------------------------------------
(***************************************************************************)
(* Which frames a buffer confirms.                                         *)
(***************************************************************************)
\* The frame k at index i of a buffer of n cells is long enough, and the headers that
\* should follow it within the buffer do.
Fits(i, n) ==
    /\ i + FrameLen <= n \/ (i = 1 /\ n = FrameLen)
    /\ Kind = Free => i + 2 * FrameLen < n
Followed(i, k, n) == \A j \in 1..MaxMatches : i + j * FrameLen <= n => k + j < Many

\* Headers of a whole source are of one kind.
LEMMA SameKind ==
    ASSUME Whole, NEW k \in Nat, k < Many, NEW j \in Nat, k + j < Many
    PROVE  Same(src.cells[At(k) + 1], src.cells[At(k + j) + 1])
  <1>1. k + j \in Nat  OBVIOUS
  <1>2. IsHeader(src.cells[At(k + j) + 1]) /\ src.cells[At(k + j) + 1].kind = Kind
    <2> HIDE DEF At
    <2> QED  BY <1>1, FrameAt, Zenon
  <1>3. src.cells[At(k) + 1].kind = Kind  BY FrameAt
  <1> QED  BY <1>2, <1>3 DEF Same

\* What a buffer confirms is a frame of the source, and what follows it fits.
LEMMA ConfirmedAt ==
    ASSUME Whole, NEW b, NEW n, NEW h, View(b, n, h), NEW i \in 1..n, Confirmed(b, i)
    PROVE  \E k \in Nat : k < Many /\ h + i = At(k) + 1 /\ Followed(i, k, n) /\ Fits(i, n)
  <1>1. /\ b \in Seq(CellType) /\ n \in Nat /\ h \in Nat /\ n = Len(b)
        /\ \A m \in 1..n : b[m] = src.cells[h + m] /\ h + m \in DOMAIN src.cells
    BY ViewFacts
  <1>2. IsHeader(b[i])  BY <1>1, ConfirmedFacts
  <1>3. PICK k \in Nat : k < Many /\ h + i = At(k) + 1
    <2>1. h + i \in DOMAIN src.cells /\ IsHeader(src.cells[h + i])  BY <1>1, <1>2
    <2> QED  BY <2>1, HeadAt
  <1>4. FrameLen \in Nat /\ FrameLen > 1  BY ConstTypes
  <1>5. b[i].kind = Kind
    <2>1. b[i] = src.cells[At(k) + 1]  BY <1>1, <1>3
    <2> QED  BY <1>3, <2>1, FrameAt
  <1>6. Fits(i, n)
    <2>1. \/ Kind = Sized /\ (MatchFrame(b, i) \/ (i = 1 /\ Len(b) = FrameLen))
          \/ Kind = Free /\ i + 2 * FrameLen < Len(b) /\ MatchFrame(b, i)
      BY <1>5 DEF Confirmed
    <2>2. MatchFrame(b, i) => i + FrameLen <= n  BY <1>1 DEF MatchFrame
    <2>3. Sized # Free  BY DEF Sized, Free
    <2> QED  BY <1>1, <2>1, <2>2, <2>3 DEF Fits
  <1>7. Followed(i, k, n)
    <2> SUFFICES ASSUME NEW j \in 1..MaxMatches, i + j * FrameLen <= n PROVE k + j < Many
      BY DEF Followed
    <2>1. j \in Nat /\ j > 0  OBVIOUS
    <2>2. PICK q \in Nat : q = j * FrameLen /\ q >= FrameLen
      <3>1. j * FrameLen \in Nat /\ j * FrameLen >= FrameLen  BY <2>1, AtFacts
      <3> QED  BY <3>1
    <2>3. MatchFrame(b, i)
      <3>1. ~(i = 1 /\ Len(b) = FrameLen)  BY <1>1, <1>4, <2>2
      <3> QED  BY <3>1 DEF Confirmed
    <2>4. IsHeader(b[i + q])
      <3>1. i + j * FrameLen <= Len(b)  BY <1>1
      <3>2. Same(b[i], b[i + j * FrameLen])  BY <2>3, <3>1 DEF MatchFrame
      <3> QED  BY <2>2, <3>2 DEF Same
    <2>5. i + q \in 1..n  BY <1>1, <2>2
    <2>6. h + (i + q) \in DOMAIN src.cells /\ IsHeader(src.cells[h + (i + q)])
      BY <1>1, <2>4, <2>5
    <2>7. At(k) \in Nat  BY AtFacts
    <2>8. h + (i + q) = At(k) + 1 + j * FrameLen  BY <1>1, <1>3, <2>2, <2>7
    <2> QED  BY <2>1, <2>6, <2>8, OnFrom
  <1> QED  BY <1>3, <1>6, <1>7

\* And conversely.
LEMMA ConfirmsAt ==
    ASSUME Whole, NEW b, NEW n, NEW h, View(b, n, h), NEW i \in 1..n,
           NEW k \in Nat, k < Many, h + i = At(k) + 1, Followed(i, k, n), Fits(i, n)
    PROVE  Confirmed(b, i)
  <1>1. /\ n \in Nat /\ h \in Nat /\ n = Len(b)
        /\ \A m \in 1..n : b[m] = src.cells[h + m] /\ h + m \in DOMAIN src.cells
    BY ViewFacts
  <1>2. b[i] = src.cells[At(k) + 1] /\ b[i].kind = Kind
    <2>1. b[i] = src.cells[At(k) + 1]  BY <1>1
    <2> QED  BY <2>1, FrameAt
  <1>3. Kind \in {Sized, Free}  BY ShapeFacts
  <1>4. FrameLen \in Nat /\ FrameLen > 1  BY ConstTypes
  <1>5. ASSUME i + FrameLen <= n PROVE MatchFrame(b, i)
    <2>1. ASSUME NEW j \in 1..MaxMatches, i + j * FrameLen <= Len(b)
          PROVE  Same(b[i], b[i + j * FrameLen])
      <3>1. k + j < Many  BY <1>1, <2>1 DEF Followed
      <3>2. j \in Nat  OBVIOUS
      <3>3. PICK q \in Nat, a \in Nat : q = j * FrameLen /\ At(k + j) = a + q /\ a = At(k)
        BY <3>2, AtFacts
      <3>4. i + q \in 1..n
        <4>1. n \in Nat /\ i + q <= n  BY <1>1, <2>1, <3>3
        <4> QED  BY <4>1
      <3>5. h + (i + q) = At(k + j) + 1
        <4>1. h + i = a + 1 /\ h \in Nat  BY <1>1, <3>3
        <4>2. h + (i + q) = a + q + 1  BY <4>1
        <4> QED  BY <3>3, <4>2
      <3>6. b[i + q] = src.cells[At(k + j) + 1]  BY <1>1, <3>4, <3>5
      <3>7. Same(src.cells[At(k) + 1], src.cells[At(k + j) + 1])  BY <3>1, <3>2, SameKind
      <3> QED  BY <1>2, <3>3, <3>6, <3>7
    <2> QED  BY <1>1, <1>5, <2>1 DEF MatchFrame
  <1>6. CASE Kind = Sized  BY <1>1, <1>2, <1>5, <1>6 DEF Confirmed, Fits
  <1>7. CASE Kind = Free
    <2>1. i + 2 * FrameLen < n  BY <1>7 DEF Fits
    <2>2. i + FrameLen <= n  BY <1>1, <1>4, <2>1
    <2> QED  BY <1>1, <1>2, <1>5, <1>7, <2>1, <2>2 DEF Confirmed
  <1> QED  BY <1>3, <1>6, <1>7

\* If no header lies before frame c, the first confirmed frame is frame c.
LEMMA FirstHit ==
    ASSUME Whole, NEW b, NEW n, NEW h, View(b, n, h), NEW c \in Nat, h <= At(c),
           c = 0 \/ h = At(c), FindFrame(b) < n
    PROVE  c < Many /\ FindFrame(b) = At(c) - h
  <1>1. b \in Seq(CellType) /\ n \in Nat /\ h \in Nat /\ n = Len(b) /\ Many \in Nat
    BY ViewFacts, ShapeFacts
  <1>2. PICK off \in Nat : off = FindFrame(b)  BY <1>1, FindFrameFacts
  <1>3. Confirmed(b, off + 1) /\ off + 1 \in 1..n - 1 /\ \A m \in 1..off : ~Confirmed(b, m)
    BY <1>1, <1>2, FindFrameFacts
  <1>4. off + 1 \in 1..n  BY <1>1, <1>3
  <1>5. PICK k \in Nat :
           k < Many /\ h + (off + 1) = At(k) + 1 /\ Followed(off + 1, k, n) /\ Fits(off + 1, n)
    BY <1>3, <1>4, ConfirmedAt
  <1>6. PICK pk \in Nat, pc \in Nat : pk = At(k) /\ pc = At(c)
    BY AtFacts
  <1>7. pk = h + off  BY <1>1, <1>2, <1>5, <1>6
  <1>8. c <= k
    <2>1. CASE c = 0  BY <2>1
    <2>2. CASE h = At(c)
      <3>1. At(k) >= At(c)  BY <1>1, <1>2, <1>6, <1>7, <2>2
      <3>2. k >= c  BY <3>1, AtFacts
      <3> QED  BY <3>2
    <2> QED  BY <2>1, <2>2
  <1>9. c < Many  BY <1>1, <1>5, <1>8
  <1>10. PICK r \in Nat : k = c + r
    <2>1. k - c \in Nat /\ k = c + (k - c)  BY <1>8
    <2> QED  BY <2>1
  <1>11. PICK q \in Nat : q = r * FrameLen /\ pk = pc + q
    <2>1. r * FrameLen \in Nat /\ At(c + r) = At(c) + r * FrameLen  BY AtFacts
    <2> QED  BY <1>6, <1>10, <2>1
  <1>12. PICK i \in Nat : i = pc - h + 1 /\ i + q = off + 1 /\ h + i = At(c) + 1 /\ i >= 1
    <2>1. h <= pc  BY <1>6
    <2>2. pc - h + 1 \in Nat /\ pc - h + 1 >= 1  BY <1>1, <2>1
    <2>3. pc - h + 1 + q = off + 1
      <3>1. h \in Nat /\ pk = h + off /\ pk = pc + q  BY <1>1, <1>7, <1>11
      <3> QED  BY <3>1
    <2>4. h + (pc - h + 1) = At(c) + 1  BY <1>1, <1>6
    <2> QED  BY <2>2, <2>3, <2>4
  <1>13. i \in 1..n  BY <1>1, <1>4, <1>12
  <1>14. FrameLen \in Nat  BY ConstTypes
  <1>15. Fits(i, n)  BY <1>1, <1>5, <1>12, <1>14 DEF Fits
  <1>16. Followed(i, c, n)
    <2> SUFFICES ASSUME NEW j \in 1..MaxMatches, i + j * FrameLen <= n PROVE c + j < Many
      BY DEF Followed
    <2>1. CASE j <= r  BY <1>1, <1>5, <1>10, <2>1
    <2>2. CASE j > r
      <3>1. PICK m \in Nat : m = j - r /\ m \in 1..MaxMatches /\ j = r + m
        <4>1. MaxMatches \in Nat  BY ConstTypes
        <4> QED  BY <2>2, <4>1
      <3>2. PICK u \in Nat, v \in Nat : u = m * FrameLen /\ v = j * FrameLen /\ v = q + u
        <4>1. r <= j /\ j \in Nat  BY <2>2
        <4>2. r * FrameLen + (j - r) * FrameLen = j * FrameLen /\ j * FrameLen \in Nat
              /\ (j - r) * FrameLen \in Nat
          BY <4>1, Times
        <4> QED  BY <1>11, <3>1, <4>2
      <3>3. off + 1 + m * FrameLen <= n  BY <1>1, <1>2, <1>12, <3>2
      <3>4. k + m < Many  BY <1>5, <3>1, <3>3 DEF Followed
      <3> QED  BY <1>10, <3>1, <3>4
    <2> QED  BY <2>1, <2>2
  <1>17. Confirmed(b, i)  BY <1>9, <1>12, <1>13, <1>15, <1>16, ConfirmsAt
  <1>18. i = off + 1
    <2>1. i <= off + 1  BY <1>12
    <2>2. ~(i \in 1..off)  BY <1>3, <1>17
    <2> QED  BY <1>12, <2>1, <2>2
  <1>19. pc - h + 1 = off + 1  BY <1>12, <1>18
  <1>20. h \in Nat  BY <1>1
  <1>21. off = pc - h  BY <1>19, <1>20
  <1> QED  BY <1>2, <1>6, <1>9, <1>21

\* A frame that is not found, though it fits, is not followed.
LEMMA NotFound ==
    ASSUME Whole, NEW b, NEW n, NEW h, View(b, n, h), FindFrame(b) = n,
           NEW k \in Nat, k < Many, NEW i \in 1..n, h + i = At(k) + 1, Fits(i, n)
    PROVE  ~Followed(i, k, n)
  <1>1. b \in Seq(CellType) /\ n \in Nat /\ n = Len(b)  BY ViewFacts
  <1>2. i \in 1..n - 1  BY <1>1, ConstTypes DEF Fits
  <1>3. ~Confirmed(b, i)  BY <1>1, <1>2, FindFrameFacts
  <1> QED  BY <1>3, ConfirmsAt

\* Then none of the source's later frames is, as far as the same cells show, and none
\* lies behind them.
LEMMA NotFollowed ==
    ASSUME Whole, NEW n \in Nat, NEW h \in Nat, h + n <= Len(src.cells),
           NEW k \in Nat, NEW i \in 1..n, h + i = At(k) + 1,
           ~Followed(i, k, n), k = 0 \/ h = At(k)
    PROVE  Hidden(h, h + n) /\ Gone(h + n)
  <1>1. PICK j \in 1..MaxMatches : i + j * FrameLen <= n /\ ~(k + j < Many)  BY DEF Followed
  <1>2. Many \in Nat /\ MaxMatches \in Nat /\ FrameLen \in Nat /\ FrameLen > 1
    BY ShapeFacts, ConstTypes
  <1>3. PICK q \in Nat : q = j * FrameLen /\ At(k + j) = At(k) + q /\ At(k) \in Nat
    <2>1. j \in Nat  OBVIOUS
    <2> QED  BY <2>1, AtFacts
  <1>4. ASSUME NEW p \in DOMAIN src.cells, p > h, IsHeader(src.cells[p])
        PROVE  \E m \in 1..MaxMatches : /\ p + m * FrameLen = h + i + q
                                        /\ p < h + i + q
    <2>1. PICK g \in Nat : g < Many /\ p = At(g) + 1  BY <1>4, HeadAt
    <2>2. At(g) \in Nat  BY AtFacts
    <2>3. g >= k
      <3>1. CASE k = 0  BY <3>1
      <3>2. CASE h = At(k)
        <4>1. At(g) >= At(k)  BY <1>3, <1>4, <2>1, <2>2, <3>2
        <4> QED  BY <4>1, AtFacts
      <3> QED  BY <3>1, <3>2
    <2>4. PICK m \in Nat : k + j = g + m /\ m >= 1 /\ m <= j
      <3>1. j \in Nat /\ k + j >= Many /\ g < Many /\ Many \in Nat
        <4>1. j \in Nat  OBVIOUS
        <4>2. ~(k + j < Many) /\ Many \in Nat  BY <1>1, <1>2
        <4> QED  BY <2>1, <4>1, <4>2
      <3>2. k + j - g \in Nat /\ k + j - g >= 1 /\ k + j - g <= j  BY <2>3, <3>1
      <3>3. k + j = g + (k + j - g)  BY <3>1
      <3> QED  BY <3>2, <3>3
    <2>5. PICK u \in Nat : u = m * FrameLen /\ At(g + m) = At(g) + u /\ u >= FrameLen
      <3>1. m > 0  BY <2>4
      <3>2. m * FrameLen \in Nat /\ At(g + m) = At(g) + m * FrameLen /\ m * FrameLen >= FrameLen
        BY <3>1, AtFacts
      <3> QED  BY <3>2
    <2>6. At(g) + u = At(k) + q  BY <1>3, <2>4, <2>5
    <2>7. p + m * FrameLen = h + i + q
      <3>1. PICK a \in Nat, c \in Nat : a = At(g) /\ c = At(k)  BY <1>3, <2>2
      <3>2. p = a + 1 /\ h + i = c + 1 /\ a + u = c + q  BY <2>1, <2>6, <3>1
      <3>3. p + u = h + i + q  BY <3>2
      <3> QED  BY <2>5, <3>3
    <2>8. p < h + i + q  BY <1>2, <2>5, <2>7, <2>1, <2>2
    <2>9. m \in 1..MaxMatches  BY <1>2, <2>4
    <2> QED  BY <2>7, <2>8, <2>9
  <1>5. h + i + q <= h + n  BY <1>1, <1>3
  <1>6. ~IsHeader(src.cells[h + i + q])
    <2>1. h + i + q = At(k) + 1 + j * FrameLen  BY <1>3
    <2>2. j \in Nat  OBVIOUS
    <2>3. Len(src.cells) \in Nat /\ DOMAIN src.cells = 1..Len(src.cells)
      BY SrcTypes, LenNat DEF Whole
    <2>4. h + i + q \in DOMAIN src.cells
      <3>1. h + i + q \in Nat /\ h + i + q >= 1 /\ h + i + q <= Len(src.cells)  BY <1>5, <2>3
      <3> QED  BY <2>3, <3>1
    <2> QED  BY <1>1, <2>1, <2>2, <2>4, OnFrom
  <1>7. Hidden(h, h + n)
    <2> SUFFICES ASSUME NEW p \in DOMAIN src.cells, p > h, IsHeader(src.cells[p])
                 PROVE  \E m \in 1..MaxMatches :
                          p + m * FrameLen <= h + n /\ ~IsHeader(src.cells[p + m * FrameLen])
      BY DEF Hidden
    <2>1. PICK m \in 1..MaxMatches : p + m * FrameLen = h + i + q  BY <1>4
    <2> QED  BY <1>5, <1>6, <2>1
  <1>8. Gone(h + n)
    <2> SUFFICES ASSUME NEW p \in DOMAIN src.cells, p > h + n, IsHeader(src.cells[p]) PROVE FALSE
      BY DEF Gone
    <2>1. p \in Nat  BY SrcTypes, LenNat DEF Whole
    <2>2. p > h  BY <2>1
    <2>3. p < h + i + q  BY <1>4, <2>2
    <2> QED  BY <1>3, <1>5, <2>1, <2>3
  <1> QED  BY <1>7, <1>8

-----------------------------------------------------------------------------
(***************************************************************************)
(* What a turn finds, by where it begins.                                  *)
(***************************************************************************)
LEMMA ColdSlow == ASSUME dec = Cold, NEW b PROVE ~FastPath(b)
  BY DEF FastPath, Cold, IsHeader, Sized, Free

\* Behind the last frame.
LEMMA NoneLeft ==
    ASSUME Whole, NEW j \in Nat, ~(j < Many), NEW h \in Nat, At(j) <= h, NEW e
    PROVE  Hidden(h, e) /\ Gone(h)
  <1>1. ASSUME NEW p \in DOMAIN src.cells, p > h, IsHeader(src.cells[p]) PROVE FALSE
    <2>1. PICK k \in Nat : k < Many /\ p = At(k) + 1  BY <1>1, HeadAt
    <2>2. PICK a \in Nat, c \in Nat : a = At(k) /\ c = At(j)  BY AtFacts
    <2>3. a >= c  BY <1>1, <2>1, <2>2
    <2>4. k >= j  BY <2>2, <2>3, AtFacts
    <2>5. Many \in Nat  BY ShapeFacts
    <2> QED  BY <2>1, <2>4, <2>5
  <1> QED  BY <1>1 DEF Hidden, Gone

\* Frames that stay hidden do so further on, and when more is seen.
LEMMA HiddenGrows ==
    ASSUME Whole, NEW h \in Nat, NEW e \in Nat, NEW g \in Nat, NEW c \in Nat, Hidden(h, e), h <= g, e <= c
    PROVE  Hidden(g, c)
  <1> SUFFICES ASSUME NEW p \in DOMAIN src.cells, p > g, IsHeader(src.cells[p]),
                      ~(p + FrameLen > Len(src.cells) + 1)
               PROVE  \E j \in 1..MaxMatches :
                        p + j * FrameLen <= c /\ ~IsHeader(src.cells[p + j * FrameLen])
    BY DEF Hidden
  <1>1. p \in Nat  BY SrcTypes, LenNat DEF Whole
  <1>2. p > h  BY <1>1
  <1>3. PICK j \in 1..MaxMatches : p + j * FrameLen <= e /\ ~IsHeader(src.cells[p + j * FrameLen])
    BY <1>2 DEF Hidden
  <1>4. p + j * FrameLen \in Nat
    <2>1. j \in Nat  OBVIOUS
    <2>2. j * FrameLen \in Nat  BY <2>1, AtFacts
    <2> QED  BY <1>1, <2>2
  <1>5. p + j * FrameLen <= c
    <2>1. PICK q \in Nat : q = p + j * FrameLen  BY <1>4
    <2>2. q <= e  BY <1>3, <2>1
    <2> QED  BY <2>1, <2>2
  <1> QED  BY <1>3, <1>5

\* No frame follows further on either.
LEMMA GoneGrows ==
    ASSUME Whole, NEW h \in Nat, NEW g \in Nat, Gone(h), h <= g PROVE Gone(g)
  <1> SUFFICES ASSUME NEW p \in DOMAIN src.cells, p > g PROVE ~IsHeader(src.cells[p])  BY DEF Gone
  <1>1. p \in Nat  BY SrcTypes, LenNat DEF Whole
  <1>2. p > h  BY <1>1
  <1> QED  BY <1>2 DEF Gone

\* In front of a frame, with the header it knows or none: it finds that frame or nothing.
LEMMA HitHere ==
    ASSUME Whole, NEW b, NEW n, NEW h, View(b, n, h), NEW j \in Nat, h = At(j),
           dec = Cold \/ dec.hdr = Kind, OffIn(b) < n
    PROVE  OffIn(b) = 0 /\ j < Many /\ Base(b) = dec
  <1>1. /\ b \in Seq(CellType) /\ n \in Nat /\ h \in Nat /\ n = Len(b)
        /\ \A i \in 1..n : b[i] = src.cells[h + i] /\ h + i \in DOMAIN src.cells
    BY ViewFacts
  <1>2. FrameLen \in Nat /\ FrameLen > 1 /\ MaxMatches \in Nat /\ MaxMatches > 0  BY ConstTypes
  <1>3. CASE FastPath(b)
    <2>1. n > 0 /\ IsHeader(b[1])  BY <1>1, <1>3, FastPathFacts
    <2>2. 1 \in 1..n  BY <1>1, <2>1
    <2>3. h + 1 \in DOMAIN src.cells /\ IsHeader(src.cells[h + 1])  BY <1>1, <2>1, <2>2
    <2>4. PICK k \in Nat : k < Many /\ h + 1 = At(k) + 1  BY <2>3, HeadAt
    <2>5. PICK a \in Nat : a = At(k)  BY AtFacts
    <2>6. At(k) >= At(j)  BY <1>1, <2>4, <2>5
    <2>7. k >= j  BY <2>6, AtFacts
    <2>8. j < Many  BY <2>4, <2>7, ShapeFacts
    <2> QED  BY <1>3, <2>8 DEF OffIn, Base
  <1>4. CASE ~FastPath(b)
    <2>1. OffIn(b) = FindFrame(b) /\ Base(b) = Cold  BY <1>4 DEF OffIn, Base
    <2>2. j < Many /\ OffIn(b) = At(j) - h
      <3>1. h <= At(j)  BY <1>1
      <3>2. FindFrame(b) < n  BY <2>1
      <3> QED  BY <2>1, <3>1, <3>2, FirstHit
    <2>3. OffIn(b) = 0  BY <1>1, <2>2
    <2>4. ASSUME dec.hdr = Kind PROVE FALSE
      <3>1. 0 < n /\ FindFrame(b) = 0  BY <2>1, <2>3
      <3>2. Confirmed(b, 1) /\ 1 \in 1..n
        <4>1. Confirmed(b, 0 + 1)  BY <1>1, <3>1, FindFrameFacts
        <4>2. 0 + 1 = 1 /\ 1 \in 1..n  BY <1>1, <3>1
        <4> QED  BY <4>1, <4>2
      <3>3. PICK k \in Nat : k < Many /\ h + 1 = At(k) + 1 /\ Followed(1, k, n) /\ Fits(1, n)
        BY <3>2, ConfirmedAt
      <3>4. b[1] = src.cells[At(k) + 1]  BY <1>1, <3>2, <3>3
      <3>5. IsHeader(b[1]) /\ b[1].kind = Kind  BY <3>3, <3>4, FrameAt
      <3>6. ASSUME 1 + FrameLen <= n PROVE Same(b[1], b[FrameLen + 1])
        <4>1. 1 \in 1..MaxMatches /\ 1 * FrameLen = FrameLen  BY <1>2
        <4>2. k + 1 < Many  BY <3>6, <4>1, <3>3 DEF Followed
        <4>3. Same(src.cells[At(k) + 1], src.cells[At(k + 1) + 1])  BY <3>3, <4>2, SameKind
        <4>4. PICK a \in Nat : a = At(k) /\ At(k + 1) = a + FrameLen  BY AtFacts
        <4>5. h + 1 = a + 1  BY <3>3, <4>4
        <4>6. h + (FrameLen + 1) = At(k + 1) + 1
          <5>1. h \in Nat  BY <1>1
          <5>2. h + (FrameLen + 1) = a + FrameLen + 1  BY <1>2, <4>5, <5>1
          <5> QED  BY <4>4, <5>2
        <4>7. FrameLen + 1 \in 1..n  BY <1>1, <1>2, <3>6
        <4>8. b[FrameLen + 1] = src.cells[At(k + 1) + 1]  BY <1>1, <4>6, <4>7
        <4> QED  BY <3>4, <4>3, <4>8
      <3>7. n > 1 /\ (n = FrameLen \/ (n > FrameLen /\ 1 + FrameLen <= n))
        BY <1>1, <1>2, <3>3 DEF Fits
      <3>8. FastPath(b)  BY <1>1, <2>4, <3>5, <3>6, <3>7 DEF FastPath
      <3> QED  BY <1>4, <3>8
    <2> QED  BY <2>1, <2>2, <2>3, <2>4
  <1> QED  BY <1>3, <1>4

\* Nothing: no frame that is left can be confirmed by what the buffer shows, and all
\* begin in it.
LEMMA MissHere ==
    ASSUME Whole, NEW b, NEW n, NEW h, View(b, n, h), NEW j \in Nat, h = At(j),
           dec.hdr = Kind \/ (dec = Cold /\ Kind = Sized), OffIn(b) = n, n > FrameLen
    PROVE  Hidden(h, h + n) /\ Gone(h + n)
  <1>1. /\ b \in Seq(CellType) /\ n \in Nat /\ h \in Nat /\ n = Len(b) /\ h + n <= Len(src.cells)
        /\ \A i \in 1..n : b[i] = src.cells[h + i] /\ h + i \in DOMAIN src.cells
    BY ViewFacts
  <1>2. FrameLen \in Nat /\ FrameLen > 1 /\ MaxMatches \in Nat /\ MaxMatches > 0  BY ConstTypes
  <1>3. ~FastPath(b) /\ FindFrame(b) = n
    <2>1. FastPath(b) => OffIn(b) = 0  BY DEF OffIn
    <2>2. ~FastPath(b)  BY <1>1, <1>2, <2>1
    <2> QED  BY <2>2 DEF OffIn
  <1>4. CASE ~(j < Many)
    <2>1. Hidden(h, h + n)  BY <1>1, <1>4, NoneLeft
    <2>2. h + n \in Nat /\ At(j) <= h + n  BY <1>1
    <2>3. Gone(h + n)  BY <1>4, <2>2, NoneLeft
    <2> QED  BY <2>1, <2>3
  <1>5. CASE j < Many
    <2>1. 1 \in 1..n /\ 1 + FrameLen <= n /\ h + 1 = At(j) + 1  BY <1>1, <1>2
    <2>2. ~Followed(1, j, n)
      <3>1. CASE dec = Cold /\ Kind = Sized
        <4>1. Fits(1, n)  BY <2>1, <3>1 DEF Fits, Sized, Free
        <4> QED  BY <1>3, <1>5, <2>1, <4>1, NotFound
      <3>2. CASE dec.hdr = Kind
        <4> SUFFICES ASSUME Followed(1, j, n) PROVE FALSE  OBVIOUS
        <4>1. 1 \in 1..MaxMatches /\ 1 * FrameLen = FrameLen  BY <1>2
        <4>2. j + 1 < Many  BY <2>1, <4>1 DEF Followed
        <4>3. Same(src.cells[At(j) + 1], src.cells[At(j + 1) + 1])  BY <1>5, <4>2, SameKind
        <4>4. PICK a \in Nat : a = At(j) /\ At(j + 1) = a + FrameLen  BY AtFacts
        <4>5. h + (FrameLen + 1) = At(j + 1) + 1  BY <1>1, <1>2, <4>4
        <4>6. FrameLen + 1 \in 1..n  BY <1>1, <1>2, <2>1
        <4>7. b[FrameLen + 1] = src.cells[At(j + 1) + 1] /\ b[1] = src.cells[At(j) + 1]
          BY <1>1, <2>1, <4>5, <4>6
        <4>8. IsHeader(b[1]) /\ b[1].kind = Kind  BY <1>5, <4>7, FrameAt
        <4>9. Len(b) > 1 /\ Len(b) > FrameLen  BY <1>1, <1>2
        <4>10. FastPath(b)  BY <3>2, <4>3, <4>7, <4>8, <4>9 DEF FastPath
        <4> QED  BY <1>3, <4>10
      <3> QED  BY <3>1, <3>2
    <2> QED  BY <1>1, <2>1, <2>2, NotFollowed
  <1> QED  BY <1>4, <1>5

\* Before the first frame: it finds that one,
LEMMA HitFirst ==
    ASSUME Whole, NEW b, NEW n, NEW h, View(b, n, h), h <= Lead, dec = Cold, OffIn(b) < n
    PROVE  0 < Many /\ h + OffIn(b) = Lead /\ Base(b) = dec
  <1>1. ~FastPath(b)  BY ColdSlow
  <1>2. OffIn(b) = FindFrame(b) /\ Base(b) = Cold  BY <1>1 DEF OffIn, Base
  <1>3. At(0) = Lead /\ 0 \in Nat /\ Lead \in Nat /\ h \in Nat  BY AtFacts, ShapeFacts, ViewFacts
  <1>4. FindFrame(b) < n /\ h <= At(0)  BY <1>2, <1>3
  <1>5. 0 < Many /\ FindFrame(b) = At(0) - h  BY <1>3, <1>4, FirstHit
  <1> QED  BY <1>2, <1>3, <1>5

\* or drops, of a whole window, what does not reach it.
LEMMA MissFirst ==
    ASSUME Whole, NEW b, NEW n, NEW h, View(b, n, h), h <= Lead, dec = Cold, OffIn(b) = n,
           n = ResyncWindow
    PROVE  \/ Hidden(h, h + n)
           \/ h + (n - Retain) <= Lead /\ 2 * SmallWindow + FrameLen < ResyncWindow
  <1>1. /\ b \in Seq(CellType) /\ n \in Nat /\ h \in Nat /\ n = Len(b) /\ h + n <= Len(src.cells)
    BY ViewFacts
  <1>2. /\ FrameLen \in Nat /\ FrameLen > 1 /\ SmallWindow \in Nat /\ SmallWindow > FrameLen
    BY ConstTypes
  <1>3. Lead \in Nat /\ Many \in Nat /\ At(0) = Lead /\ 0 \in Nat  BY AtFacts, ShapeFacts
  <1>4. ~FastPath(b) /\ FindFrame(b) = n
    <2>1. ~FastPath(b)  BY ColdSlow
    <2> QED  BY <2>1 DEF OffIn
  <1>5. PICK i \in Nat : h + i = Lead + 1 /\ i >= 1 /\ i <= Lead + 1
    <2>1. Lead + 1 - h \in Nat /\ h + (Lead + 1 - h) = Lead + 1 /\ Lead + 1 - h >= 1
          /\ Lead + 1 - h <= Lead + 1
      BY <1>1, <1>3
    <2> QED  BY <2>1
  <1>6. CASE Many = 0
    <2>1. ~(0 < Many)  BY <1>6
    <2>2. Hidden(h, h + n)
      <3>1. \A p \in DOMAIN src.cells : ~IsHeader(src.cells[p])
        <4> SUFFICES ASSUME NEW p \in DOMAIN src.cells, IsHeader(src.cells[p]) PROVE FALSE  OBVIOUS
        <4>1. PICK k \in Nat : k < Many  BY HeadAt
        <4> QED  BY <1>6, <4>1
      <3> QED  BY <3>1 DEF Hidden
    <2> QED  BY <2>2
  <1>7. CASE 0 < Many /\ i \in 1..n /\ Fits(i, n)
    <2>1. h + i = At(0) + 1  BY <1>3, <1>5
    <2>2. ~Followed(i, 0, n)  BY <1>3, <1>4, <1>7, <2>1, NotFound
    <2> QED  BY <1>1, <1>3, <1>7, <2>1, <2>2, NotFollowed
  <1>8. CASE ~(i \in 1..n /\ Fits(i, n))
    <2>1. i + FrameLen > n \/ (Kind = Free /\ i + 2 * FrameLen >= n)
      BY <1>1, <1>2, <1>5, <1>8 DEF Fits
    <2>2. /\ Kind = Free => 2 * FrameLen <= SmallWindow
          /\ \/ Lead + 2 * FrameLen + 1 < ResyncWindow
             \/ 2 * SmallWindow + FrameLen < ResyncWindow
      BY ShapeFacts DEF Proportions
    <2>3. ~(Lead + 2 * FrameLen + 1 < n)  BY <1>1, <1>2, <1>3, <1>5, <2>1
    <2>4. h + (n - (SmallWindow + 1)) <= Lead  BY <1>1, <1>2, <1>3, <1>5, <2>1, <2>2
    <2> QED  BY <2>2, <2>3, <2>4 DEF Retain
  <1> QED  BY <1>3, <1>6, <1>7, <1>8

\* Where nothing ahead can be confirmed, nothing is found.
LEMMA MissHidden ==
    ASSUME Whole, NEW b, NEW n, NEW h, View(b, n, h), dec = Cold, n > 0, Hidden(h, h + n)
    PROVE  OffIn(b) = n
  <1>1. /\ b \in Seq(CellType) /\ n \in Nat /\ h \in Nat /\ n = Len(b) /\ h + n <= Len(src.cells)
        /\ Len(src.cells) \in Nat
        /\ \A i \in 1..n : b[i] = src.cells[h + i] /\ h + i \in DOMAIN src.cells
    BY ViewFacts
  <1>2. OffIn(b) = FindFrame(b)
    <2>1. ~FastPath(b)  BY ColdSlow
    <2> QED  BY <2>1 DEF OffIn
  <1>3. FindFrame(b) \in 0..n  BY <1>1, FindFrameFacts
  <1> SUFFICES ASSUME FindFrame(b) < n PROVE FALSE  BY <1>1, <1>2, <1>3
  <1>4. PICK i \in 1..n : Confirmed(b, i)
    <2>1. Confirmed(b, FindFrame(b) + 1) /\ FindFrame(b) + 1 \in 1..n - 1  BY <1>1, FindFrameFacts
    <2>2. FindFrame(b) + 1 \in 1..n  BY <1>1, <2>1
    <2> QED  BY <2>1, <2>2
  <1>5. PICK k \in Nat : k < Many /\ h + i = At(k) + 1 /\ Followed(i, k, n) /\ Fits(i, n)
    BY <1>4, ConfirmedAt
  <1>6. h + i \in DOMAIN src.cells /\ h + i > h /\ IsHeader(src.cells[h + i])
    <2>1. b[i] = src.cells[h + i] /\ h + i \in DOMAIN src.cells /\ h + i > h  BY <1>1
    <2>2. IsHeader(b[i])  BY <1>1, <1>4, ConfirmedFacts
    <2> QED  BY <2>1, <2>2
  <1>7. ~(h + i + FrameLen > Len(src.cells) + 1)
    <2>1. i + FrameLen <= n + 1  BY <1>1, <1>5, ConstTypes DEF Fits
    <2> QED  BY <1>1, <2>1, ConstTypes
  <1>8. PICK j \in 1..MaxMatches :
           h + i + j * FrameLen <= h + n /\ ~IsHeader(src.cells[h + i + j * FrameLen])
    BY <1>6, <1>7 DEF Hidden
  <1>9. j \in Nat /\ j * FrameLen \in Nat
    <2>1. j \in Nat  OBVIOUS
    <2> QED  BY <2>1, AtFacts
  <1>10. i + j * FrameLen <= n
    <2>1. PICK q \in Nat : q = j * FrameLen  BY <1>9
    <2>2. h + i + q <= h + n  BY <1>8, <2>1
    <2>3. i + q <= n  BY <1>1, <2>2
    <2> QED  BY <2>1, <2>3
  <1>11. k + j < Many  BY <1>5, <1>10 DEF Followed
  <1>12. h + i + j * FrameLen = At(k) + 1 + j * FrameLen  BY <1>5
  <1>13. IsHeader(src.cells[h + i + j * FrameLen])
    <2>1. PICK p : p = h + i + j * FrameLen  OBVIOUS
    <2>2. p = At(k) + 1 + j * FrameLen  BY <1>12, <2>1
    <2>3. IsHeader(src.cells[p])  BY <1>9, <1>11, <2>2, OnFrom
    <2> QED  BY <2>1, <2>3
  <1> QED  BY <1>8, <1>13

\* Where no frame follows, none is confirmed.
LEMMA GoneHidden == ASSUME NEW h, Gone(h), NEW e PROVE Hidden(h, e)
  BY DEF Gone, Hidden

\* Before the first frame there is none.
LEMMA MissBlind ==
    ASSUME Whole, NEW b, NEW n, NEW h, View(b, n, h), dec = Cold, n > 0, h + n <= Lead
    PROVE  OffIn(b) = n
  <1>1. b \in Seq(CellType) /\ n \in Nat /\ h \in Nat /\ n = Len(b)  BY ViewFacts
  <1>2. OffIn(b) = FindFrame(b)
    <2>1. ~FastPath(b)  BY ColdSlow
    <2> QED  BY <2>1 DEF OffIn
  <1>3. FindFrame(b) \in 0..n  BY <1>1, FindFrameFacts
  <1>4. At(0) = Lead /\ 0 \in Nat /\ Lead \in Nat  BY AtFacts, ShapeFacts
  <1> SUFFICES ASSUME FindFrame(b) < n PROVE FALSE  BY <1>1, <1>2, <1>3
  <1>5. FindFrame(b) = At(0) - h
    <2>1. h <= At(0)  BY <1>1, <1>4
    <2> QED  BY <1>4, <2>1, FirstHit
  <1> QED  BY <1>1, <1>4, <1>5

-----------------------------------------------------------------------------
(***************************************************************************)
(* What decoding a frame of the source leaves.                             *)
(***************************************************************************)
\* Frame `id', decoded with the overlap of `prev'.
Decoded(o, off, id, prev, run) ==
    /\ o.hit /\ o.ok /\ o.off = off /\ o.id = id /\ o.prev = prev /\ o.bytes = off + FrameLen
    /\ o.dec.hdr = Kind /\ o.dec.prev = id /\ o.dec.run = Least(run + 1, PrimeFrames)

\* Decoding the k-th frame of the source, from the state it finds.
LEMMA HitFrame ==
    ASSUME Whole, DecTypes(dec), NEW b, NEW n, NEW h, View(b, n, h), n > 0,
           NEW off, off = OffIn(b), off < n, NEW k \in Nat, k < Many, h + off = At(k),
           Base(b) = dec, NEW o, o = DecodeFrame(b)
    PROVE  /\ o.hit /\ o.off = off /\ o.id = First + k /\ o.prev = dec.prev
           /\ o.bytes = off + FrameLen /\ o.dec.hdr = Kind
           /\ o.dec.run = Least(dec.run + 1, PrimeFrames)
           /\ Most(0, Least(First + k - 1, PrimeFrames - 1)) <= dec.run =>
                 Decoded(o, off, First + k, dec.prev, dec.run)
  <1>1. /\ b \in Seq(CellType) /\ n \in Nat /\ h \in Nat /\ n = Len(b)
        /\ \A i \in 1..n : b[i] = src.cells[h + i] /\ h + i \in DOMAIN src.cells
    BY ViewFacts
  <1>2. off \in 0..n  BY <1>1, OffInFacts
  <1>3. off + 1 \in 1..n /\ h + (off + 1) = At(k) + 1  BY <1>1, <1>2
  <1>4. b[off + 1] = src.cells[At(k) + 1]  BY <1>1, <1>3
  <1>5. /\ b[off + 1].kind = Kind /\ b[off + 1].id = First + k
        /\ b[off + 1].need <= Most(0, Least(First + k - 1, PrimeFrames - 1))
    BY <1>4, FrameAt
  <1>6. o = HitAt(b, off)  BY <1>1, DecodeHit
  <1>7. /\ o.hit /\ o.off = off /\ o.id = b[off + 1].id /\ o.ok = (b[off + 1].need <= dec.run)
        /\ o.prev = dec.prev /\ o.bytes = off + FrameLen /\ o.dec = After(b, off)
    BY <1>6 DEF HitAt
  <1>8. /\ o.dec.hdr = Kind /\ o.dec.run = Least(dec.run + 1, PrimeFrames)
        /\ b[off + 1].need <= dec.run => o.dec.prev = First + k
    BY <1>5, <1>7 DEF After
  <1>9. ASSUME Most(0, Least(First + k - 1, PrimeFrames - 1)) <= dec.run
        PROVE  b[off + 1].need <= dec.run
    <2>1. b[off + 1].need \in Nat
      <3>1. b[off + 1] \in CellType  BY <1>1, <1>3, ElementOfSeq
      <3> QED  BY <3>1, CellFacts
    <2>2. dec.run \in Nat  BY DEF DecTypes
    <2>3. Most(0, Least(First + k - 1, PrimeFrames - 1)) \in Int
      <3>1. First + k - 1 \in Int /\ PrimeFrames - 1 \in Int  BY ShapeFacts, ConstTypes
      <3> QED  BY <3>1 DEF Most, Least
    <2> QED  BY <1>5, <1>9, <2>1, <2>2, <2>3
  <1> QED  BY <1>5, <1>7, <1>8, <1>9 DEF Decoded

\* What the main data of a frame needs is what the frames from the first, or from a
\* lead-in, leave.
LEMMA Reach ==
    ASSUME Whole, NEW id \in Nat, NEW run \in Nat, run >= Least(PrimeFrames, Most(0, id - 1))
    PROVE  /\ Most(0, Least(id - 1, PrimeFrames - 1)) <= run
           /\ Least(run + 1, PrimeFrames) >= Least(PrimeFrames, id)
  BY ConstTypes DEF Least, Most

\* The lead-in of a seek reaches as far as the frame's main data does.
LEMMA ReachLeadIn ==
    ASSUME Whole, NEW frame \in Nat, NEW target \in Nat, NEW prime, prime = PrimeFrom(target),
           prime <= frame, frame <= target, NEW run \in Nat, run >= Least(PrimeFrames, frame - prime)
    PROVE  /\ Least(run + 1, PrimeFrames) >= Least(PrimeFrames, frame + 1 - prime)
           /\ frame + 1 >= target => Most(0, Least(frame, PrimeFrames - 1)) <= run
           /\ frame = target => Least(run + 1, PrimeFrames) >= Least(PrimeFrames, frame + 1)
  BY ConstTypes DEF Least, Most, PrimeFrom

-----------------------------------------------------------------------------
(***************************************************************************)
(* Whole sources: every step keeps the decoder on its frames.              *)
(***************************************************************************)
LEMMA WNext ==
    ASSUME UNCHANGED file, src.whole => Synced(d', dec', call', expect') /\ AudioKnown(d')
    PROVE  WInv'
  <1>1. /\ src' = src /\ Lead' = Lead /\ Many' = Many /\ Kind' = Kind /\ First' = First
        /\ Start' = Start /\ AudioAt' = AudioAt
    BY DEF src, Lead, Many, Kind, First, Start, AudioAt, At
  <1> QED
    BY <1>1
       DEF WInv, Synced, AudioKnown, Reading, Priming, Aligned, Gone, Blind, NotYet, Astray, Lost,
         Hidden, On, Placed, Counted, Timed, Warm, At, Live, Here

LEMMA KnownNext ==
    ASSUME UNCHANGED file, src.whole => AudioKnown(d'), adrift' PROVE WInv'
  <1>1. src' = src /\ Lead' = Lead /\ Start' = Start /\ AudioAt' = AudioAt
    BY DEF src, Lead, First, Start, AudioAt, At
  <1> QED  BY <1>1 DEF WInv, AudioKnown

\* A frame decoded where the one before it ended: what is counted, and what is kept of it.
Passes(f, o, g) ==
    /\ Here(g) = Here(f) + o.bytes /\ g.tagChecked /\ g.seen
    /\ g.produced = f.produced + FrameSize /\ g.end = f.end
    /\ \/ g.pending = <<>> /\ f.produced + FrameSize <= f.start
       \/ LET from == Most(f.produced, f.start)
              to == Least(f.produced + FrameSize, f.end)
          IN  /\ from < to /\ f.produced < f.end
              /\ g.pending # <<>> /\ Len(g.pending) = to - from
              /\ \A i \in DOMAIN g.pending :
                    g.pending[i] = <<o.id, o.prev, from - f.produced + i - 1>>

\* A frame that is counted, by the fields it changes.
LEMMA KeptIs ==
    ASSUME file \in DOMAIN Sources, NEW f, NEW o, Hit(f, o), NEW g, g = Kept(f, o)
    PROVE  /\ Sound(g) /\ Live(g) /\ g.rate /\ g.seen /\ g.tagChecked
           /\ g.produced = f.produced + FrameSize /\ Here(g) = Here(f) + o.bytes
           /\ g.audioStart = IF f.seen THEN f.audioStart ELSE f.audioStart + o.off
           /\ g.pending = f.pending /\ g.start = f.start /\ g.end = f.end
           /\ g.frames = f.frames /\ g.total = f.total
  <1>1. /\ Sound(g) /\ Live(g) /\ Changed(g, f, SeenFields \cup {"produced", "rate"})
        /\ g.rate /\ g.seen /\ g.tagChecked /\ g.produced = f.produced + FrameSize
        /\ Here(g) = Here(f) + o.bytes
        /\ g.audioStart = IF f.seen THEN f.audioStart ELSE f.audioStart + o.off
    BY KeptFacts
  <1>2. /\ g.pending = f.pending /\ g.start = f.start /\ g.end = f.end
        /\ g.frames = f.frames /\ g.total = f.total
    BY <1>1, ChangedFields DEF SeenFields
  <1> QED  BY <1>1, <1>2

\* A turn that decodes a frame passes it, or ends the stream.
LEMMA FramePasses ==
    ASSUME file \in DOMAIN Sources, NEW f, NEW o, Frame(f, o), f.tagChecked \/ o.id # 0, o.ok,
           call.at = "decode", f.pending = <<>>
    PROVE  /\ d'.start = f.start /\ d'.rate
           /\ d'.audioStart = IF f.seen THEN f.audioStart ELSE f.audioStart + o.off
           /\ Live(d') => Passes(f, o, d') /\ call'.at \in {"decode", "back"}
  <1>0. Hit(f, o)  BY DEF Frame
  <1>1. Hit(f, o) /\ (Trims(f, o) \/ PastEnd(f, o) \/ HandsOut(f, o))
    BY DEF Frame, Tags, Skips
  <1>01. PICK g : g = Kept(f, o)  OBVIOUS
  <1>2. /\ Sound(g) /\ Live(g) /\ g.rate /\ g.seen /\ g.tagChecked
        /\ g.produced = f.produced + FrameSize /\ Here(g) = Here(f) + o.bytes
    BY <1>0, <1>01, KeptIs
  <1>3. /\ g.audioStart = IF f.seen THEN f.audioStart ELSE f.audioStart + o.off
        /\ g.pending = f.pending /\ g.start = f.start /\ g.end = f.end
    BY <1>0, <1>01, KeptIs
  <1>4. CASE Trims(f, o)
    <2>1. d' = g /\ f.produced + FrameSize <= f.start /\ CallChanged({"window", "skipped"})
      BY <1>01, <1>4 DEF Trims, GoesOn
    <2>2. call'.at = call.at  BY <2>1 DEF CallChanged, CallFields
    <2>3. Passes(f, o, d')  BY <1>2, <1>3, <2>1 DEF Passes
    <2> QED  BY <1>2, <1>3, <2>1, <2>2, <2>3
  <1>5. CASE PastEnd(f, o)
    <2>1. d' = [g EXCEPT !.done = TRUE]  BY <1>01, <1>5 DEF PastEnd
    <2>2. ~Live(d') /\ Changed(d', g, {"done"})  BY <1>2, <2>1, DoneFacts
    <2>3. d'.start = g.start /\ d'.rate = g.rate /\ d'.audioStart = g.audioStart
      BY <2>2, ChangedFields
    <2> QED  BY <1>2, <1>3, <2>2, <2>3
  <1>6. CASE HandsOut(f, o)
    <2> DEFINE from == Most(f.produced, f.start)
               to == Least(f.produced + FrameSize, f.end)
               s == Samples(o, from - f.produced, to - f.produced)
    <2>1. /\ from < to /\ d' = [g EXCEPT !.pending = s] /\ call'.at = "back" /\ f.produced < f.end
      BY <1>01, <1>6 DEF HandsOut
    <2>2. f.produced \in Nat /\ f.start \in Nat /\ f.end \in Nat /\ FrameSize \in Nat
      BY <1>1, ConstTypes DEF Hit, Sound, DTypes
    <2>3. /\ from \in Nat /\ to \in Nat /\ f.produced <= from /\ to <= f.produced + FrameSize
      BY <2>2 DEF Most, Least
    <2>4. PICK a \in Nat, z \in Int : a = from - f.produced /\ z = to - f.produced
      BY <2>2, <2>3
    <2>5. /\ a < z /\ z <= FrameSize /\ Most(0, z - a) = z - a /\ z - a \in Nat /\ z - a > 0
          /\ z - a = to - from
      <3>1. a < z /\ z <= FrameSize /\ z - a = to - from  BY <2>1, <2>2, <2>3, <2>4
      <3> QED  BY <3>1 DEF Most
    <2> HIDE DEF from, to
    <2>6. s = Samples(o, a, z)  BY <2>4
    <2>7. o.id \in Nat /\ o.prev \in Nat  BY <1>1 DEF Hit
    <2> HIDE DEF s
    <2>8. /\ s \in Seq(Sample) /\ Len(s) = z - a /\ DOMAIN s = 1..z - a
          /\ \A k \in DOMAIN s : s[k] = <<o.id, o.prev, a + k - 1>>
      <3>1. /\ s \in Seq(Sample) /\ Len(s) = Most(0, z - a) /\ DOMAIN s = 1..Most(0, z - a)
            /\ \A k \in DOMAIN s : s[k] = <<o.id, o.prev, a + k - 1>>
        BY <2>6, <2>7, SamplesFacts
      <3> QED  BY <2>5, <3>1
    <2>9. Len(s) <= FrameSize /\ s # <<>>
      <3>1. z - a <= FrameSize  BY <2>2, <2>5
      <3>2. Len(s) # 0  BY <2>5, <2>8
      <3> QED  BY <2>8, <3>1, <3>2, EmptyLen
    <2>10. d'.pending = s /\ Changed(d', g, {"pending"}) /\ Here(d') = Here(g)
      BY <1>2, <2>1, <2>8, <2>9, PendingFacts
    <2>11. /\ d'.start = g.start /\ d'.rate = g.rate /\ d'.audioStart = g.audioStart
           /\ d'.tagChecked = g.tagChecked /\ d'.seen = g.seen /\ d'.produced = g.produced
           /\ d'.end = g.end
      BY <2>10, ChangedFields
    <2>12. \A i \in DOMAIN s : s[i] = <<o.id, o.prev, from - f.produced + i - 1>>  BY <2>4, <2>8
    <2>13. /\ from < to /\ d'.pending # <<>> /\ Len(d'.pending) = to - from
           /\ \A i \in DOMAIN d'.pending :
                 d'.pending[i] = <<o.id, o.prev, from - f.produced + i - 1>>
      BY <2>1, <2>5, <2>8, <2>9, <2>10, <2>12
    <2>14. Passes(f, o, d')
      BY <1>2, <1>3, <2>1, <2>10, <2>11, <2>13, Zenon DEF Passes, from, to
    <2> QED  BY <1>2, <1>3, <2>1, <2>11, <2>14
  <1> QED  BY <1>1, <1>4, <1>5, <1>6

\* The samples that come next stay the ones expected.
LEMMA TimedOn ==
    ASSUME Whole, NEW f, DTypes(f), NEW o, NEW g, NEW id \in Nat, NEW e \in Nat, Timed(f, e, id),
           f.pending = <<>>, f.start = Start, f.produced = id * FrameSize, Passes(f, o, g),
           o.id = id + 1, o.prev = id
    PROVE  g.produced = (id + 1) * FrameSize /\ Timed(g, e, id + 1)
  <1>1. PICK p \in Nat, start \in Nat, end \in Nat, size \in Nat :
           p = f.produced /\ start = f.start /\ end = f.end /\ size = FrameSize
    BY ConstTypes DEF DTypes
  <1>2. p = id * FrameSize /\ (id + 1) * FrameSize = p + size
    <2>1. (id + 1) * FrameSize = id * FrameSize + FrameSize  BY ConstTypes
    <2> QED  BY <1>1, <2>1
  <1>3. g.produced = p + size /\ g.end = end  BY <1>1 DEF Passes
  <1>4. p < end => e + start = Most(start, p)  BY <1>1 DEF Timed
  <1>5. CASE g.pending = <<>> /\ f.produced + FrameSize <= f.start
    <2>1. p + size <= start  BY <1>1, <1>5
    <2>2. p + size < end => e + start = Most(start, p + size)  BY <1>4, <2>1 DEF Most
    <2> QED  BY <1>1, <1>2, <1>3, <1>5, <2>2 DEF Timed
  <1>6. CASE /\ Most(p, start) < Least(p + size, end) /\ p < end
             /\ g.pending # <<>> /\ Len(g.pending) = Least(p + size, end) - Most(p, start)
             /\ \A i \in DOMAIN g.pending :
                   g.pending[i] = <<o.id, o.prev, Most(p, start) - p + i - 1>>
    <2>1. PICK x \in 0..size - 1, to \in Nat :
             /\ p + x = Most(p, start) /\ x = Most(p, start) - p /\ to = Least(p + size, end)
             /\ p + x < to /\ to <= p + size /\ (p + size < end => to = p + size)
      <3>1. Most(p, start) - p \in 0..size - 1 /\ p + (Most(p, start) - p) = Most(p, start)
        BY <1>6 DEF Most, Least
      <3>2. /\ Least(p + size, end) \in Nat /\ Least(p + size, end) <= p + size
            /\ (p + size < end => Least(p + size, end) = p + size)
        BY DEF Least
      <3> QED  BY <1>6, <3>1, <3>2
    <2>2. Most(p, start) = Most(start, p)  BY DEF Most
    <2>3. Len(g.pending) = to - (p + x)  BY <1>6, <2>1
    <2>4. x + Len(g.pending) <= size
      <3>1. PICK m \in Int : m = Len(g.pending) /\ m = to - (p + x)  BY <2>3
      <3>2. to <= p + size  BY <2>1
      <3>3. x + m <= size  BY <3>1, <3>2
      <3> QED  BY <3>1, <3>3
    <2>5. g.produced < g.end => x + Len(g.pending) = size  BY <1>3, <2>1, <2>3
    <2>6. e + start = p + x  BY <1>4, <1>6, <2>1, <2>2
    <2>7. (id + 1) - 1 = id  OBVIOUS
    <2>8. \A i \in DOMAIN g.pending : g.pending[i] = <<id + 1, (id + 1) - 1, x + i - 1>>
      BY <1>6, <2>1, <2>7
    <2>9. e + Start = ((id + 1) - 1) * FrameSize + x  BY <1>1, <1>2, <2>6, <2>7
    <2>10. x \in 0..FrameSize - 1  BY <1>1
    <2>11. /\ x + Len(g.pending) <= FrameSize
           /\ g.produced < g.end => x + Len(g.pending) = FrameSize
      BY <1>1, <2>4, <2>5
    <2>12. \E y \in 0..FrameSize - 1 :
              /\ y + Len(g.pending) <= FrameSize
              /\ g.produced < g.end => y + Len(g.pending) = FrameSize
              /\ e + Start = ((id + 1) - 1) * FrameSize + y
              /\ \A i \in DOMAIN g.pending : g.pending[i] = <<id + 1, (id + 1) - 1, y + i - 1>>
      BY <2>8, <2>9, <2>10, <2>11
    <2>13. Timed(g, e, id + 1)  BY <1>6, <2>12, Zenon DEF Timed
    <2> QED  BY <1>2, <1>3, <2>13
  <1> QED  BY <1>1, <1>5, <1>6 DEF Passes

-----------------------------------------------------------------------------
(***************************************************************************)
(* Whole sources: a turn of the decode loop.                               *)
(***************************************************************************)
\* Changing none of these fields makes a decoder alike.
LEMMA AlikeChanged ==
    ASSUME NEW f, NEW g, NEW S, Changed(g, f, S), Here(g) = Here(f),
           S \cap {"tagChecked", "seen", "rate", "start", "end", "produced", "audioStart", "pending"} = {}
    PROVE  Alike(g, f)
  <1>1. /\ "tagChecked" \notin S /\ "seen" \notin S /\ "rate" \notin S /\ "start" \notin S
        /\ "end" \notin S /\ "produced" \notin S /\ "audioStart" \notin S /\ "pending" \notin S
    OBVIOUS
  <1> QED  BY <1>1, ChangedFields DEF Alike, Stays

\* A decoder alike is behind the same frame.
LEMMA AlikeOn ==
    ASSUME NEW f, NEW g, Alike(g, f), NEW s, NEW e, NEW id, On(f, s, e, id)
    PROVE  On(g, s, e, id)
  <1>1. Placed(g, s, id)  BY DEF Alike, Stays, On, Placed
  <1>2. Counted(g, id)  BY DEF Alike, Stays, On, Counted, Astray
  <1>3. Timed(g, e, id)  BY DEF Alike, Stays, On, Timed
  <1> QED  BY <1>1, <1>2, <1>3 DEF On

\* Or before the first, as the other was.
LEMMA AlikeNotYet ==
    ASSUME NEW f, NEW g, Alike(g, f), NEW s, NEW e, NotYet(f, s, e)
    PROVE  NotYet(g, s, e)
  BY DEF Alike, Stays, NotYet, Astray

\* What is known of the audio's start depends on three fields.
LEMMA SameAudio ==
    ASSUME NEW f, NEW g, g.rate = f.rate, g.start = f.start, g.audioStart = f.audioStart,
           AudioKnown(f)
    PROVE  AudioKnown(g)
  BY DEF AudioKnown

\* What a turn begins with.
Turning(f) ==
    /\ Sound(f) /\ Live(f) /\ Filled(f, call.window) /\ Turn(f) /\ call.at = "decode"
    /\ f.pending = <<>> /\ call.window \in {SmallWindow, ResyncWindow} /\ DecTypes(dec) /\ ~adrift

Found(f, o) ==
    /\ o = DecodeFrame(f.buf) /\ OffIn(f.buf) < Len(f.buf) /\ Frame(f, o) /\ dec' = o.dec
    /\ o.hit /\ Len(f.buf) > 0
Missed(f) ==
    /\ OffIn(f.buf) = Len(f.buf) /\ dec' = Cold /\ Len(f.buf) > FrameLen
    /\ Widens(f) \/ Drops(f)

\* A turn ends the stream in front of no frame, finds one, or misses.
Halted(f) == Ends(f) /\ (Len(f.buf) = 0 \/ OffIn(f.buf) = Len(f.buf))
LEMMA TurnCases ==
    ASSUME file \in DOMAIN Sources, NEW f, Turning(f)
    PROVE  Halted(f) \/ (\E o : Found(f, o)) \/ Missed(f)
  <1>1. PICK n \in Nat : n = Len(f.buf)
    <2>1. f.buf \in Seq(CellType)  BY DEF Turning, Sound, DTypes
    <2> QED  BY <2>1, LenNat
  <1>2. f.buf \in Seq(CellType) /\ (n = 0 <=> f.buf = <<>>)
    <2>1. f.buf \in Seq(CellType)  BY DEF Turning, Sound, DTypes
    <2> QED  BY <1>1, <2>1, EmptyLen
  <1>3. CASE f.buf = <<>>
    <2>1. Ends(f)  BY <1>3 DEF Turning, Turn
    <2> QED  BY <1>1, <1>2, <1>3, <2>1 DEF Halted
  <1>4. CASE f.buf # <<>>
    <2>1. PICK o : /\ o = DecodeFrame(f.buf) /\ dec' = o.dec
                   /\ Frame(f, o) \/ (~o.hit /\ (Ends(f) \/ Widens(f) \/ Drops(f)))
      BY <1>4 DEF Turning, Turn
    <2>2. n > 0 /\ DecTypes(dec)  BY <1>2, <1>4 DEF Turning
    <2>3. PICK off : off = OffIn(f.buf) /\ off \in 0..n
      <3>1. OffIn(f.buf) \in 0..n  BY <1>1, <1>2, <2>2, OffInFacts
      <3> QED  BY <3>1
    <2>4. off = n => o.hit = FALSE /\ o.dec = Cold  BY <1>1, <1>2, <2>1, <2>2, <2>3, DecodeMiss
    <2>5. off < n => o.hit
      <3>1. ASSUME off < n PROVE o.hit
        <4>1. o = HitAt(f.buf, off)  BY <1>1, <1>2, <2>1, <2>2, <2>3, <3>1, DecodeHit
        <4> QED  BY <4>1 DEF HitAt
      <3> QED  BY <3>1
    <2>6. CASE Frame(f, o)
      <3>1. o.hit  BY <2>6 DEF Frame
      <3>2. off < n  BY <2>3, <2>4, <3>1
      <3> QED  BY <1>1, <2>1, <2>2, <2>3, <2>6, <3>1, <3>2 DEF Found
    <2>7. CASE ~o.hit /\ (Widens(f) \/ Drops(f))
      <3>1. off = n /\ o.dec = Cold  BY <2>3, <2>4, <2>5, <2>7
      <3>2. f.readErr = "none"  BY <2>7 DEF Widens, Drops
      <3>3. n >= call.window  BY <1>1, <3>2 DEF Turning, Filled
      <3>4. n > FrameLen
        <4>1. call.window \in Nat /\ call.window > FrameLen  BY ConstTypes DEF Turning
        <4> QED  BY <3>3, <4>1, ConstTypes
      <3> QED  BY <1>1, <2>1, <2>3, <2>7, <3>1, <3>4 DEF Missed
    <2>8. CASE ~o.hit /\ Ends(f)
      <3>1. off = n  BY <2>3, <2>5, <2>8
      <3> QED  BY <1>1, <2>3, <2>8, <3>1 DEF Halted
    <2> QED  BY <2>1, <2>6, <2>7, <2>8
  <1> QED  BY <1>3, <1>4

\* A turn that dropped everything it can rule out.
LEMMA LostStays ==
    ASSUME Whole, NEW f, Sound(f), Live(f), ~adrift, Hidden(Here(f), Here(f) + Len(f.buf)),
           Widens(f) \/ Drops(f)
    PROVE  Lost(d')
  <1>1. CASE Widens(f)  BY <1>1 DEF Widens, Lost
  <1>2. CASE Drops(f)
    <2>1. PICK n \in Nat, h \in Nat : n = Len(f.buf) /\ h = Here(f) /\ f.buf \in Seq(CellType)
      <3>1. View(f.buf, Len(f.buf), Here(f))  BY BufferView
      <3> QED  BY <3>1, ViewFacts
    <2>2. PICK k \in Nat : k = ResyncWindow - Retain /\ k <= n
      <3>1. ResyncWindow - Retain \in Nat /\ ResyncWindow - Retain <= ResyncWindow
        BY ConstTypes DEF Retain
      <3> QED  BY <1>2, <2>1, <3>1 DEF Drops
    <2>3. d' = Consume(f, k)  BY <1>2, <2>2 DEF Drops
    <2>4. Len(d'.buf) = n - k /\ Here(d') = h + k  BY <2>1, <2>2, <2>3, ConsumeFacts
    <2>5. Hidden(h, h + n)  BY <2>1
    <2>6. h + k \in Nat /\ h + n \in Nat /\ h <= h + k  OBVIOUS
    <2>7. Hidden(h + k, h + n)  BY <2>5, <2>6, HiddenGrows
    <2>8. Here(d') + Len(d'.buf) = h + n  BY <2>1, <2>2, <2>4
    <2> QED  BY <2>4, <2>7, <2>8 DEF Lost
  <1> QED  BY <1>1, <1>2

\* What a turn leaves.
Reads(e) == AudioKnown(d') /\ (Live(d') => Reading(d', dec', call', e))

\* A miss of a lost decoder leaves it lost.
LEMMA MissLost ==
    ASSUME Whole, NEW f, Turning(f), Missed(f), AudioKnown(f), NEW e,
           Hidden(Here(f), Here(f) + Len(f.buf))
    PROVE  Reads(e)
  <1>1. Sound(f) /\ Live(f) /\ ~adrift /\ (Widens(f) \/ Drops(f)) /\ dec' = Cold
    BY DEF Turning, Missed
  <1>2. Lost(d')  BY <1>1, LostStays
  <1>3. call'.at = "decode"
    BY <1>1 DEF Turning, Widens, Drops, CallChanged, CallFields
  <1>4. AudioKnown(d')
    <2>1. CASE Widens(f)  BY <2>1 DEF Widens
    <2>2. CASE Drops(f)
      <3>1. PICK k \in Nat : k = ResyncWindow - Retain /\ k <= Len(f.buf) /\ d' = Consume(f, k)
        <4>1. ResyncWindow - Retain \in Nat /\ ResyncWindow - Retain <= ResyncWindow
          BY ConstTypes DEF Retain
        <4> QED  BY <2>2, <4>1 DEF Drops
      <3>2. Changed(d', f, {"buf"})  BY <1>1, <3>1, ConsumeFacts
      <3>3. d'.rate = f.rate /\ d'.start = f.start /\ d'.audioStart = f.audioStart
        BY <3>2, ChangedFields
      <3> QED  BY <3>3, SameAudio
    <2> QED  BY <1>1, <2>1, <2>2
  <1> QED  BY <1>1, <1>2, <1>3, <1>4 DEF Reads, Reading

\* Behind a frame.
LEMMA OnIndex ==
    ASSUME Whole, NEW id \in Nat, First <= id, id < First + Many
    PROVE  \E j \in Nat : /\ j = id + 1 - First /\ First + j = id + 1
                          /\ At(j) = At(id + 1 - First) /\ j + 1 = (id + 1) + 1 - First
                          /\ (j < Many => id + 1 < First + Many)
  <1>1. First \in Nat /\ Many \in Nat  BY ShapeFacts
  <1>2. id + 1 - First \in Nat  BY <1>1
  <1>3. /\ First + (id + 1 - First) = id + 1
        /\ (id + 1 - First) + 1 = (id + 1) + 1 - First
        /\ (id + 1 - First < Many => id + 1 < First + Many)
    BY <1>1
  <1> QED  BY <1>2, <1>3

\* A miss behind a frame leaves it there, or loses every frame that could be confirmed.
LEMMA OnMiss ==
    ASSUME Whole, NEW f, Turning(f), Missed(f), AudioKnown(f), NEW e, NEW id \in Nat, On(f, dec, e, id)
    PROVE  Reads(e)
  <1>1. /\ First <= id /\ id < First + Many /\ Here(f) = At(id + 1 - First) /\ dec.hdr = Kind
    BY DEF On, Placed
  <1>2. PICK j \in Nat : Here(f) = At(j)  BY <1>1, OnIndex
  <1>3. View(f.buf, Len(f.buf), Here(f))  BY BufferView DEF Turning
  <1>4. OffIn(f.buf) = Len(f.buf) /\ Len(f.buf) > FrameLen  BY DEF Missed
  <1>5. Hidden(Here(f), Here(f) + Len(f.buf))  BY <1>1, <1>2, <1>3, <1>4, MissHere
  <1> QED  BY <1>5, MissLost

\* A hit behind a frame is the next one.
LEMMA OnFinds ==
    ASSUME Whole, NEW f, Turning(f), NEW o, Found(f, o), NEW e, NEW id \in Nat, On(f, dec, e, id)
    PROVE  /\ Decoded(o, 0, id + 1, id, dec.run) /\ id + 1 < First + Many
           /\ Least(dec.run + 1, PrimeFrames) >= Least(PrimeFrames, id + 1)
  <1>1. /\ First <= id /\ id < First + Many /\ Here(f) = At(id + 1 - First) /\ dec.hdr = Kind
        /\ dec.prev = id /\ Warm(dec, id)
    BY DEF On, Placed
  <1>2. PICK j \in Nat : /\ Here(f) = At(j) /\ First + j = id + 1 /\ j + 1 = (id + 1) + 1 - First
                         /\ (j < Many => id + 1 < First + Many)
    BY <1>1, OnIndex
  <1>3. PICK n \in Nat, h \in Nat : n = Len(f.buf) /\ h = Here(f) /\ View(f.buf, n, h) /\ n > 0
    <2>1. View(f.buf, Len(f.buf), Here(f))  BY BufferView DEF Turning
    <2>2. Len(f.buf) \in Nat /\ Here(f) \in Nat  BY <2>1, ViewFacts
    <2> QED  BY <2>1, <2>2 DEF Found
  <1>4. OffIn(f.buf) = 0 /\ j < Many /\ Base(f.buf) = dec
    BY <1>1, <1>2, <1>3, HitHere DEF Found
  <1>5. DecTypes(dec) /\ DTypes(f)  BY DEF Turning, Sound
  <1>6. dec.run \in Nat /\ dec.run >= Least(PrimeFrames, id)  BY <1>1, <1>5 DEF DecTypes, Warm
  <1>7. /\ Most(0, Least(id, PrimeFrames - 1)) <= dec.run
        /\ Least(dec.run + 1, PrimeFrames) >= Least(PrimeFrames, id + 1)
    <2>1. Most(0, (id + 1) - 1) = id /\ (id + 1) - 1 = id /\ id + 1 \in Nat  BY DEF Most
    <2> QED  BY <1>6, <2>1, Reach
  <1>8. Decoded(o, 0, id + 1, id, dec.run)
    <2>1. /\ 0 < n /\ h + 0 = At(j) /\ o = DecodeFrame(f.buf) /\ 0 = OffIn(f.buf)
      BY <1>2, <1>3, <1>4 DEF Found
    <2>2. First + j - 1 = id /\ First + j = id + 1
      <3>1. First \in Nat  BY ShapeFacts
      <3> QED  BY <1>2, <3>1
    <2>3. Most(0, Least(First + j - 1, PrimeFrames - 1)) <= dec.run  BY <1>7, <2>2
    <2>4. Decoded(o, 0, First + j, dec.prev, dec.run)
      BY <1>3, <1>4, <1>5, <2>1, <2>3, HitFrame
    <2> QED  BY <1>1, <2>2, <2>4
  <1> QED  BY <1>2, <1>4, <1>7, <1>8

\* A turn that finds it goes on behind it.
LEMMA OnHit ==
    ASSUME Whole, NEW f, Turning(f), NEW o, Found(f, o), AudioKnown(f), NEW e \in Nat,
           NEW id \in Nat, On(f, dec, e, id)
    PROVE  Reads(e)
  <1>1. /\ First <= id /\ id < First + Many /\ Here(f) = At(id + 1 - First) /\ dec.hdr = Kind
        /\ dec.prev = id /\ Warm(dec, id) /\ Counted(f, id) /\ Timed(f, e, id)
    BY DEF On, Placed
  <1>2. PICK j \in Nat : /\ Here(f) = At(j) /\ First + j = id + 1 /\ j + 1 = (id + 1) + 1 - First
    BY <1>1, OnIndex
  <1>5. DecTypes(dec) /\ DTypes(f)  BY DEF Turning, Sound
  <1>8. /\ Decoded(o, 0, id + 1, id, dec.run) /\ id + 1 < First + Many
        /\ Least(dec.run + 1, PrimeFrames) >= Least(PrimeFrames, id + 1)
    BY OnFinds
  <1>9. /\ o.ok /\ o.off = 0 /\ o.id = id + 1 /\ o.prev = id /\ o.bytes = FrameLen
        /\ o.dec.hdr = Kind /\ o.dec.prev = id + 1
        /\ o.dec.run = Least(dec.run + 1, PrimeFrames)
    <2>1. 0 + FrameLen = FrameLen  BY ConstTypes
    <2> QED  BY <1>8, <2>1 DEF Decoded
  <1>10. /\ f.tagChecked /\ f.start = Start /\ f.produced = id * FrameSize /\ f.pending = <<>>
    BY <1>1 DEF Counted, Turning
  <1>11. /\ d'.start = f.start /\ d'.rate
         /\ d'.audioStart = IF f.seen THEN f.audioStart ELSE f.audioStart + o.off
         /\ Live(d') => Passes(f, o, d') /\ call'.at \in {"decode", "back"}
    BY <1>9, <1>10, FramePasses DEF Found, Turning, Whole
  <1>12. d'.audioStart = f.audioStart
    <2>1. f.audioStart \in Nat  BY <1>5 DEF DTypes
    <2>2. f.audioStart + o.off = f.audioStart  BY <1>9, <2>1
    <2> QED  BY <1>11, <2>2
  <1>13. AudioKnown(d')
    <2>1. f.audioStart = AudioAt \/ f.audioStart + SmallWindow <= Lead
      <3>1. CASE f.rate  BY <3>1 DEF AudioKnown
      <3>2. CASE ~f.rate
        <4>1. id = 0 /\ (f.audioStart = Here(f) \/ Astray(f))  BY <1>1, <3>2 DEF Counted
        <4>2. First = 0  BY <1>1, <4>1, ShapeFacts
        <4>3. j = 1 /\ 1 - First = 1  BY <1>2, <4>1, <4>2
        <4>4. Here(f) = AudioAt  BY <1>2, <4>3 DEF AudioAt
        <4>5. ASSUME Astray(f) PROVE f.audioStart + SmallWindow <= Lead
          <5>1. At(1) = Lead + FrameLen
            <6>1. At(0 + 1) = At(0) + FrameLen /\ At(0) = Lead  BY AtFacts
            <6> QED  BY <6>1
          <5>2. f.audioStart + SmallWindow + FrameLen <= Lead + FrameLen
            BY <1>2, <4>3, <4>5, <5>1 DEF Astray
          <5>3. f.audioStart \in Nat /\ Lead \in Nat  BY <1>5, ShapeFacts DEF DTypes
          <5> QED  BY <5>2, <5>3, ConstTypes
        <4> QED  BY <4>1, <4>4, <4>5
      <3> QED  BY <3>1, <3>2
    <2> QED  BY <1>10, <1>11, <1>12, <2>1 DEF AudioKnown
  <1>14. ASSUME Live(d') PROVE \E i \in Nat : On(d', dec', e, i)
    <2>1. Passes(f, o, d')  BY <1>11, <1>14
    <2>2. d'.produced = (id + 1) * FrameSize /\ Timed(d', e, id + 1)
      BY <1>1, <1>5, <1>9, <1>10, <2>1, TimedOn
    <2>3. Here(d') = At(j + 1)
      <3>1. At(j + 1) = At(j) + FrameLen  BY AtFacts
      <3> QED  BY <1>2, <1>9, <2>1, <3>1 DEF Passes
    <2>4. dec' = o.dec  BY DEF Found
    <2>5. Warm(dec', id + 1)  BY <1>8, <1>9, <2>4 DEF Warm
    <2>6. Placed(d', dec', id + 1)
      <3>1. First <= id + 1  BY <1>1, ShapeFacts
      <3>2. id + 1 < First + Many  BY <1>8
      <3>3. Here(d') = At((id + 1) + 1 - First)  BY <1>2, <2>3
      <3> QED  BY <1>9, <2>4, <2>5, <3>1, <3>2, <3>3 DEF Placed
    <2>7. Counted(d', id + 1)
      <3>1. d'.tagChecked  BY <2>1 DEF Passes
      <3>2. id + 1 # 0  OBVIOUS
      <3> QED  BY <1>10, <1>11, <2>2, <3>1, <3>2 DEF Counted
    <2>8. id + 1 \in Nat /\ On(d', dec', e, id + 1)  BY <2>2, <2>6, <2>7 DEF On
    <2> QED  BY <2>8
  <1> QED  BY <1>13, <1>14 DEF Reads, Reading

\* Before the first frame.
LEMMA NotYetMiss ==
    ASSUME Whole, NEW f, Turning(f), Missed(f), AudioKnown(f), NEW e, NotYet(f, dec, e)
    PROVE  Reads(e)
  <1>1. dec = Cold /\ Here(f) <= Lead /\ (f.audioStart = Here(f) \/ Astray(f))  BY DEF NotYet
  <1>2. /\ Sound(f) /\ Live(f) /\ ~adrift /\ (Widens(f) \/ Drops(f)) /\ dec' = Cold
        /\ OffIn(f.buf) = Len(f.buf)
    BY DEF Turning, Missed
  <1>3. call'.at = "decode"
    BY <1>2 DEF Turning, Widens, Drops, CallChanged, CallFields
  <1>4. CASE Widens(f)
    <2>1. d' = f  BY <1>4 DEF Widens
    <2>2. NotYet(d', dec', e)  BY <1>1, <1>2, <2>1
    <2> QED  BY <1>3, <2>1, <2>2 DEF Reads, Reading
  <1>5. CASE Drops(f)
    <2>1. PICK n \in Nat, h \in Nat : n = Len(f.buf) /\ h = Here(f) /\ View(f.buf, n, h)
      <3>1. View(f.buf, Len(f.buf), Here(f))  BY <1>2, BufferView
      <3>2. Len(f.buf) \in Nat /\ Here(f) \in Nat  BY <3>1, ViewFacts
      <3> QED  BY <3>1, <3>2
    <2>2. n = ResyncWindow  BY <1>5, <2>1 DEF Drops
    <2>3. \/ Hidden(h, h + n)
          \/ h + (n - Retain) <= Lead /\ 2 * SmallWindow + FrameLen < ResyncWindow
      BY <1>1, <1>2, <2>1, <2>2, MissFirst
    <2>4. CASE Hidden(h, h + n)  BY <2>1, <2>4, MissLost
    <2>5. CASE h + (n - Retain) <= Lead /\ 2 * SmallWindow + FrameLen < ResyncWindow
      <3>1. PICK k \in Nat : k = n - Retain /\ k <= n /\ k = ResyncWindow - Retain
                             /\ SmallWindow + FrameLen <= k
        <4>1. /\ ResyncWindow - Retain \in Nat /\ ResyncWindow - Retain <= ResyncWindow
              /\ SmallWindow + FrameLen <= ResyncWindow - Retain
          BY <2>5, ConstTypes DEF Retain
        <4> QED  BY <2>2, <4>1
      <3>2. d' = Consume(f, k)  BY <1>5, <3>1 DEF Drops
      <3>3. Changed(d', f, {"buf"}) /\ Here(d') = h + k  BY <1>2, <2>1, <3>1, <3>2, ConsumeFacts
      <3>4. /\ d'.tagChecked = f.tagChecked /\ d'.seen = f.seen /\ d'.rate = f.rate
            /\ d'.produced = f.produced /\ d'.pending = f.pending /\ d'.start = f.start
            /\ d'.audioStart = f.audioStart
        BY <3>3, ChangedFields
      <3>5. Here(d') <= Lead  BY <2>5, <3>1, <3>3
      <3>6. Astray(d')
        <4>1. f.audioStart \in Nat  BY <1>2 DEF Sound, DTypes
        <4>2. f.audioStart <= h  BY <1>1, <2>1, <4>1, ConstTypes DEF Astray
        <4>3. f.audioStart + SmallWindow + FrameLen <= h + k
          <5>1. h \in Nat /\ SmallWindow + FrameLen <= k  BY <2>1, <3>1
          <5>2. SmallWindow \in Nat /\ FrameLen \in Nat  BY ConstTypes
          <5> QED  BY <4>1, <4>2, <5>1, <5>2
        <4> QED  BY <3>3, <3>4, <4>3 DEF Astray
      <3>7. NotYet(d', dec', e)  BY <1>2, <3>4, <3>5, <3>6 DEF NotYet
      <3>8. AudioKnown(d')  BY <3>4, SameAudio
      <3> QED  BY <1>3, <3>7, <3>8 DEF Reads, Reading
    <2> QED  BY <2>3, <2>4, <2>5
  <1> QED  BY <1>2, <1>4, <1>5

\* A hit before the first frame is the first.
LEMMA NotYetFinds ==
    ASSUME Whole, NEW f, Turning(f), NEW o, Found(f, o), NEW e, NotYet(f, dec, e)
    PROVE  /\ 0 < Many /\ Base(f.buf) = dec
           /\ \E off \in Nat : Here(f) + off = Lead /\ Decoded(o, off, First, 0, 0)
  <1>1. dec = Cold /\ Here(f) <= Lead  BY DEF NotYet
  <1>2. PICK n \in Nat, h \in Nat : n = Len(f.buf) /\ h = Here(f) /\ View(f.buf, n, h) /\ n > 0
    <2>1. View(f.buf, Len(f.buf), Here(f))  BY BufferView DEF Turning
    <2>2. Len(f.buf) \in Nat /\ Here(f) \in Nat  BY <2>1, ViewFacts
    <2> QED  BY <2>1, <2>2 DEF Found
  <1>3. Sound(f) /\ DecTypes(dec) /\ DTypes(f) /\ call.at = "decode"  BY DEF Turning, Sound
  <1>4. PICK off \in Nat : off = OffIn(f.buf) /\ off < n /\ h + off = Lead /\ 0 < Many
                           /\ Base(f.buf) = dec
    <2>1. OffIn(f.buf) < n  BY <1>2 DEF Found
    <2>2. 0 < Many /\ h + OffIn(f.buf) = Lead /\ Base(f.buf) = dec
      BY <1>1, <1>2, <2>1, HitFirst
    <2>3. OffIn(f.buf) \in Nat
      <3>1. f.buf \in Seq(CellType)  BY <1>3 DEF DTypes
      <3> QED  BY <1>2, <3>1, OffInFacts
    <2> QED  BY <2>1, <2>2, <2>3
  <1>5. dec.run = 0 /\ dec.prev = 0  BY <1>1 DEF Cold
  <1>6. First \in {0, 1} /\ At(0) = Lead /\ At(0 + 1) = At(0) + FrameLen /\ Lead \in Nat
    BY AtFacts, ShapeFacts
  <1>7. Decoded(o, off, First, 0, 0)
    <2>1. h + off = At(0) /\ o = DecodeFrame(f.buf) /\ First + 0 = First
      BY <1>4, <1>6 DEF Found
    <2>2. Most(0, Least(First + 0 - 1, PrimeFrames - 1)) <= dec.run
      BY <1>5, <1>6, ConstTypes DEF Most, Least
    <2>3. Decoded(o, off, First + 0, dec.prev, dec.run)
      BY <1>2, <1>3, <1>4, <2>1, <2>2, HitFrame
    <2> QED  BY <1>5, <2>1, <2>3
  <1> QED  BY <1>2, <1>4, <1>7

\* A turn that finds it goes on behind it.
LEMMA NotYetHit ==
    ASSUME Whole, NEW f, Turning(f), NEW o, Found(f, o), NEW e \in Nat, NotYet(f, dec, e)
    PROVE  Reads(e)
  <1>1. /\ dec = Cold /\ Here(f) <= Lead /\ (f.audioStart = Here(f) \/ Astray(f))
        /\ ~f.tagChecked /\ ~f.seen /\ ~f.rate /\ f.produced = 0 /\ f.start = 0 /\ e = 0
        /\ f.pending = <<>>
    BY DEF NotYet
  <1>2. PICK n \in Nat, h \in Nat : n = Len(f.buf) /\ h = Here(f) /\ View(f.buf, n, h) /\ n > 0
    <2>1. View(f.buf, Len(f.buf), Here(f))  BY BufferView DEF Turning
    <2>2. Len(f.buf) \in Nat /\ Here(f) \in Nat  BY <2>1, ViewFacts
    <2> QED  BY <2>1, <2>2 DEF Found
  <1>3. Sound(f) /\ DecTypes(dec) /\ DTypes(f) /\ call.at = "decode"  BY DEF Turning, Sound
  <1>4. PICK off \in Nat : h + off = Lead /\ 0 < Many /\ Decoded(o, off, First, 0, 0)
    BY <1>2, NotYetFinds
  <1>5. dec.run = 0 /\ dec.prev = 0  BY <1>1 DEF Cold
  <1>6. First \in {0, 1} /\ At(0) = Lead /\ At(0 + 1) = At(0) + FrameLen /\ Lead \in Nat
    BY AtFacts, ShapeFacts
  <1>7. Decoded(o, off, First, 0, 0)  BY <1>4
  <1>8. /\ o.ok /\ o.off = off /\ o.id = First /\ o.prev = 0 /\ o.bytes = off + FrameLen
        /\ o.dec.hdr = Kind /\ o.dec.prev = First /\ o.dec.run = Least(0 + 1, PrimeFrames)
    BY <1>7 DEF Decoded
  <1>9. dec' = o.dec /\ Frame(f, o) /\ Hit(f, o)  BY DEF Found, Frame
  <1>10. h + o.bytes = At(1)  BY <1>2, <1>4, <1>6, <1>8, ConstTypes
  <1>11. /\ Warm(dec', First) /\ dec'.hdr = Kind /\ dec'.prev = First
    <2>1. Least(0 + 1, PrimeFrames) >= Least(PrimeFrames, First)  BY <1>6, ConstTypes DEF Least
    <2> QED  BY <1>8, <1>9, <2>1 DEF Warm
  <1>12. Placed(d', dec', First) <=> Here(d') = At(1)
    <2>1. First + 1 - First = 1 /\ First <= First /\ First < First + Many
      BY <1>4, <1>6, ShapeFacts
    <2> QED  BY <1>11, <2>1 DEF Placed
  <1>13. CASE First = 0
    <2>1. Tags(f, o)
      <3>1. ~(f.tagChecked \/ o.id # 0)  BY <1>1, <1>8, <1>13
      <3> QED  BY <1>9, <3>1 DEF Frame
    <2>2. d' = ApplyTag(f, o) /\ CallChanged({"window", "skipped"})  BY <2>1 DEF Tags, GoesOn
    <2>3. /\ Changed(d', f, TagFields) /\ Here(d') = Here(f) + o.bytes
          /\ d'.tagChecked /\ d'.audioStart = f.audioStart + o.bytes
          /\ d'.start = HeadTrim(src.tag.delay)
      BY <1>1, <1>9, <2>2, TagFacts DEF Whole
    <2>4. d'.seen = f.seen /\ d'.rate = f.rate /\ d'.produced = f.produced /\ d'.pending = f.pending
      BY <2>3, ChangedFields DEF TagFields
    <2>5. d'.start = Start
      <3>1. src.tag.present  BY <1>13, ShapeFacts
      <3> QED  BY <2>3, <3>1 DEF Start
    <2>6. Placed(d', dec', 0)  BY <1>2, <1>10, <1>12, <1>13, <2>3
    <2>7. d'.audioStart = Here(d') \/ Astray(d')
      <3>1. f.audioStart \in Nat /\ h \in Nat /\ o.bytes \in Nat
        BY <1>3, <1>9 DEF DTypes, Hit
      <3>2. Here(d') = h + o.bytes /\ (f.audioStart = h \/ f.audioStart + SmallWindow + FrameLen <= h)
        BY <1>1, <1>2, <2>3 DEF Astray
      <3>3. \/ d'.audioStart = Here(d')
            \/ d'.audioStart + SmallWindow + FrameLen <= Here(d')
        BY <2>3, <3>1, <3>2, ConstTypes
      <3> QED  BY <3>3 DEF Astray
    <2>8. Counted(d', 0)
      <3>1. 0 * FrameSize = 0  BY ConstTypes
      <3> QED  BY <1>1, <2>3, <2>4, <2>5, <2>7, <3>1 DEF Counted
    <2>9. Timed(d', e, 0)
      <3>1. Start \in Nat
        <4>1. src.tag.delay \in Nat  BY SrcTypes DEF Whole
        <4>2. HeadTrim(src.tag.delay) \in Nat  BY <4>1, ConstTypes DEF HeadTrim
        <4> QED  BY <2>3, <2>5, <4>2
      <3>2. e + Start = Most(Start, 0)  BY <1>1, <3>1 DEF Most
      <3> QED  BY <1>1, <2>4, <3>2 DEF Timed
    <2>10. On(d', dec', e, 0)  BY <2>6, <2>8, <2>9 DEF On
    <2>11. AudioKnown(d')  BY <1>1, <2>4 DEF AudioKnown
    <2>12. call'.at = "decode"  BY <1>3, <2>2 DEF CallChanged, CallFields
    <2> QED  BY <2>10, <2>11, <2>12 DEF Reads, Reading
  <1>14. CASE First = 1
    <2>1. Start = 0
      <3>1. ~src.tag.present  BY <1>14, ShapeFacts
      <3> QED  BY <3>1 DEF Start
    <2>2. o.id # 0  BY <1>8, <1>14
    <2>3. /\ d'.start = f.start /\ d'.rate
          /\ d'.audioStart = IF f.seen THEN f.audioStart ELSE f.audioStart + o.off
          /\ Live(d') => Passes(f, o, d') /\ call'.at \in {"decode", "back"}
      BY <1>1, <1>3, <1>8, <1>9, <2>2, FramePasses DEF Whole
    <2>4. AudioKnown(d')
      <3>1. d'.audioStart = f.audioStart + off  BY <1>1, <1>8, <2>3
      <3>2. AudioAt = Lead
        <4>1. 1 - First = 0  BY <1>14
        <4> QED  BY <1>6, <4>1 DEF AudioAt
      <3>3. f.audioStart \in Nat  BY <1>3 DEF DTypes
      <3>4. f.audioStart = h \/ f.audioStart + SmallWindow + FrameLen <= h
        BY <1>1, <1>2 DEF Astray
      <3>5. d'.audioStart = Lead \/ d'.audioStart + SmallWindow <= Lead
        BY <1>4, <1>6, <3>1, <3>3, <3>4, ConstTypes
      <3> QED  BY <1>1, <2>1, <2>3, <3>2, <3>5 DEF AudioKnown
    <2>5. ASSUME Live(d') PROVE \E i \in Nat : On(d', dec', e, i)
      <3>1. Passes(f, o, d')  BY <2>3, <2>5
      <3>2. 0 * FrameSize = 0 /\ 0 + 1 = 1 /\ 0 \in Nat  BY ConstTypes
      <3>3. Timed(f, e, 0)
        <4>1. e + Start = Most(Start, f.produced)  BY <1>1, <2>1 DEF Most
        <4> QED  BY <1>1, <4>1 DEF Timed
      <3>4. f.start = Start /\ f.produced = 0 * FrameSize /\ o.id = 0 + 1
        BY <1>1, <1>8, <1>14, <2>1, <3>2
      <3>5. d'.produced = (0 + 1) * FrameSize /\ Timed(d', e, 0 + 1)
        BY <1>1, <1>3, <1>8, <3>1, <3>2, <3>3, <3>4, TimedOn
      <3>6. Placed(d', dec', 1)
        <4>1. Here(d') = h + o.bytes  BY <1>2, <3>1 DEF Passes
        <4> QED  BY <1>10, <1>12, <1>14, <4>1
      <3>7. Counted(d', 1)
        <4>1. d'.tagChecked /\ d'.start = Start /\ d'.produced = 1 * FrameSize
          BY <1>1, <2>1, <2>3, <3>1, <3>2, <3>5 DEF Passes
        <4> QED  BY <2>3, <4>1 DEF Counted
      <3>8. On(d', dec', e, 1)  BY <3>2, <3>5, <3>6, <3>7 DEF On
      <3> QED  BY <3>8
    <2> QED  BY <2>4, <2>5 DEF Reads, Reading
  <1> QED  BY <1>6, <1>13, <1>14

\* Among hidden bytes nothing is found.
LEMMA FoundInView ==
    ASSUME Whole, NEW f, Turning(f), NEW o, Found(f, o)
    PROVE  ~(dec = Cold /\ Hidden(Here(f), Here(f) + Len(f.buf)))
  <1> SUFFICES ASSUME dec = Cold, Hidden(Here(f), Here(f) + Len(f.buf)) PROVE FALSE  OBVIOUS
  <1>1. View(f.buf, Len(f.buf), Here(f))  BY BufferView DEF Turning
  <1>2. Len(f.buf) > 0 /\ OffIn(f.buf) < Len(f.buf)  BY DEF Found
  <1>3. OffIn(f.buf) = Len(f.buf)  BY <1>1, <1>2, MissHidden
  <1>4. Len(f.buf) \in Nat  BY <1>1, ViewFacts
  <1> QED  BY <1>2, <1>3, <1>4

\* Where nothing ahead can be confirmed, or in front of a frame.
LEMMA TurnReads ==
    ASSUME Whole, NEW f, Turning(f), AudioKnown(f), NEW e \in Nat,
           \/ NotYet(f, dec, e)
           \/ dec = Cold /\ Hidden(Here(f), Here(f) + Len(f.buf))
           \/ \E id \in Nat : On(f, dec, e, id)
    PROVE  Reads(e)
  <1>1. CASE Halted(f)
    <2>1. ~Live(d') /\ Changed(d', f, {"buf", "done", "err"})  BY <1>1 DEF Halted, Ends
    <2>2. d'.rate = f.rate /\ d'.start = f.start /\ d'.audioStart = f.audioStart
      BY <2>1, ChangedFields
    <2> QED  BY <2>1, <2>2, SameAudio DEF Reads
  <1>2. ASSUME NEW o, Found(f, o) PROVE Reads(e)
    <2>1. ~(dec = Cold /\ Hidden(Here(f), Here(f) + Len(f.buf)))  BY <1>2, FoundInView
    <2> QED  BY <1>2, <2>1, NotYetHit, OnHit
  <1>3. CASE Missed(f)  BY <1>3, NotYetMiss, MissLost, OnMiss
  <1>4. file \in DOMAIN Sources  BY DEF Whole
  <1> QED  BY <1>1, <1>2, <1>3, <1>4, TurnCases

\* A turn of a whole source, by where it begins.
LEMMA TurnBegins ==
    ASSUME BInv, WInv, ~adrift, DecodeStep, Whole
    PROVE  \E f : /\ Turning(f) /\ Alike(f, d) /\ Changed(f, d, Buffers) /\ AudioKnown(f)
                  /\ \/ NotYet(f, dec, expect)
                     \/ dec = Cold /\ Hidden(Here(f), Here(f) + Len(f.buf))
                     \/ \E id \in Nat : On(f, dec, expect, id)
  <1>2. Whole /\ call.at = "decode" /\ Live(d) /\ d.pending = <<>> /\ expect \in Nat
    BY DEF BInv, DecodeStep, Phases
  <1>3. PICK f : /\ Sound(f) /\ Live(f) /\ Filled(f, call.window) /\ Changed(f, d, Buffers)
                 /\ Here(f) = Here(d) /\ Turn(f)
    BY DecodeTurn
  <1>4. Alike(f, d)
    <2>1. Buffers \cap {"tagChecked", "seen", "rate", "start", "end", "produced", "audioStart", "pending"} = {}
      BY DEF Buffers
    <2> QED  BY <1>3, <2>1, AlikeChanged
  <1>5. Turning(f)
    <2>1. f.pending = <<>>  BY <1>2, <1>4 DEF Alike, Stays
    <2>2. call.window \in {SmallWindow, ResyncWindow} /\ DecTypes(dec)
      BY <1>2 DEF BInv, Phases
    <2> QED  BY <1>2, <1>3, <2>1, <2>2 DEF Turning
  <1>6. Synced(d, dec, call, expect) /\ AudioKnown(d)  BY DEF WInv, Whole
  <1>7. Reading(d, dec, call, expect)  BY <1>2, <1>6 DEF Synced
  <1>8. AudioKnown(f)  BY <1>4, <1>6, SameAudio DEF Alike, Stays
  <1>9. ASSUME Lost(d) PROVE Hidden(Here(f), Here(f) + Len(f.buf))
    <2>1. View(f.buf, Len(f.buf), Here(f)) /\ View(d.buf, Len(d.buf), Here(d))
      BY <1>2, <1>3, BufferView DEF BInv
    <2>2. PICK h \in Nat, n \in Nat, m \in Nat : h = Here(f) /\ n = Len(f.buf) /\ m = Len(d.buf)
      <3>1. Here(f) \in Nat /\ Len(f.buf) \in Nat  BY <1>2, <2>1, ViewFacts
      <3>2. Len(d.buf) \in Nat  BY <1>2, <2>1, ViewFacts
      <3> QED  BY <3>1, <3>2
    <2>3. m <= n  BY <1>3, <2>2 DEF Filled
    <2>4. Hidden(h, h + m)  BY <1>3, <1>9, <2>2 DEF Lost
    <2>5. h + m \in Nat /\ h + n \in Nat /\ h + m <= h + n /\ h <= h  BY <2>3
    <2>6. Hidden(h, h + n)  BY <1>2, <2>4, <2>5, HiddenGrows
    <2> QED  BY <2>2, <2>6
  <1>10. \/ NotYet(f, dec, expect)
         \/ dec = Cold /\ Hidden(Here(f), Here(f) + Len(f.buf))
         \/ \E id \in Nat : On(f, dec, expect, id)
    BY <1>4, <1>7, <1>9, AlikeOn, AlikeNotYet DEF Reading
  <1> QED  BY <1>3, <1>4, <1>5, <1>8, <1>10

\* A turn of the decode loop preserves WInv.
LEMMA DecodeStepW ==
    ASSUME BInv, WInv, ~adrift, DecodeStep PROVE WInv'
  <1>1. UNCHANGED <<file, expect>>  BY DecodeTurn
  <1> SUFFICES ASSUME src.whole PROVE Synced(d', dec', call', expect) /\ AudioKnown(d')
    BY <1>1, WNext
  <1>2. Whole /\ call.at = "decode" /\ expect \in Nat
    BY DEF BInv, Whole, DecodeStep
  <1>3. PICK f : /\ Turning(f) /\ AudioKnown(f)
                 /\ \/ NotYet(f, dec, expect)
                    \/ dec = Cold /\ Hidden(Here(f), Here(f) + Len(f.buf))
                    \/ \E id \in Nat : On(f, dec, expect, id)
    BY <1>2, TurnBegins
  <1>11. Reads(expect)  BY <1>2, <1>3, TurnReads
  <1>12. call'.at # "prime"
    <2>1. CallTypes(call)' /\ Phases'  BY DecodeStepB DEF BInv
    <2>2. call'.at = "prime" => call'.op = "seek"  BY <2>1 DEF Phases
    <2>3. call'.op = call.op
      BY <1>3
         DEF Turning, Turn, Ends, Frame, Widens, Drops, Tags, Skips, Trims, PastEnd, HandsOut, GoesOn, CallChanged, CallFields
    <2>4. call.op # "seek"  BY <1>2 DEF BInv, Phases
    <2> QED  BY <2>2, <2>3, <2>4
  <1> QED  BY <1>11, <1>12 DEF Reads, Synced

-----------------------------------------------------------------------------
(***************************************************************************)
(* Whole sources: opening, the ends of calls, and what is handed out.      *)
(***************************************************************************)
LEMMA OpeningW ==
    ASSUME Whole, NEW f, f = Opening PROVE NotYet(f, Cold, 0) /\ AudioKnown(f)
  <1>1. /\ f.pending = <<>> /\ ~f.rate /\ ~f.seen /\ ~f.tagChecked
        /\ Here(f) = src.id3 /\ f.audioStart = src.id3 /\ f.produced = 0 /\ f.start = 0
    BY OpeningFacts DEF Whole
  <1>2. src.id3 <= Lead  BY ShapeFacts DEF Proportions
  <1>3. f.audioStart = Here(f)  BY <1>1
  <1> QED  BY <1>1, <1>2, <1>3 DEF NotYet, AudioKnown

\* WInv holds in the beginning.
LEMMA InitW == ASSUME Init PROVE WInv
  <1> SUFFICES ASSUME src.whole PROVE Synced(d, dec, call, expect) /\ AudioKnown(d)  BY DEF WInv
  <1>1. Whole /\ d = Opening /\ dec = Cold /\ call.at = "decode" /\ expect = 0
    BY ResetCallFacts DEF Init, Whole
  <1>2. NotYet(d, Cold, 0) /\ AudioKnown(d)  BY <1>1, OpeningW
  <1> QED  BY <1>1, <1>2 DEF Synced, Reading

\* Reset establishes it.
LEMMA ResetW == ASSUME BInv, Reset PROVE WInv'
  <1>1. UNCHANGED file  BY ResetTurns
  <1> SUFFICES ASSUME src.whole PROVE Synced(d', dec', call', expect') /\ AudioKnown(d')
    BY <1>1, WNext
  <1>2. CASE Opens
    <2>1. Whole /\ d' = Opening /\ dec' = Cold /\ call'.at = "decode" /\ expect' = 0
      BY <1>2, ResetTurns, ResetCallFacts DEF BInv, Opens, Whole
    <2>2. NotYet(d', Cold, 0) /\ AudioKnown(d')  BY <2>1, OpeningW
    <2> QED  BY <2>1, <2>2 DEF Synced, Reading
  <1>3. CASE OpensNot  BY <1>3 DEF OpensNot, Unopened, Synced, AudioKnown
  <1> QED  BY <1>2, <1>3, ResetTurns

\* A step that leaves the decoder where it is, or ends the stream.
LEMMA RestW ==
    ASSUME WInv, ~adrift, UNCHANGED file, src.whole => AudioKnown(d'), call'.at # "prime",
           Live(d') => Live(d) /\ call.at \in {"idle", "back"} /\ Alike(d', d)
                       /\ dec' = dec /\ expect' = expect
    PROVE  WInv'
  <1> SUFFICES ASSUME src.whole PROVE Synced(d', dec', call', expect') /\ AudioKnown(d')
    BY WNext
  <1>1. ASSUME Live(d') PROVE Reading(d', dec', call', expect')
    <2>1. Synced(d, dec, call, expect)  BY DEF WInv
    <2>2. Reading(d, dec, call, expect) /\ call.at # "decode"  BY <1>1, <2>1 DEF Synced
    <2>3. PICK id \in Nat : On(d, dec, expect, id)  BY <2>2 DEF Reading
    <2>4. On(d', dec, expect, id)  BY <1>1, <2>3, AlikeOn
    <2> QED  BY <1>1, <2>4 DEF Reading
  <1> QED  BY <1>1 DEF Synced

\* An untouched decoder is alike.
LEMMA AlikeSelf == ASSUME UNCHANGED d PROVE Alike(d', d) /\ (Live(d') <=> Live(d))
  BY DEF Alike, Stays, Live, Here

\* What is known of the audio's start stays with its fields.
LEMMA AudioStays ==
    ASSUME WInv, d'.rate = d.rate, d'.start = d.start, d'.audioStart = d.audioStart
    PROVE  src.whole => AudioKnown(d')
  BY SameAudio DEF WInv

\* A step that leaves the decoders alone preserves WInv.
LEMMA UnchangedW ==
    ASSUME WInv, ~adrift, UNCHANGED <<file, d, dec, expect>>, call.at \in {"idle", "back"}, call'.at # "prime"
    PROVE  WInv'
  <1>1. src.whole => AudioKnown(d')  BY AudioStays
  <1> QED  BY <1>1, AlikeSelf, RestW

\* So does the beginning of a read or of a WriteTo.
LEMMA BeginW ==
    ASSUME BInv, WInv, ~adrift, NEW op \in {"read", "writeTo"}, Begin(op) PROVE WInv'
  <1>1. UNCHANGED <<file, d, dec, expect>> /\ call.at = "idle"  BY DEF Begin
  <1>2. call'.at # "prime"
    <2>1. call' \in {call, [IdleCall EXCEPT !.at = "back", !.op = op], Decoding(op)}
      BY DEF Begin
    <2>2. [IdleCall EXCEPT !.at = "back", !.op = op].at = "back"  BY DEF IdleCall
    <2>3. Decoding(op).at \in {"back", "decode"}  BY DecodingFacts
    <2> QED  BY <1>1, <2>1, <2>2, <2>3
  <1> QED  BY <1>1, <1>2, UnchangedW

\* And the end of a reset.
LEMMA ResetEndsW == ASSUME BInv, WInv, ~adrift, ResetEnds PROVE WInv'
  <1>1. /\ UNCHANGED <<file, dec, expect>> /\ call.at = "back" /\ call' = IdleCall
        /\ (Untouched \/ Failing \/ Measured)
    BY ResetOutcome
  <1>2. call'.at = "idle"  BY <1>1, IdleFacts
  <1>3. CASE Untouched  BY <1>1, <1>2, <1>3, UnchangedW DEF Untouched
  <1>4. CASE Failing
    <2>1. d'.rate = d.rate /\ d'.start = d.start /\ d'.audioStart = d.audioStart
      BY <1>4, ChangedFields DEF Failing
    <2> QED  BY <1>1, <1>2, <1>4, <2>1, AudioStays, RestW DEF Failing
  <1>5. CASE Measured
    <2>1. Live(d) /\ Alike(d', d)
      BY <1>1, <1>5, AlikeChanged DEF Measured, BInv, Phases
    <2>2. d'.rate = d.rate /\ d'.start = d.start /\ d'.audioStart = d.audioStart
      BY <2>1 DEF Alike, Stays
    <2> QED  BY <1>1, <1>2, <2>1, <2>2, AudioStays, RestW
  <1> QED  BY <1>1, <1>3, <1>4, <1>5

\* Moving on by n moves n further.
LEMMA Onward ==
    ASSUME NEW now \in Int, NEW next \in Int, NEW start \in Int, NEW base \in Int,
           NEW x \in Int, NEW n \in Int, next = now + n, now + start = base + x
    PROVE  next + start = base + (x + n)
  OBVIOUS

\* The samples that follow those handed out are the ones expected.
LEMMA HandedOn ==
    ASSUME Whole, NEW id \in Nat, On(d, dec, expect, id), NEW n \in Nat, n <= Len(d.pending),
           DTypes(d), DTypes(d'), Stays(d', d), d.pending # <<>>,
           expect \in Nat, Handed(n)
    PROVE  On(d', dec, expect', id)
  <1>1. /\ Here(d') = Here(d) /\ d'.tagChecked = d.tagChecked /\ d'.seen = d.seen /\ d'.rate = d.rate
        /\ d'.start = d.start /\ d'.end = d.end /\ d'.produced = d.produced
        /\ d'.audioStart = d.audioStart
    BY DEF Stays
  <1>2. Placed(d', dec, id) /\ Counted(d', id)
    BY <1>1 DEF On, Placed, Counted, Astray
  <1>3. PICK x \in 0..FrameSize - 1 :
           /\ x + Len(d.pending) <= FrameSize
           /\ d.produced < d.end => x + Len(d.pending) = FrameSize
           /\ expect + Start = (id - 1) * FrameSize + x
           /\ \A i \in DOMAIN d.pending : d.pending[i] = <<id, id - 1, x + i - 1>>
    BY DEF On, Timed
  <1>4. PICK len \in Nat, left \in Nat :
           len = Len(d.pending) /\ left = Len(d'.pending) /\ left = len - n
    <2>1. d.pending \in Seq(Sample) /\ d'.pending \in Seq(Sample)  BY DEF DTypes
    <2>2. Len(d.pending) \in Nat /\ Len(d'.pending) \in Nat  BY <2>1, LenNat
    <2> QED  BY <2>2 DEF Handed
  <1>5. PICK size \in Nat, base \in Int, start \in Nat :
           size = FrameSize /\ base = (id - 1) * FrameSize /\ start = Start
           /\ base + size = id * FrameSize /\ d.produced = base + size
    <2>1. Start \in Nat /\ d.produced = id * FrameSize  BY DEF On, Counted, DTypes
    <2>2. PICK m \in Int : m = id - 1 /\ m + 1 = id
      <3>1. id - 1 \in Int /\ (id - 1) + 1 = id  OBVIOUS
      <3> QED  BY <3>1
    <2>3. m * FrameSize \in Int /\ (m + 1) * FrameSize = m * FrameSize + FrameSize  BY ConstTypes
    <2> QED  BY <2>1, <2>2, <2>3, ConstTypes
  <1>51. /\ x \in Nat /\ x < size /\ x + len <= size
         /\ d.produced < d.end => x + len = size
    BY <1>3, <1>4, <1>5
  <1>52. /\ n <= len /\ expect \in Nat /\ n \in Nat
         /\ size \in Nat /\ base \in Int /\ start \in Nat /\ left = len - n /\ len \in Nat
    BY <1>4, <1>5
  <1>6. PICK now \in Nat, next \in Nat :
           now = expect /\ next = expect' /\ next = now + n /\ now + start = base + x
    <2>1. expect' = expect + n /\ expect + start = base + x  BY <1>3, <1>5 DEF Handed
    <2>2. expect + n \in Nat  BY <1>52
    <2> QED  BY <1>52, <2>1, <2>2
  <1>61. next + start = base + (x + n)
    <2>1. now \in Int /\ next \in Int /\ start \in Int /\ base \in Int /\ x \in Int /\ n \in Int
      BY <1>51
    <2>2. next = now + n /\ now + start = base + x  BY <1>6
    <2> QED  BY <2>1, <2>2, Onward
  <1>7. CASE d'.pending = <<>>
    <2>1. left = 0
      <3>1. d'.pending \in Seq(Sample)  BY DEF DTypes
      <3> QED  BY <1>4, <1>7, <3>1, EmptyLen
    <2>2. ASSUME d'.produced < d'.end PROVE expect' + Start = Most(Start, d'.produced)
      <3>1. x + len = size  BY <1>1, <1>51, <2>2
      <3>2. n = len  BY <1>52, <2>1
      <3>3. x + n = size  BY <3>1, <3>2
      <3>4. next + start = base + size  BY <1>61, <3>3
      <3>5. start <= base + size  BY <1>52, <3>4
      <3>6. PICK all \in Int : all = base + size  BY <1>52
      <3>7. next + start = Most(start, all)
        <4>1. next + start = all /\ start <= all  BY <3>4, <3>5, <3>6
        <4> QED  BY <4>1, Zenon DEF Most
      <3>8. d'.produced = all /\ Start = start /\ expect' = next  BY <1>1, <1>5, <1>6, <3>6
      <3> QED  BY <3>7, <3>8
    <2>3. Timed(d', expect', id)  BY <1>7, <2>2 DEF Timed
    <2> QED  BY <1>2, <2>3 DEF On
  <1>8. CASE d'.pending # <<>>
    <2>1. left > 0
      <3>1. d'.pending \in Seq(Sample)  BY DEF DTypes
      <3>2. left # 0  BY <1>4, <1>8, <3>1, EmptyLen
      <3> QED  BY <3>2
    <2>2. PICK y \in 0..FrameSize - 1 : y = x + n
      <3>1. x + n \in Nat /\ x + n <= size - 1  BY <1>4, <1>51, <1>52, <2>1
      <3>2. x + n \in 0..size - 1  BY <1>52, <3>1
      <3> QED  BY <1>5, <3>2
    <2>3. /\ y + Len(d'.pending) <= FrameSize
          /\ d'.produced < d'.end => y + Len(d'.pending) = FrameSize
      <3>1. y = x + n /\ x \in Nat /\ y \in Nat  BY <1>51, <1>52, <2>2
      <3>2. y + left = x + len  BY <1>52, <3>1
      <3> QED  BY <1>1, <1>4, <1>5, <1>51, <3>2
    <2>4. expect' + Start = (id - 1) * FrameSize + y
      <3>1. y = x + n /\ y \in Nat  BY <1>51, <1>52, <2>2
      <3>2. next + start = base + y  BY <1>61, <3>1
      <3> QED  BY <1>5, <1>6, <3>2
    <2>5. ASSUME NEW k \in DOMAIN d'.pending PROVE d'.pending[k] = <<id, id - 1, y + k - 1>>
      <3>1. n + k \in DOMAIN d.pending /\ d'.pending[k] = d.pending[n + k]  BY DEF Handed
      <3>2. d.pending[n + k] = <<id, id - 1, x + (n + k) - 1>>  BY <1>3, <3>1
      <3>3. k \in Nat
        <4>1. d'.pending \in Seq(Sample)  BY DEF DTypes
        <4>2. k \in 1..Len(d'.pending)  BY <4>1, LenNat
        <4> QED  BY <1>4, <4>2
      <3>4. x + (n + k) - 1 = y + k - 1  BY <2>2, <3>3
      <3> QED  BY <3>1, <3>2, <3>4
    <2>6. Timed(d', expect', id)
      <3>1. \E z \in 0..FrameSize - 1 :
               /\ z + Len(d'.pending) <= FrameSize
               /\ d'.produced < d'.end => z + Len(d'.pending) = FrameSize
               /\ expect' + Start = (id - 1) * FrameSize + z
               /\ \A i \in DOMAIN d'.pending : d'.pending[i] = <<id, id - 1, z + i - 1>>
        BY <2>3, <2>4, <2>5
      <3> QED  BY <1>8, <3>1, Zenon DEF Timed
    <2> QED  BY <1>2, <2>6 DEF On
  <1> QED  BY <1>7, <1>8

\* Handing samples out.
LEMMA DeliverW ==
    ASSUME BInv, WInv, ~adrift, UNCHANGED <<file, dec>>, call.at = "back", call.err = "none",
           call'.at # "prime", NEW op \in Ops, NEW err \in Errs, NEW n \in Nat,
           n <= Len(d.pending), Deliver(op, n, err)
    PROVE  WInv'
  <1> SUFFICES ASSUME src.whole PROVE Synced(d', dec', call', expect') /\ AudioKnown(d')
    BY WNext
  <1>1. Whole /\ Sound(d) /\ Live(d) /\ d.pending # <<>> /\ expect \in Nat
    BY DEF BInv, Phases, Whole
  <1>2. Sound(d') /\ Changed(d', d, {"pending"}) /\ Handed(n)  BY DeliverFacts
  <1>3. DTypes(d) /\ DTypes(d')  BY <1>1, <1>2 DEF Sound
  <1>4. Stays(d', d)
    <2>1. d'.pos = d.pos /\ d'.br = d.br /\ d'.buf = d.buf  BY <1>2, ChangedFields
    <2>2. /\ d'.tagChecked = d.tagChecked /\ d'.seen = d.seen /\ d'.rate = d.rate
          /\ d'.start = d.start /\ d'.end = d.end /\ d'.produced = d.produced
          /\ d'.audioStart = d.audioStart
      BY <1>2, ChangedFields
    <2> QED  BY <2>1, <2>2 DEF Stays, Here
  <1>5. Reading(d, dec, call, expect) /\ AudioKnown(d)  BY <1>1 DEF WInv, Synced
  <1>6. PICK id \in Nat : On(d, dec, expect, id)  BY <1>5 DEF Reading
  <1>7. On(d', dec, expect', id)  BY <1>1, <1>2, <1>3, <1>4, <1>6, HandedOn
  <1>8. AudioKnown(d')  BY <1>4, <1>5, SameAudio DEF Stays
  <1> QED  BY <1>7, <1>8 DEF Synced, Reading

\* The end of a read, or a turn of WriteTo, preserves WInv.
LEMMA HandsW == ASSUME BInv, WInv, ~adrift, ReadEnds \/ WriteToGoesOn PROVE WInv'
  <1>1. UNCHANGED <<file, dec>> /\ call.at = "back"  BY HandsOutOrNot
  <1>2. IdleCall.at = "idle" /\ Decoding("writeTo").at \in {"back", "decode"}
    BY IdleFacts, DecodingFacts
  <1>3. CASE Hands
    <2>1. PICK op \in {"read", "writeTo"}, err \in {"none", "sink"}, n \in Nat : Gives(op, n, err)
      BY <1>3 DEF Hands
    <2>2. /\ op \in Ops /\ err \in Errs /\ n <= Len(d.pending) /\ Deliver(op, n, err)
          /\ call'.at # "prime" /\ call.err = "none"
      BY <1>2, <1>3, <2>1 DEF Ops, Errs, Gives, Hands
    <2> QED  BY <1>1, <2>2, DeliverW
  <1>4. CASE UNCHANGED <<d, expect>> /\ call' = IdleCall  BY <1>1, <1>2, <1>4, UnchangedW
  <1> QED  BY <1>3, <1>4, HandsOutOrNot

-----------------------------------------------------------------------------
(***************************************************************************)
(* What a seek, and a step of its lead-in, may do.                         *)
(***************************************************************************)
\* Fields that are not changed are not, for the tag's.
LEMMA SameTagChanged ==
    ASSUME NEW f, NEW g, NEW S, Changed(g, f, S),
           S \cap {"tagChecked", "frames", "end", "total"} = {}
    PROVE  SameTag(g, f)
  BY ChangedFields DEF SameTag

\* The walk begins behind frames that are known.
LEMMA WalkFinds ==
    ASSUME file \in DOMAIN Sources, Sound(d), NEW target \in Nat, StopsAt(target) = target,
           ~Absent(target, target), NEW i \in Nat, i < target
    PROVE  /\ d.audioStart + i * FrameLen + 1 \in DOMAIN src.cells
           /\ src.cells[d.audioStart + i * FrameLen + 1].kind = Sized
  <1>1. PICK a \in Nat, p \in Nat, q \in Nat, n \in Nat :
           a = d.audioStart /\ p = i * FrameLen /\ q = target * FrameLen /\ p <= q
           /\ n = Len(src.cells)
    <2>1. d.audioStart \in Nat /\ Len(src.cells) \in Nat  BY SrcTypes DEF Sound, DTypes
    <2>2. i <= target  OBVIOUS
    <2>3. i * FrameLen \in Nat /\ target * FrameLen \in Nat /\ i * FrameLen <= target * FrameLen
      BY <2>2, Times
    <2> QED  BY <2>1, <2>3
  <1>2. /\ OffsetOf(i, target) = a + p /\ OffsetOf(target, target) = a + q
        /\ WalkStart(target) \in 0..target /\ WalkStart(target) < Len(Offsets)
    <2>1. i \in 0..target /\ target \in 0..target  OBVIOUS
    <2> QED  BY <1>1, <2>1, OffsetOfFacts
  <1>3. a + q < n
    <2>1. ~(a + q >= n)  BY <1>1, <1>2 DEF Absent
    <2> QED  BY <2>1
  <1>4. a + p + 1 \in DOMAIN src.cells
    <2>1. DOMAIN src.cells = 1..n  BY <1>1, SrcTypes, LenNat
    <2>2. p <= q  BY <1>1
    <2>3. a + p + 1 \in 1..n  BY <1>3, <2>2
    <2> QED  BY <2>1, <2>3
  <1>5. src.cells[a + p + 1].kind = Sized
    <2>1. CASE i >= WalkStart(target)
      <3>1. i \in WalkStart(target)..StopsAt(target) - 1  BY <1>2, <2>1
      <3>2. ~Unsized(i, target)  BY <3>1, StopsAtFacts
      <3> QED  BY <1>2, <3>2 DEF Unsized
    <2>2. CASE i < WalkStart(target)
      <3>1. PICK m \in Nat \ {0} :
               /\ m = Len(Offsets)
               /\ \A k \in 1..m : /\ Offsets[k] = d.audioStart + (k - 1) * FrameLen
                                  /\ k > 1 => src.cells[Offsets[k - 1] + 1].kind = Sized
        BY OffsetsFacts
      <3>2. i + 2 \in 1..m /\ i + 2 > 1 /\ i + 1 \in 1..m /\ (i + 2) - 1 = i + 1 /\ (i + 1) - 1 = i
        BY <1>2, <2>2, <3>1
      <3>3. src.cells[Offsets[i + 1] + 1].kind = Sized  BY <3>1, <3>2
      <3>4. Offsets[i + 1] = a + p  BY <1>1, <3>1, <3>2
      <3> QED  BY <3>3, <3>4
    <2> QED  BY <1>2, <2>1, <2>2
  <1> QED  BY <1>1, <1>4, <1>5

\* A seek to the end leaves no live decoder.
LEMMA EndsSeek ==
    ASSUME NEW f, Parked(f), Changed(f, d, {"frameOff", "pos"}), NEW s \in Nat, NEW total \in Nat,
           SeekToEnd(f, s, total)
    PROVE  Failed
  <1>1. ~Live(d') /\ d'.pending = <<>> /\ Changed(d', f, {"done", "pending", "err"})
    BY EndsAt DEF SeekToEnd
  <1>2. d'.rate = d.rate /\ d'.start = d.start /\ d'.audioStart = d.audioStart
    BY <1>1, Zenon DEF Changed, DFields
  <1>3. ret'.out = <<>> /\ call'.at = "idle" /\ ret'.op = "seek"
    BY IdleFacts, SeekRetFacts DEF SeekToEnd, Return, Errs
  <1>4. SameTag(d', d)
    <2>1. Changed(d', d, {"frameOff", "pos"} \cup {"done", "pending", "err"})  BY <1>1, ChangedTwice
    <2> QED  BY <2>1, SameTagChanged
  <1>5. got' = Frames /\ adrift' = adrift  BY DEF SeekToEnd
  <1> QED  BY <1>1, <1>2, <1>3, <1>4, <1>5 DEF Failed

\* Nor does one that fails.
LEMMA FailsSeek ==
    ASSUME NEW f, Parked(f), f.rate = d.rate, f.start = d.start, f.audioStart = d.audioStart,
           SameTag(f, d), NEW s \in Nat, NEW e \in Errs \ {"none"}, SeekFailed(f, s, e)
    PROVE  Failed
  <1>1. ~Live(d') /\ d'.pending = <<>> /\ Changed(d', f, {"pending", "err"})
    BY FailsAt DEF SeekFailed
  <1>2. d'.rate = d.rate /\ d'.start = d.start /\ d'.audioStart = d.audioStart
    BY <1>1, ChangedFields
  <1>3. ret'.out = <<>> /\ call'.at = "idle" /\ ret'.op = "seek"
    BY IdleFacts, SeekRetFacts DEF SeekFailed, Return
  <1>4. SameTag(d', f)  BY <1>1, SameTagChanged
  <1>5. SameTag(d', d)  BY <1>4 DEF SameTag
  <1>6. d'.err # "none" /\ adrift' = adrift
    <2>1. d' = [f EXCEPT !.err = e, !.pending = <<>>] /\ adrift' = adrift  BY DEF SeekFailed
    <2>2. DOMAIN f = DFields  BY DomainOf DEF Parked
    <2>3. d'.err = e  BY <2>1, <2>2, Zenon DEF DFields
    <2> QED  BY <2>1, <2>3
  <1> QED  BY <1>1, <1>2, <1>3, <1>5, <1>6 DEF Failed

\* A seek ends, is refused, or begins to prime at a frame the walk found.
LEMMA SeekTurns ==
    ASSUME BInv, NEW s \in Targets, Seek(s)
    PROVE  /\ UNCHANGED file /\ call.at = "idle" /\ d.rate
           /\ Failed \/ Refused \/ Strayed \/ \E target \in Nat : Sought(target)
  <1>1. UNCHANGED file /\ call.at = "idle" /\ d.rate /\ s \in Nat  BY ConstTypes DEF Seek
  <1>2. file \in DOMAIN Sources /\ Sound(d) /\ d.seen /\ d.total \in Nat /\ d.start \in Nat
    BY <1>1 DEF BInv, Sound, Opened, DTypes
  <1>3. CASE ret' = SeekRet(s, "unsupported", 0) /\ UNCHANGED <<d, dec, call, expect, got, adrift, faults>>
    <2>1. ret'.out = <<>> /\ ret'.op = "seek"  BY <1>1, <1>3, SeekRetFacts DEF Errs
    <2>2. SameTag(d', d)  BY <1>3 DEF SameTag
    <2> QED  BY <1>1, <1>3, <2>1, <2>2, AlikeSelf DEF Refused
  <1>4. CASE SeekToEnd(d, s, d.total)
    <2>1. Parked(d) /\ Changed(d, d, {"frameOff", "pos"})
      BY <1>1, <1>2, SoundParked, SameChanged DEF Sound
    <2> QED  BY <1>1, <1>2, <1>4, <2>1, EndsSeek
  <1>5. CASE SeekWalk(s) /\ ~(d.total # 0 /\ s >= d.total)
    <2>1. PICK raw \in Nat : raw = Raw(s)  BY <1>1, <1>2 DEF Raw
    <2>2. PICK target \in Nat : target = raw \div FrameSize  BY DivFacts, ConstTypes
    <2>3. PICK intra \in Nat : intra = raw % FrameSize  BY DivFacts, ConstTypes
    <2>4. PICK prime \in Nat : prime = PrimeFrom(target) /\ prime <= target  BY PrimeFromFacts
    <2>5. PICK stop \in Nat : /\ stop = StopsAt(target) /\ stop <= target
                              /\ stop \in WalkStart(target)..StopsAt(target)
      <3>1. StopsAt(target) \in WalkStart(target)..target /\ StopsAt(target) \in 0..target
        BY <1>2, StopsAtFacts
      <3>2. WalkStart(target) \in 0..target  BY <1>2, OffsetOfFacts
      <3> QED  BY <3>1, <3>2
    <2>6. \A i \in WalkStart(target)..StopsAt(target) :
             Parked(Walked(i, target)) /\ Changed(Walked(i, target), d, {"frameOff", "pos"})
      BY <1>1, <1>2, WalkedFacts
    <2>7. PICK f : f = Walked(stop, target)  OBVIOUS
    <2>8. Parked(f) /\ Changed(f, d, {"frameOff", "pos"})  BY <2>5, <2>6, <2>7
    <2>9. \/ \E i \in WalkStart(target)..StopsAt(target) : SeekFailed(Walked(i, target), s, "io")
          \/ /\ (d' = [f EXCEPT !.pos = d.pos] /\ adrift' = adrift) \/ (d' = f /\ adrift' = TRUE)
             /\ Return(SeekRet(s, "unsupported", 0))
             /\ UNCHANGED <<dec, expect, got>>
          \/ SeekToEnd(f, s, Most(stop * FrameSize - d.start, 0))
          \/ /\ stop = target /\ ~Absent(stop, target)
             /\ d' = Reseek(f, OffsetOf(prime, target)) /\ dec' = Cold /\ adrift' = FALSE
             /\ call' = PrimeCall(s, prime, target, intra)
             /\ UNCHANGED <<ret, expect, got>>
      <3>1. ~(stop < target) => stop = target  BY <2>5
      <3> QED
        BY <1>5, <2>1, <2>2, <2>3, <2>4, <2>5, <2>7, <3>1 DEF SeekWalk, SeekUnsupported, PrimeCall
    <2>10. CASE \E i \in WalkStart(target)..StopsAt(target) : SeekFailed(Walked(i, target), s, "io")
      <3>1. PICK i \in WalkStart(target)..StopsAt(target) : SeekFailed(Walked(i, target), s, "io")
        BY <2>10
      <3>2. PICK g : g = Walked(i, target) /\ Parked(g) /\ Changed(g, d, {"frameOff", "pos"})
        BY <2>6
      <3>3. g.rate = d.rate /\ g.start = d.start /\ g.audioStart = d.audioStart /\ SameTag(g, d)
        BY <3>2, ChangedFields, SameTagChanged
      <3>4. SeekFailed(g, s, "io") /\ "io" \in Errs \ {"none"}  BY <3>1, <3>2 DEF Errs
      <3>5. Failed  BY <1>1, <3>2, <3>3, <3>4, FailsSeek
      <3> QED  BY <1>1, <3>5
    <2>11. CASE /\ (d' = [f EXCEPT !.pos = d.pos] /\ adrift' = adrift) \/ (d' = f /\ adrift' = TRUE)
                /\ Return(SeekRet(s, "unsupported", 0))
                /\ UNCHANGED <<dec, expect, got>>
      <3>0. ret'.out = <<>> /\ call'.at = "idle" /\ ret'.op = "seek"
        <4>1. "unsupported" \in Errs /\ 0 \in Nat  BY DEF Errs
        <4>2. SeekRet(s, "unsupported", 0).out = <<>> /\ SeekRet(s, "unsupported", 0).op = "seek"
          BY <1>1, <4>1, SeekRetFacts
        <4>3. ret' = SeekRet(s, "unsupported", 0) /\ call' = IdleCall  BY <2>11 DEF Return
        <4> QED  BY <4>2, <4>3, IdleFacts
      <3> SUFFICES ASSUME ~Strayed PROVE Refused  BY <1>1
      <3>9. d' = [f EXCEPT !.pos = d.pos] /\ adrift' = adrift  BY <2>8, <2>11, <3>0 DEF Strayed
      <3>1. Sound(d') /\ Changed(d', d, {"frameOff"})  BY <1>1, <1>2, <2>8, <3>9, CachedFacts
      <3>2. d'.pos = d.pos /\ d'.br = d.br /\ d'.buf = d.buf /\ d'.err = d.err /\ d'.done = d.done
        BY <3>1, ChangedFields
      <3>3. Here(d') = Here(d) /\ (Live(d') <=> Live(d))  BY <3>2 DEF Here, Live
      <3>4. Alike(d', d)  BY <3>1, <3>3, AlikeChanged
      <3>6. SameTag(d', d)  BY <3>1, SameTagChanged
      <3> QED  BY <2>11, <3>0, <3>2, <3>3, <3>4, <3>6, <3>9 DEF Refused
    <2>12. CASE SeekToEnd(f, s, Most(stop * FrameSize - d.start, 0))
      <3>1. PICK total \in Nat : total = Most(stop * FrameSize - d.start, 0)
        <4>1. stop * FrameSize \in Nat  BY ConstTypes
        <4> QED  BY <1>2, <4>1 DEF Most
      <3>2. SeekToEnd(f, s, total)  BY <2>12, <3>1
      <3>3. Failed  BY <1>1, <2>8, <3>2, EndsSeek
      <3> QED  BY <1>1, <3>3
    <2>13. CASE /\ stop = target /\ ~Absent(stop, target)
                /\ d' = Reseek(f, OffsetOf(prime, target)) /\ dec' = Cold /\ adrift' = FALSE
                /\ call' = PrimeCall(s, prime, target, intra)
                /\ UNCHANGED <<ret, expect, got>>
      <3>1. PICK pos \in Nat : /\ pos = OffsetOf(prime, target) /\ pos <= Len(src.cells)
                               /\ pos = d.audioStart + prime * FrameLen
        <4>1. prime \in 0..target /\ target \in 0..target  BY <2>4
        <4>2. PICK p \in Nat, t \in Nat : p = prime * FrameLen /\ t = target * FrameLen /\ p <= t
          BY <2>4, Times
        <4>3. PICK a \in Nat : a = d.audioStart  BY <1>2 DEF Sound, DTypes
        <4>4. OffsetOf(prime, target) = a + p /\ OffsetOf(target, target) = a + t
          BY <1>2, <4>1, <4>2, <4>3, OffsetOfFacts
        <4>5. PICK n \in Nat : n = Len(src.cells)  BY <1>2, SrcTypes
        <4>6. ~(a + t >= n)  BY <2>13, <4>4, <4>5 DEF Absent
        <4>7. a + p \in Nat /\ a + p <= n  BY <4>2, <4>5, <4>6
        <4> QED  BY <4>2, <4>3, <4>4, <4>5, <4>7
      <3>2. /\ Live(d') /\ d'.pending = <<>> /\ Here(d') = pos /\ d'.buf = <<>>
            /\ Changed(d', f, {"pos", "br", "buf", "pending", "readErr", "done", "err"})
        BY <1>2, <2>8, <2>13, <3>1, ReseekFacts
      <3>3. d'.rate = d.rate /\ d'.start = d.start /\ d'.audioStart = d.audioStart
        BY <2>8, <3>2, Zenon DEF Changed, DFields
      <3>4. call'.at = "prime" /\ call'.frame = prime /\ call'.target = target /\ call'.asked = s
        BY <1>1, <2>13, PrimeCallFacts
      <3>5. StopsAt(target) = target /\ ~Absent(target, target)  BY <2>5, <2>13
      <3>6. \A i \in Nat : i < target =>
               /\ d.audioStart + i * FrameLen + 1 \in DOMAIN src.cells
               /\ src.cells[d.audioStart + i * FrameLen + 1].kind = Sized
        BY <1>2, <3>5, WalkFinds
      <3>7. SameTag(d', d)
        <4>1. Changed(d', d, {"frameOff", "pos"}
                               \cup {"pos", "br", "buf", "pending", "readErr", "done", "err"})
          BY <2>8, <3>2, ChangedTwice
        <4> QED  BY <4>1, SameTagChanged
      <3>8. d.total # 0 => s < d.total  BY <1>1, <1>2, <1>5
      <3>9. Sought(target)
        BY <2>4, <2>13, <3>1, <3>2, <3>3, <3>4, <3>6, <3>7, <3>8 DEF Sought
      <3> QED  BY <1>1, <3>9
    <2> QED  BY <2>9, <2>10, <2>11, <2>12, <2>13
  <1> QED  BY <1>1, <1>3, <1>4, <1>5 DEF Seek

\* The landing frame.
Lands(g, o) ==
    LET from == call.target * FrameSize
        hi == Least(from + FrameSize, g.end)
    IN  /\ (Live(d') <=> Live(g)) /\ Here(d') = Here(g) /\ d'.tagChecked = g.tagChecked
        /\ d'.seen = g.seen /\ d'.rate = g.rate /\ d'.start = g.start /\ d'.end = g.end
        /\ d'.audioStart = g.audioStart
        /\ d'.produced = from + FrameSize
        /\ d'.pending \in Seq(Sample) /\ Len(d'.pending) = Most(0, hi - from - call.intra)
        /\ \A k \in DOMAIN d'.pending : d'.pending[k] = <<o.id, o.prev, call.intra + k - 1>>
        /\ expect' = from + call.intra - g.start /\ got' = Passed(call.target)
        /\ call'.at = "idle" /\ ret'.out = <<>> /\ ret'.op = "seek" /\ SameTag(d', g)
        /\ adrift' = adrift

\* Landing, by the fields it changes.
LEMMA LandFacts ==
    ASSUME BInv, call.at = "prime", NEW f, Sound(f), Live(f), f.start = d.start, NEW o,
           o.id \in Nat, o.prev \in Nat, Land(f, o, call.asked)
    PROVE  Lands(f, o)
  <1>1. /\ call.asked \in Nat /\ call.target \in Nat /\ call.intra \in Nat
        /\ call.intra < FrameSize /\ call.target * FrameSize + call.intra = call.asked + d.start
        /\ d.start \in Nat
    BY DEF BInv, Phases, CallTypes, Sound, DTypes
  <1>2. f.end \in Nat  BY DEF Sound, DTypes
  <1>3. FrameSize \in Nat  BY ConstTypes
  <1>4. PICK from \in Nat : from = call.target * FrameSize  BY <1>1, <1>3
  <1>5. PICK landed \in Nat : landed = from + call.intra - f.start
    <2>1. from + call.intra = call.asked + d.start  BY <1>1, <1>4
    <2>2. PICK i \in Nat, a \in Nat, b \in Nat : i = call.intra /\ a = call.asked /\ b = f.start
      BY <1>1
    <2>3. from + i = a + b  BY <2>1, <2>2
    <2>4. from + i - b = a  BY <2>3
    <2> QED  BY <2>2, <2>4
  <1>6. PICK to \in Int : to = Least(from + FrameSize, f.end) - from /\ to <= FrameSize
    <2>1. Least(from + FrameSize, f.end) \in Nat /\ Least(from + FrameSize, f.end) <= from + FrameSize
      BY <1>2, <1>3, <1>4 DEF Least
    <2> HIDE DEF Least
    <2> QED  BY <1>3, <1>4, <2>1
  <1>7. PICK intra \in Nat : intra = call.intra  BY <1>1
  <1>8. PICK s : s = Samples(o, intra, to)  OBVIOUS
  <1>9. /\ d' = [f EXCEPT !.produced = from + FrameSize, !.pending = s]
        /\ call' = IdleCall /\ ret' = SeekRet(call.asked, "none", landed)
        /\ expect' = landed /\ got' = Passed(call.target) /\ adrift' = adrift
    BY <1>4, <1>5, <1>6, <1>7, <1>8 DEF Land, Return
  <1>10. /\ s \in Seq(Sample) /\ Len(s) = Most(0, to - intra)
         /\ \A k \in DOMAIN s : s[k] = <<o.id, o.prev, intra + k - 1>>
    BY <1>8, SamplesFacts
  <1>11. Len(s) <= FrameSize  BY <1>3, <1>6, <1>10 DEF Most
  <1>12. PICK n \in Nat : n = from + FrameSize  BY <1>3, <1>4
  <1>13. Landing(d', f, n, s)
    <2>1. d' = [f EXCEPT !.produced = n, !.pending = s]  BY <1>9, <1>12
    <2>2. Landing([f EXCEPT !.produced = n, !.pending = s], f, n, s)
      BY <1>10, <1>11, LandedFacts, Zenon
    <2> QED  BY <2>1, <2>2
  <1>14. /\ Changed(d', f, {"produced", "pending"}) /\ d'.pending = s /\ d'.produced = n
         /\ Here(d') = Here(f) /\ (Live(d') <=> Live(f))
    BY <1>13 DEF Landing
  <1>15. /\ d'.tagChecked = f.tagChecked /\ d'.seen = f.seen /\ d'.rate = f.rate
         /\ d'.start = f.start /\ d'.end = f.end /\ d'.audioStart = f.audioStart
    BY <1>14, ChangedFields
  <1>16. ret'.out = <<>> /\ call'.at = "idle" /\ ret'.op = "seek"
    <2>1. PICK asked \in Nat : asked = call.asked  BY <1>1
    <2>2. ret' = SeekRet(asked, "none", landed) /\ call' = IdleCall  BY <1>9, <2>1
    <2>3. "none" \in Errs  BY DEF Errs
    <2>4. SeekRet(asked, "none", landed).out = <<>> /\ SeekRet(asked, "none", landed).op = "seek"
      BY <2>3, SeekRetFacts
    <2> QED  BY <2>2, <2>4, IdleFacts
  <1>17. SameTag(d', f)  BY <1>14, SameTagChanged
  <1> QED
    BY <1>4, <1>5, <1>6, <1>7, <1>9, <1>10, <1>12, <1>14, <1>15, <1>16, <1>17 DEF Lands

\* The buffer is filled; the frame found is passed, or the one to land in.
Fed(f) ==
    /\ Sound(f) /\ Live(f) /\ Filled(f, SmallWindow) /\ Changed(f, d, Buffers)
    /\ Here(f) = Here(d) /\ f.readErr # "io" /\ Len(f.buf) > 0
Primed(f, o) ==
    /\ Fed(f) /\ o = DecodeFrame(f.buf) /\ dec' = o.dec
    /\ o.bytes \in Nat /\ o.bytes <= Len(f.buf)
    /\ Sound(Consume(f, o.bytes)) /\ Live(Consume(f, o.bytes))
    /\ Changed(Consume(f, o.bytes), f, {"buf"}) /\ Here(Consume(f, o.bytes)) = Here(f) + o.bytes
Goes(f, o) ==
    /\ call.frame < call.target /\ d' = Consume(f, o.bytes)
    /\ call'.at = "prime" /\ call'.frame = call.frame + 1 /\ call'.target = call.target
    /\ call'.intra = call.intra /\ call'.asked = call.asked /\ UNCHANGED <<ret, expect, got, adrift>>

\* A step of the lead-in fails, goes on, or lands.
LEMMA PrimeTurns ==
    ASSUME BInv, PrimeStep
    PROVE  /\ UNCHANGED file /\ call.at = "prime"
           /\ \/ Failed
              \/ \E f, o : /\ Primed(f, o)
                           /\ \/ Goes(f, o)
                              \/ /\ ~(call.frame < call.target) /\ o.ok
                                 /\ o.hit /\ Lands(Consume(f, o.bytes), o)
  <1>1. /\ file' = file /\ call.at = "prime" /\ file \in DOMAIN Sources /\ Sound(d) /\ Live(d)
        /\ d.rate /\ DecTypes(dec) /\ CallTypes(call) /\ d.pending = <<>> /\ call.asked \in Nat
    BY DEF PrimeStep, BInv, Phases, CallTypes
  <1>2. SmallWindow \in Nat /\ SmallWindow <= ResyncWindow  BY ConstTypes
  <1>3. PICK f \in Fills(SmallWindow) :
           IF f.readErr = "io" THEN SeekFailed(f, call.asked, "io")
           ELSE IF f.buf = <<>> THEN SeekFailed(f, call.asked, "eof")
           ELSE LET o == DecodeFrame(f.buf)
                    g == Consume(f, o.bytes)
                IN  /\ dec' = o.dec
                    /\ IF call.frame < call.target
                         THEN /\ d' = g /\ call' = [call EXCEPT !.frame = @ + 1]
                              /\ UNCHANGED <<ret, expect, got, adrift>>
                       ELSE IF o.ok THEN Land(g, o, call.asked)
                            ELSE SeekFailed(g, call.asked, "corrupt")
    BY DEF PrimeStep
  <1>4. /\ Sound(f) /\ Live(f) /\ Filled(f, SmallWindow) /\ Changed(f, d, Buffers)
        /\ Here(f) = Here(d)
    BY <1>1, <1>2, FillFacts
  <1>5. f.rate = d.rate /\ f.start = d.start /\ f.audioStart = d.audioStart /\ SameTag(f, d)
    BY <1>4, ChangedFields, SameTagChanged DEF Buffers
  <1>6. f.seen /\ f.buf \in Seq(CellType)  BY <1>1, <1>4, <1>5 DEF Sound, Opened, DTypes
  <1>7. {"io", "eof", "corrupt"} \subseteq Errs \ {"none"}  BY DEF Errs
  <1>8. CASE f.readErr = "io" \/ f.buf = <<>>
    <2>1. PICK e \in {"io", "eof"} : SeekFailed(f, call.asked, e)  BY <1>3, <1>8
    <2>2. Failed  BY <1>1, <1>4, <1>5, <1>6, <1>7, <2>1, SoundParked, FailsSeek
    <2> QED  BY <1>1, <2>2
  <1>9. CASE ~(f.readErr = "io" \/ f.buf = <<>>)
    <2>1. PICK n \in Nat : n = Len(f.buf) /\ n > 0
      <3>1. Len(f.buf) \in Nat /\ Len(f.buf) # 0  BY <1>6, <1>9, LenNat, EmptyLen
      <3> QED  BY <3>1
    <2>2. PICK o : o = DecodeFrame(f.buf)  OBVIOUS
    <2>3. PICK g : g = Consume(f, o.bytes)  OBVIOUS
    <2>4. /\ dec' = o.dec
          /\ IF call.frame < call.target
               THEN /\ d' = g /\ call' = [call EXCEPT !.frame = @ + 1]
                    /\ UNCHANGED <<ret, expect, got, adrift>>
             ELSE IF o.ok THEN Land(g, o, call.asked) ELSE SeekFailed(g, call.asked, "corrupt")
      BY <1>3, <1>9, <2>2, <2>3
    <2>5. /\ o.bytes \in 0..n /\ o.hit \in BOOLEAN
          /\ (o.hit => o.id \in Nat /\ o.prev \in Nat) /\ (~o.hit => ~o.ok)
      BY <1>1, <1>6, <2>1, <2>2, DecodeFacts
    <2>6. o.bytes \in Nat /\ o.bytes <= Len(f.buf)  BY <2>1, <2>5
    <2>7. Sound(g) /\ Live(g) /\ Changed(g, f, {"buf"}) /\ Here(g) = Here(f) + o.bytes
      BY <1>4, <2>3, <2>6, ConsumeFacts
    <2>8. g.rate = d.rate /\ g.seen /\ g.start = d.start /\ g.audioStart = d.audioStart /\ SameTag(g, d)
      BY <1>5, <1>6, <2>7, ChangedFields, SameTagChanged DEF SameTag
    <2>9. Primed(f, o)  BY <1>4, <1>9, <2>1, <2>2, <2>3, <2>4, <2>6, <2>7 DEF Primed, Fed
    <2>10. CASE call.frame < call.target
      <3>1. /\ d' = g /\ call' = [call EXCEPT !.frame = call.frame + 1]
            /\ UNCHANGED <<ret, expect, got, adrift>>
        BY <2>4, <2>10
      <3>2. /\ call'.at = "prime" /\ call'.frame = call.frame + 1
            /\ call'.target = call.target /\ call'.intra = call.intra
            /\ call'.asked = call.asked
        <4>1. DOMAIN call = CallFields  BY <1>1 DEF CallTypes
        <4> QED  BY <1>1, <3>1, <4>1, Zenon DEF CallFields
      <3>3. Goes(f, o)  BY <2>3, <2>10, <3>1, <3>2 DEF Goes
      <3> QED  BY <1>1, <2>9, <3>3
    <2>11. CASE ~(call.frame < call.target) /\ o.ok
      <3>1. Land(g, o, call.asked) /\ o.hit  BY <2>4, <2>5, <2>11
      <3>2. Lands(g, o)  BY <1>1, <2>5, <2>7, <2>8, <3>1, LandFacts
      <3> QED  BY <1>1, <2>3, <2>9, <2>11, <3>1, <3>2
    <2>12. CASE ~(call.frame < call.target) /\ ~o.ok
      <3>1. SeekFailed(g, call.asked, "corrupt")  BY <2>4, <2>12
      <3>2. Failed  BY <1>1, <1>7, <2>7, <2>8, <3>1, SoundParked, FailsSeek
      <3> QED  BY <1>1, <3>2
    <2> QED  BY <2>10, <2>11, <2>12
  <1> QED  BY <1>8, <1>9

-----------------------------------------------------------------------------
(***************************************************************************)
(* Whole sources: a seek lands behind the frames before its target.        *)
(***************************************************************************)
LEMMA FailedW ==
    ASSUME WInv, ~adrift', UNCHANGED file, Failed PROVE WInv'
  <1>1. ~adrift /\ ~Live(d') /\ call'.at # "prime" /\ (src.whole => AudioKnown(d'))
    BY AudioStays DEF Failed
  <1> QED  BY <1>1, RestW

\* A seek that begins to prime is aligned with its first frame, or can land no more.
LEMMA SoughtW ==
    ASSUME Whole, Sound(d), AudioKnown(d), d.rate, NEW target \in Nat, Sought(target)
    PROVE  Priming(d', dec', call') /\ AudioKnown(d')
  <1>1. /\ d'.buf = <<>> /\ dec' = Cold
        /\ Here(d') = d.audioStart + PrimeFrom(target) * FrameLen
        /\ d'.rate = d.rate /\ d'.start = d.start /\ d'.audioStart = d.audioStart
        /\ call'.frame = PrimeFrom(target) /\ call'.target = target
    BY DEF Sought
  <1>2. \A i \in Nat : i < target =>
           /\ d.audioStart + i * FrameLen + 1 \in DOMAIN src.cells
           /\ src.cells[d.audioStart + i * FrameLen + 1].kind = Sized
    BY DEF Sought
  <1>3. AudioKnown(d')  BY <1>1, SameAudio
  <1>4. PICK prime \in Nat : prime = PrimeFrom(target) /\ prime <= target
    BY PrimeFromFacts
  <1>5. target > 0 => prime < target  BY <1>4, ConstTypes DEF PrimeFrom, Most
  <1>6. First \in {0, 1} /\ Many \in Nat /\ (First = 0 => Many > 0) /\ Lead \in Nat  BY ShapeFacts
  <1>7. CASE d.audioStart = AudioAt
    <2>1. PICK k \in Nat : k = 1 - First /\ d.audioStart = At(k)
      <3>1. 1 - First \in Nat  BY <1>6
      <3> QED  BY <1>7, <3>1 DEF AudioAt
    <2>2. target > 0 => target + 1 - First <= Many /\ Kind = Sized
      <3> SUFFICES ASSUME target > 0 PROVE target + 1 - First <= Many /\ Kind = Sized  OBVIOUS
      <3>1. PICK i \in Nat : i = target - 1
        <4>1. target - 1 \in Nat  OBVIOUS
        <4> QED  BY <4>1
      <3>2. PICK p : p = At(k) + 1 + i * FrameLen  OBVIOUS
      <3>3. p = d.audioStart + i * FrameLen + 1
        <4>1. At(k) \in Nat /\ i * FrameLen \in Nat  BY AtFacts
        <4> QED  BY <2>1, <3>2, <4>1
      <3>4. p \in DOMAIN src.cells /\ src.cells[p].kind = Sized
        <4>1. i < target  BY <3>1
        <4> QED  BY <1>2, <3>3, <4>1
      <3>5. IsHeader(src.cells[p])  BY <3>4 DEF IsHeader
      <3>6. k + i < Many /\ src.cells[p].kind = Kind
        <4>1. k + i < Many  BY <3>2, <3>4, <3>5, OnFrom
        <4> QED  BY <3>2, <4>1, OnFrom
      <3>7. target + 1 - First <= Many  BY <1>6, <2>1, <3>1, <3>6
      <3> QED  BY <3>4, <3>6, <3>7
    <2>3. target = 0 => target + 1 - First <= Many  BY <1>6
    <2>4. Here(d') = At(prime + 1 - First)
      <3>1. At(k + prime) = At(k) + prime * FrameLen  BY AtFacts
      <3>2. k + prime = prime + 1 - First  BY <1>6, <2>1
      <3> QED  BY <1>1, <1>4, <2>1, <3>1, <3>2
    <2>5. Warm(dec', prime - prime)
      <3>1. prime - prime = 0 /\ dec'.run = 0  BY <1>1 DEF Cold
      <3> QED  BY <3>1, ConstTypes DEF Warm, Least
    <2>6. prime = target => dec'.prev = target
      <3>1. prime = target => target = 0  BY <1>5
      <3> QED  BY <1>1, <3>1 DEF Cold
    <2>7. Aligned(d', dec', call')
      BY <1>1, <1>4, <1>7, <2>2, <2>3, <2>4, <2>5, <2>6 DEF Aligned
    <2> QED  BY <1>3, <2>7 DEF Priming
  <1>8. CASE d.audioStart + SmallWindow <= Lead
    <2>1. target = 0
      <3> SUFFICES ASSUME target > 0 PROVE FALSE  OBVIOUS
      <3>1. PICK p : p = d.audioStart + 0 * FrameLen + 1  OBVIOUS
      <3>2. p \in DOMAIN src.cells /\ src.cells[p].kind = Sized  BY <1>2, <3>1
      <3>3. IsHeader(src.cells[p])  BY <3>2 DEF IsHeader
      <3>4. PICK k \in Nat : k < Many /\ p = At(k) + 1  BY <3>2, <3>3, HeadAt
      <3>5. d.audioStart \in Nat /\ 0 * FrameLen = 0  BY ConstTypes DEF Sound, DTypes
      <3>6. At(k) \in Nat /\ Lead <= At(k)  BY AtFacts
      <3> QED  BY <1>6, <1>8, <3>1, <3>4, <3>5, <3>6, ConstTypes
    <2>2. Here(d') = d.audioStart
      <3>1. prime = 0 /\ 0 * FrameLen = 0  BY <1>4, <2>1, ConstTypes
      <3>2. d.audioStart \in Nat  BY DEF Sound, DTypes
      <3> QED  BY <1>1, <1>4, <3>1, <3>2
    <2>3. Blind(d', dec', call')  BY <1>1, <1>8, <2>1, <2>2 DEF Blind
    <2> QED  BY <1>3, <2>3 DEF Priming
  <1> QED  BY <1>7, <1>8 DEF AudioKnown

\* Every seek preserves WInv.
LEMMA SeekW == ASSUME BInv, WInv, ~adrift', NEW s \in Targets, Seek(s) PROVE WInv'
  <1>1. UNCHANGED file /\ call.at = "idle" /\ d.rate  BY SeekTurns
  <1>2. CASE Failed  BY <1>1, <1>2, FailedW
  <1>3. CASE Refused
    <2>1. /\ Alike(d', d) /\ (Live(d') <=> Live(d)) /\ dec' = dec /\ expect' = expect
          /\ call'.at # "prime" /\ ~adrift
      BY <1>3 DEF Refused
    <2>2. src.whole => AudioKnown(d')  BY <2>1, AudioStays DEF Alike, Stays
    <2> QED  BY <1>1, <2>1, <2>2, RestW
  <1>4. CASE \E target \in Nat : Sought(target)
    <2> SUFFICES ASSUME src.whole PROVE Synced(d', dec', call', expect') /\ AudioKnown(d')
      BY <1>1, WNext
    <2>1. PICK target \in Nat : Sought(target)  BY <1>4
    <2>2. Whole /\ Sound(d) /\ AudioKnown(d)  BY DEF BInv, WInv, Whole
    <2>3. Priming(d', dec', call') /\ AudioKnown(d')  BY <1>1, <2>1, <2>2, SoughtW
    <2>4. call'.at = "prime"  BY <2>1 DEF Sought
    <2> QED  BY <2>3, <2>4 DEF Synced
  <1> QED  BY <1>2, <1>3, <1>4, SeekTurns DEF Strayed

\* In the lead-in, what is found is the next frame, or there is none left.
LEMMA FedView ==
    ASSUME Whole, ~adrift, NEW f, Fed(f)
    PROVE  \E n \in Nat, h \in Nat :
              /\ n = Len(f.buf) /\ h = Here(f) /\ View(f.buf, n, h) /\ n > 0
              /\ n <= SmallWindow \/ d.buf # <<>>
              /\ n > FrameLen \/ h + n = Len(src.cells)
  <1>1. View(f.buf, Len(f.buf), Here(f))
        /\ (f.readErr = "eof" => Here(f) + Len(f.buf) = Len(src.cells))
    BY BufferView DEF Fed
  <1>2. PICK n \in Nat, h \in Nat : n = Len(f.buf) /\ h = Here(f) /\ n > 0
    <2>1. Len(f.buf) \in Nat /\ Here(f) \in Nat  BY <1>1, ViewFacts
    <2> QED  BY <2>1 DEF Fed
  <1>3. n <= SmallWindow \/ d.buf # <<>>
    <2>1. d.buf = <<>> => Len(d.buf) = 0  OBVIOUS
    <2>2. n <= Most(SmallWindow, Len(d.buf))  BY <1>2 DEF Fed, Filled
    <2>3. Most(SmallWindow, 0) = SmallWindow  BY ConstTypes DEF Most
    <2> QED  BY <2>1, <2>2, <2>3
  <1>4. n > FrameLen \/ h + n = Len(src.cells)
    <2>1. f.readErr \in {"none", "eof"}  BY DEF Fed, Sound, DTypes
    <2>2. f.readErr = "none" => n >= SmallWindow  BY <1>2 DEF Fed, Filled
    <2>3. f.readErr = "none" => n > FrameLen  BY <2>2, ConstTypes
    <2> QED  BY <1>1, <1>2, <2>1, <2>3
  <1> QED  BY <1>1, <1>2, <1>3, <1>4

\* DecodeFrame finds a frame exactly where OffIn says.
LEMMA Offs ==
    ASSUME DecTypes(dec), NEW b, b \in Seq(CellType), NEW n \in Nat, n = Len(b), n > 0,
           NEW o, o = DecodeFrame(b)
    PROVE  /\ OffIn(b) \in 0..n
           /\ OffIn(b) < n => o.hit
           /\ OffIn(b) = n => o.hit = FALSE /\ o.ok = FALSE /\ o.dec = Cold /\ o.bytes = n
  <1>1. PICK off : off = OffIn(b) /\ off \in 0..n  BY OffInFacts
  <1>2. off < n => o.hit
    <2>1. off < n => o = HitAt(b, off)  BY <1>1, DecodeHit
    <2> QED  BY <2>1 DEF HitAt
  <1>3. off = n => o.hit = FALSE /\ o.ok = FALSE /\ o.dec = Cold /\ o.bytes = n
    BY <1>1, DecodeMiss
  <1> QED  BY <1>1, <1>2, <1>3

\* At the end of the source there is nothing.
LEMMA EndGone == ASSUME Whole, NEW h \in Nat, h = Len(src.cells) PROVE Gone(h)
  BY SrcTypes, LenNat DEF Whole, Gone

\* The frame in front, in the lead-in: frame + 1 of the source.
LEMMA AlignedHit ==
    ASSUME Whole, ~adrift, DecTypes(dec), NEW f, NEW o, Primed(f, o), NEW frame \in Nat, NEW target \in Nat,
           frame = call.frame, target = call.target, frame <= target, Aligned(d, dec, call), o.hit
    PROVE  \E j \in Nat :
              /\ Here(f) = At(j) /\ First + j = frame + 1 /\ j < Many
              /\ o.bytes = FrameLen /\ dec'.hdr = Kind /\ o.id = frame + 1 /\ o.prev = dec.prev
              /\ dec'.run = Least(dec.run + 1, PrimeFrames)
              /\ Warm(dec, frame - PrimeFrom(target))
              /\ frame + 1 >= target => o.ok /\ dec'.prev = frame + 1
  <1>1. /\ Here(d) = At(frame + 1 - First) /\ target + 1 - First <= Many
        /\ PrimeFrom(target) <= frame /\ Warm(dec, frame - PrimeFrom(target))
        /\ dec = Cold \/ dec.hdr = Kind
    BY DEF Aligned
  <1>2. First \in {0, 1} /\ Many \in Nat  BY ShapeFacts
  <1>3. PICK j \in Nat : j = frame + 1 - First /\ First + j = frame + 1 /\ Here(f) = At(j)
    <2>1. frame + 1 - First \in Nat /\ First + (frame + 1 - First) = frame + 1  BY <1>2
    <2>2. Here(f) = Here(d)  BY DEF Primed, Fed
    <2> QED  BY <1>1, <2>1, <2>2
  <1>4. PICK n \in Nat, h \in Nat : n = Len(f.buf) /\ h = Here(f) /\ View(f.buf, n, h) /\ n > 0
    BY FedView DEF Primed
  <1>5. o = DecodeFrame(f.buf) /\ dec' = o.dec /\ f.buf \in Seq(CellType)
    BY DEF Primed, Fed, Sound, DTypes
  <1>6. OffIn(f.buf) < n
    <2>1. OffIn(f.buf) \in 0..n /\ (OffIn(f.buf) = n => o.hit = FALSE)  BY <1>4, <1>5, Offs
    <2> QED  BY <2>1
  <1>7. OffIn(f.buf) = 0 /\ j < Many /\ Base(f.buf) = dec  BY <1>1, <1>3, <1>4, <1>6, HitHere
  <1>8. /\ o.hit /\ o.off = 0 /\ o.id = First + j /\ o.prev = dec.prev
        /\ o.bytes = 0 + FrameLen /\ o.dec.hdr = Kind
        /\ o.dec.run = Least(dec.run + 1, PrimeFrames)
        /\ Most(0, Least(First + j - 1, PrimeFrames - 1)) <= dec.run =>
              Decoded(o, 0, First + j, dec.prev, dec.run)
    <2>1. 0 < n /\ h + 0 = At(j) /\ 0 = OffIn(f.buf)  BY <1>3, <1>4, <1>7
    <2> QED  BY <1>4, <1>5, <1>7, <2>1, HitFrame
  <1>9. ASSUME frame + 1 >= target PROVE o.ok /\ dec'.prev = frame + 1
    <2>1. dec.run \in Nat /\ dec.run >= Least(PrimeFrames, frame - PrimeFrom(target))
      BY <1>1 DEF DecTypes, Warm
    <2>2. Most(0, Least(frame, PrimeFrames - 1)) <= dec.run
      BY <1>1, <1>9, <2>1, ReachLeadIn
    <2>3. First + j - 1 = frame  BY <1>2, <1>3
    <2>4. Decoded(o, 0, frame + 1, dec.prev, dec.run)  BY <1>3, <1>8, <2>2, <2>3
    <2> QED  BY <1>5, <2>4 DEF Decoded
  <1>10. o.bytes = FrameLen  BY <1>8, ConstTypes
  <1> QED  BY <1>1, <1>3, <1>5, <1>7, <1>8, <1>9, <1>10

\* Without one, none is left behind the buffer.
LEMMA PrimedMiss ==
    ASSUME Whole, ~adrift, DecTypes(dec), NEW f, NEW o, Primed(f, o), Priming(d, dec, call), ~o.hit,
           NEW frame \in Nat, frame = call.frame, NEW target \in Nat, target = call.target, target > 0
    PROVE  Gone(Here(f) + o.bytes) /\ dec' = Cold
  <1>1. PICK n \in Nat, h \in Nat :
           /\ n = Len(f.buf) /\ h = Here(f) /\ View(f.buf, n, h) /\ n > 0
           /\ n > FrameLen \/ h + n = Len(src.cells)
           /\ n <= SmallWindow \/ d.buf # <<>>
    BY FedView DEF Primed
  <1>2. o = DecodeFrame(f.buf) /\ dec' = o.dec /\ f.buf \in Seq(CellType) /\ Here(f) = Here(d)
    BY DEF Primed, Fed, Sound, DTypes
  <1>3. OffIn(f.buf) = n /\ dec' = Cold /\ o.bytes = n
    <2>1. /\ OffIn(f.buf) \in 0..n /\ (OffIn(f.buf) < n => o.hit)
          /\ (OffIn(f.buf) = n => o.dec = Cold /\ o.bytes = n)
      BY <1>1, <1>2, Offs
    <2> QED  BY <1>2, <2>1
  <1> SUFFICES Gone(h + n)  BY <1>1, <1>3
  <1>4. CASE h + n = Len(src.cells)
    <2>1. h + n \in Nat  BY <1>1
    <2> QED  BY <1>4, <2>1, EndGone
  <1>5. CASE n > FrameLen /\ Aligned(d, dec, call)
    <2>1. Here(d) = At(frame + 1 - First) /\ (dec.hdr = Kind \/ (dec = Cold /\ Kind = Sized))
      BY <1>5 DEF Aligned
    <2>2. PICK j \in Nat : j = frame + 1 - First
      <3>1. frame + 1 - First \in Nat  BY ShapeFacts
      <3> QED  BY <3>1
    <2>3. h = At(j)  BY <1>1, <1>2, <2>1, <2>2
    <2> QED  BY <1>1, <1>3, <1>5, <2>1, <2>3, MissHere
  <1>6. CASE dec = Cold /\ Gone(Here(d))
    <2>1. Gone(h) /\ h + n \in Nat /\ h <= h + n  BY <1>1, <1>2, <1>6
    <2> QED  BY <2>1, GoneGrows
  <1>7. ~Blind(d, dec, call)  BY DEF Blind
  <1> QED  BY <1>1, <1>4, <1>5, <1>6, <1>7 DEF Priming

\* Where no frame follows, a priming step finds none.
LEMMA GoneNoHit ==
    ASSUME Whole, ~adrift, DecTypes(dec), NEW f, NEW o, Primed(f, o), dec = Cold, Gone(Here(d))
    PROVE  ~o.hit
  <1>1. PICK n \in Nat, h \in Nat : n = Len(f.buf) /\ h = Here(f) /\ View(f.buf, n, h) /\ n > 0
    BY FedView DEF Primed
  <1>2. o = DecodeFrame(f.buf) /\ f.buf \in Seq(CellType) /\ Here(f) = Here(d)
    BY DEF Primed, Fed, Sound, DTypes
  <1>3. Hidden(h, h + n)  BY <1>1, <1>2, GoneHidden
  <1>4. OffIn(f.buf) = n  BY <1>1, <1>3, MissHidden
  <1> QED  BY <1>1, <1>2, <1>4, Offs

\* Nor does one whose window lies before the first frame.
LEMMA BlindNoHit ==
    ASSUME Whole, ~adrift, DecTypes(dec), NEW f, NEW o, Primed(f, o), Blind(d, dec, call)
    PROVE  ~o.hit
  <1>1. PICK n \in Nat, h \in Nat :
           /\ n = Len(f.buf) /\ h = Here(f) /\ View(f.buf, n, h) /\ n > 0
           /\ n <= SmallWindow \/ d.buf # <<>>
    BY FedView DEF Primed
  <1>2. o = DecodeFrame(f.buf) /\ f.buf \in Seq(CellType) /\ Here(f) = Here(d)
    BY DEF Primed, Fed, Sound, DTypes
  <1>3. dec = Cold /\ h + SmallWindow <= Lead /\ n <= SmallWindow  BY <1>1, <1>2 DEF Blind
  <1>4. h + n <= Lead
    <2>1. SmallWindow \in Nat /\ Lead \in Nat  BY ConstTypes, ShapeFacts
    <2> QED  BY <1>1, <1>3, <2>1
  <1>5. OffIn(f.buf) = n  BY <1>1, <1>3, <1>4, MissBlind
  <1> QED  BY <1>1, <1>2, <1>5, Offs

\* A step of the lead-in changes only the buffers.
LEMMA PrimedKeeps ==
    ASSUME NEW f, NEW o, Primed(f, o), NEW g, g = Consume(f, o.bytes)
    PROVE  /\ Here(g) = Here(d) + o.bytes /\ g.tagChecked = d.tagChecked /\ g.seen = d.seen
           /\ g.rate = d.rate /\ g.start = d.start /\ g.audioStart = d.audioStart
           /\ g.end \in Nat /\ Live(g) /\ SameTag(g, d)
  <1>1. Changed(f, d, Buffers) /\ Here(f) = Here(d)  BY DEF Primed, Fed
  <1>2. Sound(g) /\ Live(g) /\ Changed(g, f, {"buf"}) /\ Here(g) = Here(f) + o.bytes  BY DEF Primed
  <1>3. /\ f.tagChecked = d.tagChecked /\ f.seen = d.seen /\ f.rate = d.rate
        /\ f.start = d.start /\ f.audioStart = d.audioStart
    BY <1>1, ChangedFields DEF Buffers
  <1>4. /\ g.tagChecked = f.tagChecked /\ g.seen = f.seen /\ g.rate = f.rate
        /\ g.start = f.start /\ g.audioStart = f.audioStart
    BY <1>2, ChangedFields
  <1>5. g.end \in Nat  BY <1>2 DEF Sound, DTypes
  <1>6. SameTag(g, d)
    <2>1. Buffers \cup {"buf"} = Buffers  BY DEF Buffers
    <2>2. Changed(g, d, Buffers)  BY <1>1, <1>2, <2>1, ChangedTwice
    <2> QED  BY <2>2, SameTagChanged DEF Buffers
  <1> QED  BY <1>1, <1>2, <1>3, <1>4, <1>5, <1>6

\* A frame of the lead-in.
LEMMA GoesW ==
    ASSUME Whole, ~adrift, DecTypes(dec), CallTypes(call), Priming(d, dec, call), NEW f, NEW o,
           Primed(f, o), Goes(f, o)
    PROVE  Priming(d', dec', call')
  <1>1. PICK frame \in Nat, target \in Nat :
           /\ frame = call.frame /\ target = call.target /\ frame < target
           /\ call'.frame = frame + 1 /\ call'.target = target
    <2>1. call.frame \in Nat /\ call.target \in Nat  BY DEF CallTypes
    <2> QED  BY <2>1 DEF Goes
  <1>2. /\ Here(d') = Here(d) + o.bytes /\ Here(f) = Here(d) /\ d'.audioStart = d.audioStart
    <2>1. d' = Consume(f, o.bytes)  BY DEF Goes
    <2>2. Here(d') = Here(d) + o.bytes /\ d'.audioStart = d.audioStart  BY <2>1, PrimedKeeps
    <2>3. Here(f) = Here(d)  BY DEF Primed, Fed
    <2> QED  BY <2>2, <2>3
  <1>3. CASE ~o.hit
    <2>1. Gone(Here(f) + o.bytes) /\ dec' = Cold  BY <1>1, <1>3, PrimedMiss
    <2> QED  BY <1>2, <2>1 DEF Priming
  <1>4. CASE o.hit
    <2>1. Aligned(d, dec, call)  BY <1>4, GoneNoHit, BlindNoHit DEF Priming
    <2>2. PICK prime \in Nat : prime = PrimeFrom(target)  BY PrimeFromFacts
    <2>3. /\ d.audioStart = AudioAt /\ target + 1 - First <= Many /\ Kind = Sized
          /\ prime <= frame
      <3>1. /\ d.audioStart = AudioAt /\ target + 1 - First <= Many /\ (target > 0 => Kind = Sized)
            /\ prime <= frame
        BY <1>1, <2>1, <2>2 DEF Aligned
      <3>2. target > 0  BY <1>1
      <3> QED  BY <3>1, <3>2
    <2>4. frame <= target  BY <1>1
    <2>5. PICK j \in Nat :
             /\ Here(f) = At(j) /\ First + j = frame + 1
             /\ o.bytes = FrameLen /\ dec'.hdr = Kind
             /\ dec'.run = Least(dec.run + 1, PrimeFrames)
             /\ Warm(dec, frame - prime)
             /\ frame + 1 >= target => dec'.prev = frame + 1
      BY <1>1, <1>4, <2>1, <2>2, <2>4, AlignedHit
    <2>6. Here(d') = At((frame + 1) + 1 - First)
      <3>1. At(j + 1) = At(j) + FrameLen  BY AtFacts
      <3>2. (frame + 1) + 1 - First = j + 1  BY <2>5, ShapeFacts
      <3> QED  BY <1>2, <2>5, <3>1, <3>2
    <2>7. Warm(dec', frame + 1 - prime)
      <3>1. dec.run \in Nat /\ dec.run >= Least(PrimeFrames, frame - prime)
        BY <2>5 DEF DecTypes, Warm
      <3>2. Least(dec.run + 1, PrimeFrames) >= Least(PrimeFrames, frame + 1 - prime)
        BY <2>2, <2>3, <2>4, <3>1, ReachLeadIn
      <3> QED  BY <2>5, <3>2 DEF Warm
    <2>8. prime <= frame + 1 /\ frame + 1 # prime  BY <2>3
    <2>9. frame + 1 = target => dec'.prev = target
      <3>1. frame + 1 = target => frame + 1 >= target  OBVIOUS
      <3> QED  BY <2>5, <3>1
    <2>10. Aligned(d', dec', call')
      BY <1>1, <1>2, <2>2, <2>3, <2>5, <2>6, <2>7, <2>8, <2>9 DEF Aligned
    <2> QED  BY <2>10 DEF Priming
  <1> QED  BY <1>3, <1>4

\* The landing frame.
LandsAt(g, e, target, intra, from, n, start, end, s) ==
    /\ n = Len(s) /\ (n = 0 <=> s = <<>>)
    /\ intra < FrameSize /\ start = Start /\ from = target * FrameSize
    /\ g.produced = from + FrameSize /\ g.end = end /\ g.pending = s
    /\ n = Most(0, Least(from + FrameSize, end) - from - intra) /\ e = from + intra - start
    /\ \A k \in DOMAIN s : s[k] = <<target + 1, target, intra + k - 1>>

\* The samples pending after a landing are those of the frame landed in.
LEMMA LandTimed ==
    ASSUME NEW g, NEW e, NEW pending, NEW n \in Nat, NEW target \in Nat, NEW intra \in Nat,
           NEW start \in Nat, NEW end \in Nat, NEW from \in Nat,
           LandsAt(g, e, target, intra, from, n, start, end, pending)
    PROVE  Timed(g, e, target + 1)
  <1>0. /\ n = Len(pending) /\ (n = 0 <=> pending = <<>>)
        /\ intra < FrameSize /\ start = Start /\ from = target * FrameSize
        /\ g.produced = from + FrameSize /\ g.end = end /\ g.pending = pending
        /\ n = Most(0, Least(from + FrameSize, end) - from - intra) /\ e = from + intra - start
        /\ \A k \in DOMAIN pending : pending[k] = <<target + 1, target, intra + k - 1>>
    BY DEF LandsAt
  <1>1. PICK size \in Nat : size = FrameSize /\ intra < size  BY <1>0, ConstTypes
  <1>2. n = Most(0, Least(from + size, end) - from - intra)  BY <1>0, <1>1
  <1>3. pending = <<>> => ~(g.produced < end)
    <2>1. n = 0 => end <= from + intra  BY <1>1, <1>2 DEF Most, Least
    <2>2. n = 0 => ~(from + size < end)  BY <1>1, <2>1
    <2> QED  BY <1>0, <1>1, <2>2
  <1>4. pending # <<>> => intra + n <= size /\ (from + size < end => intra + n = size)
    <2>1. n # 0 => intra + n <= size /\ (from + size < end => intra + n = size)
      BY <1>1, <1>2 DEF Most, Least
    <2> QED  BY <1>0, <2>1
  <1>5. (target + 1) - 1 = target  OBVIOUS
  <1>6. e + Start = ((target + 1) - 1) * FrameSize + intra
    <2>1. e + start = from + intra  BY <1>0
    <2> QED  BY <1>0, <1>5, <2>1
  <1>7. intra \in 0..FrameSize - 1  BY <1>1
  <1>8. g.produced < g.end => from + size < end  BY <1>0, <1>1
  <1>9. pending # <<>> =>
           \E x \in 0..FrameSize - 1 :
              /\ x + Len(pending) <= FrameSize
              /\ g.produced < g.end => x + Len(pending) = FrameSize
              /\ e + Start = ((target + 1) - 1) * FrameSize + x
              /\ \A i \in DOMAIN pending : pending[i] = <<target + 1, (target + 1) - 1, x + i - 1>>
    BY <1>0, <1>1, <1>4, <1>5, <1>6, <1>7, <1>8
  <1> QED  BY <1>0, <1>3, <1>9, Zenon DEF Timed

\* A seek lands behind the frame it was to land in.
LEMMA LandsW ==
    ASSUME BInv, Whole, ~adrift, call.at = "prime", Priming(d, dec, call), AudioKnown(d), NEW f, NEW o,
           Primed(f, o), ~(call.frame < call.target), o.ok, o.hit, Lands(Consume(f, o.bytes), o)
    PROVE  /\ Synced(d', dec', call', expect') /\ AudioKnown(d')
           /\ o.id = call.target + 1 /\ dec'.prev = call.target + 1 /\ dec'.hdr = Kind
  <1>1. PICK target \in Nat, intra \in Nat :
           /\ target = call.target /\ target = call.frame /\ intra = call.intra /\ intra < FrameSize
    <2>1. /\ call.frame \in Nat /\ call.target \in Nat /\ call.frame <= call.target
          /\ call.intra \in Nat /\ call.intra < FrameSize
      BY DEF BInv, Phases, CallTypes
    <2>2. call.frame = call.target
      <3>1. PICK a \in Nat, b \in Nat : a = call.frame /\ b = call.target  BY <2>1
      <3> QED  BY <2>1, <3>1
    <2> QED  BY <2>1, <2>2
  <1>2. PICK g : g = Consume(f, o.bytes)  OBVIOUS
  <1>3. /\ Here(g) = Here(d) + o.bytes /\ g.tagChecked = d.tagChecked /\ g.rate = d.rate
        /\ g.start = d.start /\ g.audioStart = d.audioStart /\ g.end \in Nat /\ Live(g)
    BY <1>2, PrimedKeeps
  <1>4. /\ DecTypes(dec) /\ d.rate /\ d.tagChecked /\ d.start = Start /\ d.start \in Nat
    BY DEF BInv, Phases, Sound, Opened, AudioKnown, DTypes
  <1>5. Aligned(d, dec, call)  BY <1>4, GoneNoHit, BlindNoHit DEF Priming
  <1>6. PICK prime \in Nat : prime = PrimeFrom(target) /\ prime <= target  BY PrimeFromFacts
  <1>7. PICK j \in Nat :
           /\ Here(f) = At(j) /\ First + j = target + 1 /\ j < Many
           /\ o.bytes = FrameLen /\ dec'.hdr = Kind /\ o.id = target + 1 /\ o.prev = dec.prev
           /\ dec'.run = Least(dec.run + 1, PrimeFrames)
           /\ Warm(dec, target - prime)
           /\ dec'.prev = target + 1
    <2>1. target <= target /\ target + 1 >= target  OBVIOUS
    <2> QED  BY <1>1, <1>4, <1>5, <1>6, <2>1, AlignedHit
  <1>8. o.prev = target  BY <1>1, <1>5, <1>7 DEF Aligned
  <1>9. PICK from \in Nat : from = target * FrameSize  BY ConstTypes
  <1>10. Lands(g, o)  BY <1>2
  <1>11. /\ Live(d') /\ Here(d') = Here(g) /\ d'.tagChecked /\ d'.rate /\ d'.start = Start
         /\ d'.audioStart = d.audioStart /\ d'.end = g.end /\ d'.produced = from + FrameSize
         /\ d'.pending \in Seq(Sample)
         /\ Len(d'.pending) = Most(0, Least(from + FrameSize, g.end) - from - intra)
         /\ expect' = from + intra - d.start /\ call'.at = "idle"
         /\ \A k \in DOMAIN d'.pending : d'.pending[k] = <<o.id, o.prev, intra + k - 1>>
    BY <1>1, <1>3, <1>4, <1>9, <1>10 DEF Lands
  <1>12. Placed(d', dec', target + 1)
    <2>1. Here(d') = At((target + 1) + 1 - First)
      <3>1. At(j + 1) = At(j) + FrameLen  BY AtFacts
      <3>2. (target + 1) + 1 - First = j + 1  BY <1>7, ShapeFacts
      <3>3. Here(f) = Here(d)  BY DEF Primed, Fed
      <3> QED  BY <1>3, <1>7, <1>11, <3>1, <3>2, <3>3
    <2>2. First <= target + 1 /\ target + 1 < First + Many  BY <1>7, ShapeFacts
    <2>3. Warm(dec', target + 1)
      <3>1. dec.run \in Nat /\ dec.run >= Least(PrimeFrames, target - prime)
        BY <1>4, <1>7 DEF DecTypes, Warm
      <3>2. target <= target  OBVIOUS
      <3>3. Least(dec.run + 1, PrimeFrames) >= Least(PrimeFrames, target + 1)
        BY <1>6, <3>1, <3>2, ReachLeadIn
      <3> QED  BY <1>7, <3>3 DEF Warm
    <2> QED  BY <1>7, <2>1, <2>2, <2>3 DEF Placed
  <1>13. Counted(d', target + 1)
    <2>1. (target + 1) * FrameSize = from + FrameSize  BY <1>9, ConstTypes
    <2>2. target + 1 # 0  OBVIOUS
    <2> QED  BY <1>11, <2>1, <2>2 DEF Counted
  <1>14. Timed(d', expect', target + 1)
    <2>1. PICK n \in Nat : n = Len(d'.pending)  BY <1>11, LenNat
    <2>2. n = 0 <=> d'.pending = <<>>  BY <1>11, <2>1, EmptyLen
    <2>3. \A k \in DOMAIN d'.pending : d'.pending[k] = <<target + 1, target, intra + k - 1>>
      BY <1>7, <1>8, <1>11
    <2>4. PICK end \in Nat, start \in Nat : end = g.end /\ start = d.start /\ start = Start
      BY <1>3, <1>4
    <2>5. PICK s : s = d'.pending  OBVIOUS
    <2>6. /\ n = Len(s) /\ (n = 0 <=> s = <<>>)
          /\ \A k \in DOMAIN s : s[k] = <<target + 1, target, intra + k - 1>>
      BY <2>1, <2>2, <2>3, <2>5
    <2>7. /\ d'.produced = from + FrameSize /\ d'.end = end /\ d'.pending = s
          /\ n = Most(0, Least(from + FrameSize, end) - from - intra)
          /\ expect' = from + intra - start
      BY <1>11, <2>1, <2>4, <2>5
    <2>8. intra < FrameSize  BY <1>1
    <2>9. LandsAt(d', expect', target, intra, from, n, start, end, s)
      BY <1>9, <2>4, <2>6, <2>7, <2>8 DEF LandsAt
    <2> QED  BY <2>9, LandTimed
  <1>15. On(d', dec', expect', target + 1)  BY <1>12, <1>13, <1>14 DEF On
  <1>16. target + 1 \in Nat  OBVIOUS
  <1>17. Synced(d', dec', call', expect')  BY <1>11, <1>15, <1>16 DEF Synced, Reading
  <1>18. AudioKnown(d')
    <2>1. d'.rate = d.rate /\ d'.start = d.start /\ d'.audioStart = d.audioStart  BY <1>4, <1>11
    <2> QED  BY <2>1, SameAudio
  <1> QED  BY <1>1, <1>7, <1>17, <1>18

\* A step of the lead-in preserves WInv.
LEMMA PrimeStepW == ASSUME BInv, WInv, ~adrift, PrimeStep PROVE WInv'
  <1>1. UNCHANGED file /\ call.at = "prime"  BY PrimeTurns
  <1>2. CASE Failed  BY <1>1, <1>2, FailedW DEF Failed
  <1>3. CASE \E f, o : /\ Primed(f, o)
                       /\ \/ Goes(f, o)
                          \/ /\ ~(call.frame < call.target) /\ o.ok
                             /\ o.hit /\ Lands(Consume(f, o.bytes), o)
    <2> SUFFICES ASSUME src.whole PROVE Synced(d', dec', call', expect') /\ AudioKnown(d')
      BY <1>1, WNext
    <2>1. PICK f, o : /\ Primed(f, o)
                      /\ \/ Goes(f, o)
                         \/ /\ ~(call.frame < call.target) /\ o.ok
                            /\ o.hit /\ Lands(Consume(f, o.bytes), o)
      BY <1>3
    <2>2. Whole /\ DecTypes(dec) /\ CallTypes(call) /\ Live(d)  BY <1>1 DEF BInv, Phases, Whole
    <2>3. Priming(d, dec, call) /\ AudioKnown(d)  BY <1>1, <2>2 DEF WInv, Synced
    <2>4. CASE Goes(f, o)
      <3>1. Priming(d', dec', call')  BY <2>1, <2>2, <2>3, <2>4, GoesW
      <3>2. d' = Consume(f, o.bytes) /\ call'.at = "prime"  BY <2>4 DEF Goes
      <3>3. d'.rate = d.rate /\ d'.start = d.start /\ d'.audioStart = d.audioStart
        BY <2>1, <3>2, PrimedKeeps
      <3>4. AudioKnown(d')  BY <2>3, <3>3, SameAudio
      <3> QED  BY <3>1, <3>2, <3>4 DEF Synced
    <2>5. CASE ~(call.frame < call.target) /\ o.ok /\ o.hit /\ Lands(Consume(f, o.bytes), o)
      BY <1>1, <2>1, <2>2, <2>3, <2>5, LandsW
    <2> QED  BY <2>1, <2>4, <2>5
  <1> QED  BY <1>2, <1>3, PrimeTurns

\* What is known of the audio's start and of the tag stays, wherever the source stands.
Keeps(g, f) ==
    /\ g.rate = f.rate /\ g.start = f.start /\ g.audioStart = f.audioStart
    /\ g.tagChecked = f.tagChecked /\ g.frames = f.frames /\ g.end = f.end
    /\ f.frames # 0 => g.total = f.total

LEMMA KeepsChanged ==
    ASSUME NEW f, NEW g, NEW S, Changed(g, f, S),
           S \cap {"rate", "start", "audioStart", "tagChecked", "frames", "end", "total"} = {}
    PROVE  Keeps(g, f)
  BY ChangedFields DEF Keeps

LEMMA KeepsSeen ==
    ASSUME NEW f, NEW g, f.tagChecked = TRUE, f.rate = TRUE, Sound(g), g.rate, g.tagChecked,
           Changed(g, f, SeenFields \cup {"produced", "rate"}), g.audioStart = f.audioStart
    PROVE  Keeps(g, f)
  <1>1. g.rate \in BOOLEAN /\ g.tagChecked \in BOOLEAN  BY DEF Sound, DTypes
  <1>2. g.rate = f.rate /\ g.tagChecked = f.tagChecked  BY <1>1
  <1>3. g.start = f.start /\ g.frames = f.frames /\ g.end = f.end /\ g.total = f.total
    BY ChangedFields DEF SeenFields
  <1> QED  BY <1>2, <1>3 DEF Keeps

\* A turn of a decoder that has decoded keeps it.
LEMMA KeepsTurn ==
    ASSUME file \in DOMAIN Sources, NEW f, Sound(f), Live(f), f.rate, Turn(f)
    PROVE  Keeps(d', f)
  <1>1. f.seen /\ f.tagChecked = TRUE /\ f.rate = TRUE
    <2>1. f.seen /\ f.tagChecked /\ f.tagChecked \in BOOLEAN /\ f.rate \in BOOLEAN
      BY DEF Sound, Opened, DTypes
    <2> QED  BY <2>1
  <1>2. CASE Ends(f)  BY <1>2, KeepsChanged DEF Ends
  <1>3. CASE Widens(f)  BY <1>3 DEF Widens, Keeps
  <1>4. CASE Drops(f)
    <2>1. PICK n \in Nat : n = ResyncWindow - Retain /\ n <= Len(f.buf)
      <3>1. ResyncWindow - Retain \in Nat /\ ResyncWindow - Retain <= ResyncWindow
        BY ConstTypes DEF Retain
      <3> QED  BY <1>4, <3>1 DEF Drops
    <2>2. Changed(d', f, {"buf"})  BY <1>4, <2>1, ConsumeFacts DEF Drops
    <2> QED  BY <2>2, KeepsChanged
  <1>5. ASSUME NEW o, Frame(f, o) PROVE Keeps(d', f)
    <2>1. Hit(f, o) /\ (Skips(f, o) \/ Trims(f, o) \/ PastEnd(f, o) \/ HandsOut(f, o))
      BY <1>1, <1>5 DEF Frame, Tags
    <2>2. CASE Skips(f, o)
      <3>1. d' = FirstSeen(f, o)  BY <2>2 DEF Skips, GoesOn
      <3>2. PICK g : g = d'  OBVIOUS
      <3>3. /\ Sound(g) /\ Changed(g, f, SeenFields) /\ g.tagChecked
            /\ g.audioStart = IF f.seen THEN f.audioStart ELSE f.audioStart + o.off
        BY <2>1, <3>1, <3>2, SeenFacts
      <3>4. g.rate = f.rate
        <4>1. "rate" \in DFields \ SeenFields  BY DEF DFields, SeenFields
        <4> QED  BY <3>3, <4>1, Zenon DEF Changed
      <3>5. Changed(g, f, SeenFields \cup {"produced", "rate"}) /\ g.audioStart = f.audioStart
        BY <1>1, <3>3 DEF Changed
      <3> QED  BY <1>1, <3>2, <3>3, <3>4, <3>5, KeepsSeen
    <2>3. CASE Trims(f, o) \/ PastEnd(f, o) \/ HandsOut(f, o)
      <3>1. PICK g : g = Kept(f, o)  OBVIOUS
      <3>2. /\ Sound(g) /\ Changed(g, f, SeenFields \cup {"produced", "rate"})
            /\ g.rate /\ g.tagChecked /\ DOMAIN g = DFields
            /\ g.audioStart = IF f.seen THEN f.audioStart ELSE f.audioStart + o.off
        BY <2>1, <3>1, KeptFacts DEF Changed
      <3>5. Keeps(g, f)  BY <1>1, <3>2, KeepsSeen
      <3>3. \/ d' = g \/ d' = [g EXCEPT !.done = TRUE]
            \/ \E s : d' = [g EXCEPT !.pending = s]
        BY <2>3, <3>1, Zenon DEF Trims, GoesOn, PastEnd, HandsOut
      <3>4. Keeps(d', g)
        <4>1. \A x \in DFields \ {"done", "pending"} : d'[x] = g[x]  BY <3>2, <3>3, Zenon
        <4> QED  BY <4>1 DEF Keeps, DFields
      <3> QED  BY <3>4, <3>5 DEF Keeps
    <2> QED  BY <2>1, <2>2, <2>3
  <1> QED  BY <1>2, <1>3, <1>4, <1>5 DEF Turn

\* Only a seek sets a decoder adrift, and only a Reset or a seek ends it.
LEMMA AdriftSteps ==
    ASSUME Next, ~(\E s \in Targets : Seek(s)), ~Reset PROVE adrift' = adrift
  BY DEF Next, Step, Read, WriteTo, Begin, DecodeStep, ResetEnds, ReadEnds, WriteToGoesOn, Deliver,
         Return, PrimeStep, SeekFailed, Land

\* While it is adrift it keeps what it knows.
LEMMA KeepsNext ==
    ASSUME BInv, [Next]_vars, adrift'
    PROVE  file' = file /\ (AudioKnown(d) => AudioKnown(d')) /\ (Told(d) => Told(d'))
  <1> SUFFICES ASSUME Next PROVE file' = file /\ Keeps(d', d)
    BY DEF Keeps, AudioKnown, Told, vars
  <1>1. ~Reset /\ file \in DOMAIN Sources /\ Sound(d) /\ DTypes(d)  BY DEF Reset, BInv, Sound
  <1>2. ASSUME NEW s \in Targets, Seek(s) PROVE file' = file /\ Keeps(d', d)
    <2>1. file' = file /\ (Failed \/ Refused \/ Strayed)  BY <1>2, SeekTurns DEF Sought
    <2>2. CASE Failed \/ Refused  BY <2>1, <2>2 DEF Failed, Refused, SameTag, Alike, Stays, Keeps
    <2>3. CASE Strayed  BY <2>1, <2>3, KeepsChanged DEF Strayed
    <2> QED  BY <2>1, <2>2, <2>3
  <1> SUFFICES ASSUME ~(\E s \in Targets : Seek(s)) PROVE file' = file /\ Keeps(d', d)  BY <1>2
  <1>3. d.rate  BY <1>1, AdriftSteps DEF Sound
  <1>4. CASE Read \/ WriteTo  BY <1>4 DEF Read, WriteTo, Begin, Keeps
  <1>5. CASE DecodeStep
    <2>1. PICK f : Sound(f) /\ Live(f) /\ Changed(f, d, Buffers) /\ Turn(f) /\ file' = file
      BY <1>5, DecodeTurn
    <2>2. Keeps(f, d)  BY <2>1, KeepsChanged DEF Buffers
    <2>3. Keeps(d', f)  BY <1>1, <1>3, <2>1, <2>2, KeepsTurn DEF Keeps
    <2> QED  BY <2>1, <2>2, <2>3 DEF Keeps
  <1>6. CASE ResetEnds
    <2>1. file' = file /\ (Untouched \/ Failing \/ Measured)  BY <1>6, ResetOutcome
    <2>2. CASE Untouched  BY <2>1, <2>2 DEF Untouched, Keeps
    <2>3. CASE Failing  BY <2>1, <2>3, KeepsChanged DEF Failing
    <2>4. CASE Measured  BY <2>1, <2>4, ChangedFields DEF Measured, Keeps
    <2> QED  BY <2>1, <2>2, <2>3, <2>4
  <1>7. CASE ReadEnds \/ WriteToGoesOn
    <2>1. file' = file /\ (Hands \/ d' = d)  BY <1>7, HandsOutOrNot
    <2>2. CASE d' = d  BY <2>1, <2>2 DEF Keeps
    <2>3. CASE Hands
      <3>1. PICK op \in {"read", "writeTo"}, err \in {"none", "sink"}, n \in Nat : Gives(op, n, err)
        BY <2>3 DEF Hands
      <3>2. op \in Ops /\ err \in Errs /\ n <= Len(d.pending) /\ Deliver(op, n, err)
        BY <3>1 DEF Ops, Errs, Gives
      <3>3. Changed(d', d, {"pending"})  BY <3>2, DeliverFacts
      <3> QED  BY <2>1, <3>3, KeepsChanged
    <2> QED  BY <2>1, <2>2, <2>3
  <1>8. CASE PrimeStep
    <2>1. file' = file  BY <1>8, PrimeTurns
    <2>2. CASE Failed  BY <2>1, <2>2 DEF Failed, SameTag, Keeps
    <2>3. ASSUME NEW f, NEW o, Primed(f, o), Goes(f, o) \/ Lands(Consume(f, o.bytes), o)
          PROVE  Keeps(d', d)
      <3>1. PICK g : g = Consume(f, o.bytes)  OBVIOUS
      <3>2. g.rate = d.rate /\ g.start = d.start /\ g.audioStart = d.audioStart /\ SameTag(g, d)
        BY <2>3, <3>1, PrimedKeeps
      <3>3. d' = g \/ Lands(g, o)  BY <2>3, <3>1 DEF Goes
      <3> QED  BY <3>2, <3>3 DEF Lands, SameTag, Keeps
    <2> QED  BY <1>8, <2>1, <2>2, <2>3, PrimeTurns
  <1> QED  BY <1>1, <1>4, <1>5, <1>6, <1>7, <1>8 DEF Next, Step

\* What a step may be.
LEMMA Steps ==
    ASSUME [Next]_vars
    PROVE  \/ adrift' \/ Reset \/ (~adrift' /\ \E s \in Targets : Seek(s))
           \/ /\ ~adrift
              /\ \/ Read \/ WriteTo \/ DecodeStep \/ ResetEnds \/ ReadEnds \/ WriteToGoesOn
                 \/ PrimeStep \/ UNCHANGED vars
  BY AdriftSteps DEF Next, Step, vars

\* Every step preserves WInv.
LEMMA NextW == ASSUME BInv, WInv, [Next]_vars PROVE WInv'
  <1>1. CASE adrift'
    <2>1. file' = file /\ (src.whole => AudioKnown(d'))  BY <1>1, KeepsNext DEF WInv
    <2> QED  BY <1>1, <2>1, KnownNext
  <1>2. CASE Reset  BY <1>2, ResetW
  <1>3. CASE ~adrift' /\ \E s \in Targets : Seek(s)  BY <1>3, SeekW
  <1>4. CASE ~adrift /\ (Read \/ WriteTo)  BY <1>4, BeginW DEF Read, WriteTo
  <1>5. CASE ~adrift /\ DecodeStep  BY <1>5, DecodeStepW
  <1>6. CASE ~adrift /\ ResetEnds  BY <1>6, ResetEndsW
  <1>7. CASE ~adrift /\ (ReadEnds \/ WriteToGoesOn)  BY <1>7, HandsW
  <1>8. CASE ~adrift /\ PrimeStep  BY <1>8, PrimeStepW
  <1>9. CASE ~adrift /\ UNCHANGED vars
    <2>1. UNCHANGED <<file, d, dec, call, expect>>  BY <1>9 DEF vars
    <2>2. src.whole => Synced(d, dec, call, expect) /\ AudioKnown(d)  BY <1>9 DEF WInv
    <2>3. src.whole => Synced(d', dec', call', expect') /\ AudioKnown(d')
      BY <2>1, <2>2
    <2> QED  BY <2>1, <2>3, WNext
  <1> QED  BY <1>1, <1>2, <1>3, <1>4, <1>5, <1>6, <1>7, <1>8, <1>9, Steps

-----------------------------------------------------------------------------
(***************************************************************************)
(* Every source: what is delivered never goes back.                        *)
(***************************************************************************)
LEMMA SrcOrder ==
    ASSUME file \in DOMAIN Sources, NEW p \in DOMAIN src.cells, NEW q \in DOMAIN src.cells, p < q,
           IsHeader(src.cells[p]), IsHeader(src.cells[q])
    PROVE  src.cells[p].id < src.cells[q].id
  BY SourcesAssumption DEF src

\* Positions and frames are numbers.
LEMMA HeadId ==
    ASSUME file \in DOMAIN Sources, NEW p \in DOMAIN src.cells
    PROVE  p \in Nat /\ src.cells[p].id \in Nat
  <1>1. src.cells \in Seq(CellType) /\ DOMAIN src.cells = 1..Len(src.cells)  BY SrcTypes, LenNat
  <1>2. src.cells[p] \in CellType  BY <1>1, ElementOfSeq
  <1> QED  BY <1>1, <1>2, CellFacts, SrcTypes

\* What lies before all that follows does so further on.
LEMMA AheadGrows ==
    ASSUME file \in DOMAIN Sources, NEW h \in Nat, NEW g \in Nat, h <= g, NEW n, Ahead(h, n)
    PROVE  Ahead(g, n)
  BY HeadId DEF Ahead

\* A frame lies before all that follows it.
LEMMA AheadAt ==
    ASSUME file \in DOMAIN Sources, NEW p \in DOMAIN src.cells, IsHeader(src.cells[p]),
           NEW h \in Nat, p <= h, NEW n, n = src.cells[p].id
    PROVE  Ahead(h, n)
  <1> SUFFICES ASSUME NEW q \in DOMAIN src.cells, q > h, IsHeader(src.cells[q])
               PROVE  n <= src.cells[q].id
    BY DEF Ahead
  <1>1. PICK i \in Nat, k \in Nat : i = src.cells[p].id /\ k = src.cells[q].id  BY HeadId
  <1>2. p < q  BY HeadId
  <1>3. i < k  BY <1>1, <1>2, SrcOrder
  <1> QED  BY <1>1, <1>3

\* The header a frame was found at.
LEMMA HitHead ==
    ASSUME file \in DOMAIN Sources, DecTypes(dec), NEW f, NEW o, Hit(f, o), o.hit,
           o = DecodeFrame(f.buf), ~adrift
    PROVE  /\ Here(f) \in Nat /\ Here(f) + o.off + 1 \in DOMAIN src.cells
           /\ IsHeader(src.cells[Here(f) + o.off + 1]) /\ src.cells[Here(f) + o.off + 1].id = o.id
  <1>1. Sound(f) /\ Live(f) /\ o.off \in Nat /\ o.off < Len(f.buf)  BY DEF Hit
  <1>2. DTypes(f) /\ Stocked(f) /\ f.buf \in Seq(CellType) /\ f.pos <= Len(src.cells)
    BY <1>1 DEF Sound, DTypes, Sizes
  <1>3. Loaded(f, Here(f), Len(f.buf), Len(f.br))  BY <1>2, StockedLoaded
  <1>4. PICK h \in Nat, n \in Nat, m \in Nat :
           h = Here(f) /\ n = Len(f.buf) /\ m = Len(f.br) /\ f.pos = h + n + m
    BY <1>3, LoadedFacts
  <1>5. PICK off \in Nat : off = o.off /\ off < n  BY <1>1, <1>4
  <1>6. IsHeader(f.buf[off + 1]) /\ o.id = f.buf[off + 1].id
    <2>1. n > 0  BY <1>5
    <2> QED  BY <1>2, <1>4, <1>5, <2>1, DecodeFacts
  <1>7. off + 1 \in 1..n  BY <1>5
  <1>8. f.buf[off + 1] = src.cells[h + (off + 1)]  BY <1>2, <1>4, <1>7 DEF Stocked
  <1>9. h + (off + 1) = h + off + 1 /\ h + off + 1 \in DOMAIN src.cells
    <2>1. PICK c \in Nat : c = Len(src.cells) /\ DOMAIN src.cells = 1..c  BY SrcTypes, LenNat
    <2>2. h + n + m <= c  BY <1>2, <1>4, <2>1
    <2>3. h + off + 1 \in 1..c  BY <1>5, <2>2
    <2> QED  BY <2>1, <2>3
  <1> QED  BY <1>4, <1>5, <1>6, <1>8, <1>9

\* A turn that decodes a frame leaves the decoder behind it, with only its samples pending.
LEMMA FrameLeaves ==
    ASSUME file \in DOMAIN Sources, NEW f, NEW o, Frame(f, o), f.pending = <<>>
    PROVE  /\ Live(d') => Here(d') = Here(f) + o.bytes
           /\ \A i \in DOMAIN d'.pending : d'.pending[i][1] = o.id
  <1>1. Hit(f, o) /\ \/ Tags(f, o) \/ Skips(f, o) \/ Trims(f, o) \/ PastEnd(f, o) \/ HandsOut(f, o)
    BY DEF Frame
  <1>2. \A s : s = <<>> => DOMAIN s = {}  OBVIOUS
  <1>3. ASSUME d'.pending = f.pending, Live(d') => Here(d') = Here(f) + o.bytes
        PROVE  /\ Live(d') => Here(d') = Here(f) + o.bytes
               /\ \A i \in DOMAIN d'.pending : d'.pending[i][1] = o.id
    BY <1>2, <1>3
  <1>4. CASE Tags(f, o)
    <2>1. d' = ApplyTag(f, o) /\ ~f.tagChecked  BY <1>4 DEF Tags, GoesOn
    <2>2. Changed(d', f, TagFields) /\ Here(d') = Here(f) + o.bytes  BY <1>1, <2>1, TagFacts
    <2>3. d'.pending = f.pending  BY <2>2, ChangedFields DEF TagFields
    <2> QED  BY <1>3, <2>2, <2>3
  <1>5. CASE Skips(f, o)
    <2>1. d' = FirstSeen(f, o)  BY <1>5 DEF Skips, GoesOn
    <2>2. Changed(d', f, SeenFields) /\ Here(d') = Here(f) + o.bytes  BY <1>1, <2>1, SeenFacts
    <2>3. d'.pending = f.pending  BY <2>2, ChangedFields DEF SeenFields
    <2> QED  BY <1>3, <2>2, <2>3
  <1>6. PICK g : g = Kept(f, o)  OBVIOUS
  <1>7. Sound(g) /\ Here(g) = Here(f) + o.bytes /\ g.pending = f.pending  BY <1>1, <1>6, KeptIs
  <1>8. CASE Trims(f, o)
    <2>1. d' = g  BY <1>6, <1>8 DEF Trims, GoesOn
    <2> QED  BY <1>3, <1>7, <2>1
  <1>9. CASE PastEnd(f, o)
    <2>1. d' = [g EXCEPT !.done = TRUE]  BY <1>6, <1>9 DEF PastEnd
    <2>2. ~Live(d') /\ Changed(d', g, {"done"})  BY <1>7, <2>1, DoneFacts
    <2>3. d'.pending = g.pending  BY <2>2, ChangedFields
    <2> QED  BY <1>3, <1>7, <2>2, <2>3
  <1>10. CASE HandsOut(f, o)
    <2>1. f.produced \in Nat /\ f.start \in Nat /\ f.end \in Nat /\ FrameSize \in Nat
      BY <1>1, ConstTypes DEF Hit, Sound, DTypes
    <2>2. PICK a \in Nat, z \in Int :
             /\ a = Most(f.produced, f.start) - f.produced
             /\ z = Least(f.produced + FrameSize, f.end) - f.produced
             /\ z - a <= FrameSize
      <3>1. PICK p \in Nat, start \in Nat, end \in Nat, size \in Nat :
               p = f.produced /\ start = f.start /\ end = f.end /\ size = FrameSize
        BY <2>1
      <3>2. PICK a \in Nat, z \in Int :
               a = Most(p, start) - p /\ z = Least(p + size, end) - p /\ z - a <= size
        <4>1. Most(p, start) - p \in Nat /\ Most(p, start) >= p /\ Most(p, start) \in Nat
          BY DEF Most
        <4>2. Least(p + size, end) - p \in Int /\ Least(p + size, end) - p <= size
          BY DEF Least
        <4> QED  BY <4>1, <4>2
      <3> QED  BY <3>1, <3>2
    <2>3. PICK s : s = Samples(o, a, z)  OBVIOUS
    <2>4. d' = [g EXCEPT !.pending = s]  BY <1>6, <1>10, <2>2, <2>3 DEF HandsOut
    <2>5. o.id \in Nat /\ o.prev \in Nat  BY <1>1 DEF Hit
    <2>6. /\ s \in Seq(Sample) /\ Len(s) = Most(0, z - a)
          /\ \A k \in DOMAIN s : s[k] = <<o.id, o.prev, a + k - 1>>
      BY <2>3, <2>5, SamplesFacts
    <2>7. Len(s) <= FrameSize  BY <2>1, <2>2, <2>6 DEF Most
    <2>8. d'.pending = s /\ Here(d') = Here(g)  BY <1>7, <2>4, <2>6, <2>7, PendingFacts
    <2> QED  BY <1>7, <2>6, <2>8
  <1> QED  BY <1>1, <1>4, <1>5, <1>8, <1>9, <1>10

\* OrderInv by its parts.
LEMMA ONext ==
    ASSUME UNCHANGED file, OneFrame(d'), PendingBehind(d'), Behind(d', call', got')
    PROVE  OrderInv'
  <1>1. src' = src  BY DEF src
  <1> QED  BY <1>1 DEF OrderInv, OneFrame, PendingBehind, Behind, Ahead, Live, Here

\* A step that leaves the pending samples and the delivered frames preserves OrderInv.
LEMMA KeepsO ==
    ASSUME OrderInv, ~adrift, UNCHANGED file, d'.pending = d.pending, got' = got,
           Live(d') => Live(d) /\ Here(d') = Here(d) /\ call.at # "prime"
    PROVE  OrderInv'
  <1>1. OneFrame(d')  BY DEF OrderInv, OneFrame
  <1>2. PendingBehind(d')  BY DEF OrderInv, PendingBehind
  <1>3. Behind(d', call', got')  BY DEF OrderInv, Behind
  <1> QED  BY <1>1, <1>2, <1>3, ONext

\* Without pending samples the delivered frames are all there is to compare.
LEMMA EmptyO ==
    ASSUME UNCHANGED file, d'.pending = <<>>,
           Live(d') /\ call'.at # "prime" => \A g \in got' : Ahead(Here(d'), g)
    PROVE  OrderInv'
  <1>1. DOMAIN d'.pending = {}  OBVIOUS
  <1>2. OneFrame(d')  BY <1>1 DEF OneFrame
  <1>3. PendingBehind(d')  BY <1>1 DEF PendingBehind
  <1>4. Behind(d', call', got')  BY <1>1 DEF Behind
  <1> QED  BY <1>2, <1>3, <1>4, ONext

\* Behind a frame that was found there, with what of it is kept.
LEMMA FoundO ==
    ASSUME UNCHANGED file, NEW id, \A i \in DOMAIN d'.pending : d'.pending[i][1] = id,
           Live(d') => Ahead(Here(d'), id),
           Live(d') /\ 0 \notin got' => \A g \in got' : Ahead(Here(d'), g) /\ g <= id
    PROVE  OrderInv'
  <1>1. OneFrame(d')  BY DEF OneFrame
  <1>2. PendingBehind(d')  BY DEF PendingBehind
  <1>3. Behind(d', call', got')  BY DEF Behind
  <1> QED  BY <1>1, <1>2, <1>3, ONext

\* A turn of the decode loop preserves OrderInv.
LEMMA DecodeStepO == ASSUME BInv, OrderInv, ~adrift, DecodeStep PROVE OrderInv'
  <1>1. UNCHANGED <<file, ret, expect, got>>  BY DecodeTurn
  <1>2. /\ call.at = "decode" /\ Live(d) /\ d.pending = <<>> /\ DecTypes(dec)
        /\ file \in DOMAIN Sources
    BY DEF BInv, DecodeStep, Phases
  <1>3. PICK f : /\ Sound(f) /\ Live(f) /\ Filled(f, call.window) /\ Changed(f, d, Buffers)
                 /\ Here(f) = Here(d) /\ Turn(f)
    BY DecodeTurn
  <1>4. f.pending = <<>>  BY <1>2, <1>3, ChangedFields DEF Buffers
  <1>5. Here(f) \in Nat  BY <1>3, HereNat
  <1>6. 0 \notin got => \A g \in got : Ahead(Here(f), g)
    BY <1>2, <1>3 DEF OrderInv, Behind
  <1>7. ASSUME d'.pending = <<>>, NEW h \in Nat, Live(d') => Here(d') = h, Here(f) <= h
        PROVE  OrderInv'
    <2>1. OneFrame(d') /\ PendingBehind(d')
      <3>1. DOMAIN d'.pending = {}  BY <1>7
      <3> QED  BY <3>1 DEF OneFrame, PendingBehind
    <2>2. Behind(d', call', got')
      <3>1. DOMAIN d'.pending = {}  BY <1>7
      <3>2. 0 \notin got => \A g \in got : Ahead(h, g)  BY <1>2, <1>5, <1>6, <1>7, AheadGrows
      <3> QED  BY <1>1, <1>7, <3>1, <3>2 DEF Behind
    <2> QED  BY <1>1, <2>1, <2>2, ONext
  <1>8. CASE Ends(f)
    <2>1. ~Live(d') /\ Changed(d', f, {"buf", "done", "err"})  BY <1>8 DEF Ends
    <2>2. d'.pending = <<>>  BY <1>4, <2>1, ChangedFields
    <2> QED  BY <1>1, <2>1, <2>2, EmptyO
  <1>9. CASE Widens(f)
    <2>1. d' = f  BY <1>9 DEF Widens
    <2> QED  BY <1>4, <1>5, <1>7, <2>1
  <1>10. CASE Drops(f)
    <2>1. PICK k \in Nat : k = ResyncWindow - Retain /\ k <= Len(f.buf) /\ d' = Consume(f, k)
      <3>1. ResyncWindow - Retain \in Nat /\ ResyncWindow - Retain <= ResyncWindow
        BY ConstTypes DEF Retain
      <3> QED  BY <1>10, <3>1 DEF Drops
    <2>2. Changed(d', f, {"buf"}) /\ Here(d') = Here(f) + k  BY <1>3, <2>1, ConsumeFacts
    <2>3. d'.pending = <<>>  BY <1>4, <2>2, ChangedFields
    <2>4. Here(f) + k \in Nat /\ Here(f) <= Here(f) + k  BY <1>5
    <2> QED  BY <1>7, <2>2, <2>3, <2>4
  <1>11. ASSUME NEW o, o = DecodeFrame(f.buf), Frame(f, o) PROVE OrderInv'
    <2>1. Hit(f, o) /\ o.hit  BY <1>11 DEF Frame
    <2>2. PICK h \in Nat, off \in Nat, n \in Nat :
             h = Here(f) /\ off = o.off /\ n = o.bytes /\ n = off + FrameLen
      BY <1>5, <2>1 DEF Hit
    <2>3. PICK p \in DOMAIN src.cells :
             p = h + off + 1 /\ IsHeader(src.cells[p]) /\ src.cells[p].id = o.id
      BY <1>2, <1>11, <2>1, <2>2, HitHead
    <2>4. /\ Live(d') => Here(d') = h + n
          /\ \A i \in DOMAIN d'.pending : d'.pending[i][1] = o.id
      BY <1>2, <1>4, <1>11, <2>2, FrameLeaves
    <2>5. h + n \in Nat /\ p <= h + n /\ h <= h + n /\ p > h  BY <2>2, <2>3, ConstTypes
    <2>6. Ahead(h + n, o.id)  BY <1>2, <2>3, <2>5, AheadAt
    <2>7. 0 \notin got => \A g \in got : Ahead(h + n, g) /\ g <= o.id
      <3> SUFFICES ASSUME 0 \notin got, NEW g \in got PROVE Ahead(h + n, g) /\ g <= o.id  OBVIOUS
      <3>1. Ahead(h, g)  BY <1>6, <2>2
      <3>2. g <= o.id  BY <2>3, <2>5, <3>1 DEF Ahead
      <3>3. Ahead(h + n, g)  BY <1>2, <2>5, <3>1, AheadGrows
      <3> QED  BY <3>2, <3>3
    <2> QED  BY <1>1, <2>4, <2>6, <2>7, FoundO
  <1> QED  BY <1>3, <1>8, <1>9, <1>10, <1>11 DEF Turn

\* Handing samples out preserves it.
LEMMA DeliverO ==
    ASSUME BInv, OrderInv, ~adrift, UNCHANGED file, call.at = "back", call.err = "none",
           NEW op \in Ops, NEW err \in Errs, NEW n \in Nat,
           n <= Len(d.pending), Deliver(op, n, err)
    PROVE  OrderInv'
  <1>1. Sound(d) /\ Live(d) /\ d.pending \in Seq(Sample)  BY DEF BInv, Phases, Sound, DTypes
  <1>2. Changed(d', d, {"pending"}) /\ Handed(n)  BY DeliverFacts
  <1>3. Here(d') = Here(d) /\ (Live(d') <=> Live(d))
    <2>1. d'.pos = d.pos /\ d'.br = d.br /\ d'.buf = d.buf /\ d'.err = d.err /\ d'.done = d.done
      BY <1>2, ChangedFields
    <2> QED  BY <2>1 DEF Here, Live
  <1>4. /\ \A i, k \in DOMAIN d.pending : d.pending[i][1] = d.pending[k][1]
        /\ \A i \in DOMAIN d.pending : Ahead(Here(d), d.pending[i][1])
        /\ 0 \notin got => \A g \in got : /\ Ahead(Here(d), g)
                                          /\ \A i \in DOMAIN d.pending : g <= d.pending[i][1]
    BY <1>1 DEF OrderInv, OneFrame, PendingBehind, Behind
  <1>5. \A k \in DOMAIN d'.pending : n + k \in DOMAIN d.pending /\ d'.pending[k] = d.pending[n + k]
    BY <1>2 DEF Handed
  <1>6. got' = got \cup {d.pending[k][1] : k \in 1..n}  BY <1>2 DEF Handed
  <1>7. \A k \in 1..n : k \in DOMAIN d.pending
    <2>1. DOMAIN d.pending = 1..Len(d.pending) /\ Len(d.pending) \in Nat  BY <1>1, LenNat
    <2> QED  BY <2>1
  <1>8. \A i \in DOMAIN d.pending : d.pending[i][1] \in Nat
    <2>1. \A i \in DOMAIN d.pending : d.pending[i] \in Sample  BY <1>1, ElementOfSeq, LenNat
    <2> QED  BY <2>1 DEF Sample
  <1>9. OneFrame(d')  BY <1>4, <1>5 DEF OneFrame
  <1>10. PendingBehind(d')  BY <1>3, <1>4, <1>5 DEF PendingBehind
  <1>11. Behind(d', call', got')
    <2> SUFFICES ASSUME 0 \notin got', NEW g \in got'
                 PROVE  Ahead(Here(d), g) /\ \A i \in DOMAIN d'.pending : g <= d'.pending[i][1]
      BY <1>3 DEF Behind
    <2>1. CASE g \in got
      <3>1. 0 \notin got  BY <1>6
      <3> QED  BY <1>4, <1>5, <2>1, <3>1
    <2>2. CASE g \in {d.pending[k][1] : k \in 1..n}
      <3>1. PICK k \in DOMAIN d.pending : g = d.pending[k][1]  BY <1>7, <2>2
      <3>2. Ahead(Here(d), g)  BY <1>4, <3>1
      <3>3. \A i \in DOMAIN d.pending : d.pending[i][1] = g /\ g \in Nat  BY <1>4, <1>8, <3>1
      <3>4. \A i \in DOMAIN d'.pending : d'.pending[i][1] = g /\ g \in Nat  BY <1>5, <3>3
      <3> QED  BY <3>2, <3>4
    <2> QED  BY <1>6, <2>1, <2>2
  <1> QED  BY <1>9, <1>10, <1>11, ONext

\* The steps that hand samples out preserve OrderInv.
LEMMA HandsO == ASSUME BInv, OrderInv, ~adrift, ReadEnds \/ WriteToGoesOn PROVE OrderInv'
  <1>1. UNCHANGED file /\ call.at = "back" /\ (Hands \/ UNCHANGED <<d, got>>)  BY HandsOutOrNot
  <1>2. CASE Hands
    <2>1. PICK op \in {"read", "writeTo"}, err \in {"none", "sink"}, n \in Nat : Gives(op, n, err)
      BY <1>2 DEF Hands
    <2>2. /\ op \in Ops /\ err \in Errs /\ n <= Len(d.pending) /\ Deliver(op, n, err)
          /\ call.err = "none"
      BY <1>2, <2>1 DEF Ops, Errs, Gives, Hands
    <2> QED  BY <1>1, <2>2, DeliverO
  <1>3. CASE UNCHANGED <<d, got>>
    <2>1. Live(d') => Live(d) /\ Here(d') = Here(d)  BY <1>3
    <2> QED  BY <1>1, <1>3, <2>1, KeepsO
  <1> QED  BY <1>1, <1>2, <1>3

\* OrderInv holds in the beginning.
LEMMA InitO == ASSUME Init PROVE OrderInv
  <1>1. d.pending = <<>> /\ got = {}  BY OpeningFacts DEF Init
  <1>2. DOMAIN d.pending = {}  BY <1>1
  <1> QED  BY <1>1, <1>2 DEF OrderInv, OneFrame, PendingBehind, Behind

\* Reset establishes it.
LEMMA ResetO == ASSUME BInv, Reset PROVE OrderInv'
  <1>1. UNCHANGED file /\ got' = {} /\ (Opens \/ OpensNot)  BY ResetTurns
  <1>2. d'.pending = <<>>
    BY <1>1, OpeningFacts DEF BInv, Opens, OpensNot, Unopened
  <1> QED  BY <1>1, <1>2, EmptyO

\* The beginning of a read or of a WriteTo preserves it.
LEMMA BeginO ==
    ASSUME OrderInv, ~adrift, NEW op, Begin(op) PROVE OrderInv'
  <1>1. UNCHANGED <<file, d, got>> /\ call.at = "idle"  BY DEF Begin
  <1>2. Live(d') => Live(d) /\ Here(d') = Here(d)  BY <1>1
  <1> QED  BY <1>1, <1>2, KeepsO

\* The end of a reset preserves it.
LEMMA ResetEndsO == ASSUME BInv, OrderInv, ~adrift, ResetEnds PROVE OrderInv'
  <1>1. UNCHANGED <<file, got>> /\ call.at = "back" /\ (Untouched \/ Failing \/ Measured)
    BY ResetOutcome
  <1>2. d'.pending = d.pending /\ (Live(d') => Live(d) /\ Here(d') = Here(d))
    BY <1>1, ChangedFields DEF Untouched, Failing, Measured, BInv, Phases
  <1> QED  BY <1>1, <1>2, KeepsO

\* Every seek preserves it.
LEMMA SeekO == ASSUME BInv, OrderInv, ~adrift', NEW s \in Targets, Seek(s) PROVE OrderInv'
  <1>1. UNCHANGED file /\ call.at = "idle"  BY SeekTurns
  <1>2. CASE Failed  BY <1>1, <1>2, EmptyO DEF Failed
  <1>3. CASE Refused
    <2>1. Here(d') = Here(d) /\ d'.pending = d.pending /\ (Live(d') <=> Live(d)) /\ got' = got
      BY <1>3 DEF Refused, Alike, Stays
    <2>2. ~adrift  BY <1>3 DEF Refused
    <2> QED  BY <1>1, <2>1, <2>2, KeepsO
  <1>4. CASE \E target \in Nat : Sought(target)
    <2>1. d'.pending = <<>> /\ call'.at = "prime"  BY <1>4 DEF Sought
    <2> QED  BY <1>1, <2>1, EmptyO
  <1> QED  BY <1>2, <1>3, <1>4, SeekTurns DEF Strayed

\* A landing leaves nothing delivered behind its frame.
LEMMA LandsO ==
    ASSUME BInv, WInv, ~adrift, call.at = "prime", UNCHANGED file, NEW f, NEW o, Primed(f, o),
           ~(call.frame < call.target), o.ok, o.hit, Lands(Consume(f, o.bytes), o)
    PROVE  OrderInv'
  <1>1. PICK g : g = Consume(f, o.bytes)  BY DEF Primed
  <1>2. /\ Here(d') = Here(g) /\ got' = Passed(call.target)
        /\ \A k \in DOMAIN d'.pending : d'.pending[k] = <<o.id, o.prev, call.intra + k - 1>>
    BY <1>1 DEF Lands
  <1>3. Here(g) = Here(d) + o.bytes /\ Here(f) = Here(d)
    BY <1>1, PrimedKeeps DEF Primed, Fed
  <1>4. /\ file \in DOMAIN Sources /\ DecTypes(dec) /\ Sound(f) /\ Live(f) /\ f.buf \in Seq(CellType)
        /\ o = DecodeFrame(f.buf) /\ Len(f.buf) > 0
    BY DEF BInv, Primed, Fed, Sound, DTypes
  <1>5. PICK n \in Nat : n = Len(f.buf) /\ n > 0  BY <1>4, LenNat
  <1>6. /\ o.off \in 0..n /\ o.bytes \in 0..n /\ o.off < n /\ o.bytes = o.off + FrameLen
        /\ o.id \in Nat /\ o.prev \in Nat
    BY <1>4, <1>5, DecodeFacts
  <1>7. Hit(f, o)  BY <1>4, <1>5, <1>6 DEF Hit
  <1>8. PICK h \in Nat, off \in Nat : h = Here(f) /\ off = o.off /\ o.bytes = off + FrameLen
    BY <1>4, <1>6, HereNat
  <1>9. PICK p \in DOMAIN src.cells :
           p = h + off + 1 /\ IsHeader(src.cells[p]) /\ src.cells[p].id = o.id
    BY <1>4, <1>7, <1>8, HitHead
  <1>10. PICK k \in Nat : k = h + (off + FrameLen) /\ p <= k /\ Here(d') = k
    <2>1. h + (off + FrameLen) \in Nat /\ p <= h + (off + FrameLen)  BY <1>9, ConstTypes
    <2> QED  BY <1>2, <1>3, <1>8, <2>1
  <1>11. Ahead(k, o.id)  BY <1>4, <1>9, <1>10, AheadAt
  <1>12. \A i \in DOMAIN d'.pending : d'.pending[i][1] = o.id  BY <1>2
  <1>13. 0 \notin got' => \A g1 \in got' : Ahead(k, g1) /\ g1 <= o.id
    <2> SUFFICES ASSUME 0 \notin got', NEW g1 \in got' PROVE Ahead(k, g1) /\ g1 <= o.id  OBVIOUS
    <2>1. Whole
      <3>1. src.whole \/ 0 \in got'  BY <1>2 DEF Passed
      <3> QED  BY <1>4, <3>1 DEF Whole
    <2>2. PICK target \in Nat : target = call.target  BY DEF BInv, CallTypes
    <2>3. g1 \in 1..target  BY <1>2, <2>1, <2>2 DEF Passed, Whole
    <2>4. Priming(d, dec, call) /\ AudioKnown(d)
      <3>1. Live(d)  BY DEF BInv, Phases
      <3> QED  BY <2>1, <3>1 DEF WInv, Synced, Whole
    <2>5. o.id = target + 1  BY <2>1, <2>2, <2>4, LandsW
    <2>6. g1 \in Nat /\ g1 <= o.id  BY <2>3, <2>5
    <2>7. Ahead(k, g1)
      <3> SUFFICES ASSUME NEW q \in DOMAIN src.cells, q > k, IsHeader(src.cells[q])
                   PROVE  g1 <= src.cells[q].id
        BY DEF Ahead
      <3>1. o.id <= src.cells[q].id /\ src.cells[q].id \in Nat  BY <1>4, <1>11, HeadId DEF Ahead
      <3> QED  BY <1>6, <2>6, <3>1
    <2> QED  BY <2>6, <2>7
  <1> QED  BY <1>10, <1>11, <1>12, <1>13, FoundO

\* A step of the lead-in preserves OrderInv.
LEMMA PrimeStepO == ASSUME BInv, WInv, OrderInv, ~adrift, PrimeStep PROVE OrderInv'
  <1>1. UNCHANGED file /\ call.at = "prime"  BY PrimeTurns
  <1>2. CASE Failed  BY <1>1, <1>2, EmptyO DEF Failed
  <1>3. ASSUME NEW f, NEW o, Primed(f, o), Goes(f, o) PROVE OrderInv'
    <2>1. d.pending = <<>>  BY <1>1 DEF BInv, Phases
    <2>2. f.pending = d.pending  BY <1>3, ChangedFields DEF Primed, Fed, Buffers
    <2>3. PICK g : g = Consume(f, o.bytes)  OBVIOUS
    <2>4. g.pending = f.pending
      <3>1. Changed(g, f, {"buf"})  BY <1>3, <2>3 DEF Primed
      <3> QED  BY <3>1, ChangedFields
    <2>5. d' = g /\ call'.at = "prime"  BY <1>3, <2>3 DEF Goes
    <2> QED  BY <1>1, <2>1, <2>2, <2>4, <2>5, EmptyO
  <1> QED  BY <1>1, <1>2, <1>3, PrimeTurns, LandsO

\* Every step preserves OrderInv.
LEMMA NextO == ASSUME BInv, WInv, OrderInv, [Next]_vars PROVE OrderInv'
  <1>1. CASE adrift'  BY <1>1 DEF OrderInv
  <1>2. CASE Reset  BY <1>2, ResetO
  <1>3. CASE ~adrift' /\ \E s \in Targets : Seek(s)  BY <1>3, SeekO
  <1>4. CASE ~adrift /\ (Read \/ WriteTo)  BY <1>4, BeginO DEF Read, WriteTo
  <1>5. CASE ~adrift /\ DecodeStep  BY <1>5, DecodeStepO
  <1>6. CASE ~adrift /\ ResetEnds  BY <1>6, ResetEndsO
  <1>7. CASE ~adrift /\ (ReadEnds \/ WriteToGoesOn)  BY <1>7, HandsO
  <1>8. CASE ~adrift /\ PrimeStep  BY <1>8, PrimeStepO
  <1>9. CASE ~adrift /\ UNCHANGED vars
    <2>1. UNCHANGED <<file, d, call, got>>  BY <1>9 DEF vars
    <2>2. src' = src  BY <2>1 DEF src
    <2> QED
      BY <1>9, <2>1, <2>2 DEF OrderInv, OneFrame, PendingBehind, Behind, Ahead, Live, Here
  <1> QED  BY <1>1, <1>2, <1>3, <1>4, <1>5, <1>6, <1>7, <1>8, <1>9, Steps

-----------------------------------------------------------------------------
(***************************************************************************)
(* The timeline.                                                           *)
(***************************************************************************)
LEMMA RetEmpty == ASSUME UNCHANGED file, ret'.out = <<>> PROVE DeliversTimeline'
  <1>1. DOMAIN ret'.out = {}  OBVIOUS
  <1> QED  BY <1>1 DEF DeliversTimeline

\* Nor does one that returns nothing new disturb it.
LEMMA RetSame == ASSUME DeliversTimeline, UNCHANGED <<file, ret>> PROVE DeliversTimeline'
  <1>1. src' = src  BY DEF src
  <1>2. \A s : Timeline(s)' = Timeline(s)  BY <1>1 DEF Timeline, Start
  <1> QED  BY <1>1, <1>2 DEF DeliversTimeline, Timeline, Start

\* The position of a sample of a frame.
LEMMA TimelineAt ==
    ASSUME NEW m \in Nat, NEW y \in Nat, y < FrameSize, NEW s, s + Start = m * FrameSize + y
    PROVE  Timeline(s) = <<m + 1, m, y>>
  <1>1. PICK raw \in Nat : raw = s + Start
    <2>1. m * FrameSize + y \in Nat  BY ConstTypes
    <2> QED  BY <2>1
  <1>2. FrameSize \in Nat \ {0}  BY ConstTypes
  <1>3. raw \div FrameSize = m /\ raw % FrameSize = y
    <2>1. PICK q \in Nat, r \in Nat :
             q = raw \div FrameSize /\ r = raw % FrameSize /\ r < FrameSize /\ q * FrameSize + r = raw
      BY <1>2, DivFacts
    <2>2. q = m
      <3>1. CASE q < m
        <4>1. PICK k \in Nat : m = q + 1 + k
          <5>1. m - q - 1 \in Nat /\ m = q + 1 + (m - q - 1)  BY <3>1
          <5> QED  BY <5>1
        <4>2. PICK a \in Nat, b \in Nat : a = q * FrameSize /\ b = k * FrameSize
          BY <1>2
        <4>3. m * FrameSize = a + FrameSize + b  BY <1>2, <4>1, <4>2
        <4>4. PICK size \in Nat : size = FrameSize  BY <1>2
        <4>5. raw = a + size + b + y /\ raw = a + r /\ r < size  BY <1>1, <2>1, <4>2, <4>3, <4>4
        <4>6. FALSE  BY <4>5
        <4> QED  BY <4>6
      <3>2. CASE m < q
        <4>1. PICK k \in Nat : q = m + 1 + k
          <5>1. q - m - 1 \in Nat /\ q = m + 1 + (q - m - 1)  BY <3>2
          <5> QED  BY <5>1
        <4>2. PICK a \in Nat, b \in Nat : a = m * FrameSize /\ b = k * FrameSize
          BY <1>2
        <4>3. q * FrameSize = a + FrameSize + b  BY <1>2, <4>1, <4>2
        <4>4. PICK size \in Nat : size = FrameSize  BY <1>2
        <4>5. raw = a + y /\ raw = a + size + b + r /\ y < size  BY <1>1, <2>1, <4>2, <4>3, <4>4
        <4>6. FALSE  BY <4>5
        <4> QED  BY <4>6
      <3> QED  BY <3>1, <3>2
    <2>3. PICK a \in Nat : a = m * FrameSize  BY <1>2
    <2>4. r = y  BY <1>1, <2>1, <2>2, <2>3
    <2> QED  BY <2>1, <2>2, <2>4
  <1> QED  BY <1>1, <1>3 DEF Timeline

\* Samples handed out from behind a frame are those of the timeline.
LEMMA HandsTimeline ==
    ASSUME BInv, WInv, OrderInv, UNCHANGED file, call.at = "back", call.err = "none",
           NEW n \in Nat, n <= Len(d.pending), Handed(n)
    PROVE  DeliversTimeline'
  <1>1. /\ DOMAIN ret'.out = 1..n /\ (\A k \in 1..n : ret'.out[k] = d.pending[k])
        /\ ret'.from = expect /\ ret'.after = (IF 0 \in got THEN 0 ELSE Max(got \cup {0}))
    BY DEF Handed
  <1>2. /\ d.pending \in Seq(Sample) /\ Live(d) /\ d.pending # <<>> /\ file \in DOMAIN Sources
        /\ got \subseteq Nat /\ expect \in Nat
    BY DEF BInv, Phases, Sound, DTypes
  <1>3. \A k \in 1..n : k \in DOMAIN d.pending /\ d.pending[k][1] \in Nat
    <2>1. DOMAIN d.pending = 1..Len(d.pending) /\ Len(d.pending) \in Nat  BY <1>2, LenNat
    <2>2. \A k \in 1..n : k \in DOMAIN d.pending  BY <2>1
    <2>3. \A k \in DOMAIN d.pending : d.pending[k] \in Sample  BY <1>2, <2>1, ElementOfSeq
    <2> QED  BY <2>2, <2>3 DEF Sample
  <1> SUFFICES ASSUME ~adrift PROVE DeliversTimeline'
    BY DEF Handed, DeliversTimeline
  <1>4. ASSUME NEW k \in 1..n PROVE ret'.after <= ret'.out[k][1]
    <2>1. PICK b \in Nat : \A g \in got : g <= b  BY DEF BInv, Bounded
    <2>2. PICK id \in Nat : id = d.pending[k][1]  BY <1>3
    <2>3. CASE 0 \in got  BY <1>1, <2>2, <2>3
    <2>4. CASE 0 \notin got
      <3>1. \A g \in got : g <= id  BY <1>2, <1>3, <2>2, <2>4 DEF OrderInv, Behind
      <3> QED  BY <1>1, <1>2, <2>1, <2>2, <3>1, LastIs
    <2> QED  BY <2>3, <2>4
  <1>5. ASSUME src.whole, NEW k \in 1..n PROVE ret'.out[k] = Timeline(expect + k - 1)
    <2>1. Whole /\ Reading(d, dec, call, expect)
      BY <1>2, <1>5 DEF WInv, Synced, Whole
    <2>2. PICK id \in Nat : On(d, dec, expect, id)  BY <2>1 DEF Reading
    <2>3. PICK x \in 0..FrameSize - 1 :
             /\ x + Len(d.pending) <= FrameSize
             /\ expect + Start = (id - 1) * FrameSize + x
             /\ \A i \in DOMAIN d.pending : d.pending[i] = <<id, id - 1, x + i - 1>>
      BY <1>2, <2>2 DEF On, Timed
    <2>4. PICK size \in Nat, len \in Nat, y \in Nat :
             size = FrameSize /\ len = Len(d.pending) /\ y = x + k - 1 /\ y < size
      <3>1. PICK size \in Nat, len \in Nat : size = FrameSize /\ len = Len(d.pending)
        BY <1>2, ConstTypes, LenNat
      <3>2. x \in Nat /\ x + len <= size /\ k \in Nat /\ k >= 1 /\ k <= len  BY <2>3, <3>1
      <3>3. x + k - 1 \in Nat /\ x + k - 1 < size  BY <3>2
      <3> QED  BY <3>1, <3>3
    <2>5. id # 0
      <3> SUFFICES ASSUME id = 0 PROVE FALSE  OBVIOUS
      <3>1. d.pending[k] = <<id, id - 1, x + k - 1>> /\ d.pending[k] \in Sample
        BY <1>2, <1>3, <2>3, ElementOfSeq, LenNat
      <3>2. d.pending[k][2] = 0 - 1 /\ d.pending[k][2] \in Nat  BY <3>1 DEF Sample
      <3> QED  BY <3>2
    <2>6. PICK m \in Nat : m = id - 1 /\ m + 1 = id
      <3>1. id - 1 \in Nat /\ (id - 1) + 1 = id  BY <2>5
      <3> QED  BY <3>1
    <2>7. PICK a \in Nat, start \in Nat, s \in Int :
             a = m * FrameSize /\ start = Start /\ s = expect + k - 1
      <3>1. Start \in Nat  BY <2>2 DEF BInv, Sound, DTypes, On, Counted
      <3>2. m * FrameSize \in Nat  BY ConstTypes
      <3> QED  BY <1>2, <3>1, <3>2
    <2>8. expect + start = a + x  BY <2>3, <2>6, <2>7
    <2>9. s + start = a + y  BY <1>2, <2>4, <2>7, <2>8
    <2>10. Timeline(s) = <<m + 1, m, y>>
      <3>1. y < FrameSize /\ s + Start = m * FrameSize + y  BY <2>4, <2>7, <2>9
      <3> HIDE DEF Timeline
      <3> QED  BY <3>1, TimelineAt
    <2>11. ret'.out[k] = <<id, id - 1, x + k - 1>>  BY <1>1, <1>3, <2>3
    <2> QED  BY <2>4, <2>6, <2>7, <2>10, <2>11
  <1>6. src' = src  BY DEF src
  <1>7. \A k \in 1..n : ret'.out[k][1] >= ret'.after
    <2>1. ret'.after \in Nat
      <3>1. PICK b \in Nat : \A g \in got : g <= b  BY DEF BInv, Bounded
      <3> QED  BY <1>1, <1>2, <3>1, LastIs
    <2> QED  BY <1>1, <1>3, <1>4, <2>1
  <1> QED  BY <1>1, <1>5, <1>6, <1>7 DEF DeliversTimeline, Timeline, Start

\* Every step preserves DeliversTimeline.
LEMMA NextT ==
    ASSUME BInv, WInv, OrderInv, DeliversTimeline, [Next]_vars PROVE DeliversTimeline'
  <1>1. CASE Reset
    <2>1. UNCHANGED file /\ (ret'.out = <<>> \/ UNCHANGED ret)
      BY <1>1, ResetTurns DEF Opens, OpensNot
    <2> QED  BY <2>1, RetSame, RetEmpty
  <1>2. ASSUME NEW op \in {"read", "writeTo"}, Begin(op) PROVE DeliversTimeline'
    <2>1. UNCHANGED file /\ (UNCHANGED ret \/ ret' = Ret(op, d.err))  BY <1>2 DEF Begin
    <2>2. Ret(op, d.err).out = <<>>
      <3>1. op \in Ops /\ d.err \in Errs  BY DEF Ops, BInv, Sound, DTypes
      <3> QED  BY <3>1, RetFacts
    <2> QED  BY <2>1, <2>2, RetSame, RetEmpty
  <1>3. ASSUME NEW s \in Targets, Seek(s) PROVE DeliversTimeline'
    <2>1. UNCHANGED file /\ (ret'.out = <<>> \/ UNCHANGED ret)
      BY <1>3, SeekTurns DEF Failed, Refused, Sought, Strayed
    <2> QED  BY <2>1, RetSame, RetEmpty
  <1>4. CASE DecodeStep
    <2>1. UNCHANGED <<file, ret>>  BY <1>4 DEF DecodeStep
    <2> QED  BY <2>1, RetSame
  <1>5. CASE ResetEnds  BY <1>5, ResetOutcome, RetEmpty
  <1>6. CASE ReadEnds \/ WriteToGoesOn
    <2>1. UNCHANGED file /\ call.at = "back" /\ (Hands \/ ret'.out = <<>>)  BY <1>6, HandsOutOrNot
    <2>2. CASE Hands
      <3>1. PICK op \in {"read", "writeTo"}, err \in {"none", "sink"}, n \in Nat : Gives(op, n, err)
        BY <2>2 DEF Hands
      <3>2. op \in Ops /\ err \in Errs /\ n <= Len(d.pending) /\ Deliver(op, n, err)
        BY <3>1 DEF Ops, Errs, Gives
      <3>3. Handed(n)  BY <3>2, DeliverFacts
      <3>4. call.err = "none"  BY <2>2 DEF Hands
      <3> QED  BY <2>1, <3>2, <3>3, <3>4, HandsTimeline
    <2> QED  BY <2>1, <2>2, RetEmpty
  <1>7. CASE PrimeStep
    <2>1. UNCHANGED file /\ (ret'.out = <<>> \/ UNCHANGED ret)
      BY <1>7, PrimeTurns DEF Failed, Goes, Lands
    <2> QED  BY <2>1, RetSame, RetEmpty
  <1>8. CASE UNCHANGED vars
    <2>1. UNCHANGED <<file, ret>>  BY <1>8 DEF vars
    <2> QED  BY <2>1, RetSame
  <1> QED
    BY <1>1, <1>2, <1>3, <1>4, <1>5, <1>6, <1>7, <1>8 DEF Next, Step, Read, WriteTo

(***************************************************************************)
(* Whatever was read, sought, retried or failed before, the samples handed *)
(* out are those of the playable timeline where the caller has reason to   *)
(* expect them, or at least never go back (decodeNextFrame, SeekToSample). *)
(***************************************************************************)
THEOREM DeliversTimelineHolds == Spec => []DeliversTimeline
  <1> DEFINE I == BInv /\ WInv /\ OrderInv /\ DeliversTimeline
  <1>1. Init => I
    <2> SUFFICES ASSUME Init PROVE I  OBVIOUS
    <2>1. ret.out = <<>>
      <3>1. "none" \in Ops /\ "none" \in Errs  BY DEF Ops, Errs
      <3> QED  BY <3>1, RetFacts DEF Init
    <2>2. DOMAIN ret.out = {}  BY <2>1
    <2> QED  BY <2>2, InitB, InitW, InitO DEF DeliversTimeline
  <1>2. I /\ [Next]_vars => I'
    <2> SUFFICES ASSUME I, [Next]_vars PROVE I'  OBVIOUS
    <2>1. BInv'  BY NextB
    <2>2. WInv'  BY NextW
    <2>3. OrderInv'  BY NextO
    <2>4. DeliversTimeline'  BY NextT
    <2> QED  BY <2>1, <2>2, <2>3, <2>4
  <1>3. I => DeliversTimeline  OBVIOUS
  <1> QED  BY <1>1, <1>2, <1>3, PTL DEF Spec

-----------------------------------------------------------------------------
(***************************************************************************)
(* Whole sources: what can be confirmed and played, and what has been.     *)
(***************************************************************************)
-----------------------------------------------------------------------------
\* The numbered frames are those of the source from its first, and have their headers.
LEMMA FrameOf ==
    ASSUME Whole, NEW k \in Frames
    PROVE  /\ k \in Nat /\ k > 0
           /\ \E j \in Nat : j < Many /\ k = First + j /\ HeaderOf(k) = At(j) + 1
  <1>1. PICK p \in DOMAIN src.cells : IsHeader(src.cells[p]) /\ src.cells[p].id = k  BY DEF Frames
  <1>2. k # 0  BY DEF Frames
  <1>3. PICK j \in Nat : j < Many /\ p = At(j) + 1  BY <1>1, HeadAt
  <1>4. k = First + j  BY <1>1, <1>3, FrameAt
  <1>5. First \in Nat  BY ShapeFacts
  <1>6. PICK q : q = HeaderOf(k)  OBVIOUS
  <1>7. q \in DOMAIN src.cells /\ IsHeader(src.cells[q]) /\ src.cells[q].id = k
    BY <1>1, <1>6, Zenon DEF HeaderOf
  <1>8. PICK i \in Nat : i < Many /\ q = At(i) + 1  BY <1>7, HeadAt
  <1>9. k = First + i  BY <1>7, <1>8, FrameAt
  <1>10. i = j  BY <1>4, <1>5, <1>9
  <1>11. HeaderOf(k) = At(j) + 1  BY <1>6, <1>8, <1>10
  <1> QED  BY <1>2, <1>3, <1>4, <1>5, <1>11

\* What is played of a frame, between the trims.
Plays(k, end) == Most((k - 1) * FrameSize, Start) < Least(k * FrameSize, end)

\* What can be expected of a whole source: the frame is followed by another, or by the
\* source's end, and some of it is played.
LEMMA ExpectedFacts ==
    ASSUME Whole, NEW k \in Expected
    PROVE  /\ k \in Nat /\ k > 0 /\ Plays(k, End)
           /\ \E j \in Nat : /\ j < Many /\ k = First + j
                             /\ HeaderAt(At(j) + 1 + FrameLen) \/ At(j) + FrameLen = Len(src.cells)
  <1>1. k \in Frames /\ src.whole  BY DEF Expected, Whole
  <1>2. k \in Nat /\ k > 0  BY <1>1, FrameOf
  <1>3. PICK j \in Nat : j < Many /\ k = First + j /\ HeaderOf(k) = At(j) + 1  BY <1>1, FrameOf
  <1>4. /\ HeaderAt(HeaderOf(k) + FrameLen) \/ HeaderOf(k) + FrameLen = Len(src.cells) + 1
        /\ Plays(k, End)
    BY <1>1 DEF Expected, Plays
  <1>5. At(j) + 1 + FrameLen = Len(src.cells) + 1 => At(j) + FrameLen = Len(src.cells)
    <2>1. At(j) \in Nat /\ FrameLen \in Nat /\ Len(src.cells) \in Nat
      BY AtFacts, ConstTypes, SrcTypes DEF Whole
    <2> QED  BY <2>1
  <1> QED  BY <1>2, <1>3, <1>4, <1>5

\* The trims are numbers.
LEMMA TrimTypes == ASSUME Whole PROVE Start \in Nat /\ End \in Nat /\ NoEnd \in Nat
  <1>1. /\ src.n \in Nat /\ src.tag.frames \in Nat /\ src.tag.delay \in Nat
        /\ src.tag.padding \in Nat /\ src.tag.present \in BOOLEAN
    BY SrcTypes DEF Whole
  <1>2. HeadTrim(src.tag.delay) \in Nat /\ src.n * FrameSize \in Nat
    BY <1>1, GaplessTypes
  <1>3. WindowEnd(src.tag.frames * FrameSize, src.tag.padding) \in Nat  BY <1>1, GaplessTypes
  <1> QED  BY <1>2, <1>3, ConstTypes DEF Start, End

\* The samples up to and with a frame to expect can be counted.
LEMMA Countable == ASSUME Whole, NEW k \in Expected PROVE k * FrameSize <= NoEnd
  <1>1. k \in Nat /\ NoEnd \in Nat  BY ExpectedFacts, TrimTypes
  <1>2. (First + Many) * FrameSize <= NoEnd  BY ShapeFacts DEF Adjoining, First
  <1>3. PICK a \in Nat, m \in Nat : a = First /\ m = Many  BY ShapeFacts
  <1>4. PICK c \in Nat : a + m = k + c
    <2>1. PICK j \in Nat : j < m /\ k = a + j  BY <1>3, ExpectedFacts
    <2>2. m - j \in Nat /\ a + m = k + (m - j)  BY <2>1
    <2> QED  BY <2>2
  <1>5. PICK e \in Nat, x \in Nat : e = k * FrameSize /\ x = c * FrameSize  BY <1>1, ConstTypes
  <1>6. (k + c) * FrameSize = e + x  BY <1>1, <1>5, ConstTypes
  <1>7. e + x <= NoEnd  BY <1>2, <1>3, <1>4, <1>6
  <1> QED  BY <1>1, <1>5, <1>7

\* The decoder knows the source's end, or none that would trim one of its frames.
LEMMA Playing ==
    ASSUME Whole, NEW f, Told(f), f.tagChecked, NEW k \in Expected
    PROVE  f.end \in Nat /\ Plays(k, f.end)
  <1>1. k \in Nat /\ k > 0 /\ Plays(k, End)  BY ExpectedFacts
  <1>2. Start \in Nat /\ End \in Nat /\ NoEnd \in Nat  BY TrimTypes
  <1>3. CASE src.tag.frames # 0
    <2>1. f.end = End  BY <1>3 DEF Told
    <2> QED  BY <1>1, <1>2, <2>1
  <1>4. CASE src.tag.frames = 0
    <2>1. f.end = NoEnd  BY <1>4 DEF Told
    <2>2. PICK e \in Nat : e = k * FrameSize  BY <1>1, ConstTypes
    <2>7. e <= NoEnd  BY <2>2, Countable
    <2>8. Least(e, NoEnd) = e /\ Least(e, End) <= e  BY <1>2, <2>2, <2>7 DEF Least
    <2>9. PICK m \in Int : m = Most((k - 1) * FrameSize, Start)
      <3>1. (k - 1) * FrameSize \in Int  BY <1>1, ConstTypes
      <3> QED  BY <1>2, <3>1 DEF Most
    <2>10. m < Least(e, End)  BY <1>1, <2>2, <2>9 DEF Plays
    <2>11. m < Least(e, NoEnd)
      <3>1. PICK l \in Nat : l = Least(e, End)  BY <1>2, <2>2 DEF Least
      <3>2. m < l /\ l <= e  BY <2>8, <2>10, <3>1
      <3>3. m < e  BY <2>2, <2>9, <3>1, <3>2
      <3> QED  BY <2>8, <3>3
    <2> QED  BY <1>2, <2>1, <2>2, <2>9, <2>11 DEF Plays
  <1> QED  BY <1>3, <1>4

\* A frame before the start is not played.
LEMMA TrimmedAway ==
    ASSUME Whole, NEW k \in Nat, k * FrameSize <= Start PROVE k \notin Expected
  <1> SUFFICES ASSUME k \in Expected PROVE FALSE  OBVIOUS
  <1>1. Plays(k, End)  BY ExpectedFacts
  <1>2. Start \in Nat /\ End \in Nat  BY TrimTypes
  <1>3. PICK e \in Nat, b \in Int : e = k * FrameSize /\ b = (k - 1) * FrameSize  BY ConstTypes
  <1>4. Most(b, Start) < Least(e, End)  BY <1>1, <1>3 DEF Plays
  <1>5. PICK s \in Nat, z \in Nat : s = Start /\ z = End  BY <1>2
  <1>6. e <= s /\ Most(b, s) < Least(e, z)  BY <1>3, <1>4, <1>5
  <1> QED  BY <1>3, <1>5, <1>6 DEF Most, Least

\* Behind a frame of which nothing is kept, though it does not lie before the start,
\* nothing is played.
LEMMA PastAll ==
    ASSUME Whole, NEW f, Told(f), f.tagChecked, NEW id \in Nat, f.produced = id * FrameSize,
           f.start = Start, f.start < f.produced + FrameSize,
           f.produced >= f.end \/ Most(f.produced, f.start) >= Least(f.produced + FrameSize, f.end),
           NEW k \in Expected
    PROVE  k <= id
  <1> SUFFICES ASSUME ~(k <= id) PROVE FALSE  OBVIOUS
  <1>1. k \in Nat /\ f.end \in Nat /\ Plays(k, f.end) /\ Start \in Nat
    BY Playing, ExpectedFacts, TrimTypes
  <1>2. PICK c \in Nat : k = id + 1 + c
    <2>1. k - id - 1 \in Nat /\ k = id + 1 + (k - id - 1)  BY <1>1
    <2> QED  BY <2>1
  <1>3. PICK p \in Nat, x \in Nat, size \in Nat :
           p = id * FrameSize /\ x = c * FrameSize /\ size = FrameSize /\ size > 0
    BY ConstTypes
  <1>4. (k - 1) * FrameSize = p + x /\ k * FrameSize = p + x + size
    <2>1. k - 1 = id + c  BY <1>1, <1>2
    <2>2. (id + c) * FrameSize = p + x /\ (id + 1 + c) * FrameSize = p + x + size
      BY <1>3, ConstTypes
    <2> QED  BY <1>2, <2>1, <2>2
  <1>5. PICK s \in Nat, e \in Nat : s = Start /\ e = f.end  BY <1>1
  <1>6. Most(p + x, s) < Least(p + x + size, e)  BY <1>1, <1>4, <1>5 DEF Plays
  <1>7. p < e /\ s < e  BY <1>3, <1>5, <1>6 DEF Most, Least
  <1>8. s < p + size /\ (p >= e \/ Most(p, s) >= Least(p + size, e))  BY <1>3, <1>5
  <1> QED  BY <1>3, <1>5, <1>7, <1>8 DEF Most, Least

\* A decoder behind a frame that finds nothing in front of it, though it sees the next frame
\* and a cell or the source's end, has nothing to expect.
LEMMA NoneFollows ==
    ASSUME Whole, NEW b, NEW n, NEW h, View(b, n, h), NEW j \in Nat, h = At(j),
           NEW id \in Nat, First + j = id + 1, dec.hdr = Kind, n = 0 \/ OffIn(b) = n,
           n > FrameLen \/ h + n = Len(src.cells), NEW k \in Expected
    PROVE  k <= id
  <1> SUFFICES ASSUME ~(k <= id) PROVE FALSE  OBVIOUS
  <1>1. /\ b \in Seq(CellType) /\ n \in Nat /\ h \in Nat /\ n = Len(b) /\ h + n <= Len(src.cells)
        /\ Len(src.cells) \in Nat
        /\ \A x \in 1..n : b[x] = src.cells[h + x] /\ h + x \in DOMAIN src.cells
    BY ViewFacts
  <1>2. PICK i \in Nat : /\ i < Many /\ k = First + i
                         /\ HeaderAt(At(i) + 1 + FrameLen) \/ At(i) + FrameLen = Len(src.cells)
    BY ExpectedFacts
  <1>3. i >= j /\ k \in Nat
    <2>1. First \in Nat  BY ShapeFacts
    <2> QED  BY <1>2, <2>1
  <1>4. j < Many
    <2>1. Many \in Nat  BY ShapeFacts
    <2> QED  BY <1>2, <1>3, <2>1
  <1>5. FrameLen \in Nat /\ FrameLen > 1 /\ At(i) \in Nat /\ At(j) <= At(i)
    <2>1. At(i) \in Nat /\ At(j) \in Nat  BY AtFacts
    <2>2. i = j \/ At(j) + FrameLen <= At(i)
      <3>1. i = j \/ j < i  BY <1>3
      <3> QED  BY <3>1, AtFacts
    <2>3. FrameLen \in Nat /\ FrameLen > 1  BY ConstTypes
    <2> QED  BY <2>1, <2>2, <2>3
  <1>6. At(i) + FrameLen <= Len(src.cells)
    <2>1. CASE HeaderAt(At(i) + 1 + FrameLen)
      <3>1. At(i) + 1 + FrameLen \in DOMAIN src.cells  BY <2>1 DEF HeaderAt
      <3>2. DOMAIN src.cells = 1..Len(src.cells)
        <4>1. src.cells \in Seq(CellType)  BY SrcTypes DEF Whole
        <4> QED  BY <4>1, LenNat
      <3> QED  BY <1>1, <1>5, <3>1, <3>2
    <2> QED  BY <1>1, <1>2, <1>5, <2>1
  <1>7. h + FrameLen <= Len(src.cells)  BY <1>1, <1>5, <1>6
  <1>8. n >= FrameLen  BY <1>1, <1>5, <1>7
  <1>9. ~FastPath(b)
    <2>1. OffIn(b) # 0  BY <1>1, <1>5, <1>8
    <2> QED  BY <2>1 DEF OffIn
  <1>10. IsHeader(b[1]) /\ b[1].kind = Kind /\ Len(b) > 1
    <2>1. 1 \in 1..n /\ n > 1  BY <1>1, <1>5, <1>8
    <2>2. b[1] = src.cells[At(j) + 1]  BY <1>1, <2>1
    <2>3. IsHeader(src.cells[At(j) + 1]) /\ src.cells[At(j) + 1].kind = Kind  BY <1>4, FrameAt
    <2> QED  BY <1>1, <2>1, <2>2, <2>3
  <1>11. n > FrameLen /\ ~Same(b[1], b[FrameLen + 1])
    <2>1. Len(b) # FrameLen  BY <1>9, <1>10 DEF FastPath
    <2>2. n > FrameLen  BY <1>1, <1>5, <1>8, <2>1
    <2> QED  BY <1>1, <1>9, <1>10, <2>2 DEF FastPath
  <1>12. b[FrameLen + 1] = src.cells[At(j + 1) + 1]
    <2>1. FrameLen + 1 \in 1..n  BY <1>1, <1>5, <1>11
    <2>2. At(j + 1) = At(j) + FrameLen  BY AtFacts
    <2>3. h + (FrameLen + 1) = At(j + 1) + 1  BY <1>1, <1>5, <2>2
    <2> QED  BY <1>1, <2>1, <2>3
  <1>13. ~(j + 1 < Many)
    <2> SUFFICES ASSUME j + 1 < Many PROVE FALSE  OBVIOUS
    <2>1. j + 1 \in Nat  OBVIOUS
    <2>2. IsHeader(src.cells[At(j + 1) + 1]) /\ src.cells[At(j + 1) + 1].kind = Kind
      BY <2>1, FrameAt
    <2> QED  BY <1>10, <1>11, <1>12, <2>2 DEF Same
  <1>14. i = j
    <2>1. Many \in Nat  BY ShapeFacts
    <2> QED  BY <1>2, <1>3, <1>13, <2>1
  <1>15. At(i) + FrameLen # Len(src.cells)  BY <1>1, <1>5, <1>11, <1>14
  <1>16. HeaderAt(At(j) + 1 + FrameLen)  BY <1>2, <1>14, <1>15
  <1>17. At(j) + 1 + FrameLen = At(j + 1) + 1
    <2>1. At(j + 1) = At(j) + FrameLen  BY AtFacts
    <2> QED  BY <1>1, <1>5, <2>1
  <1>18. PICK x \in Nat : x < Many /\ At(j + 1) + 1 = At(x) + 1  BY <1>16, <1>17, HeadAt DEF HeaderAt
  <1>19. x >= j + 1
    <2>1. PICK i1 \in Nat : i1 = j + 1  OBVIOUS
    <2>2. At(x) \in Nat /\ At(i1) \in Nat  BY AtFacts
    <2>3. At(x) >= At(i1)  BY <1>18, <2>1, <2>2
    <2>4. x >= i1  BY <2>3, AtFacts
    <2> QED  BY <2>1, <2>4
  <1>20. Many \in Nat  BY ShapeFacts
  <1> QED  BY <1>13, <1>18, <1>19, <1>20

-----------------------------------------------------------------------------
(***************************************************************************)
(* Whole sources: a turn of the decode loop gives everything.              *)
(***************************************************************************)
\* EndInv in the next state.
LEMMA ENext ==
    ASSUME UNCHANGED file, src.whole => AllGiven(d', dec', call', ret', got')
    PROVE  EndInv'
  <1>1. src' = src  BY DEF src
  <1>2. Start' = Start /\ End' = End /\ Expected' = Expected
    BY <1>1 DEF Start, End, Expected, Frames, HeaderOf, HeaderAt
  <1> QED  BY <1>1, <1>2 DEF EndInv, AllGiven, Told, Given, Inside, Over, Ended

\* Adrift, only what is known of the length counts.
LEMMA AdriftE ==
    ASSUME UNCHANGED file, adrift', src.whole => Told(d') PROVE EndInv'
  <1>1. src' = src  BY DEF src
  <1>2. End' = End  BY <1>1 DEF End
  <1> QED  BY <1>1, <1>2 DEF EndInv, Told

\* What is known of the length depends on four fields.
LEMMA SameTold ==
    ASSUME NEW f, NEW g, SameTag(g, f), Told(f) PROVE Told(g)
  BY DEF SameTag, Told

\* So changing other fields keeps it.
LEMMA KeepsTold ==
    ASSUME NEW f, NEW g, NEW S, Changed(g, f, S), Told(f),
           S \cap {"tagChecked", "frames", "end", "total"} = {}
    PROVE  Told(g)
  BY SameTagChanged, SameTold

\* What a turn leaves.
Turned ==
    /\ Told(d') /\ Given(d', dec', call', got) /\ Over(d', call', got)
    /\ call'.at = "back" /\ call'.err = "eof" => d'.done /\ d'.err = "none"

\* What a turn begins with.
Had(s) ==
    \/ s = Cold /\ (call.op = "reset" \/ Expected \subseteq got)
    \/ s # Cold /\ \A k \in Expected : k <= s.prev => k \in got

\* A turn stays in its call.
LEMMA TurnCall ==
    ASSUME NEW f, Turning(f) PROVE call'.op = call.op /\ call'.at \in {"decode", "back"}
  BY DEF Turning, Turn, Ends, Frame, Widens, Drops, Tags, Skips, Trims, PastEnd, HandsOut,
         GoesOn, CallChanged, CallFields

\* A decoder behind a frame is not a cold one.
LEMMA WarmHdr == ASSUME Whole, NEW s, s.hdr = Kind PROVE s # Cold
  <1>1. Kind \in {Sized, Free}  BY ShapeFacts
  <1>2. Kind # "none"  BY <1>1 DEF Sized, Free
  <1>3. Cold.hdr = "none"  BY DEF Cold
  <1> QED  BY <1>2, <1>3

\* A decoder behind a frame that finds nothing, though it sees the next frame and a cell or
\* the source's end, has given everything.
LEMMA OnGiven ==
    ASSUME Whole, NEW f, Turning(f), NEW e, NEW id \in Nat, On(f, dec, e, id), Had(dec),
           Len(f.buf) = 0 \/ OffIn(f.buf) = Len(f.buf),
           Len(f.buf) > FrameLen \/ Here(f) + Len(f.buf) = Len(src.cells)
    PROVE  Expected \subseteq got
  <1> SUFFICES ASSUME NEW k \in Expected PROVE k \in got  OBVIOUS
  <1>1. /\ First <= id /\ id < First + Many /\ Here(f) = At(id + 1 - First)
        /\ dec.hdr = Kind /\ dec.prev = id
    BY DEF On, Placed
  <1>2. PICK j \in Nat : First + j = id + 1 /\ At(j) = At(id + 1 - First)  BY <1>1, OnIndex
  <1>3. View(f.buf, Len(f.buf), Here(f))  BY BufferView DEF Turning
  <1>4. Here(f) = At(j)  BY <1>1, <1>2
  <1>5. k <= id  BY <1>1, <1>2, <1>3, <1>4, NoneFollows
  <1>6. dec # Cold  BY <1>1, WarmHdr
  <1> QED  BY <1>1, <1>5, <1>6 DEF Had

\* A cold decoder that decodes has given everything, or opens.
LEMMA ColdHad == ASSUME Had(Cold) PROVE call.op = "reset" \/ Expected \subseteq got
  BY DEF Had

\* A turn that ends the stream.
LEMMA HaltedE ==
    ASSUME Whole, NEW f, Turning(f), Halted(f), Told(f), Had(dec), NEW e,
           dec = Cold \/ \E id \in Nat : On(f, dec, e, id)
    PROVE  Turned
  <1>1. ~Live(d') /\ Changed(d', f, {"buf", "done", "err"})  BY DEF Halted, Ends
  <1>2. Told(d')  BY <1>1, KeepsTold
  <1>3. Given(d', dec', call', got)  BY <1>1 DEF Given
  <1>4. call'.at = "back" /\ call'.err = "eof" => d'.done /\ d'.err = "none"
    BY DEF Halted, Ends, Turning, Live
  <1>5. Over(d', call', got)
    <2> SUFFICES ASSUME d'.done, d'.err = "none"
                 PROVE  Expected \subseteq got \/ (call'.at = "back" /\ call'.op = "reset")
      BY DEF Over
    <2>1. call'.at = "back" /\ f.readErr = "eof"  BY DEF Halted, Ends
    <2>2. call'.op = call.op  BY TurnCall
    <2>3. CASE dec = Cold  BY <2>1, <2>2, <2>3, ColdHad
    <2>4. ASSUME NEW id \in Nat, On(f, dec, e, id) PROVE Expected \subseteq got
      <3>1. Here(f) + Len(f.buf) = Len(src.cells)  BY <2>1, BufferView DEF Turning
      <3>2. Len(f.buf) = 0 \/ OffIn(f.buf) = Len(f.buf)  BY DEF Halted
      <3> QED  BY <2>4, <3>1, <3>2, OnGiven
    <2> QED  BY <2>3, <2>4
  <1> QED  BY <1>2, <1>3, <1>4, <1>5 DEF Turned

\* A turn that finds no frame.
LEMMA MissedE ==
    ASSUME Whole, NEW f, Turning(f), Missed(f), Told(f), Had(dec), NEW e,
           dec = Cold \/ \E id \in Nat : On(f, dec, e, id)
    PROVE  Turned
  <1>1. Live(d') /\ Changed(d', f, {"buf"}) /\ call'.at = call.at
    <2>1. CASE Widens(f)
      <3>1. d' = f /\ call'.at = call.at  BY <2>1 DEF Widens, CallChanged, CallFields
      <3>2. DTypes(f) /\ Live(f)  BY DEF Turning, Sound
      <3> QED  BY <3>1, <3>2, SameChanged
    <2>2. CASE Drops(f)
      <3>1. d' = Consume(f, ResyncWindow - Retain) /\ call'.at = call.at /\ Len(f.buf) = ResyncWindow
        BY <2>2 DEF Drops, CallChanged, CallFields
      <3>2. PICK n \in Nat : n = ResyncWindow - Retain /\ n <= ResyncWindow
        BY ConstTypes DEF Retain
      <3> QED  BY <3>1, <3>2, ConsumeFacts DEF Turning
    <2> QED  BY <2>1, <2>2 DEF Missed
  <1>2. Told(d')  BY <1>1, KeepsTold
  <1>3. dec' = Cold /\ call'.at = "decode" /\ call'.op = call.op
    BY <1>1, TurnCall DEF Missed, Turning
  <1>4. call.op = "reset" \/ Expected \subseteq got
    <2>1. CASE dec = Cold  BY <2>1, ColdHad
    <2>2. ASSUME NEW id \in Nat, On(f, dec, e, id) PROVE Expected \subseteq got
      <3>1. OffIn(f.buf) = Len(f.buf) /\ Len(f.buf) > FrameLen  BY DEF Missed
      <3> QED  BY <2>2, <3>1, OnGiven
    <2> QED  BY <2>1, <2>2
  <1>5. Given(d', dec', call', got)  BY <1>3, <1>4 DEF Given
  <1>6. Over(d', call', got)  BY <1>1 DEF Over, Live
  <1> QED  BY <1>2, <1>3, <1>5, <1>6 DEF Turned

\* The tag tells what the source says.
LEMMA TagE ==
    ASSUME Whole, NEW f, Turning(f), NEW o, Found(f, o), Tags(f, o), dec'.hdr = Kind, dec'.prev = 0
    PROVE  Turned
  <1>1. Hit(f, o) /\ ~f.tagChecked /\ d' = ApplyTag(f, o) /\ file \in DOMAIN Sources /\ call'.at = call.at
    BY DEF Found, Frame, Tags, GoesOn, Whole, CallChanged, CallFields
  <1>2. /\ Live(d') /\ d'.tagChecked /\ d'.frames = src.tag.frames
        /\ d'.end = IF src.tag.frames * FrameSize = 0 THEN NoEnd
                    ELSE WindowEnd(src.tag.frames * FrameSize, src.tag.padding)
        /\ d'.total = IF src.tag.frames * FrameSize = 0 THEN 0
                      ELSE Playable(src.tag.frames * FrameSize, src.tag.delay, src.tag.padding)
    BY <1>1, TagFacts
  <1>3. src.tag.frames * FrameSize = 0 <=> src.tag.frames = 0
    <2>1. src.tag.frames \in Nat  BY SrcTypes DEF Whole
    <2>2. PICK c \in Nat : c = src.tag.frames  BY <2>1
    <2>3. c = 0 => c * FrameSize = 0  BY ConstTypes
    <2>4. c > 0 => c * FrameSize # 0
      <3> SUFFICES ASSUME c > 0 PROVE c * FrameSize # 0  OBVIOUS
      <3>1. PICK b \in Nat : c = b + 1
        <4>1. c - 1 \in Nat /\ c = (c - 1) + 1  OBVIOUS
        <4> QED  BY <4>1
      <3>2. b * FrameSize \in Nat /\ (b + 1) * FrameSize = b * FrameSize + FrameSize  BY ConstTypes
      <3> QED  BY <3>1, <3>2, ConstTypes
    <2> QED  BY <2>2, <2>3, <2>4
  <1>4. Told(d')  BY <1>2, <1>3 DEF Told, End
  <1>5. dec' # Cold  BY WarmHdr
  <1>6. \A k \in Expected : ~(k <= 0)
    <2> SUFFICES ASSUME NEW k \in Expected PROVE ~(k <= 0)  OBVIOUS
    <2>1. k \in Nat /\ k > 0  BY ExpectedFacts
    <2> QED  BY <2>1
  <1>7. Given(d', dec', call', got)  BY <1>5, <1>6 DEF Given
  <1>8. call'.at = "decode"  BY <1>1 DEF Turning
  <1> QED  BY <1>2, <1>4, <1>7, <1>8 DEF Turned, Over, Live

\* Behind a frame of the audio.
LEMMA PassesE ==
    ASSUME Whole, NEW f, Turning(f), NEW o, Found(f, o), ~Tags(f, o), o.ok, o.id \in Nat,
           dec'.hdr = Kind, dec'.prev = o.id, Told(f), f.tagChecked \/ src.tag.frames = 0,
           \A k \in Expected : k < o.id => k \in got,
           f.produced + FrameSize <= f.start => o.id \notin Expected,
           PastEnd(f, o) => Expected \subseteq got \/ call.op = "reset"
    PROVE  Turned
  <1>1. Hit(f, o) /\ file \in DOMAIN Sources /\ (Trims(f, o) \/ PastEnd(f, o) \/ HandsOut(f, o))
    BY DEF Found, Frame, Whole, Skips
  <1>2. PICK g : g = Kept(f, o)  OBVIOUS
  <1>3. /\ Sound(g) /\ Live(g) /\ g.tagChecked /\ g.end = f.end /\ g.frames = f.frames /\ g.total = f.total
    BY <1>1, <1>2, KeptIs
  <1>4. Told(g)
    <2>1. g.frames = src.tag.frames /\ f.frames = src.tag.frames  BY <1>3 DEF Told
    <2> QED  BY <1>3, <2>1 DEF Told
  <1>5. dec' # Cold  BY WarmHdr
  <1>6. \A k \in Expected : k <= o.id => k < o.id \/ k = o.id
    <2> SUFFICES ASSUME NEW k \in Expected, k <= o.id PROVE k < o.id \/ k = o.id  OBVIOUS
    <2>1. k \in Nat  BY ExpectedFacts
    <2> QED  BY <2>1
  <1>7. CASE Trims(f, o)
    <2>1. d' = g /\ call'.at = call.at /\ f.produced + FrameSize <= f.start
      BY <1>2, <1>7 DEF Trims, GoesOn, CallChanged, CallFields
    <2>2. \A k \in Expected : k <= dec'.prev => k \in got  BY <1>6, <2>1
    <2>3. Given(d', dec', call', got)  BY <1>5, <2>2 DEF Given
    <2>4. call'.at = "decode"  BY <2>1 DEF Turning
    <2> QED  BY <1>3, <1>4, <2>1, <2>3, <2>4 DEF Turned, Over, Live
  <1>8. CASE PastEnd(f, o)
    <2>1. d' = [g EXCEPT !.done = TRUE] /\ call'.at = "back"  BY <1>2, <1>8 DEF PastEnd
    <2>2. ~Live(d') /\ d'.done /\ Changed(d', g, {"done"})  BY <1>3, <2>1, DoneFacts
    <2>3. d'.err = g.err  BY <2>2, ChangedFields
    <2>4. Told(d')  BY <1>4, <2>2, KeepsTold
    <2>5. d'.err = "none"  BY <1>3, <2>3 DEF Live
    <2>6. Over(d', call', got)  BY <1>8, <2>1, TurnCall DEF Over
    <2> QED  BY <2>2, <2>4, <2>5, <2>6 DEF Turned, Given
  <1>9. CASE HandsOut(f, o)
    <2>1. PICK from, to : /\ d' = [g EXCEPT !.pending = Samples(o, from - f.produced, to - f.produced)]
                          /\ from = Most(f.produced, f.start) /\ to = Least(f.produced + FrameSize, f.end)
                          /\ from < to /\ call'.at = "back" /\ call'.err = "none"
      BY <1>2, <1>9 DEF HandsOut
    <2>2. PICK s : s = Samples(o, from - f.produced, to - f.produced)  OBVIOUS
    <2>3. s \in Seq(Sample) /\ s # <<>> /\ Len(s) <= FrameSize
      <3>1. /\ f.produced \in Nat /\ f.start \in Nat /\ f.end \in Nat /\ FrameSize \in Nat
        BY ConstTypes DEF Turning, Sound, DTypes
      <3>2. PICK a \in Nat, z \in Nat :
               a = from - f.produced /\ z = to - f.produced /\ a < z /\ z <= FrameSize
        <4>1. PICK p \in Nat, st \in Nat, en \in Nat, size \in Nat :
                 p = f.produced /\ st = f.start /\ en = f.end /\ size = FrameSize
          BY <3>1
        <4>2. from = Most(p, st) /\ to = Least(p + size, en)  BY <2>1, <4>1
        <4>3. from \in Nat /\ to \in Nat /\ from >= p /\ to <= p + size
          BY <4>2 DEF Most, Least
        <4>4. from - p \in Nat /\ to - p \in Nat /\ from - p < to - p /\ to - p <= size
          BY <2>1, <4>3
        <4> QED  BY <4>1, <4>4
      <3>3. o.id \in Nat /\ o.prev \in Nat  BY <1>1 DEF Hit
      <3>4. z \in Int  OBVIOUS
      <3>5. s \in Seq(Sample) /\ Len(s) = Most(0, z - a)  BY <2>2, <3>2, <3>3, <3>4, SamplesFacts
      <3>6. Most(0, z - a) = z - a /\ z - a # 0 /\ z - a <= FrameSize  BY <3>1, <3>2 DEF Most
      <3> QED  BY <3>5, <3>6, EmptyLen
    <2>4. Changed(d', g, {"pending"}) /\ d'.pending = s /\ (Live(d') <=> Live(g))
      BY <1>3, <2>1, <2>2, <2>3, PendingFacts
    <2>5. Told(d')  BY <1>4, <2>4, KeepsTold
    <2>6. Given(d', dec', call', got)
      <3>1. \A k \in Expected : k <= dec'.prev => k \in got \/ (d'.pending # <<>> /\ k = dec'.prev)
        BY <1>6, <2>3, <2>4
      <3> QED  BY <1>5, <3>1 DEF Given
    <2>7. Live(d')  BY <1>3, <2>4
    <2> QED  BY <2>1, <2>5, <2>6, <2>7 DEF Turned, Over, Live
  <1> QED  BY <1>1, <1>7, <1>8, <1>9

\* A source without a tag frame has nothing to tell.
LEMMA Tagless == ASSUME Whole, First # 0 PROVE src.tag.frames = 0 /\ Start = 0
  <1>1. ~src.tag.present  BY ShapeFacts
  <1>2. src.tag = NoTag  BY <1>1, SourcesAssumption DEF Whole, src
  <1> QED  BY <1>1, <1>2 DEF NoTag, Start

\* A turn that finds the first frame.
LEMMA NotYetE ==
    ASSUME Whole, NEW f, Turning(f), NEW o, Found(f, o), Told(f), Had(dec), NEW e, NotYet(f, dec, e)
    PROVE  Turned
  <1>1. PICK off \in Nat : Decoded(o, off, First, 0, 0)  BY NotYetFinds
  <1>2. /\ o.ok /\ o.id = First /\ o.dec.hdr = Kind /\ o.dec.prev = First /\ dec' = o.dec
    BY <1>1 DEF Decoded, Found
  <1>3. First \in {0, 1} /\ dec = Cold /\ f.start = 0 /\ f.produced = 0
    BY ShapeFacts DEF NotYet
  <1>4. CASE Tags(f, o)
    <2>1. o.id = 0  BY <1>4 DEF Tags
    <2> QED  BY <1>2, <1>4, <2>1, TagE
  <1>5. CASE ~Tags(f, o)
    <2>1. o.id # 0  BY <1>5 DEF Found, Frame, NotYet
    <2>2. First = 1 /\ src.tag.frames = 0  BY <1>2, <1>3, <2>1, Tagless
    <2>3. \A k \in Expected : k < o.id => k \in got
      <3> SUFFICES ASSUME NEW k \in Expected, k < o.id PROVE FALSE  OBVIOUS
      <3>1. k \in Nat /\ k > 0  BY ExpectedFacts
      <3> QED  BY <1>2, <2>2, <3>1
    <2>4. ~(f.produced + FrameSize <= f.start)  BY <1>3, ConstTypes
    <2>5. Expected \subseteq got \/ call.op = "reset"  BY <1>3, ColdHad
    <2>6. o.id \in Nat  BY <1>2, <2>2
    <2> QED  BY <1>2, <1>5, <2>2, <2>3, <2>4, <2>5, <2>6, PassesE
  <1> QED  BY <1>4, <1>5

\* A turn that finds the next frame.
LEMMA OnE ==
    ASSUME Whole, NEW f, Turning(f), NEW o, Found(f, o), Told(f), Had(dec), NEW e,
           NEW id \in Nat, On(f, dec, e, id)
    PROVE  Turned
  <1>1. Decoded(o, 0, id + 1, id, dec.run)  BY OnFinds
  <1>2. /\ o.ok /\ o.id = id + 1 /\ o.dec.hdr = Kind /\ o.dec.prev = id + 1 /\ dec' = o.dec
    BY <1>1 DEF Decoded, Found
  <1>3. /\ f.tagChecked /\ f.start = Start /\ f.produced = id * FrameSize
        /\ dec.prev = id /\ dec.hdr = Kind
    BY DEF On, Placed, Counted
  <1>4. dec # Cold  BY <1>3, WarmHdr
  <1>5. PICK n \in Nat : n = id + 1  OBVIOUS
  <1>6. \A k \in Expected : k < o.id => k \in got
    <2> SUFFICES ASSUME NEW k \in Expected, k < o.id PROVE k \in got  OBVIOUS
    <2>1. k \in Nat  BY ExpectedFacts
    <2>2. k <= id  BY <1>2, <2>1
    <2> QED  BY <1>3, <1>4, <2>2 DEF Had
  <1>7. f.produced + FrameSize <= f.start => o.id \notin Expected
    <2> SUFFICES ASSUME f.produced + FrameSize <= f.start PROVE o.id \notin Expected  OBVIOUS
    <2>1. (id + 1) * FrameSize = id * FrameSize + FrameSize  BY ConstTypes
    <2>2. n * FrameSize <= Start  BY <1>3, <1>5, <2>1
    <2> QED  BY <1>2, <1>5, <2>2, TrimmedAway
  <1>8. ASSUME PastEnd(f, o) PROVE Expected \subseteq got
    <2> SUFFICES ASSUME NEW k \in Expected PROVE k \in got  OBVIOUS
    <2>1. /\ f.produced >= f.end \/ Most(f.produced, f.start) >= Least(f.produced + FrameSize, f.end)
          /\ f.start < f.produced + FrameSize
      BY <1>8 DEF PastEnd
    <2>2. k <= id  BY <1>3, <2>1, PastAll
    <2> QED  BY <1>3, <1>4, <2>2 DEF Had
  <1>9. ~Tags(f, o)  BY <1>3 DEF Tags
  <1> QED  BY <1>2, <1>3, <1>5, <1>6, <1>7, <1>8, <1>9, PassesE

\* A turn of the decode loop preserves EndInv.
LEMMA DecodeStepE == ASSUME BInv, WInv, EndInv, ~adrift, DecodeStep PROVE EndInv'
  <1>1. UNCHANGED <<file, got>> /\ call.at = "decode"  BY DecodeTurn DEF DecodeStep
  <1> SUFFICES ASSUME src.whole PROVE AllGiven(d', dec', call', ret', got')  BY <1>1, ENext
  <1>2. Whole /\ AllGiven(d, dec, call, ret, got) /\ Live(d) /\ d.pending = <<>>
    BY <1>1 DEF BInv, Whole, EndInv, Phases
  <1>3. PICK f : /\ Turning(f) /\ Changed(f, d, Buffers)
                 /\ \/ NotYet(f, dec, expect)
                    \/ dec = Cold /\ Hidden(Here(f), Here(f) + Len(f.buf))
                    \/ \E id \in Nat : On(f, dec, expect, id)
    BY <1>2, TurnBegins
  <1>4. Told(f)  BY <1>2, <1>3, KeepsTold DEF AllGiven, Buffers
  <1>5. Had(dec)  BY <1>1, <1>2 DEF AllGiven, Given, Had
  <1>6. dec = Cold \/ \E id \in Nat : On(f, dec, expect, id)  BY <1>3 DEF NotYet
  <1>7. ASSUME Halted(f) PROVE Turned  BY <1>2, <1>3, <1>4, <1>5, <1>6, <1>7, HaltedE
  <1>8. ASSUME Missed(f) PROVE Turned  BY <1>2, <1>3, <1>4, <1>5, <1>6, <1>8, MissedE
  <1>9. ASSUME NEW o, Found(f, o) PROVE Turned
    <2>1. ~(dec = Cold /\ Hidden(Here(f), Here(f) + Len(f.buf)))  BY <1>2, <1>3, <1>9, FoundInView
    <2> QED  BY <1>2, <1>3, <1>4, <1>5, <1>9, <2>1, NotYetE, OnE
  <1>10. Turned  BY <1>2, <1>3, <1>7, <1>8, <1>9, TurnCases DEF Whole
  <1>11. call'.at \in {"decode", "back"}  BY <1>3, TurnCall
  <1> QED  BY <1>1, <1>10, <1>11 DEF Turned, AllGiven, Inside, Ended

-----------------------------------------------------------------------------
(***************************************************************************)
(* Whole sources: the other steps keep what was given.                     *)
(***************************************************************************)
\* A stream that is being opened has nothing to give yet.
LEMMA OpeningE ==
    ASSUME Whole, NEW f, f = Opening, NEW r, NEW g PROVE AllGiven(f, Cold, ResetCall, r, g)
  <1>1. Live(f) /\ ~f.tagChecked /\ f.frames = 0 /\ f.end = NoEnd  BY OpeningFacts DEF Whole
  <1>2. ResetCall.at = "decode" /\ ResetCall.op = "reset"  BY ResetCallFacts
  <1> QED  BY <1>1, <1>2 DEF AllGiven, Told, Given, Inside, Over, Ended, Live

\* EndInv holds in the beginning.
LEMMA InitE == ASSUME Init PROVE EndInv
  <1>1. src.whole => AllGiven(d, dec, call, ret, got)  BY OpeningE DEF Init, Whole
  <1> QED  BY <1>1 DEF EndInv, AllGiven

\* Reset establishes it.
LEMMA ResetE == ASSUME BInv, Reset PROVE EndInv'
  <1>1. UNCHANGED file /\ dec' = Cold /\ (Opens \/ OpensNot)  BY ResetTurns
  <1> SUFFICES ASSUME src.whole PROVE AllGiven(d', dec', call', ret', got')  BY <1>1, ENext
  <1>2. CASE Opens  BY <1>1, <1>2, OpeningE DEF Opens, BInv, Whole
  <1>3. CASE OpensNot
    BY <1>3 DEF OpensNot, Unopened, AllGiven, Told, Given, Inside, Over, Ended
  <1> QED  BY <1>1, <1>2, <1>3

\* Between calls what was given does not depend on the call.
LEMMA IdleGiven ==
    ASSUME Given(d, dec, call, got), call.at \in {"idle", "back"}, NEW c, c.at # "prime"
    PROVE  Given(d, dec, c, got)
  BY DEF Given

\* The beginning of a read or of a WriteTo preserves EndInv.
LEMMA BeginE ==
    ASSUME BInv, EndInv, ~adrift, NEW op \in {"read", "writeTo"}, Begin(op) PROVE EndInv'
  <1>1. UNCHANGED <<file, d, dec, got>> /\ call.at = "idle"  BY DEF Begin
  <1> SUFFICES ASSUME src.whole PROVE AllGiven(d, dec, call', ret', got)  BY <1>1, ENext
  <1>2. Told(d) /\ Given(d, dec, call, got) /\ Over(d, call, got)  BY DEF EndInv, AllGiven
  <1>3. d.done /\ d.err = "none" => Expected \subseteq got  BY <1>1, <1>2 DEF Over
  <1>4. CASE d.err # "none"
    <2>1. ret' = Ret(op, d.err) /\ call' = call  BY <1>4 DEF Begin
    <2>2. ret'.err = d.err
      <3>1. op \in Ops /\ d.err \in Errs  BY DEF Ops, BInv, Sound, DTypes
      <3> QED  BY <2>1, <3>1, RetFacts
    <2> QED  BY <1>1, <1>2, <2>1, <2>2 DEF AllGiven, Inside, Ended
  <1>5. CASE d.err = "none" /\ d.pending # <<>>
    <2>1. call' = [IdleCall EXCEPT !.at = "back", !.op = op]  BY <1>5 DEF Begin
    <2>2. call'.at = "back" /\ call'.err = "none"  BY <2>1 DEF IdleCall
    <2>3. Given(d, dec, call', got)  BY <1>1, <1>2, <2>2, IdleGiven
    <2> QED  BY <1>2, <1>3, <2>2, <2>3 DEF AllGiven, Inside, Over, Ended
  <1>6. CASE d.err = "none" /\ d.pending = <<>>
    <2>1. call' = Decoding(op)  BY <1>6 DEF Begin
    <2>2. /\ d.done => call'.at = "back" /\ call'.err = "eof"
          /\ ~d.done => call'.at = "decode" /\ call'.err = "none"
      BY <2>1, DecodingFacts
    <2>3. call'.at \in {"back", "decode"}  BY <2>2
    <2>4. Given(d, dec, call', got)  BY <1>1, <1>2, <2>3, IdleGiven
    <2>5. call'.at = "back" => d.done  BY <2>2
    <2> QED  BY <1>2, <1>3, <1>6, <2>3, <2>4, <2>5 DEF AllGiven, Inside, Over, Ended
  <1> QED  BY <1>4, <1>5, <1>6

\* So does the end of a reset.
LEMMA ResetEndsE == ASSUME BInv, EndInv, ~adrift, ResetEnds PROVE EndInv'
  <1>1. /\ UNCHANGED <<file, dec, got>> /\ call.at = "back" /\ call' = IdleCall
        /\ ret'.op = "reset" /\ (Untouched \/ Failing \/ Measured)
    BY ResetOutcome
  <1> SUFFICES ASSUME src.whole PROVE AllGiven(d', dec, call', ret', got)  BY <1>1, ENext
  <1>2. Told(d) /\ Given(d, dec, call, got) /\ (call.err = "none" => Live(d))
    BY <1>1 DEF BInv, EndInv, AllGiven, Phases
  <1>3. call'.at = "idle"  BY <1>1, IdleFacts
  <1>4. Inside(d', call') /\ Ended(d', call', ret')  BY <1>1, <1>3 DEF Inside, Ended
  <1>5. Given(d, dec, call', got)  BY <1>1, <1>2, <1>3, IdleGiven
  <1>6. CASE Untouched  BY <1>2, <1>4, <1>5, <1>6 DEF AllGiven, Over, Live, Untouched
  <1>7. CASE Failing
    <2>1. Told(d')  BY <1>2, <1>7, KeepsTold DEF Failing
    <2> QED  BY <1>4, <1>7, <2>1 DEF AllGiven, Given, Over, Failing
  <1>8. CASE Measured
    <2>1. /\ d'.tagChecked = d.tagChecked /\ d'.frames = d.frames /\ d'.end = d.end
          /\ d'.pending = d.pending
      BY <1>8, ChangedFields DEF Measured
    <2>2. Told(d')  BY <1>2, <1>8, <2>1 DEF Told, Measured
    <2>3. Given(d', dec, call', got)  BY <1>2, <1>5, <1>8, <2>1 DEF Given, Measured
    <2>4. Over(d', call', got)  BY <1>8 DEF Over, Live, Measured
    <2> QED  BY <1>4, <2>2, <2>3, <2>4 DEF AllGiven
  <1> QED  BY <1>1, <1>6, <1>7, <1>8

\* Handing samples out gives them.
LEMMA DeliverE ==
    ASSUME BInv, WInv, EndInv, ~adrift, Whole, UNCHANGED dec, call.at = "back", call.err = "none",
           NEW op \in Ops, NEW err \in Errs, NEW n \in Nat, n <= Len(d.pending), Deliver(op, n, err)
    PROVE  /\ Told(d') /\ Live(d') /\ ret'.op = op /\ ret'.err = err
           /\ \A c : Given(d', dec', c, got')
  <1>1. Live(d) /\ d.pending # <<>> /\ Sound(d)  BY DEF BInv, Phases
  <1>2. /\ Sound(d') /\ Changed(d', d, {"pending"}) /\ (Live(d') <=> Live(d)) /\ Handed(n)
        /\ ret'.op = op /\ ret'.err = err
    BY DeliverFacts
  <1>3. Told(d) /\ Given(d, dec, call, got)  BY DEF EndInv, Whole, AllGiven
  <1>4. Told(d')  BY <1>2, <1>3, KeepsTold
  <1>5. PICK id \in Nat : On(d, dec, expect, id)
    <2>1. Reading(d, dec, call, expect)  BY <1>1 DEF WInv, Whole, Synced
    <2> QED  BY <2>1 DEF Reading
  <1>6. \A i \in DOMAIN d.pending : d.pending[i][1] = dec.prev
    BY <1>1, <1>5 DEF On, Placed, Timed
  <1>7. ASSUME NEW k \in Expected, k <= dec.prev
        PROVE  k \in got' \/ (d'.pending # <<>> /\ k = dec.prev)
    <2>1. k \in got \/ k = dec.prev  BY <1>1, <1>3, <1>7 DEF Given
    <2>2. CASE k \in got  BY <1>2, <2>2 DEF Handed
    <2>3. CASE k = dec.prev /\ n = 0
      <3>1. d.pending \in Seq(Sample) /\ d'.pending \in Seq(Sample)  BY <1>1, <1>2 DEF Sound, DTypes
      <3>2. Len(d.pending) \in Nat /\ Len(d.pending) # 0  BY <1>1, <3>1, LenNat, EmptyLen
      <3>3. Len(d'.pending) = Len(d.pending) - n  BY <1>2 DEF Handed
      <3>4. Len(d'.pending) # 0  BY <2>3, <3>2, <3>3
      <3> QED  BY <2>3, <3>1, <3>4, EmptyLen
    <2>4. CASE k = dec.prev /\ n # 0
      <3>1. d.pending \in Seq(Sample)  BY <1>1 DEF Sound, DTypes
      <3>2. 1 \in DOMAIN d.pending /\ 1 \in 1..n
        <4>1. Len(d.pending) \in Nat /\ DOMAIN d.pending = 1..Len(d.pending)  BY <3>1, LenNat
        <4> QED  BY <2>4, <4>1
      <3>3. d.pending[1][1] \in got'  BY <1>2, <3>2 DEF Handed
      <3> QED  BY <1>6, <2>4, <3>2, <3>3
    <2> QED  BY <2>1, <2>2, <2>3, <2>4
  <1>8. dec # Cold  BY <1>5, WarmHdr DEF On, Placed
  <1>9. \A c : Given(d', dec', c, got')  BY <1>7, <1>8 DEF Given
  <1> QED  BY <1>1, <1>2, <1>4, <1>9

\* Returning an error of the decode loop.
LEMMA ErrorE ==
    ASSUME BInv, EndInv, ~adrift, Whole, UNCHANGED <<file, d, dec, got>>, call.at = "back", call.err # "none",
           call.op = "read" \/ call.op = "writeTo", call' = IdleCall, ret' = Ret(call.op, call.err)
    PROVE  AllGiven(d', dec', call', ret', got')
  <1>1. call'.at = "idle"  BY IdleFacts
  <1>2. ret'.err = call.err
    <2>1. call.op \in Ops /\ call.err \in Errs  BY DEF Ops, BInv, CallTypes
    <2> QED  BY <2>1, RetFacts
  <1>3. ~Live(d)  BY DEF BInv, Phases
  <1>4. Told(d) /\ Over(d, call, got) /\ Ended(d, call, ret)  BY DEF EndInv, Whole, AllGiven
  <1>5. Over(d, call', got)  BY <1>4 DEF Over
  <1>6. Ended(d, call', ret')  BY <1>1, <1>2, <1>4 DEF Ended
  <1> QED  BY <1>1, <1>3, <1>4, <1>5, <1>6 DEF AllGiven, Given, Inside

\* The end of a read, or a turn of WriteTo, preserves EndInv.
LEMMA HandsE == ASSUME BInv, WInv, EndInv, ~adrift, ReadEnds \/ WriteToGoesOn PROVE EndInv'
  <1>1. UNCHANGED <<file, dec>> /\ call.at = "back"  BY HandsOutOrNot
  <1> SUFFICES ASSUME src.whole PROVE AllGiven(d', dec', call', ret', got')  BY <1>1, ENext
  <1>2. Whole  BY DEF BInv, Whole
  <1>3. CASE Hands
    <2>1. PICK op \in {"read", "writeTo"}, err \in {"none", "sink"}, n \in Nat : Gives(op, n, err)
      BY <1>3 DEF Hands
    <2>2. /\ op \in Ops /\ err \in Errs /\ n <= Len(d.pending) /\ Deliver(op, n, err)
          /\ call.err = "none" /\ (call' = IdleCall \/ call' = Decoding("writeTo"))
      BY <1>3, <2>1 DEF Ops, Errs, Gives, Hands
    <2>3. Told(d') /\ Live(d') /\ ret'.err = err /\ Given(d', dec', call', got')
      BY <1>1, <1>2, <2>2, DeliverE
    <2>4. Live(d)  BY <1>1, <2>2 DEF BInv, Phases
    <2>5. call'.at \in {"idle", "decode"}  BY <2>2, <2>4, IdleFacts, DecodingFacts DEF Live
    <2>6. err # "eof"  BY <2>1
    <2> QED  BY <2>3, <2>5, <2>6 DEF AllGiven, Inside, Over, Ended, Live
  <1>4. CASE /\ UNCHANGED <<d, got>> /\ call' = IdleCall /\ call.err # "none"
             /\ (call.op = "read" \/ call.op = "writeTo") /\ ret' = Ret(call.op, call.err)
    BY <1>1, <1>2, <1>4, HandsOutOrNot, ErrorE
  <1> QED  BY <1>3, <1>4, HandsOutOrNot

\* A seek that fails, or ends behind the last frame.
LEMMA FailedE == ASSUME EndInv, UNCHANGED file, Failed PROVE EndInv'
  <1> SUFFICES ASSUME src.whole PROVE AllGiven(d', dec', call', ret', got')  BY ENext
  <1>1. ~Live(d') /\ call'.at = "idle" /\ ret'.op = "seek" /\ (d'.err # "none" \/ got' = Frames)
    BY DEF Failed
  <1>2. Told(d')  BY SameTold DEF Failed, EndInv, AllGiven
  <1>3. Over(d', call', got')  BY <1>1 DEF Over, Expected
  <1> QED  BY <1>1, <1>2, <1>3 DEF AllGiven, Given, Inside, Ended

\* Every seek preserves EndInv.
LEMMA SeekE == ASSUME BInv, EndInv, ~adrift', NEW s \in Targets, Seek(s) PROVE EndInv'
  <1>1. UNCHANGED file /\ call.at = "idle"  BY SeekTurns
  <1>2. CASE Failed  BY <1>1, <1>2, FailedE
  <1>3. CASE Refused
    <2> SUFFICES ASSUME src.whole PROVE AllGiven(d', dec', call', ret', got')  BY <1>1, ENext
    <2>1. Told(d) /\ Given(d, dec, call, got) /\ Over(d, call, got)
      BY <1>3 DEF Refused, EndInv, AllGiven
    <2>2. /\ call'.at = "idle" /\ ret'.op = "seek" /\ UNCHANGED <<dec, got>> /\ SameTag(d', d)
          /\ d'.pending = d.pending /\ d'.done = d.done /\ d'.err = d.err /\ (Live(d') <=> Live(d))
      BY <1>3 DEF Refused, Alike
    <2>3. Told(d')  BY <2>1, <2>2, SameTold
    <2>4. Given(d', dec', call', got')  BY <1>1, <2>1, <2>2 DEF Given
    <2>5. Over(d', call', got')  BY <1>1, <2>1, <2>2 DEF Over
    <2> QED  BY <2>2, <2>3, <2>4, <2>5 DEF AllGiven, Inside, Ended
  <1>4. ASSUME NEW target \in Nat, Sought(target) PROVE EndInv'
    <2> SUFFICES ASSUME src.whole PROVE AllGiven(d', dec', call', ret', got')  BY <1>1, ENext
    <2>1. /\ Live(d') /\ call'.at = "prime" /\ SameTag(d', d)
          /\ d.total # 0 => call'.asked < d.total
      BY <1>4 DEF Sought
    <2>2. Told(d')  BY <2>1, SameTold DEF EndInv, AllGiven
    <2>3. Inside(d', call')  BY <2>1 DEF Inside, SameTag
    <2> QED  BY <2>1, <2>2, <2>3 DEF AllGiven, Given, Over, Ended, Live
  <1> QED  BY <1>2, <1>3, <1>4, SeekTurns DEF Strayed

\* A frame that is played from the sample a seek asks for on is pending behind the landing.
LEMMA LandsInside ==
    ASSUME Whole, NEW f, Told(f), f.tagChecked, NEW target \in Nat, NEW intra \in Nat,
           intra < FrameSize, NEW asked \in Nat, target * FrameSize + intra = asked + Start,
           f.total # 0 => asked < f.total, f.total \in Nat, target + 1 \in Expected
    PROVE  target * FrameSize + intra < Least(target * FrameSize + FrameSize, f.end)
  <1>1. PICK from \in Nat, size \in Nat : from = target * FrameSize /\ size = FrameSize  BY ConstTypes
  <1>2. (target + 1 - 1) * FrameSize = from /\ (target + 1) * FrameSize = from + size
    <2>1. target + 1 - 1 = target  OBVIOUS
    <2> QED  BY <1>1, <2>1, ConstTypes
  <1>3. f.end \in Nat /\ Plays(target + 1, f.end)  BY Playing
  <1>4. PICK s \in Nat, e \in Nat : s = Start /\ e = f.end  BY <1>3, TrimTypes
  <1>5. Most(from, s) < Least(from + size, e)  BY <1>2, <1>3, <1>4 DEF Plays
  <1>6. from < e /\ s < e  BY <1>5 DEF Most, Least
  <1>7. from + intra < e
    <2>1. CASE f.frames = 0
      <3>1. e = NoEnd  BY <1>4, <2>1 DEF Told
      <3>2. from + size <= e  BY <1>2, <3>1, Countable
      <3> QED  BY <1>1, <3>2
    <2>2. CASE f.frames # 0
      <3>1. /\ e = End /\ f.total = Playable(f.frames * FrameSize, src.tag.delay, src.tag.padding)
            /\ f.frames = src.tag.frames
        BY <1>4, <2>2 DEF Told
      <3>2. s = HeadTrim(src.tag.delay)
        <4>1. First = 0  BY <2>2, <3>1, Tagless, ShapeFacts
        <4>2. src.tag.present  BY <4>1, ShapeFacts
        <4> QED  BY <1>4, <4>2 DEF Start
      <3>3. /\ e = WindowEnd(src.tag.frames * FrameSize, src.tag.padding)
        BY <2>2, <3>1 DEF End
      <3>4. PICK pre \in Nat, tail \in Int :
               pre = src.tag.frames * FrameSize /\ tail = Least(TailTrim(src.tag.padding), pre)
        <4>1. src.tag.frames \in Nat /\ src.tag.padding \in Nat  BY SrcTypes DEF Whole
        <4>2. src.tag.frames * FrameSize \in Nat  BY <4>1, ConstTypes
        <4>3. TailTrim(src.tag.padding) \in Int  BY <4>1, ConstTypes DEF TailTrim, Most
        <4> QED  BY <4>2, <4>3 DEF Least
      <3>5. e = pre - tail  BY <3>3, <3>4 DEF WindowEnd
      <3>6. f.total = IF s + tail > pre THEN 0 ELSE pre - (s + tail)
        BY <3>1, <3>2, <3>4 DEF Playable
      <3>7. f.total = e - s /\ f.total # 0  BY <1>6, <3>4, <3>5, <3>6
      <3>8. asked < e - s  BY <3>7
      <3>9. from + intra = asked + s  BY <1>1, <1>4
      <3> QED  BY <3>8, <3>9
    <2> QED  BY <2>1, <2>2
  <1>8. from + intra < from + size  BY <1>1
  <1> QED  BY <1>1, <1>4, <1>7, <1>8 DEF Least

\* A landing gives what lies before its frame, and has the frame pending if it is played.
LEMMA LandsE ==
    ASSUME BInv, BInv', WInv, EndInv, ~adrift, Whole, UNCHANGED file, call.at = "prime", NEW f, NEW o,
           Primed(f, o), ~(call.frame < call.target), o.ok, o.hit, Lands(Consume(f, o.bytes), o)
    PROVE  AllGiven(d', dec', call', ret', got')
  <1>1. PICK g : g = Consume(f, o.bytes)  OBVIOUS
  <1>2. SameTag(g, d) /\ Live(g) /\ g.tagChecked = d.tagChecked /\ g.start = d.start  BY <1>1, PrimedKeeps
  <1>3. /\ Live(d') /\ d'.end = g.end /\ SameTag(d', g) /\ call'.at = "idle" /\ ret'.op = "seek"
        /\ got' = Passed(call.target) /\ d'.pending \in Seq(Sample)
        /\ Len(d'.pending) = Most(0, Least(call.target * FrameSize + FrameSize, g.end)
                                       - call.target * FrameSize - call.intra)
    BY <1>1, <1>2 DEF Lands
  <1>4. /\ Live(d) /\ d.rate /\ call.intra < FrameSize /\ call.intra \in Nat /\ call.target \in Nat
        /\ call.asked \in Nat /\ call.target * FrameSize + call.intra = call.asked + d.start
        /\ d.tagChecked /\ d.total \in Nat
    BY DEF BInv, Phases, CallTypes, Sound, Opened, DTypes
  <1>5. /\ Told(d) /\ (d.total # 0 => call.asked < d.total)
        /\ Priming(d, dec, call) /\ AudioKnown(d) /\ d.start = Start
    BY <1>4 DEF EndInv, WInv, Whole, AllGiven, Inside, Synced, AudioKnown
  <1>6. dec'.prev = call.target + 1 /\ dec'.hdr = Kind  BY <1>5, LandsW
  <1>7. Told(g) /\ Told(d')  BY <1>2, <1>3, <1>5, SameTold
  <1>8. ASSUME NEW k \in Expected, k <= dec'.prev
        PROVE  k \in got' \/ (d'.pending # <<>> /\ k = dec'.prev)
    <2>1. k \in Nat /\ k > 0  BY ExpectedFacts
    <2>2. CASE k <= call.target
      <3>1. k \in 1..call.target  BY <1>4, <2>1, <2>2
      <3> QED  BY <1>3, <3>1 DEF Passed, Whole
    <2>3. CASE ~(k <= call.target)
      <3>1. k = call.target + 1  BY <1>4, <1>6, <1>8, <2>1, <2>3
      <3>2. call.target * FrameSize + call.intra < Least(call.target * FrameSize + FrameSize, g.end)
        <4>1. g.tagChecked /\ g.total = d.total  BY <1>2, <1>4 DEF SameTag
        <4> QED  BY <1>4, <1>5, <1>7, <3>1, <4>1, LandsInside
      <3>3. Len(d'.pending) # 0
        <4>1. PICK from \in Nat : from = call.target * FrameSize  BY <1>4, ConstTypes
        <4>2. PICK hi \in Int : hi = Least(from + FrameSize, g.end)
          <5>1. g.end \in Nat  BY <1>1, PrimedKeeps
          <5> QED  BY <4>1, <5>1, ConstTypes DEF Least
        <4>3. from + call.intra < hi  BY <3>2, <4>1, <4>2
        <4>4. hi - from - call.intra > 0 /\ hi - from - call.intra \in Int  BY <1>4, <4>1, <4>2, <4>3
        <4>5. Len(d'.pending) = Most(0, hi - from - call.intra)  BY <1>3, <4>1, <4>2
        <4> QED  BY <4>4, <4>5 DEF Most
      <3>4. d'.pending # <<>>  BY <1>3, <3>3, EmptyLen
      <3> QED  BY <1>6, <3>1, <3>4
    <2> QED  BY <2>2, <2>3
  <1>9. dec' # Cold  BY <1>6, WarmHdr
  <1>10. Given(d', dec', call', got')  BY <1>8, <1>9 DEF Given
  <1> QED  BY <1>3, <1>7, <1>10 DEF AllGiven, Inside, Over, Ended, Live

\* A step of the lead-in preserves EndInv.
LEMMA PrimeStepE == ASSUME BInv, BInv', WInv, EndInv, ~adrift, PrimeStep PROVE EndInv'
  <1>1. UNCHANGED file /\ call.at = "prime"  BY PrimeTurns
  <1>2. CASE Failed  BY <1>1, <1>2, FailedE
  <1>3. CASE \E f, o : /\ Primed(f, o)
                       /\ \/ Goes(f, o)
                          \/ /\ ~(call.frame < call.target) /\ o.ok
                             /\ o.hit /\ Lands(Consume(f, o.bytes), o)
    <2> SUFFICES ASSUME src.whole PROVE AllGiven(d', dec', call', ret', got')  BY <1>1, ENext
    <2>1. PICK f, o : /\ Primed(f, o)
                      /\ \/ Goes(f, o)
                         \/ /\ ~(call.frame < call.target) /\ o.ok
                            /\ o.hit /\ Lands(Consume(f, o.bytes), o)
      BY <1>3
    <2>2. Told(d) /\ Inside(d, call) /\ Whole  BY DEF EndInv, AllGiven, BInv, Whole
    <2>3. CASE Goes(f, o)
      <3>1. d' = Consume(f, o.bytes) /\ call'.at = "prime" /\ call'.asked = call.asked
        BY <2>3 DEF Goes
      <3>2. SameTag(d', d) /\ Live(d')  BY <2>1, <3>1, PrimedKeeps
      <3>3. Told(d')  BY <2>2, <3>2, SameTold
      <3>4. Inside(d', call')  BY <1>1, <2>2, <3>1, <3>2 DEF Inside, SameTag
      <3> QED  BY <3>1, <3>2, <3>3, <3>4 DEF AllGiven, Given, Over, Ended, Live
    <2>4. CASE ~(call.frame < call.target) /\ o.ok /\ o.hit /\ Lands(Consume(f, o.bytes), o)
      BY <1>1, <2>1, <2>2, <2>4, LandsE
    <2> QED  BY <2>1, <2>3, <2>4
  <1> QED  BY <1>2, <1>3, PrimeTurns

\* Every step preserves EndInv.
LEMMA NextE == ASSUME BInv, WInv, EndInv, [Next]_vars PROVE EndInv'
  <1>1. CASE adrift'
    <2>1. file' = file /\ (src.whole => Told(d'))  BY <1>1, KeepsNext DEF EndInv
    <2> QED  BY <1>1, <2>1, AdriftE
  <1>2. CASE Reset  BY <1>2, ResetE
  <1>3. CASE ~adrift' /\ \E s \in Targets : Seek(s)  BY <1>3, SeekE
  <1>4. CASE ~adrift /\ (Read \/ WriteTo)  BY <1>4, BeginE DEF Read, WriteTo
  <1>5. CASE ~adrift /\ DecodeStep  BY <1>5, DecodeStepE
  <1>6. CASE ~adrift /\ ResetEnds  BY <1>6, ResetEndsE
  <1>7. CASE ~adrift /\ (ReadEnds \/ WriteToGoesOn)  BY <1>7, HandsE
  <1>8. CASE ~adrift /\ PrimeStep  BY <1>8, NextB, PrimeStepE
  <1>9. CASE ~adrift /\ UNCHANGED vars
    <2>1. UNCHANGED <<file, d, dec, call, ret, got>>  BY <1>9 DEF vars
    <2>2. src.whole => AllGiven(d', dec', call', ret', got')
      <3>1. src.whole => AllGiven(d, dec, call, ret, got)  BY <1>9 DEF EndInv
      <3> QED  BY <2>1, <3>1
    <2> QED  BY <2>1, <2>2, ENext
  <1> QED  BY <1>1, <1>2, <1>3, <1>4, <1>5, <1>6, <1>7, <1>8, <1>9, Steps

(***************************************************************************)
(* A clean end of a source without gaps is reported only when every frame  *)
(* that can be confirmed and is played has been handed out, or passed by a *)
(* seek: neither a source that fails anywhere nor junk that is skipped     *)
(* ends it early (decodeNextFrame, handleNoFrame, finish).                 *)
(***************************************************************************)
THEOREM EofIsTheEndHolds == Spec => [](src.whole => EofIsTheEnd)
  <1>1. Init => BInv /\ WInv /\ EndInv  BY InitB, InitW, InitE
  <1>2. BInv /\ WInv /\ EndInv /\ [Next]_vars => (BInv /\ WInv /\ EndInv)'  BY NextB, NextW, NextE
  <1>3. EndInv => (src.whole => EofIsTheEnd)
    BY DEF EndInv, AllGiven, Ended, Over, EofIsTheEnd
  <1> QED  BY <1>1, <1>2, <1>3, PTL DEF Spec
=============================================================================
