------------------------------- MODULE RateLoop -------------------------------
(***************************************************************************)
(* The rate and distortion loops of the encoder: outerLoop                 *)
(* (src/internal/enc/loop.go), one pass a step, around codeGranule and its *)
(* two gain searches (frame.go) over the quantization cache (gaincache.go),*)
(* and the scalefactor coding with scfsi of the two granules of a channel  *)
(* (scalefac.go).                                                          *)
(*                                                                         *)
(* Of a band's lines only their spectrum and the exponent they were        *)
(* quantized at are kept.  A spectrum tells, per band and exponent, the    *)
(* Huffman floor (never smaller at a larger exponent) and the noise        *)
(* relative to the masking threshold, and the largest exponent that does   *)
(* not overflow; what partition and regions add to the floors depends on   *)
(* all bands and is not monotone in the gain.                              *)
(***************************************************************************)
EXTENDS Integers, Sequences, FiniteSets, FiniteSetsExt

CONSTANTS
    Spectra,            \* spectra by name
    Layouts,            \* bandLayouts by name; a start or stop window has one of its own
    Windows,            \* windows of a short granule
    ScfsiGroups,        \* sequence of sets of long bands
    Pretab,             \* pretabLong
    SlenTab,            \* scalefac_compress to its pair of field widths
    SfMaxLo, SfMaxHi,   \* sfMaxLo, sfMaxHi
    MaxSubblockGain,    \* 7
    MaxGain,            \* 255
    MaxExponent,        \* largest exponent scalefactors can raise a band's lines to
    MaxPart23Length,    \* 4095
    MaxIters,           \* outerLoopMaxIters, 150
    Budgets             \* budgets an outerLoop may get; without a bit it makes no pass

VARIABLES
    fast,       \* FastRateControl, fixed for a behaviour
    at,         \* "idle", "loop" or "coded"
    xr,         \* name of the spectrum in the reused array
    lay, budget,
    o,          \* the locals of outerLoop
    gc,         \* the working coding
    cache,      \* quantCache: a valid key's spectrum
    gr          \* the codings of the channel's granules

vars == <<fast, at, xr, lay, budget, o, gc, cache, gr>>

MinOf(a, b) == IF a <= b THEN a ELSE b
MaxOf(a, b) == IF a >= b THEN a ELSE b

ASSUME NumbersAssumption ==
    /\ {SfMaxLo, SfMaxHi, MaxSubblockGain, MaxGain, MaxExponent, MaxPart23Length} \subseteq Nat
    /\ MaxIters \in Nat \ {0} /\ Budgets \subseteq Nat \ {0}

Bands(l) == 1..Layouts[l].n
ScfBands(l) == 1..Layouts[l].nScf
IsShort(l) == Layouts[l].short
IsLong(l) == Layouts[l].blockLong       \* blockType = blockLong
IsLo(l, b) == b <= Layouts[l].slen1End

ASSUME LayoutAssumption ==
    \A l \in DOMAIN Layouts :
        /\ Layouts[l].n \in Nat \ {0} /\ Layouts[l].nScf \in 0..Layouts[l].n
        /\ ScfBands(l) \subseteq DOMAIN Pretab
        /\ IsShort(l) => \A b \in Bands(l) : Layouts[l].win[b] \in Windows

NoScalefactors ==
    [scf |-> [b \in DOMAIN Pretab |-> 0], ssg |-> [w \in Windows |-> 0],
     scale |-> 0, preflag |-> 0]

\* bandExtraQuarters.
Extra(sf, l, b) ==
    (IF b \in ScfBands(l) THEN 2 * (sf.scale + 1) * (sf.scf[b] + sf.preflag * Pretab[b]) ELSE 0)
    + (IF IsShort(l) THEN 8 * sf.ssg[Layouts[l].win[b]] ELSE 0)

(***************************************************************************)
(* Quantized lines, and what they cost.                                    *)
(***************************************************************************)
Zeroed == -MaxGain - 1                  \* the exponent of lines zeroed by truncation
Lines(name, q) == [of |-> name, q |-> q]

\* Every band has a floor and a noise at each exponent; zeroed lines cost nothing, and
\* the floor is monotone in the exponent.
ASSUME SpectraAssumption ==
    \A s \in DOMAIN Spectra, l \in DOMAIN Layouts : \A b \in Bands(l) :
        /\ Spectra[s].noise[b] \in [Zeroed..MaxExponent -> Nat]
        /\ Spectra[s].bits[b] \in [Zeroed..MaxExponent -> Nat]
        /\ Spectra[s].bits[b][Zeroed] = 0
        /\ \A q \in -MaxGain..MaxExponent, r \in -MaxGain..MaxExponent :
              q <= r => Spectra[s].bits[b][q] <= Spectra[s].bits[b][r]

FloorOf(ix, b) == Spectra[ix[b].of].bits[b][ix[b].q]
Bound(ix) == SumFunction([b \in DOMAIN ix |-> FloorOf(ix, b)])
Coded(ix) == {b \in DOMAIN ix : FloorOf(ix, b) > 0}

\* chooseRegions and chooseRegionsWS: the floors, and at times two bits more.
HuffmanBits(ix) ==
    IF Coded(ix) = {} THEN 0
    ELSE Bound(ix) + (IF SumFunction([b \in Coded(ix) |-> ix[b].q]) % 4
                           \in Spectra[ix[1].of].bumps THEN 2 ELSE 0)

Noise(ix, b) == Spectra[ix[b].of].noise[b][ix[b].q]

\* maskingMetrics, in units of the thresholds.
Metrics(ix) ==
    LET bad == {b \in DOMAIN ix : Noise(ix, b) > 1}
    IN  [excess |-> SumFunction([b \in bad |-> Noise(ix, b) - 1]),
         ratio |-> Max({Noise(ix, b) : b \in bad} \cup {0}),
         over |-> Cardinality(bad)]

\* betterPass.
Better(m, n) ==
    \/ m.excess < n.excess
    \/ m.excess = n.excess /\ m.ratio < n.ratio
    \/ m.excess = n.excess /\ m.ratio = n.ratio /\ m.over < n.over

(***************************************************************************)
(* codeGranule: the gain, and truncation when no gain fits.                *)
(***************************************************************************)
Recode(sf, gg) == [b \in Bands(lay) |-> Lines(xr, Extra(sf, lay, b) - gg)]

\* codeAt: the same, a cached band from the cache.
CodeAt(sf, gg) ==
    [b \in Bands(lay) |->
        LET q == Extra(sf, lay, b) - gg
        IN  Lines(IF <<b, q>> \in DOMAIN cache THEN cache[<<b, q>>] ELSE xr, q)]

MinGlobalGain(sf) ==
    Min({gg \in 0..MaxGain - 1 :
            \A b \in Bands(lay) : Extra(sf, lay, b) - gg <= Spectra[xr].peak[b]} \cup {MaxGain})

\* The binary search of both searches: the first of lo..hi that is ok, if every
\* larger one is too.
Bisect(ok, lo, hi) ==
    LET from[p \in (lo..hi) \X (lo..hi)] ==
            LET mid == (p[1] + p[2]) \div 2
            IN  IF p[1] >= p[2] THEN p[1]
                ELSE from[IF mid \in ok THEN <<p[1], mid>> ELSE <<mid + 1, p[2]>>]
    IN  from[<<lo, hi>>]

Admitted(sf, eff) == {gg \in 0..MaxGain : Bound(CodeAt(sf, gg)) <= eff}

FirstAdmissibleGain(sf, gg0, eff) ==
    IF gg0 >= MaxGain \/ gg0 \in Admitted(sf, eff) THEN gg0
    ELSE Bisect(Admitted(sf, eff), gg0 + 1, MaxGain)

\* A step whose tighter bound exceeds the budget is skipped, to the same result.
SearchExact(sf, gg0, eff) ==
    Min({gg \in FirstAdmissibleGain(sf, gg0, eff)..MaxGain :
            HuffmanBits(CodeAt(sf, gg)) <= eff} \cup {MaxGain})

Chosen(gain, ix, cached) == [gain |-> gain, ix |-> ix, cached |-> cached]
ChosenExact(sf, gg0, eff) ==
    LET gg == SearchExact(sf, gg0, eff) IN Chosen(gg, CodeAt(sf, gg), TRUE)

\* Mutant: where the binary search ends is taken for a fit.
FitsAlways(sf, gg, eff) == TRUE

FitsAt(sf, gg, eff) == HuffmanBits(Recode(sf, gg)) <= eff

ChosenFast(sf, gg0, eff) ==
    LET fits == {gg \in 0..MaxGain : HuffmanBits(Recode(sf, gg)) <= eff}
        lo == Bisect(fits, gg0 + 1, MaxGain)
    IN  IF gg0 >= MaxGain \/ gg0 \in fits THEN Chosen(gg0, Recode(sf, gg0), FALSE)
        ELSE IF FitsAt(sf, lo, eff) THEN Chosen(lo, Recode(sf, lo), FALSE)
        ELSE ChosenExact(sf, gg0, eff)

\* zeroTopSfb as often as it takes.
Truncated(ix, eff) ==
    LET upTo(k) == [b \in DOMAIN ix |-> IF b <= k THEN ix[b] ELSE Lines(ix[b].of, Zeroed)]
    IN  upTo(Max({k \in 0..Len(ix) : HuffmanBits(upTo(k)) <= eff}))

CodeGranule(sf, eff) ==
    LET gg0 == MinGlobalGain(sf)
        c == IF fast THEN ChosenFast(sf, gg0, eff) ELSE ChosenExact(sf, gg0, eff)
    IN  [c EXCEPT !.ix = Truncated(@, eff)]

\* Which exponents the search asked for is not tracked: all it could have.
Filled(sf) ==
    DOMAIN cache \cup {<<b, Extra(sf, lay, b) - gg>> : b \in Bands(lay),
                                                       gg \in MinGlobalGain(sf)..MaxGain}

(***************************************************************************)
(* Scalefactor fields, chooseScalefacCompress: the cheapest pair of widths *)
(* that covers the bands to transmit.                                      *)
(***************************************************************************)
\* Mutant: off by one.
CoversNearly(width, scf) == scf <= 2^width

Covers(width, scf) == scf < 2^width

Width(i, l, b) == IF IsLo(l, b) THEN SlenTab[i][1] ELSE SlenTab[i][2]
FieldBits(i, l, bands) == SumFunction([b \in bands |-> Width(i, l, b)])

\* No scalefactors take no bits, all of them fit beside no spectrum, and at their
\* largest they do not raise a band beyond the exponents there are.
ASSUME ScalefactorAssumption ==
    /\ Pretab \in Seq(Nat)
    /\ \A p \in {0} \cup {Pretab[b] : b \in DOMAIN Pretab} :
          4 * (MaxOf(SfMaxLo, SfMaxHi) + p) + 8 * MaxSubblockGain <= MaxExponent
    /\ SlenTab \in Seq(Nat \X Nat) /\ <<0, 0>> \in {SlenTab[i] : i \in DOMAIN SlenTab}
    /\ \A i \in DOMAIN SlenTab, l \in DOMAIN Layouts :
          FieldBits(i, l, ScfBands(l)) <= MaxPart23Length

Sent(l, mask) == ScfBands(l) \ UNION {ScfsiGroups[k] : k \in mask}

Compress(sf, l, mask) ==
    LET ok == {i \in DOMAIN SlenTab : \A b \in Sent(l, mask) : Covers(Width(i, l, b), sf.scf[b])}
        cost(i) == FieldBits(i, l, Sent(l, mask))
    IN  IF ok = {} THEN 0
        ELSE Min({i \in ok : \A j \in ok : cost(i) <= cost(j)})

(***************************************************************************)
(* outerLoop.                                                              *)
(***************************************************************************)
None == 0
NoCoding == [sf |-> NoScalefactors, set |-> FALSE]
Loop0 ==
    [sf |-> NoScalefactors, unfixable |-> {}, prev |-> <<>>, pending |-> None, noise |-> 0,
     ssg |-> FALSE, iters |-> 1, best |-> NoCoding]

\* Mutant: the cache is not reset for the new contents of the array.
KeptCache == cache

ResetCache == <<>>

Init ==
    /\ fast \in BOOLEAN
    /\ at = "idle" /\ gr = <<>> /\ cache = <<>>
    /\ xr = CHOOSE s \in DOMAIN Spectra : TRUE
    /\ lay = CHOOSE l \in DOMAIN Layouts : TRUE
    /\ budget = Max(Budgets)
    /\ o = Loop0 /\ gc = NoCoding

\* The next granule's spectrum and window, and the bits the frame gives it.
Start ==
    /\ at = "idle" /\ Len(gr) < 2
    /\ xr' \in DOMAIN Spectra /\ lay' \in DOMAIN Layouts /\ budget' \in Budgets
    /\ cache' = ResetCache
    /\ o' = Loop0 /\ gc' = NoCoding /\ at' = "loop"
    /\ UNCHANGED <<fast, gr>>

\* The loop ends, and the best coding is the granule's.
Leave(c) ==
    /\ at' = "idle" /\ gr' = Append(gr, c) /\ gc' = c
    /\ UNCHANGED <<fast, xr, lay, budget>>

\* Mutant: the last pass instead of the best.
LastPass(l) == gc

BestPass(l) == IF l.best.set THEN l.best ELSE gc

WorstViolator(ix, unfixable) ==
    LET bad == {b \in ScfBands(lay) \ unfixable : Noise(ix, b) > 1}
    IN  IF bad = {} THEN None
        ELSE Min({b \in bad : \A a \in bad : Noise(ix, a) <= Noise(ix, b)})

SfCap(b) == IF IsLo(lay, b) THEN SfMaxLo ELSE SfMaxHi

EscalateSubblockGain(sf, w) ==
    LET win == Layouts[lay].win
        giveBack == 8 \div (2 * (sf.scale + 1))
    IN  [sf EXCEPT !.ssg[win[w]] = @ + 1,
                   !.scf = [b \in DOMAIN @ |-> IF b \in ScfBands(lay) /\ win[b] = win[w]
                                               THEN MaxOf(@[b] - giveBack, 0) ELSE @[b]]]

HiBands == {b \in ScfBands(lay) : ~IsLo(lay, b)}

\* preflagReady, and the re-expression.
Preflag(sf) ==
    IF ~IsShort(lay) /\ sf.preflag = 0 /\ \A b \in HiBands : sf.scf[b] >= Pretab[b]
    THEN [sf EXCEPT !.preflag = 1,
                    !.scf = [b \in DOMAIN @ |-> IF b \in HiBands THEN @[b] - Pretab[b] ELSE @[b]]]
    ELSE sf

\* What is done about the worst band.
Amplify(l, w, noise) ==
    LET sf == l.sf
        amplified == [l EXCEPT !.pending = w, !.noise = noise]
        next ==
            CASE sf.scf[w] < SfCap(w) -> [amplified EXCEPT !.sf.scf[w] = @ + 1]
              [] sf.scf[w] >= SfCap(w) /\ sf.scale = 0 ->
                    [amplified EXCEPT
                        !.sf.scale = 1,
                        !.sf.scf = [b \in DOMAIN @ |-> IF b \in ScfBands(lay)
                                                       THEN (@[b] + 1) \div 2 ELSE @[b]]]
              [] sf.scf[w] >= SfCap(w) /\ sf.scale = 1
                 /\ IsShort(lay) /\ sf.ssg[Layouts[lay].win[w]] < MaxSubblockGain ->
                    [l EXCEPT !.sf = EscalateSubblockGain(sf, w), !.ssg = TRUE]
              [] OTHER -> [l EXCEPT !.unfixable = @ \cup {w}]
    IN  [next EXCEPT !.sf = Preflag(@)]

\* A measured pass: kept if it is better, and the end unless a band can be helped.
Measured(l, c) ==
    LET m == Metrics(c.ix)
        k == IF ~l.best.set \/ Better(m, Metrics(l.best.ix)) THEN [l EXCEPT !.best = c] ELSE l
        w == WorstViolator(c.ix, l.unfixable)
    IN  IF m.over = 0 THEN o' = k /\ Leave(c)
        ELSE IF w = None THEN o' = k /\ Leave(BestPass(k))
        ELSE /\ o' = [Amplify(k, w, Noise(c.ix, w)) EXCEPT !.iters = @ + 1]
             /\ gc' = c
             /\ UNCHANGED <<fast, at, xr, lay, budget, gr>>

\* One iteration of the loop.
Pass ==
    LET extra == [b \in Bands(lay) |-> Extra(o.sf, lay, b)]
        i == Compress(o.sf, lay, {})
        part2 == FieldBits(i, lay, ScfBands(lay))
        eff == MinOf(budget, MaxPart23Length) - part2
        l == [o EXCEPT !.ssg = FALSE, !.prev = extra, !.pending = None]
    IN  /\ at = "loop"
        /\ IF \/ o.iters > MaxIters \/ (extra = o.prev /\ ~o.ssg)
              \/ i = 0 \/ part2 >= budget
             THEN Leave(BestPass(o)) /\ UNCHANGED <<o, cache>>
             ELSE LET g == CodeGranule(o.sf, eff)
                      bits == HuffmanBits(g.ix)
                      c == [set |-> TRUE, sf |-> o.sf, lay |-> lay, compress |-> i,
                            scfsi |-> {}, part2 |-> part2, part23 |-> part2 + bits,
                            eff |-> eff, gain |-> g.gain, ix |-> g.ix]
                  IN  /\ cache' = IF g.cached
                                    THEN [k \in Filled(o.sf) |->
                                            IF k \in DOMAIN cache THEN cache[k] ELSE xr]
                                    ELSE cache
                      /\ IF o.pending # None /\ Noise(g.ix, o.pending) >= o.noise
                           THEN \* futile: never again, and back to the best pass
                                /\ o' = [l EXCEPT !.unfixable = @ \cup {o.pending},
                                                  !.sf = o.best.sf, !.iters = @ + 1]
                                /\ gc' = c
                                /\ UNCHANGED <<fast, at, xr, lay, budget, gr>>
                           ELSE Measured(l, c)

(***************************************************************************)
(* detectScfsi and applyScfsi.                                             *)
(***************************************************************************)
DetectScfsi(c0, c1) ==
    IF ~IsLong(c0.lay) \/ ~IsLong(c1.lay)
       \/ c0.sf.scale # c1.sf.scale \/ c0.sf.preflag # c1.sf.preflag THEN {}
    ELSE {k \in DOMAIN ScfsiGroups : \A b \in ScfsiGroups[k] : c0.sf.scf[b] = c1.sf.scf[b]}

ApplyScfsi(c, mask) ==
    LET i == Compress(c.sf, c.lay, mask)
        part2 == FieldBits(i, c.lay, Sent(c.lay, mask))
    IN  IF mask = {} \/ i = 0 THEN c
        ELSE [c EXCEPT !.scfsi = mask, !.compress = i, !.part2 = part2,
                       !.part23 = @ - (c.part2 - part2)]

Scfsi ==
    /\ at = "idle" /\ Len(gr) = 2
    /\ gr' = [gr EXCEPT ![2] = ApplyScfsi(gr[2], DetectScfsi(gr[1], gr[2]))]
    /\ at' = "coded"
    /\ UNCHANGED <<fast, xr, lay, budget, o, gc, cache>>

NextFrame ==
    /\ at = "coded" /\ at' = "idle" /\ gr' = <<>>
    /\ UNCHANGED <<fast, xr, lay, budget, o, gc, cache>>

Next == Start \/ Pass \/ Scfsi \/ NextFrame

Spec == Init /\ [][Next]_vars
-----------------------------------------------------------------------------
(***************************************************************************)
(* Whatever was coded before and is still cached, a coding is of the       *)
(* granule's own spectrum and within its budget; the exact search finds    *)
(* the finest gain that fits, the fast one a gain that fits, and lines are *)
(* zeroed only where no gain does.                                         *)
(***************************************************************************)
FindsFittingGain ==
    gc.set =>
        LET own(gg) == Recode(gc.sf, gg)
            fits == {gg \in MinGlobalGain(gc.sf)..MaxGain : HuffmanBits(own(gg)) <= gc.eff}
        IN  /\ HuffmanBits(gc.ix) <= gc.eff
            /\ fits = {} => gc.gain = MaxGain
            /\ fits # {} => /\ gc.gain \in fits /\ gc.ix = own(gc.gain)
                            /\ fast \/ gc.gain = Min(fits)

(***************************************************************************)
(* The distortion loop never makes a granule worse than the plain rate     *)
(* loop would have: whatever was amplified, re-expressed, found futile and *)
(* rolled back, what is kept masks at least as well as no scalefactors.    *)
(***************************************************************************)
NeverWorseThanPlain ==
    at # "loop" /\ gc.set =>
        ~ Better(Metrics(CodeGranule(NoScalefactors, MinOf(budget, MaxPart23Length)).ix),
                 Metrics(gc.ix))

(***************************************************************************)
(* A decoder that reads the fields sent, and takes the groups not sent     *)
(* from the first granule, has the scalefactors the lines were quantized   *)
(* with; and the bits are those the side information announces, which its  *)
(* field can hold.                                                         *)
(***************************************************************************)
Decoded(c, b) ==
    IF b \in Sent(c.lay, c.scfsi) THEN c.sf.scf[b] % 2^Width(c.compress, c.lay, b)
    ELSE gr[1].sf.scf[b]

ScalefactorsSurvive ==
    at = "coded" =>
        \A k \in 1..2 :
            LET c == gr[k]
            IN  /\ \A b \in ScfBands(c.lay) : Decoded(c, b) = c.sf.scf[b]
                /\ c.part23 = FieldBits(c.compress, c.lay, Sent(c.lay, c.scfsi)) + HuffmanBits(c.ix)
                /\ c.part23 <= MaxPart23Length
=============================================================================
