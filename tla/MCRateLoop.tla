------------------------------ MODULE MCRateLoop ------------------------------
(***************************************************************************)
(* Layouts of three long and five short bands, and spectra for them; the   *)
(* windows before and after short ones have the long bands.                *)
(***************************************************************************)
EXTENDS RateLoop

LongBands(blockLong) ==
    [blockLong |-> blockLong, short |-> FALSE, n |-> 3, nScf |-> 2, slen1End |-> 1,
     win |-> <<0, 0, 0>>]
SomeLayouts ==
    [long |-> LongBands(TRUE), edge |-> LongBands(FALSE),
     short |-> [blockLong |-> FALSE, short |-> TRUE, n |-> 5, nScf |-> 3, slen1End |-> 2, win |-> <<0, 1, 0, 0, 1>>]]
Groups == <<{1}, {2}>>
Preemphasis == <<0, 1, 0, 0, 0>>
Slens == <<<<0, 0>>, <<0, 1>>, <<1, 0>>, <<1, 1>>, <<2, 1>>>>

Exponents == Zeroed..MaxExponent

\* Per band, the largest exponent, the one that masks, how much there is to code, and
\* what of it no gain quantizes away.
Spectrum(peak, need, size, least, bumps, wobble) ==
    [peak |-> peak, bumps |-> bumps,
     bits |-> [b \in 1..5 |-> [q \in Exponents |->
                 IF q = Zeroed THEN 0 ELSE MaxOf(least[b], q + size[b])]],
     noise |-> [b \in 1..5 |-> [q \in Exponents |->
                 IF q = Zeroed THEN MaxGain
                 ELSE 1 + MaxOf(0, need[b] - q) + (IF q < need[b] /\ q % 4 = wobble THEN 2 ELSE 0)]]]

Nothing == <<0, 0, 0, 0, 0>>
AllSpectra ==
    [tonal |-> Spectrum(<<0, 0, 0, 0, 0>>, <<-2, -9, -9, -9, -9>>, <<12, 9, 8, 7, 8>>, Nothing, {1}, 4),
     noisy |-> Spectrum(<<-3, 2, 2, 2, 2>>, <<-5, -4, -8, -6, -9>>, <<14, 10, 8, 12, 9>>, Nothing, {2, 3}, 1),
     loud |-> Spectrum(<<-6, -4, 0, 0, 0>>, <<-6, 2, -4, -3, -5>>, <<23, 21, 16, 14, 15>>, Nothing, {0}, 3),
     quiet |-> Spectrum(<<4, 4, 4, 4, 4>>, <<-12, -6, -10, -9, -9>>, <<5, 3, 2, 2, 3>>, Nothing, {1}, 2),
     pure |-> Spectrum(<<0, 0, 0, 0, 0>>, <<-9, -9, -9, -9, -9>>, <<22, 0, 0, 0, 0>>, <<5, 0, 0, 0, 0>>, {0, 1, 2}, 4)]
Few == AllSpectra               \* TLC keeps the value of AllSpectra
=============================================================================
