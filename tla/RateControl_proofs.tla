-------------------------- MODULE RateControl_proofs --------------------------
(***************************************************************************)
(* Proofs about the bit budget of a frame, for every configuration, every  *)
(* perceptual entropy and every size a rate loop may settle on: the plan   *)
(* hands out exactly the bits it aims for, the redistribution is done in   *)
(* one pass per granule-channel, the spend is legal, and what is coded     *)
(* fits it.  Behind it, for every header, that the lengths of a frame the  *)
(* encoder, the frame decoder and the seek work with are the same.         *)
(***************************************************************************)
EXTENDS RateControl, HeaderMath, FiniteSetTheorems, TLAPS

\* What the plan aims for is there and can be described.
PlanWithin == pc # "idle" => huffTarget <= Hi /\ huffTarget <= HuffCap

\* The granule-channels that have no room left.
Full == {g \in GC : budget[g] >= MaxPart23Length}

\* Every pass fills a granule-channel that had room, or there is no next pass.
Redistributing ==
    pc = "redistribute" =>
        /\ Total(budget) = huffTarget * 8 /\ passes <= NGC
        /\ Over # {} => passes < Cardinality(Full)

\* The kept codings fit what the frame can spend.
KeptFit ==
    pc \in {"escalate", "commit"} =>
        Total(part23) <= Hi * 8 /\ \A g \in GC : part23[g] <= MaxPart23Length

IInv ==
    /\ TypeOK /\ PlanWithin /\ Redistributing /\ KeptFit
    /\ RedistributionConserves /\ BudgetsWithinSpend
-----------------------------------------------------------------------------
(***************************************************************************)
(* The arithmetic of the configuration.                                    *)
(***************************************************************************)
LEMMA PaddingFacts ==
    ASSUME NEW a \in 0..SampleRate - 1
    PROVE  PaddingBit(a) \in {0, 1} /\ PaddingNext(a) \in 0..SampleRate - 1
  BY RateAssumption DEF PaddingBit, PaddingNext, PaddingSum

LEMMA AreaFacts ==
    /\ \A p \in {0, 1} : MainAreaBytes(p) \in Nat
    /\ ResCapBytes \in Nat /\ HuffCap \in Nat /\ NGC * MaxPart23Length <= HuffCap * 8
  <1>1. \A p \in {0, 1} : MainAreaBytes(p) \in Nat
    BY RateAssumption, AreaAssumption DEF FrameLength, MainAreaBytes
  <1>2. ResCapBytes \in Nat
    BY <1>1, LimitAssumption DEF ResCapBytes, MinOf
  <1>3. NGC * MaxPart23Length \in Nat
    BY LimitAssumption
  <1>4. HuffCap \in Nat /\ NGC * MaxPart23Length <= HuffCap * 8
    BY <1>3 DEF HuffCap
  <1> QED  BY <1>1, <1>2, <1>4

\* Bits fit a number of bytes when their bytes do.
LEMMA InBytes ==
    ASSUME NEW n \in Nat, NEW b \in Nat, n <= b * 8
    PROVE  (n + 7) \div 8 <= b /\ (n + 7) \div 8 \in Nat
  OBVIOUS

(***************************************************************************)
(* Sums over the granule-channels.                                         *)
(***************************************************************************)
LEMMA Indices ==
    /\ 1 \in GC /\ 2 \in GC /\ NGC \in GC /\ (NGC = 4 => 3 \in GC /\ 4 \in GC)
    /\ \A g \in GC : g \in Int /\ (g = 1 \/ g = 2 \/ (NGC = 4 /\ (g = 3 \/ g = 4)))
  BY LimitAssumption DEF GC

LEMMA TotalType ==
    ASSUME NEW f \in [GC -> Nat]
    PROVE  Total(f) \in Nat /\ \A g \in GC : f[g] <= Total(f)
  BY Indices DEF Total

LEMMA TotalExcept ==
    ASSUME NEW f \in [GC -> Int], NEW g \in GC, NEW x \in Int
    PROVE  Total([f EXCEPT ![g] = x]) = Total(f) - f[g] + x
  <1> DEFINE h == [f EXCEPT ![g] = x]
  <1>1. \A k \in GC : h[k] = (IF k = g THEN x ELSE f[k]) /\ f[k] \in Int
    OBVIOUS
  <1> HIDE DEF h
  <1>2. CASE NGC = 2
    BY <1>1, <1>2, Indices DEF Total
  <1>3. CASE NGC = 4
    BY <1>1, <1>3, Indices DEF Total
  <1> QED  BY <1>2, <1>3, LimitAssumption

LEMMA TotalMonotone ==
    ASSUME NEW f, NEW h, \A g \in GC : f[g] \in Int /\ h[g] \in Int /\ f[g] <= h[g]
    PROVE  Total(f) <= Total(h)
  BY Indices, LimitAssumption DEF Total

LEMMA TotalSum ==
    ASSUME NEW f, NEW h, NEW k,
           \A g \in GC : f[g] \in Int /\ h[g] \in Int /\ k[g] = f[g] + h[g]
    PROVE  Total(k) = Total(f) + Total(h)
  BY Indices, LimitAssumption DEF Total

LEMMA TotalCapped ==
    ASSUME NEW f, NEW m \in Nat, \A g \in GC : f[g] \in Int /\ f[g] <= m
    PROVE  Total(f) <= NGC * m /\ ((\A g \in GC : f[g] = m) => Total(f) = NGC * m)
  BY Indices, LimitAssumption DEF Total

(***************************************************************************)
(* The proportional split hands out exactly the bits it is given.          *)
(***************************************************************************)
LEMMA Quotient ==
    ASSUME NEW n \in Nat, NEW m \in Nat \ {0}
    PROVE  n \div m \in Nat /\ m * (n \div m) <= n
  OBVIOUS

LEMMA SplitExact ==
    ASSUME NEW bits \in Nat, NEW d \in [GC -> Nat], Total(d) = 0 => bits = 0
    PROVE  Split(bits, d) \in [GC -> Nat] /\ Total(Split(bits, d)) = bits
  <1> DEFINE sum == Total(d)
             share == [g \in GC |-> (bits * d[g]) \div sum]
  <1>1. sum \in Nat
    BY TotalType
  <1>2. CASE sum = 0
    <2>1. Split(bits, d) = Zeros
      BY <1>2 DEF Split
    <2> QED  BY <1>2, <2>1, Indices, LimitAssumption DEF Zeros, Total
  <1>3. CASE sum # 0
    <2>1. \A g \in GC : bits * d[g] \in Nat
      BY Z3
    <2>2. \A g \in GC : share[g] \in Nat /\ sum * share[g] <= bits * d[g]
      <3> HIDE DEF sum
      <3> QED  BY <1>1, <1>3, <2>1, Quotient
    <2>3. share \in [GC -> Nat]
      BY <2>2
    <2> HIDE DEF share
    <2>4. Total(share) \in Nat
      BY <2>3, TotalType
    <2>5. sum * Total(share) <= bits * sum
      <3>1. Total([g \in GC |-> sum * share[g]]) <= Total([g \in GC |-> bits * d[g]])
        BY <1>1, <2>1, <2>2, <2>3, TotalMonotone
      <3>2. Total([g \in GC |-> sum * share[g]]) = sum * Total(share)
        BY <1>1, <2>3, Indices, LimitAssumption, Z3 DEF Total
      <3>3. Total([g \in GC |-> bits * d[g]]) = bits * sum
        BY Indices, LimitAssumption, Z3 DEF Total
      <3> QED  BY <3>1, <3>2, <3>3
    <2>6. Total(share) <= bits
      <3> HIDE DEF sum
      <3> QED  BY <1>1, <1>3, <2>4, <2>5, Z3
    <2>7. Split(bits, d) = [share EXCEPT ![NGC] = @ + bits - Total(share)]
      BY <1>3 DEF Split, share
    <2>8. /\ share[NGC] \in Nat /\ share[NGC] + bits - Total(share) \in Nat
          /\ Split(bits, d) = [share EXCEPT ![NGC] = share[NGC] + bits - Total(share)]
      BY <2>3, <2>4, <2>6, <2>7, Indices
    <2>9. Split(bits, d) \in [GC -> Nat]
      BY <2>3, <2>8
    <2>10. Total(Split(bits, d)) = Total(share) - share[NGC] + (share[NGC] + bits - Total(share))
      <3>1. share \in [GC -> Int] /\ NGC \in GC /\ share[NGC] + bits - Total(share) \in Int
        BY <2>3, <2>8, Indices
      <3>2. PICK x \in Int : x = share[NGC] + bits - Total(share)
        BY <3>1
      <3>3. Total([share EXCEPT ![NGC] = x]) = Total(share) - share[NGC] + x
        BY <3>1, TotalExcept
      <3> QED  BY <2>8, <3>2, <3>3
    <2> QED  BY <2>4, <2>8, <2>9, <2>10
  <1> QED  BY <1>2, <1>3

(***************************************************************************)
(* The pool of a redistribution pass is handed out to the last bit.        *)
(***************************************************************************)
LEMMA Counted ==
    ASSUME NEW S \in SUBSET GC
    PROVE  /\ IsFiniteSet(S) /\ Cardinality(S) \in 0..NGC
           /\ \A x \in Int : Total([g \in GC |-> IF g \in S THEN x ELSE 0]) = Cardinality(S) * x
  <1> DEFINE upTo(k) == S \cap 1..k
             ind(k, x) == IF k \in S THEN x ELSE 0
  <1>1. IsFiniteSet(GC) /\ Cardinality(GC) = NGC
    BY FS_Interval, LimitAssumption DEF GC
  <1>2. IsFiniteSet(S) /\ Cardinality(S) \in 0..NGC
    BY <1>1, FS_Subset, FS_CardinalityType, LimitAssumption
  <1>3. Cardinality(upTo(0)) = 0
    <2>1. upTo(0) = {}
      OBVIOUS
    <2> QED  BY <2>1, FS_EmptySet
  <1>4. ASSUME NEW k \in 0..3
        PROVE  Cardinality(upTo(k + 1)) = Cardinality(upTo(k)) + ind(k + 1, 1)
    <2>1. IsFiniteSet(upTo(k)) /\ Cardinality(upTo(k)) \in Nat
      BY <1>2, FS_Subset, FS_CardinalityType
    <2>2. CASE k + 1 \in S
      <3>1. upTo(k + 1) = upTo(k) \cup {k + 1} /\ k + 1 \notin upTo(k)
        BY <2>2, Indices
      <3> HIDE DEF upTo
      <3> QED  BY <2>1, <2>2, <3>1, FS_AddElement
    <2>3. CASE k + 1 \notin S
      <3>1. upTo(k + 1) = upTo(k)
        BY <2>3, Indices
      <3> HIDE DEF upTo
      <3> QED  BY <2>1, <2>3, <3>1
    <2> QED  BY <2>2, <2>3
  <1>5. Cardinality(S) = ind(1, 1) + ind(2, 1) + (IF NGC = 4 THEN ind(3, 1) + ind(4, 1) ELSE 0)
    <2>1. S = upTo(NGC)
      BY Indices, LimitAssumption DEF GC
    <2>2. /\ Cardinality(upTo(0 + 1)) = Cardinality(upTo(0)) + ind(0 + 1, 1)
          /\ Cardinality(upTo(1 + 1)) = Cardinality(upTo(1)) + ind(1 + 1, 1)
          /\ Cardinality(upTo(2 + 1)) = Cardinality(upTo(2)) + ind(2 + 1, 1)
          /\ Cardinality(upTo(3 + 1)) = Cardinality(upTo(3)) + ind(3 + 1, 1)
      <3> HIDE DEF upTo, ind
      <3> QED  BY <1>4
    <2>3. 0 + 1 = 1 /\ 1 + 1 = 2 /\ 2 + 1 = 3 /\ 3 + 1 = 4
      OBVIOUS
    <2>4. ind(1, 1) \in {0, 1} /\ ind(2, 1) \in {0, 1} /\ ind(3, 1) \in {0, 1} /\ ind(4, 1) \in {0, 1}
      OBVIOUS
    <2> HIDE DEF upTo, ind
    <2> QED  BY <1>3, <2>1, <2>2, <2>3, <2>4, LimitAssumption
  <1>6. ASSUME NEW x \in Int
        PROVE  Total([g \in GC |-> IF g \in S THEN x ELSE 0]) = Cardinality(S) * x
    <2>1. Total([g \in GC |-> IF g \in S THEN x ELSE 0]) =
            ind(1, x) + ind(2, x) + (IF NGC = 4 THEN ind(3, x) + ind(4, x) ELSE 0)
      BY Indices DEF Total
    <2>2. \A k \in 1..4 : ind(k, x) = ind(k, 1) * x /\ ind(k, 1) \in Int
      OBVIOUS
    <2> HIDE DEF ind
    <2> QED  BY <1>5, <2>1, <2>2, LimitAssumption, Z3
  <1> QED  BY <1>2, <1>6

LEMMA LastIn ==
    ASSUME NEW S \in SUBSET GC, S # {}
    PROVE  LastOf(S) \in S
  <1>1. \E g \in S : \A h \in S : h <= g
    BY Indices, SMT
  <1> QED  BY <1>1 DEF LastOf

LEMMA HandoutExact ==
    ASSUME NEW pool \in Nat, NEW open \in SUBSET GC, open # {}
    PROVE  Handout(pool, open) \in [GC -> Nat] /\ Total(Handout(pool, open)) = pool
           /\ \A g \in GC : g \notin open => Handout(pool, open)[g] = 0
  <1> DEFINE n == Cardinality(open)
             share == pool \div n
             rest == pool - n * share
             last == LastOf(open)
             equal == [g \in GC |-> IF g \in open THEN share ELSE 0]
             extra == [g \in GC |-> IF g \in {last} THEN rest ELSE 0]
  <1>1. n \in Nat \ {0}
    BY Counted, FS_EmptySet
  <1>2. share \in Nat /\ rest \in Nat
    <2> HIDE DEF n
    <2>1. pool \div n \in Nat /\ n * (pool \div n) <= pool
      BY <1>1, Quotient
    <2> HIDE DEF share
    <2>2. n * share \in Nat /\ n * share <= pool
      BY <1>1, <2>1, Z3 DEF share
    <2> QED  BY <2>1, <2>2 DEF share
  <1>3. last \in open /\ last \in GC
    BY LastIn
  <1>4. Total(equal) = n * share
    BY <1>2, Counted
  <1>5. Total(extra) = rest
    <2>1. {last} \in SUBSET GC /\ Cardinality({last}) = 1
      BY <1>3, FS_Singleton
    <2> HIDE DEF rest, last
    <2>2. Total(extra) = 1 * rest
      BY <1>2, <2>1, Counted
    <2> QED  BY <1>2, <2>2
  <1>6. \A g \in GC : /\ equal[g] \in Nat /\ extra[g] \in Nat
                      /\ Handout(pool, open)[g] = equal[g] + extra[g]
                      /\ g \notin open => equal[g] = 0 /\ extra[g] = 0
    BY <1>2, <1>3 DEF Handout
  <1>7. Handout(pool, open) \in [GC -> Nat]
    <2>1. Handout(pool, open) = [g \in GC |-> Handout(pool, open)[g]]
      BY DEF Handout
    <2> HIDE DEF equal, extra
    <2> QED  BY <1>6, <2>1
  <1>8. Total(Handout(pool, open)) = n * share + rest
    <2> HIDE DEF equal, extra, rest, share, n
    <2> QED  BY <1>4, <1>5, <1>6, TotalSum
  <1>9. n * share + rest = pool
    <2>1. n * share \in Int
      <3> HIDE DEF n, share
      <3> QED  BY <1>1, <1>2, Z3
    <2> QED  BY <2>1
  <1> HIDE DEF equal, extra, rest, share, n
  <1> QED  BY <1>6, <1>7, <1>8, <1>9

(***************************************************************************)
(* The plan of a frame.                                                    *)
(***************************************************************************)
LEMMA DemandType ==
    ASSUME NEW pe \in Int, NEW meanGB \in Nat
    PROVE  DemandBits(pe, meanGB) \in Nat
  BY LimitAssumption DEF DemandBits, MaxOf, MinOf

LEMMA SpendFacts ==
    ASSUME TypeOK
    PROVE  Lo \in Nat /\ Hi \in Nat /\ Lo <= Hi /\ Hi - Lo <= ResCapBytes
           /\ occ \in Nat /\ ResCapBytes \in Nat
  BY AreaFacts DEF TypeOK, Lo, Hi, SpendLo, SpendHi, MaxOf

LEMMA InitIInv == Init => IInv
  <1> SUFFICES ASSUME Init PROVE IInv
    OBVIOUS
  <1>1. acc \in 0..SampleRate - 1 /\ occ \in 0..ResCapBytes /\ area \in Nat
    BY AreaFacts, RateAssumption DEF Init
  <1> QED
    BY <1>1 DEF Init, IInv, TypeOK, PlanWithin, Redistributing, KeptFit,
         RedistributionConserves, BudgetsWithinSpend, Zeros

LEMMA PlanStep == IInv /\ PlanFrame => IInv'
  <1> SUFFICES ASSUME IInv, NEW pe \in [GC -> PEs], Plan(pe) PROVE IInv'
    BY DEF PlanFrame
  <1> DEFINE a == MainAreaBytes(PaddingBit(acc))
             d == [g \in GC |-> DemandBits(pe[g], (a * 8) \div NGC)]
             target == MinOf((Total(d) + 7) \div 8, MinOf(occ + a, HuffCap))
  <1>1. /\ acc' = PaddingNext(acc) /\ area' = a /\ demand' = d /\ huffTarget' = target
        /\ budget' = Split(target * 8, d) /\ passes' = 0 /\ part23' = Zeros
        /\ pc' = "redistribute" /\ occ' = occ
    BY DEF Plan
  <1>2. TypeOK /\ acc \in 0..SampleRate - 1 /\ occ \in Nat
    BY AreaFacts DEF IInv, TypeOK
  <1>3. a \in Nat /\ acc' \in 0..SampleRate - 1
    BY <1>1, <1>2, PaddingFacts, AreaFacts
  <1>4. d \in [GC -> Nat]
    <2>1. (a * 8) \div NGC \in Nat
      <3> HIDE DEF a
      <3> QED  BY <1>3, LimitAssumption
    <2>2. \A g \in GC : pe[g] \in Int
      BY CodingAssumption
    <2> QED  BY <2>1, <2>2, DemandType
  <1> HIDE DEF a, d
  <1>5. Total(d) \in Nat
    BY <1>4, TotalType
  <1>6. target \in Nat /\ target <= occ + a /\ target <= HuffCap /\ (Total(d) = 0 => target = 0)
    BY <1>2, <1>3, <1>5, AreaFacts DEF MinOf
  <1> HIDE DEF target
  <1>7. Split(target * 8, d) \in [GC -> Nat] /\ Total(Split(target * 8, d)) = target * 8
    BY <1>4, <1>6, SplitExact
  <1>8. TypeOK'
    <2>1. budget' \in [GC -> Nat] /\ part23' \in [GC -> Nat] /\ demand' \in [GC -> Nat]
      BY <1>1, <1>4, <1>7 DEF Zeros
    <2> QED  BY <1>1, <1>2, <1>3, <1>6, <2>1 DEF TypeOK
  <1>9. PlanWithin'
    BY <1>1, <1>6 DEF PlanWithin, Hi, SpendHi
  <1>10. Redistributing'
    <2>1. Total(budget') = huffTarget' * 8 /\ passes' <= NGC
      BY <1>1, <1>7, LimitAssumption
    <2>2. ASSUME Over' # {} PROVE passes' < Cardinality(Full)'
      <3>1. PICK g \in GC : g \in Full'
        BY <1>8, <2>2, LimitAssumption DEF Over, Full, TypeOK
      <3>2. Full' \in SUBSET GC
        BY DEF Full
      <3>3. Cardinality(Full') \in Nat /\ Cardinality(Full') # 0
        BY <3>1, <3>2, Counted, FS_EmptySet
      <3> QED  BY <1>1, <3>3
    <2> QED  BY <2>1, <2>2 DEF Redistributing, Total
  <1> QED
    BY <1>1, <1>8, <1>9, <1>10 DEF IInv, KeptFit, RedistributionConserves, BudgetsWithinSpend

(***************************************************************************)
(* The redistribution.                                                     *)
(***************************************************************************)
LEMMA RedistributeStep == IInv /\ Redistribute => IInv'
  <1> SUFFICES ASSUME IInv, Redistribute PROVE IInv'
    OBVIOUS
  <1> DEFINE pool == Total(budget) - Total(Clamped)
             open == {g \in GC : Clamped[g] < MaxPart23Length}
  <1>1. /\ pc = "redistribute" /\ Over # {} /\ passes' = MinOf(passes + 1, NGC + 1)
        /\ UNCHANGED <<acc, occ, area, demand, huffTarget, part23>>
    BY DEF Redistribute
  <1>2. /\ TypeOK /\ budget \in [GC -> Nat] /\ huffTarget \in Nat /\ passes \in Nat
        /\ Total(budget) = huffTarget * 8 /\ passes < Cardinality(Full)
    BY <1>1 DEF IInv, TypeOK, Redistributing
  <1>3. /\ Full \in SUBSET GC /\ IsFiniteSet(Full) /\ Cardinality(Full) \in 0..NGC
        /\ passes' = passes + 1 /\ passes' <= NGC
    <2>1. Full \in SUBSET GC
      BY DEF Full
    <2>2. IsFiniteSet(Full) /\ Cardinality(Full) \in 0..NGC
      BY <2>1, Counted
    <2> QED  BY <1>1, <1>2, <2>1, <2>2, LimitAssumption DEF MinOf
  <1>4. \A g \in GC : /\ Clamped[g] \in Nat /\ Clamped[g] <= MaxPart23Length
                      /\ Clamped[g] <= budget[g]
                      /\ g \in open <=> g \notin Full
                      /\ g \in Full => Clamped[g] = MaxPart23Length
                      /\ g \in open => Clamped[g] = budget[g]
    BY <1>2, LimitAssumption DEF Clamped, MinOf, Full
  <1>5. Clamped \in [GC -> Nat] /\ open \in SUBSET GC
    BY <1>4 DEF Clamped
  <1>6. Total(Clamped) \in Nat /\ pool \in Nat /\ Total(budget) \in Nat
    BY <1>2, <1>4, <1>5, TotalType, TotalMonotone
  <1>7. PlanWithin'
    BY <1>1 DEF IInv, PlanWithin, Hi, SpendHi
  <1>8. CASE open = {}
    <2>1. budget' = Clamped /\ pc' = "topUp"
      BY <1>8 DEF Redistribute
    <2>2. \A g \in GC : Clamped[g] = MaxPart23Length
      BY <1>4, <1>8
    <2>3. Total(Clamped) = NGC * MaxPart23Length
      BY <1>4, <2>2, TotalCapped, LimitAssumption
    <2>4. Total(Clamped) <= Total(budget)
      BY <1>6
    <2>5. RedistributionConserves'
      <3>1. Total(budget') = Total(Clamped)
        BY <2>1
      <3>2. Total(budget') = MinOf(huffTarget' * 8, NGC * MaxPart23Length)
        BY <1>1, <1>2, <1>6, <2>3, <2>4, <3>1 DEF MinOf
      <3>3. \A g \in GC : budget'[g] <= MaxPart23Length
        BY <1>4, <2>1
      <3> QED  BY <1>3, <3>2, <3>3 DEF RedistributionConserves, Total
    <2>6. TypeOK'
      BY <1>1, <1>2, <1>3, <1>5, <2>1 DEF TypeOK
    <2> QED
      BY <1>7, <2>1, <2>5, <2>6 DEF IInv, Redistributing, KeptFit, BudgetsWithinSpend
  <1>9. CASE open # {}
    <2>1. budget' = [g \in GC |-> Clamped[g] + Handout(pool, open)[g]] /\ pc' = pc
      BY <1>9 DEF Redistribute
    <2> HIDE DEF pool, open
    <2>2. /\ Handout(pool, open) \in [GC -> Nat] /\ Total(Handout(pool, open)) = pool
          /\ \A g \in GC : g \notin open => Handout(pool, open)[g] = 0
      BY <1>5, <1>6, <1>9, HandoutExact
    <2>3. budget' \in [GC -> Nat]
      BY <1>5, <2>1, <2>2
    <2>4. Total(budget') = huffTarget' * 8
      <3>1. Total(budget') = Total(Clamped) + pool
        BY <1>4, <2>1, <2>2, TotalSum
      <3> QED  BY <1>1, <1>2, <1>6, <3>1 DEF pool
    \* What was full stays at the limit; whoever exceeds it now had room.
    <2>5. ASSUME Over' # {} PROVE passes' < Cardinality(Full')
      <3>1. PICK g \in GC : budget'[g] > MaxPart23Length
        BY <2>5 DEF Over
      <3>2. g \in open
        BY <1>4, <2>1, <2>2, <3>1, LimitAssumption
      <3>3. g \in Full' /\ g \notin Full
        BY <1>4, <2>3, <3>1, <3>2, LimitAssumption DEF Full
      <3>4. Full \subseteq Full'
        BY <1>4, <2>1, <2>2, LimitAssumption DEF Full
      <3>5. Full' \in SUBSET GC
        BY DEF Full
      <3>6. IsFiniteSet(Full') /\ Cardinality(Full') \in 0..NGC
        BY <3>5, Counted
      <3>7. Cardinality(Full \cup {g}) = Cardinality(Full) + 1
        BY <1>3, <3>3, FS_AddElement
      <3>8. Cardinality(Full \cup {g}) <= Cardinality(Full')
        BY <3>3, <3>4, <3>6, FS_Subset
      <3> QED  BY <1>2, <1>3, <3>6, <3>7, <3>8
    <2>6. Redistributing'
      <3>1. (Total(budget) = huffTarget * 8)'
        BY <2>4 DEF Total
      <3> QED  BY <1>3, <2>5, <3>1 DEF Redistributing
    <2>7. TypeOK'
      BY <1>1, <1>2, <1>3, <2>1, <2>3 DEF TypeOK
    <2> QED
      BY <1>1, <1>7, <2>1, <2>6, <2>7
      DEF IInv, KeptFit, RedistributionConserves, BudgetsWithinSpend
  <1> QED  BY <1>8, <1>9

LEMMA RedistributedStep == IInv /\ Redistributed => IInv'
  <1> SUFFICES ASSUME IInv, Redistributed PROVE IInv'
    OBVIOUS
  <1>1. /\ pc = "redistribute" /\ Over = {} /\ pc' = "topUp"
        /\ UNCHANGED <<acc, occ, area, demand, budget, huffTarget, passes, part23>>
    BY DEF Redistributed
  <1>2. /\ TypeOK /\ budget \in [GC -> Nat] /\ huffTarget \in Nat
        /\ Total(budget) = huffTarget * 8 /\ passes <= NGC
    BY <1>1 DEF IInv, TypeOK, Redistributing
  <1>3. \A g \in GC : budget[g] \in Nat /\ budget[g] <= MaxPart23Length
    BY <1>1, <1>2, LimitAssumption DEF Over
  <1>4. Total(budget) <= NGC * MaxPart23Length
    BY <1>3, TotalCapped, LimitAssumption
  <1>5. RedistributionConserves'
    <2>1. Total(budget) = MinOf(huffTarget * 8, NGC * MaxPart23Length)
      <3>1. NGC * MaxPart23Length \in Nat
        BY LimitAssumption
      <3> QED  BY <1>2, <1>4, <3>1 DEF MinOf
    <2> QED  BY <1>1, <1>2, <1>3, <2>1 DEF RedistributionConserves, Total
  <1>6. TypeOK' /\ PlanWithin'
    BY <1>1, <1>2 DEF TypeOK, IInv, PlanWithin, Hi, SpendHi
  <1> QED  BY <1>1, <1>5, <1>6 DEF IInv, Redistributing, KeptFit, BudgetsWithinSpend

(***************************************************************************)
(* The top-up, and the codings it leads to.                                *)
(***************************************************************************)
LEMMA TopUpStep == IInv /\ TopUp => IInv'
  <1> SUFFICES ASSUME IInv, TopUp PROVE IInv'
    OBVIOUS
  <1> DEFINE share == ExtraBits \div NGC
             rem == ExtraBits - share * NGC
             more == [g \in GC |-> share + (IF g = NGC THEN rem ELSE 0)]
  <1>1. /\ pc = "topUp" /\ pc' = "code"
        /\ UNCHANGED <<acc, occ, area, demand, huffTarget, passes, part23>>
        /\ budget' = IF ExtraBits = 0 THEN budget
                     ELSE [g \in GC |-> MinOf(budget[g] + share + (IF g = NGC THEN rem ELSE 0),
                                              MaxPart23Length)]
    BY DEF TopUp
  <1>2. /\ TypeOK /\ budget \in [GC -> Nat] /\ huffTarget \in Nat /\ huffTarget <= Hi
        /\ Total(budget) = MinOf(huffTarget * 8, NGC * MaxPart23Length)
        /\ \A g \in GC : budget[g] <= MaxPart23Length
    BY <1>1 DEF IInv, TypeOK, PlanWithin, RedistributionConserves
  <1>3. /\ Spend \in Nat /\ Spend >= huffTarget /\ Spend >= Lo /\ Spend <= Hi
        /\ Lo \in Nat /\ Hi \in Nat
    BY <1>2, SpendFacts DEF Spend, MaxOf
  <1>4. Total(budget) \in Nat /\ Total(budget) <= huffTarget * 8
    <2>1. NGC * MaxPart23Length \in Nat
      BY LimitAssumption
    <2> QED  BY <1>2, <2>1, TotalType DEF MinOf
  <1>5. ExtraBits \in Nat /\ ExtraBits = (Spend - huffTarget) * 8
    BY <1>2, <1>3 DEF ExtraBits
  <1>6. share \in Nat /\ rem \in Nat
    BY <1>5, LimitAssumption
  <1>7. Total(more) = ExtraBits
    <2>1. Total(more) = NGC * share + rem
      <3> HIDE DEF share, rem
      <3> QED  BY <1>6, Indices, LimitAssumption DEF Total
    <2> QED  BY <1>5, <1>6, <2>1, LimitAssumption
  <1> HIDE DEF share, rem
  <1>8. /\ budget' \in [GC -> Nat] /\ Total(budget') <= Spend * 8
        /\ \A g \in GC : budget'[g] <= MaxPart23Length
    <2>1. CASE ExtraBits = 0
      <3>1. budget' = budget
        BY <1>1, <2>1
      <3> QED  BY <1>2, <1>3, <1>4, <3>1
    <2>2. CASE ExtraBits # 0
      <3> DEFINE sum == [g \in GC |-> budget[g] + more[g]]
      <3>1. budget' = [g \in GC |-> MinOf(budget[g] + share + (IF g = NGC THEN rem ELSE 0),
                                          MaxPart23Length)]
        BY <1>1, <2>2
      <3>2. \A g \in GC : /\ budget[g] \in Nat /\ more[g] \in Nat /\ sum[g] = budget[g] + more[g]
                          /\ sum[g] = budget[g] + share + (IF g = NGC THEN rem ELSE 0)
        BY <1>2, <1>6
      <3>3. \A g \in GC : /\ budget'[g] \in Nat /\ budget'[g] <= sum[g]
                          /\ budget'[g] <= MaxPart23Length
        <4>1. \A g \in GC : budget'[g] = MinOf(sum[g], MaxPart23Length)
          BY <3>1, <3>2
        <4> HIDE DEF sum
        <4> QED  BY <3>2, <4>1, LimitAssumption DEF MinOf
      <3>4. budget' \in [GC -> Nat]
        BY <3>1, <3>3
      <3> HIDE DEF sum, more
      <3>5. Total(sum) = Total(budget) + ExtraBits
        BY <1>7, <3>2, TotalSum
      <3>6. Total(budget') <= Total(sum) /\ Total(budget') \in Nat
        BY <3>2, <3>3, <3>4, TotalMonotone, TotalType
      <3> QED  BY <1>2, <1>3, <1>4, <1>5, <3>3, <3>4, <3>5, <3>6
    <2> QED  BY <2>1, <2>2
  <1>9. BudgetsWithinSpend'
    <2>1. Spend' = Spend /\ Lo' = Lo /\ Hi' = Hi
      BY <1>1 DEF Spend, Lo, Hi, SpendLo, SpendHi
    <2>2. (Total(budget) <= Spend * 8)'
      BY <1>8, <2>1 DEF Total
    <2>3. (Spend \in Lo..Hi)'
      BY <1>3, <2>1
    <2> QED  BY <1>8, <2>2, <2>3 DEF BudgetsWithinSpend
  <1>10. TypeOK' /\ PlanWithin'
    BY <1>1, <1>2, <1>8 DEF TypeOK, IInv, PlanWithin, Hi, SpendHi
  <1> QED  BY <1>1, <1>9, <1>10 DEF IInv, Redistributing, KeptFit, RedistributionConserves

\* A step that changes the codings alone, to ones that fit, keeps the invariant.
LEMMA CodingStep ==
    ASSUME IInv, UNCHANGED <<acc, occ, area, demand, budget, huffTarget, passes>>,
           pc # "idle", pc' \in {"escalate", "commit"}, part23' \in [GC -> Nat],
           Total(part23') <= Hi * 8, \A g \in GC : part23'[g] <= MaxPart23Length
    PROVE  IInv'
  <1>1. TypeOK'
    BY DEF IInv, TypeOK
  <1>2. PlanWithin' /\ Hi' = Hi
    BY DEF IInv, PlanWithin, Hi, SpendHi
  <1>3. KeptFit'
    BY <1>2 DEF KeptFit, Total
  <1> QED
    BY <1>1, <1>2, <1>3 DEF IInv, Redistributing, RedistributionConserves, BudgetsWithinSpend

LEMMA FittingType ==
    ASSUME NEW n \in Nat, NEW s \in Fitting(n)
    PROVE  s \in Nat /\ s <= n
  BY CodingAssumption DEF Fitting

LEMMA CodeStep == IInv /\ Code => IInv'
  <1> SUFFICES ASSUME IInv, Code PROVE IInv'
    OBVIOUS
  <1>1. /\ pc = "code" /\ pc' = "escalate"
        /\ UNCHANGED <<acc, occ, area, demand, budget, huffTarget, passes>>
        /\ \A g \in GC : part23'[g] \in Fitting(budget[g])
        /\ \E S : part23' \in [GC -> S]
    BY DEF Code
  <1>2. /\ TypeOK /\ budget \in [GC -> Nat] /\ Total(budget) <= Spend * 8 /\ Spend \in Lo..Hi
        /\ \A g \in GC : budget[g] <= MaxPart23Length
    BY <1>1 DEF IInv, TypeOK, BudgetsWithinSpend
  <1>3. \A g \in GC : /\ part23'[g] \in Nat /\ part23'[g] <= budget[g] /\ budget[g] \in Nat
                      /\ part23'[g] <= MaxPart23Length
    BY <1>1, <1>2, FittingType, LimitAssumption
  <1>4. part23' \in [GC -> Nat]
    BY <1>1, <1>3
  <1>5. Total(part23') <= Hi * 8
    <2>1. Total(part23') \in Nat /\ Total(budget) \in Nat /\ Total(part23') <= Total(budget)
      BY <1>2, <1>3, <1>4, TotalType, TotalMonotone
    <2> QED  BY <1>2, <2>1, SpendFacts
  <1> QED  BY <1>1, <1>3, <1>4, <1>5, CodingStep

LEMMA EscalateStep == IInv /\ EscalateSome => IInv'
  <1> SUFFICES ASSUME IInv, NEW g \in GC, Escalate(g) PROVE IInv'
    BY DEF EscalateSome
  <1>1. PICK s \in Fitting(Offer(g)) : part23' = [part23 EXCEPT ![g] = s]
    BY DEF Escalate
  <1>2. /\ pc = "escalate" /\ pc' = pc /\ TypeOK /\ part23 \in [GC -> Nat]
        /\ UNCHANGED <<acc, occ, area, demand, budget, huffTarget, passes>>
        /\ Total(part23) <= Hi * 8 /\ \A h \in GC : part23[h] <= MaxPart23Length
    BY DEF Escalate, IInv, TypeOK, KeptFit
  <1>3. Total(part23) \in Nat /\ part23[g] \in Nat /\ Hi \in Nat
    BY <1>2, TotalType, SpendFacts
  <1>4. /\ Offer(g) \in Nat /\ Offer(g) <= MaxPart23Length
        /\ Offer(g) <= part23[g] + (Hi * 8 - Total(part23))
    BY <1>2, <1>3, LimitAssumption DEF Offer, FreeCap, MinOf
  <1>5. s \in Nat /\ s <= Offer(g)
    BY <1>4, FittingType
  <1>6. Total(part23') = Total(part23) - part23[g] + s
    <2>1. part23 \in [GC -> Int] /\ s \in Int
      BY <1>2, <1>5
    <2>2. Total([part23 EXCEPT ![g] = s]) = Total(part23) - part23[g] + s
      BY <2>1, TotalExcept
    <2> QED  BY <1>1, <2>2
  <1>7. part23' \in [GC -> Nat] /\ \A h \in GC : part23'[h] <= MaxPart23Length
    BY <1>1, <1>2, <1>4, <1>5, LimitAssumption
  <1>8. Total(part23') <= Hi * 8
    BY <1>3, <1>4, <1>5, <1>6
  <1> QED  BY <1>2, <1>7, <1>8, CodingStep

LEMMA ScfsiStep == IInv /\ Scfsi => IInv'
  <1> SUFFICES ASSUME IInv, Scfsi PROVE IInv'
    OBVIOUS
  <1>1. /\ pc = "escalate" /\ pc' = "commit" /\ TypeOK /\ part23 \in [GC -> Nat]
        /\ UNCHANGED <<acc, occ, area, demand, budget, huffTarget, passes>>
        /\ Total(part23) <= Hi * 8 /\ \A h \in GC : part23[h] <= MaxPart23Length
        /\ \A g \in GC : part23'[g] \in Fitting(part23[g]) \/ part23'[g] = part23[g]
        /\ \E S : part23' \in [GC -> S]
    BY DEF Scfsi, IInv, TypeOK, KeptFit
  <1>2. \A g \in GC : /\ part23'[g] \in Nat /\ part23[g] \in Nat /\ part23'[g] <= part23[g]
                      /\ part23'[g] <= MaxPart23Length
    BY <1>1, FittingType, LimitAssumption
  <1>3. part23' \in [GC -> Nat]
    BY <1>1, <1>2
  <1>4. Total(part23') <= Hi * 8
    <2>1. Total(part23') \in Nat /\ Total(part23) \in Nat /\ Total(part23') <= Total(part23)
      BY <1>1, <1>2, <1>3, TotalType, TotalMonotone
    <2> QED  BY <1>1, <2>1, SpendFacts
  <1> QED  BY <1>1, <1>2, <1>3, <1>4, CodingStep

\* While the codings are open they fit the bytes of the frame and of its fields.
LEMMA CodedFits == IInv => CodingFits
  <1> SUFFICES ASSUME IInv, pc \in {"escalate", "commit"}
               PROVE  /\ Coded <= Hi /\ Coded <= HuffCap
                      /\ \A g \in GC : part23[g] <= MaxPart23Length
    BY DEF CodingFits
  <1>1. /\ TypeOK /\ part23 \in [GC -> Nat] /\ Total(part23) <= Hi * 8
        /\ \A g \in GC : part23[g] <= MaxPart23Length
    BY DEF IInv, TypeOK, KeptFit
  <1>2. Total(part23) \in Nat /\ Hi \in Nat
    BY <1>1, TotalType, SpendFacts
  <1>3. Total(part23) <= NGC * MaxPart23Length
    BY <1>1, TotalCapped, LimitAssumption
  <1>4. Total(part23) <= HuffCap * 8 /\ HuffCap \in Nat
    <2>1. NGC * MaxPart23Length \in Nat
      BY LimitAssumption
    <2> QED  BY <1>2, <1>3, <2>1, AreaFacts
  <1> QED  BY <1>1, <1>2, <1>4, InBytes DEF Coded

LEMMA CommitStep == IInv /\ Commit => IInv'
  <1> SUFFICES ASSUME IInv, Commit PROVE IInv'
    OBVIOUS
  <1>1. /\ pc = "commit" /\ pc' = "idle" /\ occ' = occ + area - MaxOf(Coded, Lo)
        /\ UNCHANGED <<acc, area, demand, budget, huffTarget, passes, part23>>
    BY DEF Commit
  <1>2. TypeOK /\ part23 \in [GC -> Nat] /\ Total(part23) <= Hi * 8
    BY <1>1 DEF IInv, TypeOK, KeptFit
  <1>3. Coded \in Nat /\ Coded <= Hi
    BY <1>2, TotalType, SpendFacts, InBytes DEF Coded
  <1>4. /\ occ \in Nat /\ area \in Nat /\ ResCapBytes \in Nat /\ Hi = occ + area
        /\ Lo \in Nat /\ Lo <= Hi /\ Hi - Lo <= ResCapBytes
    BY <1>2, SpendFacts DEF TypeOK, Hi, SpendHi
  <1>5. occ' \in 0..ResCapBytes
    BY <1>1, <1>3, <1>4 DEF MaxOf
  <1>6. TypeOK'
    BY <1>1, <1>2, <1>5 DEF TypeOK
  <1> QED
    BY <1>1, <1>6
    DEF IInv, PlanWithin, Redistributing, KeptFit, RedistributionConserves, BudgetsWithinSpend

LEMMA StutterStep == IInv /\ UNCHANGED vars => IInv'
  BY DEF vars, IInv, TypeOK, PlanWithin, Redistributing, KeptFit, RedistributionConserves,
     BudgetsWithinSpend, Over, Full, Total, Spend, Lo, Hi, SpendLo, SpendHi

(***************************************************************************)
(* Theorems.                                                               *)
(***************************************************************************)
\* The inductive invariant.
THEOREM Inductive == Spec => []IInv
  <1>1. IInv /\ [Next]_vars => IInv'
    BY PlanStep, RedistributeStep, RedistributedStep, TopUpStep, CodeStep, EscalateStep,
       ScfsiStep, CommitStep, StutterStep
    DEF Next
  <1> QED  BY InitIInv, <1>1, PTL DEF Spec

\* Types; above all, the occupancy stays between 0 and the cap (commitFrame's invariant).
THEOREM TypeCorrect == Spec => []TypeOK
  <1>1. IInv => TypeOK
    BY DEF IInv
  <1> QED  BY Inductive, <1>1, PTL

\* The redistribution loses nothing but what no field can hold, and takes at most one pass
\* per granule-channel (planFrame's convergence argument).
THEOREM Conserved == Spec => []RedistributionConserves
  <1>1. IInv => RedistributionConserves
    BY DEF IInv
  <1> QED  BY Inductive, <1>1, PTL

\* The granules' budgets never exceed a legal spend of the frame.
THEOREM LegalSpend == Spec => []BudgetsWithinSpend
  <1>1. IInv => BudgetsWithinSpend
    BY DEF IInv
  <1> QED  BY Inductive, <1>1, PTL

\* What escalation and scfsi leave fits the frame and its fields: the guarantee under which
\* FrameFIFO chooses the size of a frame's main data.
THEOREM CodingsFit == Spec => []CodingFits
  BY Inductive, CodedFits, PTL

-----------------------------------------------------------------------------
(***************************************************************************)
(* The length of a frame, by the four places that derive it from a header. *)
(***************************************************************************)
\* The seek's and the encoder's bitrates are the decoder's half rates in other units.
LEMMA RatesAgree1 ==
    ASSUME NEW b \in 1..14
    PROVE  /\ Halfrate1[1][b] \in 16..160
           /\ BitrateV1L3[b] = 2000 * Halfrate1[1][b]
           /\ BitrateKbpsTable[b] = 2 * Halfrate1[1][b]
  <1>1. Halfrate1[1] = <<16, 20, 24, 28, 32, 40, 48, 56, 64, 80, 96, 112, 128, 160>>
    BY DEF Halfrate1
  <1> QED  BY <1>1 DEF BitrateV1L3, BitrateKbpsTable

\* The same of MPEG-2 and MPEG-2.5.
LEMMA RatesAgree2 ==
    ASSUME NEW b \in 1..14
    PROVE  Halfrate2[1][b] \in 4..80 /\ BitrateV2L3[b] = 2000 * Halfrate2[1][b]
  <1>1. Halfrate2[1] = <<4, 8, 12, 16, 20, 24, 28, 32, 40, 48, 56, 64, 72, 80>>
    BY DEF Halfrate2
  <1> QED  BY <1>1 DEF BitrateV2L3

\* The quotient of either formula, for a half rate, at the sample rates of its versions.
HalfRates1 == 16..160
HalfRates2 == 4..80
Rates1 == {44100, 48000, 32000}
Rates2 == {22050, 24000, 16000, 11025, 12000, 8000}
Quotients1 == 96..1440
Quotients2 == 24..1440
Quotient1(x, r) == (144 * (2000 * x)) \div r
Quotient2(x, r) == (72 * (2000 * x)) \div r

\* The bytes of an MPEG-1 frame.
LEMMA Quotient1Bounds ==
    ASSUME NEW x \in HalfRates1, NEW r \in Rates1
    PROVE  Quotient1(x, r) \in Quotients1
  <1>1. CASE r = 44100  BY <1>1 DEF Quotient1, Quotients1, HalfRates1
  <1>2. CASE r = 48000  BY <1>2 DEF Quotient1, Quotients1, HalfRates1
  <1>3. CASE r = 32000  BY <1>3 DEF Quotient1, Quotients1, HalfRates1
  <1> QED  BY <1>1, <1>2, <1>3 DEF Rates1

\* And of MPEG-2 and MPEG-2.5.
LEMMA Quotient2Bounds ==
    ASSUME NEW x \in HalfRates2, NEW r \in Rates2
    PROVE  Quotient2(x, r) \in Quotients2
  <1>1. CASE r = 22050  BY <1>1 DEF Quotient2, Quotients2, HalfRates2
  <1>2. CASE r = 24000  BY <1>2 DEF Quotient2, Quotients2, HalfRates2
  <1>3. CASE r = 16000  BY <1>3 DEF Quotient2, Quotients2, HalfRates2
  <1>4. CASE r = 11025  BY <1>4 DEF Quotient2, Quotients2, HalfRates2
  <1>5. CASE r = 12000  BY <1>5 DEF Quotient2, Quotients2, HalfRates2
  <1>6. CASE r = 8000   BY <1>6 DEF Quotient2, Quotients2, HalfRates2
  <1> QED  BY <1>1, <1>2, <1>3, <1>4, <1>5, <1>6 DEF Rates2

\* The seek's table of sample rates holds the decoder's shifted rates.
LEMMA SampleRatesAgree ==
    ASSUME NEW h \in Header, h.version # 1, h.rate # 3
    PROVE  /\ SampleRates(h.version, h.rate) = SampleRateHz(h)
           /\ h.version = 3 => SampleRateHz(h) \in {44100, 48000, 32000}
           /\ h.version # 3 =>
                SampleRateHz(h) \in {22050, 24000, 16000, 11025, 12000, 8000}
  <1>1. h.version \in {0, 2, 3} /\ h.rate \in {0, 1, 2}
    BY DEF Header
  <1>2. CASE h.rate = 0
    BY <1>1, <1>2 DEF SampleRates, SampleRateHz, Hz, Mpeg1, NotMpeg25
  <1>3. CASE h.rate = 1
    BY <1>1, <1>3 DEF SampleRates, SampleRateHz, Hz, Mpeg1, NotMpeg25
  <1>4. CASE h.rate = 2
    BY <1>1, <1>4 DEF SampleRates, SampleRateHz, Hz, Mpeg1, NotMpeg25
  <1> QED  BY <1>1, <1>2, <1>3, <1>4

\* What the fields of a sizeable header are.
LEMMA SizeableFields ==
    ASSUME NEW h \in Header, Sizeable(h)
    PROVE  /\ h.version \in {0, 2, 3} /\ h.bitrate \in 1..14 /\ h.rate # 3
           /\ h.padding \in 0..1 /\ h.layer = 1
  BY DEF Header, Sizeable, FreeFormat, LayerIII

\* The decoder's size of a sizeable header is the seek's quotient, within the bounds.
LEMMA LengthIsFrameBytes ==
    ASSUME NEW h \in Header, Sizeable(h), NEW free \in Nat
    PROVE  /\ Length(h) = FrameBytes(h, free) + Padding(h)
           /\ Length(h) \in 24..1441
  <1>1. /\ h.version \in {0, 2, 3} /\ h.bitrate \in 1..14 /\ h.rate # 3
        /\ h.padding \in 0..1 /\ h.layer = 1
    BY SizeableFields
  <1>2. PICK p \in 0..1 : h.padding = p /\ Padding(h) = p
    BY <1>1 DEF Padding
  <1>3. CASE h.version = 3
    <2>1. PICK r \in Rates1 :
            SampleRateHz(h) = r /\ SampleRates(h.version, h.rate) = r
      BY <1>1, <1>3, SampleRatesAgree DEF Rates1
    <2>2. PICK x \in HalfRates1 :
            Halfrate1[1][h.bitrate] = x /\ BitrateV1L3[h.bitrate] = 2000 * x
      <3>1. /\ Halfrate1[1][h.bitrate] \in 16..160
            /\ BitrateV1L3[h.bitrate] = 2000 * Halfrate1[1][h.bitrate]
        BY <1>1, RatesAgree1
      <3> QED  BY <3>1 DEF HalfRates1
    <2>3. PICK q \in Quotients1 : q = Quotient1(x, r)
      BY Quotient1Bounds
    <2>4. Length(h) = p + q
      BY <1>2, <1>3, <2>1, <2>2, <2>3 DEF Length, Quotient1, Quotients1, HalfRates1, Rates1
    <2>5. FrameSamples(h) = 1152 /\ BitrateKbps(h) = 2 * x
      BY <1>1, <1>3, <2>2 DEF FrameSamples, BitrateKbps, Mpeg1, FreeFormat
    <2>6. 1152 * (2 * x) * 125 = 144 * (2000 * x)
      BY DEF HalfRates1
    <2>7. (FrameSamples(h) * BitrateKbps(h) * 125) \div SampleRateHz(h) = q
      BY <2>1, <2>3, <2>5, <2>6 DEF Quotient1, HalfRates1, Rates1
    <2>8. StatedBytes(h) = q /\ q # 0
      BY <1>1, <2>7 DEF StatedBytes, Quotients1
    <2>9. FrameBytes(h, free) = q
      BY <2>8 DEF FrameBytes
    <2>10. p + q = q + p /\ p + q \in 24..1441
      BY DEF Quotients1
    <2> QED  BY <1>2, <2>4, <2>9, <2>10
  <1>4. CASE h.version # 3
    <2>1. PICK r \in Rates2 :
            SampleRateHz(h) = r /\ SampleRates(h.version, h.rate) = r
      BY <1>1, <1>4, SampleRatesAgree DEF Rates2
    <2>2. PICK x \in HalfRates2 :
            Halfrate2[1][h.bitrate] = x /\ BitrateV2L3[h.bitrate] = 2000 * x
      <3>1. /\ Halfrate2[1][h.bitrate] \in 4..80
            /\ BitrateV2L3[h.bitrate] = 2000 * Halfrate2[1][h.bitrate]
        BY <1>1, RatesAgree2
      <3> QED  BY <3>1 DEF HalfRates2
    <2>3. PICK q \in Quotients2 : q = Quotient2(x, r)
      BY Quotient2Bounds
    <2>4. Length(h) = p + q
      BY <1>2, <1>4, <2>1, <2>2, <2>3 DEF Length, Quotient2, Quotients2, HalfRates2, Rates2
    <2>5. FrameSamples(h) = 576 /\ BitrateKbps(h) = 2 * x
      BY <1>1, <1>4, <2>2 DEF FrameSamples, BitrateKbps, Mpeg1, FreeFormat, LayerIII
    <2>6. 576 * (2 * x) * 125 = 72 * (2000 * x)
      BY DEF HalfRates2
    <2>7. (FrameSamples(h) * BitrateKbps(h) * 125) \div SampleRateHz(h) = q
      BY <2>1, <2>3, <2>5, <2>6 DEF Quotient2, HalfRates2, Rates2
    <2>8. StatedBytes(h) = q /\ q # 0
      BY <1>1, <2>7 DEF StatedBytes, Quotients2
    <2>9. FrameBytes(h, free) = q
      BY <2>8 DEF FrameBytes
    <2>10. p + q = q + p /\ p + q \in 24..1441
      BY DEF Quotients2
    <2> QED  BY <1>2, <2>4, <2>9, <2>10
  <1> QED  BY <1>3, <1>4

\* The seek's walk sizes exactly the Layer III headers the frame decoder accepts with a
\* stated bitrate, and gives each the size the decoder consumes: a walk and a decode of the
\* same frames stay on the same byte, so a seek never lands inside a frame.
THEOREM SizesAgree ==
    ASSUME NEW h \in Header, NEW free \in Nat
    PROVE  /\ SeekSizes(h) <=>
                HdrValid(h) /\ h.layer = LayerIII /\ h.bitrate # FreeFormat
           /\ SeekSizes(h) => Length(h) = FrameBytes(h, free) + Padding(h)
  <1>1. Sizeable(h) <=> HdrValid(h) /\ h.layer = LayerIII /\ h.bitrate # FreeFormat
    BY DEF Header, Sizeable, HdrValid, NotMpeg25, LayerIII, FreeFormat
  <1>2. Sizeable(h) => SeekSizes(h)
    BY LengthIsFrameBytes DEF SeekSizes
  <1>3. Sizeable(h) => Length(h) = FrameBytes(h, free) + Padding(h)
    BY LengthIsFrameBytes
  <1> QED  BY <1>1, <1>2, <1>3 DEF SeekSizes

\* The window the PCM decoder keeps for one frame (maxFrameBytes) holds any frame the walk
\* sizes together with the header of the next one, which the frame decoder compares with.
THEOREM FrameFitsWindow ==
    ASSUME NEW h \in Header, SeekSizes(h)
    PROVE  Length(h) + 4 <= MaxFrameBytes
  <1>1. Length(h) \in 24..1441
    BY LengthIsFrameBytes DEF SeekSizes
  <1> QED  BY <1>1 DEF MaxFrameBytes

\* A frame the encoder writes is sized by its own header: the decoder and the seek derive
\* from the header bytes exactly the length the encoder filled.
THEOREM EncoderSizesItsHeader ==
    ASSUME NEW b \in 1..14, NEW s \in 0..2, NEW p \in 0..1, NEW free \in Nat,
           NEW h, h = EncoderHeader(b, s, p)
    PROVE  /\ SeekSizes(h)
           /\ Length(h) = EncoderLength(b, s, p)
           /\ FrameBytes(h, free) + Padding(h) = EncoderLength(b, s, p)
  <1>1. h \in Header /\ Sizeable(h)
    BY DEF EncoderHeader, Header, Sizeable, LayerIII, FreeFormat
  <1>2. SeekSizes(h) /\ Length(h) = FrameBytes(h, free) + Padding(h)
    BY <1>1, LengthIsFrameBytes DEF SeekSizes
  <1>3. h.version = 3 /\ h.rate = s /\ h.bitrate = b /\ h.padding = p
    BY DEF EncoderHeader
  <1>4. PICK r \in Rates1 : SampleRates(3, s) = r /\ Hz(s) = r
    BY DEF SampleRates, Hz, Rates1
  <1>5. PICK x \in HalfRates1 : BitrateV1L3[b] = 2000 * x /\ BitrateKbpsTable[b] = 2 * x
    <2>1. /\ Halfrate1[1][b] \in 16..160 /\ BitrateV1L3[b] = 2000 * Halfrate1[1][b]
          /\ BitrateKbpsTable[b] = 2 * Halfrate1[1][b]
      BY RatesAgree1
    <2> QED  BY <2>1 DEF HalfRates1
  <1>6. PICK q \in Quotients1 : q = Quotient1(x, r)
    BY Quotient1Bounds
  <1>7. Length(h) = p + q
    BY <1>3, <1>4, <1>5, <1>6 DEF Length, Quotient1, Quotients1, HalfRates1, Rates1
  <1>8. 144000 * (2 * x) = 144 * (2000 * x)
    BY DEF HalfRates1
  <1>9. EncoderLength(b, s, p) = p + q
    BY <1>4, <1>5, <1>6, <1>8 DEF EncoderLength, Quotient1, Quotients1, HalfRates1, Rates1
  <1> QED  BY <1>2, <1>7, <1>9

\* The samples a tag's frame count is multiplied by are the samples the decoder returns per
\* frame, for every Layer III header: a tag's total never depends on which of the two rules
\* (by sample rate, by version) computed it.
THEOREM SamplesAgree ==
    ASSUME NEW h \in Header, HdrValid(h), h.layer = LayerIII
    PROVE  SamplesPerFrame(SampleRateHz(h)) = FrameSamples(h)
  <1>1. h.version \in {0, 2, 3} /\ h.rate # 3
    BY DEF Header, HdrValid, NotMpeg25
  <1>2. /\ h.version = 3 => SampleRateHz(h) \in {44100, 48000, 32000}
        /\ h.version # 3 =>
             SampleRateHz(h) \in {22050, 24000, 16000, 11025, 12000, 8000}
    BY <1>1, SampleRatesAgree
  <1> QED
    BY <1>1, <1>2 DEF SamplesPerFrame, FrameSamples, LayerIII, Mpeg1
=============================================================================
