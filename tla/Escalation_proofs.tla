--------------------------- MODULE Escalation_proofs ---------------------------
(***************************************************************************)
(* Proofs about the escalation, for every first pass, every outerLoop and  *)
(* every call limit: what is kept is the best of all that was computed,    *)
(* the kept codings fit the frame, the memo is exact, and a sweep that     *)
(* ends by itself leaves nothing to try.                                   *)
(***************************************************************************)
EXTENDS Escalation, FiniteSetTheorems, TLAPS

\* The kept codings never exceed the frame's capacity.
WithinCapacity == Total(gr) <= Capacity

\* A remembered coding fits the budget it was computed for.
EntriesFit == \A e \in coded : e.coding.bits <= e.budget

\* The memo cannot outgrow the calls.
MemoCounted == IsFiniteSet(memo) /\ Cardinality(memo) <= calls

\* The call limit is looked at before every attempt.
UnderLimit == (pc = "main" => i = 1) /\ (pc = "sweep" /\ i <= NGC => calls < limit)

\* The budgets of the last attempt have been computed.
TriedComputed ==
    \A g \in GC : tried[g] # NoPair =>
        Of(coded, g, tried[g].hi) # {} /\ Of(coded, g, tried[g].lo) # {}

\* A sweep that has changed nothing so far has found each granule-channel within its
\* thresholds or at the offer it was last tried at.
SettledAt(g) == best[g].over > 0 => tried[g] = Probes(Offer(g))

Swept ==
    /\ pc = "sweep" /\ ~changed => \A g \in GC : g < i => SettledAt(g)
    /\ pc = "done" /\ calls < limit => \A g \in GC : SettledAt(g)

IInv ==
    /\ TypeOK /\ WithinCapacity /\ EntriesFit /\ KeptIsBest
    /\ MemoExact /\ MemoCounted /\ UnderLimit /\ TriedComputed /\ Swept
-----------------------------------------------------------------------------
(***************************************************************************)
(* Codings, sums and offers.                                               *)
(***************************************************************************)
LEMMA ComputedCodings ==
    ASSUME NEW budget \in 0..MaxPart23Length, NEW c \in Codings(budget)
    PROVE  c \in CodingType /\ c.bits <= budget
  <1>1. PICK q \in Metrics, s \in Savings \cap 0..budget : c = Coding(q, budget - s)
    BY DEF Codings
  <1>2. budget - s \in 0..MaxPart23Length /\ budget - s <= budget
    BY EscalationAssumption
  <1> QED  BY <1>1, <1>2, EscalationAssumption DEF Coding, CodingType

LEMMA Indices == {1, 2} \subseteq GC /\ (NGC = 4 => {3, 4} \subseteq GC)
  BY EscalationAssumption DEF GC

LEMMA TotalType ==
    ASSUME NEW f \in [GC -> CodingType]
    PROVE  Total(f) \in Nat /\ \A g \in GC : f[g].bits \in 0..MaxPart23Length
  <1>1. \A g \in GC : f[g].bits \in 0..MaxPart23Length
    BY DEF CodingType
  <1> QED  BY <1>1, Indices, EscalationAssumption DEF Total

LEMMA TotalExcept ==
    ASSUME NEW f \in [GC -> CodingType], NEW g \in GC, NEW x \in CodingType
    PROVE  Total([f EXCEPT ![g] = x]) = Total(f) - f[g].bits + x.bits
  <1> DEFINE h == [f EXCEPT ![g] = x]
  <1>1. \A k \in GC : h[k].bits = IF k = g THEN x.bits ELSE f[k].bits
    OBVIOUS
  <1>2. x.bits \in Int /\ \A k \in GC : f[k].bits \in Int
    BY TotalType, EscalationAssumption DEF CodingType
  <1> HIDE DEF h
  <1>3. CASE NGC = 2
    <2>1. g \in {1, 2}
      BY <1>3 DEF GC
    <2> QED  BY <1>1, <1>2, <1>3, <2>1, Indices DEF Total
  <1>4. CASE NGC = 4
    <2>1. g \in {1, 2, 3, 4}
      BY <1>4 DEF GC
    <2> QED  BY <1>1, <1>2, <1>4, <2>1, Indices DEF Total
  <1>5. NGC = 2 \/ NGC = 4
    BY EscalationAssumption
  <1> QED  BY <1>3, <1>4, <1>5

LEMMA OfferFacts ==
    ASSUME TypeOK, WithinCapacity, NEW g \in GC
    PROVE  /\ Offer(g) \in 0..MaxPart23Length
           /\ Offer(g) <= gr[g].bits + (Capacity - Total(gr))
           /\ Probes(Offer(g)).hi = Offer(g)
           /\ Probes(Offer(g)).lo \in 0..Offer(g)
           /\ Probes(Offer(g)) \in [hi : -1..MaxPart23Length, lo : -1..MaxPart23Length]
           /\ Probes(Offer(g)) # NoPair
  <1>1. Total(gr) \in Nat /\ gr[g].bits \in 0..MaxPart23Length
    BY TotalType DEF TypeOK
  <1>2. /\ Offer(g) \in 0..MaxPart23Length
        /\ Offer(g) <= gr[g].bits + (Capacity - Total(gr))
    BY <1>1, EscalationAssumption DEF Offer, FreeCap, MinOf, WithinCapacity
  <1>3. MinOf(FlatShare, Offer(g)) \in 0..Offer(g)
    BY <1>2, EscalationAssumption DEF MinOf
  <1> HIDE DEF Offer
  <1>4. Probes(Offer(g)).hi = Offer(g) /\ Probes(Offer(g)).lo \in 0..Offer(g)
    BY <1>3 DEF Probes
  <1>5. Probes(Offer(g)) \in [hi : -1..MaxPart23Length, lo : -1..MaxPart23Length]
    BY <1>2, <1>3, EscalationAssumption DEF Probes
  <1>6. Probes(Offer(g)) # NoPair
    BY <1>2, <1>4 DEF NoPair
  <1> QED  BY <1>2, <1>4, <1>5, <1>6

(***************************************************************************)
(* escTryBudget keeps what is known sound.                                 *)
(***************************************************************************)
\* The codings that count for a granule-channel: the first pass and what was computed.
Seen(entries, g) == {first[g]} \cup {e.coding : e \in {f \in entries : f.g = g}}

Sound(s) ==
    /\ s.gr \in [GC -> CodingType] /\ s.best = s.gr
    /\ s.calls \in Nat /\ s.memo = s.coded /\ s.coded \subseteq EntryType
    /\ \A e \in s.coded : e.coding.bits <= e.budget
    /\ IsFiniteSet(s.coded) /\ Cardinality(s.coded) <= s.calls
    /\ \A g \in GC : /\ s.gr[g] \in Seen(s.coded, g)
                     /\ \A c \in Seen(s.coded, g) : ~Better(c, s.gr[g])

\* One more call for g within the budget, from s to t.
Advances(s, t, g, budget) ==
    /\ Sound(t) /\ t.calls = s.calls + 1
    /\ s.coded \subseteq t.coded /\ Of(t.coded, g, budget) # {}
    /\ \E x \in CodingType : /\ t.gr = [s.gr EXCEPT ![g] = x]
                             /\ x.bits <= budget \/ x = s.gr[g]

LEMMA TryStep ==
    ASSUME NEW s, Sound(s), first \in [GC -> CodingType], limit \in Nat, s.calls <= limit,
           NEW g \in GC, NEW budget \in 0..MaxPart23Length, NEW c \in Results(s, g, budget),
           NEW t, t = TryBudget(s, g, budget, c)
    PROVE  Advances(s, t, g, budget)
  <1> DEFINE e == Entry(g, budget, c)
             hit == Of(s.memo, g, budget) # {}
  <1>1. /\ s.gr \in [GC -> CodingType] /\ s.best = s.gr
        /\ s.calls \in Nat /\ s.memo = s.coded /\ s.coded \subseteq EntryType
        /\ \A f \in s.coded : f.coding.bits <= f.budget
        /\ IsFiniteSet(s.coded) /\ Cardinality(s.coded) \in Nat
        /\ Cardinality(s.coded) <= s.calls
    BY FS_CardinalityType DEF Sound
  <1>2. CASE hit
    <2>1. PICK f \in s.coded : f.g = g /\ f.budget = budget /\ f.coding = c
      BY <1>1, <1>2 DEF Results, Of
    <2>2. c \in Seen(s.coded, g)
      BY <2>1 DEF Seen
    <2>3. ~Better(c, s.gr[g])
      BY <2>2 DEF Sound
    <2>4. t.gr = s.gr /\ t.best = s.gr
      BY <1>1, <2>3 DEF TryBudget, Kept
    <2>5. t.calls = s.calls + 1 /\ t.memo = s.coded /\ t.coded = s.coded
      BY <1>1, <1>2 DEF TryBudget
    <2>6. Of(t.coded, g, budget) # {}
      BY <1>1, <1>2, <2>5
    <2>7. Sound(t)
      BY <1>1, <2>4, <2>5 DEF Sound
    <2>8. t.gr = [s.gr EXCEPT ![g] = s.gr[g]] /\ s.gr[g] \in CodingType
      BY <1>1, <2>4
    <2> QED  BY <2>5, <2>6, <2>7, <2>8 DEF Advances
  <1>3. CASE ~hit
    <2>1. c \in Codings(budget) /\ Of(s.coded, g, budget) = {}
      BY <1>1, <1>3 DEF Results
    <2>2. c \in CodingType /\ c.bits <= budget
      BY <2>1, ComputedCodings
    <2>3. Cardinality(s.memo) < EscMemoCap
      BY <1>1 DEF EscMemoCap
    <2>4. t.calls = s.calls + 1 /\ t.memo = s.coded \cup {e} /\ t.coded = s.coded \cup {e}
      BY <1>1, <1>3, <2>3 DEF TryBudget
    <2>5. /\ e \in EntryType /\ e.g = g /\ e.budget = budget /\ e.coding = c
      BY <2>2 DEF Entry, EntryType
    <2>6. Of(t.coded, g, budget) # {}
      BY <2>4, <2>5 DEF Of
    <2> DEFINE x == Kept(c, s.gr[g])
    <2>7. t.gr = [s.gr EXCEPT ![g] = x] /\ t.best = t.gr
      BY <1>1 DEF TryBudget, Kept
    <2>8. x \in CodingType /\ (x.bits <= budget \/ x = s.gr[g]) /\ x \in {c, s.gr[g]}
      BY <1>1, <2>2 DEF Kept
    <2>9. IsFiniteSet(t.coded) /\ Cardinality(t.coded) <= t.calls
      <3>1. Cardinality(s.coded \cup {e}) = IF e \in s.coded THEN Cardinality(s.coded)
                                            ELSE Cardinality(s.coded) + 1
        BY <1>1, FS_AddElement
      <3>2. IsFiniteSet(s.coded \cup {e})
        BY <1>1, FS_AddElement
      <3> HIDE DEF e
      <3> QED  BY <1>1, <2>4, <3>1, <3>2
    <2>10. ASSUME NEW h \in GC
           PROVE  /\ t.gr[h] \in Seen(t.coded, h)
                  /\ \A d \in Seen(t.coded, h) : ~Better(d, t.gr[h])
      <3>1. s.gr[h] \in Seen(s.coded, h) /\ \A d \in Seen(s.coded, h) : ~Better(d, s.gr[h])
        BY DEF Sound
      <3>2. Seen(t.coded, h) = IF h = g THEN Seen(s.coded, h) \cup {c} ELSE Seen(s.coded, h)
        BY <2>4, <2>5 DEF Seen
      <3>3. CASE h # g
        BY <1>1, <2>7, <3>1, <3>2, <3>3
      <3>4. CASE h = g
        <4>1. t.gr[h] = x
          BY <1>1, <2>7, <3>4
        <4>2. \A d \in Seen(s.coded, h) : d \in CodingType
          BY <1>1 DEF Seen, EntryType
        <4>3. CASE Better(c, s.gr[g])
          <5>1. x = c
            BY <4>3 DEF Kept
          <5>2. \A d \in Seen(s.coded, h) : ~Better(d, c)
            BY <1>1, <2>2, <3>1, <3>4, <4>2, <4>3 DEF Better, CodingType
          <5>3. ~Better(c, c)
            BY <2>2 DEF Better, CodingType
          <5> QED  BY <3>2, <3>4, <4>1, <5>1, <5>2, <5>3
        <4>4. CASE ~Better(c, s.gr[g])
          <5>1. x = s.gr[g]
            BY <4>4 DEF Kept
          <5> QED  BY <3>1, <3>2, <3>4, <4>1, <4>4, <5>1
        <4> QED  BY <4>3, <4>4
      <3> QED  BY <3>3, <3>4
    <2>11. Sound(t)
      <3>1. t.gr \in [GC -> CodingType] /\ t.calls \in Nat
        BY <1>1, <2>4, <2>7, <2>8
      <3>2. t.coded \subseteq EntryType /\ \A f \in t.coded : f.coding.bits <= f.budget
        <4> HIDE DEF e
        <4> QED  BY <1>1, <2>2, <2>4, <2>5
      <3> HIDE DEF e, x
      <3> QED  BY <2>4, <2>7, <2>9, <2>10, <3>1, <3>2 DEF Sound
    <2> QED  BY <2>4, <2>6, <2>7, <2>8, <2>11 DEF Advances
  <1> QED  BY <1>2, <1>3
(***************************************************************************)
(* An attempt: the offer, then the flat share.                             *)
(***************************************************************************)
LEMMA SoundState == IInv => Sound(State)
  <1> SUFFICES ASSUME IInv PROVE Sound(State)
    OBVIOUS
  <1>1. \A g \in GC : gr[g] = best[g]
    BY DEF IInv, KeptIsBest
  <1>2. best = gr
    BY <1>1 DEF IInv, TypeOK
  <1>3. \A g \in GC : gr[g] \in Seen(coded, g) /\ \A c \in Seen(coded, g) : ~Better(c, gr[g])
    BY DEF IInv, KeptIsBest, Seen
  <1> QED
    BY <1>2, <1>3 DEF State, Sound, IInv, TypeOK, MemoExact, MemoCounted, EntriesFit

Facts ==
    /\ KeptIsBest /\ EntriesFit /\ MemoCounted /\ memo = coded
    /\ gr \in [GC -> CodingType] /\ best \in [GC -> CodingType]
    /\ calls \in Nat /\ memo \subseteq EntryType /\ coded \subseteq EntryType

LEMMA StateSound == Sound(State) => Facts
  <1> SUFFICES ASSUME Sound(State) PROVE Facts
    OBVIOUS
  <1>1. /\ gr \in [GC -> CodingType] /\ best = gr
        /\ calls \in Nat /\ memo = coded /\ coded \subseteq EntryType
        /\ \A e \in coded : e.coding.bits <= e.budget
        /\ IsFiniteSet(coded) /\ Cardinality(coded) <= calls
    BY DEF Sound, State
  <1>2. \A g \in GC : gr[g] \in Seen(coded, g) /\ \A c \in Seen(coded, g) : ~Better(c, gr[g])
    BY DEF Sound, State
  <1>3. KeptIsBest
    BY <1>1, <1>2 DEF KeptIsBest, Seen
  <1> QED  BY <1>1, <1>3 DEF Facts, EntriesFit, MemoCounted

\* What an attempt leaves: everything known still sound, the frame within its capacity,
\* and both budgets of the pair computed.
LEMMA AttemptStep ==
    ASSUME IInv, UNCHANGED <<limit, first>>, NEW g \in GC, calls < limit,
           Attempt(g, Probes(Offer(g)))
    PROVE  /\ Sound(State)' /\ WithinCapacity'
           /\ calls' \in {calls + 1, calls + 2} /\ coded \subseteq coded'
           /\ Of(coded', g, Probes(Offer(g)).hi) # {}
           /\ Of(coded', g, Probes(Offer(g)).lo) # {}
  <1> DEFINE hi == Offer(g)
             lo == Probes(hi).lo
  <1>1. TypeOK /\ WithinCapacity /\ Sound(State) /\ limit \in Nat /\ calls \in Nat
    BY SoundState, EscalationAssumption DEF IInv, TypeOK
  <1>2. /\ hi \in 0..MaxPart23Length /\ hi <= gr[g].bits + (Capacity - Total(gr))
        /\ Probes(hi).hi = hi /\ lo \in 0..hi /\ lo \in 0..MaxPart23Length
    BY <1>1, OfferFacts, EscalationAssumption
  <1>3. State.calls = calls /\ State.gr = gr /\ State.coded = coded
    BY DEF State
  <1>4. first \in [GC -> CodingType] /\ gr \in [GC -> CodingType]
    BY <1>1 DEF TypeOK
  <1> HIDE DEF hi, lo
  <1>5. PICK c, s :
           /\ c \in Results(State, g, hi)
           /\ s = TryBudget(State, g, hi, c)
           /\ IF lo = hi THEN Becomes(s)
              ELSE \E d \in Results(s, g, lo) : Becomes(TryBudget(s, g, lo, d))
    BY <1>2 DEF Attempt, hi, lo
  <1>6. /\ Sound(s) /\ s.calls = calls + 1 /\ coded \subseteq s.coded
        /\ Of(s.coded, g, hi) # {}
        /\ \E x \in CodingType : /\ s.gr = [gr EXCEPT ![g] = x]
                                 /\ x.bits <= hi \/ x = gr[g]
    <2>1. State.calls <= limit
      BY <1>1, <1>3
    <2>2. Advances(State, s, g, hi)
      BY <1>1, <1>2, <1>4, <1>5, <2>1, TryStep
    <2> QED  BY <1>3, <2>2 DEF Advances
  <1>7. PICK x \in CodingType : s.gr = [gr EXCEPT ![g] = x] /\ (x.bits <= hi \/ x = gr[g])
    BY <1>6
  \* Whatever replaces the coding of g, within the offer, fits.
  <1>8. ASSUME NEW y \in CodingType, y.bits <= hi \/ y = gr[g]
        PROVE  Total([gr EXCEPT ![g] = y]) <= Capacity
    <2>1. Total([gr EXCEPT ![g] = y]) = Total(gr) - gr[g].bits + y.bits
      BY <1>4, TotalExcept
    <2>2. Total(gr) \in Nat /\ gr[g].bits \in Nat /\ y.bits \in Nat /\ Total(gr) <= Capacity
      BY <1>1, <1>4, TotalType, EscalationAssumption DEF WithinCapacity, CodingType
    <2> QED  BY <1>2, <1>8, <2>1, <2>2, EscalationAssumption
  <1>9. CASE lo = hi
    <2>1. Becomes(s)
      BY <1>5, <1>9
    <2>2. gr' = s.gr /\ best' = s.best /\ calls' = s.calls /\ memo' = s.memo /\ coded' = s.coded
      BY <2>1 DEF Becomes
    <2>3. Sound(State)'
      BY <1>6, <2>2 DEF Sound, State, Seen
    <2>4. WithinCapacity'
      BY <1>7, <1>8, <2>2 DEF WithinCapacity, Total
    <2> QED  BY <1>2, <1>6, <1>9, <2>2, <2>3, <2>4 DEF hi, lo
  <1>10. CASE lo # hi
    <2>1. PICK d, t : /\ d \in Results(s, g, lo) /\ t = TryBudget(s, g, lo, d)
                    /\ Becomes(t)
      BY <1>5, <1>10
    <2>2. s.calls <= limit
      BY <1>1, <1>6
    <2>3. Advances(s, t, g, lo)
      BY <1>1, <1>2, <1>4, <1>6, <2>1, <2>2, TryStep
    <2>4. PICK y \in CodingType : t.gr = [s.gr EXCEPT ![g] = y] /\ (y.bits <= lo \/ y = s.gr[g])
      BY <2>3 DEF Advances
    <2>5. t.gr = [gr EXCEPT ![g] = y] /\ (y.bits <= hi \/ y = gr[g])
      <3>1. s.gr[g] = x /\ [s.gr EXCEPT ![g] = y] = [gr EXCEPT ![g] = y]
        BY <1>4, <1>7
      <3>2. y.bits <= lo => y.bits <= hi
        BY <1>2, EscalationAssumption DEF CodingType
      <3> QED  BY <1>7, <2>4, <3>1, <3>2
    <2>6. gr' = t.gr /\ best' = t.best /\ calls' = t.calls /\ memo' = t.memo /\ coded' = t.coded
      BY <2>1 DEF Becomes
    <2>7. Sound(State)'
      BY <2>3, <2>6 DEF Advances, Sound, State, Seen
    <2>8. WithinCapacity'
      BY <1>8, <2>5, <2>6 DEF WithinCapacity, Total
    <2>9. Of(coded', g, hi) # {}
      BY <1>6, <2>3, <2>6 DEF Advances, Of
    <2>10. calls' = calls + 2
      BY <1>1, <1>6, <2>3, <2>6 DEF Advances
    <2> QED  BY <1>2, <1>6, <2>3, <2>6, <2>7, <2>8, <2>9, <2>10 DEF Advances, hi, lo
  <1> QED  BY <1>9, <1>10
(***************************************************************************)
(* The invariant, step by step.                                            *)
(***************************************************************************)
LEMMA FirstPassSound ==
    ASSUME NEW f \in FirstPasses
    PROVE  f \in [GC -> CodingType] /\ Total(f) <= Capacity
  BY EscalationAssumption DEF FirstPasses, Coding, CodingType

LEMMA NothingTried ==
    /\ [g \in GC |-> NoPair] \in [GC -> [hi : -1..MaxPart23Length, lo : -1..MaxPart23Length]]
    /\ 1 \in 1..NGC + 1
  <1>1. -1 \in -1..MaxPart23Length /\ 1 \in 1..NGC + 1
    BY EscalationAssumption
  <1>2. NoPair \in [hi : -1..MaxPart23Length, lo : -1..MaxPart23Length]
    BY <1>1 DEF NoPair
  <1> QED  BY <1>1, <1>2

LEMMA InitIInv == Init => IInv
  <1> SUFFICES ASSUME Init PROVE IInv
    OBVIOUS
  <1>1. first \in [GC -> CodingType] /\ Total(gr) <= Capacity
    BY FirstPassSound DEF Init
  <1>2. TypeOK
    <2>1. gr \in [GC -> CodingType] /\ best \in [GC -> CodingType] /\ first \in [GC -> CodingType]
      BY <1>1 DEF Init
    <2>2. tried \in [GC -> [hi : -1..MaxPart23Length, lo : -1..MaxPart23Length]] /\ i \in 1..NGC + 1
      BY NothingTried DEF Init
    <2> QED  BY <2>1, <2>2 DEF Init, TypeOK
  <1>3. KeptIsBest
    BY <1>1 DEF Init, KeptIsBest, Better, CodingType
  <1>4. MemoExact /\ MemoCounted
    BY <1>2, FS_EmptySet, EscalationAssumption DEF Init, TypeOK, MemoExact, MemoCounted
  <1> QED
    BY <1>1, <1>2, <1>3, <1>4 DEF IInv, Init, WithinCapacity, EntriesFit, UnderLimit,
         TriedComputed, Swept

LEMMA NextFrameStep == IInv /\ NextFrame => IInv'
  <1> SUFFICES ASSUME IInv, NextFrame PROVE IInv'
    OBVIOUS
  <1>1. first' \in [GC -> CodingType] /\ Total(gr') <= Capacity
    BY FirstPassSound DEF NextFrame
  <1>2. TypeOK'
    <2>1. gr' \in [GC -> CodingType] /\ best' \in [GC -> CodingType] /\ first' \in [GC -> CodingType]
      BY <1>1 DEF NextFrame
    <2>2. tried' \in [GC -> [hi : -1..MaxPart23Length, lo : -1..MaxPart23Length]] /\ i' \in 1..NGC + 1
      BY NothingTried DEF NextFrame
    <2>3. limit' \in CallLimits
      BY DEF NextFrame, IInv, TypeOK
    <2> QED  BY <2>1, <2>2, <2>3 DEF NextFrame, ClearMemo, TypeOK
  <1>3. KeptIsBest'
    BY <1>1 DEF NextFrame, KeptIsBest, Better, CodingType
  <1>4. MemoExact' /\ MemoCounted'
    BY <1>2, FS_EmptySet, EscalationAssumption DEF NextFrame, ClearMemo, TypeOK, MemoExact,
         MemoCounted
  <1>5. WithinCapacity'
    BY <1>1 DEF WithinCapacity, Total
  <1> QED
    BY <1>1, <1>2, <1>3, <1>4, <1>5 DEF IInv, NextFrame, EntriesFit, UnderLimit,
         TriedComputed, Swept

\* A step that leaves codings, caches and attempts alone.
LEMMA NothingComputed ==
    ASSUME IInv, UNCHANGED <<limit, gr, best, tried, calls, memo, first, coded>>,
           parked' \subseteq GC
    PROVE  /\ WithinCapacity' /\ EntriesFit' /\ KeptIsBest' /\ MemoExact' /\ MemoCounted'
           /\ TriedComputed'
           /\ \A g \in GC : SettledAt(g) => SettledAt(g)'
           /\ pc' \in {"main", "sweep", "done"} /\ i' \in 1..NGC + 1 /\ changed' \in BOOLEAN
                => TypeOK'
  <1>1. WithinCapacity' /\ EntriesFit' /\ KeptIsBest' /\ MemoExact' /\ MemoCounted'
    BY DEF IInv, WithinCapacity, Total, EntriesFit, KeptIsBest, MemoExact, MemoCounted
  <1>2. TriedComputed' /\ \A g \in GC : SettledAt(g) => SettledAt(g)'
    BY DEF IInv, TriedComputed, Of, SettledAt, Probes, Offer, FreeCap, Total
  <1>3. pc' \in {"main", "sweep", "done"} /\ i' \in 1..NGC + 1 /\ changed' \in BOOLEAN => TypeOK'
    BY DEF IInv, TypeOK
  <1> QED  BY <1>1, <1>2, <1>3

\* What an attempt does to the invariant, whatever it does to the loops' own variables.
LEMMA AttemptInv ==
    ASSUME IInv, UNCHANGED <<limit, first>>, parked' \subseteq GC,
           NEW g \in GC, calls < limit, Attempt(g, Probes(Offer(g)))
    PROVE  /\ WithinCapacity' /\ EntriesFit' /\ KeptIsBest' /\ MemoExact' /\ MemoCounted'
           /\ TriedComputed' /\ calls' > calls /\ calls' \in Nat
           /\ pc' \in {"main", "sweep", "done"} /\ i' \in 1..NGC + 1 /\ changed' \in BOOLEAN
                => TypeOK'
  <1>1. /\ Sound(State)' /\ WithinCapacity'
        /\ calls' \in {calls + 1, calls + 2} /\ coded \subseteq coded'
        /\ Of(coded', g, Probes(Offer(g)).hi) # {}
        /\ Of(coded', g, Probes(Offer(g)).lo) # {}
    BY AttemptStep
  <1>2. /\ KeptIsBest' /\ EntriesFit' /\ MemoCounted' /\ memo' = coded'
        /\ gr' \in [GC -> CodingType] /\ best' \in [GC -> CodingType]
        /\ calls' \in Nat /\ memo' \subseteq EntryType /\ coded' \subseteq EntryType
    <2>1. Sound(State)' => Facts'
      BY StateSound, PTL
    <2>2. Facts'
      BY <1>1, <2>1
    <2>3. (gr \in [GC -> CodingType])' /\ (best \in [GC -> CodingType])'
      BY <2>2 DEF Facts
    <2> QED  BY <2>2, <2>3 DEF Facts
  <1>3. TypeOK /\ WithinCapacity /\ TriedComputed /\ calls \in Nat /\ limit \in Nat
    BY EscalationAssumption DEF IInv, TypeOK
  <1>4. MemoExact'
    BY <1>1, <1>2, <1>3 DEF MemoExact
  <1>5. /\ tried' = [tried EXCEPT ![g] = Probes(Offer(g))]
        /\ tried \in [GC -> [hi : -1..MaxPart23Length, lo : -1..MaxPart23Length]]
        /\ Probes(Offer(g)) \in [hi : -1..MaxPart23Length, lo : -1..MaxPart23Length]
    BY <1>3, OfferFacts DEF Attempt, TypeOK
  <1>6. TriedComputed'
    <2> SUFFICES ASSUME NEW h \in GC, tried'[h] # NoPair
                 PROVE  Of(coded', h, tried'[h].hi) # {} /\ Of(coded', h, tried'[h].lo) # {}
      BY DEF TriedComputed
    <2>1. CASE h = g
      BY <1>1, <1>5, <2>1
    <2>2. CASE h # g
      <3>1. tried'[h] = tried[h]
        BY <1>5, <2>2
      <3>2. Of(coded, h, tried[h].hi) # {} /\ Of(coded, h, tried[h].lo) # {}
        BY <1>3, <3>1 DEF TriedComputed
      <3> QED  BY <1>1, <3>1, <3>2 DEF Of
    <2> QED  BY <2>1, <2>2
  <1>7. pc' \in {"main", "sweep", "done"} /\ i' \in 1..NGC + 1 /\ changed' \in BOOLEAN => TypeOK'
    <2>1. tried' \in [GC -> [hi : -1..MaxPart23Length, lo : -1..MaxPart23Length]]
      BY <1>5
    <2> QED  BY <1>2, <1>3, <2>1 DEF TypeOK
  <1> QED  BY <1>1, <1>2, <1>3, <1>4, <1>6, <1>7

LEMMA MainStepInv == IInv /\ MainStep => IInv'
  <1> SUFFICES ASSUME IInv, MainStep PROVE IInv'
    OBVIOUS
  <1>1. /\ pc = "main" /\ calls < limit /\ UNCHANGED <<limit, pc, i, changed, first>>
        /\ i = 1 /\ TypeOK
    BY DEF MainStep, MoreToDo, IInv, UnderLimit
  <1>2. PICK g \in GC : ParkFull(g) \/ Grant(g)
    BY DEF MainStep, Neediest, Needy
  <1>3. /\ pc' \in {"main", "sweep", "done"} /\ i' \in 1..NGC + 1 /\ changed' \in BOOLEAN
        /\ UnderLimit' /\ Swept'
    BY <1>1 DEF TypeOK, UnderLimit, Swept
  <1>4. CASE ParkFull(g)
    <2>1. UNCHANGED <<gr, best, tried, calls, memo, coded>> /\ parked' \subseteq GC
      BY <1>1, <1>4 DEF ParkFull, Park, TypeOK
    <2> QED  BY <1>1, <1>3, <2>1, NothingComputed DEF IInv
  <1>5. CASE Grant(g)
    <2>1. Attempt(g, Probes(Offer(g))) /\ parked' \subseteq GC
      BY <1>1, <1>5 DEF Grant, TypeOK
    <2> QED  BY <1>1, <1>3, <2>1, AttemptInv DEF IInv
  <1> QED  BY <1>2, <1>4, <1>5

LEMMA MainDoneInv == IInv /\ MainDone => IInv'
  <1> SUFFICES ASSUME IInv, MainDone PROVE IInv'
    OBVIOUS
  <1>1. /\ pc = "main" /\ i = 1 /\ TypeOK /\ calls \in Nat /\ limit \in Nat
        /\ UNCHANGED <<limit, gr, best, parked, tried, calls, memo, i, changed, first, coded>>
        /\ pc' = IF calls < limit THEN "sweep" ELSE "done"
    BY EscalationAssumption DEF MainDone, IInv, UnderLimit, TypeOK
  <1>2. UnderLimit' /\ Swept'
    BY <1>1 DEF UnderLimit, Swept, GC
  <1>3. parked' \subseteq GC /\ i' \in 1..NGC + 1 /\ changed' \in BOOLEAN
        /\ pc' \in {"main", "sweep", "done"}
    BY <1>1 DEF TypeOK
  <1> QED  BY <1>1, <1>2, <1>3, NothingComputed DEF IInv

LEMMA SweepStepInv == IInv /\ SweepStep => IInv'
  <1> SUFFICES ASSUME IInv, SweepStep PROVE IInv'
    OBVIOUS
  <1>1. /\ pc = "sweep" /\ i <= NGC /\ UNCHANGED <<limit, parked, pc, first>>
        /\ TypeOK /\ calls < limit /\ i \in GC /\ parked' \subseteq GC
    <2>1. pc = "sweep" /\ i <= NGC /\ UNCHANGED <<limit, parked, pc, first>> /\ TypeOK
      BY DEF SweepStep, IInv
    <2>2. calls < limit
      BY <2>1 DEF IInv, UnderLimit
    <2>3. NGC \in Nat /\ i \in 1..NGC + 1 /\ parked \subseteq GC
      BY <2>1, EscalationAssumption DEF TypeOK
    <2>4. i \in GC
      BY <2>1, <2>3 DEF GC
    <2> QED  BY <2>1, <2>2, <2>3, <2>4
  <1>2. calls \in Nat /\ limit \in Nat /\ NGC \in Nat /\ i \in Nat
    BY <1>1, EscalationAssumption DEF TypeOK, GC
  <1>3. CASE Due(i)
    <2>1. /\ Attempt(i, Probes(Offer(i))) /\ changed' = TRUE /\ i' = NextIndex(calls')
      BY <1>3 DEF SweepStep
    <2>2. /\ WithinCapacity' /\ EntriesFit' /\ KeptIsBest' /\ MemoExact' /\ MemoCounted'
          /\ TriedComputed' /\ calls' > calls /\ calls' \in Nat
          /\ pc' \in {"main", "sweep", "done"} /\ i' \in 1..NGC + 1 /\ changed' \in BOOLEAN
                => TypeOK'
      BY <1>1, <2>1, AttemptInv
    <2>3. i' \in 1..NGC + 1 /\ (i' <= NGC => calls' < limit')
      BY <1>1, <1>2, <2>1, <2>2 DEF NextIndex
    <2>4. UnderLimit' /\ Swept'
      BY <1>1, <2>1, <2>3 DEF UnderLimit, Swept
    <2> QED  BY <1>1, <2>1, <2>2, <2>3, <2>4 DEF IInv
  <1>4. CASE ~Due(i)
    <2>1. i' = i + 1 /\ UNCHANGED <<gr, best, tried, calls, memo, changed, coded>>
      BY <1>4 DEF SweepStep
    <2>2. i' \in 1..NGC + 1
      BY <1>1, <1>2, <2>1
    <2>3. \A g \in GC : SettledAt(g) => SettledAt(g)'
      BY <1>1, <2>1, NothingComputed
    <2>4. SettledAt(i)
      BY <1>4 DEF Due, SettledAt
    <2>5. \A g \in GC : g < i' => g < i \/ g = i
      BY <1>2, <2>1 DEF GC
    <2>6. Swept'
      <3>1. ~changed => \A g \in GC : g < i => SettledAt(g)
        BY <1>1 DEF IInv, Swept
      <3> QED  BY <1>1, <2>1, <2>3, <2>4, <2>5, <3>1 DEF Swept
    <2>7. UnderLimit'
      BY <1>1, <2>1 DEF UnderLimit
    <2>8. changed' \in BOOLEAN /\ pc' \in {"main", "sweep", "done"}
      BY <1>1, <2>1 DEF TypeOK
    <2> QED  BY <1>1, <2>1, <2>2, <2>6, <2>7, <2>8, NothingComputed DEF IInv
  <1> QED  BY <1>3, <1>4

LEMMA SweepEndInv == IInv /\ SweepEnd => IInv'
  <1> SUFFICES ASSUME IInv, SweepEnd PROVE IInv'
    OBVIOUS
  <1>1. /\ pc = "sweep" /\ i > NGC /\ TypeOK /\ i \in 1..NGC + 1
        /\ UNCHANGED <<limit, gr, best, parked, tried, calls, memo, first, coded>>
    BY DEF SweepEnd, IInv, TypeOK
  <1>2. calls \in Nat /\ limit \in Nat /\ NGC \in Nat \ {0} /\ parked' \subseteq GC
    BY <1>1, EscalationAssumption DEF TypeOK
  <1>3. \A g \in GC : SettledAt(g) => SettledAt(g)'
    BY <1>1, <1>2, NothingComputed
  <1>4. CASE changed /\ calls < limit
    <2>1. i' = 1 /\ changed' = FALSE /\ pc' = pc
      BY <1>4 DEF SweepEnd
    <2>2. UnderLimit' /\ Swept'
      BY <1>1, <1>4, <2>1 DEF UnderLimit, Swept, GC
    <2>3. i' \in 1..NGC + 1
      BY <1>2, <2>1
    <2>4. changed' \in BOOLEAN /\ pc' \in {"main", "sweep", "done"}
      BY <1>1, <2>1
    <2> QED  BY <1>1, <1>2, <2>2, <2>3, <2>4, NothingComputed DEF IInv
  <1>5. CASE ~(changed /\ calls < limit)
    <2>1. pc' = "done" /\ UNCHANGED <<i, changed>>
      BY <1>5 DEF SweepEnd
    <2>2. ~changed => \A g \in GC : SettledAt(g)
      <3>1. \A g \in GC : g < i
        BY <1>1, <1>2 DEF GC
      <3> QED  BY <1>1, <3>1 DEF IInv, Swept
    <2>3. UnderLimit' /\ Swept'
      BY <1>1, <1>3, <1>5, <2>1, <2>2 DEF UnderLimit, Swept
    <2>4. i' \in 1..NGC + 1 /\ changed' \in BOOLEAN /\ pc' \in {"main", "sweep", "done"}
      BY <1>1, <2>1 DEF TypeOK
    <2> QED  BY <1>1, <1>2, <2>3, <2>4, NothingComputed DEF IInv
  <1> QED  BY <1>4, <1>5

LEMMA StutterInv == IInv /\ UNCHANGED vars => IInv'
  <1> SUFFICES ASSUME IInv, UNCHANGED vars PROVE IInv'
    OBVIOUS
  <1>1. /\ UNCHANGED <<limit, gr, best, tried, calls, memo, first, coded>>
        /\ UNCHANGED <<parked, pc, i, changed>> /\ parked' \subseteq GC
    BY DEF vars, IInv, TypeOK
  <1>2. pc' \in {"main", "sweep", "done"} /\ i' \in 1..NGC + 1 /\ changed' \in BOOLEAN
    BY <1>1 DEF IInv, TypeOK
  <1>3. /\ WithinCapacity' /\ EntriesFit' /\ KeptIsBest' /\ MemoExact' /\ MemoCounted'
        /\ TriedComputed' /\ TypeOK' /\ \A g \in GC : SettledAt(g) => SettledAt(g)'
    BY <1>1, <1>2, NothingComputed
  <1>4. UnderLimit' /\ Swept'
    BY <1>1, <1>3 DEF IInv, UnderLimit, Swept
  <1> QED  BY <1>3, <1>4 DEF IInv

(***************************************************************************)
(* Theorems.                                                               *)
(***************************************************************************)
\* The inductive invariant.
THEOREM Inductive == Spec => []IInv
  <1>1. IInv /\ [Next]_vars => IInv'
    BY MainStepInv, MainDoneInv, SweepStepInv, SweepEndInv, NextFrameStep, StutterInv
      DEF Next, Step
  <1> QED  BY InitIInv, <1>1, PTL DEF Spec

\* Types, the ranges of budgets and indices included.
THEOREM TypeCorrect == Spec => []TypeOK
  <1>1. IInv => TypeOK
    BY DEF IInv
  <1> QED  BY Inductive, <1>1, PTL

\* No attempt leaves a granule-channel's masking worse than any coding computed for it in
\* this frame, the first pass included (the hard guarantee of escalateForMasking).
THEOREM BestKept == Spec => []KeptIsBest
  <1>1. IInv => KeptIsBest
    BY DEF IInv
  <1> QED  BY Inductive, <1>1, PTL

\* The memo is what was computed in this frame, whatever the call limit.
THEOREM MemoIsExact == Spec => []MemoExact
  <1>1. IInv => MemoExact
    BY DEF IInv
  <1> QED  BY Inductive, <1>1, PTL

\* The kept codings always fit the frame: capacity moves between granule-channels by
\* attempts only, and none is offered more than is free.
THEOREM CapacityKept == Spec => []WithinCapacity
  <1>1. IInv => WithinCapacity
    BY DEF IInv
  <1> QED  BY Inductive, <1>1, PTL

\* A sweep that ends below the call limit has coded every granule-channel that is still
\* over its thresholds at exactly the budgets it could be offered.
THEOREM Fixpoint == Spec => []NothingLeftToTry
  <1>1. IInv => NothingLeftToTry
    <2> SUFFICES ASSUME IInv, pc = "done", calls < limit, NEW g \in GC, best[g].over > 0
                 PROVE  /\ Of(coded, g, Probes(Offer(g)).hi) # {}
                        /\ Of(coded, g, Probes(Offer(g)).lo) # {}
      BY DEF NothingLeftToTry
    <2>1. tried[g] = Probes(Offer(g))
      BY DEF IInv, Swept, SettledAt
    <2>2. tried[g] # NoPair
      BY <2>1, OfferFacts DEF IInv
    <2> QED  BY <2>1, <2>2 DEF IInv, TriedComputed
  <1> QED  BY Inductive, <1>1, PTL
=============================================================================
