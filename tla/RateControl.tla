----------------------------- MODULE RateControl -----------------------------
(***************************************************************************)
(* The bit budget of a frame, from the granules' perceptual entropy to the *)
(* bytes the frame spends (reservoir.planFrame, and the middle of          *)
(* codeFrame: top-up, the coding pass, escalation, commit).                *)
(*                                                                         *)
(* A granule-channel's coding is its part_2_3_length alone.  The rate loop *)
(* is any size within its budget (codeGranule truncates until it fits);    *)
(* escalation is any re-coding within the offer escOffer makes, module     *)
(* Escalation models the algorithm that chooses among them.                *)
(***************************************************************************)
EXTENDS Reservoir, FiniteSets

CONSTANTS
    PEs,          \* perceptual entropies the psychoacoustic model reports
    CodedSizes    \* sizes a rate loop settles on, besides its whole budget

ASSUME CodingAssumption == PEs \subseteq Int /\ CodedSizes \subseteq Nat

VARIABLES
    acc, occ,
    pc,
    area,
    demand,       \* [1..NGC -> bits] granuleDemandBits
    budget,       \* [1..NGC -> bits]
    huffTarget,   \* bytes the demands ask for
    passes,       \* history: redistribution passes of this frame, at most NGC + 1
    part23        \* [1..NGC -> bits] the kept codings

vars == <<acc, occ, pc, area, demand, budget, huffTarget, passes, part23>>

GC == 1..NGC
Total(f) == f[1] + f[2] + (IF NGC = 4 THEN f[3] + f[4] ELSE 0)
Zeros == [g \in GC |-> 0]

Lo == SpendLo(occ, area)
Hi == SpendHi(occ, area)
Spend == MaxOf(huffTarget, Lo)

Init ==
    /\ acc = 0 /\ occ = 0 /\ pc = "idle" /\ area = MainAreaBytes(0)
    /\ demand = Zeros /\ budget = Zeros /\ huffTarget = 0 /\ passes = 0
    /\ part23 = Zeros

(***************************************************************************)
(* granuleDemandBits: half to twice the mean share, within the field.      *)
(***************************************************************************)
DemandBits(pe, meanGB) ==
    MaxOf(meanGB \div 2, MinOf(MaxOf(pe, 0), MinOf(MaxPart23Length, 2 * meanGB)))

(***************************************************************************)
(* planFrame's target and its proportional split, remainder to the last.   *)
(***************************************************************************)
Split(bits, d) ==
    LET share == [g \in GC |-> (bits * d[g]) \div Total(d)]
    IN  IF Total(d) = 0 THEN Zeros
        ELSE [share EXCEPT ![NGC] = @ + bits - Total(share)]

Plan(pe) ==
    LET a == MainAreaBytes(PaddingBit(acc))
        d == [g \in GC |-> DemandBits(pe[g], (a * 8) \div NGC)]
        target == MinOf((Total(d) + 7) \div 8, MinOf(occ + a, HuffCap))
    IN  /\ pc = "idle"
        /\ acc' = PaddingNext(acc)
        /\ area' = a /\ demand' = d /\ huffTarget' = target
        /\ budget' = Split(target * 8, d)
        /\ passes' = 0 /\ part23' = Zeros
        /\ pc' = "redistribute"
        /\ UNCHANGED occ

\* One pass of the cap-redistribution loop.
Over == {g \in GC : budget[g] > MaxPart23Length}

\* Mutants: violators keep their excess; the remainder of the pool is lost.
NotClamped == budget
EqualShares(pool, open) == [g \in GC |-> IF g \in open THEN pool \div Cardinality(open) ELSE 0]

Clamped == [g \in GC |-> MinOf(budget[g], MaxPart23Length)]

LastOf(open) == CHOOSE g \in open : \A h \in open : h <= g

\* The pool split over the granule-channels below the cap, remainder to the last.
Handout(pool, open) ==
    LET share == pool \div Cardinality(open)
    IN  [g \in GC |-> (IF g \in open THEN share ELSE 0)
                    + (IF g = LastOf(open) THEN pool - Cardinality(open) * share ELSE 0)]

Redistribute ==
    LET pool == Total(budget) - Total(Clamped)
        uncapped == {g \in GC : Clamped[g] < MaxPart23Length}
    IN  /\ pc = "redistribute" /\ Over # {}
        /\ passes' = MinOf(passes + 1, NGC + 1)
        /\ IF uncapped = {}
             THEN budget' = Clamped /\ pc' = "topUp"
             ELSE /\ budget' = [g \in GC |-> Clamped[g] + Handout(pool, uncapped)[g]]
                  /\ UNCHANGED pc
        /\ UNCHANGED <<acc, occ, area, demand, huffTarget, part23>>

Redistributed ==
    /\ pc = "redistribute" /\ Over = {}
    /\ pc' = "topUp"
    /\ UNCHANGED <<acc, occ, area, demand, budget, huffTarget, passes, part23>>

(***************************************************************************)
(* codeFrame hands the granules what the frame is forced to spend anyway.  *)
(***************************************************************************)
\* Mutant: the whole spend is handed out on top of the plan.
WholeSpend == Spend * 8

ExtraBits == (Spend - huffTarget) * 8

TopUp ==
    LET share == ExtraBits \div NGC
        rem == ExtraBits - share * NGC
    IN  /\ pc = "topUp"
        /\ budget' = IF ExtraBits = 0 THEN budget
                     ELSE [g \in GC |-> MinOf(budget[g] + share + (IF g = NGC THEN rem ELSE 0),
                                              MaxPart23Length)]
        /\ pc' = "code"
        /\ UNCHANGED <<acc, occ, area, demand, huffTarget, passes, part23>>

Fitting(limit) == {s \in CodedSizes : s <= limit} \cup {limit}

Code ==
    /\ pc = "code"
    /\ \E sizes \in [GC -> CodedSizes \cup {budget[g] : g \in GC}] :
         /\ \A g \in GC : sizes[g] \in Fitting(budget[g])
         /\ part23' = sizes
    /\ pc' = "escalate"
    /\ UNCHANGED <<acc, occ, area, demand, budget, huffTarget, passes>>

\* escFreeCap and escOffer.
FreeCap == Hi * 8 - Total(part23)

\* Mutant: an offer beyond the part_2_3_length field.
OfferAll(g) == part23[g] + FreeCap

Offer(g) == MinOf(MaxPart23Length, part23[g] + FreeCap)

Escalate(g) ==
    /\ pc = "escalate"
    /\ \E s \in Fitting(Offer(g)) : part23' = [part23 EXCEPT ![g] = s]
    /\ UNCHANGED <<acc, occ, pc, area, demand, budget, huffTarget, passes>>

\* detectScfsi and applyScfsi: shared scalefactors shrink second granules.
Scfsi ==
    /\ pc = "escalate"
    /\ \E sizes \in [GC -> CodedSizes \cup {part23[g] : g \in GC}] :
         /\ \A g \in GC : IF g > NGC \div 2 THEN sizes[g] \in Fitting(part23[g])
                                           ELSE sizes[g] = part23[g]
         /\ part23' = sizes
    /\ pc' = "commit"
    /\ UNCHANGED <<acc, occ, area, demand, budget, huffTarget, passes>>

\* renderMainData up to its zero padding, and commitFrame.
Coded == (Total(part23) + 7) \div 8
Commit ==
    /\ pc = "commit"
    /\ occ' = occ + area - MaxOf(Coded, Lo)
    /\ pc' = "idle"
    /\ UNCHANGED <<acc, area, demand, budget, huffTarget, passes, part23>>

PlanFrame == \E pe \in [GC -> PEs] : Plan(pe)
EscalateSome == \E g \in GC : Escalate(g)

Next ==
    \/ PlanFrame \/ Redistribute \/ Redistributed \/ TopUp
    \/ Code \/ EscalateSome \/ Scfsi \/ Commit

Spec == Init /\ [][Next]_vars /\ WF_vars(Redistribute \/ Redistributed \/ TopUp \/ Code)
-----------------------------------------------------------------------------
TypeOK ==
    /\ acc \in 0..SampleRate - 1 /\ occ \in 0..ResCapBytes /\ area \in Nat
    /\ pc \in {"idle", "redistribute", "topUp", "code", "escalate", "commit"}
    /\ demand \in [GC -> Nat] /\ budget \in [GC -> Nat] /\ part23 \in [GC -> Nat]
    /\ huffTarget \in Nat /\ passes \in Nat

(***************************************************************************)
(* What the plan really guarantees: only the bits beyond what all fields   *)
(* together can hold are dropped, every budget fits its field, and the     *)
(* loop converges within one pass per granule-channel.                     *)
(***************************************************************************)
RedistributionConserves ==
    pc = "topUp" =>
        /\ Total(budget) = MinOf(huffTarget * 8, NGC * MaxPart23Length)
        /\ \A g \in GC : budget[g] <= MaxPart23Length
        /\ passes <= NGC

(***************************************************************************)
(* The physical spend is legal although the field capacity is not part of  *)
(* its bounds: the top-up never asks for more than the frame spends, and   *)
(* the spend stays between the bounds.                                     *)
(***************************************************************************)
BudgetsWithinSpend ==
    pc = "code" => /\ Total(budget) <= Spend * 8 /\ Spend \in Lo..Hi
                   /\ \A g \in GC : budget[g] <= MaxPart23Length

(***************************************************************************)
(* However escalation moves capacity between the granule-channels, the     *)
(* kept codings together fit the bytes the pending frames have room for,   *)
(* and each fits its field: this is what FrameFIFO takes as the range of   *)
(* coded sizes.                                                            *)
(***************************************************************************)
CodingFits ==
    pc \in {"escalate", "commit"} =>
        /\ Coded <= Hi /\ Coded <= HuffCap
        /\ \A g \in GC : part23[g] <= MaxPart23Length

(***************************************************************************)
(* The redistribution loop ends: a planned frame gets coded.               *)
(***************************************************************************)
PlanEnds == (pc = "redistribute") ~> (pc = "escalate")
=============================================================================
