------------------------------ MODULE Escalation ------------------------------
(***************************************************************************)
(* Masking-driven escalation of one frame (src/internal/enc/encoder.go,    *)
(* escalateForMasking and its helpers): granule-channels that still exceed *)
(* their masking thresholds are coded again with the frame's free bits,    *)
(* neediest first, until a sweep over all of them has nothing to try.      *)
(*                                                                         *)
(* outerLoop is a pure function of granule-channel and budget within a     *)
(* frame: its value is chosen when it is first computed and kept in        *)
(* `coded', a history variable the algorithm does not read.  A coding is   *)
(* its bits and its masking metrics; `excess' stands for the pair of       *)
(* excess and worst ratio, which betterPass compares in that order.  Ties  *)
(* between equally needy granule-channels are broken either way.           *)
(***************************************************************************)
EXTENDS Integers, FiniteSets

CONSTANTS
    NGC,               \* granule-channels, two granules of one or two channels
    MaxPart23Length,
    Capacity,          \* hi * 8, the bits the frame may spend
    FlatShare,         \* granuleBudgetBits, the share of a flat budget
    CallLimits,        \* values of maskEscalationMaxCalls to consider
    Metrics,           \* masking metrics an outerLoop may end with
    Savings,           \* bits an outerLoop may leave of its budget
    FirstSizes         \* bits of the codings of the first pass

ASSUME EscalationAssumption ==
    /\ NGC \in {2, 4}
    /\ Capacity \in Nat /\ FlatShare \in Nat /\ MaxPart23Length \in Nat
    /\ CallLimits \subseteq Nat /\ Savings \subseteq Nat
    /\ FirstSizes \subseteq 0..MaxPart23Length
    /\ \A q \in Metrics : q.excess \in Nat /\ q.over \in Nat
                          /\ (q.over = 0 <=> q.excess = 0)

GC == 1..NGC

VARIABLES
    limit,      \* maskEscalationMaxCalls, fixed for a behaviour
    gr,         \* the kept codings
    best,       \* best-pass cache
    parked,
    tried,      \* the pair of budgets of the last attempt, -1 before the first
    calls,
    memo,       \* set of memo entries
    pc, i, changed,
    first,      \* history: the codings of the first pass
    coded       \* history: what outerLoop computed in this frame

vars == <<limit, gr, best, parked, tried, calls, memo, pc, i, changed, first, coded>>

MinOf(a, b) == IF a <= b THEN a ELSE b
Total(f) == f[1].bits + f[2].bits + (IF NGC = 4 THEN f[3].bits + f[4].bits ELSE 0)

Coding(q, bits) == [excess |-> q.excess, over |-> q.over, bits |-> bits]
Codings(budget) == {Coding(q, budget - s) : q \in Metrics, s \in Savings \cap 0..budget}
Entry(g, budget, c) == [g |-> g, budget |-> budget, coding |-> c]

\* betterPass.
Better(c, d) == c.excess < d.excess \/ (c.excess = d.excess /\ c.over < d.over)

FirstPasses ==
    {f \in [GC -> {Coding(q, n) : q \in Metrics, n \in FirstSizes}] : Total(f) <= Capacity}

NoPair == [hi |-> -1, lo |-> -1]

Init ==
    /\ limit \in CallLimits
    /\ first \in FirstPasses /\ gr = first /\ best = first
    /\ parked = {} /\ tried = [g \in GC |-> NoPair]
    /\ calls = 0 /\ memo = {} /\ coded = {}
    /\ pc = "main" /\ i = 1 /\ changed = FALSE

(***************************************************************************)
(* The free capacity, and what a granule-channel is offered of it.         *)
(***************************************************************************)
FreeCap == Capacity - Total(gr)

\* Mutant: the offer forgets the limit of the part_2_3_length field.
OfferAll(g) == gr[g].bits + FreeCap

Offer(g) == MinOf(MaxPart23Length, gr[g].bits + FreeCap)

Probes(hi) == [hi |-> hi, lo |-> MinOf(FlatShare, hi)]

EscMemoCap == limit + 2

(***************************************************************************)
(* escTryBudget, as a function of the state it reads and writes.           *)
(***************************************************************************)
State == [gr |-> gr, best |-> best, calls |-> calls, memo |-> memo, coded |-> coded]

Of(entries, g, budget) == {e \in entries : e.g = g /\ e.budget = budget}

\* What the call can yield: a remembered coding, or outerLoop's.
Results(s, g, budget) ==
    LET known == IF Of(s.memo, g, budget) # {} THEN Of(s.memo, g, budget)
                                               ELSE Of(s.coded, g, budget)
    IN  IF known # {} THEN {e.coding : e \in known} ELSE Codings(budget)

\* Mutant: a coding that is no improvement is kept in gr.
KeepRaw(c, kept) == c

Kept(c, kept) == IF Better(c, kept) THEN c ELSE kept

TryBudget(s, g, budget, c) ==
    LET e == Entry(g, budget, c)
        hit == Of(s.memo, g, budget) # {}
        fits == Cardinality(s.memo) < EscMemoCap
    IN  [gr |-> [s.gr EXCEPT ![g] = Kept(c, s.best[g])],
         best |-> [s.best EXCEPT ![g] = IF Better(c, @) THEN c ELSE @],
         calls |-> s.calls + 1,
         memo |-> IF ~hit /\ fits THEN s.memo \cup {e} ELSE s.memo,
         coded |-> IF hit THEN s.coded ELSE s.coded \cup {e}]

Becomes(s) ==
    gr' = s.gr /\ best' = s.best /\ calls' = s.calls /\ memo' = s.memo /\ coded' = s.coded

\* escAttempt: the whole offer, then the flat share where it differs.
Attempt(g, pair) ==
    /\ tried' = [tried EXCEPT ![g] = pair]
    /\ \E c \in Results(State, g, pair.hi) :
         LET s == TryBudget(State, g, pair.hi, c)
         IN  IF pair.lo = pair.hi THEN Becomes(s)
             ELSE \E d \in Results(s, g, pair.lo) : Becomes(TryBudget(s, g, pair.lo, d))

(***************************************************************************)
(* The main loop: escNeediest, and one iteration.                          *)
(***************************************************************************)
Needy == {g \in GC : g \notin parked /\ best[g].over > 0}
Neediest == {g \in Needy : \A h \in Needy : best[h].over <= best[g].over}

MoreToDo == calls < limit /\ Needy # {} /\ FreeCap > 0

\* Mutant: a granule-channel at its limit is not parked.
LeaveNeedy(g) == UNCHANGED parked

Park(g) == parked' = parked \cup {g}

ParkFull(g) ==
    /\ Offer(g) <= gr[g].bits
    /\ Park(g)
    /\ UNCHANGED <<gr, best, tried, calls, memo, coded>>

Progress(before, after) == after.over = 0 \/ after.over < before.over

Grant(g) ==
    /\ Offer(g) > gr[g].bits
    /\ Attempt(g, Probes(Offer(g)))
    /\ parked' = IF Progress(best[g], best'[g]) THEN parked ELSE parked \cup {g}

MainStep ==
    /\ pc = "main" /\ MoreToDo
    /\ \E g \in Neediest : ParkFull(g) \/ Grant(g)
    /\ UNCHANGED <<limit, pc, i, changed, first>>

MainDone ==
    /\ pc = "main" /\ ~MoreToDo
    /\ pc' = IF calls < limit THEN "sweep" ELSE "done"
    /\ UNCHANGED <<limit, gr, best, parked, tried, calls, memo, i, changed, first, coded>>

(***************************************************************************)
(* The fixpoint sweep: one granule-channel per step.                       *)
(***************************************************************************)
\* Mutant: what the main loop gave up on is not swept.
DueUnparked(g) == best[g].over > 0 /\ Probes(Offer(g)) # tried[g] /\ g \notin parked

Due(g) == best[g].over > 0 /\ Probes(Offer(g)) # tried[g]

NextIndex(n) == IF n >= limit THEN NGC + 1 ELSE i + 1

SweepStep ==
    /\ pc = "sweep" /\ i <= NGC
    /\ IF Due(i)
         THEN Attempt(i, Probes(Offer(i))) /\ changed' = TRUE /\ i' = NextIndex(calls')
         ELSE /\ i' = i + 1
              /\ UNCHANGED <<gr, best, tried, calls, memo, changed, coded>>
    /\ UNCHANGED <<limit, parked, pc, first>>

SweepEnd ==
    /\ pc = "sweep" /\ i > NGC
    /\ IF changed /\ calls < limit
         THEN i' = 1 /\ changed' = FALSE /\ UNCHANGED pc
         ELSE pc' = "done" /\ UNCHANGED <<i, changed>>
    /\ UNCHANGED <<limit, gr, best, parked, tried, calls, memo, first, coded>>

\* The next frame has another spectrum: nothing computed for this one counts.
\* (Mutant StaleMemo: the memo is not cleared.)
StaleMemo == memo' = memo

ClearMemo == memo' = {}

NextFrame ==
    /\ pc = "done"
    /\ first' \in FirstPasses /\ gr' = first' /\ best' = first'
    /\ parked' = {} /\ tried' = [g \in GC |-> NoPair]
    /\ calls' = 0 /\ ClearMemo /\ coded' = {}
    /\ pc' = "main" /\ i' = 1 /\ changed' = FALSE
    /\ UNCHANGED limit

Step == MainStep \/ MainDone \/ SweepStep \/ SweepEnd
Next == Step \/ NextFrame

\* A call that has started is sequential code that runs to its return.
Spec == Init /\ [][Next]_vars /\ WF_vars(Step)
-----------------------------------------------------------------------------
CodingType == [excess : Nat, over : Nat, bits : 0..MaxPart23Length]
EntryType == [g : GC, budget : 0..MaxPart23Length, coding : CodingType]

TypeOK ==
    /\ gr \in [GC -> CodingType] /\ best \in [GC -> CodingType]
    /\ first \in [GC -> CodingType]
    /\ limit \in CallLimits /\ parked \subseteq GC
    /\ tried \in [GC -> [hi : -1..MaxPart23Length, lo : -1..MaxPart23Length]]
    /\ calls \in Nat /\ memo \subseteq EntryType /\ coded \subseteq EntryType
    /\ pc \in {"main", "sweep", "done"} /\ i \in 1..NGC + 1 /\ changed \in BOOLEAN

(***************************************************************************)
(* The doc comment's hard guarantee: what is kept for a granule-channel is *)
(* a coding of this frame's audio, the best of all that were computed for  *)
(* it, the first pass included, so no attempt leaves its masking worse.    *)
(***************************************************************************)
KeptIsBest ==
    \A g \in GC :
        LET seen == {first[g]} \cup {e.coding : e \in {f \in coded : f.g = g}}
        IN  gr[g] = best[g] /\ gr[g] \in seen /\ \A c \in seen : ~Better(c, gr[g])

(***************************************************************************)
(* The memo holds exactly what was computed in this frame: nothing from an *)
(* earlier one, and nothing dropped for lack of room, for which the limit  *)
(* on calls may be overrun by no more than the second probe of an attempt. *)
(***************************************************************************)
MemoExact == memo = coded /\ calls <= limit + 1

(***************************************************************************)
(* Fixpoint: when the sweep ends below the call limit, every granule-      *)
(* channel still over its thresholds has been coded at exactly the budgets *)
(* the frame could offer it at its end, so coding it again with all the    *)
(* bits left cannot improve it.  Offers move in both directions after      *)
(* every acceptance, which is why parking alone does not give this.        *)
(***************************************************************************)
NothingLeftToTry ==
    pc = "done" /\ calls < limit =>
        \A g \in GC : best[g].over > 0 =>
            LET pair == Probes(Offer(g))
            IN  Of(coded, g, pair.hi) # {} /\ Of(coded, g, pair.lo) # {}

(***************************************************************************)
(* Every frame's escalation comes to its end, and by the doc comment's     *)
(* termination argument, not by its limit on calls: with a limit out of    *)
(* reach it is never met.                                                  *)
(***************************************************************************)
OutOfReach == \A other \in CallLimits : other <= limit

EndsUnaided == (pc = "main") ~> (pc = "done" /\ (OutOfReach => calls < limit))
=============================================================================
