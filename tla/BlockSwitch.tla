----------------------------- MODULE BlockSwitch -----------------------------
(***************************************************************************)
(* Window switching of one channel (src/internal/enc/blockswitch.go, and   *)
(* analyzeAttacks, decideBlockTypes and slidePcmHist of encoder.go): the   *)
(* attack detector looks one granule ahead of the held frame, and a total  *)
(* function of the previous type and two verdicts picks every granule's    *)
(* window.                                                                 *)
(*                                                                         *)
(* A granule is the sequence of its sub-block energies.  Silence has none, *)
(* and attackNoPrior, larger than any energy, is the seed of a stream.     *)
(***************************************************************************)
EXTENDS Integers, Sequences

LOCAL INSTANCE Functions

CONSTANTS
    Energies,       \* energies a sub-block can have, a set with 0
    SubBlocks,      \* sub-blocks per granule, 3 in the code
    AttackRatio, AttackFloorE, AttackNoPrior

ASSUME EnergyAssumption ==
    /\ Energies \subseteq Nat /\ 0 \in Energies
    /\ SubBlocks \in Nat \ {0}
    /\ AttackRatio \in Nat \ {0} /\ AttackFloorE \in Nat
    /\ AttackNoPrior \in Nat /\ \A e \in Energies : e <= AttackRatio * AttackNoPrior

Long == 0
Start == 1
Short == 2
Stop == 3
BlockTypes == {Long, Start, Short, Stop}

Granule == [1..SubBlocks -> Energies]
Silence == [k \in 1..SubBlocks |-> 0]

\* attackDetect: its verdict, and the energy it hands to the next granule.
Attack(g, prevE) ==
    \E k \in 1..SubBlocks :
        LET prev == IF k = 1 THEN prevE ELSE g[k - 1]
        IN  g[k] > AttackFloorE /\ g[k] > AttackRatio * prev

\* Mutant: the energy of the whole granule is handed on.
SumE(g) == FoldFunction(+, 0, g)

LastE(g) == g[SubBlocks]

\* Mutants: an attack is short at once; a run is not bridged; a run never ends.
BlockTypeDirect(prev, want, wantNext) ==
    IF prev = Start \/ want THEN Short
    ELSE IF prev = Short THEN IF wantNext THEN Short ELSE Stop
    ELSE IF wantNext THEN Start ELSE Long
BlockTypeNoBridge(prev, want, wantNext) ==
    IF prev = Start THEN Short
    ELSE IF want THEN IF prev = Short THEN Short ELSE Start
    ELSE IF prev = Short THEN Stop
    ELSE IF wantNext THEN Start ELSE Long
BlockTypeSticky(prev, want, wantNext) ==
    IF prev \in {Start, Short} THEN Short
    ELSE IF want \/ wantNext THEN Start ELSE Long

BlockTypeFor(prev, want, wantNext) ==
    IF prev = Start THEN Short
    ELSE IF want THEN IF prev = Short THEN Short ELSE Start
    ELSE IF prev = Short THEN IF wantNext THEN Short ELSE Stop
    ELSE IF wantNext THEN Start ELSE Long

VARIABLES
    held, next,          \* the two frames of pcmHist, two granules each
    isHeld, drained,     \* Encoder.held and Encoder.drained
    attackCarry, attackPrimed, blockPrev,
    emitted              \* history: the granules the last call coded

vars == <<held, next, isHeld, drained, attackCarry, attackPrimed, blockPrev, emitted>>

Frame == Granule \X Granule
SilentFrame == <<Silence, Silence>>

Init ==
    /\ held = SilentFrame /\ next = SilentFrame
    /\ isHeld = FALSE /\ drained = FALSE
    /\ attackCarry = 0 /\ attackPrimed = FALSE /\ blockPrev = Long
    /\ emitted = <<>>

(***************************************************************************)
(* What codeFrame makes of frame f with lookahead frame g, the carry, and  *)
(* the type of the granule before f: two coded granules and the new carry. *)
(***************************************************************************)
Wants(f, g, carry) ==
    <<Attack(f[1], carry), Attack(f[2], LastE(f[1])), Attack(g[1], LastE(f[2]))>>

Coded(f, g, carry, prev) ==
    LET w == Wants(f, g, carry)
        bt0 == BlockTypeFor(prev, w[1], w[2])
        bt1 == BlockTypeFor(bt0, w[2], w[3])
    IN  << [bt |-> bt0, want |-> w[1], wantNext |-> w[2]],
           [bt |-> bt1, want |-> w[2], wantNext |-> w[3]] >>

\* Mutant: every call starts as the first.
NeverPrimed == AttackNoPrior

CarryIn == IF attackPrimed THEN attackCarry ELSE AttackNoPrior

\* EncodeFrame's first call only stashes the frame.
Stash(f) ==
    /\ ~drained /\ ~isHeld
    /\ held' = f /\ isHeld' = TRUE
    /\ emitted' = <<>>
    /\ UNCHANGED <<next, drained, attackCarry, attackPrimed, blockPrev>>

\* A later call codes the held frame with the new one as its lookahead.
Encode(f) ==
    LET c == Coded(held, f, CarryIn, blockPrev)
    IN  /\ ~drained /\ isHeld
        /\ emitted' = c /\ blockPrev' = c[2].bt
        /\ attackCarry' = LastE(held[2]) /\ attackPrimed' = TRUE
        /\ held' = f /\ next' = SilentFrame
        /\ UNCHANGED <<isHeld, drained>>

\* The drain codes the held frame, if there is one, and a frame of silence.
Drain ==
    LET c == Coded(held, SilentFrame, CarryIn, blockPrev)
        flush == IF isHeld
                   THEN Coded(SilentFrame, SilentFrame, LastE(held[2]), c[2].bt)
                   ELSE c
    IN  /\ ~drained
        /\ drained' = TRUE
        /\ emitted' = IF isHeld THEN <<c[1], c[2], flush[1], flush[2]>> ELSE flush
        /\ blockPrev' = flush[2].bt
        /\ attackCarry' = 0 /\ attackPrimed' = TRUE
        /\ held' = SilentFrame /\ next' = SilentFrame
        /\ UNCHANGED isHeld

Reset ==
    /\ held' = SilentFrame /\ next' = SilentFrame
    /\ isHeld' = FALSE /\ drained' = FALSE
    /\ attackCarry' = 0 /\ attackPrimed' = FALSE /\ blockPrev' = Long
    /\ emitted' = <<>>

Next == (\E f \in Frame : Stash(f) \/ Encode(f)) \/ Drain \/ Reset

Spec == Init /\ [][Next]_vars
-----------------------------------------------------------------------------
TypeOK ==
    /\ held \in Frame /\ next \in Frame
    /\ isHeld \in BOOLEAN /\ drained \in BOOLEAN /\ attackPrimed \in BOOLEAN
    /\ attackCarry \in Energies /\ blockPrev \in BlockTypes
    /\ emitted \in Seq([bt : BlockTypes, want : BOOLEAN, wantNext : BOOLEAN])

Successors(bt) ==
    CASE bt = Long -> {Long, Start}
      [] bt = Start -> {Short}
      [] bt = Short -> {Short, Stop}
      [] bt = Stop -> {Long, Start}

\* The type of the last granule coded; the decoder starts as after a long one.
LastType == IF emitted = <<>> THEN Long ELSE emitted[Len(emitted)].bt

(***************************************************************************)
(* Window grammar of ISO 11172-3: every granule's type is a legal          *)
(* successor of the type coded before it, within a call and from one call  *)
(* to the next, at stream start and in the drain too.                      *)
(***************************************************************************)
WindowGrammar ==
    [][\A m \in DOMAIN emitted' :
          emitted'[m].bt \in Successors(IF m = 1 THEN LastType ELSE emitted'[m - 1].bt)]_vars

(***************************************************************************)
(* The lookahead verdict is kept: what a frame sees in its lookahead is    *)
(* what the next frame, coded by a later call or by the same drain, sees   *)
(* in its first granule, so an attack is never taken back after the start  *)
(* window that announces it is coded.                                      *)
(***************************************************************************)
Agree(run) == \A k \in 1..Len(run) - 1 : run[k].wantNext = run[k + 1].want

LookaheadKept == [][Agree(emitted \o emitted')]_vars

(***************************************************************************)
(* Every attack is coded with short windows, except one in the very first  *)
(* granule, which has no window before it to announce it.                  *)
(***************************************************************************)
AttackCodedShort ==
    [][\A m \in DOMAIN emitted' :
          emitted'[m].want /\ (attackPrimed \/ m > 1) => emitted'[m].bt = Short]_vars

(***************************************************************************)
(* Short windows are not coded for nothing: a short granule attacks or     *)
(* bridges to an attack in the next one.  Only the granule after an attack *)
(* at the very start of the stream is short without either.                *)
(***************************************************************************)
ShortHasCause ==
    [][\A m \in DOMAIN emitted' :
          emitted'[m].bt = Short /\ (attackPrimed \/ m > 2) =>
              emitted'[m].want \/ emitted'[m].wantNext]_vars

(***************************************************************************)
(* Between calls, the window last coded has announced exactly what the     *)
(* held frame starts with: after a start window it attacks, after a long   *)
(* or a stop window it does not.  (After a short window either is legal.)  *)
(***************************************************************************)
Announced ==
    attackPrimed /\ ~drained =>
        /\ isHeld
        /\ blockPrev = Start => Attack(held[1], attackCarry)
        /\ blockPrev \in {Long, Stop} => ~Attack(held[1], attackCarry)
=============================================================================
