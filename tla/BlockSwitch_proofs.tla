------------------------- MODULE BlockSwitch_proofs -------------------------
(***************************************************************************)
(* Proofs about BlockSwitch, for every number of sub-blocks, every set of  *)
(* energies and every threshold: the window grammar is kept, an announced  *)
(* attack is coded short, and no short window is without a cause.  The     *)
(* attack detector itself stays opaque: what matters is that a verdict     *)
(* seen ahead is the verdict seen later.                                   *)
(***************************************************************************)
EXTENDS BlockSwitch, TLAPS

\* The type coded before the m-th granule of a step.
Before(m) == IF m = 1 THEN LastType ELSE emitted'[m - 1].bt

Grammatical == \A m \in DOMAIN emitted' : emitted'[m].bt \in Successors(Before(m))

CodedShort ==
    \A m \in DOMAIN emitted' :
        emitted'[m].want /\ (attackPrimed \/ m > 1) => emitted'[m].bt = Short

Caused ==
    \A m \in DOMAIN emitted' :
        emitted'[m].bt = Short /\ (attackPrimed \/ m > 2) =>
            emitted'[m].want \/ emitted'[m].wantNext

\* Nothing has been coded before the first frame is stashed.
BInv ==
    /\ TypeOK /\ Announced /\ blockPrev = LastType
    /\ ~isHeld /\ ~drained => emitted = <<>>

(***************************************************************************)
(* The window state machine, one granule.                                  *)
(***************************************************************************)
LEMMA OneGranule ==
    ASSUME NEW prev \in BlockTypes, NEW want \in BOOLEAN, NEW wantNext \in BOOLEAN
    PROVE  LET bt == BlockTypeFor(prev, want, wantNext)
           IN  /\ bt \in BlockTypes /\ bt \in Successors(prev)
               /\ want /\ prev \in {Start, Short} => bt = Short
               /\ wantNext => bt \in {Start, Short}
               /\ bt = Start => want \/ wantNext
               /\ bt = Short => prev \in {Start, Short}
               /\ bt = Short /\ prev = Short => want \/ wantNext
               /\ prev \in {Long, Stop} /\ bt = Start /\ ~want => wantNext
  BY DEF BlockTypeFor, BlockTypes, Successors, Long, Start, Short, Stop

(***************************************************************************)
(* A frame: two granules, the second one's own verdict being the first     *)
(* one's lookahead.                                                        *)
(***************************************************************************)
LEMMA OneFrame ==
    ASSUME NEW f \in Frame, NEW g \in Frame, NEW carry, NEW prev \in BlockTypes
    PROVE  LET c == Coded(f, g, carry, prev)
           IN  /\ c[1].bt \in BlockTypes /\ c[2].bt \in BlockTypes
               /\ c[1].want \in BOOLEAN /\ c[1].wantNext \in BOOLEAN
               /\ c[2].want \in BOOLEAN /\ c[2].wantNext \in BOOLEAN
               /\ c[1].bt \in Successors(prev) /\ c[2].bt \in Successors(c[1].bt)
               /\ c[1].want = Attack(f[1], carry)
               /\ c[2].wantNext = Attack(g[1], LastE(f[2]))
               /\ c[2].want => c[2].bt = Short
               /\ c[1].want /\ prev \in {Start, Short} => c[1].bt = Short
               /\ c[2].bt = Start => c[2].wantNext
               /\ c[2].bt \in {Long, Stop} => ~c[2].wantNext
               /\ (prev = Start => c[1].want) /\ (prev \in {Long, Stop} => ~c[1].want) =>
                     /\ c[1].bt = Short => c[1].want \/ c[1].wantNext
                     /\ c[2].bt = Short => c[2].want \/ c[2].wantNext
  <1> DEFINE w == Wants(f, g, carry)
             b0 == BlockTypeFor(prev, w[1], w[2])
             b1 == BlockTypeFor(b0, w[2], w[3])
             c == Coded(f, g, carry, prev)
  <1>1. /\ c[1] = [bt |-> b0, want |-> w[1], wantNext |-> w[2]]
        /\ c[2] = [bt |-> b1, want |-> w[2], wantNext |-> w[3]]
    BY DEF Coded
  <1>2. /\ w[1] = Attack(f[1], carry) /\ w[3] = Attack(g[1], LastE(f[2]))
        /\ w[1] \in BOOLEAN /\ w[2] \in BOOLEAN /\ w[3] \in BOOLEAN
    BY DEF Wants, Attack
  <1>3. c[1].bt = b0 /\ c[2].bt = b1 /\ c[1].want = w[1] /\ c[1].wantNext = w[2]
        /\ c[2].want = w[2] /\ c[2].wantNext = w[3]
    BY <1>1
  <1> HIDE DEF w, c
  <1>4. /\ b0 \in BlockTypes /\ b0 \in Successors(prev)
        /\ w[1] /\ prev \in {Start, Short} => b0 = Short
        /\ w[2] => b0 \in {Start, Short}
        /\ b0 = Start => w[1] \/ w[2]
        /\ b0 = Short => prev \in {Start, Short}
        /\ b0 = Short /\ prev = Short => w[1] \/ w[2]
        /\ prev \in {Long, Stop} /\ b0 = Start /\ ~w[1] => w[2]
    BY <1>2, OneGranule
  <1> HIDE DEF b0
  <1>5. /\ b1 \in BlockTypes /\ b1 \in Successors(b0)
        /\ w[2] /\ b0 \in {Start, Short} => b1 = Short
        /\ w[3] => b1 \in {Start, Short}
        /\ b1 = Start => w[2] \/ w[3]
        /\ b1 = Short => b0 \in {Start, Short}
        /\ b1 = Short /\ b0 = Short => w[2] \/ w[3]
    BY <1>2, <1>4, OneGranule
  <1> HIDE DEF b1
  <1>6. Long # Short /\ Long # Start /\ Stop # Start /\ Stop # Short /\ Start # Short
    BY DEF Long, Start, Short, Stop
  <1>7. ASSUME (prev = Start => w[1]) /\ (prev \in {Long, Stop} => ~w[1])
        PROVE  (b0 = Short => w[1] \/ w[2]) /\ (b1 = Short => w[2] \/ w[3])
    <2>1. b0 = Start => w[2]
      <3>1. b0 = Start => prev \in {Long, Stop}
        BY <1>4, <1>6 DEF Successors, BlockTypes, Long, Start, Short, Stop
      <3> QED BY <3>1, <1>4, <1>7
    <2> QED BY <2>1, <1>4, <1>5, <1>7
  <1>8. (b1 = Start => w[3]) /\ (b1 \in {Long, Stop} => ~w[3]) /\ (w[2] => b1 = Short)
    BY <1>4, <1>5, <1>6
  <1> QED BY <1>2, <1>3, <1>4, <1>5, <1>7, <1>8 DEF c

LEMMA CodedShape ==
    ASSUME NEW f, NEW g, NEW carry, NEW prev
    PROVE  \E x, y : /\ Coded(f, g, carry, prev) = <<x, y>>
                     /\ x = [bt |-> x.bt, want |-> x.want, wantNext |-> x.wantNext]
                     /\ y = [bt |-> y.bt, want |-> y.want, wantNext |-> y.wantNext]
  <1> DEFINE w == Wants(f, g, carry)
             b0 == BlockTypeFor(prev, w[1], w[2])
             b1 == BlockTypeFor(b0, w[2], w[3])
             x == [bt |-> b0, want |-> w[1], wantNext |-> w[2]]
             y == [bt |-> b1, want |-> w[2], wantNext |-> w[3]]
  <1>1. Coded(f, g, carry, prev) = <<x, y>>
    BY DEF Coded
  <1> HIDE DEF w, b0, b1
  <1>2. /\ x = [bt |-> x.bt, want |-> x.want, wantNext |-> x.wantNext]
        /\ y = [bt |-> y.bt, want |-> y.want, wantNext |-> y.wantNext]
    OBVIOUS
  <1> QED BY <1>1, <1>2

LEMMA SilenceFacts ==
    /\ SilentFrame \in Frame /\ Long \in BlockTypes
    /\ 0 \in Energies
    /\ \A f \in Frame : f[1] \in Granule /\ f[2] \in Granule /\ LastE(f[2]) \in Energies
  BY EnergyAssumption DEF SilentFrame, Silence, Frame, Granule, LastE, BlockTypes

Verdict == [bt : BlockTypes, want : BOOLEAN, wantNext : BOOLEAN]

(***************************************************************************)
(* A step that codes one frame after a sound state.                        *)
(***************************************************************************)
LEMMA FrameStep ==
    ASSUME BInv, NEW f \in Frame, NEW g \in Frame, f = held, ~drained,
           emitted' = Coded(f, g, CarryIn, blockPrev),
           blockPrev' = emitted'[2].bt
    PROVE  /\ emitted' \in Seq(Verdict) /\ DOMAIN emitted' = 1..2
           /\ blockPrev' \in BlockTypes /\ blockPrev' = LastType'
           /\ Grammatical /\ CodedShort /\ Caused
           /\ blockPrev' = Start => Attack(g[1], LastE(f[2]))
           /\ blockPrev' \in {Long, Stop} => ~Attack(g[1], LastE(f[2]))
  <1> DEFINE c == Coded(f, g, CarryIn, blockPrev)
  <1>1. blockPrev \in BlockTypes /\ blockPrev = LastType
    BY DEF BInv, TypeOK
  <1>2. /\ c[1].bt \in BlockTypes /\ c[2].bt \in BlockTypes
        /\ c[1].want \in BOOLEAN /\ c[1].wantNext \in BOOLEAN
        /\ c[2].want \in BOOLEAN /\ c[2].wantNext \in BOOLEAN
        /\ c[1].bt \in Successors(blockPrev) /\ c[2].bt \in Successors(c[1].bt)
        /\ c[1].want = Attack(f[1], CarryIn)
        /\ c[2].wantNext = Attack(g[1], LastE(f[2]))
        /\ c[2].want => c[2].bt = Short
        /\ c[1].want /\ blockPrev \in {Start, Short} => c[1].bt = Short
        /\ c[2].bt = Start => c[2].wantNext
        /\ c[2].bt \in {Long, Stop} => ~c[2].wantNext
        /\ (blockPrev = Start => c[1].want) /\ (blockPrev \in {Long, Stop} => ~c[1].want) =>
              /\ c[1].bt = Short => c[1].want \/ c[1].wantNext
              /\ c[2].bt = Short => c[2].want \/ c[2].wantNext
    BY <1>1, OneFrame
  <1>3. \E x, y : c = <<x, y>> /\ x \in Verdict /\ y \in Verdict
    <2>1. \E x, y : /\ c = <<x, y>>
                    /\ x = [bt |-> x.bt, want |-> x.want, wantNext |-> x.wantNext]
                    /\ y = [bt |-> y.bt, want |-> y.want, wantNext |-> y.wantNext]
      BY CodedShape
    <2>2. PICK x, y : /\ c = <<x, y>>
                      /\ x = [bt |-> x.bt, want |-> x.want, wantNext |-> x.wantNext]
                      /\ y = [bt |-> y.bt, want |-> y.want, wantNext |-> y.wantNext]
      BY <2>1
    <2> HIDE DEF c
    <2>3. x = c[1] /\ y = c[2]
      BY <2>2
    <2> QED BY <2>2, <2>3, <1>2 DEF Verdict
  <1> HIDE DEF c
  <1>4. emitted' = c
    BY DEF c
  <1>5. emitted' \in Seq(Verdict) /\ DOMAIN emitted' = 1..2 /\ Len(emitted') = 2 /\ emitted' # <<>>
    BY <1>3, <1>4
  <1>6. blockPrev' = LastType'
    BY <1>4, <1>5 DEF LastType
  <1>7. Grammatical
    BY <1>1, <1>2, <1>4, <1>5 DEF Grammatical, Before
  <1>8. attackPrimed => /\ blockPrev = Start => c[1].want
                        /\ blockPrev \in {Long, Stop} => ~c[1].want
    BY <1>2 DEF BInv, Announced, CarryIn
  <1>9. CodedShort
    <2>1. attackPrimed /\ c[1].want => c[1].bt = Short
      BY <1>1, <1>2, <1>8 DEF BlockTypes
    <2> QED BY <2>1, <1>2, <1>4, <1>5 DEF CodedShort
  <1>10. Caused
    BY <1>2, <1>4, <1>5, <1>8 DEF Caused
  <1> QED BY <1>2, <1>4, <1>5, <1>6, <1>7, <1>9, <1>10

(***************************************************************************)
(* The drain of a held frame codes two: the frame itself, whose lookahead  *)
(* is silence, and the silence.                                            *)
(***************************************************************************)
LEMMA DrainHeld ==
    ASSUME BInv, Drain, isHeld
    PROVE  /\ emitted' \in Seq(Verdict) /\ blockPrev' \in BlockTypes /\ blockPrev' = LastType'
           /\ Grammatical /\ CodedShort /\ Caused
  <1> DEFINE c == Coded(held, SilentFrame, CarryIn, blockPrev)
             d == Coded(SilentFrame, SilentFrame, LastE(held[2]), c[2].bt)
  <1>1. held \in Frame /\ SilentFrame \in Frame /\ blockPrev \in BlockTypes
        /\ blockPrev = LastType /\ ~drained
    BY SilenceFacts DEF BInv, TypeOK, Drain
  <1>2. /\ c[1].bt \in BlockTypes /\ c[2].bt \in BlockTypes
        /\ c[1].want \in BOOLEAN /\ c[1].wantNext \in BOOLEAN
        /\ c[2].want \in BOOLEAN /\ c[2].wantNext \in BOOLEAN
        /\ c[1].bt \in Successors(blockPrev) /\ c[2].bt \in Successors(c[1].bt)
        /\ c[1].want = Attack(held[1], CarryIn)
        /\ c[2].wantNext = Attack(SilentFrame[1], LastE(held[2]))
        /\ c[2].want => c[2].bt = Short
        /\ c[1].want /\ blockPrev \in {Start, Short} => c[1].bt = Short
        /\ c[2].bt = Start => c[2].wantNext
        /\ c[2].bt \in {Long, Stop} => ~c[2].wantNext
        /\ (blockPrev = Start => c[1].want) /\ (blockPrev \in {Long, Stop} => ~c[1].want) =>
              /\ c[1].bt = Short => c[1].want \/ c[1].wantNext
              /\ c[2].bt = Short => c[2].want \/ c[2].wantNext
    BY <1>1, OneFrame
  <1>3. \E x, y : /\ c = <<x, y>>
                  /\ x = [bt |-> x.bt, want |-> x.want, wantNext |-> x.wantNext]
                  /\ y = [bt |-> y.bt, want |-> y.want, wantNext |-> y.wantNext]
    BY CodedShape
  <1> HIDE DEF c
  <1>4. /\ d[1].bt \in BlockTypes /\ d[2].bt \in BlockTypes
        /\ d[1].want \in BOOLEAN /\ d[1].wantNext \in BOOLEAN
        /\ d[2].want \in BOOLEAN /\ d[2].wantNext \in BOOLEAN
        /\ d[1].bt \in Successors(c[2].bt) /\ d[2].bt \in Successors(d[1].bt)
        /\ d[1].want = Attack(SilentFrame[1], LastE(held[2]))
        /\ d[2].want => d[2].bt = Short
        /\ d[1].want /\ c[2].bt \in {Start, Short} => d[1].bt = Short
        /\ (c[2].bt = Start => d[1].want) /\ (c[2].bt \in {Long, Stop} => ~d[1].want) =>
              /\ d[1].bt = Short => d[1].want \/ d[1].wantNext
              /\ d[2].bt = Short => d[2].want \/ d[2].wantNext
    BY <1>1, <1>2, OneFrame
  <1>5. \E x, y : /\ d = <<x, y>>
                  /\ x = [bt |-> x.bt, want |-> x.want, wantNext |-> x.wantNext]
                  /\ y = [bt |-> y.bt, want |-> y.want, wantNext |-> y.wantNext]
    BY CodedShape
  <1> HIDE DEF d
  <1>6. emitted' = <<c[1], c[2], d[1], d[2]>> /\ blockPrev' = d[2].bt
    BY DEF Drain, c, d
  <1>7. c[1] \in Verdict /\ c[2] \in Verdict /\ d[1] \in Verdict /\ d[2] \in Verdict
    <2>1. c[1] \in Verdict /\ c[2] \in Verdict
      BY <1>2, <1>3 DEF Verdict
    <2>2. d[1] \in Verdict /\ d[2] \in Verdict
      BY <1>4, <1>5 DEF Verdict
    <2> QED BY <2>1, <2>2
  <1>8. /\ emitted' \in Seq(Verdict) /\ DOMAIN emitted' = 1..4 /\ Len(emitted') = 4
        /\ emitted' # <<>>
        /\ emitted'[1] = c[1] /\ emitted'[2] = c[2] /\ emitted'[3] = d[1] /\ emitted'[4] = d[2]
    BY <1>6, <1>7
  <1>9. blockPrev' = LastType'
    BY <1>6, <1>8 DEF LastType
  <1>10. Grammatical
    BY <1>1, <1>2, <1>4, <1>8 DEF Grammatical, Before
  <1>11. attackPrimed => /\ blockPrev = Start => c[1].want
                         /\ blockPrev \in {Long, Stop} => ~c[1].want
    BY <1>1, <1>2 DEF BInv, Announced, CarryIn
  <1>12. (c[2].bt = Start => d[1].want) /\ (c[2].bt \in {Long, Stop} => ~d[1].want)
    BY <1>2, <1>4
  <1>13. CodedShort
    <2>1. attackPrimed /\ c[1].want => c[1].bt = Short
      BY <1>1, <1>2, <1>11 DEF BlockTypes
    <2>2. d[1].want => d[1].bt = Short
      BY <1>2, <1>4, <1>12 DEF BlockTypes
    <2> QED BY <2>1, <2>2, <1>2, <1>4, <1>8 DEF CodedShort
  <1>14. Caused
    BY <1>2, <1>4, <1>8, <1>11, <1>12 DEF Caused
  <1> QED BY <1>4, <1>6, <1>8, <1>9, <1>10, <1>13, <1>14

LEMMA InitBInv == Init => BInv
  <1> SUFFICES ASSUME Init PROVE BInv
    OBVIOUS
  <1>1. TypeOK
    <2>1. <<>> \in Seq([bt : BlockTypes, want : BOOLEAN, wantNext : BOOLEAN])
      OBVIOUS
    <2>2. held \in Frame /\ next \in Frame /\ attackCarry \in Energies /\ blockPrev \in BlockTypes
      BY SilenceFacts DEF Init
    <2> QED BY <2>1, <2>2 DEF Init, TypeOK
  <1> QED BY <1>1 DEF Init, BInv, Announced, LastType

(***************************************************************************)
(* Every step keeps the invariant and codes windows as it should.          *)
(***************************************************************************)
LEMMA NextBInv ==
    ASSUME BInv, [Next]_vars
    PROVE  BInv' /\ ((Grammatical /\ CodedShort /\ Caused) \/ UNCHANGED vars)
  <1>1. TypeOK /\ Announced /\ blockPrev = LastType
    BY DEF BInv
  <1>2. ASSUME NEW f \in Frame, Stash(f)
        PROVE  BInv' /\ Grammatical /\ CodedShort /\ Caused
    <2>1. /\ ~isHeld /\ ~drained /\ isHeld' /\ emitted' = <<>>
          /\ held' = f /\ UNCHANGED <<next, drained, attackCarry, attackPrimed, blockPrev>>
      BY <1>2 DEF Stash
    <2>2. ~attackPrimed'
      BY <1>1, <2>1 DEF Announced
    <2>3. LastType' = LastType
      BY <2>1 DEF BInv, LastType
    <2>4. TypeOK'
      <3>1. emitted' \in Seq([bt : BlockTypes, want : BOOLEAN, wantNext : BOOLEAN])
        BY <2>1
      <3>2. isHeld' \in BOOLEAN
        BY <1>2 DEF Stash
      <3> QED BY <3>1, <3>2, <2>1, <1>1, <1>2 DEF TypeOK
    <2>5. DOMAIN emitted' = {}
      BY <2>1
    <2> QED
      BY <2>1, <2>2, <2>3, <2>4, <2>5, <1>1 DEF BInv, Announced, Grammatical, CodedShort, Caused
  <1>3. ASSUME NEW f \in Frame, Encode(f)
        PROVE  BInv' /\ Grammatical /\ CodedShort /\ Caused
    <2>1. /\ ~drained /\ isHeld /\ emitted' = Coded(held, f, CarryIn, blockPrev)
          /\ blockPrev' = emitted'[2].bt
          /\ attackCarry' = LastE(held[2]) /\ attackPrimed' = TRUE
          /\ held' = f /\ next' = SilentFrame /\ UNCHANGED <<isHeld, drained>>
      BY <1>3 DEF Encode
    <2>2. held \in Frame
      BY <1>1 DEF TypeOK
    <2>3. /\ emitted' \in Seq(Verdict) /\ blockPrev' \in BlockTypes /\ blockPrev' = LastType'
          /\ Grammatical /\ CodedShort /\ Caused
          /\ blockPrev' = Start => Attack(f[1], LastE(held[2]))
          /\ blockPrev' \in {Long, Stop} => ~Attack(f[1], LastE(held[2]))
      BY <2>1, <2>2, FrameStep
    <2>4. TypeOK'
      <3>1. attackCarry' \in Energies /\ next' \in Frame /\ held' \in Frame
        BY <2>1, <2>2, <1>3, SilenceFacts
      <3>2. attackPrimed' \in BOOLEAN
        BY <2>1
      <3> QED BY <3>1, <3>2, <2>1, <2>3, <1>1 DEF TypeOK, Verdict
    <2>5. Announced'
      BY <2>1, <2>3 DEF Announced, Attack, LastE
    <2> QED BY <2>1, <2>3, <2>4, <2>5 DEF BInv
  <1>4. ASSUME Drain
        PROVE  BInv' /\ Grammatical /\ CodedShort /\ Caused
    <2>1. /\ ~drained /\ drained' = TRUE /\ attackCarry' = 0 /\ attackPrimed' = TRUE
          /\ held' = SilentFrame /\ next' = SilentFrame /\ isHeld' = isHeld
      BY <1>4 DEF Drain
    <2>2. /\ emitted' \in Seq(Verdict) /\ blockPrev' \in BlockTypes /\ blockPrev' = LastType'
          /\ Grammatical /\ CodedShort /\ Caused
      <3>1. CASE isHeld
        BY <3>1, <1>4, DrainHeld
      <3>2. CASE ~isHeld
        <4>1. /\ emitted' = Coded(held, SilentFrame, CarryIn, blockPrev)
              /\ blockPrev' = emitted'[2].bt
          BY <3>2, <1>4 DEF Drain
        <4>2. held \in Frame /\ SilentFrame \in Frame
          BY <1>1, SilenceFacts DEF TypeOK
        <4> QED BY <4>1, <4>2, <2>1, FrameStep
      <3> QED BY <3>1, <3>2
    <2>3. TypeOK'
      <3>1. attackPrimed' \in BOOLEAN /\ drained' \in BOOLEAN
        BY <2>1
      <3> QED BY <3>1, <2>1, <2>2, <1>1, SilenceFacts DEF TypeOK, Verdict
    <2> QED BY <2>1, <2>2, <2>3 DEF BInv, Announced
  <1>5. ASSUME Reset
        PROVE  BInv' /\ Grammatical /\ CodedShort /\ Caused
    <2>1. TypeOK'
      <3>1. <<>> \in Seq([bt : BlockTypes, want : BOOLEAN, wantNext : BOOLEAN])
        OBVIOUS
      <3>2. isHeld' \in BOOLEAN /\ drained' \in BOOLEAN /\ attackPrimed' \in BOOLEAN
        BY <1>5 DEF Reset
      <3> QED BY <3>1, <3>2, <1>5, SilenceFacts DEF Reset, TypeOK
    <2>2. emitted' = <<>> /\ blockPrev' = Long /\ attackPrimed' = FALSE /\ DOMAIN emitted' = {}
      BY <1>5 DEF Reset
    <2> QED
      BY <2>1, <2>2 DEF BInv, Announced, LastType, Grammatical, CodedShort, Caused
  <1>6. ASSUME UNCHANGED vars PROVE BInv'
    BY <1>1, <1>6 DEF vars, BInv, TypeOK, Announced, LastType, Attack
  <1> QED BY <1>2, <1>3, <1>4, <1>5, <1>6 DEF Next
-----------------------------------------------------------------------------
LEMMA AlwaysBInv == Spec => []BInv
  <1>1. BInv /\ [Next]_vars => BInv'
    BY NextBInv
  <1> QED BY <1>1, InitBInv, PTL DEF Spec

(***************************************************************************)
(* Every granule's window is a legal successor of the one coded before it. *)
(***************************************************************************)
THEOREM GrammarKept == Spec => WindowGrammar
  <1>1. BInv /\ [Next]_vars =>
            [\A m \in DOMAIN emitted' :
                emitted'[m].bt \in Successors(IF m = 1 THEN LastType ELSE emitted'[m - 1].bt)]_vars
    BY NextBInv DEF Grammatical, Before
  <1> QED BY <1>1, AlwaysBInv, PTL DEF Spec, WindowGrammar

(***************************************************************************)
(* Every attack but one in the very first granule is coded short.          *)
(***************************************************************************)
THEOREM AttacksShort == Spec => AttackCodedShort
  <1>1. BInv /\ [Next]_vars =>
            [\A m \in DOMAIN emitted' :
                emitted'[m].want /\ (attackPrimed \/ m > 1) => emitted'[m].bt = Short]_vars
    BY NextBInv DEF CodedShort
  <1> QED BY <1>1, AlwaysBInv, PTL DEF Spec, AttackCodedShort

(***************************************************************************)
(* No short window without an attack in its granule or in the next one.    *)
(***************************************************************************)
THEOREM ShortsCaused == Spec => ShortHasCause
  <1>1. BInv /\ [Next]_vars =>
            [\A m \in DOMAIN emitted' :
                emitted'[m].bt = Short /\ (attackPrimed \/ m > 2) =>
                    emitted'[m].want \/ emitted'[m].wantNext]_vars
    BY NextBInv DEF Caused
  <1> QED BY <1>1, AlwaysBInv, PTL DEF Spec, ShortHasCause

(***************************************************************************)
(* The last window coded has announced what the held frame starts with.    *)
(***************************************************************************)
THEOREM AlwaysAnnounced == Spec => []Announced
  <1>1. BInv => Announced
    BY DEF BInv
  <1> QED BY <1>1, AlwaysBInv, PTL

(***************************************************************************)
(* Type correctness.                                                       *)
(***************************************************************************)
THEOREM TypeCorrect == Spec => []TypeOK
  <1>1. BInv => TypeOK
    BY DEF BInv
  <1> QED BY <1>1, AlwaysBInv, PTL
-----------------------------------------------------------------------------
(***************************************************************************)
(* The lookahead verdict is kept, by an invariant of its own: the granules *)
(* of the last call agree, and the last of them foresees the held frame.   *)
(***************************************************************************)
Foreseen ==
    emitted # <<>> =>
        /\ Agree(emitted)
        /\ ~drained => attackPrimed /\ emitted[Len(emitted)].wantNext = Attack(held[1], attackCarry)

LEMMA FrameAgrees ==
    ASSUME NEW f, NEW g, NEW carry, NEW prev, NEW c, c = Coded(f, g, carry, prev)
    PROVE  /\ Len(c) = 2 /\ c[1].wantNext = c[2].want
           /\ c[1].want = Attack(f[1], carry) /\ c[2].wantNext = Attack(g[1], LastE(f[2]))
  <1> DEFINE w == Wants(f, g, carry)
             b0 == BlockTypeFor(prev, w[1], w[2])
             b1 == BlockTypeFor(b0, w[2], w[3])
  <1>1. c = << [bt |-> b0, want |-> w[1], wantNext |-> w[2]],
               [bt |-> b1, want |-> w[2], wantNext |-> w[3]] >>
    BY DEF Coded
  <1>2. w[1] = Attack(f[1], carry) /\ w[3] = Attack(g[1], LastE(f[2]))
    BY DEF Wants
  <1> HIDE DEF w, b0, b1
  <1> QED  BY <1>1, <1>2

\* Two runs that agree, and where they meet.
LEMMA AgreeJoin ==
    ASSUME NEW s \in Seq(Verdict), NEW t \in Seq(Verdict), Agree(s), Agree(t),
           s # <<>> /\ t # <<>> => s[Len(s)].wantNext = t[1].want
    PROVE  Agree(s \o t)
  <1>1. PICK m \in Nat, n \in Nat : m = Len(s) /\ n = Len(t)
    OBVIOUS
  <1>2. /\ Len(s \o t) = m + n
        /\ \A k \in 1..m + n : (s \o t)[k] = IF k <= m THEN s[k] ELSE t[k - m]
    BY <1>1
  <1>3. ASSUME NEW k \in 1..m + n - 1
        PROVE  (s \o t)[k].wantNext = (s \o t)[k + 1].want
    <2>1. k \in 1..m + n /\ k + 1 \in 1..m + n
      BY <1>1
    <2>2. CASE k < m
      <3>1. (s \o t)[k] = s[k] /\ (s \o t)[k + 1] = s[k + 1] /\ k \in 1..m - 1
        BY <1>1, <1>2, <2>1, <2>2
      <3> QED  BY <1>1, <3>1 DEF Agree
    <2>3. CASE k = m
      <3>1. (s \o t)[k] = s[m] /\ (s \o t)[k + 1] = t[1]
        BY <1>1, <1>2, <2>1, <2>3
      <3>2. s # <<>> /\ t # <<>>
        BY <1>1, <1>3, <2>3
      <3> QED  BY <1>1, <3>1, <3>2
    <2>4. CASE k > m
      <3>1. (s \o t)[k] = t[k - m] /\ (s \o t)[k + 1] = t[k + 1 - m]
            /\ k - m \in 1..n - 1 /\ k + 1 - m = (k - m) + 1
        BY <1>1, <1>2, <2>1, <2>4
      <3> QED  BY <1>1, <3>1 DEF Agree
    <2> QED  BY <1>1, <2>2, <2>3, <2>4
  <1> QED  BY <1>2, <1>3 DEF Agree

LEMMA PairAgrees ==
    ASSUME NEW c \in Seq(Verdict), Len(c) = 2, c[1].wantNext = c[2].want
    PROVE  Agree(c)
  BY DEF Agree

\* What a call codes agrees, begins as its predecessor foresaw, and foresees the next.
LEMMA LookaheadStep ==
    ASSUME BInv, BInv', Foreseen, [Next]_vars
    PROVE  Foreseen' /\ (Agree(emitted \o emitted') \/ UNCHANGED vars)
  <1>1. TypeOK /\ TypeOK' /\ emitted \in Seq(Verdict) /\ emitted' \in Seq(Verdict)
    BY DEF BInv, TypeOK, Verdict
  <1>2. Agree(<<>>)
    BY DEF Agree
  <1>3. ASSUME emitted' = <<>>
        PROVE  Foreseen' /\ Agree(emitted \o emitted')
    <2>1. emitted \o <<>> = emitted
      BY <1>1
    <2> QED  BY <1>2, <1>3, <2>1 DEF Foreseen
  <1>4. ASSUME NEW c \in Seq(Verdict), NEW f, NEW g, NEW prev, emitted' \in Seq(Verdict),
               c = Coded(f, g, CarryIn, prev), f = held, ~drained
        PROVE  /\ Agree(c) /\ Len(c) = 2 /\ c[2].wantNext = Attack(g[1], LastE(f[2]))
               /\ emitted # <<>> => emitted[Len(emitted)].wantNext = c[1].want
    <2>1. /\ Len(c) = 2 /\ c[1].wantNext = c[2].want
          /\ c[1].want = Attack(f[1], CarryIn) /\ c[2].wantNext = Attack(g[1], LastE(f[2]))
      BY <1>4, FrameAgrees
    <2>2. Agree(c)
      BY <2>1, PairAgrees
    <2>3. emitted # <<>> => CarryIn = attackCarry
      BY <1>4 DEF Foreseen, CarryIn
    <2> QED  BY <1>4, <2>1, <2>2, <2>3 DEF Foreseen
  <1>5. ASSUME NEW f \in Frame, Encode(f)
        PROVE  Foreseen' /\ Agree(emitted \o emitted')
    <2>1. /\ ~drained /\ emitted' = Coded(held, f, CarryIn, blockPrev)
          /\ attackCarry' = LastE(held[2]) /\ attackPrimed' = TRUE /\ held' = f
      BY <1>5 DEF Encode
    <2>2. /\ Agree(emitted') /\ Len(emitted') = 2
          /\ emitted'[2].wantNext = Attack(f[1], LastE(held[2]))
          /\ emitted # <<>> => emitted[Len(emitted)].wantNext = emitted'[1].want
      BY <1>1, <1>4, <2>1
    <2>3. Agree(emitted \o emitted')
      <3>1. Agree(emitted)
        BY <1>2 DEF Foreseen
      <3> QED  BY <1>1, <2>2, <3>1, AgreeJoin
    <2>4. Attack(held[1], attackCarry)' = Attack(f[1], LastE(held[2]))
      BY <2>1 DEF Attack
    <2>5. Agree(emitted)'
      BY <2>2 DEF Agree
    <2> QED  BY <2>1, <2>2, <2>3, <2>4, <2>5 DEF Foreseen
  <1>6. ASSUME Drain
        PROVE  Foreseen' /\ Agree(emitted \o emitted')
    <2> DEFINE c == Coded(held, SilentFrame, CarryIn, blockPrev)
               d == Coded(SilentFrame, SilentFrame, LastE(held[2]), c[2].bt)
    <2>1. /\ ~drained /\ drained' = TRUE
          /\ emitted' = IF isHeld THEN <<c[1], c[2], d[1], d[2]>> ELSE c
      BY <1>6 DEF Drain
    <2>2. Agree(emitted)
      BY <1>2 DEF Foreseen
    <2>3. CASE ~isHeld
      <3> HIDE DEF d
      <3>1. emitted' = c
        BY <2>1, <2>3
      <3>2. /\ Agree(emitted')
            /\ emitted # <<>> => emitted[Len(emitted)].wantNext = emitted'[1].want
        BY <1>1, <1>4, <2>1, <3>1
      <3>3. Agree(emitted)'
        BY <3>2 DEF Agree
      <3> QED  BY <1>1, <2>1, <2>2, <3>2, <3>3, AgreeJoin DEF Foreseen
    <2>4. CASE isHeld
      <3>1. /\ Len(c) = 2 /\ c[1].wantNext = c[2].want /\ c[1].want = Attack(held[1], CarryIn)
            /\ c[2].wantNext = Attack(SilentFrame[1], LastE(held[2]))
        BY FrameAgrees
      <3>2. /\ Len(d) = 2 /\ d[1].wantNext = d[2].want
            /\ d[1].want = Attack(SilentFrame[1], LastE(held[2]))
        BY FrameAgrees
      <3>3. emitted # <<>> => CarryIn = attackCarry
        BY <2>1 DEF Foreseen, CarryIn
      <3> HIDE DEF c, d
      <3>4. emitted' = <<c[1], c[2], d[1], d[2]>>
        BY <2>1, <2>4
      <3>5. Agree(emitted')
        BY <3>1, <3>2, <3>4 DEF Agree
      <3>6. emitted # <<>> => emitted[Len(emitted)].wantNext = emitted'[1].want
        BY <2>1, <3>1, <3>3, <3>4 DEF Foreseen
      <3>7. Agree(emitted)'
        BY <3>5 DEF Agree
      <3> QED  BY <1>1, <2>1, <2>2, <3>5, <3>6, <3>7, AgreeJoin DEF Foreseen
    <2> QED  BY <2>3, <2>4
  <1>7. ASSUME UNCHANGED vars  PROVE Foreseen'
    BY <1>7 DEF vars, Foreseen, Agree, Attack
  <1>8. ASSUME NEW f \in Frame, Stash(f)
        PROVE  emitted' = <<>>
    BY <1>8 DEF Stash
  <1>9. Reset => emitted' = <<>>
    BY DEF Reset
  <1> QED  BY <1>3, <1>5, <1>6, <1>7, <1>8, <1>9 DEF Next

(***************************************************************************)
(* An attack seen in the lookahead is still there when its own granule is  *)
(* coded, by a later call or by the drain: no start window announces       *)
(* nothing.                                                                *)
(***************************************************************************)
THEOREM VerdictsKept == Spec => LookaheadKept
  <1>1. Init => Foreseen
    BY DEF Init, Foreseen
  <1>2. BInv /\ BInv' /\ Foreseen /\ [Next]_vars => Foreseen'
    BY LookaheadStep
  <1>3. BInv /\ BInv' /\ Foreseen /\ [Next]_vars => [Agree(emitted \o emitted')]_vars
    BY LookaheadStep
  <1> QED  BY <1>1, <1>2, <1>3, AlwaysBInv, PTL DEF Spec, LookaheadKept
=============================================================================
