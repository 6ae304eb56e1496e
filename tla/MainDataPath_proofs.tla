-------------------------- MODULE MainDataPath_proofs --------------------------
(***************************************************************************)
(* First the encoder's ring alone: for every byte rate, header size, reach *)
(* of main_data_begin and ring of at least eight slots, its panics are     *)
(* unreachable, at most seven frames stay pending, and the placed bytes    *)
(* have no gap.                                                            *)
(*                                                                         *)
(* Then encoder and decoder together, for every configuration, any sizes   *)
(* of coded frames, any number of frames, and a decoder that starts        *)
(* anywhere: a frame decodes to its own bytes, a decoder that has read     *)
(* everything loses nothing, one that joins late is in step after areas of *)
(* the cap's size, and no stale byte leaves the ring.                      *)
(*                                                                         *)
(* The argument there is that slots, files and the decoder's reservoir are *)
(* all windows on one main-data stream.  The stream is not a variable:     *)
(* what it holds and how frames lie in it is quantified in the invariant,  *)
(* as four functions of the frame number or of the position,               *)
(*   S[k]  where the area of frame k starts,                               *)
(*   B[k]  where its main data starts, S[k] - B[k] being main_data_begin,  *)
(*   C[k]  how much of it precedes the zero padding,                       *)
(*   G[p]  the byte at position p,                                         *)
(* and a step that codes a frame extends them.                             *)
(***************************************************************************)
EXTENDS MainDataPath, MCFrameFIFO, SequenceTheorems, TLAPS

(***************************************************************************)
(* Arithmetic of the configuration.                                        *)
(***************************************************************************)
LEMMA PaddingFacts ==
    ASSUME NEW a \in 0..SampleRate - 1
    PROVE  /\ PaddingBit(a) \in {0, 1}
           /\ PaddingNext(a) \in 0..SampleRate - 1
  BY RateAssumption DEF PaddingBit, PaddingNext, PaddingSum

LEMMA AreaFacts ==
    ASSUME NEW p \in {0, 1}
    PROVE  /\ FrameLength(p) \in Nat
           /\ MainAreaBytes(p) = FrameLength(p) - HeaderBytes
           /\ MainAreaBytes(p) \in Nat
           /\ MainAreaBytes(0) \in Nat \ {0}
           /\ MainAreaBytes(p) >= MainAreaBytes(0)
  BY RateAssumption, AreaAssumption DEF FrameLength, MainAreaBytes

LEMMA CapFacts ==
    /\ ResCapBytes \in Nat /\ ResCapBytes <= ResHardCapBytes
    /\ ResCapBytes <= 7 * MainAreaBytes(0)
  BY AreaFacts, LimitAssumption DEF ResCapBytes, MinOf

(***************************************************************************)
(* Ring indices.                                                           *)
(***************************************************************************)
LEMMA AtSplit ==
    ASSUME NEW h \in 0..FifoSlots - 1, NEW k \in 0..FifoSlots - 1
    PROVE  (h + k) % FifoSlots = IF h + k < FifoSlots THEN h + k ELSE h + k - FifoSlots
  BY FifoAssumption, SMT

LEMMA FirstIndex == 0 \in 0..FifoSlots - 1
  BY FifoAssumption

LEMMA RingIndex ==
    ASSUME head \in 0..FifoSlots - 1,
           NEW k \in 0..FifoSlots - 1, NEW l \in 0..FifoSlots - 1
    PROVE  /\ At(k) \in 0..FifoSlots - 1
           /\ At(0) = head
           /\ At(k) = At(l) => k = l
  <1>1. At(k) = IF head + k < FifoSlots THEN head + k ELSE head + k - FifoSlots
    BY AtSplit DEF At
  <1>2. At(l) = IF head + l < FifoSlots THEN head + l ELSE head + l - FifoSlots
    BY AtSplit DEF At
  <1>3. At(0) = head
    <2>1. (head + 0) % FifoSlots = IF head + 0 < FifoSlots THEN head + 0 ELSE head + 0 - FifoSlots
      BY FirstIndex, AtSplit, Zenon
    <2> QED BY <2>1, FifoAssumption DEF At
  <1> QED BY <1>1, <1>2, <1>3, FifoAssumption

\* Popping the oldest frame renumbers the others.
LEMMA PopIndex ==
    ASSUME head \in 0..FifoSlots - 1, Pop, NEW k \in 0..FifoSlots - 2
    PROVE  head' \in 0..FifoSlots - 1 /\ At(k)' = At(k + 1)
  <1> DEFINE h == (head + 1) % FifoSlots
  <1>1. h = IF head + 1 < FifoSlots THEN head + 1 ELSE head + 1 - FifoSlots
    BY FifoAssumption, SMT
  <1>2. h \in 0..FifoSlots - 1
    BY <1>1, FifoAssumption
  <1>3. (h + k) % FifoSlots = IF h + k < FifoSlots THEN h + k ELSE h + k - FifoSlots
    <2> HIDE DEF h
    <2> QED BY <1>2, AtSplit, FifoAssumption
  <1>4. At(k + 1) =
          IF head + (k + 1) < FifoSlots THEN head + (k + 1) ELSE head + (k + 1) - FifoSlots
    <2>1. k + 1 \in 0..FifoSlots - 1
      BY FifoAssumption
    <2> QED BY <2>1, AtSplit, Zenon DEF At
  <1>5. (h + k) % FifoSlots = At(k + 1)
    <2> HIDE DEF h
    <2> QED BY <1>1, <1>3, <1>4, FifoAssumption
  <1> QED BY <1>2, <1>5 DEF Pop, At

(***************************************************************************)
(* A step that leaves the ring alone keeps every frame where it is.        *)
(***************************************************************************)
LEMMA RingSame ==
    ASSUME UNCHANGED ring
    PROVE  Pending' = Pending /\ \A k : Nth(k)' = Nth(k)
  BY DEF ring, Pending, Nth, At

\* What the invariant says of any pending frame.
LEMMA SlotFacts ==
    ASSUME TypeOK, FifoSlots >= 8, NEW k \in Pending
    PROVE  /\ Nth(k) \in Slot /\ Nth(k).start \in Nat /\ Nth(k).fill \in Nat
           /\ AreaLen(Nth(k)) \in Int /\ AreaEnd(Nth(k)) \in Int
           /\ AreaEnd(Nth(k)) = Nth(k).start + AreaLen(Nth(k))
  <1>1. k \in 0..FifoSlots - 1
    BY FifoAssumption DEF TypeOK, Pending
  <1>2. At(k) \in 0..FifoSlots - 1
    BY <1>1, RingIndex DEF TypeOK
  <1>3. Nth(k) \in Slot
    BY <1>2 DEF TypeOK, Nth
  <1> QED BY <1>3, RateAssumption DEF AreaLen, AreaEnd, Slot

(***************************************************************************)
(* The initial state, and the state Reset restores.                        *)
(***************************************************************************)
LEMMA InitIInv == Init => IInv
  <1> SUFFICES ASSUME Init PROVE IInv
    OBVIOUS
  <1>1. TypeOK
    BY FirstIndex, RateAssumption, FifoAssumption DEF Init, TypeOK, Slot, EmptySlot
  <1>2. Pending = {}
    BY DEF Init, Pending
  <1>3. Position = total /\ Balance
    BY CapFacts DEF Init, Position, Balance
  <1> QED
    BY <1>1, <1>2, <1>3
    DEF Init, IInv, NoPanic, DepthBound, NoGap, Adjacent, Ordered, Wide, Reach, HeadOpen

(***************************************************************************)
(* Coding a frame: with at most seven pending there is a slot for it, and  *)
(* a spend within the legal bounds keeps occ in 0..ResCapBytes.            *)
(***************************************************************************)
LEMMA CodeFrameStep ==
    ASSUME FifoSlots >= 8, IInv, CodeFrame
    PROVE  IInv'
  <1>1. PICK m \in 0..HuffCap : Push(m)
    BY DEF CodeFrame
  <1> DEFINE p == PaddingBit(acc)
             a == MainAreaBytes(p)
             size == MaxOf(m, SpendLo(occ, a))
             new == [n |-> FrameLength(p), fill |-> 0, id |-> pushed, start |-> total]
  <1>2. pc = "idle" /\ TypeOK /\ count \in 0..7 /\ count # FifoSlots
    BY <1>1 DEF Push, IInv, DepthBound, TypeOK
  <1>3. /\ Adjacent /\ Ordered /\ Wide /\ Reach /\ NoGap
        /\ occ = total - written /\ occ \in 0..ResCapBytes
        /\ Position = written
    BY <1>2 DEF IInv, Live, Balance, Position, TypeOK
  <1>4. /\ p \in {0, 1} /\ PaddingNext(acc) \in 0..SampleRate - 1
        /\ FrameLength(p) \in Nat /\ a \in Nat /\ a >= MainAreaBytes(0)
        /\ a = FrameLength(p) - HeaderBytes
    BY <1>2, PaddingFacts, AreaFacts DEF TypeOK
  <1>5. slots' = [slots EXCEPT ![At(count)] = new]
    BY <1>1, <1>2 DEF Push
  <1>6. /\ acc' = PaddingNext(acc) /\ pushed' = pushed + 1
        /\ count' = count + 1 /\ total' = total + a
        /\ area' = a /\ len' = size /\ data' = size /\ i' = 0 /\ pc' = "place"
        /\ occ' = occ /\ head' = head /\ written' = written
        /\ m <= SpendHi(occ, a)
    BY <1>1, <1>2 DEF Push
  <1> HIDE DEF p, a
  <1>7. size \in Nat /\ occ + a - size \in 0..ResCapBytes
    BY <1>3, <1>4, <1>6, CapFacts DEF MaxOf, SpendLo, SpendHi
  <1>8. /\ new \in Slot /\ AreaLen(new) = a /\ AreaEnd(new) = total + a
        /\ new.start = total /\ new.fill = 0
    BY <1>2, <1>4, RateAssumption DEF Slot, AreaLen, AreaEnd, TypeOK
  <1> HIDE DEF size, new
  <1>9. PICK c \in 0..7 : c = count
    BY <1>2
  <1>10. c \in 0..FifoSlots - 1 /\ At(c) \in 0..FifoSlots - 1
    <2>1. c \in 0..FifoSlots - 1
      BY FifoAssumption
    <2> QED BY <2>1, <1>2, RingIndex DEF TypeOK
  <1>11. slots' \in [0..FifoSlots - 1 -> Slot]
    BY <1>2, <1>5, <1>8, <1>9, <1>10 DEF TypeOK
  <1>12. TypeOK'
    <2>1. head' \in 0..FifoSlots - 1 /\ count' \in 0..FifoSlots
      BY <1>2, <1>6, FifoAssumption DEF TypeOK
    <2>2. acc' \in 0..SampleRate - 1 /\ occ' \in Nat /\ area' \in Nat /\ len' \in Nat
      BY <1>2, <1>4, <1>6, <1>7 DEF TypeOK
    <2>3. data' \in Nat
      BY <1>6, <1>7
    <2>4. i' \in Nat
      BY <1>6
    <2>5. total' \in Nat
      BY <1>2, <1>4, <1>6 DEF TypeOK
    <2>6. written' \in Nat 
      BY <1>2, <1>6 DEF TypeOK
    <2>7. pushed' \in Nat 
      BY <1>2, <1>6 DEF TypeOK
    <2> QED BY <2>1, <2>2, <2>3, <2>4, <2>5, <2>6, <2>7, <1>6, <1>11 DEF TypeOK
  <1>13. Pending = 0..c - 1 /\ Pending' = 0..c
    BY <1>2, <1>6, <1>9 DEF Pending
  <1>14. Nth(c)' = new
    BY <1>2, <1>5, <1>6, <1>9, <1>10 DEF TypeOK, Nth, At
  <1>15. ASSUME NEW k \in Pending PROVE Nth(k)' = Nth(k)
    <2>1. k \in 0..FifoSlots - 1 /\ k # c
      BY <1>13, FifoAssumption
    <2>2. At(k) \in 0..FifoSlots - 1 /\ At(k) # At(c)
      BY <2>1, <1>2, <1>10, RingIndex DEF TypeOK
    <2> QED BY <2>2, <1>2, <1>5, <1>6, <1>9, <1>10 DEF TypeOK, Nth, At
  <1>16. Position' = written /\ Position' = Position
    BY <1>2, <1>3, <1>6, <1>7 DEF Position, TypeOK
  <1>17. \A k \in Pending : Nth(k).start \in Nat /\ AreaLen(Nth(k)) \in Int
                            /\ AreaEnd(Nth(k)) \in Int
                            /\ AreaEnd(Nth(k)) = Nth(k).start + AreaLen(Nth(k))
    BY <1>2, SlotFacts
  <1>18. /\ \A k : AreaLen(Nth(k))' = AreaLen(Nth(k)') /\ AreaEnd(Nth(k))' = AreaEnd(Nth(k)')
         /\ total = IF c = 0 THEN written ELSE AreaEnd(Nth(c - 1))
         /\ c > 0 => Nth(0).start <= written
    BY <1>3, <1>9 DEF Reach, AreaLen, AreaEnd
  <1>19. Adjacent' /\ Ordered' /\ Wide'
    <2>1. ASSUME NEW k \in Pending PROVE AreaEnd(Nth(k)) <= total
      <3>1. CASE k = c - 1
        <4>1. c # 0 /\ AreaEnd(Nth(k)) = AreaEnd(Nth(c - 1)) /\ AreaEnd(Nth(k)) \in Int
          BY <3>1, <1>13, <1>17
        <4> QED BY <4>1, <1>18
      <3>2. CASE k < c - 1
        <4>1. c - 1 \in Pending /\ k < c - 1
          BY <3>2, <1>13
        <4>2. AreaEnd(Nth(k)) <= Nth(c - 1).start
          BY <4>1, <1>3 DEF Ordered
        <4>3. AreaLen(Nth(c - 1)) >= 0
          BY <4>1, <1>3, <1>17, AreaFacts DEF Wide
        <4>4. /\ total = AreaEnd(Nth(c - 1)) /\ Nth(c - 1).start \in Nat
              /\ AreaEnd(Nth(c - 1)) = Nth(c - 1).start + AreaLen(Nth(c - 1))
              /\ AreaLen(Nth(c - 1)) \in Int /\ AreaEnd(Nth(k)) \in Int
          BY <4>1, <1>13, <1>17, <1>18
        <4> QED BY <4>2, <4>3, <4>4
      <3> QED BY <3>1, <3>2, <1>13
    <2>2. Adjacent'
      BY <1>3, <1>8, <1>13, <1>14, <1>15, <1>18 DEF Adjacent
    <2>3. Ordered'
      BY <2>1, <1>3, <1>8, <1>13, <1>14, <1>15, <1>18 DEF Ordered
    <2>4. Wide'
      BY <1>3, <1>4, <1>8, <1>13, <1>14, <1>15, <1>18 DEF Wide, MainAreaBytes, FrameLength
    <2> QED BY <2>2, <2>3, <2>4
  <1>20. Reach' /\ Balance'
    <2>1. Nth(0)'.start <= written
      BY <1>2, <1>8, <1>9, <1>13, <1>14, <1>15, <1>18 DEF TypeOK
    <2>2. count' - 1 = c /\ count' # 0
      BY <1>6, <1>9
    <2>3. AreaEnd(Nth(count - 1))' = total'
      BY <2>2, <1>6, <1>8, <1>14, <1>18 DEF Nth, At, AreaEnd, AreaLen
    <2>4. Reach'
      BY <2>1, <2>2, <2>3, <1>16 DEF Reach
    <2>5. Nth(i)'.start <= written
      BY <2>1, <1>6 DEF Nth, At
    <2>6. occ = total' - area' - written
      <3>1. occ = total - written /\ total \in Nat /\ written \in Nat
        BY <1>2, <1>3 DEF TypeOK
      <3>2. total' = total + a /\ area' = a /\ a \in Nat
        BY <1>4, <1>6
      <3> QED BY <3>1, <3>2
    <2>7. Balance'
      BY <2>2, <2>5, <2>6, <1>6, <1>7, <1>9, <1>16 DEF Balance
    <2> QED BY <2>4, <2>7
  <1>21. NoGap'
    <2> SUFFICES ASSUME NEW k \in Pending'
                 PROVE  Nth(k)'.fill = MaxOf(0, MinOf(AreaLen(Nth(k)'), written - Nth(k)'.start))
      BY <1>16, <1>18 DEF NoGap
    <2>1. CASE k = c
      <3>1. total - written >= 0 /\ total \in Nat /\ written \in Nat
        BY <1>2, <1>3, CapFacts DEF TypeOK
      <3>2. MaxOf(0, MinOf(a, written - total)) = 0
        BY <3>1, <1>4 DEF MaxOf, MinOf
      <3> QED BY <3>2, <2>1, <1>8, <1>14, Zenon
    <2>2. CASE k \in Pending
      BY <2>2, <1>2, <1>3, <1>15 DEF NoGap, Live
    <2> QED BY <2>1, <2>2, <1>13
  <1> QED
    BY <1>2, <1>6, <1>9, <1>12, <1>19, <1>20, <1>21 DEF IInv, NoPanic, DepthBound

(***************************************************************************)
(* One iteration of place: the frame it looks at is the one the stream has *)
(* reached, so what it takes is the run up to the end of that frame.       *)
(***************************************************************************)
LEMMA PlaceSlotStep ==
    ASSUME FifoSlots >= 8, IInv, PlaceSlot
    PROVE  IInv'
  <1> DEFINE take == MinOf(data, Room(Nth(i)))
  <1>1. /\ pc = "place" /\ i < count /\ data > 0 /\ pc' = "place"
        /\ data' = data - take /\ i' = i + 1
        /\ acc' = acc /\ occ' = occ /\ head' = head /\ count' = count
        /\ area' = area /\ len' = len /\ total' = total /\ written' = written
        /\ pushed' = pushed
    BY DEF PlaceSlot, Advance
  <1>2. slots' = [slots EXCEPT ![At(i)].fill = @ + take]
    BY DEF PlaceSlot
  <1>3. /\ TypeOK /\ Adjacent /\ Ordered /\ Wide /\ Reach /\ NoGap /\ count <= 8
        /\ occ = total - area - written /\ occ + area - len \in 0..ResCapBytes
        /\ data <= len /\ Position >= Nth(i).start
    BY <1>1 DEF IInv, Live, DepthBound, Balance, TypeOK
  <1>4. PICK m \in Pending : m = i
    BY <1>1, <1>3 DEF TypeOK, Pending
  <1>5. \A k \in Pending : /\ Nth(k) \in Slot /\ Nth(k).start \in Nat /\ Nth(k).fill \in Nat
                           /\ AreaLen(Nth(k)) \in Int /\ AreaEnd(Nth(k)) \in Int
                           /\ AreaEnd(Nth(k)) = Nth(k).start + AreaLen(Nth(k))
    BY <1>3, SlotFacts
  <1>6. \A k \in Pending : AreaLen(Nth(k)) \in Nat \ {0}
    BY <1>3, <1>5, AreaFacts DEF Wide
  <1>7. Position = written + len - data /\ Position \in Int
    BY <1>1, <1>3 DEF Position, TypeOK
  <1> DEFINE P == Position
             A == AreaLen(Nth(m))
             st == Nth(m).start
             f == Nth(m).fill
  <1>8. /\ A \in Nat \ {0} /\ st \in Nat /\ f \in Nat /\ P \in Int /\ P >= st
        /\ AreaEnd(Nth(m)) = st + A /\ data \in Nat \ {0}
    BY <1>1, <1>3, <1>4, <1>5, <1>6, <1>7 DEF TypeOK
  <1>9. f = MinOf(A, P - st)
    <2>1. f = MaxOf(0, MinOf(A, P - st))
      BY <1>1, <1>3, <1>4 DEF NoGap, Live
    <2> HIDE DEF P, A, st, f
    <2> QED BY <2>1, <1>8 DEF MaxOf, MinOf
  <1>10. take = MinOf(data, A - f)
    BY <1>4 DEF Room
  <1> HIDE DEF P, A, st, f, take
  <1>11. /\ take \in Nat /\ take <= data
         /\ f + take = MinOf(A, P + take - st)
         /\ take > 0 => P + take <= st + A
         /\ data - take > 0 => P + take >= st + A
    BY <1>8, <1>9, <1>10 DEF MinOf
  <1>12. Position' = P + take
    BY <1>1, <1>3, <1>7, <1>8, <1>11 DEF Position, P, TypeOK
  <1>13. Pending' = Pending /\ Pending \subseteq 0..FifoSlots - 1
    BY <1>1, <1>3, FifoAssumption DEF Pending, TypeOK
  <1>14. \A k \in Pending : At(k) \in 0..FifoSlots - 1 /\ (At(k) = At(m) => k = m)
    BY <1>3, <1>13, RingIndex DEF TypeOK
  <1>15. \A k : Nth(k)' = slots'[At(k)]
    BY <1>1 DEF Nth, At
  <1>16. ASSUME NEW k \in Pending, k # m PROVE Nth(k)' = Nth(k)
    <2>1. At(k) \in 0..FifoSlots - 1 /\ At(k) # At(m)
      BY <1>14, <1>16
    <2> QED BY <2>1, <1>2, <1>3, <1>4, <1>15 DEF Nth, TypeOK
  <1>17. Nth(m)' = [Nth(m) EXCEPT !.fill = @ + take]
    BY <1>2, <1>3, <1>4, <1>14, <1>15 DEF Nth, TypeOK
  <1>18. slots' \in [0..FifoSlots - 1 -> Slot]
    <2>1. [Nth(m) EXCEPT !.fill = @ + take] \in Slot
      BY <1>5, <1>11 DEF Slot
    <2> QED BY <2>1, <1>2, <1>3, <1>4, <1>14 DEF TypeOK, Nth
  <1>19. TypeOK'
    <2>1. data' \in Nat /\ i' \in Nat
      BY <1>1, <1>3, <1>11 DEF TypeOK
    <2> QED BY <2>1, <1>1, <1>3, <1>18 DEF TypeOK
  <1>20. \A k \in Pending : /\ Nth(k)'.n = Nth(k).n /\ Nth(k)'.start = Nth(k).start
                            /\ Nth(k)'.fill = IF k = m THEN f + take ELSE Nth(k).fill
    BY <1>5, <1>16, <1>17 DEF Slot, f
  <1>21. \A k \in Pending : /\ AreaLen(Nth(k))' = AreaLen(Nth(k))
                            /\ AreaEnd(Nth(k))' = AreaEnd(Nth(k))
    BY <1>20 DEF AreaLen, AreaEnd
  <1>22. Adjacent' /\ Ordered' /\ Wide'
    BY <1>3, <1>13, <1>20, <1>21 DEF Adjacent, Ordered, Wide, MainAreaBytes, FrameLength
  <1>23. 0 \in Pending /\ count - 1 \in Pending /\ count # 0
    BY <1>1, <1>3 DEF TypeOK, Pending
  <1>24. Reach'
    <2>1. AreaEnd(Nth(count - 1))' = total'
      BY <1>1, <1>3, <1>20, <1>21, <1>23 DEF Reach, Nth, At, AreaEnd, AreaLen
    <2>2. Nth(0)'.start <= P
      BY <1>3, <1>20, <1>23 DEF Reach, P
    <2>3. Nth(0)'.start \in Nat
      BY <1>5, <1>20, <1>23
    <2> QED BY <2>1, <2>2, <2>3, <1>1, <1>8, <1>11, <1>12, <1>23 DEF Reach
  <1>25. Balance'
    <2>1. occ' = total' - area' - written' /\ occ' + area' - len' \in 0..ResCapBytes
      BY <1>1, <1>3
    <2>2. data' <= len' /\ i' <= count'
      BY <1>1, <1>3, <1>8, <1>11 DEF TypeOK
    <2>3. ASSUME data' > 0, i' = count' PROVE Position' >= total'
      <3>1. P + take >= st + A
        BY <2>3, <1>1, <1>11
      <3>2. m = count - 1
        <4>1. m + 1 = count
          BY <2>3, <1>1, <1>4
        <4>2. m \in Int /\ count \in Int
          BY <1>3 DEF TypeOK, Pending
        <4> QED BY <4>1, <4>2
      <3>3. st + A = total
        BY <3>2, <1>3, <1>8, <1>23 DEF Reach
      <3> QED BY <3>1, <3>3, <1>1, <1>12
    <2>4. ASSUME data' > 0, i' # count' PROVE Position' >= Nth(i)'.start
      <3>1. P + take >= st + A
        BY <2>4, <1>1, <1>11
      <3>2. PICK l \in Pending : l = m + 1 /\ l = i'
        BY <2>4, <1>1, <1>3, <1>4 DEF TypeOK, Pending
      <3>3. Nth(l).start = st + A
        BY <3>2, <1>3, <1>4, <1>8 DEF Adjacent
      <3>4. Nth(i)' = Nth(l)'
        BY <3>2 DEF Nth, At
      <3>5. Nth(l)'.start = Nth(l).start
        BY <1>20
      <3> QED BY <3>1, <3>3, <3>4, <3>5, <1>12
    <2> QED BY <2>1, <2>2, <2>3, <2>4, <1>1 DEF Balance
  <1>26. NoGap'
    <2>1. ASSUME NEW k \in Pending
          PROVE  Nth(k)'.fill =
                     MaxOf(0, MinOf(AreaLen(Nth(k)), P + take - Nth(k).start))
      <3>1. CASE k = m
        <4>1. f + take = MaxOf(0, MinOf(A, P + take - st))
          BY <1>8, <1>11 DEF MaxOf, MinOf
        <4> QED BY <4>1, <3>1, <1>20 DEF A, st
      <3> DEFINE B == AreaLen(Nth(k))
                 s == Nth(k).start
      <3>2. B \in Nat /\ s \in Nat /\ AreaEnd(Nth(k)) = s + B
        BY <1>5, <1>6
      <3>3. k # m => Nth(k)'.fill = MaxOf(0, MinOf(B, P - s))
        BY <1>1, <1>3, <1>20 DEF NoGap, Live, P
      <3>4. CASE k < m
        <4>1. s + B <= st
          BY <3>2, <3>4, <1>3, <1>4 DEF Ordered, st
        <4> HIDE DEF B, s
        <4>2. MaxOf(0, MinOf(B, P - s)) = B /\ MaxOf(0, MinOf(B, P + take - s)) = B
          BY <4>1, <3>2, <1>8, <1>11 DEF MaxOf, MinOf
        <4>3. k # m
          BY <3>4, <1>4 DEF Pending
        <4> QED BY <4>2, <4>3, <3>3 DEF B, s
      <3>5. CASE m < k
        <4>1. st + A <= s
          BY <3>5, <1>3, <1>4, <1>8 DEF Ordered
        <4> HIDE DEF B, s
        <4>2. MaxOf(0, MinOf(B, P - s)) = MaxOf(0, MinOf(B, P + take - s))
          BY <4>1, <3>2, <1>8, <1>11 DEF MaxOf, MinOf
        <4>3. k # m
          BY <3>5, <1>4 DEF Pending
        <4> QED BY <4>2, <4>3, <3>3 DEF B, s
      <3>6. k \in Int /\ m \in Int
        BY DEF Pending
      <3> QED BY <3>1, <3>4, <3>5, <3>6
    <2>2. ASSUME NEW k \in Pending
          PROVE  Nth(k)'.fill = MaxOf(0, MinOf(AreaLen(Nth(k))', Position' - Nth(k)'.start))
      <3>1. Nth(k)'.start = Nth(k).start /\ Nth(k).start \in Nat
        BY <1>5, <1>20
      <3>2. AreaLen(Nth(k))' = AreaLen(Nth(k)) /\ Position' = P + take
        BY <1>12, <1>21
      <3> DEFINE s == Nth(k)'.start
      <3>3. P + take - Nth(k).start = Position' - s
        BY <3>1, <3>2, <1>8, <1>11
      <3> HIDE DEF s
      <3>4. Nth(k)'.fill = MaxOf(0, MinOf(AreaLen(Nth(k))', Position' - s))
        BY <2>1, <3>2, <3>3
      <3> QED BY <3>4 DEF s
    <2> QED BY <2>2, <1>13 DEF NoGap
  <1> QED
    BY <1>1, <1>3, <1>19, <1>22, <1>24, <1>25, <1>26 DEF IInv, NoPanic, DepthBound

(***************************************************************************)
(* A step that keeps the ring and the position keeps what is said of them. *)
(***************************************************************************)
LEMMA RingKept ==
    ASSUME UNCHANGED ring, Position' = Position, total' = total,
           Adjacent, Ordered, Wide, Reach, NoGap, Live
    PROVE  Adjacent' /\ Ordered' /\ Wide' /\ Reach' /\ NoGap'
  <1>1. Pending' = Pending /\ (\A k : Nth(k)' = Nth(k)) /\ count' = count
    BY RingSame DEF ring
  <1>2. \A k : AreaLen(Nth(k))' = AreaLen(Nth(k)) /\ AreaEnd(Nth(k))' = AreaEnd(Nth(k))
    BY <1>1 DEF AreaLen, AreaEnd
  <1>3. AreaEnd(Nth(count - 1))' = AreaEnd(Nth(count - 1))
    BY <1>1, <1>2 DEF Nth, At, AreaEnd, AreaLen, ring
  <1>4. Adjacent' /\ Ordered' /\ Wide'
    BY <1>1, <1>2 DEF Adjacent, Ordered, Wide, MainAreaBytes, FrameLength
  <1>5. Reach'
    BY <1>1, <1>3 DEF Reach
  <1>6. NoGap'
    BY <1>1, <1>2 DEF NoGap
  <1> QED BY <1>4, <1>5, <1>6

(***************************************************************************)
(* commitFrame: the spend was within the areas coded, so place has no      *)
(* bytes left when it runs out of frames.                                  *)
(***************************************************************************)
LEMMA CommitStep ==
    ASSUME FifoSlots >= 8, IInv, Commit
    PROVE  IInv'
  <1>1. /\ pc = "place" /\ (i = count \/ data = 0)
        /\ UNCHANGED <<acc, ring, locals, total, pushed>>
    BY DEF Commit
  <1>2. /\ TypeOK /\ Adjacent /\ Ordered /\ Wide /\ Reach /\ NoGap /\ Live /\ count <= 8
        /\ Balance
    BY <1>1 DEF IInv, Live, DepthBound, TypeOK
  <1>3. /\ occ = total - area - written /\ occ + area - len \in 0..ResCapBytes
        /\ data <= len /\ Position = written + (len - data)
        /\ (i = count /\ data > 0) => Position >= total
    BY <1>1, <1>2 DEF Balance, Position
  <1>4. data = 0
    <2>1. SUFFICES ASSUME data > 0, i = count PROVE FALSE
      BY <1>1, <1>2 DEF TypeOK
    <2> QED BY <2>1, <1>2, <1>3, CapFacts DEF TypeOK
  <1>5. pc' = "flush" /\ occ' = occ + area - len /\ written' = written + len
    BY <1>4 DEF Commit
  <1>6. Position' = Position /\ occ' = total' - written' /\ occ' \in 0..ResCapBytes
    BY <1>1, <1>2, <1>3, <1>4, <1>5 DEF Position, TypeOK
  <1>7. Adjacent' /\ Ordered' /\ Wide' /\ Reach' /\ NoGap'
    BY <1>1, <1>2, <1>6, RingKept
  <1>8. TypeOK'
    <2>1. occ' \in Nat /\ written' \in Nat
      BY <1>2, <1>5, <1>6, CapFacts DEF TypeOK
    <2> QED BY <2>1, <1>1, <1>2, <1>5 DEF TypeOK, ring, locals
  <1>9. Balance' /\ DepthBound' /\ NoPanic' /\ pc' # "idle"
    BY <1>1, <1>2, <1>5, <1>6 DEF Balance, DepthBound, NoPanic, ring, ResCapBytes, MainAreaBytes, FrameLength
  <1> QED BY <1>7, <1>8, <1>9 DEF IInv

(***************************************************************************)
(* flushInto: the complete oldest frame leaves; the stream has covered it, *)
(* so it has reached the next one.                                         *)
(***************************************************************************)
LEMMA FlushSlotStep ==
    ASSUME FifoSlots >= 8, IInv, FlushSlot
    PROVE  IInv'
  <1>1. /\ pc = "flush" /\ pc' = "flush" /\ count > 0 /\ Complete(slots[head]) /\ Pop
        /\ count' = count - 1
        /\ UNCHANGED <<acc, occ, slots, locals, total, written, pushed>>
    BY DEF FlushSlot, Pop
  <1>2. /\ TypeOK /\ Adjacent /\ Ordered /\ Wide /\ Reach /\ NoGap /\ count <= 8
        /\ occ = total - written /\ occ \in 0..ResCapBytes /\ Position = written
    BY <1>1 DEF IInv, Live, DepthBound, Balance, Position, TypeOK
  <1>3. count \in 1..8 /\ Pending = 0..count - 1 /\ Pending' = 0..count - 2
    BY <1>1, <1>2 DEF Pending, TypeOK
  <1>4. \A k \in Pending : /\ Nth(k) \in Slot /\ Nth(k).start \in Nat /\ Nth(k).fill \in Nat
                           /\ AreaLen(Nth(k)) \in Int /\ AreaEnd(Nth(k)) \in Int
                           /\ AreaEnd(Nth(k)) = Nth(k).start + AreaLen(Nth(k))
    BY <1>2, SlotFacts
  <1>5. head' \in 0..FifoSlots - 1
    <2>1. 0 \in 0..FifoSlots - 2
      BY FifoAssumption
    <2> QED BY <2>1, <1>1, <1>2, PopIndex DEF TypeOK
  <1>6. ASSUME NEW k \in Pending' PROVE Nth(k)' = Nth(k + 1) /\ k + 1 \in Pending
    <2>1. k \in 0..FifoSlots - 2
      BY <1>3, FifoAssumption
    <2>2. At(k)' = At(k + 1)
      BY <2>1, <1>1, <1>2, PopIndex DEF TypeOK
    <2> QED BY <2>2, <1>1, <1>3 DEF Nth
  <1>7. Nth(0).start <= written /\ AreaEnd(Nth(0)) <= written
    <2>1. 0 \in Pending /\ At(0) = head
      BY <1>2, <1>3, FirstIndex, RingIndex DEF TypeOK
    <2>2. Nth(0).fill = AreaLen(Nth(0))
      BY <2>1, <1>1, <1>4, RateAssumption DEF Complete, AreaLen, Nth, Slot
    <2>3. Nth(0).fill = MaxOf(0, MinOf(AreaLen(Nth(0)), written - Nth(0).start))
      BY <2>1, <1>1, <1>2 DEF NoGap, Live
    <2>4. AreaLen(Nth(0)) >= MainAreaBytes(0) /\ MainAreaBytes(0) \in Nat \ {0}
      BY <2>1, <1>2, AreaFacts DEF Wide
    <2>5. Nth(0).start \in Nat /\ AreaLen(Nth(0)) \in Int /\ written \in Nat
      BY <2>1, <1>2, <1>4 DEF TypeOK
    <2> QED BY <2>1, <2>2, <2>3, <2>4, <2>5, <1>4 DEF MaxOf, MinOf
  <1>8. /\ \A k \in Pending' : /\ AreaLen(Nth(k))' = AreaLen(Nth(k + 1))
                               /\ AreaEnd(Nth(k))' = AreaEnd(Nth(k + 1))
        /\ Position' = written
    <2>1. Position' = written
      BY <1>1, <1>2 DEF Position, TypeOK
    <2>2. ASSUME NEW k \in Pending'
          PROVE  /\ AreaLen(Nth(k))' = AreaLen(Nth(k + 1))
                 /\ AreaEnd(Nth(k))' = AreaEnd(Nth(k + 1))
      BY <1>6 DEF AreaLen, AreaEnd
    <2> QED BY <2>1, <2>2
  <1>9. TypeOK'
    <2>1. count' \in 0..FifoSlots
      BY <1>1, <1>3, FifoAssumption
    <2> QED BY <2>1, <1>1, <1>2, <1>5 DEF TypeOK, locals
  <1>10. Adjacent'
    <2> SUFFICES ASSUME NEW k \in Pending', k + 1 \in Pending'
                 PROVE  Nth(k + 1)'.start = AreaEnd(Nth(k))'
      BY DEF Adjacent
    <2>1. k + 1 + 1 \in Pending /\ k + 1 \in Pending /\ Nth(k + 1)' = Nth(k + 1 + 1)
      BY <1>6
    <2>2. Nth(k + 1 + 1).start = AreaEnd(Nth(k + 1))
      BY <2>1, <1>2 DEF Adjacent
    <2> QED BY <2>1, <2>2, <1>8
  <1>11. Ordered'
    <2> SUFFICES ASSUME NEW k \in Pending', NEW l \in Pending', k < l
                 PROVE  AreaEnd(Nth(k))' <= Nth(l)'.start
      BY DEF Ordered
    <2>1. k + 1 \in Pending /\ l + 1 \in Pending /\ k + 1 < l + 1 /\ Nth(l)' = Nth(l + 1)
      BY <1>3, <1>6
    <2>2. AreaEnd(Nth(k + 1)) <= Nth(l + 1).start
      BY <2>1, <1>2 DEF Ordered
    <2> QED BY <2>1, <2>2, <1>8
  <1>12. Wide'
    BY <1>2, <1>6, <1>8 DEF Wide, MainAreaBytes, FrameLength
  <1>13. NoGap'
    <2> SUFFICES ASSUME NEW k \in Pending'
                 PROVE  Nth(k)'.fill = MaxOf(0, MinOf(AreaLen(Nth(k))', written - Nth(k)'.start))
      BY <1>8 DEF NoGap
    <2>1. k + 1 \in Pending /\ Nth(k)' = Nth(k + 1) /\ AreaLen(Nth(k))' = AreaLen(Nth(k + 1))
      BY <1>6, <1>8
    <2>2. Nth(k + 1).fill = MaxOf(0, MinOf(AreaLen(Nth(k + 1)), written - Nth(k + 1).start))
      BY <2>1, <1>1, <1>2 DEF NoGap, Live
    <2> QED BY <2>1, <2>2
  <1>14. Reach'
    <2>1. CASE count = 1
      <3>1. AreaEnd(Nth(0)) = total
        BY <2>1, <1>2 DEF Reach
      <3>2. written = total
        BY <3>1, <1>2, <1>7, CapFacts DEF TypeOK
      <3> QED BY <3>2, <2>1, <1>1, <1>8 DEF Reach
    <2>2. CASE count # 1
      <3>1. 0 \in Pending' /\ count - 2 \in Pending' /\ 1 \in Pending /\ 0 \in Pending
        BY <2>2, <1>3
      <3>2. Nth(0)'.start <= written
        BY <3>1, <1>2, <1>6, <1>7 DEF Adjacent
      <3>3. PICK c \in Pending' : c = count - 2
        BY <3>1
      <3>4. AreaEnd(Nth(c))' = total
        BY <3>3, <1>2, <1>3, <1>8 DEF Reach
      <3>5. AreaEnd(Nth(count - 1))' = AreaEnd(Nth(c))'
        BY <3>3, <1>1, <1>3 DEF Nth, At, AreaEnd, AreaLen
      <3> QED BY <2>2, <3>2, <3>4, <3>5, <1>1, <1>3, <1>8 DEF Reach
    <2> QED BY <2>1, <2>2
  <1>15. Balance' /\ DepthBound' /\ NoPanic' /\ pc' # "idle"
    BY <1>1, <1>2, <1>3 DEF Balance, DepthBound, NoPanic, ResCapBytes, MainAreaBytes, FrameLength
  <1> QED BY <1>9, <1>10, <1>11, <1>12, <1>13, <1>14, <1>15 DEF IInv

(***************************************************************************)
(* The end of flushInto.  Eight frames pending behind an incomplete one    *)
(* would leave more than seven areas between the stream and the end of the *)
(* last area, which is more than the cap lets occ be.                      *)
(***************************************************************************)
LEMMA FlushDoneStep ==
    ASSUME FifoSlots >= 8, IInv, FlushDone
    PROVE  IInv'
  <1>1. /\ pc = "flush" /\ pc' = "idle" /\ (count = 0 \/ ~Complete(slots[head]))
        /\ UNCHANGED <<acc, occ, ring, locals, total, written, pushed>>
    BY DEF FlushDone
  <1>2. /\ TypeOK /\ Adjacent /\ Ordered /\ Wide /\ Reach /\ NoGap /\ Live /\ count \in 0..8
        /\ occ = total - written /\ occ \in 0..ResCapBytes /\ Position = written
    BY <1>1 DEF IInv, Live, DepthBound, Balance, Position, TypeOK
  <1>3. \A k \in Pending : /\ Nth(k) \in Slot /\ Nth(k).start \in Nat /\ Nth(k).fill \in Nat
                           /\ AreaLen(Nth(k)) \in Int /\ AreaEnd(Nth(k)) \in Int
                           /\ AreaEnd(Nth(k)) = Nth(k).start + AreaLen(Nth(k))
    BY <1>2, SlotFacts
  <1>4. HeadOpen
    <2>1. SUFFICES ASSUME count > 0 PROVE written < AreaEnd(Nth(0))
      BY <1>2 DEF HeadOpen
    <2>2. 0 \in Pending /\ At(0) = head
      BY <2>1, <1>2, FirstIndex, RingIndex DEF TypeOK, Pending
    <2>3. Nth(0).fill # AreaLen(Nth(0))
      BY <2>1, <2>2, <1>1, <1>3, RateAssumption DEF Complete, AreaLen, Nth, Slot
    <2>4. Nth(0).fill = MaxOf(0, MinOf(AreaLen(Nth(0)), written - Nth(0).start))
      BY <2>2, <1>2 DEF NoGap
    <2>5. AreaLen(Nth(0)) >= MainAreaBytes(0) /\ MainAreaBytes(0) \in Nat \ {0}
      BY <2>2, <1>2, AreaFacts DEF Wide
    <2>6. Nth(0).start \in Nat /\ AreaLen(Nth(0)) \in Int /\ written \in Nat
      BY <2>2, <1>2, <1>3 DEF TypeOK
    <2> QED BY <2>2, <2>3, <2>4, <2>5, <2>6, <1>3 DEF MaxOf, MinOf
  <1>5. count # 8
    <2>1. SUFFICES ASSUME count = 8 PROVE FALSE
      OBVIOUS
    <2>2. Pending = 0..7
      BY <2>1 DEF Pending
    <2>3. \A k \in 0..7 : AreaEnd(Nth(k)) >= Nth(k).start + MainAreaBytes(0)
      BY <2>2, <1>2, <1>3, AreaFacts DEF Wide
    <2>4. \A k \in 0..6 : Nth(k + 1).start = AreaEnd(Nth(k))
      BY <2>2, <1>2 DEF Adjacent
    <2>5. \A k \in 0..6 : AreaEnd(Nth(k + 1)) >= AreaEnd(Nth(k)) + MainAreaBytes(0)
      BY <2>3, <2>4
    <2> DEFINE w == MainAreaBytes(0)
               end(k) == AreaEnd(Nth(k))
    <2>6. \A k \in 0..7 : end(k) \in Int
      BY <2>2, <1>3
    <2>7. w \in Nat \ {0}
      BY AreaFacts
    <2>11. total - written <= 7 * w
      <3>1. total - written \in Int /\ total - written <= ResCapBytes
        BY <1>2, CapFacts DEF TypeOK
      <3> QED BY <3>1, <2>7, CapFacts
    <2> HIDE DEF w, end
    <2>8. /\ end(1) >= end(0) + w /\ end(2) >= end(1) + w /\ end(3) >= end(2) + w
          /\ end(4) >= end(3) + w /\ end(5) >= end(4) + w /\ end(6) >= end(5) + w
          /\ end(7) >= end(6) + w
      BY <2>5 DEF end, w
    <2>9. end(7) >= end(0) + 7 * w
      BY <2>6, <2>7, <2>8
    <2>10. total = end(7) /\ written < end(0)
      BY <2>1, <1>2, <1>4 DEF Reach, HeadOpen, end
    <2>12. total \in Nat /\ written \in Nat
      BY <1>2 DEF TypeOK
    <2> QED BY <2>6, <2>7, <2>9, <2>10, <2>11, <2>12
  <1>6. Position' = Position
    BY <1>1, <1>2 DEF Position
  <1>7. Adjacent' /\ Ordered' /\ Wide' /\ Reach' /\ NoGap'
    BY <1>1, <1>2, <1>6, RingKept
  <1>8. HeadOpen'
    <2>1. count' = count /\ \A k : Nth(k)' = Nth(k)
      BY <1>1, RingSame DEF ring
    <2> QED BY <2>1, <1>4, <1>6 DEF HeadOpen, AreaEnd, AreaLen
  <1>9. TypeOK'
    BY <1>1, <1>2 DEF TypeOK, ring, locals
  <1>10. Balance' /\ DepthBound' /\ NoPanic'
    BY <1>1, <1>2, <1>5 DEF Balance, DepthBound, NoPanic, ring, ResCapBytes, MainAreaBytes, FrameLength
  <1> QED BY <1>7, <1>8, <1>9, <1>10 DEF IInv

(***************************************************************************)
(* The drain leaves the stream behind: only the ring's own bounds matter.  *)
(***************************************************************************)
LEMMA DrainSteps ==
    ASSUME FifoSlots >= 8, IInv, Drain \/ FlushAllSlot \/ FlushAllDone
    PROVE  IInv'
  <1>1. TypeOK /\ DepthBound /\ NoPanic
    BY DEF IInv
  <1>2. CASE Drain
    <2>1. TypeOK' /\ DepthBound' /\ pc' = "flushAll"
      BY <1>1, <1>2 DEF Drain, TypeOK, DepthBound, ring, locals
    <2> QED BY <2>1 DEF IInv, NoPanic, NoGap, Live
  <1>3. CASE FlushAllSlot
    <2>1. /\ pc = "flushAll" /\ pc' = "flushAll" /\ count > 0 /\ Pop /\ count' = count - 1
          /\ UNCHANGED <<acc, occ, slots, locals, total, written, pushed>>
      BY <1>3, <1>1 DEF FlushAllSlot, FlushedAll, Pop, TypeOK
    <2>2. 0 \in 0..FifoSlots - 2
      BY FifoAssumption
    <2>3. head' \in 0..FifoSlots - 1
      BY <2>1, <2>2, <1>1, PopIndex DEF TypeOK
    <2>4. count' \in 0..FifoSlots /\ count' <= 8
      <3>1. count \in 0..FifoSlots /\ count <= 8
        BY <1>1, <2>1 DEF TypeOK, DepthBound
      <3> QED BY <3>1, <2>1, FifoAssumption
    <2>5. TypeOK'
      BY <2>1, <2>3, <2>4, <1>1 DEF TypeOK, locals
    <2> QED BY <2>1, <2>4, <2>5 DEF IInv, NoPanic, NoGap, Live, DepthBound
  <1>4. CASE FlushAllDone
    <2>1. TypeOK' /\ DepthBound' /\ pc' = "drained"
      BY <1>1, <1>4 DEF FlushAllDone, TypeOK, DepthBound, ring, locals
    <2> QED BY <2>1 DEF IInv, NoPanic, NoGap, Live
  <1> QED BY <1>2, <1>3, <1>4

LEMMA ResetStep == Reset => IInv'
  <1> SUFFICES ASSUME Reset PROVE IInv'
    OBVIOUS
  <1>1. TypeOK'
    BY FirstIndex, RateAssumption, FifoAssumption DEF Reset, TypeOK, Slot, EmptySlot
  <1>2. Pending' = {} /\ count' = 0 /\ pc' = "idle"
    BY DEF Reset, Pending
  <1>3. Position' = total' /\ Balance'
    BY CapFacts DEF Reset, Position, Balance, ResCapBytes, MainAreaBytes, FrameLength
  <1>4. Adjacent' /\ Ordered' /\ Wide' /\ NoGap'
    BY <1>2 DEF Adjacent, Ordered, Wide, NoGap
  <1> QED
    BY <1>1, <1>2, <1>3, <1>4 DEF IInv, NoPanic, DepthBound, Reach, HeadOpen

LEMMA StutterStep == IInv /\ UNCHANGED vars => IInv'
  <1> SUFFICES ASSUME IInv, UNCHANGED vars PROVE IInv'
    OBVIOUS
  <1>1. UNCHANGED <<acc, occ, slots, head, count, pc, area, len, data, i, total, written, pushed>>
    BY DEF vars
  <1>2. TypeOK' /\ NoPanic' /\ DepthBound' /\ (NoGap /\ ~Live => NoGap')
    BY <1>1 DEF IInv, TypeOK, NoPanic, DepthBound, NoGap, Live
  <1>3. Position' = Position /\ UNCHANGED ring /\ Live' = Live
    BY <1>1 DEF Position, ring, Live
  <1>4. CASE Live
    <2>1. Adjacent' /\ Ordered' /\ Wide' /\ Reach' /\ NoGap'
      BY <1>1, <1>3, <1>4, RingKept DEF IInv
    <2>2. Balance' /\ (pc' = "idle" => HeadOpen')
      <3>1. \A k : Nth(k)' = Nth(k)
        BY <1>3, RingSame
      <3> QED
        BY <3>1, <1>1, <1>3, <1>4
        DEF IInv, Balance, HeadOpen, AreaEnd, AreaLen, Nth, At, ResCapBytes, MainAreaBytes, FrameLength
    <2> QED BY <2>1, <2>2, <1>2 DEF IInv
  <1>5. CASE ~Live
    BY <1>1, <1>2, <1>3, <1>5 DEF IInv, Live
  <1> QED BY <1>4, <1>5
-----------------------------------------------------------------------------
\* Every step of the ring and its loops preserves the invariant.
LEMMA NextStep ==
    ASSUME FifoSlots >= 8, IInv, [Next]_vars
    PROVE  IInv'
  BY CodeFrameStep, PlaceSlotStep, CommitStep, FlushSlotStep, FlushDoneStep, DrainSteps,
     ResetStep, StutterStep
  DEF Next, Step

(***************************************************************************)
(* The inductive invariant holds in every state: of any configuration, and *)
(* of any ring of at least eight slots (the code has twelve).              *)
(***************************************************************************)
THEOREM Inductive ==
    ASSUME FifoSlots >= 8
    PROVE  Spec => []IInv
  <1>1. Init => IInv
    BY InitIInv
  <1>2. IInv /\ [Next]_vars => IInv'
    BY NextStep
  <1> QED BY <1>1, <1>2, PTL DEF Spec

(***************************************************************************)
(* Neither of the ring's panics is reachable.                              *)
(***************************************************************************)
THEOREM PanicFree ==
    ASSUME FifoSlots >= 8
    PROVE  Spec => []NoPanic
  <1>1. IInv => NoPanic
    BY DEF IInv
  <1> QED BY <1>1, Inductive, PTL

(***************************************************************************)
(* At most seven frames are pending between calls, and at most eight       *)
(* inside one.                                                             *)
(***************************************************************************)
THEOREM DepthBounded ==
    ASSUME FifoSlots >= 8
    PROVE  Spec => []DepthBound
  <1>1. IInv => DepthBound
    BY DEF IInv
  <1> QED BY <1>1, Inductive, PTL

(***************************************************************************)
(* The main data placed in the pending areas is one contiguous run of the  *)
(* stream.                                                                 *)
(***************************************************************************)
THEOREM Contiguous ==
    ASSUME FifoSlots >= 8
    PROVE  Spec => []NoGap
  <1>1. IInv => NoGap
    BY DEF IInv
  <1> QED BY <1>1, Inductive, PTL

(***************************************************************************)
(* Type correctness.                                                       *)
(***************************************************************************)
THEOREM TypeCorrect ==
    ASSUME FifoSlots >= 8
    PROVE  Spec => []TypeOK
  <1>1. IInv => TypeOK
    BY DEF IInv
  <1> QED BY <1>1, Inductive, PTL
-----------------------------------------------------------------------------
(***************************************************************************)
(* Occupancy.  Between calls the room of the first k pending frames is the *)
(* distance from the stream to the end of the k-th area, for the areas are *)
(* adjacent and the stream has reached the oldest; so the sum over all of  *)
(* them is the distance to `total', which is occ.                          *)
(***************************************************************************)
LEMMA RoomSums ==
    ASSUME FifoSlots >= 8, IInv, pc = "idle"
    PROVE  Unfilled = total - written
  <1> DEFINE Equation(f) ==
               f = [k \in 0..count |-> IF k = 0 THEN 0 ELSE f[k - 1] + Room(Nth(k - 1))]
             sums == [k \in 0..count |->
                        IF k = 0 THEN 0 ELSE MaxOf(0, AreaEnd(Nth(k - 1)) - written)]
  <1>1. /\ TypeOK /\ NoGap /\ Adjacent /\ Reach /\ Balance /\ Position = written
        /\ count \in 0..7 /\ written \in Nat /\ total \in Nat /\ written <= total
    BY CapFacts DEF IInv, Live, Position, DepthBound, TypeOK, Balance
  <1>2. ASSUME NEW k \in Pending
        PROVE  /\ AreaEnd(Nth(k)) \in Int /\ Nth(k).start \in Nat
               /\ Room(Nth(k)) = MaxOf(0, AreaEnd(Nth(k)) - written)
                                  - MaxOf(0, Nth(k).start - written)
    <2>1. /\ Nth(k).start \in Nat /\ AreaLen(Nth(k)) \in Int /\ AreaEnd(Nth(k)) \in Int
          /\ AreaEnd(Nth(k)) = Nth(k).start + AreaLen(Nth(k))
      BY <1>1, SlotFacts
    <2>2. Nth(k).fill = MaxOf(0, MinOf(AreaLen(Nth(k)), written - Nth(k).start))
      BY <1>1 DEF NoGap, Live
    <2>3. AreaLen(Nth(k)) >= 0
      <3>1. AreaLen(Nth(k)) >= MainAreaBytes(0) /\ MainAreaBytes(0) \in Nat
        BY AreaFacts DEF IInv, Live, Wide
      <3> QED  BY <2>1, <3>1
    <2> QED  BY <1>1, <2>1, <2>2, <2>3 DEF Room, MaxOf, MinOf
  <1>3. Equation(sums)
    <2> SUFFICES ASSUME NEW k \in 1..count
                 PROVE  sums[k] = sums[k - 1] + Room(Nth(k - 1))
      <3>1. sums[0] = 0 /\ \A k \in 0..count : k = 0 \/ k \in 1..count
        BY <1>1
      <3>2. sums = [k \in 0..count |-> sums[k]]
        OBVIOUS
      <3>3. \A k \in 0..count : sums[k] = IF k = 0 THEN 0 ELSE sums[k - 1] + Room(Nth(k - 1))
        <4> HIDE DEF sums
        <4> QED  BY <3>1
      <3> HIDE DEF sums
      <3>4. [k \in 0..count |-> sums[k]] =
              [k \in 0..count |-> IF k = 0 THEN 0 ELSE sums[k - 1] + Room(Nth(k - 1))]
        BY <3>3
      <3> QED  BY <3>2, <3>4 DEF Equation
    <2>1. k - 1 \in Pending /\ k \in Int /\ k - 1 \in 0..count /\ k \in 0..count
      BY <1>1 DEF Pending
    <2>2. Room(Nth(k - 1)) = MaxOf(0, AreaEnd(Nth(k - 1)) - written)
                             - MaxOf(0, Nth(k - 1).start - written)
          /\ AreaEnd(Nth(k - 1)) \in Int /\ Nth(k - 1).start \in Nat
      BY <1>2, <2>1
    <2>3. sums[k] = MaxOf(0, AreaEnd(Nth(k - 1)) - written)
      BY <2>1
    <2>4. sums[k - 1] = MaxOf(0, Nth(k - 1).start - written)
      <3>1. CASE k = 1
        <4>1. Nth(0).start <= written
          BY <1>1 DEF Reach
        <4>2. k - 1 = 0
          BY <3>1
        <4> QED  BY <1>1, <2>1, <2>2, <4>1, <4>2 DEF MaxOf
      <3>2. CASE k # 1
        <4>1. k - 2 \in Pending /\ k - 2 + 1 = k - 1 /\ k - 1 # 0 /\ (k - 1) - 1 = k - 2
          BY <1>1, <3>2 DEF Pending
        <4>2. Nth(k - 1).start = AreaEnd(Nth(k - 2))
          BY <1>1, <2>1, <4>1 DEF Adjacent
        <4> QED  BY <2>1, <4>1, <4>2
      <3> QED  BY <3>1, <3>2
    <2> HIDE DEF sums
    <2>5. MaxOf(0, AreaEnd(Nth(k - 1)) - written) \in Int /\ MaxOf(0, Nth(k - 1).start - written) \in Int
      BY <1>1, <2>2 DEF MaxOf
    <2> QED  BY <2>2, <2>3, <2>4, <2>5
  <1>4. PICK f : Equation(f) /\ Unfilled = f[count]
    BY <1>3 DEF Unfilled
  <1> HIDE DEF Equation
  <1>5. f[0] = sums[0] /\ \A k \in 1..count : f[k - 1] = sums[k - 1] => f[k] = sums[k]
    <2>1. ASSUME NEW g, Equation(g)
          PROVE  g[0] = 0 /\ \A k \in 1..count : g[k] = g[k - 1] + Room(Nth(k - 1))
      <3> DEFINE rule == [k \in 0..count |-> IF k = 0 THEN 0 ELSE g[k - 1] + Room(Nth(k - 1))]
      <3>1. g = rule
        BY <2>1 DEF Equation
      <3>2. rule[0] = 0 /\ \A k \in 1..count : rule[k] = g[k - 1] + Room(Nth(k - 1))
        BY <1>1
      <3> HIDE DEF rule
      <3> QED  BY <3>1, <3>2
    <2> HIDE DEF sums
    <2> QED  BY <1>3, <1>4, <2>1
  <1> HIDE DEF sums
  <1>6. f[count] = sums[count]
    BY <1>1, <1>5
  <1>7. sums[count] = total - written
    <2>1. CASE count = 0
      BY <1>1, <2>1 DEF sums, Reach
    <2>2. CASE count # 0
      <3>1. count - 1 \in Pending
        BY <1>1, <2>2 DEF Pending
      <3>2. AreaEnd(Nth(count - 1)) = total
        BY <1>1, <2>2 DEF Reach
      <3> QED  BY <1>1, <2>2, <3>2 DEF sums, MaxOf
    <2> QED  BY <2>1, <2>2
  <1> QED  BY <1>4, <1>6, <1>7

(***************************************************************************)
(* Between calls the reservoir's counter is the room the pending frames    *)
(* have left, and within reach of main_data_begin.                         *)
(***************************************************************************)
THEOREM OccupancyExact ==
    ASSUME FifoSlots >= 8
    PROVE  Spec => []OccupancyIsUnfilled
  <1>1. IInv => OccupancyIsUnfilled
    <2> SUFFICES ASSUME IInv, pc = "idle"
                 PROVE  occ = Unfilled /\ occ <= ResCapBytes /\ occ <= ResHardCapBytes
      BY DEF OccupancyIsUnfilled
    <2>1. occ = total - written /\ occ \in 0..ResCapBytes
      BY DEF IInv, Live, Balance
    <2> QED  BY <2>1, RoomSums, CapFacts, LimitAssumption
  <1> QED  BY <1>1, Inductive, PTL
-----------------------------------------------------------------------------
(***************************************************************************)
(* Bitrate.  The quotient and remainder of the byte rate, one frame on.    *)
(***************************************************************************)
LEMMA FrameAccount ==
    ASSUME NEW a \in 0..SampleRate - 1
    PROVE  SampleRate * FrameLength(PaddingBit(a)) + PaddingNext(a) = ByteRate + a
  <1> DEFINE q == ByteRate \div SampleRate
             r == ByteRate % SampleRate
  <1>1. ByteRate = SampleRate * q + r /\ q \in Nat /\ r \in Nat
    BY RateAssumption, SMT
  <1> HIDE DEF q, r
  <1>2. SampleRate * (q + 1) = SampleRate * q + SampleRate /\ SampleRate * q \in Nat
    BY <1>1, RateAssumption
  <1>3. CASE PaddingBit(a) = 1
    <2>1. FrameLength(PaddingBit(a)) = q + 1 /\ PaddingNext(a) = a + r - SampleRate
      BY <1>1, <1>3, RateAssumption DEF FrameLength, PaddingNext, PaddingSum, q, r
    <2> QED BY <2>1, <1>1, <1>2, RateAssumption
  <1>4. CASE PaddingBit(a) = 0
    <2>1. FrameLength(PaddingBit(a)) = q /\ PaddingNext(a) = a + r
      BY <1>1, <1>4, RateAssumption DEF FrameLength, PaddingNext, PaddingSum, q, r
    <2> QED BY <2>1, <1>1, <1>2, RateAssumption
  <1> QED BY <1>3, <1>4 DEF PaddingBit

(***************************************************************************)
(* Exact mean bitrate, for every byte rate and sample rate: the bytes of   *)
(* the frames coded so far and the accumulator's remainder account for     *)
(* every byte the rate allows.                                             *)
(***************************************************************************)
THEOREM BitrateExact ==
    ASSUME FifoSlots >= 8
    PROVE  Spec => []ExactBitrate
  <1>1. Init => ExactBitrate
    BY RateAssumption DEF Init, ExactBitrate
  <1>2. ASSUME IInv, ExactBitrate, [Next]_vars PROVE ExactBitrate'
    <2>1. TypeOK /\ pc # "panic" /\ SampleRate * (total + pushed * HeaderBytes) + acc = pushed * ByteRate
      BY <1>2 DEF IInv, NoPanic, ExactBitrate
    <2>2. CASE CodeFrame
      <3>1. PICK m \in 0..HuffCap : Push(m)
        BY <2>2 DEF CodeFrame
      <3>2. count # FifoSlots
        BY <3>1, <1>2 DEF Push, IInv, DepthBound, TypeOK
      <3> DEFINE f == FrameLength(PaddingBit(acc))
                 T == total + pushed * HeaderBytes
      <3>3. f \in Nat /\ PaddingNext(acc) \in Nat
        BY <2>1, PaddingFacts, AreaFacts DEF TypeOK
      <3>4. total' = total + (f - HeaderBytes) /\ pushed' = pushed + 1 /\ acc' = PaddingNext(acc)
        BY <3>1, <3>2 DEF Push, MainAreaBytes
      <3>5. SampleRate * f + acc' = ByteRate + acc
        BY <2>1, <3>4, FrameAccount DEF TypeOK
      <3>6. /\ total \in Nat /\ pushed \in Nat /\ acc \in Nat
            /\ HeaderBytes \in Nat /\ SampleRate \in Nat /\ ByteRate \in Nat
        BY <2>1, RateAssumption DEF TypeOK
      <3> HIDE DEF f
      <3>7. total' + pushed' * HeaderBytes = T + f /\ T \in Nat
        BY <3>3, <3>4, <3>6
      <3>8. SampleRate * T + acc = pushed * ByteRate
        BY <2>1
      <3> HIDE DEF T
      <3>9. SampleRate * (T + f) = SampleRate * T + SampleRate * f
        BY <3>3, <3>6, <3>7
      <3>10. pushed' * ByteRate = pushed * ByteRate + ByteRate
        BY <3>4, <3>6
      <3>11. SampleRate * (T + f) + acc' = pushed' * ByteRate
        BY <3>3, <3>4, <3>5, <3>6, <3>7, <3>8, <3>9, <3>10
      <3> QED BY <3>7, <3>11 DEF ExactBitrate
    <2>3. CASE Reset
      BY <2>3, RateAssumption DEF Reset, ExactBitrate
    <2>4. CASE UNCHANGED <<acc, total, pushed>>
      BY <2>1, <2>4 DEF ExactBitrate
    <2>5. Drain \/ Step \/ UNCHANGED vars => UNCHANGED <<acc, total, pushed>>
      BY DEF Drain, Step, PlaceSlot, Commit, FlushSlot, FlushDone, FlushAllSlot, FlushAllDone, vars
    <2> QED BY <1>2, <2>2, <2>3, <2>4, <2>5 DEF Next
  <1> QED BY <1>1, <1>2, Inductive, PTL DEF Spec
-----------------------------------------------------------------------------
(***************************************************************************)
(* Emission order.  The pending frames are numbered consecutively, the     *)
(* newest being the last one coded.                                        *)
(***************************************************************************)
Numbered == \A k \in Pending : Nth(k).id = pushed - count + k

LEMMA NumberedInductive ==
    ASSUME FifoSlots >= 8, IInv, Numbered, [Next]_vars
    PROVE  Numbered'
  <1>1. TypeOK /\ DepthBound
    BY DEF IInv
  <1>2. CASE CodeFrame
    <2>1. PICK m \in 0..HuffCap : Push(m)
      BY <1>2 DEF CodeFrame
    <2>2. pc = "idle" /\ count \in 0..7 /\ count # FifoSlots
      BY <2>1, <1>1 DEF Push, DepthBound, TypeOK
    <2>3. PICK c \in 0..7 : c = count
      BY <2>2
    <2> DEFINE r == [n |-> FrameLength(PaddingBit(acc)), fill |-> 0, id |-> pushed,
                     start |-> total]
    <2>4. /\ slots' = [slots EXCEPT ![At(c)] = r] /\ r.id = pushed
          /\ head' = head /\ count' = c + 1 /\ pushed' = pushed + 1
      BY <2>1, <2>2, <2>3 DEF Push
    <2> HIDE DEF r
    <2>5. c \in 0..FifoSlots - 1 /\ At(c) \in 0..FifoSlots - 1
      <3>1. c \in 0..FifoSlots - 1
        BY FifoAssumption
      <3> QED BY <3>1, <1>1, RingIndex DEF TypeOK
    <2>6. Pending = 0..c - 1 /\ Pending' = 0..c
      BY <2>3, <2>4 DEF Pending
    <2>7. Nth(c)'.id = pushed
      BY <1>1, <2>4, <2>5 DEF TypeOK, Nth, At
    <2>8. ASSUME NEW k \in Pending PROVE Nth(k)'.id = pushed - c + k
      <3>1. k \in 0..FifoSlots - 1 /\ k # c
        BY <2>6, FifoAssumption
      <3>2. At(k) \in 0..FifoSlots - 1 /\ At(k) # At(c)
        BY <3>1, <1>1, <2>5, RingIndex DEF TypeOK
      <3>3. Nth(k)' = Nth(k)
        BY <3>2, <1>1, <2>4, <2>5 DEF TypeOK, Nth, At
      <3> QED BY <3>3, <2>3 DEF Numbered
    <2>9. pushed' - count' = pushed - c /\ pushed \in Nat
      BY <1>1, <2>4 DEF TypeOK
    <2>10. ASSUME NEW k \in Pending' PROVE Nth(k)'.id = pushed' - count' + k
      BY <2>6, <2>7, <2>8, <2>9
    <2> QED BY <2>10 DEF Numbered
  <1>3. CASE PlaceSlot
    <2>1. /\ slots' = [slots EXCEPT ![At(i)].fill = @ + MinOf(data, Room(Nth(i)))]
          /\ UNCHANGED <<head, count, pushed>> /\ i < count
      BY <1>3 DEF PlaceSlot
    <2>2. PICK m \in 0..FifoSlots - 1 : m = i
      BY <2>1, <1>1, FifoAssumption DEF TypeOK
    <2>3. At(m) \in 0..FifoSlots - 1
      BY <2>2, <1>1, RingIndex DEF TypeOK
    <2>4. ASSUME NEW k \in Pending PROVE Nth(k)'.id = Nth(k).id
      <3>1. k \in 0..FifoSlots - 1
        BY <1>1, FifoAssumption DEF TypeOK, Pending
      <3>2. At(k) \in 0..FifoSlots - 1
        BY <3>1, <1>1, RingIndex DEF TypeOK
      <3> QED BY <3>2, <2>1, <2>2, <2>3, <1>1 DEF TypeOK, Nth, At, Slot
    <2> QED BY <2>1, <2>4 DEF Numbered, Pending
  <1>4. CASE Pop /\ count > 0 /\ UNCHANGED <<slots, pushed>>
    <2>1. count \in 1..8 /\ count' = count - 1 /\ pushed \in Nat
      BY <1>1, <1>4 DEF Pop, TypeOK, DepthBound
    <2>2. ASSUME NEW k \in Pending' PROVE Nth(k)'.id = pushed' - count' + k
      <3>1. k \in 0..FifoSlots - 2 /\ k + 1 \in Pending
        BY <2>1, FifoAssumption DEF Pending
      <3>2. Nth(k)' = Nth(k + 1)
        BY <3>1, <1>1, <1>4, PopIndex DEF TypeOK, Nth
      <3>3. Nth(k + 1).id = pushed - count + (k + 1)
        BY <3>1 DEF Numbered
      <3>4. k \in Int
        BY <3>1
      <3> QED BY <3>2, <3>3, <3>4, <1>4, <2>1
    <2> QED BY <2>2 DEF Numbered
  <1>5. CASE Reset
    BY <1>5 DEF Reset, Numbered, Pending
  <1>6. CASE UNCHANGED <<ring, pushed>>
    <2>1. Pending' = Pending /\ count' = count /\ pushed' = pushed /\ \A k : Nth(k)' = Nth(k)
      BY <1>6, RingSame DEF ring
    <2> QED BY <2>1 DEF Numbered
  <1>7. Drain \/ Commit \/ FlushDone \/ FlushAllDone \/ UNCHANGED vars => UNCHANGED <<ring, pushed>>
    BY DEF Drain, Commit, FlushDone, FlushAllDone, vars, ring
  <1>8. FlushSlot \/ FlushAllSlot => Pop /\ count > 0 /\ UNCHANGED <<slots, pushed>>
    BY <1>1 DEF FlushSlot, FlushAllSlot, FlushedAll, TypeOK
  <1> QED BY <1>2, <1>3, <1>4, <1>5, <1>6, <1>7, <1>8 DEF Next, Step

(***************************************************************************)
(* Frames leave the ring in coding order, none twice and none skipped.     *)
(***************************************************************************)
THEOREM EmittedInOrder ==
    ASSUME FifoSlots >= 8
    PROVE  Spec => EmitInOrder
  <1>1. Init => Numbered
    BY DEF Init, Numbered, Pending
  <1>2. IInv /\ Numbered /\ [Next]_vars => Numbered'
    BY NumberedInductive
  <1>3. IInv /\ Numbered /\ [Next]_vars =>
            [count' = count - 1 => slots[head].id = pushed - count]_vars
    <2> SUFFICES ASSUME IInv, Numbered, [Next]_vars, count' = count - 1
                 PROVE  slots[head].id = pushed - count
      OBVIOUS
    <2>1. TypeOK /\ count \in Nat /\ pushed \in Nat
      BY DEF IInv, TypeOK
    <2>2. CASE count = 0
      <3>1. count' = 0 - 1 /\ 0 - 1 # 0 /\ 0 - 1 # 1
        BY <2>2
      <3> QED
        BY <3>1, <2>2
        DEF Next, Step, CodeFrame, Push, PlaceSlot, Commit, FlushSlot, FlushDone, Drain,
            FlushAllSlot, FlushAllDone, FlushedAll, Reset, ring, vars
    <2>3. CASE count # 0
      <3>1. 0 \in Pending /\ At(0) = head
        BY <2>1, <2>3, FirstIndex, RingIndex DEF TypeOK, Pending
      <3> QED BY <3>1, <2>1 DEF Numbered, Nth
    <2> QED BY <2>2, <2>3
  <1> QED BY <1>1, <1>2, <1>3, Inductive, PTL DEF Spec, EmitInOrder
-----------------------------------------------------------------------------
(***************************************************************************)
(* The ring and its loops implement the continuous stream of               *)
(* MainDataStream.  What the mapping needs besides the invariant: while    *)
(* place runs there is a frame in hand, with an area of one of the two     *)
(* sizes, and a drained ring is empty.                                     *)
(***************************************************************************)
Stage ==
    /\ pc = "place" => count > 0 /\ area \in Areas
    /\ pc = "drained" => count = 0

LEMMA StageInductive ==
    ASSUME FifoSlots >= 8, IInv, Stage, [Next]_vars
    PROVE  Stage'
  <1>1. TypeOK /\ acc \in 0..SampleRate - 1 /\ count \in Nat /\ pc # "panic"
    BY DEF IInv, TypeOK, NoPanic
  <1>2. Areas' = Areas
    BY DEF Areas
  <1>3. CASE CodeFrame
    <2>1. PICK m \in 0..HuffCap : Push(m)
      BY <1>3 DEF CodeFrame
    <2>2. count # FifoSlots
      BY <2>1 DEF Push, IInv, DepthBound, TypeOK
    <2>3. pc' = "place" /\ count' = count + 1 /\ area' = MainAreaBytes(PaddingBit(acc))
      BY <2>1, <2>2 DEF Push
    <2>4. PaddingBit(acc) \in {0, 1}
      BY <1>1, PaddingFacts
    <2> QED  BY <1>1, <1>2, <2>3, <2>4 DEF Stage, Areas
  <1>4. CASE PlaceSlot
    BY <1>2, <1>4 DEF PlaceSlot, Stage
  <1>5. CASE Reset \/ Drain
    BY <1>5 DEF Reset, Drain, Stage
  <1>6. CASE Commit \/ FlushSlot \/ FlushDone \/ FlushAllSlot \/ FlushAllDone
    BY <1>6 DEF Commit, FlushSlot, FlushDone, FlushAllSlot, FlushAllDone, FlushedAll, ring, Stage
  <1>7. CASE UNCHANGED vars
    BY <1>2, <1>7 DEF vars, Stage
  <1> QED  BY <1>3, <1>4, <1>5, <1>6, <1>7 DEF Next, Step

\* A pending frame, as the stream sees it.
FrameAt(k) == [id |-> Nth(k).id, end |-> AreaEnd(Nth(k))]

LEMMA PendingSeq ==
    ASSUME TypeOK, FifoSlots >= 8, Stage
    PROVE  /\ Committed \in 0..count /\ Len(PendingFrames) = Committed
           /\ PendingFrames \in Seq([id : Int, end : Int])
           /\ PendingFrames = [k \in 1..Committed |-> FrameAt(k - 1)]
           /\ \A k \in 1..Committed : PendingFrames[k] = FrameAt(k - 1)
  <1>1. Committed \in 0..count /\ Committed \in Nat
    BY DEF TypeOK, Stage, Committed, Placing
  <1>2. ASSUME NEW k \in 1..Committed PROVE FrameAt(k - 1) \in [id : Int, end : Int]
    <2>1. k - 1 \in Pending
      BY <1>1 DEF TypeOK, Pending
    <2>2. Nth(k - 1) \in Slot /\ AreaEnd(Nth(k - 1)) \in Int
      BY <2>1, SlotFacts
    <2> QED  BY <2>2 DEF FrameAt, Slot
  <1>3. PendingFrames = [k \in 1..Committed |-> FrameAt(k - 1)]
    BY DEF PendingFrames, FrameAt, Nth, AreaEnd
  <1> HIDE DEF FrameAt, PendingFrames, Committed
  <1> QED  BY <1>1, <1>2, <1>3

LEMMA Extended ==
    ASSUME NEW S, NEW s \in Seq(S), NEW e \in S, NEW n \in Nat, n = Len(s),
           NEW f \in [1..n + 1 -> S], \A k \in 1..n : f[k] = s[k], f[n + 1] = e
    PROVE  f = Append(s, e)
  <1>1. f \in Seq(S) /\ Len(f) = n + 1
    OBVIOUS
  <1>2. /\ Append(s, e) \in Seq(S) /\ Len(Append(s, e)) = n + 1
        /\ \A k \in 1..n + 1 : Append(s, e)[k] = IF k <= n THEN s[k] ELSE e
    BY AppendProperties
  <1>3. \A k \in 1..n + 1 : f[k] = Append(s, e)[k]
    BY <1>2
  <1> QED  BY <1>1, <1>2, <1>3, SeqEqual

LEMMA Shortened ==
    ASSUME NEW S, NEW s \in Seq(S), NEW n \in Nat, n = Len(s), n # 0,
           NEW f \in [1..n - 1 -> S], \A k \in 1..n - 1 : f[k] = s[k + 1]
    PROVE  f = Tail(s)
  <1>1. f \in Seq(S) /\ Len(f) = n - 1
    OBVIOUS
  <1>2. /\ Tail(s) \in Seq(S) /\ Len(Tail(s)) = n - 1
        /\ \A k \in 1..n - 1 : Tail(s)[k] = s[k + 1]
    BY HeadTailProperties, EmptySeq
  <1>3. \A k \in 1..n - 1 : f[k] = Tail(s)[k]
    BY <1>2
  <1> QED  BY <1>1, <1>2, <1>3, SeqEqual

\* A step that keeps the committed frames and the counters is invisible.
LEMMA Invisible ==
    ASSUME Committed' = Committed, \A k \in 1..Committed : FrameAt(k - 1)' = FrameAt(k - 1),
           AreasEnd' = AreasEnd, written' = written, CodedFrames' = CodedFrames, Phase' = Phase
    PROVE  UNCHANGED Stream!vars
  <1>1. PendingFrames = [k \in 1..Committed |-> FrameAt(k - 1)]
    BY DEF PendingFrames, FrameAt, Nth, AreaEnd
  <1>2. PendingFrames' = [k \in 1..Committed' |-> FrameAt(k - 1)']
    BY DEF PendingFrames, FrameAt, Nth, AreaEnd, AreaLen, At
  <1> HIDE DEF FrameAt, PendingFrames
  <1>3. PendingFrames' = PendingFrames
    BY <1>1, <1>2
  <1> QED  BY <1>3 DEF Stream!vars

\* Pushing a frame is invisible until its main data is committed.
LEMMA PushInvisible ==
    ASSUME FifoSlots >= 8, IInv, Stage, CodeFrame
    PROVE  UNCHANGED Stream!vars
  <1>1. PICK m \in 0..HuffCap : Push(m)
    BY DEF CodeFrame
  <1>2. /\ pc = "idle" /\ TypeOK /\ count \in 0..7 /\ count # FifoSlots
        /\ total \in Nat /\ pushed \in Nat
    BY <1>1 DEF Push, IInv, DepthBound, TypeOK
  <1>3. PICK c \in 0..7 : c = count
    BY <1>2
  <1>4. MainAreaBytes(PaddingBit(acc)) \in Nat
    BY <1>2, PaddingFacts, AreaFacts DEF TypeOK
  <1> DEFINE a == MainAreaBytes(PaddingBit(acc))
             r == [n |-> FrameLength(PaddingBit(acc)), fill |-> 0, id |-> pushed, start |-> total]
  <1>5. /\ slots' = [slots EXCEPT ![At(c)] = r] /\ head' = head /\ count' = c + 1
        /\ pushed' = pushed + 1 /\ total' = total + a /\ area' = a /\ pc' = "place"
        /\ written' = written
    BY <1>1, <1>2, <1>3 DEF Push
  <1> HIDE DEF r, a
  <1>6. Committed = c /\ Committed' = c
    BY <1>2, <1>3, <1>5 DEF Committed, Placing
  <1>7. AreasEnd' = AreasEnd /\ CodedFrames' = CodedFrames /\ Phase' = Phase
    BY <1>2, <1>4, <1>5 DEF AreasEnd, CodedFrames, Phase, Placing, a
  <1>8. ASSUME NEW k \in 1..c PROVE FrameAt(k - 1)' = FrameAt(k - 1)
    <2>1. k - 1 \in 0..FifoSlots - 1 /\ c \in 0..FifoSlots - 1 /\ k - 1 # c
      BY FifoAssumption
    <2>2. At(k - 1) \in 0..FifoSlots - 1 /\ At(k - 1) # At(c)
      BY <1>2, <2>1, RingIndex DEF TypeOK
    <2>3. slots'[At(k - 1)] = slots[At(k - 1)] /\ At(k - 1)' = At(k - 1)
      BY <1>2, <1>5, <2>2 DEF TypeOK, At
    <2> QED  BY <2>3 DEF FrameAt, Nth, AreaEnd, AreaLen
  <1> QED  BY <1>5, <1>6, <1>7, <1>8, Invisible

\* Placing bytes changes how far a frame is filled, which the stream does not see.
LEMMA PlaceInvisible ==
    ASSUME FifoSlots >= 8, IInv, Stage, PlaceSlot
    PROVE  UNCHANGED Stream!vars
  <1>1. /\ slots' = [slots EXCEPT ![At(i)].fill = @ + MinOf(data, Room(Nth(i)))]
        /\ UNCHANGED <<acc, occ, head, count, pc, area, len, total, written, pushed>>
        /\ TypeOK /\ i < count
    BY DEF PlaceSlot, IInv
  <1>2. PICK m \in 0..FifoSlots - 1 : m = i
    BY <1>1, FifoAssumption DEF TypeOK
  <1>3. At(m) \in 0..FifoSlots - 1
    BY <1>1, <1>2, RingIndex DEF TypeOK
  <1>4. Committed \in 0..count
    BY <1>1, PendingSeq
  <1>5. ASSUME NEW k \in 1..Committed PROVE FrameAt(k - 1)' = FrameAt(k - 1)
    <2>1. k - 1 \in 0..FifoSlots - 1
      <3>1. count \in 0..FifoSlots
        BY <1>1 DEF TypeOK
      <3> HIDE DEF Committed
      <3> QED  BY <1>4, <3>1, FifoAssumption
    <2>2. At(k - 1) \in 0..FifoSlots - 1 /\ At(k - 1)' = At(k - 1)
      BY <1>1, <2>1, RingIndex DEF TypeOK, At
    <2>3. /\ slots'[At(k - 1)].id = slots[At(k - 1)].id
          /\ slots'[At(k - 1)].start = slots[At(k - 1)].start
          /\ slots'[At(k - 1)].n = slots[At(k - 1)].n
      BY <1>1, <1>2, <1>3, <2>2 DEF TypeOK, Slot
    <2> QED  BY <2>2, <2>3 DEF FrameAt, Nth, AreaEnd, AreaLen
  <1>6. /\ Committed' = Committed /\ AreasEnd' = AreasEnd /\ CodedFrames' = CodedFrames
        /\ Phase' = Phase /\ written' = written
    BY <1>1 DEF Committed, AreasEnd, CodedFrames, Phase, Placing
  <1> QED  BY <1>5, <1>6, Invisible

\* A committed frame extends the stream by its main data, within its bounds.
LEMMA CommitCodes ==
    ASSUME FifoSlots >= 8, IInv, IInv', Stage, Numbered, Commit
    PROVE  Stream!Next
  <1>1. /\ pc = "place" /\ pc' = "flush" /\ occ' = occ + area - len /\ written' = written + len
        /\ UNCHANGED <<acc, slots, head, count, area, len, data, i, total, pushed>>
        /\ TypeOK /\ count \in 1..8 /\ area \in Areas
    BY DEF Commit, ring, locals, IInv, NoPanic, DepthBound, TypeOK, Stage
  <1>2. /\ total \in Nat /\ written \in Nat /\ len \in Nat /\ pushed \in Nat /\ area \in Nat
        /\ occ = total - area - written /\ occ + area - len \in 0..ResCapBytes
    BY <1>1 DEF TypeOK, IInv, Live, Balance
  <1>3. PICK c \in 0..7 : c = count - 1
    BY <1>1
  <1>4. /\ Committed = c /\ Committed' = c + 1
        /\ AreasEnd = total - area /\ AreasEnd' = total
        /\ CodedFrames = pushed - 1 /\ CodedFrames' = pushed
        /\ Phase = "open" /\ Phase' = "open"
    BY <1>1, <1>3 DEF Committed, AreasEnd, CodedFrames, Phase, Placing
  <1>5. FrameAt(c) = [id |-> pushed - 1, end |-> total]
    <2>1. c \in Pending
      BY <1>1, <1>3 DEF Pending
    <2>2. Nth(c).id = pushed - 1
      BY <1>1, <1>2, <1>3, <2>1 DEF Numbered
    <2>3. AreaEnd(Nth(c)) = total
      BY <1>1, <1>3 DEF IInv, Live, Reach
    <2> QED  BY <2>2, <2>3 DEF FrameAt
  <1>6. PendingFrames' = Append(PendingFrames, [id |-> pushed - 1, end |-> total])
    <2>1. \A k : FrameAt(k)' = FrameAt(k)
      BY <1>1 DEF FrameAt, Nth, At, AreaEnd, AreaLen
    <2>2. PendingFrames' = [k \in 1..Committed' |-> FrameAt(k - 1)']
      BY DEF PendingFrames, FrameAt, Nth, AreaEnd, AreaLen, At
    <2>3. PendingFrames' = [k \in 1..c + 1 |-> FrameAt(k - 1)]
      BY <1>4, <2>1, <2>2
    <2>4. /\ PendingFrames \in Seq([id : Int, end : Int]) /\ Len(PendingFrames) = c
          /\ \A k \in 1..c : PendingFrames[k] = FrameAt(k - 1)
      BY <1>1, <1>4, PendingSeq
    <2>5. [id |-> pushed - 1, end |-> total] \in [id : Int, end : Int]
      BY <1>2
    <2> DEFINE f == [k \in 1..c + 1 |-> FrameAt(k - 1)]
               e == [id |-> pushed - 1, end |-> total]
    <2>6. (\A k \in 1..c : f[k] = PendingFrames[k]) /\ f[c + 1] = e
      <3> HIDE DEF FrameAt
      <3> QED  BY <1>5, <2>4
    <2>7. f \in [1..c + 1 -> [id : Int, end : Int]]
      <3>1. \A k \in 1..c : PendingFrames[k] \in [id : Int, end : Int]
        BY <2>4, ElementOfSeq
      <3>2. \A k \in 1..c + 1 : f[k] \in [id : Int, end : Int]
        <4> HIDE DEF f, e
        <4>1. \A k \in 1..c + 1 : k \in 1..c \/ k = c + 1
          OBVIOUS
        <4> QED  BY <2>5, <2>6, <3>1, <4>1 DEF e
      <3> HIDE DEF FrameAt
      <3> QED  BY <3>2
    <2> HIDE DEF f, e
    <2>8. f = Append(PendingFrames, e)
      <3>1. PICK S : S = [id : Int, end : Int]
        OBVIOUS
      <3>2. PendingFrames \in Seq(S) /\ e \in S /\ c \in Nat /\ f \in [1..c + 1 -> S]
        BY <2>4, <2>5, <2>7, <3>1 DEF e
      <3> QED  BY <2>4, <2>6, <3>2, Extended
    <2> QED  BY <2>3, <2>8 DEF f, e
  <1>7. len \in 0..AreasEnd - written + area
    BY <1>2, <1>4, CapFacts
  <1>8. Stream!Code(area, len)
    BY <1>1, <1>2, <1>4, <1>6, CapFacts DEF Stream!Code
  <1> QED  BY <1>1, <1>7, <1>8 DEF Stream!Next

\* A frame that leaves the ring is the head of the stream's pending frames.
LEMMA PopTail ==
    ASSUME FifoSlots >= 8, IInv, Stage, Pop, count > 0, UNCHANGED <<slots, pc>>, pc # "place"
    PROVE  /\ PendingFrames # <<>> /\ PendingFrames' = Tail(PendingFrames)
           /\ Head(PendingFrames) = FrameAt(0)
  <1>1. TypeOK /\ count \in 1..8 /\ count' = count - 1
    BY DEF IInv, DepthBound, TypeOK, Pop
  <1>2. PICK n \in 1..8 : n = count
    BY <1>1
  <1>3. Committed = n /\ Committed' = n - 1
    BY <1>1, <1>2 DEF Committed, Placing
  <1>4. PICK S : S = [id : Int, end : Int]
    OBVIOUS
  <1>5. /\ PendingFrames \in Seq(S) /\ Len(PendingFrames) = n
        /\ \A k \in 1..n : PendingFrames[k] = FrameAt(k - 1)
    BY <1>1, <1>3, <1>4, PendingSeq
  <1>6. PendingFrames # <<>> /\ Head(PendingFrames) = FrameAt(0)
    <2>1. PendingFrames # <<>> /\ 1 \in 1..n
      BY <1>5, EmptySeq
    <2>2. Head(PendingFrames) = PendingFrames[1]
      BY <1>5, <2>1
    <2> HIDE DEF FrameAt
    <2> QED  BY <1>5, <2>1, <2>2
  <1>7. \A k \in 1..n - 1 : FrameAt(k - 1)' = PendingFrames[k + 1]
    <2> SUFFICES ASSUME NEW k \in 1..n - 1 PROVE FrameAt(k - 1)' = FrameAt(k)
      BY <1>5
    <2>1. k - 1 \in 0..FifoSlots - 2 /\ (k - 1) + 1 = k
      BY FifoAssumption
    <2>2. At(k - 1)' = At(k)
      BY <1>1, <2>1, PopIndex DEF TypeOK
    <2> QED  BY <2>2 DEF FrameAt, Nth, AreaEnd, AreaLen
  <1>8. PendingFrames' = Tail(PendingFrames)
    <2> DEFINE f == [k \in 1..n - 1 |-> FrameAt(k - 1)']
    <2>1. PendingFrames' = f
      <3>1. PendingFrames' = [k \in 1..Committed' |-> FrameAt(k - 1)']
        BY DEF PendingFrames, FrameAt, Nth, AreaEnd, AreaLen, At
      <3> QED  BY <1>3, <3>1
    <2>2. \A k \in 1..n - 1 : f[k] = PendingFrames[k + 1] /\ f[k] \in S
      <3>1. \A k \in 1..n : PendingFrames[k] \in S
        BY <1>5, ElementOfSeq
      <3> HIDE DEF FrameAt
      <3> QED  BY <1>7, <3>1
    <2>3. f \in [1..n - 1 -> S]
      <3> HIDE DEF FrameAt
      <3> QED  BY <2>2
    <2> HIDE DEF f
    <2> QED  BY <1>5, <2>1, <2>2, <2>3, Shortened
  <1> QED  BY <1>6, <1>8

\* place and commitFrame complete frames, flushInto emits them: the stream has covered them.
LEMMA FlushEmits ==
    ASSUME FifoSlots >= 8, IInv, Stage, FlushSlot
    PROVE  Stream!Next
  <1>1. /\ pc = "flush" /\ count > 0 /\ Complete(slots[head]) /\ Pop
        /\ UNCHANGED <<acc, occ, slots, pc, area, len, data, i, total, written, pushed>>
        /\ TypeOK
    BY DEF FlushSlot, locals, IInv
  <1>2. /\ PendingFrames # <<>> /\ PendingFrames' = Tail(PendingFrames)
        /\ Head(PendingFrames) = FrameAt(0)
    BY <1>1, PopTail
  <1>3. 0 \in Pending /\ Nth(0) = slots[head]
    <2>1. At(0) = head
      BY <1>1, FirstIndex, RingIndex DEF TypeOK
    <2> QED  BY <1>1, <2>1 DEF TypeOK, Pending, Nth
  <1>4. AreaEnd(Nth(0)) <= written
    <2>1. /\ Nth(0) \in Slot /\ Nth(0).start \in Nat /\ Nth(0).fill \in Nat
          /\ AreaLen(Nth(0)) \in Int /\ AreaEnd(Nth(0)) = Nth(0).start + AreaLen(Nth(0))
      BY <1>1, <1>3, SlotFacts
    <2>2. Nth(0).fill = MaxOf(0, MinOf(AreaLen(Nth(0)), written - Nth(0).start))
      <3>1. Position = written
        BY <1>1 DEF Position, TypeOK
      <3> QED  BY <1>1, <1>3, <3>1 DEF IInv, NoGap, Live
    <2>3. AreaLen(Nth(0)) >= MainAreaBytes(0) /\ MainAreaBytes(0) \in Nat \ {0}
      BY <1>1, <1>3, AreaFacts DEF IInv, Live, Wide
    <2>4. Nth(0).fill = AreaLen(Nth(0))
      BY <1>1, <1>3, <2>1, RateAssumption DEF Complete, AreaLen, Slot
    <2>5. written \in Nat
      BY <1>1 DEF TypeOK
    <2> QED  BY <2>1, <2>2, <2>3, <2>4, <2>5 DEF MaxOf, MinOf
  <1>5. /\ AreasEnd' = AreasEnd /\ written' = written /\ CodedFrames' = CodedFrames
        /\ Phase' = Phase
    BY <1>1 DEF AreasEnd, CodedFrames, Phase, Placing
  <1>6. Head(PendingFrames).end <= written
    BY <1>2, <1>4 DEF FrameAt
  <1>7. Stream!Emit
    BY <1>2, <1>5, <1>6 DEF Stream!Emit
  <1> QED  BY <1>7 DEF Stream!Next

LEMMA FlushAllEmits ==
    ASSUME FifoSlots >= 8, IInv, Stage, FlushAllSlot
    PROVE  Stream!Next
  <1>1. /\ pc = "flushAll" /\ count > 0 /\ Pop
        /\ UNCHANGED <<acc, occ, slots, pc, area, len, data, i, total, written, pushed>>
    BY DEF FlushAllSlot, FlushedAll, locals, IInv, TypeOK
  <1>2. PendingFrames # <<>> /\ PendingFrames' = Tail(PendingFrames)
    BY <1>1, PopTail
  <1>3. /\ AreasEnd' = AreasEnd /\ written' = written /\ CodedFrames' = CodedFrames
        /\ Phase' = Phase /\ Phase = "closing"
    BY <1>1 DEF AreasEnd, CodedFrames, Phase, Placing
  <1>4. Stream!Emit
    BY <1>2, <1>3 DEF Stream!Emit
  <1> QED  BY <1>4 DEF Stream!Next

\* The rest: the drain closes the stream, Reset starts another, the loops' ends are invisible.
LEMMA OtherSteps ==
    ASSUME FifoSlots >= 8, IInv, Stage
    PROVE  /\ Drain => Stream!Next
           /\ Reset => Stream!Next
           /\ FlushDone \/ FlushAllDone \/ UNCHANGED vars => UNCHANGED Stream!vars
  <1>1. ASSUME UNCHANGED <<slots, head, count>>, Placing' = Placing
        PROVE  PendingFrames' = PendingFrames
    BY <1>1 DEF PendingFrames, Committed, At, AreaLen
  <1>2. ASSUME Drain PROVE Stream!Next
    <2>1. /\ pc = "idle" /\ pc' = "flushAll"
          /\ UNCHANGED <<slots, head, count, area, total, written, pushed>>
      BY <1>2 DEF Drain, ring, locals
    <2>2. PendingFrames' = PendingFrames
      BY <1>1, <2>1 DEF Placing
    <2>3. Stream!Close
      BY <2>1, <2>2 DEF Stream!Close, AreasEnd, CodedFrames, Phase, Placing
    <2> QED  BY <2>3 DEF Stream!Next
  <1>3. ASSUME Reset PROVE Stream!Next
    <2>1. /\ pc \in {"idle", "drained"} /\ pc' = "idle" /\ count' = 0
          /\ total' = 0 /\ written' = 0 /\ pushed' = 0
      BY <1>3 DEF Reset
    <2>2. PendingFrames' = <<>>
      BY <2>1 DEF PendingFrames, Committed, Placing
    <2>3. Phase = "open" \/ PendingFrames = <<>>
      BY <2>1 DEF Phase, Stage, PendingFrames, Committed, Placing
    <2>4. AreasEnd' = 0 /\ CodedFrames' = 0 /\ Phase' = "open"
      BY <2>1 DEF AreasEnd, CodedFrames, Phase, Placing
    <2>5. Stream!Restart
      BY <2>1, <2>2, <2>3, <2>4 DEF Stream!Restart
    <2> QED  BY <2>5 DEF Stream!Next
  <1>4. ASSUME FlushDone \/ FlushAllDone \/ UNCHANGED vars PROVE UNCHANGED Stream!vars
    <2>1. /\ UNCHANGED <<slots, head, count, area, total, written, pushed>>
          /\ Placing' = Placing /\ Phase' = Phase
      BY <1>4 DEF FlushDone, FlushAllDone, vars, ring, locals, Placing, Phase
    <2>2. PendingFrames' = PendingFrames
      BY <1>1, <2>1
    <2> QED  BY <2>1, <2>2 DEF Stream!vars, AreasEnd, CodedFrames
  <1> QED  BY <1>2, <1>3, <1>4

(***************************************************************************)
(* The ring implements the continuous stream, its fairness aside: a frame  *)
(* coded extends it within its bounds, and a frame emitted was covered by  *)
(* it, or drained.                                                         *)
(***************************************************************************)
THEOREM SafelyImplements ==
    ASSUME FifoSlots >= 8
    PROVE  Spec => Stream!Init /\ [][Stream!Next]_Stream!vars
  <1>1. Init => Stream!Init /\ Numbered /\ Stage
    BY DEF Init, Stream!Init, PendingFrames, Committed, AreasEnd, CodedFrames, Phase, Placing,
         Numbered, Stage, Pending
  <1>2. IInv /\ Numbered /\ Stage /\ [Next]_vars => Numbered' /\ Stage'
    BY NumberedInductive, StageInductive
  <1>3. IInv /\ IInv' /\ Numbered /\ Stage /\ [Next]_vars => [Stream!Next]_Stream!vars
    BY PushInvisible, PlaceInvisible, CommitCodes, FlushEmits, FlushAllEmits, OtherSteps
      DEF Next, Step
  <1> QED  BY <1>1, <1>2, <1>3, Inductive, PTL DEF Spec

-----------------------------------------------------------------------------
(***************************************************************************)
(* Encoder and decoder together.                                           *)
(***************************************************************************)
Byte == {Zero} \cup (Nat \X Nat)
FileFrame == [id : Int, mdb : Int, coded : Int, area : Seq(Byte)]

PathTypes ==
    /\ coded \in Nat
    /\ hdr \in [0..FifoSlots - 1 -> [mdb : Int, coded : Int]]
    /\ buf \in [0..FifoSlots - 1 -> [Offsets -> Byte]]
    /\ file \in Seq(FileFrame) /\ res \in Seq(Byte)
    /\ decoded \in Nat /\ cut \in BOOLEAN

\* The end of the main data coded so far, the frame in hand included.
Planned == written + (IF pc = "place" THEN len ELSE 0)

\* The frames in the stream: areas adjoin, a frame's data starts at most the cap before
\* its area and ends before the data of the next.
Layout(S, B, C) ==
    /\ S[pushed] = total /\ B[pushed] = Planned
    /\ \A k \in 0..pushed : B[k] <= S[k] /\ S[k] - B[k] <= ResCapBytes /\ B[k] <= B[pushed]
    /\ \A k \in 0..pushed - 1 : S[k + 1] - S[k] \in Areas /\ B[k] + C[k] <= B[k + 1]

\* The stream's bytes: every frame's own data, its padding, and zeros behind the last;
\* from a frame's area on there is nothing of older frames.
Content(S, B, C, G) ==
    /\ \A k \in 0..pushed - 1 : \A p \in Nat : B[k] <= p /\ p < B[k + 1] =>
          G[p] = IF p - B[k] < C[k] THEN <<k, p - B[k]>> ELSE Zero
    /\ \A k \in 0..pushed : \A p \in Nat : S[k] <= p => G[p] = Zero \/ G[p][1] >= k
    /\ \A p \in Nat : B[pushed] <= p => G[p] = Zero

\* While place runs, the variables of the frame in hand are the newest of the stream.
InHand(B, C) ==
    pc = "place" => pushed > 0 /\ coded = C[pushed - 1] /\ written = B[pushed - 1]

\* A pending frame lies where its number says, its header says the same, and the filled
\* part of its buffer holds the stream's bytes.
HeldFrame(k, n, S, B, C, G) ==
    /\ Nth(k).start = S[n] /\ AreaEnd(Nth(k)) = S[n + 1]
    /\ hdr[At(k)] = [mdb |-> S[n] - B[n], coded |-> C[n]]
    /\ \A o \in Offsets : o < Nth(k).fill => buf[At(k)][o] = G[S[n] + o]

Held(S, B, C, G) == \A k \in Pending : HeldFrame(k, pushed - count + k, S, B, C, G)

\* In the drain, what is not filled lies behind the end of the data.
DrainRest ==
    pc = "flushAll" => \A k \in Pending :
        Nth(k).fill = AreaLen(Nth(k)) \/ Nth(k).start + Nth(k).fill >= written

\* The number of the first frame the decoder has not read.
FirstUnread == pushed - count - Len(file)

\* s is what the stream holds from position start on.
From(s, G, start) == \A x \in 1..Len(s) : s[x] = G[start + x - 1]

\* An emitted frame carries the stream's bytes of its area.
Carries(f, n, S, B, C, G) ==
    /\ f.id = n /\ f.mdb = S[n] - B[n] /\ f.coded = C[n]
    /\ Len(f.area) = S[n + 1] - S[n] /\ From(f.area, G, S[n])

Filed(S, B, C, G) ==
    /\ FirstUnread \in Nat
    /\ \A j \in 1..Len(file) : Carries(file[j], FirstUnread + j - 1, S, B, C, G)

\* s is the stream's last bytes before position end.
Piece(s, G, end) ==
    /\ s \in Seq(Byte) /\ Len(s) <= end
    /\ \A x \in 1..Len(s) : s[x] = G[end - Len(s) + x - 1]

\* The decoder's reservoir: a piece of the stream before the next frame's area, as long as
\* that frame reaches back or as what has been read.
Reaches(r, n, d, S, B) ==
    /\ Len(r) <= MaxBitreservoirBytes
    /\ Len(r) >= MinOf(S[n] - B[n], d * MainAreaBytes(0))

Carried(S, B, G) ==
    /\ Piece(res, G, S[FirstUnread]) /\ Reaches(res, FirstUnread, decoded, S, B)
    /\ ~cut => Len(res) >= S[FirstUnread] - B[FirstUnread] /\ decoded = FirstUnread

Witnessed(S, B, C, G) ==
    /\ Layout(S, B, C) /\ Content(S, B, C, G) /\ InHand(B, C)
    /\ Held(S, B, C, G) /\ Filed(S, B, C, G) /\ Carried(S, B, G)

OneStream ==
    \E S \in [Nat -> Nat], B \in [Nat -> Nat], C \in [Nat -> Nat], G \in [Nat -> Byte] :
        Witnessed(S, B, C, G)

PathInv == IInv /\ Numbered /\ Stage /\ PathTypes /\ DrainRest /\ OneStream

-----------------------------------------------------------------------------
(***************************************************************************)
(* Pieces of the stream: what the decoder's cuts and joins leave.          *)
(***************************************************************************)
LEMMA LastBytesFacts ==
    ASSUME NEW s \in Seq(Byte), NEW n \in Nat
    PROVE  /\ LastBytes(s, n) \in Seq(Byte) /\ Len(LastBytes(s, n)) = MinOf(n, Len(s))
           /\ \A x \in 1..MinOf(n, Len(s)) :
                LastBytes(s, n)[x] = s[Len(s) - MinOf(n, Len(s)) + x]
  <1> DEFINE m == MinOf(n, Len(s))
             first == Len(s) - m + 1
  <1>1. Len(s) \in Nat /\ m \in 0..Len(s)
    BY LenProperties DEF MinOf
  <1> HIDE DEF m
  <1>2. first \in Int /\ Len(s) \in Int /\ Len(s) - first + 1 = m
    BY <1>1
  <1>3. \A x \in first..Len(s) : s[x] \in Byte
    BY <1>1, ElementOfSeq
  <1> HIDE DEF first
  <1>4. /\ SubSeq(s, first, Len(s)) \in Seq(Byte)
        /\ Len(SubSeq(s, first, Len(s))) = IF first <= Len(s) THEN m ELSE 0
        /\ \A x \in 1..m : SubSeq(s, first, Len(s))[x] = s[first + x - 1]
    BY <1>2, <1>3, SubSeqProperties
  <1>5. LastBytes(s, n) = SubSeq(s, first, Len(s))
    BY DEF LastBytes, first, m
  <1>6. first = Len(s) - m + 1 /\ (first > Len(s) => m = 0)
    BY <1>1 DEF first
  <1>7. \A x \in 1..m : first + x - 1 = Len(s) - m + x
    BY <1>1, <1>6
  <1>8. Len(LastBytes(s, n)) = m
    BY <1>1, <1>2, <1>4, <1>5, <1>6
  <1>9. \A x \in 1..m : LastBytes(s, n)[x] = s[Len(s) - m + x]
    BY <1>4, <1>5, <1>7
  <1> QED  BY <1>4, <1>5, <1>8, <1>9 DEF m

LEMMA PieceLast ==
    ASSUME NEW G, NEW end \in Nat, NEW s, Piece(s, G, end), NEW n \in Nat
    PROVE  Piece(LastBytes(s, n), G, end) /\ Len(LastBytes(s, n)) = MinOf(n, Len(s))
  <1> DEFINE m == MinOf(n, Len(s))
             t == LastBytes(s, n)
  <1>1. s \in Seq(Byte) /\ Len(s) \in Nat /\ Len(s) <= end /\ m \in 0..Len(s)
    BY LenProperties DEF Piece, MinOf
  <1>2. t \in Seq(Byte) /\ Len(t) = m /\ \A x \in 1..m : t[x] = s[Len(s) - m + x]
    BY <1>1, LastBytesFacts
  <1> HIDE DEF m, t
  <1>3. ASSUME NEW x \in 1..m  PROVE t[x] = G[end - m + x - 1]
    <2>1. Len(s) - m + x \in 1..Len(s)
      BY <1>1
    <2>2. s[Len(s) - m + x] = G[end - Len(s) + (Len(s) - m + x) - 1]
      BY <2>1 DEF Piece
    <2>3. end - Len(s) + (Len(s) - m + x) - 1 = end - m + x - 1
      BY <1>1
    <2> QED  BY <1>2, <2>2, <2>3
  <1> QED  BY <1>1, <1>2, <1>3 DEF Piece, m, t

LEMMA PieceJoin ==
    ASSUME NEW G, NEW end \in Nat, NEW s, Piece(s, G, end), NEW t \in Seq(Byte),
           From(t, G, end)
    PROVE  Piece(s \o t, G, end + Len(t)) /\ Len(s \o t) = Len(s) + Len(t)
  <1>1. s \in Seq(Byte) /\ Len(s) \in Nat /\ Len(t) \in Nat /\ Len(s) <= end
    BY LenProperties DEF Piece
  <1>2. /\ s \o t \in Seq(Byte) /\ Len(s \o t) = Len(s) + Len(t)
        /\ \A x \in 1..Len(s) + Len(t) :
              (s \o t)[x] = IF x <= Len(s) THEN s[x] ELSE t[x - Len(s)]
    BY <1>1, ConcatProperties
  <1>3. ASSUME NEW x \in 1..Len(s) + Len(t)
        PROVE  (s \o t)[x] = G[end + Len(t) - (Len(s) + Len(t)) + x - 1]
    <2>1. end + Len(t) - (Len(s) + Len(t)) + x - 1 = end - Len(s) + x - 1
      BY <1>1
    <2>2. CASE x <= Len(s)
      <3>1. s[x] = G[end - Len(s) + x - 1]
        BY <1>1, <2>2 DEF Piece
      <3> QED  BY <1>2, <2>1, <2>2, <3>1
    <2>3. CASE x > Len(s)
      <3>1. x - Len(s) \in 1..Len(t)
        BY <1>1, <2>3
      <3>2. t[x - Len(s)] = G[end + (x - Len(s)) - 1]
        BY <3>1 DEF From
      <3>3. end + (x - Len(s)) - 1 = end - Len(s) + x - 1
        BY <1>1
      <3>4. (s \o t)[x] = t[x - Len(s)]
        BY <1>1, <1>2, <2>3
      <3> QED  BY <2>1, <3>2, <3>3, <3>4
    <2> QED  BY <1>1, <2>2, <2>3
  <1>4. Len(s) + Len(t) <= end + Len(t)
    BY <1>1
  <1> QED  BY <1>2, <1>3, <1>4 DEF Piece

LEMMA PieceDrop ==
    ASSUME NEW G, NEW end \in Nat, NEW s, Piece(s, G, end), NEW c \in 0..Len(s)
    PROVE  /\ Piece(SubSeq(s, c + 1, Len(s)), G, end)
           /\ Len(SubSeq(s, c + 1, Len(s))) = Len(s) - c
  <1> DEFINE t == SubSeq(s, c + 1, Len(s))
  <1>1. s \in Seq(Byte) /\ Len(s) \in Nat /\ Len(s) <= end
    BY LenProperties DEF Piece
  <1>2. c + 1 \in Int /\ Len(s) \in Int /\ Len(s) - (c + 1) + 1 = Len(s) - c /\ c \in Nat
    BY <1>1
  <1>3. \A x \in c + 1..Len(s) : s[x] \in Byte
    BY <1>1, ElementOfSeq
  <1>4. /\ t \in Seq(Byte) /\ Len(t) = IF c + 1 <= Len(s) THEN Len(s) - c ELSE 0
        /\ \A x \in 1..Len(s) - c : t[x] = s[c + 1 + x - 1]
    BY <1>2, <1>3, SubSeqProperties
  <1> HIDE DEF t
  <1>5. Len(t) = Len(s) - c
    <2>1. CASE c < Len(s)
      <3>1. c + 1 <= Len(s)
        BY <1>1, <1>2, <2>1
      <3> QED  BY <1>4, <3>1
    <2>2. CASE c = Len(s)
      <3>1. Len(t) = 0 /\ Len(s) - c = 0
        BY <1>1, <1>2, <1>4, <2>2
      <3> QED  BY <3>1
    <2> QED  BY <1>1, <2>1, <2>2
  <1>6. ASSUME NEW x \in 1..Len(s) - c  PROVE t[x] = G[end - (Len(s) - c) + x - 1]
    <2>1. c + 1 + x - 1 \in 1..Len(s)
      BY <1>1, <1>2
    <2>2. s[c + 1 + x - 1] = G[end - Len(s) + (c + 1 + x - 1) - 1]
      BY <2>1 DEF Piece
    <2>3. end - Len(s) + (c + 1 + x - 1) - 1 = end - (Len(s) - c) + x - 1
      BY <1>1, <1>2
    <2> QED  BY <1>4, <2>2, <2>3
  <1>7. Len(s) - c <= end
    BY <1>1, <1>2
  <1> QED  BY <1>4, <1>5, <1>6, <1>7 DEF Piece, t

\* Bytes behind a piece do not concern it.
LEMMA PieceKept ==
    ASSUME NEW G, NEW H, NEW end \in Nat, NEW s, Piece(s, G, end),
           \A p \in Nat : p < end => H[p] = G[p]
    PROVE  Piece(s, H, end)
  <1>1. s \in Seq(Byte) /\ Len(s) \in Nat /\ Len(s) <= end
    BY LenProperties DEF Piece
  <1>2. ASSUME NEW x \in 1..Len(s)  PROVE s[x] = H[end - Len(s) + x - 1]
    <2>1. end - Len(s) + x - 1 \in Nat /\ end - Len(s) + x - 1 < end
      BY <1>1
    <2> QED  BY <2>1 DEF Piece
  <1> QED  BY <1>1, <1>2 DEF Piece
-----------------------------------------------------------------------------
(***************************************************************************)
(* The decoder's side: what it assembles of the next frame, and keeps.     *)
(***************************************************************************)
\* The numbers of the next frame f: its area from s to t, its data from b, the next frame's
\* data from d, c bytes of its own, m its main_data_begin and n the size of its area.
Measured(f, s, t, b, d, c, m, n) ==
    /\ m = f.mdb /\ c = f.coded /\ n = Len(f.area) /\ f.area \in Seq(Byte)
    /\ m = s - b /\ n = t - s /\ n >= MainAreaBytes(0)
    /\ b + c <= d /\ d <= t /\ t - d <= ResCapBytes

NextUp(f, e, S, B, C, G) ==
    /\ e \in 0..pushed - 1 /\ Carries(f, e, S, B, C, G)
    /\ \E s, t, b, d, c, m, n \in Nat :
          /\ s = S[e] /\ t = S[e + 1] /\ b = B[e] /\ d = B[e + 1]
          /\ Measured(f, s, t, b, d, c, m, n)

LEMMA HeadFrame ==
    ASSUME TypeOK, PathTypes, file # <<>>,
           NEW S \in [Nat -> Nat], NEW B \in [Nat -> Nat], NEW C \in [Nat -> Nat], NEW G,
           Layout(S, B, C), Filed(S, B, C, G), NEW f, f = Head(file), NEW e, e = FirstUnread
    PROVE  NextUp(f, e, S, B, C, G)
  <1>1. /\ file \in Seq(FileFrame) /\ Len(file) \in Nat \ {0} /\ f = file[1] /\ f \in FileFrame
    BY LenProperties, EmptySeq, HeadTailProperties DEF PathTypes
  <1>2. PICK l \in Nat \ {0} : l = Len(file)
    BY <1>1
  <1>3. /\ e = pushed - count - l /\ e \in Nat /\ pushed \in Nat /\ count \in Nat
    BY <1>2, FifoAssumption DEF Filed, FirstUnread, TypeOK
  <1>4. e \in 0..pushed - 1 /\ e \in 0..pushed /\ e + 1 \in 0..pushed /\ e + 1 - 1 = e /\ e + 1 \in Nat
    BY <1>3
  <1>5. Carries(f, e, S, B, C, G)
    <2>1. Carries(file[1], FirstUnread + 1 - 1, S, B, C, G)
      BY <1>1 DEF Filed
    <2> QED  BY <1>1, <1>4, <2>1
  <1>6. /\ S[e] \in Nat /\ S[e + 1] \in Nat /\ B[e] \in Nat /\ B[e + 1] \in Nat /\ C[e] \in Nat
    BY <1>3, <1>4
  <1>7. PICK s \in Nat, t \in Nat, b \in Nat, d \in Nat, c \in Nat :
           s = S[e] /\ t = S[e + 1] /\ b = B[e] /\ d = B[e + 1] /\ c = C[e]
    BY <1>6
  <1>8. b <= s /\ d <= t /\ t - d <= ResCapBytes /\ t - s \in Areas /\ b + c <= d
    BY <1>4, <1>7 DEF Layout
  <1>9. PICK m \in Nat, n \in Nat : m = s - b /\ n = t - s /\ n >= MainAreaBytes(0)
    <2>1. t - s \in Nat /\ t - s >= MainAreaBytes(0)
      BY <1>8, AreaFacts DEF Areas
    <2>2. s - b \in Nat
      BY <1>8
    <2> QED  BY <2>1, <2>2
  <1>10. f.area \in Seq(Byte)
    BY <1>1 DEF FileFrame
  <1>11. f.mdb = s - b /\ f.coded = c /\ Len(f.area) = t - s
    BY <1>5, <1>7 DEF Carries
  <1>12. Measured(f, s, t, b, d, c, m, n)
    BY <1>8, <1>9, <1>10, <1>11 DEF Measured
  <1> QED  BY <1>4, <1>5, <1>7, <1>12 DEF NextUp

Assembles(f, G, t, m, n) ==
    /\ ~Malformed(f) /\ Len(res) \in Nat
    /\ Piece(MainData(f), G, t) /\ Len(MainData(f)) = MinOf(m, Len(res)) + n

\* What the decoder assembles for the next frame is a piece of the stream up to the end of
\* its area, as far back as the frame reaches if the reservoir does.
LEMMA HeadAssembled ==
    ASSUME TypeOK, PathTypes, NEW G, NEW f,
           NEW s \in Nat, NEW t \in Nat, NEW b \in Nat, NEW d \in Nat, NEW c \in Nat,
           NEW m \in Nat, NEW n \in Nat,
           Measured(f, s, t, b, d, c, m, n), Piece(res, G, s), From(f.area, G, s)
    PROVE  Assembles(f, G, t, m, n)
  <1>1. f.mdb = m /\ f.coded = c /\ Len(f.area) = n /\ f.area \in Seq(Byte)
    BY DEF Measured
  <1>2. m = s - b /\ n = t - s /\ b + c <= d /\ d <= t
    BY DEF Measured
  <1>3. ~Malformed(f)
    <2>1. c <= n + m
      BY <1>2
    <2>2. ~(c > n + m)
      BY <2>1
    <2> QED  BY <1>1, <2>2 DEF Malformed
  <1>4. /\ Piece(LastBytes(res, m), G, s)
        /\ Len(LastBytes(res, m)) = MinOf(m, Len(res))
    BY PieceLast
  <1>5. /\ Piece(MainData(f), G, s + n)
        /\ Len(MainData(f)) = Len(LastBytes(res, m)) + n
    <2>1. PICK v : v = LastBytes(res, m)
      OBVIOUS
    <2>2. Piece(v, G, s)
      BY <1>4, <2>1
    <2>3. PICK z \in Seq(Byte) : z = f.area /\ From(z, G, s) /\ Len(z) = n
      BY <1>1
    <2>4. Piece(v \o z, G, s + Len(z)) /\ Len(v \o z) = Len(v) + Len(z)
      BY <2>2, <2>3, PieceJoin
    <2>5. MainData(f) = v \o z
      BY <1>1, <2>1, <2>3 DEF MainData
    <2> QED  BY <2>1, <2>3, <2>4, <2>5
  <1>6. s + n = t
    BY <1>2
  <1>7. Len(res) \in Nat
    BY LenProperties DEF PathTypes
  <1> QED  BY <1>3, <1>4, <1>5, <1>6, <1>7 DEF Assembles

Keeps(f, G, t, d) ==
    /\ Piece(Saved(f), G, t) /\ Len(Saved(f)) <= MaxBitreservoirBytes
    /\ Len(Saved(f)) >= MinOf(t - d, (decoded + 1) * MainAreaBytes(0))
    /\ Restored(f) => Len(Saved(f)) >= t - d

\* What it keeps is a piece of the stream again, as long as the frames behind need it.
LEMMA SavedReaches ==
    ASSUME TypeOK, PathTypes, NEW G, NEW f,
           NEW s \in Nat, NEW t \in Nat, NEW b \in Nat, NEW d \in Nat, NEW c \in Nat,
           NEW m \in Nat, NEW n \in Nat,
           Measured(f, s, t, b, d, c, m, n), Piece(res, G, s), From(f.area, G, s),
           Len(res) >= MinOf(m, decoded * MainAreaBytes(0))
    PROVE  Keeps(f, G, t, d)
  <1>1. /\ Len(res) \in Nat /\ Piece(MainData(f), G, t)
        /\ Len(MainData(f)) = MinOf(m, Len(res)) + n
    <2>1. Assembles(f, G, t, m, n)
      BY HeadAssembled
    <2> QED  BY <2>1 DEF Assembles
  <1>2. PICK w \in Nat \ {0} : w = MainAreaBytes(0)
    BY AreaFacts
  <1>3. PICK a \in Nat : a = decoded * w
    BY <1>2 DEF PathTypes
  <1>4. (decoded + 1) * w = a + w
    BY <1>2, <1>3 DEF PathTypes
  <1>5. PICK max \in Nat : max = MaxBitreservoirBytes /\ t - d <= max
    <2>1. ResCapBytes \in Nat /\ ResCapBytes <= MaxBitreservoirBytes /\ MaxBitreservoirBytes \in Nat
      BY CapFacts, LimitAssumption, ReachAssumption
    <2>2. t - d <= ResCapBytes
      BY DEF Measured
    <2> QED  BY <2>1, <2>2
  <1>6. PICK r \in Nat : r = Len(res) /\ r >= MinOf(m, a)
    BY <1>1, <1>2, <1>3
  <1>7. m = s - b /\ n = t - s /\ n >= w /\ b + c <= d /\ d <= t
    BY <1>2 DEF Measured
  <1>18. c <= m + n /\ m + n - c >= t - d /\ t - d \in Nat
    <2>1. m + n = t - b
      BY <1>7
    <2> QED  BY <1>7, <2>1
  <1>8. PICK used \in Nat : used = IF Restored(f) THEN f.coded ELSE 0
    BY DEF Measured
  <1>9. (Restored(f) <=> r >= m) /\ used = IF r >= m THEN c ELSE 0
    BY <1>6, <1>8 DEF Restored, Measured
  <1>10. PICK l \in Nat : l = Len(MainData(f)) /\ l = MinOf(m, r) + n
    BY <1>1, <1>6, LenProperties DEF Piece
  <1>11. used <= l
    BY <1>18, <1>9, <1>10 DEF MinOf
  <1>12. Piece(Unconsumed(f), G, t) /\ Len(Unconsumed(f)) = l - used
    <2>1. used \in 0..Len(MainData(f))
      BY <1>10, <1>11
    <2>2. PICK v : v = MainData(f)
      OBVIOUS
    <2>3. Piece(SubSeq(v, used + 1, Len(v)), G, t) /\ Len(SubSeq(v, used + 1, Len(v))) = Len(v) - used
      BY <1>1, <2>1, <2>2, PieceDrop
    <2>4. Unconsumed(f) = SubSeq(v, used + 1, Len(v))
      BY <1>8, <2>2 DEF Unconsumed
    <2> QED  BY <1>10, <2>2, <2>3, <2>4
  <1>13. PICK u \in Nat : u = Len(Unconsumed(f)) /\ u = l - used
    BY <1>11, <1>12
  <1>14. Piece(Saved(f), G, t) /\ Len(Saved(f)) = MinOf(max, u)
    <2>1. PICK v : v = Unconsumed(f)
      OBVIOUS
    <2>2. Piece(LastBytes(v, max), G, t) /\ Len(LastBytes(v, max)) = MinOf(max, Len(v))
      BY <1>12, <2>1, PieceLast
    <2> QED  BY <1>5, <1>13, <2>1, <2>2 DEF Saved
  <1>15. MinOf(max, u) <= max
    BY DEF MinOf
  <1>19. PICK v \in Nat, x \in Nat : v = t - d /\ x = a + w /\ v <= max
    BY <1>5, <1>18
  <1>16. CASE r >= m
    <2>1. u = m + n - c
      BY <1>9, <1>10, <1>13, <1>16 DEF MinOf
    <2>2. u >= t - d /\ t - d \in Nat
      BY <1>18, <2>1
    <2>3. MinOf(max, u) >= v
      BY <1>19, <2>2 DEF MinOf
    <2>4. MinOf(max, u) >= MinOf(v, x)
      BY <2>3 DEF MinOf
    <2> QED  BY <1>2, <1>4, <1>5, <1>14, <1>15, <1>19, <2>3, <2>4 DEF Keeps
  <1>17. CASE r < m
    <2>1. u = r + n /\ r >= a
      BY <1>6, <1>9, <1>10, <1>13, <1>17 DEF MinOf
    <2>2. u >= a + w
      BY <1>2, <1>7, <2>1
    <2>3. u >= x
      BY <1>19, <2>2
    <2>4. MinOf(max, u) >= MinOf(v, x)
      BY <1>19, <2>3 DEF MinOf
    <2> QED  BY <1>2, <1>4, <1>5, <1>6, <1>9, <1>14, <1>15, <1>17, <1>19, <2>4 DEF Keeps
  <1> QED  BY <1>16, <1>17 DEF Keeps
-----------------------------------------------------------------------------
(***************************************************************************)
(* What the invariant says of the decoder and the file.                    *)
(***************************************************************************)
LEMMA OwnData ==
    ASSUME TypeOK, PathTypes,
           NEW S \in [Nat -> Nat], NEW B \in [Nat -> Nat], NEW C \in [Nat -> Nat], NEW G,
           Witnessed(S, B, C, G)
    PROVE  DecodesItsOwnData
  <1> SUFFICES ASSUME file # <<>>, NEW f, f = Head(file)
               PROVE  /\ ~Malformed(f)
                      /\ Restored(f) => \A o \in 1..f.coded : MainData(f)[o] = <<f.id, o - 1>>
    BY DEF DecodesItsOwnData
  <1>1. PICK e : e = FirstUnread
    OBVIOUS
  <1>2. Layout(S, B, C) /\ Content(S, B, C, G) /\ Filed(S, B, C, G) /\ Carried(S, B, G)
    BY DEF Witnessed
  <1>0. NextUp(f, e, S, B, C, G)
    BY <1>1, <1>2, HeadFrame
  <1>3. e \in 0..pushed - 1 /\ Carries(f, e, S, B, C, G)
    BY <1>0 DEF NextUp
  <1>4. PICK s \in Nat, t \in Nat, b \in Nat, d \in Nat, c \in Nat, m \in Nat, n \in Nat :
           /\ s = S[e] /\ t = S[e + 1] /\ b = B[e] /\ d = B[e + 1]
           /\ Measured(f, s, t, b, d, c, m, n)
    BY <1>0 DEF NextUp
  <1>5. Assembles(f, G, t, m, n)
    <2>1. Piece(res, G, s) /\ From(f.area, G, s)
      BY <1>1, <1>2, <1>3, <1>4 DEF Carried, Carries
    <2> QED  BY <1>4, <2>1, HeadAssembled
  <1>6. ASSUME Restored(f), NEW o \in 1..f.coded  PROVE MainData(f)[o] = <<f.id, o - 1>>
    <2>0. c = f.coded /\ m = f.mdb
      BY <1>4 DEF Measured
    <2>1. m = s - b /\ n = t - s /\ b + c <= d /\ d <= t
      BY <1>4 DEF Measured
    <2>2. o \in Nat /\ 1 <= o /\ o <= c
      BY <1>6, <2>0
    <2>3. Len(MainData(f)) = m + n
      BY <1>5, <1>6, <2>0 DEF Assembles, Restored, MinOf
    <2>4. o \in 1..m + n /\ t - (m + n) + o - 1 = b + o - 1
      <3>1. m + n = t - b
        BY <2>1
      <3> QED  BY <2>1, <2>2, <3>1
    <2>5. MainData(f)[o] = G[b + o - 1]
      BY <1>5, <2>3, <2>4 DEF Assembles, Piece
    <2>6. PICK p \in Nat : p = b + o - 1 /\ b <= p /\ p < d /\ p - b < c /\ p - b = o - 1
      BY <2>1, <2>2
    <2>7. c = C[e] /\ f.id = e
      BY <1>3, <2>0 DEF Carries
    <2>8. G[p] = <<e, p - b>>
      BY <1>2, <1>3, <1>4, <2>6, <2>7 DEF Content
    <2> QED  BY <2>5, <2>6, <2>7, <2>8
  <1> QED  BY <1>5, <1>6 DEF Assembles

\* A reservoir as long as the next frame reaches back restores it.
LEMMA LateAndEarly ==
    ASSUME TypeOK, PathTypes, Stage,
           NEW S \in [Nat -> Nat], NEW B \in [Nat -> Nat], NEW C \in [Nat -> Nat], NEW G,
           Witnessed(S, B, C, G)
    PROVE  NothingLost /\ ResyncBound
  <1>1. PICK e : e = FirstUnread
    OBVIOUS
  <1>2. Layout(S, B, C) /\ Filed(S, B, C, G) /\ Carried(S, B, G)
    BY DEF Witnessed
  <1>3. ASSUME file # <<>>
        PROVE  /\ Head(file).mdb = S[e] - B[e] /\ S[e] - B[e] \in Nat
               /\ S[e] - B[e] <= ResCapBytes
    <2>1. NextUp(Head(file), e, S, B, C, G)
      BY <1>1, <1>2, <1>3, HeadFrame
    <2>2. e \in 0..pushed - 1 /\ Carries(Head(file), e, S, B, C, G)
      BY <2>1 DEF NextUp
    <2>3. e \in Nat /\ e \in 0..pushed
      BY <2>2 DEF TypeOK
    <2>4. PICK b \in Nat, s \in Nat : b = B[e] /\ s = S[e]
      BY <2>3
    <2>5. b <= s /\ s - b <= ResCapBytes
      BY <1>2, <2>3, <2>4 DEF Layout
    <2>6. s - b \in Nat
      BY <2>5
    <2> QED  BY <2>2, <2>4, <2>5, <2>6 DEF Carries
  <1>4. /\ Len(res) <= MaxBitreservoirBytes
        /\ Len(res) >= MinOf(S[e] - B[e], decoded * MainAreaBytes(0))
        /\ ~cut => Len(res) >= S[e] - B[e] /\ decoded = e
    BY <1>1, <1>2 DEF Carried, Reaches
  <1>5. pc = "drained" /\ file = <<>> => e = pushed
    BY <1>1, EmptySeq DEF FirstUnread, Stage, TypeOK
  <1>6. NothingLost
    BY <1>3, <1>4, <1>5 DEF NothingLost, Restored
  <1>7. ResyncBound
    <2> SUFFICES ASSUME file # <<>>, decoded * MainAreaBytes(0) >= ResCapBytes
                 PROVE  Restored(Head(file))
      BY DEF ResyncBound
    <2>1. PICK a \in Int : a = decoded * MainAreaBytes(0)
      <3>1. PICK x \in Nat, y \in Nat : x = decoded /\ y = MainAreaBytes(0)
        BY AreaFacts DEF PathTypes
      <3>2. x * y \in Int
        BY <3>1
      <3> QED  BY <3>1, <3>2
    <2>2. PICK m \in Nat : m = S[e] - B[e] /\ m <= ResCapBytes /\ Head(file).mdb = m
      BY <1>3
    <2>3. Len(res) >= MinOf(m, a) /\ Len(res) \in Nat
      BY <1>4, <2>1, <2>2, LenProperties DEF PathTypes
    <2>4. PICK cap \in Nat : cap = ResCapBytes
      BY CapFacts
    <2>6. a >= cap
      BY <2>1, <2>4
    <2>5. Len(res) >= m
      <3>1. m <= cap
        BY <2>2, <2>4
      <3>2. m <= a
        BY <2>6, <3>1
      <3>3. MinOf(m, a) = m
        BY <3>2 DEF MinOf
      <3> QED  BY <2>3, <3>3
    <2> QED  BY <2>2, <2>5 DEF Restored
  <1> QED  BY <1>6, <1>7

LEMMA NothingStale ==
    ASSUME TypeOK, PathTypes,
           NEW S \in [Nat -> Nat], NEW B \in [Nat -> Nat], NEW C \in [Nat -> Nat], NEW G,
           Witnessed(S, B, C, G)
    PROVE  NoStaleBytes
  <1> SUFFICES ASSUME NEW j \in 1..Len(file), NEW x \in 1..Len(file[j].area)
               PROVE  file[j].area[x] = Zero \/ file[j].area[x][1] >= file[j].id
    BY DEF NoStaleBytes
  <1>1. Layout(S, B, C) /\ Content(S, B, C, G) /\ Filed(S, B, C, G)
    BY DEF Witnessed
  <1>2. PICK l \in Nat : l = Len(file)
    BY LenProperties DEF PathTypes
  <1>0. PICK e \in Nat : e = FirstUnread
    BY <1>1 DEF Filed
  <1>3. PICK k \in Int : k = e + j - 1
    OBVIOUS
  <1>4. k \in 0..pushed /\ k \in Nat
    <2>1. e = pushed - count - l /\ pushed \in Nat /\ count \in Nat
      BY <1>0, <1>2, FifoAssumption DEF FirstUnread, TypeOK
    <2>2. j \in Nat /\ 1 <= j /\ j <= l
      BY <1>2
    <2>3. j <= pushed - e
      BY <2>1, <2>2
    <2>4. e + j - 1 \in 0..pushed
      BY <1>0, <2>1, <2>2, <2>3
    <2> QED  BY <1>3, <2>1, <2>2, <2>4
  <1>5. Carries(file[j], k, S, B, C, G)
    BY <1>0, <1>1, <1>3 DEF Filed
  <1>6. file[j].area[x] = G[S[k] + x - 1] /\ file[j].id = k
    BY <1>5 DEF Carries, From
  <1>7. x \in Nat \ {0}
    <2>1. file[j] \in FileFrame
      BY ElementOfSeq DEF PathTypes
    <2>2. file[j].area \in Seq(Byte)
      BY <2>1 DEF FileFrame
    <2>3. Len(file[j].area) \in Nat
      BY <2>2, LenProperties
    <2> QED  BY <2>3
  <1>8. PICK s \in Nat : s = S[k]
    BY <1>4
  <1>9. PICK p \in Nat : p = S[k] + x - 1 /\ S[k] <= p
    <2>1. s + x - 1 \in Nat /\ s <= s + x - 1
      BY <1>7
    <2> QED  BY <1>8, <2>1
  <1>10. G[p] = Zero \/ G[p][1] >= k
    BY <1>1, <1>4, <1>9 DEF Content
  <1> QED  BY <1>6, <1>9, <1>10
-----------------------------------------------------------------------------
(***************************************************************************)
(* Steps.  The path's actions are steps of the ring, or leave it alone.    *)
(***************************************************************************)
LEMMA PathIsRing ==
    ASSUME [PathNext]_pathVars
    PROVE  [Next]_vars
  BY DEF PathNext, pathVars, CodeFrameBytes, PushHeader, PlaceBytes, FlushBytes, FlushAllBytes,
         ControlStep, ResetBoth, DecodeFrame, StartLater, Next, CodeFrame, Step

LEMMA SizesSame ==
    /\ Offsets' = Offsets /\ Areas' = Areas /\ ResCapBytes' = ResCapBytes
    /\ MainAreaBytes(0)' = MainAreaBytes(0) /\ Zero' = Zero /\ Byte' = Byte
    /\ FileFrame' = FileFrame
  BY DEF Offsets, Areas, ResCapBytes, MainAreaBytes, FrameLength, Zero, Byte, FileFrame

\* With ring and buffers, the frames of the stream and what is held of them stay.
LEMMA SameRing ==
    ASSUME UNCHANGED <<vars, coded, hdr, buf>>, NEW S, NEW B, NEW C, NEW G,
           Layout(S, B, C), Content(S, B, C, G), InHand(B, C), Held(S, B, C, G)
    PROVE  Layout(S, B, C)' /\ Content(S, B, C, G)' /\ InHand(B, C)' /\ Held(S, B, C, G)'
  <1>1. /\ slots' = slots /\ head' = head /\ count' = count /\ pc' = pc /\ len' = len
        /\ total' = total /\ written' = written /\ pushed' = pushed
        /\ coded' = coded /\ hdr' = hdr /\ buf' = buf
    BY DEF vars
  <1>2. Layout(S, B, C)'
    BY <1>1, SizesSame DEF Layout, Planned
  <1>3. Content(S, B, C, G)'
    BY <1>1, SizesSame DEF Content
  <1>4. InHand(B, C)'
    BY <1>1 DEF InHand
  <1>5. Held(S, B, C, G)'
    BY <1>1, SizesSame DEF Held, HeldFrame, Pending, Nth, At, AreaEnd, AreaLen
  <1> QED  BY <1>2, <1>3, <1>4, <1>5

\* The decoder moves on to the next frame of the file.
LEMMA FileShrinks ==
    ASSUME TypeOK, PathTypes, file # <<>>, file' = Tail(file), UNCHANGED <<pushed, count>>,
           NEW S \in [Nat -> Nat], NEW B \in [Nat -> Nat], NEW C \in [Nat -> Nat], NEW G,
           Filed(S, B, C, G)
    PROVE  Filed(S, B, C, G)' /\ FirstUnread' = FirstUnread + 1 /\ file' \in Seq(FileFrame)
  <1>1. /\ file \in Seq(FileFrame) /\ Len(file) \in Nat \ {0} /\ Tail(file) \in Seq(FileFrame)
        /\ Len(Tail(file)) = Len(file) - 1
        /\ \A j \in 1..Len(Tail(file)) : Tail(file)[j] = file[j + 1]
    BY EmptySeq, LenProperties, HeadTailProperties DEF PathTypes
  <1>2. PICK l \in Nat \ {0}, e \in Nat : l = Len(file) /\ e = FirstUnread
    BY <1>1 DEF Filed
  <1>3. e = pushed - count - l /\ pushed \in Nat /\ count \in Nat
    BY <1>2, FifoAssumption DEF FirstUnread, TypeOK
  <1>4. Len(file') = l - 1 /\ \A j \in 1..l - 1 : file'[j] = file[j + 1]
    BY <1>1, <1>2
  <1>5. FirstUnread' = e + 1
    <2>1. FirstUnread' = pushed - count - (l - 1)
      BY <1>4 DEF FirstUnread
    <2> QED  BY <1>2, <1>3, <2>1
  <1>6. ASSUME NEW j \in 1..l - 1
        PROVE  Carries(file[j + 1], e + 1 + j - 1, S, B, C, G)
    <2>1. j + 1 \in 1..l /\ e + (j + 1) - 1 = e + 1 + j - 1
      BY <1>2
    <2>2. Carries(file[j + 1], e + (j + 1) - 1, S, B, C, G)
      BY <1>2, <2>1 DEF Filed
    <2> QED  BY <2>1, <2>2
  <1>7. Filed(S, B, C, G)'
    <2>1. FirstUnread' \in Nat
      BY <1>2, <1>5
    <2>2. ASSUME NEW j \in 1..Len(file')
          PROVE  Carries(file'[j], FirstUnread' + j - 1, S, B, C, G)
      BY <1>4, <1>5, <1>6
    <2> QED  BY <2>1, <2>2 DEF Filed, Carries, From
  <1> QED  BY <1>1, <1>2, <1>5, <1>7

LEMMA ReadStep ==
    ASSUME TypeOK, PathTypes, DecodeFrame \/ StartLater,
           NEW S \in [Nat -> Nat], NEW B \in [Nat -> Nat], NEW C \in [Nat -> Nat], NEW G,
           Witnessed(S, B, C, G)
    PROVE  Witnessed(S, B, C, G)' /\ PathTypes'
  <1>1. /\ file # <<>> /\ file' = Tail(file) /\ UNCHANGED <<vars, coded, hdr, buf>>
        /\ UNCHANGED <<pushed, count>>
    BY DEF DecodeFrame, StartLater, vars
  <1>2. /\ Layout(S, B, C) /\ Content(S, B, C, G) /\ InHand(B, C) /\ Held(S, B, C, G)
        /\ Filed(S, B, C, G) /\ Carried(S, B, G)
    BY DEF Witnessed
  <1>3. Layout(S, B, C)' /\ Content(S, B, C, G)' /\ InHand(B, C)' /\ Held(S, B, C, G)'
    BY <1>1, <1>2, SameRing
  <1>4. Filed(S, B, C, G)' /\ FirstUnread' = FirstUnread + 1 /\ file' \in Seq(FileFrame)
    BY <1>1, <1>2, FileShrinks
  <1>5. PICK f, e : f = Head(file) /\ e = FirstUnread
    OBVIOUS
  <1>6. NextUp(f, e, S, B, C, G)
    BY <1>1, <1>2, <1>5, HeadFrame
  <1>7. PICK s \in Nat, t \in Nat, b \in Nat, d \in Nat, c \in Nat, m \in Nat, n \in Nat :
           /\ s = S[e] /\ t = S[e + 1] /\ b = B[e] /\ d = B[e + 1]
           /\ Measured(f, s, t, b, d, c, m, n)
    BY <1>6 DEF NextUp
  <1>8. e \in Nat /\ FirstUnread' = e + 1
    BY <1>2, <1>4, <1>5 DEF Filed
  <1>9. t - d \in Nat
    <2>1. d <= t
      BY <1>7 DEF Measured
    <2> QED  BY <2>1
  <1>10. PICK w \in Nat \ {0} : w = MainAreaBytes(0)
    BY AreaFacts
  <1>11. CASE StartLater
    <2>1. res' = <<>> /\ decoded' = 0 /\ cut' = TRUE
      BY <1>11 DEF StartLater
    <2>2. <<>> \in Seq(Byte) /\ Len(<<>>) = 0
      BY EmptySeq
    <2>3. Piece(res, G, S[FirstUnread])'
      BY <1>7, <1>8, <2>1, <2>2, SizesSame DEF Piece
    <2>4. MinOf(t - d, 0 * w) = 0
      BY <1>9, <1>10 DEF MinOf
    <2>5. Reaches(<<>>, e + 1, 0, S, B)
      <3>1. Len(<<>>) <= MaxBitreservoirBytes
        BY <2>2, ReachAssumption
      <3>2. MinOf(S[e + 1] - B[e + 1], 0 * MainAreaBytes(0)) = 0
        BY <1>7, <1>10, <2>4
      <3> QED  BY <2>2, <3>1, <3>2 DEF Reaches
    <2>8. Reaches(res, FirstUnread, decoded, S, B)'
      BY <1>8, <2>1, <2>5, SizesSame DEF Reaches, MinOf
    <2>6. Carried(S, B, G)'
      BY <2>1, <2>3, <2>8 DEF Carried
    <2>7. PathTypes'
      BY <1>1, <1>4, <2>1, <2>2, SizesSame DEF PathTypes
    <2> QED  BY <1>3, <1>4, <2>6, <2>7 DEF Witnessed
  <1>12. CASE DecodeFrame
    <2>1. Piece(res, G, s) /\ From(f.area, G, s) /\ Len(res) >= MinOf(m, decoded * MainAreaBytes(0))
      <3>1. Carries(f, e, S, B, C, G)
        BY <1>6 DEF NextUp
      <3>2. m = S[e] - B[e]
        BY <1>7 DEF Measured
      <3> QED  BY <1>2, <1>5, <1>7, <3>1, <3>2 DEF Carried, Carries, Reaches
    <2>2. Assembles(f, G, t, m, n) /\ Keeps(f, G, t, d)
      <3>1. Assembles(f, G, t, m, n)
        BY <1>7, <2>1, HeadAssembled
      <3>2. Keeps(f, G, t, d)
        BY <1>7, <2>1, SavedReaches
      <3> QED  BY <3>1, <3>2
    <2>3. res' = Saved(f) /\ decoded' = decoded + 1 /\ cut' = cut
      BY <1>5, <1>12, <2>2 DEF DecodeFrame, Assembles
    <2>4. PICK r : r = Saved(f)
      OBVIOUS
    <2>5. Piece(r, G, t) /\ Len(r) <= MaxBitreservoirBytes
          /\ Len(r) >= MinOf(t - d, (decoded + 1) * MainAreaBytes(0))
          /\ (Restored(f) => Len(r) >= t - d)
      BY <2>2, <2>4 DEF Keeps
    <2>6. Piece(res, G, S[FirstUnread])'
      BY <1>7, <1>8, <2>3, <2>4, <2>5, SizesSame DEF Piece
    <2>7. Reaches(res, FirstUnread, decoded, S, B)'
      BY <1>7, <1>8, <2>3, <2>4, <2>5, SizesSame DEF Reaches, MinOf
    <2>8. ~cut => Restored(f) /\ decoded = e
      <3>1. ~cut => Len(res) >= S[e] - B[e] /\ decoded = e
        BY <1>2, <1>5 DEF Carried
      <3>2. f.mdb = S[e] - B[e]
        BY <1>7 DEF Measured
      <3> QED  BY <3>1, <3>2 DEF Restored
    <2>9. Carried(S, B, G)'
      BY <1>7, <1>8, <2>3, <2>4, <2>5, <2>6, <2>7, <2>8 DEF Carried
    <2>10. r \in Seq(Byte)
      BY <2>5 DEF Piece
    <2>11. PathTypes'
      <3>1. decoded' \in Nat /\ cut' \in BOOLEAN
        BY <2>3 DEF PathTypes
      <3> QED  BY <1>1, <1>4, <2>3, <2>4, <2>10, <3>1, SizesSame DEF PathTypes
    <2> QED  BY <1>3, <1>4, <2>9, <2>11 DEF Witnessed
  <1> QED  BY <1>11, <1>12

\* A new stream: nothing in it, nothing pending, nothing read.
LEMMA FreshStream ==
    /\ pushed = 0 /\ count = 0 /\ total = 0 /\ written = 0 /\ pc = "idle"
    /\ file = <<>> /\ res = <<>> /\ decoded = 0 /\ cut = FALSE
    => OneStream /\ DrainRest
  <1> SUFFICES ASSUME pushed = 0, count = 0, total = 0, written = 0, pc = "idle",
                      file = <<>>, res = <<>>, decoded = 0, cut = FALSE
               PROVE  OneStream /\ DrainRest
    OBVIOUS
  <1> DEFINE Z == [k \in Nat |-> 0]
             G == [p \in Nat |-> Zero]
  <1>1. /\ Z \in [Nat -> Nat] /\ G \in [Nat -> Byte] /\ (\A k \in Nat : Z[k] = 0)
        /\ \A p \in Nat : G[p] = Zero
    BY DEF Byte
  <1> HIDE DEF Z, G
  <1>2. <<>> \in Seq(Byte) /\ Len(<<>>) = 0 /\ Z[0] = 0 /\ Len(file) = 0 /\ FirstUnread = 0
    <2>1. <<>> \in Seq(Byte) /\ Len(<<>>) = 0
      BY EmptySeq
    <2>2. Len(file) = 0
      BY <2>1
    <2>3. FirstUnread = 0
      <3>1. pushed - count - 0 = 0
        OBVIOUS
      <3> QED  BY <2>2, <3>1 DEF FirstUnread
    <2> QED  BY <1>1, <2>1, <2>2, <2>3
  <1>3. Layout(Z, Z, Z)
    <2>1. 0..pushed = {0} /\ 0..pushed - 1 = {}
      OBVIOUS
    <2> QED  BY <1>2, <2>1, CapFacts DEF Layout, Planned
  <1>4. Content(Z, Z, Z, G)
    <2>1. 0..pushed - 1 = {}
      OBVIOUS
    <2> QED  BY <1>1, <2>1 DEF Content
  <1>5. InHand(Z, Z) /\ Held(Z, Z, Z, G) /\ Filed(Z, Z, Z, G) /\ DrainRest
    BY <1>2 DEF InHand, Held, Pending, Filed, DrainRest
  <1>6. Carried(Z, Z, G)
    <2>1. Piece(<<>>, G, 0)
      BY <1>2 DEF Piece
    <2>2. MinOf(0, 0 * MainAreaBytes(0)) = 0
      BY AreaFacts DEF MinOf
    <2>3. Reaches(<<>>, 0, 0, Z, Z)
      BY <1>2, <2>2, ReachAssumption DEF Reaches
    <2> QED  BY <1>2, <2>1, <2>3 DEF Carried
  <1>7. Witnessed(Z, Z, Z, G)
    BY <1>3, <1>4, <1>5, <1>6 DEF Witnessed
  <1> QED  BY <1>1, <1>5, <1>7 DEF OneStream

LEMMA CleanTypes ==
    /\ coded = 0 /\ buf = Clean /\ file = <<>> /\ res = <<>> /\ decoded = 0 /\ cut = FALSE
    /\ hdr = [s \in 0..FifoSlots - 1 |-> [mdb |-> 0, coded |-> 0]]
    => PathTypes
  <1>1. Clean \in [0..FifoSlots - 1 -> [Offsets -> Byte]]
    BY DEF Clean, Byte
  <1>2. <<>> \in Seq(Byte) /\ <<>> \in Seq(FileFrame)
    BY EmptySeq
  <1>3. [s \in 0..FifoSlots - 1 |-> [mdb |-> 0, coded |-> 0]]
          \in [0..FifoSlots - 1 -> [mdb : Int, coded : Int]]
    OBVIOUS
  <1> SUFFICES ASSUME coded = 0, buf = Clean, file = <<>>, res = <<>>, decoded = 0, cut = FALSE,
                      hdr = [s \in 0..FifoSlots - 1 |-> [mdb |-> 0, coded |-> 0]]
               PROVE  PathTypes
    OBVIOUS
  <1>4. coded \in Nat /\ decoded \in Nat /\ cut \in BOOLEAN
    OBVIOUS
  <1> QED  BY <1>1, <1>2, <1>3, <1>4 DEF PathTypes

LEMMA PathInitial == PathInit => PathInv
  <1> SUFFICES ASSUME PathInit  PROVE PathInv
    OBVIOUS
  <1>1. IInv
    BY InitIInv DEF PathInit
  <1>2. Numbered /\ Stage
    BY DEF PathInit, Init, Numbered, Pending, Stage
  <1>3. PathTypes
    BY CleanTypes DEF PathInit
  <1>4. OneStream /\ DrainRest
    BY FreshStream DEF PathInit, Init
  <1> QED  BY <1>1, <1>2, <1>3, <1>4 DEF PathInv

LEMMA RestartStep ==
    ASSUME ResetBoth
    PROVE  PathTypes' /\ OneStream' /\ DrainRest'
  <1>1. (/\ pushed = 0 /\ count = 0 /\ total = 0 /\ written = 0 /\ pc = "idle"
         /\ file = <<>> /\ res = <<>> /\ decoded = 0 /\ cut = FALSE)'
    BY DEF ResetBoth, Reset
  <1>2. (/\ coded = 0 /\ buf = Clean /\ file = <<>> /\ res = <<>> /\ decoded = 0 /\ cut = FALSE
         /\ hdr = [s \in 0..FifoSlots - 1 |-> [mdb |-> 0, coded |-> 0]])'
    <2>1. Clean' = Clean
      BY SizesSame DEF Clean
    <2> QED  BY <2>1 DEF ResetBoth
  <1>3. OneStream' /\ DrainRest'
    BY <1>1, FreshStream, PTL
  <1>4. PathTypes'
    BY <1>2, CleanTypes, PTL
  <1> QED  BY <1>3, <1>4

\* The ends of the loops: a commit fixes the end of the data that was planned, and when the
\* drain begins, what is not filled of the pending frames lies behind it.
LEMMA ControlKept ==
    ASSUME FifoSlots >= 8, IInv, IInv', PathTypes, ControlStep,
           NEW S \in [Nat -> Nat], NEW B \in [Nat -> Nat], NEW C \in [Nat -> Nat], NEW G,
           Witnessed(S, B, C, G)
    PROVE  Witnessed(S, B, C, G)' /\ PathTypes' /\ DrainRest'
  <1>1. /\ Layout(S, B, C) /\ Content(S, B, C, G) /\ InHand(B, C) /\ Held(S, B, C, G)
        /\ Filed(S, B, C, G) /\ Carried(S, B, G)
    BY DEF Witnessed
  <1>2. /\ UNCHANGED <<coded, hdr, buf, file, res, decoded, cut>>
        /\ UNCHANGED <<slots, head, count, total, pushed, len>>
    BY DEF ControlStep, Commit, FlushDone, Drain, FlushAllDone, ring, locals
  <1>3. TypeOK /\ pc' # "panic"
    BY DEF IInv, NoPanic
  <1>4. Planned' = Planned /\ pc' # "place"
    <2>1. CASE Commit
      <3>1. pc = "place" /\ pc' = "flush" /\ written' = written + len
        BY <1>3, <2>1 DEF Commit
      <3>2. written + len \in Nat
        BY <1>3 DEF TypeOK
      <3> QED  BY <3>1, <3>2 DEF Planned
    <2>2. CASE FlushDone \/ Drain \/ FlushAllDone
      BY <2>2 DEF FlushDone, Drain, FlushAllDone, Planned
    <2> QED  BY <2>1, <2>2 DEF ControlStep
  <1>5. Layout(S, B, C)'
    BY <1>1, <1>2, <1>4, SizesSame DEF Layout
  <1>6. Content(S, B, C, G)' /\ InHand(B, C)'
    BY <1>1, <1>2, <1>4, SizesSame DEF Content, InHand
  <1>7. Held(S, B, C, G)'
    BY <1>1, <1>2, SizesSame DEF Held, HeldFrame, Pending, Nth, At, AreaEnd, AreaLen
  <1>8. FirstUnread' = FirstUnread
    BY <1>2 DEF FirstUnread
  <1>9. Filed(S, B, C, G)'
    BY <1>1, <1>2, <1>8 DEF Filed, Carries, From
  <1>10. Carried(S, B, G)'
    BY <1>1, <1>2, <1>8, SizesSame DEF Carried, Piece, Reaches, MinOf
  <1>11. PathTypes'
    BY <1>2, SizesSame DEF PathTypes
  <1>12. DrainRest'
    <2> SUFFICES ASSUME NEW k \in Pending, pc' = "flushAll"
                 PROVE  Nth(k).fill = AreaLen(Nth(k)) \/ Nth(k).start + Nth(k).fill >= written
      <3>1. CASE pc' # "flushAll"
        BY <3>1 DEF DrainRest
      <3>2. CASE pc' = "flushAll"
        <4>1. Drain \/ FlushAllDone
          BY <1>3, <3>2 DEF ControlStep, Commit, FlushDone
        <4>2. UNCHANGED <<slots, head, count, written>>
          BY <4>1 DEF Drain, FlushAllDone, ring
        <4>3. Pending' = Pending /\ (\A k : Nth(k)' = Nth(k) /\ AreaLen(Nth(k))' = AreaLen(Nth(k)))
          BY <4>2 DEF Pending, Nth, At, AreaLen
        <4> QED  BY <3>2, <4>2, <4>3 DEF DrainRest
      <3> QED  BY <3>1, <3>2
    <2>2. Drain
      BY <1>3 DEF ControlStep, Commit, FlushDone, Drain, FlushAllDone
    <2>3. PICK fill \in Int, start \in Int, size \in Int, end \in Int :
             fill = Nth(k).fill /\ start = Nth(k).start /\ size = AreaLen(Nth(k)) /\ end = written
      <3>1. Nth(k).start \in Int /\ Nth(k).fill \in Int /\ AreaLen(Nth(k)) \in Int
        BY <1>3, SlotFacts
      <3>2. written \in Int
        BY <1>3 DEF TypeOK
      <3> QED  BY <3>1, <3>2
    <2>4. pc = "idle" /\ Live /\ NoGap
      BY <2>2 DEF Drain, Live, IInv
    <2>5. Position = end
      BY <2>3, <2>4 DEF Position
    <2>6. fill = MaxOf(0, MinOf(size, end - start))
      BY <2>3, <2>4, <2>5 DEF NoGap
    <2>7. size \in Nat
      <3>1. size >= MainAreaBytes(0)
        BY <2>3, <2>4 DEF IInv, Wide
      <3> QED  BY <3>1, AreaFacts
    <2>8. fill = size \/ start + fill >= end
      BY <2>6, <2>7 DEF MaxOf, MinOf
    <2> QED  BY <2>3, <2>8
  <1> QED  BY <1>1, <1>5, <1>6, <1>7, <1>9, <1>10, <1>11, <1>12 DEF Witnessed

(***************************************************************************)
(* A frame leaves the ring: its bytes are appended to the file as they are *)
(* in the stream, and the others move up.                                  *)
(***************************************************************************)
Exports(bytes, q, S, G) ==
    \A o \in Offsets : o < AreaLen(slots[head]) => bytes[o] = G[S[q] + o]

Leaves(bytes) ==
    /\ count > 0 /\ pc # "place" /\ Pop
    /\ file' = Append(file, Emitted(head, bytes))
    /\ buf' \in [0..FifoSlots - 1 -> [Offsets -> Byte]]
    /\ \A x \in 0..FifoSlots - 1 : x # head => buf'[x] = buf[x]
    /\ UNCHANGED <<slots, pc, hdr, pushed, total, written, len, coded, res, decoded, cut>>

LEMMA EmittedCarries ==
    ASSUME FifoSlots >= 8, TypeOK, Numbered, PathTypes, count > 0,
           NEW S \in [Nat -> Nat], NEW B \in [Nat -> Nat], NEW C \in [Nat -> Nat],
           NEW G \in [Nat -> Byte], Layout(S, B, C), Held(S, B, C, G),
           NEW q \in Nat, q = pushed - count,
           NEW bytes, Exports(bytes, q, S, G)
    PROVE  /\ Emitted(head, bytes) \in FileFrame
           /\ Carries(Emitted(head, bytes), q, S, B, C, G)
  <1>1. /\ 0 \in Pending /\ At(0) = head /\ head \in 0..FifoSlots - 1 /\ count \in Nat
        /\ pushed \in Nat
    BY FirstIndex, RingIndex, FifoAssumption DEF TypeOK, Pending
  <1>2. q + 0 = q /\ q \in 0..pushed - 1 /\ q + 1 \in Nat
    BY <1>1
  <1>3. HeldFrame(0, q, S, B, C, G)
    BY <1>1, <1>2 DEF Held
  <1>4. /\ slots[head].start = S[q] /\ AreaEnd(slots[head]) = S[q + 1]
        /\ hdr[head] = [mdb |-> S[q] - B[q], coded |-> C[q]]
    BY <1>1, <1>3 DEF HeldFrame, Nth
  <1>5. slots[head].id = q
    BY <1>1, <1>2 DEF Numbered, Nth
  <1>6. slots[head] \in Slot /\ AreaLen(slots[head]) \in Int
        /\ AreaEnd(slots[head]) = slots[head].start + AreaLen(slots[head])
    <2>1. /\ Nth(0) \in Slot /\ AreaLen(Nth(0)) \in Int
          /\ AreaEnd(Nth(0)) = Nth(0).start + AreaLen(Nth(0))
      BY <1>1, SlotFacts
    <2> QED  BY <1>1, <2>1 DEF Nth
  <1>7. PICK s \in Nat, t \in Nat, b \in Nat, l \in Int :
           s = S[q] /\ t = S[q + 1] /\ b = B[q] /\ l = AreaLen(slots[head])
    BY <1>2, <1>6
  <1>8. l = t - s /\ l \in Areas
    <2>1. t = s + l
      BY <1>4, <1>6, <1>7
    <2>2. t - s \in Areas
      BY <1>2, <1>7 DEF Layout
    <2>3. l = t - s
      BY <2>1
    <2> QED  BY <2>2, <2>3
  <1>9. l \in Nat /\ l <= MainAreaBytes(1) /\ MainAreaBytes(1) \in Int
    BY <1>8, AreaFacts DEF Areas
  <1>10. ASSUME NEW x \in 1..l
         PROVE  bytes[x - 1] = G[s + x - 1] /\ G[s + x - 1] \in Byte
    <2>1. x - 1 \in Offsets /\ x - 1 < l /\ s + (x - 1) = s + x - 1 /\ s + x - 1 \in Nat
      BY <1>9 DEF Offsets
    <2>2. bytes[x - 1] = G[s + (x - 1)]
      BY <1>7, <2>1 DEF Exports
    <2> QED  BY <2>1, <2>2
  <1> DEFINE a == [x \in 1..l |-> bytes[x - 1]]
  <1>11. a \in [1..l -> Byte] /\ \A x \in 1..l : a[x] = G[s + x - 1]
    BY <1>10
  <1> HIDE DEF a
  <1>12. a \in Seq(Byte) /\ Len(a) = l
    BY <1>9, <1>11
  <1>13. Emitted(head, bytes) = [id |-> q, mdb |-> s - b, coded |-> C[q], area |-> a]
    BY <1>4, <1>5, <1>7 DEF Emitted, a
  <1>14. C[q] \in Nat /\ s - b \in Int
    BY <1>2
  <1>15. Emitted(head, bytes) \in FileFrame
    BY <1>12, <1>13, <1>14 DEF FileFrame
  <1>16. Carries(Emitted(head, bytes), q, S, B, C, G)
    <2>1. PICK f : f = Emitted(head, bytes)
      OBVIOUS
    <2>2. f.id = q /\ f.mdb = s - b /\ f.coded = C[q] /\ f.area = a
      BY <1>13, <2>1
    <2>3. Len(f.area) = t - s /\ From(f.area, G, s)
      BY <1>8, <1>11, <1>12, <2>2 DEF From
    <2> QED  BY <1>7, <2>1, <2>2, <2>3 DEF Carries
  <1> QED  BY <1>15, <1>16

LEMMA EmitStep ==
    ASSUME FifoSlots >= 8, IInv, Numbered, PathTypes,
           NEW S \in [Nat -> Nat], NEW B \in [Nat -> Nat], NEW C \in [Nat -> Nat],
           NEW G \in [Nat -> Byte], Witnessed(S, B, C, G),
           NEW q \in Nat, q = pushed - count, NEW bytes, Exports(bytes, q, S, G), Leaves(bytes)
    PROVE  Witnessed(S, B, C, G)' /\ PathTypes'
  <1>1. /\ Layout(S, B, C) /\ Content(S, B, C, G) /\ Held(S, B, C, G)
        /\ Filed(S, B, C, G) /\ Carried(S, B, G)
    BY DEF Witnessed
  <1>2. /\ TypeOK /\ count' = count - 1 /\ pushed \in Nat /\ head \in 0..FifoSlots - 1
        /\ count > 0 /\ pc # "place" /\ Pop
        /\ UNCHANGED <<slots, pc, hdr, pushed, total, written, len, coded, res, decoded, cut>>
    BY DEF IInv, TypeOK, Pop, Leaves
  <1>14. PICK c \in 1..8 : c = count
    <2>1. count <= 8 /\ count \in Nat
      BY DEF IInv, DepthBound, TypeOK
    <2> QED  BY <1>2, <2>1
  <1>3. PICK l \in Nat, e \in Nat : l = Len(file) /\ e = FirstUnread /\ e = pushed - c - l
    BY <1>1, <1>14, LenProperties DEF Filed, PathTypes, FirstUnread
  <1>4. q = e + l
    <2>1. PICK p \in Nat : p = pushed
      BY <1>2
    <2>2. q = p - c /\ e = p - c - l
      BY <1>3, <1>14, <2>1
    <2> QED  BY <2>2
  <1>5. PICK g : g = Emitted(head, bytes)
    OBVIOUS
  <1>6. g \in FileFrame /\ Carries(g, q, S, B, C, G)
    BY <1>1, <1>2, <1>4, <1>5, EmittedCarries
  <1>7. /\ file' \in Seq(FileFrame) /\ Len(file') = l + 1 /\ file'[l + 1] = g
        /\ \A j \in 1..l : file'[j] = file[j]
    BY <1>3, <1>5, <1>6, AppendProperties DEF PathTypes, Leaves
  <1>8. FirstUnread' = e
    <2>1. FirstUnread' = pushed - (c - 1) - (l + 1)
      BY <1>2, <1>7, <1>14 DEF FirstUnread
    <2>2. pushed - (c - 1) - (l + 1) = pushed - c - l
      BY <1>2
    <2> QED  BY <1>3, <2>1, <2>2
  <1>9. Filed(S, B, C, G)'
    <2>1. ASSUME NEW j \in 1..l + 1
          PROVE  Carries(file'[j], e + j - 1, S, B, C, G)
      <3>1. CASE j = l + 1
        <4>1. e + (l + 1) - 1 = e + l
          OBVIOUS
        <4> QED  BY <1>4, <1>6, <1>7, <3>1, <4>1
      <3>2. CASE j # l + 1
        <4>1. j \in 1..l
          BY <3>2
        <4> QED  BY <1>1, <1>3, <1>7, <4>1 DEF Filed
      <3> QED  BY <3>1, <3>2
    <2>2. \A j \in 1..Len(file') : Carries(file'[j], FirstUnread' + j - 1, S, B, C, G)
      BY <1>7, <1>8, <2>1
    <2>3. FirstUnread' \in Nat
      BY <1>8
    <2> QED  BY <2>2, <2>3 DEF Filed, Carries, From
  <1>10. Carried(S, B, G)'
    BY <1>1, <1>2, <1>3, <1>8, SizesSame DEF Carried, Piece, Reaches, MinOf
  <1>11. Layout(S, B, C)' /\ Content(S, B, C, G)' /\ InHand(B, C)'
    BY <1>1, <1>2, SizesSame DEF Layout, Planned, Content, InHand
  <1>12. Held(S, B, C, G)'
    <2>1. Pending = 0..c - 1 /\ Pending' = 0..c - 2
      BY <1>2, <1>14 DEF Pending
    <2>2. ASSUME NEW k \in 0..c - 2
          PROVE  HeldFrame(k, pushed - count + k, S, B, C, G)'
      <3>1. k + 1 \in Pending /\ k \in 0..FifoSlots - 2 /\ k + 1 \in 0..FifoSlots - 1
            /\ k + 1 # 0
        <4>1. k \in 0..6 /\ k + 1 \in 0..7 /\ k + 1 \in 0..c - 1 /\ k + 1 # 0
          OBVIOUS
        <4>2. \A x \in 0..6 : x \in 0..FifoSlots - 2
          BY FifoAssumption
        <4>3. \A x \in 0..7 : x \in 0..FifoSlots - 1
          BY FifoAssumption
        <4> QED  BY <2>1, <4>1, <4>2, <4>3
      <3>2. At(k)' = At(k + 1)
        BY <1>2, <3>1, PopIndex
      <3>3. At(k + 1) \in 0..FifoSlots - 1 /\ At(k + 1) # head
        BY <1>2, <3>1, FirstIndex, RingIndex
      <3>4. PICK y \in 0..FifoSlots - 1 : y = At(k + 1) /\ y # head
        BY <3>3
      <3>5. Nth(k)' = Nth(k + 1) /\ hdr'[At(k)'] = hdr[y] /\ buf'[At(k)'] = buf[y]
        BY <1>2, <3>2, <3>4 DEF Nth, Leaves
      <3>6. PICK n : n = pushed - c + (k + 1)
        OBVIOUS
      <3>7. n = pushed - (c - 1) + k
        BY <1>2, <3>6
      <3>8. HeldFrame(k + 1, n, S, B, C, G)
        BY <1>1, <1>14, <3>1, <3>6 DEF Held
      <3>9. n = (pushed - count + k)'
        BY <1>2, <1>14, <3>7
      <3> QED
        BY <3>4, <3>5, <3>8, <3>9, SizesSame DEF HeldFrame, AreaEnd, AreaLen
    <2> QED  BY <2>1, <2>2 DEF Held, HeldFrame
  <1>13. PathTypes'
    BY <1>2, <1>7, SizesSame DEF PathTypes, Leaves
  <1> QED  BY <1>9, <1>10, <1>11, <1>12, <1>13 DEF Witnessed

\* The oldest pending frame, in the terms of the stream.
Oldest(q, S, G) ==
    /\ slots[head] \in Slot /\ head \in 0..FifoSlots - 1 /\ 0 \in Pending
    /\ Nth(0) = slots[head] /\ slots[head].start = S[q]
    /\ \A o \in Offsets : o < slots[head].fill => buf[head][o] = G[S[q] + o]

LEMMA OldestHeld ==
    ASSUME FifoSlots >= 8, TypeOK, count > 0,
           NEW S, NEW B, NEW C, NEW G, Held(S, B, C, G), NEW q \in Nat, q = pushed - count
    PROVE  Oldest(q, S, G)
  <1>1. 0 \in Pending /\ At(0) = head /\ head \in 0..FifoSlots - 1
    BY FirstIndex, RingIndex, FifoAssumption DEF TypeOK, Pending
  <1>2. Nth(0) = slots[head] /\ slots[head] \in Slot
    BY <1>1 DEF Nth, TypeOK
  <1>3. q + 0 = q
    OBVIOUS
  <1>4. HeldFrame(0, q, S, B, C, G)
    BY <1>1, <1>3 DEF Held
  <1> QED  BY <1>1, <1>2, <1>4 DEF HeldFrame, Oldest

\* flushInto: a complete frame's area is filled, so it is what the stream holds.
LEMMA FlushBytesStep ==
    ASSUME FifoSlots >= 8, IInv, Numbered, PathTypes, FlushBytes,
           NEW S \in [Nat -> Nat], NEW B \in [Nat -> Nat], NEW C \in [Nat -> Nat],
           NEW G \in [Nat -> Byte], Witnessed(S, B, C, G),
           NEW q \in Nat, q = pushed - count
    PROVE  Witnessed(S, B, C, G)' /\ PathTypes' /\ DrainRest'
  <1>1. /\ pc = "flush" /\ count > 0 /\ Complete(slots[head]) /\ Pop /\ pc' = pc
        /\ UNCHANGED <<slots, pushed, total, written, len>>
        /\ UNCHANGED <<coded, hdr, buf, res, decoded, cut>>
        /\ file' = Append(file, Emitted(head, buf[head]))
    BY DEF FlushBytes, FlushSlot, locals
  <1>2. TypeOK /\ Held(S, B, C, G)
    BY DEF IInv, Witnessed
  <1>3. /\ slots[head] \in Slot /\ head \in 0..FifoSlots - 1
        /\ \A o \in Offsets : o < slots[head].fill => buf[head][o] = G[S[q] + o]
    <2>1. Oldest(q, S, G)
      BY <1>1, <1>2, OldestHeld
    <2> QED  BY <2>1 DEF Oldest
  <1>4. AreaLen(slots[head]) = slots[head].fill
    <2>1. PICK n \in Nat, fill \in Nat : n = slots[head].n /\ fill = slots[head].fill
      BY <1>3 DEF Slot
    <2>2. HeaderBytes + fill = n
      BY <1>1, <2>1 DEF Complete
    <2>3. n - HeaderBytes = fill
      BY <2>2, RateAssumption
    <2> QED  BY <2>1, <2>3 DEF AreaLen
  <1>5. Exports(buf[head], q, S, G)
    BY <1>3, <1>4 DEF Exports
  <1>6. Leaves(buf[head])
    BY <1>1 DEF Leaves, PathTypes
  <1>7. Witnessed(S, B, C, G)' /\ PathTypes'
    BY <1>5, <1>6, EmitStep
  <1>8. DrainRest'
    BY <1>1 DEF DrainRest
  <1> QED  BY <1>7, <1>8

\* flushAll: the zeroed rest of an area lies behind all data, where the stream is zero.
LEMMA FlushAllBytesStep ==
    ASSUME FifoSlots >= 8, IInv, Numbered, PathTypes, DrainRest, FlushAllBytes,
           NEW S \in [Nat -> Nat], NEW B \in [Nat -> Nat], NEW C \in [Nat -> Nat],
           NEW G \in [Nat -> Byte], Witnessed(S, B, C, G),
           NEW q \in Nat, q = pushed - count
    PROVE  Witnessed(S, B, C, G)' /\ PathTypes' /\ DrainRest'
  <1>1. /\ pc = "flushAll" /\ count > 0 /\ Pop /\ pc' = pc /\ count' = count - 1
        /\ UNCHANGED <<slots, pushed, total, written, len>>
        /\ UNCHANGED <<coded, hdr, res, decoded, cut>>
        /\ buf' = [buf EXCEPT ![head] = Zeroed(head)]
        /\ file' = Append(file, Emitted(head, Zeroed(head)))
    BY DEF FlushAllBytes, FlushAllSlot, FlushedAll, locals, IInv, TypeOK, Pop
  <1>2. TypeOK /\ Held(S, B, C, G) /\ Layout(S, B, C) /\ Content(S, B, C, G)
    BY DEF IInv, Witnessed
  <1>3. /\ slots[head] \in Slot /\ head \in 0..FifoSlots - 1 /\ 0 \in Pending
        /\ Nth(0) = slots[head] /\ slots[head].start = S[q]
        /\ \A o \in Offsets : o < slots[head].fill => buf[head][o] = G[S[q] + o]
    <2>1. Oldest(q, S, G)
      BY <1>1, <1>2, OldestHeld
    <2> QED  BY <2>1 DEF Oldest
  <1>4. PICK fill \in Nat, s \in Nat, l \in Int, w \in Nat :
           /\ fill = slots[head].fill /\ s = S[q] /\ l = AreaLen(slots[head]) /\ w = written
           /\ fill = l \/ s + fill >= w
    <2>1. slots[head].fill \in Nat /\ AreaLen(slots[head]) \in Int /\ S[q] \in Nat
      BY <1>3, RateAssumption DEF Slot, AreaLen
    <2>2. slots[head].fill = AreaLen(slots[head]) \/ slots[head].start + slots[head].fill >= written
      BY <1>1, <1>3 DEF DrainRest
    <2> QED  BY <1>2, <1>3, <2>1, <2>2 DEF TypeOK
  <1>5. \A p \in Nat : w <= p => G[p] = Zero
    <2>1. B[pushed] = w
      BY <1>1, <1>2, <1>4 DEF Layout, Planned, TypeOK
    <2> QED  BY <1>2, <2>1 DEF Content
  <1>6. Offsets \subseteq Nat
    BY DEF Offsets
  <1>7. Zeroed(head) \in [Offsets -> Byte]
    BY <1>3 DEF Zeroed, PathTypes, Byte
  <1>8. Exports(Zeroed(head), q, S, G)
    <2> SUFFICES ASSUME NEW o \in Offsets, o < l
                 PROVE  Zeroed(head)[o] = G[s + o]
      BY <1>4 DEF Exports
    <2>1. CASE o < fill
      BY <1>3, <1>4, <1>6, <2>1 DEF Zeroed
    <2>2. CASE o >= fill
      <3>1. s + fill >= w
        BY <1>4, <1>6, <2>2
      <3>2. s + o \in Nat /\ w <= s + o
        BY <1>6, <2>2, <3>1
      <3>3. G[s + o] = Zero
        BY <1>5, <3>2
      <3> QED  BY <1>4, <2>2, <3>3 DEF Zeroed
    <2> QED  BY <1>6, <2>1, <2>2
  <1>9. Leaves(Zeroed(head))
    BY <1>1, <1>3, <1>7 DEF Leaves, PathTypes
  <1>10. Witnessed(S, B, C, G)' /\ PathTypes'
    BY <1>8, <1>9, EmitStep
  <1>11. DrainRest'
    <2>1. PICK c \in 1..8 : c = count
      <3>1. count <= 8 /\ count \in Nat
        BY DEF IInv, DepthBound, TypeOK
      <3> QED  BY <1>1, <3>1
    <2>2. Pending = 0..c - 1 /\ Pending' = 0..c - 2
      BY <1>1, <2>1 DEF Pending
    <2>3. ASSUME NEW k \in 0..c - 2
          PROVE  Nth(k)' = Nth(k + 1) /\ k + 1 \in Pending
      <3>1. k \in 0..FifoSlots - 2 /\ k + 1 \in 0..c - 1
        BY FifoAssumption
      <3> QED  BY <1>1, <1>3, <2>2, <3>1, PopIndex DEF Nth
    <2> QED  BY <1>1, <2>2, <2>3 DEF DrainRest, AreaLen
  <1> QED  BY <1>10, <1>11

(***************************************************************************)
(* place: the bytes taken are the next of the frame in hand, and the free  *)
(* part of the area they go to starts where the stream has got to.         *)
(***************************************************************************)
LEMMA TakenBytes ==
    ASSUME TypeOK, PathTypes, pc = "place",
           NEW S \in [Nat -> Nat], NEW B \in [Nat -> Nat], NEW C \in [Nat -> Nat], NEW G,
           Layout(S, B, C), Content(S, B, C, G), InHand(B, C),
           NEW r \in Nat, r < len
    PROVE  MainDataByte(pushed - 1, r) = G[written + r] /\ MainDataByte(pushed - 1, r) \in Byte
  <1>1. PICK k \in Nat : k = pushed - 1 /\ k + 1 = pushed /\ k \in 0..pushed - 1
    <2>1. pushed - 1 \in Nat /\ pushed \in Nat
      BY DEF InHand, TypeOK
    <2> QED  BY <2>1
  <1>2. PICK w \in Nat, l \in Nat, c \in Nat : w = written /\ l = len /\ c = coded
    BY DEF TypeOK, PathTypes
  <1>3. B[k] = w /\ C[k] = c
    BY <1>1, <1>2 DEF InHand
  <1>4. B[k + 1] = w + l
    BY <1>1, <1>2 DEF Layout, Planned
  <1>5. w + r \in Nat /\ w <= w + r /\ w + r < w + l /\ (w + r) - w = r
    BY <1>2
  <1>6. \A p \in Nat : w <= p /\ p < w + l =>
           G[p] = IF p - w < c THEN <<k, p - w>> ELSE Zero
    BY <1>1, <1>3, <1>4 DEF Content
  <1>7. G[w + r] = IF r < c THEN <<k, r>> ELSE Zero
    BY <1>5, <1>6
  <1> QED  BY <1>1, <1>2, <1>7 DEF MainDataByte, Byte

LEMMA PlaceBytesStep ==
    ASSUME FifoSlots >= 8, IInv, PathTypes, PlaceBytes,
           NEW S \in [Nat -> Nat], NEW B \in [Nat -> Nat], NEW C \in [Nat -> Nat],
           NEW G \in [Nat -> Byte], Witnessed(S, B, C, G)
    PROVE  Witnessed(S, B, C, G)' /\ PathTypes' /\ DrainRest'
  <1> DEFINE s == slots[At(i)]
             filled == s.fill..s.fill + MinOf(data, Room(s)) - 1
  <1>1. /\ PlaceSlot /\ pc = "place" /\ i < count /\ data > 0 /\ pc' = pc
        /\ slots' = [slots EXCEPT ![At(i)].fill = @ + MinOf(data, Room(s))]
        /\ UNCHANGED <<head, count, len, total, written, pushed>>
        /\ UNCHANGED <<coded, hdr, file, res, decoded, cut>>
        /\ buf' = [buf EXCEPT ![At(i)] = [o \in Offsets |->
              IF o \in filled THEN MainDataByte(pushed - 1, len - data + o - s.fill) ELSE @[o]]]
    BY DEF PlaceBytes, PlaceSlot, Nth
  <1>2. /\ Layout(S, B, C) /\ Content(S, B, C, G) /\ Held(S, B, C, G) /\ InHand(B, C)
        /\ Filed(S, B, C, G) /\ Carried(S, B, G)
    BY DEF Witnessed
  <1>3. TypeOK /\ NoGap /\ Live /\ Balance /\ Wide
    BY <1>1 DEF IInv, Live
  <1>4. PICK m \in Pending : m = i
    <2>1. i \in Nat /\ count \in Nat /\ i < count
      BY <1>1, <1>3, FifoAssumption DEF TypeOK
    <2>2. i \in 0..count - 1
      BY <2>1
    <2> QED  BY <2>2 DEF Pending
  <1>5. m \in 0..FifoSlots - 1 /\ At(m) \in 0..FifoSlots - 1
    <2>1. m \in 0..FifoSlots - 1
      BY <1>3, FifoAssumption DEF TypeOK, Pending
    <2> QED  BY <1>3, <2>1, RingIndex DEF TypeOK
  <1>6. PICK y \in 0..FifoSlots - 1 : y = At(i) /\ y = At(m)
    BY <1>4, <1>5
  <1>7. PICK fill \in Nat, start \in Nat, size \in Int :
           fill = s.fill /\ start = s.start /\ size = AreaLen(s) /\ Nth(m) = s
    <2>1. Nth(m).fill \in Nat /\ Nth(m).start \in Nat /\ AreaLen(Nth(m)) \in Int
      BY <1>3, SlotFacts
    <2>2. Nth(m) = s
      BY <1>4 DEF Nth
    <2> QED  BY <2>1, <2>2
  <1>8. PICK l \in Nat, d \in Nat, w \in Nat, take \in Int :
           l = len /\ d = data /\ w = written /\ take = MinOf(data, Room(s))
           /\ take = MinOf(d, size - fill) /\ d > 0 /\ d <= l
    <2>1. Room(s) = size - fill
      BY <1>7 DEF Room
    <2>2. data \in Nat /\ MinOf(data, size - fill) \in Int
      BY <1>3 DEF TypeOK, MinOf
    <2>3. data <= len
      BY <1>1, <1>3 DEF Balance
    <2> QED  BY <1>1, <1>3, <2>1, <2>2, <2>3 DEF TypeOK
  <1>9. take > 0 => start + fill = w + l - d
    <2>1. Position = w + (l - d)
      BY <1>1, <1>8 DEF Position
    <2>2. w + (l - d) >= start
      <3>1. Position >= IF i = count THEN total ELSE Nth(i).start
        BY <1>1, <1>3 DEF Balance
      <3>2. i # count
        BY <1>1, <1>3 DEF TypeOK
      <3> QED  BY <1>4, <1>7, <2>1, <3>1, <3>2
    <2>3. fill = MaxOf(0, MinOf(size, w + (l - d) - start))
      BY <1>3, <1>7, <2>1 DEF NoGap
    <2>4. size \in Nat
      <3>1. size >= MainAreaBytes(0)
        BY <1>3, <1>7 DEF Wide
      <3> QED  BY <3>1, AreaFacts
    <2>5. take > 0 => fill < size
      BY <1>8, <2>4 DEF MinOf
    <2> QED  BY <1>8, <2>2, <2>3, <2>4, <2>5 DEF MaxOf, MinOf
  <1>10. take <= d
    BY <1>8 DEF MinOf
  \* The bytes written.
  <1>11. ASSUME NEW o \in Offsets, o \in fill..fill + take - 1
         PROVE  /\ MainDataByte(pushed - 1, len - data + o - s.fill) = G[start + o]
                /\ MainDataByte(pushed - 1, len - data + o - s.fill) \in Byte
    <2>1. PICK r \in Nat : r = l - d + o - fill /\ r < l /\ w + r = start + o
      <3>1. take > 0 /\ o \in Int /\ o >= fill /\ o < fill + take
        BY <1>11
      <3>2. start = w + l - d - fill
        BY <1>9, <3>1
      <3>3. l - d + o - fill \in Nat /\ l - d + o - fill < l
        BY <1>8, <1>10, <3>1
      <3>4. w + (l - d + o - fill) = start + o
        BY <3>1, <3>2
      <3> QED  BY <3>3, <3>4
    <2>2. r = len - data + o - s.fill /\ r < len
      BY <1>7, <1>8, <2>1
    <2>3. MainDataByte(pushed - 1, r) = G[written + r] /\ MainDataByte(pushed - 1, r) \in Byte
      <3>1. TypeOK /\ pc = "place" /\ Layout(S, B, C) /\ Content(S, B, C, G) /\ InHand(B, C)
        BY <1>1, <1>2, <1>3
      <3> QED  BY <2>2, <3>1, TakenBytes
    <2> QED  BY <1>8, <2>1, <2>2, <2>3
  <1>12. /\ buf'[y] = [o \in Offsets |->
              IF o \in fill..fill + take - 1
                THEN MainDataByte(pushed - 1, len - data + o - s.fill) ELSE buf[y][o]]
         /\ \A x \in 0..FifoSlots - 1 : x # y => buf'[x] = buf[x]
    BY <1>1, <1>6, <1>7, <1>8 DEF PathTypes
  <1>13. /\ slots'[y] = [slots[y] EXCEPT !.fill = @ + take]
         /\ \A x \in 0..FifoSlots - 1 : x # y => slots'[x] = slots[x]
    BY <1>1, <1>3, <1>6, <1>8 DEF TypeOK
  <1>14. buf' \in [0..FifoSlots - 1 -> [Offsets -> Byte]]
    <2>1. [o \in Offsets |->
              IF o \in fill..fill + take - 1
                THEN MainDataByte(pushed - 1, len - data + o - s.fill) ELSE buf[y][o]]
            \in [Offsets -> Byte]
      BY <1>11 DEF PathTypes
    <2>2. buf' = [buf EXCEPT ![y] = buf'[y]]
      BY <1>1, <1>6, <1>12 DEF PathTypes
    <2> QED  BY <1>12, <2>1, <2>2 DEF PathTypes
  <1>15. PathTypes'
    BY <1>1, <1>14, SizesSame DEF PathTypes
  <1>16. Layout(S, B, C)' /\ Content(S, B, C, G)' /\ InHand(B, C)' /\ DrainRest'
    BY <1>1, <1>2, SizesSame DEF Layout, Planned, Content, InHand, DrainRest
  <1>17. FirstUnread' = FirstUnread
    BY <1>1 DEF FirstUnread
  <1>18. Filed(S, B, C, G)'
    BY <1>1, <1>2, <1>17 DEF Filed, Carries, From
  <1>19. Carried(S, B, G)'
    BY <1>1, <1>2, <1>17, SizesSame DEF Carried, Piece, Reaches, MinOf
  <1>20. ASSUME NEW k \in Pending, NEW n, HeldFrame(k, n, S, B, C, G)
         PROVE  HeldFrame(k, n, S, B, C, G)'
    <2>1. At(k)' = At(k) /\ k \in 0..FifoSlots - 1 /\ At(k) \in 0..FifoSlots - 1
      <3>1. k \in 0..FifoSlots - 1
        BY <1>3, FifoAssumption DEF TypeOK, Pending
      <3> QED  BY <1>1, <1>3, <3>1, RingIndex DEF TypeOK, At
    <2>2. CASE At(k) # y
      <3>1. Nth(k)' = Nth(k) /\ buf'[At(k)'] = buf[At(k)] /\ hdr'[At(k)'] = hdr[At(k)]
        BY <1>1, <1>12, <1>13, <2>1, <2>2 DEF Nth
      <3> QED  BY <1>20, <3>1, SizesSame DEF HeldFrame, AreaEnd, AreaLen
    <2>3. CASE At(k) = y
      <3>1. Nth(k) = s /\ slots[y] = s
        BY <1>6, <2>3 DEF Nth
      <3>2. s \in Slot
        BY <1>3, <1>6, <3>1 DEF TypeOK
      <3>3. /\ Nth(k)'.start = s.start /\ Nth(k)'.n = s.n /\ Nth(k)'.fill = fill + take
        BY <1>7, <1>13, <2>1, <2>3, <3>1, <3>2 DEF Nth, Slot
      <3>4. /\ s.start = S[n] /\ AreaEnd(s) = S[n + 1]
            /\ hdr[y] = [mdb |-> S[n] - B[n], coded |-> C[n]]
            /\ \A o \in Offsets : o < fill => buf[y][o] = G[S[n] + o]
        BY <1>7, <1>20, <2>3, <3>1 DEF HeldFrame
      <3>5. AreaEnd(Nth(k))' = AreaEnd(s)
        BY <3>3 DEF AreaEnd, AreaLen
      <3>6. ASSUME NEW o \in Offsets, o < fill + take
            PROVE  buf'[y][o] = G[S[n] + o]
        <4>1. CASE o \in fill..fill + take - 1
          BY <1>7, <1>11, <1>12, <3>4, <4>1
        <4>2. CASE o \notin fill..fill + take - 1
          <5>1. o < fill
            BY <3>6, <4>2 DEF Offsets
          <5> QED  BY <1>12, <3>4, <4>2, <5>1
        <4> QED  BY <4>1, <4>2
      <3>7. hdr'[At(k)'] = hdr[y] /\ buf'[At(k)'] = buf'[y]
        BY <1>1, <2>1, <2>3
      <3> QED
        BY <3>3, <3>4, <3>5, <3>6, <3>7, SizesSame DEF HeldFrame
    <2> QED  BY <2>2, <2>3
  <1>21. Held(S, B, C, G)'
    <2>1. Pending' = Pending /\ (\A k : (pushed - count + k)' = pushed - count + k)
      BY <1>1 DEF Pending
    <2>2. \A k \in Pending : HeldFrame(k, pushed - count + k, S, B, C, G)'
      <3>1. ASSUME NEW k \in Pending
            PROVE  HeldFrame(k, pushed - count + k, S, B, C, G)'
        <4>1. PICK n : n = pushed - count + k
          OBVIOUS
        <4>2. HeldFrame(k, n, S, B, C, G)'
          BY <1>2, <1>20, <4>1 DEF Held
        <4>3. n = (pushed - count + k)'
          BY <1>1, <4>1
        <4> QED  BY <4>2, <4>3 DEF HeldFrame
      <3> QED  BY <3>1
    <2> QED  BY <2>1, <2>2 DEF Held
  <1> QED  BY <1>15, <1>16, <1>18, <1>19, <1>21 DEF Witnessed

(***************************************************************************)
(* A coded frame extends the stream: its area is the next, its data        *)
(* follows the data coded before, and nothing of the old stream changes    *)
(* where slots, file and reservoir look at it.                             *)
(***************************************************************************)
\* A frame of c bytes, size with its padding, and an area of a bytes is coded.
Coding(c, a, size) ==
    /\ pc = "idle" /\ file = <<>> /\ count \in 0..7 /\ occ = total - written
    /\ slots' = [slots EXCEPT ![At(count)] =
                    [n |-> a + HeaderBytes, fill |-> 0, id |-> pushed, start |-> total]]
    /\ count' = count + 1 /\ pushed' = pushed + 1 /\ total' = total + a /\ len' = size
    /\ pc' = "place" /\ written' = written /\ head' = head
    /\ coded' = c /\ hdr' = [hdr EXCEPT ![At(count)] = [mdb |-> occ, coded |-> c]]
    /\ UNCHANGED <<buf, file, res, decoded, cut>>

\* The spend is legal: the data ends within the new area, at most the cap before its end.
Legal(c, a, size) ==
    /\ a \in Areas /\ a \in Nat /\ size \in Nat /\ c \in Nat /\ c <= size
    /\ total + a - (written + size) \in 0..ResCapBytes

LEMMA CodingFacts ==
    ASSUME FifoSlots >= 8, IInv, IInv', NEW c \in 0..HuffCap, PushHeader(c)
    PROVE  \E a, size : Coding(c, a, size) /\ Legal(c, a, size)
  <1>1. /\ TypeOK /\ pc = "idle" /\ count \in 0..7 /\ acc \in 0..SampleRate - 1
        /\ occ = total - written /\ occ \in 0..ResCapBytes /\ c \in Nat
    <2>1. TypeOK /\ DepthBound /\ pc = "idle" /\ (Live => Balance)
      BY DEF IInv, PushHeader, Push
    <2>2. Live /\ pc # "place"
      BY <2>1 DEF Live
    <2>3. occ = total - written /\ occ \in 0..ResCapBytes
      BY <2>1, <2>2 DEF Balance
    <2>4. count \in Nat /\ count <= 7
      BY <2>1, FifoAssumption DEF DepthBound, TypeOK
    <2>5. c \in Nat
      <3>1. HuffCap \in Int
        BY LimitAssumption DEF HuffCap
      <3> QED  BY <3>1
    <2>6. acc \in 0..SampleRate - 1
      BY <2>1 DEF TypeOK
    <2> QED  BY <2>1, <2>3, <2>4, <2>5, <2>6
  <1>2. PICK p \in {0, 1} : p = PaddingBit(acc)
    BY <1>1, PaddingFacts
  <1>3. PICK a \in Nat : a = MainAreaBytes(p) /\ FrameLength(p) = a + HeaderBytes
    BY <1>2, AreaFacts, RateAssumption
  <1>4. a \in Areas
    BY <1>2, <1>3 DEF Areas
  <1>5. PICK o \in Nat, cap \in Nat : o = occ /\ cap = ResCapBytes
    BY <1>1, CapFacts
  <1>6. c <= o + a
    BY <1>1, <1>2, <1>3, <1>5 DEF PushHeader, Push, SpendHi
  <1>7. PICK size \in Nat : /\ size = MaxOf(c, SpendLo(occ, MainAreaBytes(PaddingBit(acc))))
                            /\ size = MaxOf(c, MaxOf(0, o + a - cap))
    <2>1. SpendLo(occ, MainAreaBytes(PaddingBit(acc))) = MaxOf(0, o + a - cap)
      BY <1>2, <1>3, <1>5 DEF SpendLo
    <2>2. MaxOf(c, MaxOf(0, o + a - cap)) \in Nat
      BY <1>1 DEF MaxOf
    <2> QED  BY <2>1, <2>2
  <1>8. c <= size /\ o + a - size \in 0..cap
    BY <1>1, <1>6, <1>7 DEF MaxOf
  <1>9. Legal(c, a, size)
    <2>1. PICK t \in Nat, w \in Nat : t = total /\ w = written /\ o = t - w
      BY <1>1, <1>5 DEF TypeOK
    <2>2. t + a - (w + size) = o + a - size
      BY <2>1
    <2> QED  BY <1>1, <1>4, <1>5, <1>8, <2>1, <2>2 DEF Legal
  <1>10. Coding(c, a, size)
    <2>1. count # FifoSlots
      BY <1>1
    <2>2. /\ slots' = [slots EXCEPT ![At(count)] =
                    [n |-> FrameLength(p), fill |-> 0, id |-> pushed, start |-> total]]
          /\ count' = count + 1 /\ pushed' = pushed + 1 /\ total' = total + a /\ len' = size
          /\ pc' = "place" /\ written' = written /\ head' = head
      BY <1>2, <1>3, <1>7, <2>1 DEF PushHeader, Push
    <2>3. /\ file = <<>> /\ coded' = c
          /\ hdr' = [hdr EXCEPT ![At(count)] = [mdb |-> occ, coded |-> c]]
          /\ UNCHANGED <<buf, file, res, decoded, cut>>
      BY DEF PushHeader
    <2> QED  BY <1>1, <1>3, <2>2, <2>3 DEF Coding
  <1> QED  BY <1>9, <1>10

\* The stream with the new frame.
Grown(S, B, C, G, S2, B2, C2, G2, c, a, size) ==
    /\ S2[pushed + 1] = total + a /\ B2[pushed + 1] = written + size /\ C2[pushed] = c
    /\ \A k \in 0..pushed : S2[k] = S[k] /\ B2[k] = B[k]
    /\ \A k \in 0..pushed - 1 : C2[k] = C[k]
    /\ \A p \in Nat : G2[p] = IF p < written THEN G[p]
                              ELSE IF p - written < c THEN <<pushed, p - written>> ELSE Zero

LEMMA GrownExists ==
    ASSUME TypeOK, NEW c, NEW a, NEW size, Legal(c, a, size),
           NEW S \in [Nat -> Nat], NEW B \in [Nat -> Nat], NEW C \in [Nat -> Nat],
           NEW G \in [Nat -> Byte]
    PROVE  \E S2 \in [Nat -> Nat], B2 \in [Nat -> Nat], C2 \in [Nat -> Nat],
              G2 \in [Nat -> Byte] : Grown(S, B, C, G, S2, B2, C2, G2, c, a, size)
  <1>1. /\ a \in Nat /\ size \in Nat /\ c \in Nat
        /\ pushed \in Nat /\ total \in Nat /\ written \in Nat
    BY DEF Legal, TypeOK
  <1> DEFINE S2 == [S EXCEPT ![pushed + 1] = total + a]
             B2 == [B EXCEPT ![pushed + 1] = written + size]
             C2 == [C EXCEPT ![pushed] = c]
             G2 == [p \in Nat |-> IF p < written THEN G[p]
                                  ELSE IF p - written < c THEN <<pushed, p - written>> ELSE Zero]
  <1>2. pushed + 1 \in Nat /\ total + a \in Nat /\ written + size \in Nat
    BY <1>1
  <1>3. S2 \in [Nat -> Nat] /\ B2 \in [Nat -> Nat] /\ C2 \in [Nat -> Nat]
    BY <1>1, <1>2
  <1>4. G2 \in [Nat -> Byte]
    <2>1. ASSUME NEW p \in Nat
          PROVE  (IF p < written THEN G[p]
                  ELSE IF p - written < c THEN <<pushed, p - written>> ELSE Zero) \in Byte
      <3>1. p >= written => p - written \in Nat
        BY <1>1
      <3> QED  BY <1>1, <3>1 DEF Byte
    <2> QED  BY <2>1
  <1>5. S2[pushed + 1] = total + a /\ B2[pushed + 1] = written + size /\ C2[pushed] = c
    BY <1>1, <1>2
  <1>6. \A k \in 0..pushed : S2[k] = S[k] /\ B2[k] = B[k]
    BY <1>1
  <1>7. \A k \in 0..pushed - 1 : C2[k] = C[k]
    BY <1>1
  <1>8. \A p \in Nat : G2[p] = IF p < written THEN G[p]
                               ELSE IF p - written < c THEN <<pushed, p - written>> ELSE Zero
    OBVIOUS
  <1> HIDE DEF S2, B2, C2, G2
  <1>9. Grown(S, B, C, G, S2, B2, C2, G2, c, a, size)
    BY <1>5, <1>6, <1>7, <1>8 DEF Grown
  <1> QED  BY <1>3, <1>4, <1>9

\* What a coded frame adds, as numbers: p frames, areas up to t and data up to w before it.
Adds(S, B, C, S2, B2, C2, p, t, w, c, a, size) ==
    /\ p = pushed /\ t = total /\ w = written
    /\ pushed' = p + 1 /\ total' = t + a /\ Planned' = w + size /\ written' = w
    /\ S[p] = t /\ B[p] = w
    /\ S2[p] = t /\ B2[p] = w /\ C2[p] = c /\ S2[p + 1] = t + a /\ B2[p + 1] = w + size
    /\ c <= size /\ w + size <= t + a /\ t + a - (w + size) <= ResCapBytes

LEMMA GrownNumbers ==
    ASSUME TypeOK, NEW c, NEW a, NEW size, Coding(c, a, size), Legal(c, a, size),
           NEW S \in [Nat -> Nat], NEW B \in [Nat -> Nat], NEW C \in [Nat -> Nat], NEW G,
           NEW S2, NEW B2, NEW C2, NEW G2, Layout(S, B, C),
           Grown(S, B, C, G, S2, B2, C2, G2, c, a, size)
    PROVE  \E p, t, w \in Nat : Adds(S, B, C, S2, B2, C2, p, t, w, c, a, size)
  <1>1. PICK p \in Nat, t \in Nat, w \in Nat : p = pushed /\ t = total /\ w = written
    BY DEF TypeOK
  <1>2. a \in Nat /\ size \in Nat /\ c \in Nat /\ c <= size
    BY DEF Legal
  <1>3. t + a - (w + size) \in 0..ResCapBytes /\ ResCapBytes \in Nat
    BY <1>1, CapFacts DEF Legal
  <1>4. w + size <= t + a /\ t + a - (w + size) <= ResCapBytes
    BY <1>2, <1>3
  <1>5. pushed' = p + 1 /\ total' = t + a /\ Planned' = w + size /\ written' = w
    BY <1>1 DEF Coding, Planned
  <1>6. S[p] = t /\ B[p] = w
    <2>1. Planned = w + 0
      BY <1>1 DEF Planned, Coding
    <2> QED  BY <1>1, <2>1 DEF Layout
  <1>7. S2[p] = t /\ B2[p] = w /\ C2[p] = c /\ S2[p + 1] = t + a /\ B2[p + 1] = w + size
    <2>1. p \in 0..p
      BY <1>1
    <2> QED  BY <1>1, <1>6, <2>1 DEF Grown
  <1>8. Adds(S, B, C, S2, B2, C2, p, t, w, c, a, size)
    BY <1>1, <1>2, <1>4, <1>5, <1>6, <1>7 DEF Adds
  <1> QED  BY <1>8

LEMMA GrownLayout ==
    ASSUME NEW c \in Nat, NEW a \in Nat, NEW size \in Nat, a \in Areas,
           NEW S \in [Nat -> Nat], NEW B \in [Nat -> Nat], NEW C \in [Nat -> Nat], NEW G,
           NEW S2 \in [Nat -> Nat], NEW B2 \in [Nat -> Nat], NEW C2 \in [Nat -> Nat], NEW G2,
           NEW p \in Nat, NEW t \in Nat, NEW w \in Nat,
           Layout(S, B, C), Grown(S, B, C, G, S2, B2, C2, G2, c, a, size),
           Adds(S, B, C, S2, B2, C2, p, t, w, c, a, size)
    PROVE  Layout(S2, B2, C2)'
  <1>1. PICK cap \in Nat : cap = ResCapBytes
    BY CapFacts
  <1>2. S2[p + 1] = t + a /\ B2[p + 1] = w + size /\ S2[p] = t /\ B2[p] = w /\ C2[p] = c
    BY DEF Adds
  <1>3. /\ \A k \in 0..p : S2[k] = S[k] /\ B2[k] = B[k]
        /\ \A k \in 0..p - 1 : C2[k] = C[k]
    BY DEF Grown, Adds
  <1>4. /\ \A k \in 0..p : B[k] <= S[k] /\ S[k] - B[k] <= cap /\ B[k] <= w
        /\ \A k \in 0..p - 1 : S[k + 1] - S[k] \in Areas /\ B[k] + C[k] <= B[k + 1]
    BY <1>1 DEF Layout, Adds
  <1>5. c <= size /\ w + size <= t + a /\ t + a - (w + size) <= cap
    BY <1>1 DEF Adds
  <1>6. ASSUME NEW k \in 0..p + 1
        PROVE  B2[k] <= S2[k] /\ S2[k] - B2[k] <= cap /\ B2[k] <= w + size
    <2>1. CASE k \in 0..p
      <3>1. S2[k] = S[k] /\ B2[k] = B[k]
        BY <1>3, <2>1
      <3>2. B[k] <= S[k] /\ S[k] - B[k] <= cap /\ B[k] <= w
        BY <1>4, <2>1
      <3>3. PICK s \in Nat, b \in Nat : s = S[k] /\ b = B[k]
        <4>1. k \in Nat
          BY <2>1
        <4>2. S[k] \in Nat /\ B[k] \in Nat
          BY <4>1
        <4> QED  BY <4>2
      <3>4. b <= w + size
        BY <3>2, <3>3
      <3> QED  BY <3>1, <3>2, <3>3, <3>4
    <2>2. CASE k = p + 1
      <3>1. S2[k] = t + a /\ B2[k] = w + size
        BY <1>2, <2>2
      <3> QED  BY <1>5, <3>1
    <2> QED  BY <2>1, <2>2
  <1>7. ASSUME NEW k \in 0..p
        PROVE  S2[k + 1] - S2[k] \in Areas /\ B2[k] + C2[k] <= B2[k + 1]
    <2>1. CASE k \in 0..p - 1
      <3>1. k \in 0..p /\ k + 1 \in 0..p
        BY <2>1
      <3>2. S2[k + 1] = S[k + 1] /\ S2[k] = S[k] /\ B2[k] = B[k] /\ B2[k + 1] = B[k + 1]
            /\ C2[k] = C[k]
        BY <1>3, <2>1, <3>1
      <3> QED  BY <1>4, <2>1, <3>2
    <2>2. CASE k = p
      <3>1. S2[k + 1] - S2[k] = a
        BY <1>2, <2>2
      <3>2. B2[k] + C2[k] <= B2[k + 1]
        BY <1>2, <1>5, <2>2
      <3> QED  BY <3>1, <3>2
    <2> QED  BY <2>1, <2>2
  <1>8. /\ pushed' = p + 1 /\ total' = t + a /\ Planned' = w + size
        /\ ResCapBytes' = cap /\ Areas' = Areas /\ 0..pushed' - 1 = 0..p
    BY <1>1, SizesSame DEF Adds
  <1> QED  BY <1>2, <1>6, <1>7, <1>8 DEF Layout

LEMMA PastData ==
    ASSUME NEW x \in Nat, NEW w \in Nat, NEW c \in Nat, NEW size \in Nat,
           c <= size, w + size <= x
    PROVE  x >= w /\ ~(x - w < c)
  OBVIOUS

LEMMA GrownContent ==
    ASSUME NEW c \in Nat, NEW a \in Nat, NEW size \in Nat,
           NEW S \in [Nat -> Nat], NEW B \in [Nat -> Nat], NEW C \in [Nat -> Nat], NEW G,
           NEW S2 \in [Nat -> Nat], NEW B2 \in [Nat -> Nat], NEW C2 \in [Nat -> Nat], NEW G2,
           NEW p \in Nat, NEW t \in Nat, NEW w \in Nat,
           Layout(S, B, C), Content(S, B, C, G),
           Grown(S, B, C, G, S2, B2, C2, G2, c, a, size),
           Adds(S, B, C, S2, B2, C2, p, t, w, c, a, size)
    PROVE  Content(S2, B2, C2, G2)'
  <1>1. /\ S2[p + 1] = t + a /\ B2[p + 1] = w + size /\ S2[p] = t /\ B2[p] = w /\ C2[p] = c
        /\ B[p] = w /\ c <= size /\ w + size <= t + a
    BY DEF Adds
  <1>2. /\ \A k \in 0..p : S2[k] = S[k] /\ B2[k] = B[k]
        /\ \A k \in 0..p - 1 : C2[k] = C[k]
    BY DEF Grown, Adds
  <1>3. \A x \in Nat : /\ x < w => G2[x] = G[x]
                       /\ x >= w /\ x - w < c => G2[x] = <<p, x - w>>
                       /\ x >= w /\ ~(x - w < c) => G2[x] = Zero
    <2> SUFFICES ASSUME NEW x \in Nat
                 PROVE  /\ x < w => G2[x] = G[x]
                        /\ x >= w /\ x - w < c => G2[x] = <<p, x - w>>
                        /\ x >= w /\ ~(x - w < c) => G2[x] = Zero
      OBVIOUS
    <2>1. G2[x] = IF x < w THEN G[x] ELSE IF x - w < c THEN <<p, x - w>> ELSE Zero
      BY DEF Grown, Adds
    <2>2. x >= w => ~(x < w)
      OBVIOUS
    <2> QED  BY <2>1, <2>2, Zenon
  <1>4. /\ \A k \in 0..p - 1 : \A x \in Nat : B[k] <= x /\ x < B[k + 1] =>
              G[x] = IF x - B[k] < C[k] THEN <<k, x - B[k]>> ELSE Zero
        /\ \A k \in 0..p : \A x \in Nat : S[k] <= x => G[x] = Zero \/ G[x][1] >= k
    BY DEF Content, Adds
  <1>5. \A k \in 0..p : B[k] <= w
    BY DEF Layout, Adds
  <1>6. ASSUME NEW k \in 0..p, NEW x \in Nat, B2[k] <= x, x < B2[k + 1]
        PROVE  G2[x] = IF x - B2[k] < C2[k] THEN <<k, x - B2[k]>> ELSE Zero
    <2>1. CASE k \in 0..p - 1
      <3>1. k + 1 \in 0..p
        BY <2>1
      <3>2. B2[k + 1] = B[k + 1] /\ B2[k] = B[k] /\ C2[k] = C[k] /\ B[k + 1] <= w
        BY <1>2, <1>5, <2>1, <3>1
      <3>3. x < w
        BY <1>6, <3>1, <3>2
      <3>4. G2[x] = G[x]
        BY <1>3, <3>3
      <3>5. G[x] = IF x - B[k] < C[k] THEN <<k, x - B[k]>> ELSE Zero
        BY <1>4, <1>6, <2>1, <3>2
      <3> QED  BY <3>2, <3>4, <3>5
    <2>2. CASE k = p
      <3>1. B2[k] = w /\ C2[k] = c /\ x >= w
        BY <1>1, <1>6, <2>2
      <3>2. G2[x] = IF x - w < c THEN <<p, x - w>> ELSE Zero
        BY <1>3, <3>1, Zenon
      <3>3. <<k, x - B2[k]>> = <<p, x - w>>
        BY <2>2, <3>1
      <3>4. CASE x - w < c
        <4>1. x - B2[k] < C2[k]
          BY <3>1, <3>4
        <4>2. G2[x] = <<k, x - B2[k]>>
          BY <3>2, <3>3, <3>4, Zenon
        <4> QED  BY <4>1, <4>2, Zenon
      <3>5. CASE ~(x - w < c)
        <4>1. ~(x - B2[k] < C2[k])
          BY <3>1, <3>5
        <4>2. G2[x] = Zero
          BY <3>2, <3>5, Zenon
        <4> QED  BY <4>1, <4>2, Zenon
      <3> QED  BY <3>4, <3>5, Zenon
    <2>3. k \in 0..p - 1 \/ k = p
      OBVIOUS
    <2> QED  BY <2>1, <2>2, <2>3, Zenon
  <1>7. ASSUME NEW k \in 0..p + 1, NEW x \in Nat, S2[k] <= x
        PROVE  G2[x] = Zero \/ G2[x][1] >= k
    <2>1. CASE k = p + 1
      <3>1. t + a <= x
        BY <1>1, <1>7, <2>1
      <3>2. c <= size /\ w + size <= t + a
        BY <1>1
      <3>3. w + size <= x
        BY <3>1, <3>2
      <3>4. x >= w /\ ~(x - w < c)
        BY <3>2, <3>3, PastData
      <3> QED  BY <1>3, <3>4
    <2>2. CASE k \in 0..p /\ x < w
      <3>1. S[k] <= x
        BY <1>2, <1>7, <2>2
      <3> QED  BY <1>3, <1>4, <2>2, <3>1
    <2>3. CASE k \in 0..p /\ x >= w
      <3>1. CASE x - w < c
        <4>1. G2[x] = <<p, x - w>>
          BY <1>3, <2>3, <3>1
        <4>2. G2[x][1] = p
          BY <4>1
        <4> QED  BY <2>3, <4>2
      <3> QED  BY <1>3, <2>3, <3>1
    <2> QED  BY <2>1, <2>2, <2>3
  <1>8. ASSUME NEW x \in Nat, B2[p + 1] <= x
        PROVE  G2[x] = Zero
    <2>1. w + size <= x /\ c <= size
      BY <1>1, <1>8
    <2>2. x >= w /\ ~(x - w < c)
      BY <2>1, PastData
    <2> QED  BY <1>3, <2>2
  <1>9. pushed' = p + 1 /\ Zero' = Zero /\ 0..pushed' - 1 = 0..p
    BY SizesSame DEF Adds
  <1> QED  BY <1>6, <1>7, <1>8, <1>9 DEF Content

\* Older slots stay as they are; the new one, the n-th, is the newest.
NewestIs(n, a, p, t, c) ==
    /\ n = count /\ count' = n + 1 /\ n \in 0..7
    /\ \A k \in 0..n - 1 : Nth(k)' = Nth(k) /\ hdr'[At(k)'] = hdr[At(k)]
                           /\ buf'[At(k)'] = buf[At(k)]
    /\ Nth(n)' = [n |-> a + HeaderBytes, fill |-> 0, id |-> p, start |-> t]
    /\ hdr'[At(n)'] = [mdb |-> occ, coded |-> c]

LEMMA GrownRing ==
    ASSUME FifoSlots >= 8, TypeOK, PathTypes,
           NEW c, NEW a, NEW size, Coding(c, a, size), NEW n, n = count
    PROVE  NewestIs(n, a, pushed, total, c)
  <1>1. n \in 0..7 /\ n \in 0..FifoSlots - 1 /\ head \in 0..FifoSlots - 1 /\ count' = n + 1
    BY FifoAssumption DEF Coding, TypeOK
  <1>2. /\ slots \in [0..FifoSlots - 1 -> Slot] /\ head' = head /\ buf' = buf
        /\ hdr \in [0..FifoSlots - 1 -> [mdb : Int, coded : Int]]
        /\ hdr' = [hdr EXCEPT ![At(n)] = [mdb |-> occ, coded |-> c]]
        /\ slots' = [slots EXCEPT ![At(n)] =
                        [n |-> a + HeaderBytes, fill |-> 0, id |-> pushed, start |-> total]]
    BY DEF Coding, TypeOK, PathTypes
  <1>3. \A k : At(k)' = At(k) /\ Nth(k)' = slots'[At(k)]
    BY <1>2 DEF At, Nth
  <1>4. At(n) \in 0..FifoSlots - 1
    BY <1>1, RingIndex
  <1>5. ASSUME NEW k \in 0..n - 1
        PROVE  Nth(k)' = Nth(k) /\ hdr'[At(k)'] = hdr[At(k)] /\ buf'[At(k)'] = buf[At(k)]
    <2>1. k \in 0..FifoSlots - 1 /\ k # n
      BY <1>1, FifoAssumption
    <2>2. At(k) \in 0..FifoSlots - 1 /\ At(k) # At(n)
      BY <1>1, <2>1, RingIndex
    <2>3. slots'[At(k)] = slots[At(k)] /\ hdr'[At(k)] = hdr[At(k)]
      BY <1>2, <1>4, <2>2
    <2> QED  BY <1>2, <1>3, <2>3 DEF Nth
  <1>6. slots'[At(n)] = [n |-> a + HeaderBytes, fill |-> 0, id |-> pushed, start |-> total]
        /\ hdr'[At(n)] = [mdb |-> occ, coded |-> c]
    BY <1>2, <1>4
  <1>7. Nth(n)' = [n |-> a + HeaderBytes, fill |-> 0, id |-> pushed, start |-> total]
        /\ hdr'[At(n)'] = [mdb |-> occ, coded |-> c]
    BY <1>3, <1>6
  <1> QED  BY <1>1, <1>5, <1>7 DEF NewestIs

LEMMA GrownHeld ==
    ASSUME FifoSlots >= 8, IInv, PathTypes, file = <<>>, pc = "idle", occ = total - written,
           NEW c \in Nat, NEW a \in Nat, NEW size \in Nat,
           NEW S \in [Nat -> Nat], NEW B \in [Nat -> Nat], NEW C \in [Nat -> Nat],
           NEW G \in [Nat -> Byte],
           NEW S2 \in [Nat -> Nat], NEW B2 \in [Nat -> Nat], NEW C2 \in [Nat -> Nat],
           NEW G2 \in [Nat -> Byte],
           NEW p \in Nat, NEW t \in Nat, NEW w \in Nat, NEW n \in Nat,
           NewestIs(n, a, p, t, c), Held(S, B, C, G), FirstUnread \in Nat,
           Grown(S, B, C, G, S2, B2, C2, G2, c, a, size),
           Adds(S, B, C, S2, B2, C2, p, t, w, c, a, size)
    PROVE  Held(S2, B2, C2, G2)'
  <1>1. /\ TypeOK /\ NoGap /\ Live /\ n = count /\ p = pushed /\ t = total /\ w = written
        /\ count' = n + 1 /\ pushed' = p + 1 /\ Position = w
    BY DEF IInv, Live, Adds, NewestIs, Position
  <1>2. p - n \in Nat
    <2>1. Len(file) = 0
      BY LenProperties DEF PathTypes
    <2> QED  BY <1>1, <2>1 DEF FirstUnread
  <1>3. /\ S2[p + 1] = t + a /\ S2[p] = t /\ B2[p] = w /\ C2[p] = c
        /\ \A k \in 0..p : S2[k] = S[k] /\ B2[k] = B[k]
        /\ \A k \in 0..p - 1 : C2[k] = C[k]
        /\ \A x \in Nat : x < w => G2[x] = G[x]
    BY DEF Adds, Grown
  <1>4. ASSUME NEW k \in 0..n - 1, NEW m, m = p - n + k
        PROVE  HeldFrame(k, m, S2, B2, C2, G2)'
    <2>1. HeldFrame(k, m, S, B, C, G)
      BY <1>1, <1>4 DEF Held, Pending
    <2>2. m \in 0..p - 1 /\ m \in 0..p /\ m + 1 \in 0..p /\ m \in Nat /\ m + 1 \in Nat
      BY <1>2, <1>4
    <2>3. S2[m] = S[m] /\ S2[m + 1] = S[m + 1] /\ B2[m] = B[m] /\ C2[m] = C[m]
      BY <1>3, <2>2
    <2>4. Nth(k)' = Nth(k) /\ hdr'[At(k)'] = hdr[At(k)] /\ buf'[At(k)'] = buf[At(k)]
          /\ AreaEnd(Nth(k))' = AreaEnd(Nth(k))
      BY DEF NewestIs, AreaEnd, AreaLen
    <2>5. k \in Pending /\ Nth(k).start = S[m]
      BY <1>1, <2>1 DEF Pending, HeldFrame
    <2>6. PICK start \in Nat, fill \in Nat, len0 \in Int :
             start = Nth(k).start /\ fill = Nth(k).fill /\ len0 = AreaLen(Nth(k))
      BY <1>1, <2>5, SlotFacts
    <2>7. fill = MaxOf(0, MinOf(len0, w - start))
      BY <1>1, <2>5, <2>6 DEF NoGap
    <2>8. ASSUME NEW o \in Offsets, o < fill
          PROVE  buf'[At(k)'][o] = G2[S2[m] + o]
      <3>1. o \in Nat
        BY <2>8, AreaFacts DEF Offsets
      <3>2. start + o \in Nat /\ start + o < w
        BY <1>1, <2>7, <2>8, <3>1 DEF MaxOf, MinOf
      <3>3. buf[At(k)][o] = G[S[m] + o]
        BY <2>1, <2>6, <2>8 DEF HeldFrame
      <3>4. S[m] + o = start + o /\ S2[m] + o = start + o
        BY <2>3, <2>5, <2>6
      <3> QED  BY <1>3, <2>4, <3>2, <3>3, <3>4
    <2>9. /\ Nth(k).start = S2[m] /\ AreaEnd(Nth(k)) = S2[m + 1]
          /\ hdr[At(k)] = [mdb |-> S2[m] - B2[m], coded |-> C2[m]]
      BY <2>1, <2>3 DEF HeldFrame
    <2> QED  BY <2>4, <2>6, <2>8, <2>9, SizesSame DEF HeldFrame
  <1>5. HeldFrame(n, p, S2, B2, C2, G2)'
    <2>1. Nth(n)' = [n |-> a + HeaderBytes, fill |-> 0, id |-> p, start |-> t]
          /\ hdr'[At(n)'] = [mdb |-> occ, coded |-> c]
      BY DEF NewestIs
    <2>2. Nth(n)'.start = S2[p] /\ Nth(n)'.fill = 0
      BY <1>3, <2>1
    <2>3. AreaEnd(Nth(n))' = S2[p + 1]
      <3>1. Nth(n)'.start + (Nth(n)'.n - HeaderBytes) = t + a
        BY <2>1, RateAssumption
      <3> QED  BY <1>3, <3>1 DEF AreaEnd, AreaLen
    <2>4. hdr'[At(n)'] = [mdb |-> S2[p] - B2[p], coded |-> C2[p]]
      BY <1>1, <1>3, <2>1
    <2>5. \A o \in Offsets : ~(o < 0)
      BY AreaFacts DEF Offsets
    <2> QED  BY <2>2, <2>3, <2>4, <2>5, SizesSame DEF HeldFrame
  <1>6. Pending' = 0..n /\ pushed' - count' = p - n
    BY <1>1 DEF Pending
  <1>7. ASSUME NEW k \in 0..n, NEW m, m = p - n + k
        PROVE  HeldFrame(k, m, S2, B2, C2, G2)'
    <2>1. CASE k = n
      <3>1. m = p
        BY <1>7, <2>1
      <3> QED  BY <1>5, <2>1, <3>1
    <2>2. CASE k \in 0..n - 1
      BY <1>4, <1>7, <2>2
    <2> QED  BY <2>1, <2>2
  <1>8. ASSUME NEW k \in 0..n
        PROVE  HeldFrame(k, pushed - count + k, S2, B2, C2, G2)'
    <2>1. PICK m : m = p - n + k
      OBVIOUS
    <2>2. (pushed - count + k)' = m
      BY <1>6, <2>1
    <2>3. HeldFrame(k, m, S2, B2, C2, G2)'
      BY <1>7, <2>1
    <2> QED  BY <2>2, <2>3 DEF HeldFrame
  <1> QED  BY <1>6, <1>8 DEF Held

LEMMA GrownCarried ==
    ASSUME FifoSlots >= 8, IInv, PathTypes, file = <<>>, file' = <<>>, pc = "idle",
           UNCHANGED <<res, decoded, cut>>, NEW c, NEW a, NEW size,
           NEW S \in [Nat -> Nat], NEW B \in [Nat -> Nat], NEW C \in [Nat -> Nat],
           NEW G \in [Nat -> Byte],
           NEW S2 \in [Nat -> Nat], NEW B2 \in [Nat -> Nat], NEW C2 \in [Nat -> Nat],
           NEW G2 \in [Nat -> Byte],
           NEW p \in Nat, NEW t \in Nat, NEW w \in Nat, NEW n \in Nat,
           NewestIs(n, a, p, t, c), Held(S, B, C, G), Filed(S, B, C, G), Carried(S, B, G),
           Grown(S, B, C, G, S2, B2, C2, G2, c, a, size),
           Adds(S, B, C, S2, B2, C2, p, t, w, c, a, size)
    PROVE  Filed(S2, B2, C2, G2)' /\ Carried(S2, B2, G2)'
  <1>1. PICK e : e = FirstUnread
    OBVIOUS
  <1>2. /\ n = count /\ p = pushed /\ t = total /\ w = written
        /\ count' = n + 1 /\ pushed' = p + 1 /\ Position = w /\ TypeOK /\ Reach /\ Live
    BY DEF IInv, Live, Adds, NewestIs, Position
  <1>3. Len(file) = 0 /\ Len(file') = 0
    BY LenProperties, EmptySeq
  <1>4. e = p - n /\ e \in Nat /\ e \in 0..p
    BY <1>1, <1>2, <1>3 DEF FirstUnread, Filed
  <1>5. FirstUnread' = e
    BY <1>2, <1>3, <1>4 DEF FirstUnread
  <1>6. S[e] <= w
    <2>1. CASE n = 0
      <3>1. w = t /\ e = p /\ S[p] = t
        BY <1>2, <1>4, <2>1 DEF Reach, Adds
      <3> QED  BY <3>1
    <2>2. CASE n # 0
      <3>1. 0 \in Pending /\ Nth(0).start <= w
        BY <1>2, <2>2 DEF Reach, Pending
      <3>2. HeldFrame(0, e, S, B, C, G)
        BY <1>2, <1>4, <3>1 DEF Held
      <3> QED  BY <3>1, <3>2 DEF HeldFrame
    <2> QED  BY <2>1, <2>2
  <1>7. S2[e] = S[e] /\ B2[e] = B[e]
    BY <1>2, <1>4 DEF Grown
  <1>8. Piece(res, G2, S[e])
    <2>1. ASSUME NEW x \in Nat, x < S[e]
          PROVE  G2[x] = G[x]
      <3>1. PICK s \in Nat : s = S[e]
        BY <1>4
      <3>2. x < s /\ s <= w
        BY <1>6, <2>1, <3>1
      <3>3. x < w
        BY <3>2
      <3> QED  BY <1>2, <3>3 DEF Grown
    <2>2. Piece(res, G, S[e]) /\ S[e] \in Nat
      BY <1>1, <1>4 DEF Carried
    <2> QED  BY <2>1, <2>2, PieceKept
  <1>9. Piece(res, G2, S2[e])'
    BY <1>7, <1>8, SizesSame DEF Piece
  <1>10. Reaches(res, e, decoded, S2, B2)'
    BY <1>1, <1>7, SizesSame DEF Carried, Reaches, MinOf
  <1>11. ~cut' => Len(res') >= S2[e] - B2[e] /\ decoded' = e
    BY <1>1, <1>7 DEF Carried
  <1>12. Carried(S2, B2, G2)'
    BY <1>5, <1>9, <1>10, <1>11 DEF Carried, Reaches, MinOf, Piece
  <1>13. Filed(S2, B2, C2, G2)'
    BY <1>3, <1>4, <1>5 DEF Filed
  <1> QED  BY <1>12, <1>13

LEMMA PushBytesStep ==
    ASSUME FifoSlots >= 8, IInv, IInv', PathTypes, CodeFrameBytes,
           NEW S \in [Nat -> Nat], NEW B \in [Nat -> Nat], NEW C \in [Nat -> Nat],
           NEW G \in [Nat -> Byte], Witnessed(S, B, C, G)
    PROVE  OneStream' /\ PathTypes' /\ DrainRest'
  <1>1. PICK c \in 0..HuffCap : PushHeader(c)
    BY DEF CodeFrameBytes
  <1>2. PICK a, size : Coding(c, a, size) /\ Legal(c, a, size)
    BY <1>1, CodingFacts
  <1>3. /\ TypeOK /\ pc = "idle" /\ file = <<>> /\ file' = <<>> /\ occ = total - written
        /\ UNCHANGED <<buf, res, decoded, cut>> /\ pc' = "place" /\ coded' = c
        /\ hdr' = [hdr EXCEPT ![At(count)] = [mdb |-> occ, coded |-> c]]
    BY <1>2 DEF IInv, Coding
  <1>4. a \in Nat /\ size \in Nat /\ c \in Nat /\ a \in Areas
    BY <1>2 DEF Legal
  <1>5. /\ Layout(S, B, C) /\ Content(S, B, C, G) /\ Held(S, B, C, G)
        /\ Filed(S, B, C, G) /\ Carried(S, B, G)
    BY DEF Witnessed
  <1>6. PICK S2 \in [Nat -> Nat], B2 \in [Nat -> Nat], C2 \in [Nat -> Nat],
             G2 \in [Nat -> Byte] : Grown(S, B, C, G, S2, B2, C2, G2, c, a, size)
    BY <1>2, <1>3, GrownExists
  <1>7. PICK p \in Nat, t \in Nat, w \in Nat : Adds(S, B, C, S2, B2, C2, p, t, w, c, a, size)
    BY <1>2, <1>3, <1>5, <1>6, GrownNumbers
  <1>8. PICK n \in Nat : n = count
    BY <1>3, FifoAssumption DEF TypeOK
  <1>9. NewestIs(n, a, p, t, c)
    <2>1. NewestIs(n, a, pushed, total, c)
      BY <1>2, <1>3, <1>8, GrownRing
    <2> QED  BY <1>7, <2>1 DEF Adds
  <1>10. Layout(S2, B2, C2)'
    BY <1>4, <1>5, <1>6, <1>7, GrownLayout
  <1>11. Content(S2, B2, C2, G2)'
    BY <1>4, <1>5, <1>6, <1>7, GrownContent
  <1>12. InHand(B2, C2)'
    <2>1. /\ pushed' = p + 1 /\ C2[p] = c /\ B2[p] = w /\ written' = w
      BY <1>7 DEF Adds
    <2>2. pushed' > 0 /\ pushed' - 1 = p
      BY <2>1
    <2> QED  BY <1>3, <2>1, <2>2 DEF InHand
  <1>13. Held(S2, B2, C2, G2)'
    <2>1. FirstUnread \in Nat
      BY <1>5 DEF Filed
    <2> QED  BY <1>3, <1>4, <1>5, <1>6, <1>7, <1>8, <1>9, <2>1, GrownHeld
  <1>14. Filed(S2, B2, C2, G2)' /\ Carried(S2, B2, G2)'
    BY <1>3, <1>5, <1>6, <1>7, <1>8, <1>9, GrownCarried
  <1>15. OneStream'
    <2>1. Witnessed(S2, B2, C2, G2)'
      BY <1>10, <1>11, <1>12, <1>13, <1>14 DEF Witnessed
    <2>2. Byte' = Byte
      BY SizesSame
    <2> QED  BY <2>1, <2>2 DEF OneStream
  <1>16. PathTypes'
    <2>1. hdr' \in [0..FifoSlots - 1 -> [mdb : Int, coded : Int]]
      <3>1. [mdb |-> occ, coded |-> c] \in [mdb : Int, coded : Int]
        BY <1>3, <1>4 DEF TypeOK
      <3> QED  BY <1>3, <3>1 DEF PathTypes
    <2>2. file' \in Seq(FileFrame)
      BY <1>3, EmptySeq
    <2> QED  BY <1>3, <1>4, <2>1, <2>2, SizesSame DEF PathTypes
  <1>17. DrainRest'
    BY <1>3 DEF DrainRest
  <1> QED  BY <1>15, <1>16, <1>17
-----------------------------------------------------------------------------
LEMMA PathStep ==
    ASSUME FifoSlots >= 8, PathInv, [PathNext]_pathVars
    PROVE  PathInv'
  <1>1. [Next]_vars
    BY PathIsRing
  <1>2. IInv /\ Numbered /\ Stage /\ PathTypes /\ DrainRest /\ OneStream /\ TypeOK
    BY DEF PathInv, IInv
  <1>3. IInv' /\ Numbered' /\ Stage'
    BY <1>1, <1>2, NextStep, NumberedInductive, StageInductive
  <1>4. PICK S \in [Nat -> Nat], B \in [Nat -> Nat], C \in [Nat -> Nat], G \in [Nat -> Byte] :
           Witnessed(S, B, C, G)
    BY <1>2 DEF OneStream
  <1>5. Byte' = Byte
    BY SizesSame
  <1>6. ASSUME Witnessed(S, B, C, G)'
        PROVE  OneStream'
    BY <1>5, <1>6 DEF OneStream
  <1>7. PICK q \in Nat : q = pushed - count
    <2>1. FirstUnread \in Nat /\ Len(file) \in Nat /\ pushed \in Nat /\ count \in Nat
      BY <1>2, <1>4, LenProperties, FifoAssumption DEF Witnessed, Filed, PathTypes, TypeOK
    <2>2. pushed - count \in Nat
      BY <2>1 DEF FirstUnread
    <2> QED  BY <2>2
  <1>8. PathTypes' /\ DrainRest' /\ OneStream'
    <2>1. CASE CodeFrameBytes
      BY <1>2, <1>3, <1>4, <2>1, PushBytesStep
    <2>2. CASE PlaceBytes
      BY <1>2, <1>4, <1>6, <2>2, PlaceBytesStep
    <2>3. CASE FlushBytes
      BY <1>2, <1>4, <1>6, <1>7, <2>3, FlushBytesStep
    <2>4. CASE FlushAllBytes
      BY <1>2, <1>4, <1>6, <1>7, <2>4, FlushAllBytesStep
    <2>5. CASE ControlStep
      BY <1>2, <1>3, <1>4, <1>6, <2>5, ControlKept
    <2>6. CASE ResetBoth
      BY <2>6, RestartStep
    <2>7. CASE DecodeFrame \/ StartLater
      <3>1. Witnessed(S, B, C, G)' /\ PathTypes'
        BY <1>2, <1>4, <2>7, ReadStep
      <3>2. UNCHANGED <<slots, head, count, pc, written>>
        BY <2>7 DEF DecodeFrame, StartLater, vars
      <3>3. DrainRest'
        BY <1>2, <3>2 DEF DrainRest, Pending, Nth, At, AreaLen
      <3> QED  BY <1>6, <3>1, <3>3
    <2>8. CASE UNCHANGED pathVars
      <3>1. UNCHANGED <<slots, head, count, pc, written>> /\ UNCHANGED <<vars, coded, hdr, buf>>
        BY <2>8 DEF pathVars, vars
      <3>2. UNCHANGED <<file, res, decoded, cut, coded, hdr, buf, pushed, count>>
        BY <2>8 DEF pathVars, vars
      <3>3. DrainRest'
        BY <1>2, <3>1 DEF DrainRest, Pending, Nth, At, AreaLen
      <3>4. PathTypes'
        BY <1>2, <3>2, SizesSame DEF PathTypes
      <3>5. Layout(S, B, C)' /\ Content(S, B, C, G)' /\ InHand(B, C)' /\ Held(S, B, C, G)'
        BY <1>4, <3>1, SameRing DEF Witnessed
      <3>6. FirstUnread' = FirstUnread
        BY <3>2 DEF FirstUnread
      <3>7. Filed(S, B, C, G)'
        BY <1>4, <3>2, <3>6 DEF Witnessed, Filed, Carries, From
      <3>8. Carried(S, B, G)'
        BY <1>4, <3>2, <3>6, SizesSame DEF Witnessed, Carried, Piece, Reaches, MinOf
      <3> QED  BY <1>6, <3>3, <3>4, <3>5, <3>7, <3>8 DEF Witnessed
    <2> QED  BY <2>1, <2>2, <2>3, <2>4, <2>5, <2>6, <2>7, <2>8 DEF PathNext
  <1> QED  BY <1>3, <1>8 DEF PathInv

(***************************************************************************)
(* Slots, files and the decoder's reservoir are windows on one main-data   *)
(* stream whatever is coded, read, drained, cut or reset.                  *)
(***************************************************************************)
THEOREM PathInductive ==
    ASSUME FifoSlots >= 8
    PROVE  PathSpec => []PathInv
  <1>1. PathInit => PathInv
    BY PathInitial
  <1>2. PathInv /\ [PathNext]_pathVars => PathInv'
    BY PathStep
  <1> QED  BY <1>1, <1>2, PTL DEF PathSpec

\* What the invariant's four functions give, once they are named.
LEMMA PathPromises ==
    ASSUME PathInv
    PROVE  DecodesItsOwnData /\ NothingLost /\ ResyncBound /\ NoStaleBytes
  <1>1. TypeOK /\ Stage /\ PathTypes
    BY DEF PathInv, IInv
  <1>2. PICK S \in [Nat -> Nat], B \in [Nat -> Nat], C \in [Nat -> Nat], G \in [Nat -> Byte] :
           Witnessed(S, B, C, G)
    BY DEF PathInv, OneStream
  <1> QED  BY <1>1, <1>2, OwnData, LateAndEarly, NothingStale

(***************************************************************************)
(* Whatever precedes it, a frame the decoder can restore decodes to the    *)
(* bytes that codeFrame rendered for it: place, the drain's zeroing and    *)
(* l3SaveReservoir agree about every position.                             *)
(***************************************************************************)
THEOREM DecodesOwnData ==
    ASSUME FifoSlots >= 8
    PROVE  PathSpec => []DecodesItsOwnData
  <1>1. PathInv => DecodesItsOwnData
    BY PathPromises
  <1> QED  BY <1>1, PathInductive, PTL

(***************************************************************************)
(* Read from the first frame, l3RestoreReservoir never fails, though the   *)
(* decoder keeps at most 511 bytes, and a drained stream arrives whole.    *)
(***************************************************************************)
THEOREM LosesNothing ==
    ASSUME FifoSlots >= 8
    PROVE  PathSpec => []NothingLost
  <1>1. PathInv => NothingLost
    BY PathPromises
  <1> QED  BY <1>1, PathInductive, PTL

(***************************************************************************)
(* A decoder that joins the stream late restores every frame once the      *)
(* areas it has read are worth the encoder's cap, at every bitrate.        *)
(***************************************************************************)
THEOREM Resyncs ==
    ASSUME FifoSlots >= 8
    PROVE  PathSpec => []ResyncBound
  <1>1. PathInv => ResyncBound
    BY PathPromises
  <1> QED  BY <1>1, PathInductive, PTL

(***************************************************************************)
(* Slots are reused without being cleared, yet place and flushAll leave no *)
(* byte of a slot's earlier frame in an emitted area.                      *)
(***************************************************************************)
THEOREM NeverStale ==
    ASSUME FifoSlots >= 8
    PROVE  PathSpec => []NoStaleBytes
  <1>1. PathInv => NoStaleBytes
    BY PathPromises
  <1> QED  BY <1>1, PathInductive, PTL
=============================================================================
