------------------------------ MODULE FrameFIFO ------------------------------
(***************************************************************************)
(* How the encoder turns coded frames into container frames                *)
(* (src/internal/enc/frame.go, frameFIFO, and the reservoir handoff at the *)
(* end of codeFrame in src/internal/enc/encoder.go).                       *)
(*                                                                         *)
(* A coded frame's header is pushed into a ring of pending frames, its     *)
(* main data is threaded through the unfilled areas of the pending frames  *)
(* in order, the reservoir commits what was spent, and the frames whose    *)
(* area is complete leave the ring.  The loops of place, flushInto and     *)
(* flushAll are one step per iteration.  The planner and the coder are the *)
(* nondeterministic size `coded' of the main data: RateControl establishes *)
(* that it lies in the range used here.                                    *)
(*                                                                         *)
(* `id', `start', `total', `written' and `pushed' are history: a frame's   *)
(* number, the position of its area in the main-data stream, the end of    *)
(* the last area, the bytes committed, and the frames coded so far.        *)
(***************************************************************************)
EXTENDS Reservoir

CONSTANTS
    FifoSlots,   \* 12 in the code
    MaxFrames    \* bound: frames coded before the drain

ASSUME FifoAssumption == FifoSlots \in Nat \ {0} /\ MaxFrames \in Nat

VARIABLES
    acc,      \* paddingState.acc
    occ,      \* reservoir.occ
    slots, head, count,     \* the ring
    pc,       \* where the current EncodeFrame call is
    area,     \* codeFrame's local: main-data area of the frame in hand
    len,      \* len(mainData)
    data,     \* bytes of mainData not yet placed
    i,        \* place's loop index
    total, written, pushed

ring == <<slots, head, count>>
locals == <<area, len, data, i>>
vars == <<acc, occ, slots, head, count, pc, area, len, data, i, total, written, pushed>>

Slot == [n: Nat, fill: Nat, id: Nat, start: Nat]
EmptySlot == [n |-> 0, fill |-> 0, id |-> 0, start |-> 0]

\* The ring index of the k-th pending frame, k = 0 being the oldest.
At(k) == (head + k) % FifoSlots
Nth(k) == slots[At(k)]
AreaLen(s) == s.n - HeaderBytes
AreaEnd(s) == s.start + AreaLen(s)
Room(s) == AreaLen(s) - s.fill

\* Mutant: a frame leaves one byte short of its area.
NearlyComplete(s) == HeaderBytes + s.fill + 1 >= s.n

Complete(s) == HeaderBytes + s.fill = s.n

Init ==
    /\ acc = 0 /\ occ = 0
    /\ slots = [s \in 0..FifoSlots - 1 |-> EmptySlot] /\ head = 0 /\ count = 0
    /\ pc = "idle"
    /\ area = 0 /\ len = 0 /\ data = 0 /\ i = 0
    /\ total = 0 /\ written = 0 /\ pushed = 0

(***************************************************************************)
(* codeFrame up to the end of push.  `coded' is the size of the rendered   *)
(* granules; renderMainData pads it with zeros to the lower spend bound.   *)
(***************************************************************************)
Push(coded) ==
    LET padding == PaddingBit(acc)
        a == MainAreaBytes(padding)
        size == MaxOf(coded, SpendLo(occ, a))
    IN  /\ pc = "idle"
        /\ pushed < MaxFrames
        /\ coded <= SpendHi(occ, a)
        /\ acc' = PaddingNext(acc)
        /\ pushed' = pushed + 1
        /\ IF count = FifoSlots
             THEN pc' = "panic" /\ UNCHANGED <<slots, count, locals, total>>
             ELSE /\ slots' = [slots EXCEPT ![At(count)] =
                         [n |-> FrameLength(padding), fill |-> 0,
                          id |-> pushed, start |-> total]]
                  /\ count' = count + 1
                  /\ total' = total + a
                  /\ area' = a /\ len' = size /\ data' = size /\ i' = 0
                  /\ pc' = "place"
        /\ UNCHANGED <<occ, head, written>>

CodeFrame == \E coded \in 0..HuffCap : Push(coded)

\* Mutant: a frame just filled is looked at again.
AdvanceIfOpen(take) == i' = IF take = Room(Nth(i)) THEN i ELSE i + 1

Advance(take) == i' = i + 1

\* One iteration of place's loop over the pending frames.
PlaceSlot ==
    LET take == MinOf(data, Room(Nth(i)))
    IN  /\ pc = "place" /\ i < count /\ data > 0
        /\ slots' = [slots EXCEPT ![At(i)].fill = @ + take]
        /\ data' = data - take
        /\ Advance(take)
        /\ UNCHANGED <<acc, occ, head, count, pc, area, len, total, written, pushed>>

\* The end of place, and commitFrame.
Commit ==
    /\ pc = "place" /\ (i = count \/ data = 0)
    /\ IF data > 0
         THEN pc' = "panic" /\ UNCHANGED <<occ, written>>
         ELSE pc' = "flush" /\ occ' = occ + area - len /\ written' = written + len
    /\ UNCHANGED <<acc, ring, locals, total, pushed>>

\* Mutant: the newest pending frame leaves.
PopNewest == head' = head /\ count' = count - 1

Pop == head' = (head + 1) % FifoSlots /\ count' = count - 1

FlushSlot ==
    /\ pc = "flush" /\ count > 0 /\ Complete(slots[head])
    /\ Pop
    /\ UNCHANGED <<acc, occ, slots, pc, locals, total, written, pushed>>

FlushDone ==
    /\ pc = "flush" /\ (count = 0 \/ ~Complete(slots[head]))
    /\ pc' = "idle"
    /\ UNCHANGED <<acc, occ, ring, locals, total, written, pushed>>

(***************************************************************************)
(* The drain's flushAll, after the flush frame has been coded: whatever is *)
(* still pending leaves with the rest of its area zeroed.                  *)
(***************************************************************************)
Drain ==
    /\ pc = "idle" /\ pushed > 0
    /\ pc' = "flushAll"
    /\ UNCHANGED <<acc, occ, ring, locals, total, written, pushed>>

FlushedAll == count = 0

FlushAllSlot ==
    /\ pc = "flushAll" /\ ~FlushedAll
    /\ Pop
    /\ UNCHANGED <<acc, occ, slots, pc, locals, total, written, pushed>>

FlushAllDone ==
    /\ pc = "flushAll" /\ FlushedAll
    /\ pc' = "drained"
    /\ UNCHANGED <<acc, occ, ring, locals, total, written, pushed>>

\* Encoder.Reset: legal between calls, and the only way on from a drain.
Reset ==
    /\ pc \in {"idle", "drained"}
    /\ acc' = 0 /\ occ' = 0
    /\ slots' = [s \in 0..FifoSlots - 1 |-> EmptySlot] /\ head' = 0 /\ count' = 0
    /\ pc' = "idle"
    /\ area' = 0 /\ len' = 0 /\ data' = 0 /\ i' = 0
    /\ total' = 0 /\ written' = 0 /\ pushed' = 0

Step == PlaceSlot \/ Commit \/ FlushSlot \/ FlushDone \/ FlushAllSlot \/ FlushAllDone
Next == CodeFrame \/ Drain \/ Reset \/ Step

\* A call that has started is sequential code that runs to its return.
Fairness == WF_vars(Step)
Spec == Init /\ [][Next]_vars /\ Fairness
-----------------------------------------------------------------------------
TypeOK ==
    /\ acc \in 0..SampleRate - 1 /\ occ \in Nat
    /\ slots \in [0..FifoSlots - 1 -> Slot]
    /\ head \in 0..FifoSlots - 1 /\ count \in 0..FifoSlots
    /\ pc \in {"idle", "place", "flush", "flushAll", "drained", "panic"}
    /\ area \in Nat /\ len \in Nat /\ data \in Nat /\ i \in Nat
    /\ total \in Nat /\ written \in Nat /\ pushed \in Nat

Pending == 0..count - 1

\* frameFIFO.unfilled: the room left over all pending frames.
Unfilled ==
    LET room[k \in 0..count] == IF k = 0 THEN 0 ELSE room[k - 1] + Room(Nth(k - 1))
    IN  room[count]

(***************************************************************************)
(* The two panics of the ring are unreachable: no legal sequence of spends *)
(* pushes into a full ring or places more bytes than the pending frames    *)
(* have room for (the comments on push and place call both structurally    *)
(* impossible).                                                            *)
(***************************************************************************)
NoPanic == pc # "panic"

(***************************************************************************)
(* Between calls the reservoir's counter and the ring agree: occ is the    *)
(* room the pending frames have left, and it never exceeds the cap, so     *)
(* main_data_begin, which is occ at the next frame, fits its 9 bits.       *)
(***************************************************************************)
OccupancyIsUnfilled ==
    pc = "idle" => occ = Unfilled /\ occ <= ResCapBytes /\ occ <= ResHardCapBytes

(***************************************************************************)
(* No gap: the bytes placed in the pending areas are one contiguous run of *)
(* the main-data stream.  A frame gets its first byte only when every      *)
(* older frame is complete, and a byte's place in the stream is the        *)
(* position of its area plus its offset.                                   *)
(***************************************************************************)
Live == pc \in {"idle", "place", "flush"}
Position == written + (IF pc = "place" THEN len - data ELSE 0)

NoGap ==
    Live => \A k \in Pending :
        Nth(k).fill = MaxOf(0, MinOf(AreaLen(Nth(k)), Position - Nth(k).start))

(***************************************************************************)
(* Depth: a frame leaves the ring after at most seven later frames, so at  *)
(* most seven are pending between calls and eight inside one, whatever the *)
(* rate.  This is what makes twelve slots enough.                          *)
(***************************************************************************)
DepthBound == count <= IF pc = "idle" THEN 7 ELSE 8

(***************************************************************************)
(* Exact mean bitrate: the bytes of all frames coded so far are the exact  *)
(* quotient of the byte rate and the sample rate, the remainder being what *)
(* the padding accumulator holds.                                          *)
(***************************************************************************)
ExactBitrate ==
    pc # "panic" => SampleRate * (total + pushed * HeaderBytes) + acc = pushed * ByteRate

(***************************************************************************)
(* Frames leave the ring in coding order, none twice and none skipped:     *)
(* what is popped is always the oldest frame not yet emitted.              *)
(***************************************************************************)
EmitInOrder ==
    [][count' = count - 1 => slots[head].id = pushed - count]_vars

(***************************************************************************)
(* A call returns: coding a frame ends between calls, and a drain empties  *)
(* the ring.                                                               *)
(***************************************************************************)
CallsEnd ==
    /\ (pc = "place") ~> (pc = "idle")
    /\ (pc = "flushAll") ~> (pc = "drained" /\ count = 0)

(***************************************************************************)
(* The inductive invariant behind NoPanic, NoGap and DepthBound.  The      *)
(* areas of the pending frames are adjacent and end at `total'; each is at *)
(* least an unpadded area; the stream has reached the oldest one and, but  *)
(* while a frame is flushed, not covered it; occ is the distance from the  *)
(* stream to the end of the areas; and place, when it has bytes left, has  *)
(* reached the frame it looks at.                                          *)
(***************************************************************************)
Adjacent == \A k \in Pending : k + 1 \in Pending => Nth(k + 1).start = AreaEnd(Nth(k))

\* Adjacency carried over any distance, so that no step has to induct on it.
Ordered == \A k, l \in Pending : k < l => AreaEnd(Nth(k)) <= Nth(l).start

Wide == \A k \in Pending : AreaLen(Nth(k)) >= MainAreaBytes(0)

Reach ==
    IF count = 0 THEN Position = total
    ELSE AreaEnd(Nth(count - 1)) = total /\ Nth(0).start <= Position

HeadOpen == count > 0 => Position < AreaEnd(Nth(0))

Balance ==
    IF pc = "place"
      THEN /\ occ = total - area - written /\ occ + area - len \in 0..ResCapBytes
           /\ data <= len /\ i <= count
           /\ data > 0 => Position >= IF i = count THEN total ELSE Nth(i).start
      ELSE occ = total - written /\ occ \in 0..ResCapBytes

IInv ==
    /\ TypeOK /\ NoPanic /\ DepthBound /\ NoGap
    /\ Live => Adjacent /\ Ordered /\ Wide /\ Reach /\ Balance
    /\ pc = "idle" => HeadOpen
=============================================================================
