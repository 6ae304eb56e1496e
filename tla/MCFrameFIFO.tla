----------------------------- MODULE MCFrameFIFO -----------------------------
(***************************************************************************)
(* FrameFIFO for TLC, and the sense in which it implements MainDataStream: *)
(* a frame counts as coded once its main data is committed, so while place *)
(* runs the frame in hand is not yet part of the stream.                   *)
(***************************************************************************)
EXTENDS FrameFIFO

Placing == pc = "place"

Committed == IF Placing THEN count - 1 ELSE count

PendingFrames ==
    [k \in 1..Committed |->
        LET s == slots[At(k - 1)] IN [id |-> s.id, end |-> s.start + AreaLen(s)]]

Areas == {MainAreaBytes(0), MainAreaBytes(1)}
AreasEnd == IF Placing THEN total - area ELSE total
CodedFrames == IF Placing THEN pushed - 1 ELSE pushed
Phase == IF pc \in {"flushAll", "drained"} THEN "closing" ELSE "open"

Stream == INSTANCE MainDataStream WITH
    Cap <- ResCapBytes, pending <- PendingFrames, total <- AreasEnd, coded <- CodedFrames,
    phase <- Phase

(***************************************************************************)
(* The ring, the counter and the loops implement the continuous stream: a  *)
(* committed frame extends it within its bounds, a flushed frame was       *)
(* covered by it or drained, and a covered frame is eventually emitted.    *)
(***************************************************************************)
ImplementsStream == Stream!Spec
=============================================================================
