---------------------------- MODULE MainDataStream ----------------------------
(***************************************************************************)
(* What the reservoir and the ring of pending frames promise together: the *)
(* coded frames' main data is one continuous byte stream laid over the     *)
(* main-data areas of the container frames, never running ahead of the     *)
(* last area nor falling more than the cap behind it, and a container      *)
(* frame is emitted, in order, once the stream has covered its area (or    *)
(* the stream is closed).                                                  *)
(***************************************************************************)
EXTENDS Integers, Sequences

CONSTANTS Areas, Cap

VARIABLES
    pending,   \* the frames not yet emitted: number and end of area
    total,     \* end of the last frame's area
    written,   \* end of the main-data stream
    coded,     \* frames coded
    phase      \* "open", or "closing" from the drain on

vars == <<pending, total, written, coded, phase>>

Init == pending = <<>> /\ total = 0 /\ written = 0 /\ coded = 0 /\ phase = "open"

Code(a, n) ==
    /\ phase = "open"
    /\ total' = total + a /\ written' = written + n
    /\ written' <= total' /\ total' - written' <= Cap
    /\ pending' = Append(pending, [id |-> coded, end |-> total'])
    /\ coded' = coded + 1
    /\ UNCHANGED phase

Emit ==
    /\ pending # <<>>
    /\ phase = "closing" \/ Head(pending).end <= written
    /\ pending' = Tail(pending)
    /\ UNCHANGED <<total, written, coded, phase>>

Close == phase = "open" /\ phase' = "closing" /\ UNCHANGED <<pending, total, written, coded>>

Restart ==
    /\ phase = "open" \/ pending = <<>>
    /\ pending' = <<>> /\ total' = 0 /\ written' = 0 /\ coded' = 0 /\ phase' = "open"

Next ==
    \/ \E a \in Areas : \E n \in 0..total - written + a : Code(a, n)
    \/ Emit \/ Close \/ Restart

Spec == Init /\ [][Next]_vars /\ WF_vars(Emit)
=============================================================================
