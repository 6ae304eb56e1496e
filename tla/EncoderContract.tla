--------------------------- MODULE EncoderContract ---------------------------
(***************************************************************************)
(* What the public encoder keeps: five phases, which calls each accepts,   *)
(* with which errors, and how many frames it has coded.  One frame of      *)
(* lookahead is held back, and the drain adds one flush frame.  It is what *)
(* the doc comments promise but for one answer of the poisoned phase, see  *)
(* Rejects.                                                                *)
(***************************************************************************)
EXTENDS Naturals

VARIABLES phase, accepted, coded, result

vars == <<phase, accepted, coded, result>>

Init == phase = "none" /\ accepted = 0 /\ coded = 0 /\ result = "none"

Accept(next) ==
    /\ phase = "open"
    /\ phase' = next /\ next \in {"open", "final"}
    /\ accepted' = accepted + 1 /\ coded' = accepted
    /\ result' = "none"

Poison ==
    /\ phase = "open" /\ phase' = "poisoned" /\ result' = "invalidAudio"
    /\ UNCHANGED <<accepted, coded>>

Flush ==
    /\ phase \in {"open", "final"}
    /\ phase' = "drained" /\ coded' = accepted + 1 /\ result' = "none"
    /\ UNCHANGED accepted

\* The comments at ErrInvalidAudio and EncodeFrame say that every later call of a
\* poisoned encoder answers invalidAudio.  A misshapen frame is answered with the
\* shape error, which the encoder looks for first; the contract admits both.
Rejects ==
    [none |-> {"notInitialized", "config"}, open |-> {"shape", "config"},
     final |-> {"finalized", "config"}, drained |-> {"finalized", "none", "config"},
     poisoned |-> {"invalidAudio", "shape", "config"}]

\* A call that changes nothing: an error, or a repeated drain.
Refuse == result' \in Rejects[phase] /\ UNCHANGED <<phase, accepted, coded>>

Reset == phase' = "open" /\ accepted' = 0 /\ coded' = 0 /\ result' = "none"

Next == Accept("open") \/ Accept("final") \/ Poison \/ Flush \/ Refuse \/ Reset

Spec == Init /\ [][Next]_vars
=============================================================================
