------------------------------- MODULE Encoder -------------------------------
(***************************************************************************)
(* The public encoder (src/encoder.go): a wrapper that validates what its  *)
(* caller submits, so that the internal encoder's panics stay unreachable, *)
(* zero-pads a short final frame and finalizes the stream with it.         *)
(*                                                                         *)
(* A submitted frame has a shape: full, short (at most one frame, the last *)
(* of its stream), or malformed (wrong channel count, empty, unequal or    *)
(* overlong channels).  `accepted' counts the frames taken since Reset.    *)
(***************************************************************************)
EXTENDS EncCore

CONSTANT MaxFrames   \* bound: frames accepted in one stream

VARIABLES
    initialized,   \* e.enc # nil
    shortFrame,
    accepted,      \* history
    result         \* history: the error the last call returned

vars == <<coreVars, initialized, shortFrame, accepted, result>>

Shapes == {"full", "short", "malformed"}

Init ==
    /\ CoreInit
    /\ initialized = FALSE /\ shortFrame = FALSE /\ accepted = 0 /\ result = "none"

Reject(e) == result' = e /\ UNCHANGED <<coreVars, initialized, shortFrame, accepted>>

\* Reset validates before it touches anything.
Reset(valid) ==
    IF ~valid THEN Reject("config")
    ELSE /\ CoreReset
         /\ initialized' = TRUE /\ shortFrame' = FALSE
         /\ accepted' = 0 /\ result' = "none"

\* A nil call goes straight through; translateInvalidAudio renames the error.
Flush ==
    IF ~initialized THEN Reject("notInitialized")
    ELSE /\ EncodeFrame(Nil)
         /\ result' = err'
         /\ UNCHANGED <<initialized, shortFrame, accepted>>

\* A full frame is passed on; a short one is copied and padded to a full one.
Pass(shape, finite) ==
    /\ EncodeFrame(Audio(accepted + 1, "full", finite))
    /\ result' = err'
    /\ accepted' = IF err' = "none" THEN accepted + 1 ELSE accepted
    /\ shortFrame' = (shape = "short" /\ err' = "none")
    /\ UNCHANGED initialized

\* Mutants: only one of the two ways a stream closes is checked.
ClosedByShort == shortFrame
ClosedByDrain == drained

Closed == drained \/ shortFrame

Submit(shape, finite) ==
    IF ~initialized THEN Reject("notInitialized")
    ELSE IF Closed THEN Reject("finalized")
    ELSE IF shape = "malformed" THEN Reject("shape")
    ELSE accepted < MaxFrames /\ Pass(shape, finite)

Next ==
    \/ \E valid \in BOOLEAN : Reset(valid)
    \/ Flush
    \/ \E shape \in Shapes, finite \in BOOLEAN : Submit(shape, finite)

Spec == Init /\ [][Next]_vars
-----------------------------------------------------------------------------
(***************************************************************************)
(* No sequence of calls through the public encoder reaches a panic of the  *)
(* internal one (the wrapper's doc comment), poisoned encoders included.   *)
(***************************************************************************)
PanicsUnreachable == ~panicked

(***************************************************************************)
(* Every accepted frame is coded exactly once, in order, with the next one *)
(* as its lookahead; the last is coded against silence by the drain, which *)
(* adds one frame of silence: N frames and a drain make N + 1.             *)
(***************************************************************************)
Lookahead(n) == [k \in 1..n - 1 |-> <<k, k + 1>>]

EveryFrameOnce ==
    stream = IF ~drained THEN Lookahead(accepted)
             ELSE IF accepted = 0 THEN <<Quiet>>
             ELSE Append(Append(Lookahead(accepted), <<accepted, Silence>>), Quiet)

(***************************************************************************)
(* The two flag sets of wrapper and internal encoder amount to the five    *)
(* phases of EncoderContract, with the errors of each.  These are the      *)
(* documented ones, but that a poisoned encoder answers a misshapen frame  *)
(* with the shape error, where EncodeFrame's comment says ErrInvalidAudio. *)
(***************************************************************************)
Phase ==
    IF ~initialized THEN "none"
    ELSE IF poisoned THEN "poisoned"
    ELSE IF drained THEN "drained"
    ELSE IF shortFrame THEN "final" ELSE "open"

Contract == INSTANCE EncoderContract WITH phase <- Phase, coded <- Len(stream)

ImplementsContract == Contract!Spec
=============================================================================
