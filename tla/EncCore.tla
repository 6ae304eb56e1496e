------------------------------- MODULE EncCore -------------------------------
(***************************************************************************)
(* The call discipline of the internal encoder (src/internal/enc/          *)
(* encoder.go, EncodeFrame): poisoning, the held frame, the drain, and the *)
(* panics that are the caller's to avoid.                                  *)
(*                                                                         *)
(* Audio frames are numbered from 1; 0 is silence.  `window' is the held   *)
(* frame and its lookahead in pcmHist, `stream' what codeFrame was run on. *)
(***************************************************************************)
EXTENDS Integers, Sequences

VARIABLES poisoned, drained, held, window, stream, panicked, err

coreVars == <<poisoned, drained, held, window, stream, panicked, err>>

Nil == [kind |-> "nil"]
Audio(id, shape, finite) ==
    [kind |-> "audio", id |-> id, shape |-> shape, finite |-> finite]

Silence == 0
Quiet == <<Silence, Silence>>

CoreInit ==
    /\ poisoned = FALSE /\ drained = FALSE /\ held = FALSE
    /\ window = Quiet /\ stream = <<>> /\ panicked = FALSE /\ err = "none"

\* Encoder.Reset overwrites the whole encoder.
CoreReset ==
    /\ poisoned' = FALSE /\ drained' = FALSE /\ held' = FALSE
    /\ window' = Quiet /\ stream' = <<>> /\ panicked' = FALSE /\ err' = "none"

Refused(e) ==
    err' = e /\ UNCHANGED <<poisoned, drained, held, window, stream, panicked>>

Panic ==
    panicked' = TRUE /\ UNCHANGED <<poisoned, drained, held, window, stream, err>>

\* Mutant: the held frame stays.
NoSlide(w) == <<w[1], Silence>>

\* slidePcmHist: the lookahead becomes the held frame.
Slide(w) == <<w[2], Silence>>


\* The nil call: code the held frame against silence, then the flush frame.
DrainCore ==
    LET last == <<window[1], Silence>>
    IN  /\ drained' = TRUE /\ err' = "none"
        /\ stream' = IF held THEN Append(Append(stream, last), Slide(last))
                             ELSE Append(stream, last)
        /\ window' = IF held THEN Slide(last) ELSE last
        /\ UNCHANGED <<poisoned, held, panicked>>

Stash(id) ==
    /\ window' = <<id, window[2]>> /\ held' = TRUE /\ err' = "none"
    /\ UNCHANGED <<poisoned, drained, stream, panicked>>

CodeHeld(id) ==
    LET w == <<window[1], id>>
    IN  /\ stream' = Append(stream, w) /\ window' = Slide(w) /\ err' = "none"
        /\ UNCHANGED <<poisoned, drained, held, panicked>>

PoisonCore ==
    poisoned' = TRUE /\ err' = "invalidAudio"
    /\ UNCHANGED <<drained, held, window, stream, panicked>>

EncodeAudio(s) ==
    IF drained \/ s.shape # "full" THEN Panic
    ELSE IF ~s.finite THEN PoisonCore
    ELSE IF held THEN CodeHeld(s.id) ELSE Stash(s.id)

EncodeFrame(s) ==
    IF poisoned THEN Refused("invalidAudio")
    ELSE IF s # Nil THEN EncodeAudio(s)
    ELSE IF drained THEN Refused("none") ELSE DrainCore
=============================================================================
