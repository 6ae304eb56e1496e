----------------------------- MODULE Encoder_proofs -----------------------------
(***************************************************************************)
(* Proofs about the public encoder, for streams of any length: the panics  *)
(* of the internal encoder are unreachable, every accepted frame is coded  *)
(* once, and the two flag sets implement the phases of EncoderContract.    *)
(***************************************************************************)
EXTENDS Encoder, SequenceTheorems, TLAPS

Windows == Nat \X Nat

Errors == {"none", "invalidAudio", "config", "notInitialized", "finalized", "shape"}

TypeOK ==
    /\ poisoned \in BOOLEAN /\ drained \in BOOLEAN /\ held \in BOOLEAN
    /\ initialized \in BOOLEAN /\ shortFrame \in BOOLEAN /\ panicked \in BOOLEAN
    /\ accepted \in Nat /\ window \in Windows /\ stream \in Seq(Windows)
    /\ err \in Errors /\ result \in Errors

\* Until the drain the window holds the last accepted frame, if any, and nothing behind it.
WindowHolds ==
    ~drained => window = <<accepted, Silence>> /\ (held <=> accepted > 0)

\* What is coded: one frame behind what is accepted, and one ahead after the drain.
CodedSoFar ==
    Len(stream) = IF drained THEN accepted + 1
                  ELSE IF accepted = 0 THEN 0 ELSE accepted - 1

\* A poisoned encoder was neither drained nor closed by a short frame, and an encoder
\* without configuration has done nothing.
Phases ==
    /\ poisoned => ~drained /\ ~shortFrame
    /\ ~initialized => ~poisoned /\ ~drained /\ ~shortFrame /\ accepted = 0

IInv ==
    /\ TypeOK /\ WindowHolds /\ CodedSoFar /\ Phases
    /\ PanicsUnreachable /\ EveryFrameOnce

(***************************************************************************)
(* The coded stream as a sequence.                                         *)
(***************************************************************************)
LEMMA LookaheadSeq ==
    ASSUME NEW n \in Nat
    PROVE  /\ Lookahead(n) \in Seq(Windows)
           /\ Len(Lookahead(n)) = IF n = 0 THEN 0 ELSE n - 1
           /\ n = 0 => Lookahead(n) = <<>>
  <1>1. CASE n = 0
    <2>1. Lookahead(n) = <<>>
      BY <1>1 DEF Lookahead
    <2> QED  BY <1>1, <2>1, EmptySeq
  <1>2. CASE n # 0
    <2>1. n - 1 \in Nat
      BY <1>2
    <2>2. Lookahead(n) \in [1..n - 1 -> Windows]
      BY DEF Lookahead, Windows
    <2>3. Lookahead(n) \in Seq(Windows)
      BY <2>1, <2>2, SeqDef
    <2> QED  BY <1>2, <2>1, <2>2, <2>3, LenProperties
  <1> QED  BY <1>1, <1>2

LEMMA LookaheadGrows ==
    ASSUME NEW n \in Nat \ {0}
    PROVE  Append(Lookahead(n), <<n, n + 1>>) = Lookahead(n + 1)
  <1> DEFINE s == Append(Lookahead(n), <<n, n + 1>>)
             t == Lookahead(n + 1)
  <1>1. <<n, n + 1>> \in Windows
    BY DEF Windows
  <1>2. /\ Lookahead(n) \in Seq(Windows) /\ Len(Lookahead(n)) = n - 1
        /\ t \in Seq(Windows) /\ Len(t) = n
    BY LookaheadSeq
  <1>3. s \in Seq(Windows) /\ Len(s) = n
    BY <1>1, <1>2
  <1>4. ASSUME NEW k \in 1..n  PROVE s[k] = t[k]
    <2>1. t[k] = <<k, k + 1>>
      BY DEF Lookahead
    <2>2. CASE k = n
      BY <1>2, <2>1, <2>2
    <2>3. CASE k # n
      <3>1. k \in 1..n - 1
        BY <2>3
      <3>2. Lookahead(n)[k] = <<k, k + 1>>
        BY <3>1 DEF Lookahead
      <3>3. s[k] = Lookahead(n)[k]
        BY <1>1, <1>2, <3>1, AppendProperties
      <3> QED  BY <2>1, <3>2, <3>3
    <2> QED  BY <2>2, <2>3
  <1>5. s = t
    <2> HIDE DEF s, t
    <2> QED  BY <1>2, <1>3, <1>4, SeqEqual
  <1> QED  BY <1>5

(***************************************************************************)
(* The invariant.                                                          *)
(***************************************************************************)
LEMMA InitIInv == Init => IInv
  <1> SUFFICES ASSUME Init PROVE IInv
    OBVIOUS
  <1>1. Lookahead(0) = <<>> /\ <<>> \in Seq(Windows) /\ Len(<<>>) = 0
    BY LookaheadSeq, EmptySeq
  <1>2. Quiet \in Windows /\ Quiet = <<0, Silence>>
    BY DEF Quiet, Silence, Windows
  <1>3. TypeOK
    BY <1>1, <1>2 DEF Init, CoreInit, TypeOK, Errors
  <1>5. WindowHolds
    BY <1>2 DEF Init, CoreInit, WindowHolds
  <1>4. CodedSoFar /\ Phases /\ PanicsUnreachable /\ EveryFrameOnce
    BY <1>1 DEF Init, CoreInit, CodedSoFar, Phases, PanicsUnreachable, EveryFrameOnce
  <1> QED  BY <1>3, <1>4, <1>5 DEF IInv

\* A call that answers with an error, or with nothing, changes only the answer.
LEMMA RejectStep ==
    ASSUME IInv, NEW e \in Errors, Reject(e)
    PROVE  IInv'
  BY DEF IInv, TypeOK, WindowHolds, CodedSoFar, Phases, PanicsUnreachable, EveryFrameOnce,
         Reject, coreVars, Lookahead, Quiet

LEMMA RefusedStep ==
    ASSUME IInv, NEW e \in Errors, Refused(e), result' = err',
           UNCHANGED <<initialized, shortFrame, accepted>>
    PROVE  IInv'
  BY DEF IInv, TypeOK, WindowHolds, CodedSoFar, Phases, PanicsUnreachable, EveryFrameOnce,
         Refused, Lookahead, Quiet

LEMMA ResetStep ==
    ASSUME IInv, NEW valid \in BOOLEAN, Reset(valid)
    PROVE  IInv'
  <1>1. CASE ~valid
    BY <1>1, RejectStep DEF Reset, Errors
  <1>2. CASE valid
    <2>1. Lookahead(0) = <<>> /\ <<>> \in Seq(Windows) /\ Len(<<>>) = 0
      BY LookaheadSeq, EmptySeq
    <2>2. Quiet \in Windows /\ Quiet = <<0, Silence>>
      BY DEF Quiet, Silence, Windows
    <2>3. TypeOK'
      <3>1. /\ CoreReset /\ initialized' = TRUE /\ shortFrame' = FALSE
            /\ accepted' = 0 /\ result' = "none"
        BY <1>2 DEF Reset
      <3> QED  BY <2>1, <2>2, <3>1 DEF CoreReset, TypeOK, Errors
    <2>5. WindowHolds'
      BY <1>2, <2>2 DEF Reset, CoreReset, WindowHolds
    <2>4. CodedSoFar' /\ Phases' /\ PanicsUnreachable' /\ EveryFrameOnce'
      BY <1>2, <2>1 DEF Reset, CoreReset, CodedSoFar, Phases, PanicsUnreachable, EveryFrameOnce
    <2> QED  BY <2>3, <2>4, <2>5 DEF IInv
  <1> QED  BY <1>1, <1>2

\* The drain: one coded frame more than accepted, the last against silence.
LEMMA DrainStep ==
    ASSUME IInv, initialized, ~poisoned, ~drained, DrainCore, result' = err',
           UNCHANGED <<initialized, shortFrame, accepted>>
    PROVE  IInv'
  <1>1. /\ accepted \in Nat /\ window = <<accepted, Silence>> /\ (held <=> accepted > 0)
        /\ stream = Lookahead(accepted) /\ held \in BOOLEAN
    BY DEF IInv, TypeOK, WindowHolds, EveryFrameOnce
  <1>2. /\ Lookahead(accepted) \in Seq(Windows)
        /\ Len(Lookahead(accepted)) = IF accepted = 0 THEN 0 ELSE accepted - 1
    BY <1>1, LookaheadSeq
  <1> DEFINE last == <<accepted, Silence>>
  <1>3. last \in Windows /\ Quiet \in Windows
    BY <1>1 DEF Quiet, Silence, Windows
  <1>4. /\ <<window[1], Silence>> = last /\ Slide(last) = Quiet
        /\ accepted = 0 => last = Quiet
    BY <1>1 DEF Slide, Quiet, Silence
  <1>5. /\ window' = Quiet
        /\ stream' = IF accepted = 0 THEN Append(stream, Quiet)
                     ELSE Append(Append(stream, last), Quiet)
    <2> HIDE DEF last
    <2> QED  BY <1>1, <1>4 DEF DrainCore
  <1>6. stream' = IF accepted = 0 THEN <<Quiet>>
                  ELSE Append(Append(Lookahead(accepted), last), Quiet)
    <2>1. accepted = 0 => stream = <<>>
      BY <1>1, LookaheadSeq
    <2>2. Append(<<>>, Quiet) = <<Quiet>>
      OBVIOUS
    <2> HIDE DEF last
    <2> QED  BY <1>1, <1>5, <2>1, <2>2
  <1>7. stream' \in Seq(Windows) /\ Len(stream') = accepted + 1
    <2> HIDE DEF last
    <2> QED  BY <1>1, <1>2, <1>3, <1>5
  <1>8. EveryFrameOnce'
    BY <1>6 DEF EveryFrameOnce, DrainCore, Lookahead, Quiet, Silence
  <1> QED
    BY <1>1, <1>3, <1>5, <1>7, <1>8 DEF IInv, TypeOK, WindowHolds, CodedSoFar, Phases,
         PanicsUnreachable, DrainCore, Errors

LEMMA FlushStep ==
    ASSUME IInv, Flush
    PROVE  IInv'
  <1>1. CASE ~initialized
    BY <1>1, RejectStep DEF Flush, Errors
  <1>2. CASE initialized /\ poisoned
    BY <1>2, RefusedStep DEF Flush, EncodeFrame, Errors
  <1>3. CASE initialized /\ ~poisoned /\ drained
    BY <1>3, RefusedStep DEF Flush, EncodeFrame, Errors
  <1>4. CASE initialized /\ ~poisoned /\ ~drained
    BY <1>4, DrainStep DEF Flush, EncodeFrame
  <1> QED  BY <1>1, <1>2, <1>3, <1>4

\* Audio that reaches the internal encoder: it has been reset, is not drained, and the
\* frame is full, so neither panic can be met.
LEMMA PassStep ==
    ASSUME IInv, NEW shape \in {"full", "short"}, NEW finite \in BOOLEAN,
           initialized, ~Closed, Pass(shape, finite)
    PROVE  IInv'
  <1> DEFINE s == Audio(accepted + 1, "full", finite)
  <1>1. s.shape = "full" /\ s.finite = finite /\ s.id = accepted + 1 /\ s # Nil
    BY DEF Audio, Nil
  <1>2. ~drained /\ ~shortFrame
    BY DEF Closed
  <1>3. /\ accepted \in Nat /\ window = <<accepted, Silence>> /\ (held <=> accepted > 0)
        /\ stream = Lookahead(accepted) /\ held \in BOOLEAN
    BY <1>2 DEF IInv, TypeOK, WindowHolds, EveryFrameOnce
  <1>4. CASE poisoned
    <2>1. Refused("invalidAudio") /\ shortFrame' = shortFrame /\ accepted' = accepted
      BY <1>2, <1>4 DEF Pass, EncodeFrame, Refused, IInv, TypeOK
    <2> QED  BY <2>1, RefusedStep DEF Pass, Errors
  <1>5. CASE ~poisoned /\ ~finite
    <2>1. PoisonCore
      BY <1>1, <1>2, <1>5 DEF Pass, EncodeFrame, EncodeAudio
    <2> QED
      BY <1>2, <1>5, <2>1 DEF Pass, PoisonCore, IInv, TypeOK, WindowHolds, CodedSoFar, Phases,
           PanicsUnreachable, EveryFrameOnce, Errors, Lookahead, Quiet
  <1>6. CASE ~poisoned /\ finite /\ ~held
    <2>1. Stash(accepted + 1)
      BY <1>1, <1>2, <1>6 DEF Pass, EncodeFrame, EncodeAudio
    <2>2. /\ accepted = 0 /\ accepted' = 1 /\ window' = <<1, Silence>> /\ held'
          /\ stream' = stream /\ ~drained' /\ stream = <<>>
      BY <1>2, <1>3, <1>6, <2>1, LookaheadSeq DEF Pass, Stash
    <2>3. Lookahead(1) = <<>>
      BY DEF Lookahead
    <2> QED
      BY <1>6, <2>1, <2>2, <2>3 DEF Pass, Stash, IInv, TypeOK, WindowHolds, CodedSoFar, Phases,
           PanicsUnreachable, EveryFrameOnce, Errors, Windows, Silence
  <1>7. CASE ~poisoned /\ finite /\ held
    <2>1. CodeHeld(accepted + 1)
      BY <1>1, <1>2, <1>7 DEF Pass, EncodeFrame, EncodeAudio
    <2> DEFINE w == <<accepted, accepted + 1>>
    <2>0. <<window[1], accepted + 1>> = w /\ Slide(w) = <<accepted + 1, Silence>>
      BY <1>3 DEF Slide
    <2>2. /\ accepted' = accepted + 1 /\ window' = <<accepted + 1, Silence>>
          /\ stream' = Append(Lookahead(accepted), w)
          /\ accepted # 0
      <3> HIDE DEF w
      <3> QED  BY <1>3, <1>7, <2>0, <2>1 DEF Pass, CodeHeld
    <2>3. stream' = Lookahead(accepted + 1)
      BY <1>3, <2>2, LookaheadGrows
    <2>4. /\ Lookahead(accepted + 1) \in Seq(Windows)
          /\ Len(Lookahead(accepted + 1)) = accepted
      <3>1. accepted + 1 \in Nat /\ accepted + 1 # 0 /\ (accepted + 1) - 1 = accepted
        BY <1>3
      <3> QED  BY <3>1, LookaheadSeq
    <2>5. window' \in Windows
      BY <1>3, <2>2 DEF Windows, Silence
    <2> QED
      BY <1>2, <1>3, <1>7, <2>1, <2>2, <2>3, <2>4, <2>5 DEF Pass, CodeHeld, IInv, TypeOK,
           WindowHolds, CodedSoFar, Phases, PanicsUnreachable, EveryFrameOnce, Errors
  <1> QED  BY <1>4, <1>5, <1>6, <1>7

LEMMA SubmitStep ==
    ASSUME IInv, NEW shape \in Shapes, NEW finite \in BOOLEAN, Submit(shape, finite)
    PROVE  IInv'
  <1>1. CASE ~initialized
    BY <1>1, RejectStep DEF Submit, Errors
  <1>2. CASE initialized /\ Closed
    BY <1>2, RejectStep DEF Submit, Errors
  <1>3. CASE initialized /\ ~Closed /\ shape = "malformed"
    BY <1>3, RejectStep DEF Submit, Errors
  <1>4. CASE initialized /\ ~Closed /\ shape # "malformed"
    BY <1>4, PassStep DEF Submit, Shapes
  <1> QED  BY <1>1, <1>2, <1>3, <1>4

LEMMA StutterStep == IInv /\ UNCHANGED vars => IInv'
  <1> SUFFICES ASSUME IInv, UNCHANGED vars PROVE IInv'
    OBVIOUS
  <1> QED
    BY DEF IInv, TypeOK, WindowHolds, CodedSoFar, Phases, PanicsUnreachable, EveryFrameOnce,
           vars, coreVars, Lookahead, Quiet

\* The inductive invariant: the window holds the last accepted frame until the drain, and
\* what is coded follows from the number accepted.
THEOREM Inductive == Spec => []IInv
  <1>1. IInv /\ [Next]_vars => IInv'
    BY ResetStep, FlushStep, SubmitStep, StutterStep DEF Next
  <1> QED  BY InitIInv, <1>1, PTL DEF Spec

\* No sequence of calls reaches a panic of the internal encoder, whatever their order,
\* errors and resets included (src/encoder.go's checks before it calls enc).
THEOREM PanicFree == Spec => []PanicsUnreachable
  <1>1. IInv => PanicsUnreachable
    BY DEF IInv
  <1> QED  BY Inductive, <1>1, PTL

\* For streams of every length: N accepted frames and a drain code N + 1 frames, each
\* accepted one once, in order, against the next.
THEOREM FramesOnce == Spec => []EveryFrameOnce
  <1>1. IInv => EveryFrameOnce
    BY DEF IInv
  <1> QED  BY Inductive, <1>1, PTL

(***************************************************************************)
(* The refinement, call by call.                                           *)
(***************************************************************************)
\* The contract's actions, over the variables of this module.
LEMMA RefinedReject ==
    ASSUME NEW e \in Errors, e \in Contract!Rejects[Phase], Reject(e)
    PROVE  Contract!Refuse
  BY DEF Reject, coreVars, Contract!Refuse, Phase

LEMMA RefinedReset ==
    ASSUME IInv, NEW valid \in BOOLEAN, Reset(valid)
    PROVE  Contract!Next
  <1>1. CASE ~valid
    <2>1. "config" \in Contract!Rejects[Phase]
      BY DEF Contract!Rejects, Phase
    <2>2. Contract!Refuse
      BY <1>1, <2>1, RefinedReject DEF Reset, Errors
    <2> QED  BY <2>2 DEF Contract!Next
  <1>2. CASE valid
    <2>1. /\ ~poisoned' /\ ~drained' /\ ~shortFrame' /\ initialized'
          /\ accepted' = 0 /\ stream' = <<>> /\ result' = "none"
      BY <1>2 DEF Reset, CoreReset
    <2>2. Len(stream') = 0
      BY <2>1, EmptySeq
    <2>3. Contract!Reset
      BY <2>1, <2>2 DEF Contract!Reset, Phase
    <2> QED  BY <2>3 DEF Contract!Next
  <1> QED  BY <1>1, <1>2

LEMMA RefinedFlush ==
    ASSUME IInv, IInv', Flush
    PROVE  Contract!Next
  <1>1. CASE ~initialized
    <2>1. "notInitialized" \in Contract!Rejects[Phase]
      BY <1>1 DEF Contract!Rejects, Phase
    <2>2. Contract!Refuse
      BY <1>1, <2>1, RefinedReject DEF Flush, Errors
    <2> QED  BY <2>2 DEF Contract!Next
  <1>2. CASE initialized /\ poisoned
    <2>1. result' = "invalidAudio" /\ UNCHANGED <<Phase, accepted, stream>>
      BY <1>2 DEF Flush, EncodeFrame, Refused, Phase
    <2>2. "invalidAudio" \in Contract!Rejects[Phase]
      BY <1>2 DEF Contract!Rejects, Phase
    <2> QED  BY <2>1, <2>2 DEF Contract!Next, Contract!Refuse
  <1>3. CASE initialized /\ ~poisoned /\ drained
    <2>1. result' = "none" /\ UNCHANGED <<Phase, accepted, stream>>
      BY <1>3 DEF Flush, EncodeFrame, Refused, Phase
    <2>2. "none" \in Contract!Rejects[Phase]
      BY <1>3 DEF Contract!Rejects, Phase
    <2> QED  BY <2>1, <2>2 DEF Contract!Next, Contract!Refuse
  <1>4. CASE initialized /\ ~poisoned /\ ~drained
    <2>1. DrainCore /\ result' = err' /\ UNCHANGED <<initialized, shortFrame, accepted>>
      BY <1>4 DEF Flush, EncodeFrame
    <2>2. initialized' /\ ~poisoned' /\ drained' /\ result' = "none" /\ accepted' = accepted
      BY <1>4, <2>1 DEF DrainCore
    <2>3. Len(stream') = accepted + 1
      BY <2>2 DEF IInv, CodedSoFar
    <2>4. Contract!Flush
      BY <1>4, <2>2, <2>3 DEF Contract!Flush, Phase
    <2> QED  BY <2>4 DEF Contract!Next
  <1> QED  BY <1>1, <1>2, <1>3, <1>4

LEMMA RefinedPass ==
    ASSUME IInv, IInv', NEW shape \in {"full", "short"}, NEW finite \in BOOLEAN,
           initialized, ~Closed, Pass(shape, finite)
    PROVE  Contract!Next
  <1> DEFINE s == Audio(accepted + 1, "full", finite)
  <1>1. s.shape = "full" /\ s.finite = finite /\ s.id = accepted + 1 /\ s # Nil
    BY DEF Audio, Nil
  <1>2. ~drained /\ ~shortFrame
    BY DEF Closed
  <1>3. CASE poisoned
    <2>1. Refused("invalidAudio") /\ result' = "invalidAudio"
          /\ UNCHANGED <<initialized, shortFrame, accepted>>
      BY <1>2, <1>3 DEF Pass, EncodeFrame, Refused, IInv, TypeOK
    <2>2. UNCHANGED <<Phase, accepted, stream>>
      BY <2>1 DEF Refused, Phase
    <2>3. "invalidAudio" \in Contract!Rejects[Phase]
      BY <1>3 DEF Contract!Rejects, Phase
    <2> QED  BY <2>1, <2>2, <2>3 DEF Contract!Next, Contract!Refuse
  <1>4. CASE ~poisoned /\ ~finite
    <2>1. PoisonCore
      BY <1>1, <1>2, <1>4 DEF Pass, EncodeFrame, EncodeAudio
    <2>2. /\ poisoned' /\ initialized' /\ result' = "invalidAudio"
          /\ UNCHANGED <<accepted, stream>>
      BY <2>1 DEF Pass, PoisonCore
    <2>3. Contract!Poison
      BY <1>2, <1>4, <2>2 DEF Contract!Poison, Phase
    <2> QED  BY <2>3 DEF Contract!Next
  <1>5. CASE ~poisoned /\ finite
    <2>1. CodeHeld(accepted + 1) \/ Stash(accepted + 1)
      BY <1>1, <1>2, <1>5 DEF Pass, EncodeFrame, EncodeAudio
    <2>2. /\ ~poisoned' /\ ~drained' /\ initialized' /\ result' = "none"
          /\ accepted' = accepted + 1 /\ shortFrame' = (shape = "short")
      BY <1>2, <1>5, <2>1 DEF Pass, CodeHeld, Stash
    <2>3. Len(stream') = accepted
      BY <2>2 DEF IInv, CodedSoFar, TypeOK
    <2>4. Contract!Accept("open") \/ Contract!Accept("final")
      BY <1>2, <1>5, <2>2, <2>3 DEF Contract!Accept, Phase
    <2> QED  BY <2>4 DEF Contract!Next
  <1> QED  BY <1>3, <1>4, <1>5

LEMMA RefinedSubmit ==
    ASSUME IInv, IInv', NEW shape \in Shapes, NEW finite \in BOOLEAN, Submit(shape, finite)
    PROVE  Contract!Next
  <1>1. CASE ~initialized
    <2>1. "notInitialized" \in Contract!Rejects[Phase]
      BY <1>1 DEF Contract!Rejects, Phase
    <2>2. Contract!Refuse
      BY <1>1, <2>1, RefinedReject DEF Submit, Errors
    <2> QED  BY <2>2 DEF Contract!Next
  <1>2. CASE initialized /\ Closed
    <2>1. "finalized" \in Contract!Rejects[Phase]
      BY <1>2 DEF Contract!Rejects, Phase, Closed, IInv, Phases
    <2>2. Contract!Refuse
      BY <1>2, <2>1, RefinedReject DEF Submit, Errors
    <2> QED  BY <2>2 DEF Contract!Next
  <1>3. CASE initialized /\ ~Closed /\ shape = "malformed"
    <2>1. "shape" \in Contract!Rejects[Phase]
      BY <1>3 DEF Contract!Rejects, Phase, Closed
    <2>2. Contract!Refuse
      BY <1>3, <2>1, RefinedReject DEF Submit, Errors
    <2> QED  BY <2>2 DEF Contract!Next
  <1>4. CASE initialized /\ ~Closed /\ shape # "malformed"
    BY <1>4, RefinedPass DEF Submit, Shapes
  <1> QED  BY <1>1, <1>2, <1>3, <1>4

\* The flags of wrapper and internal encoder (nil, poisoned, drained, shortFrame) implement
\* the five phases of EncoderContract: each call answers with an error of its phase (the
\* documented one, but for the shape error of a poisoned encoder), and what is coded follows
\* from what was accepted.
THEOREM Refinement == Spec => ImplementsContract
  <1>1. Init => Contract!Init
    BY EmptySeq DEF Init, CoreInit, Contract!Init, Phase
  <1>2. IInv /\ IInv' /\ [Next]_vars => [Contract!Next]_Contract!vars
    <2> SUFFICES ASSUME IInv, IInv', [Next]_vars
                 PROVE  [Contract!Next]_Contract!vars
      OBVIOUS
    <2>1. CASE Next
      BY <2>1, RefinedReset, RefinedFlush, RefinedSubmit DEF Next
    <2>2. CASE UNCHANGED vars
      BY <2>2 DEF vars, coreVars, Contract!vars, Phase
    <2> QED  BY <2>1, <2>2
  <1> QED  BY Inductive, <1>1, <1>2, PTL DEF Spec, ImplementsContract, Contract!Spec
=============================================================================
