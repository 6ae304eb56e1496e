----------------------------- MODULE MainDataPath -----------------------------
(***************************************************************************)
(* The encoder's pending frames composed with the decoder's bit reservoir: *)
(* FrameFIFO carrying the bytes themselves, the file of emitted frames,    *)
(* and the decoder that reassembles each frame's main data from the        *)
(* previous frames (src/internal/dec/decode.go, DecodeFrame, and           *)
(* l3RestoreReservoir / l3SaveReservoir in src/internal/dec/sideinfo.go).  *)
(*                                                                         *)
(* Byte number o of frame k's coded main data is the pair <<k, o>>; every  *)
(* zero byte is <<>>.  A slot's buffer keeps the bytes of its last use.    *)
(***************************************************************************)
EXTENDS FrameFIFO, Sequences

CONSTANT MaxBitreservoirBytes   \* 511: what the decoder carries over

\* The decoder carries what main_data_begin can reach back for (511 on both sides).
ASSUME ReachAssumption ==
    MaxBitreservoirBytes \in Nat /\ ResHardCapBytes <= MaxBitreservoirBytes

VARIABLES
    coded,    \* bytes of mainData before its zero padding
    hdr,      \* slot -> the header and side info pushed with it
    buf,      \* slot -> area byte offset -> byte
    file,     \* emitted frames not yet decoded
    res,      \* the decoder's reservoir
    decoded,  \* history: frames decoded since the decoder started
    cut       \* history: whether the decoder started after the first frame

pathVars == <<vars, coded, hdr, buf, file, res, decoded, cut>>

Zero == <<>>
MainDataByte(k, o) == IF o < coded THEN <<k, o>> ELSE Zero
Offsets == 0..MainAreaBytes(1) - 1
Clean == [s \in 0..FifoSlots - 1 |-> [o \in Offsets |-> Zero]]

PathInit ==
    /\ Init /\ coded = 0 /\ buf = Clean
    /\ hdr = [s \in 0..FifoSlots - 1 |-> [mdb |-> 0, coded |-> 0]]
    /\ file = <<>> /\ res = <<>> /\ decoded = 0 /\ cut = FALSE

(***************************************************************************)
(* The decoder reads every frame before the next one is coded.  It sees    *)
(* nothing of the encoder but the frames, so only their order matters.     *)
(***************************************************************************)
PushHeader(c) ==
    /\ file = <<>>
    /\ Push(c)
    /\ coded' = c
    /\ hdr' = [hdr EXCEPT ![At(count)] = [mdb |-> occ, coded |-> c]]
    /\ UNCHANGED <<buf, file, res, decoded, cut>>

CodeFrameBytes == \E c \in 0..HuffCap : PushHeader(c)

PlaceBytes ==
    LET s == slots[At(i)]
        take == MinOf(data, Room(s))
    IN  /\ PlaceSlot
        /\ buf' = [buf EXCEPT ![At(i)] = [o \in Offsets |->
                     IF o \in s.fill..s.fill + take - 1
                       THEN MainDataByte(pushed - 1, len - data + o - s.fill) ELSE @[o]]]
        /\ UNCHANGED <<coded, hdr, file, res, decoded, cut>>

Emitted(s, bytes) ==
    [id |-> slots[s].id, mdb |-> hdr[s].mdb, coded |-> hdr[s].coded,
     area |-> [o \in 1..AreaLen(slots[s]) |-> bytes[o - 1]]]

FlushBytes ==
    /\ FlushSlot
    /\ file' = Append(file, Emitted(head, buf[head]))
    /\ UNCHANGED <<coded, hdr, buf, res, decoded, cut>>

\* flushAll zeroes the unfilled rest of the area before it copies the frame.
\* (Mutant Unzeroed: it does not.)
Unzeroed(s) == buf[s]

Zeroed(s) == [o \in Offsets |-> IF o >= slots[s].fill THEN Zero ELSE buf[s][o]]

FlushAllBytes ==
    /\ FlushAllSlot
    /\ buf' = [buf EXCEPT ![head] = Zeroed(head)]
    /\ file' = Append(file, Emitted(head, Zeroed(head)))
    /\ UNCHANGED <<coded, hdr, res, decoded, cut>>

ControlStep ==
    /\ Commit \/ FlushDone \/ Drain \/ FlushAllDone
    /\ UNCHANGED <<coded, hdr, buf, file, res, decoded, cut>>

\* A new stream: the encoder is cleared whole, and the decoder starts afresh.
ResetBoth ==
    /\ file = <<>> /\ Reset
    /\ coded' = 0 /\ buf' = Clean
    /\ hdr' = [s \in 0..FifoSlots - 1 |-> [mdb |-> 0, coded |-> 0]]
    /\ res' = <<>> /\ decoded' = 0 /\ cut' = FALSE
    /\ UNCHANGED file

(***************************************************************************)
(* DecodeFrame on the next frame of the file.                              *)
(***************************************************************************)
LastBytes(s, n) == SubSeq(s, Len(s) - MinOf(n, Len(s)) + 1, Len(s))

\* l3ReadSideInfo: the frame claims more main data than there can be.
Malformed(f) == f.coded > Len(f.area) + f.mdb

\* Mutant: the oldest of the carried bytes are taken.
MainDataOldest(f) == SubSeq(res, 1, MinOf(f.mdb, Len(res))) \o f.area

\* l3RestoreReservoir.
MainData(f) == LastBytes(res, f.mdb) \o f.area
Restored(f) == Len(res) >= f.mdb

\* What is left behind the bytes the granules consumed.
Unconsumed(f) ==
    SubSeq(MainData(f), (IF Restored(f) THEN f.coded ELSE 0) + 1, Len(MainData(f)))

\* Mutants: a limit one short, nothing saved after a failed restore.
SavedShort(f) == LastBytes(Unconsumed(f), MaxBitreservoirBytes - 1)
SavedIfRestored(f) == IF Restored(f) THEN LastBytes(Unconsumed(f), MaxBitreservoirBytes) ELSE <<>>

\* l3SaveReservoir: at most the limit, and of that the newest.
Saved(f) == LastBytes(Unconsumed(f), MaxBitreservoirBytes)

DecodeFrame ==
    /\ file # <<>>
    /\ res' = IF Malformed(Head(file)) THEN <<>> ELSE Saved(Head(file))
    /\ file' = Tail(file)
    /\ decoded' = decoded + 1
    /\ UNCHANGED <<vars, coded, hdr, buf, cut>>

\* A decoder that joins later: a cut stream, or a seek before its priming.
StartLater ==
    /\ file # <<>>
    /\ file' = Tail(file)
    /\ res' = <<>> /\ decoded' = 0 /\ cut' = TRUE
    /\ UNCHANGED <<vars, coded, hdr, buf>>

PathNext ==
    \/ CodeFrameBytes \/ PlaceBytes \/ FlushBytes \/ FlushAllBytes
    \/ ControlStep \/ ResetBoth \/ DecodeFrame \/ StartLater

PathSpec == PathInit /\ [][PathNext]_pathVars
-----------------------------------------------------------------------------
(***************************************************************************)
(* What a frame decodes to is what was coded for it: whenever the decoder  *)
(* finds enough bytes in its reservoir, the bytes it assembles begin with  *)
(* this frame's main data, byte for byte, even after a cut.                *)
(***************************************************************************)
DecodesItsOwnData ==
    file # <<>> =>
        LET f == Head(file) IN
            /\ ~Malformed(f)
            /\ Restored(f) => \A o \in 1..f.coded : MainData(f)[o] = <<f.id, o - 1>>

(***************************************************************************)
(* A decoder that reads the stream from its first frame finds the bytes    *)
(* every frame reaches back for, although it never keeps more than its     *)
(* buffer holds, and every coded frame reaches it.                         *)
(***************************************************************************)
NothingLost ==
    /\ Len(res) <= MaxBitreservoirBytes
    /\ ~cut => /\ file # <<>> => Restored(Head(file))
               /\ pc = "drained" /\ file = <<>> => decoded = pushed

(***************************************************************************)
(* A decoder that joins late is in step again once the areas it has read   *)
(* cover the cap, at most seven frames: what the seek's priming relies on. *)
(***************************************************************************)
ResyncBound ==
    file # <<>> /\ decoded * MainAreaBytes(0) >= ResCapBytes => Restored(Head(file))

(***************************************************************************)
(* No stale byte leaves the ring: a slot's buffer is reused without being  *)
(* cleared, yet an emitted area holds nothing but main data of its own or  *)
(* a later frame and zeros.                                                *)
(***************************************************************************)
NoStaleBytes ==
    \A k \in 1..Len(file) : \A o \in 1..Len(file[k].area) :
        LET b == file[k].area[o] IN b = Zero \/ b[1] >= file[k].id
=============================================================================
