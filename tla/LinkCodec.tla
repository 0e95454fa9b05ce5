--------------------------------- MODULE LinkCodec -----------------------------
(***************************************************************************)
(* The framing of IPCLink, which takes the CRC to be ideal, beside the codec *)
(* and the CRC of the code: an undamaged raw frame passes, and a damaged one *)
(* does not.  What is said of the codec depends on its constants only.       *)
(***************************************************************************)
EXTENDS LinkRx, FrameCodec

\* What is sent is read back: the raw frame on the line, when nothing happens to
\* it on the way, and every payload of the codec (encode_frame, decode_frame).
FramesReadBack ==
    /\ use_cobs /\ raw # <<>> => Decode(Encode(raw), RawBufSize) = {raw}
    /\ PayloadsReadBack

\* In a state in which LinkRx relies on the CRC, because bytes of the frame were
\* lost or made up, the CRC refuses the damage it is known to refuse.
DamageIsCaught == ~intact => DamageRefused
================================================================================
