------------------------------- MODULE MCLinkRx --------------------------------
(* LinkRx for TLC: raw frames of up to three bytes, zero or not, and COBS       *)
(* blocks of two bytes, so that a frame has a zero, a full block, or a full     *)
(* block at its end.  rx_buf_ holds the longest encoded frame and no more, so   *)
(* that a lost delimiter overruns it.                                           *)
(*                                                                              *)
(* With it the functions LinkRx takes to be ideal, FrameCodec with CRC16_CCITT: *)
(* payloads of up to three bytes, the longest too long for raw_buf.             *)
EXTENDS LinkCodec

MCRaws == UNION {[1 .. n -> {0, 1}] : n \in 1 .. 3}

MCPoly == {0, 5, 12}
MCInitial == 0 .. 15
MCPayloads == {<<>>, <<0>>, <<137>>, <<137, 0>>, <<255, 255, 0>>, <<0, 1, 2, 3>>}
================================================================================
