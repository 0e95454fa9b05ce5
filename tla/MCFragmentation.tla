---------------------------- MODULE MCFragmentation ----------------------------
(* Fragmentation for TLC: a physical limit of 4 with 1 byte of framing and a   *)
(* header of 1 leaves chunks of 2, so that the lengths below go out whole, in  *)
(* two fragments, in three with a short last one, and in four, too long for    *)
(* the receiver.                                                               *)
EXTENDS Fragmentation
================================================================================
