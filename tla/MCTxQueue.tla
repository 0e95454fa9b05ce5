------------------------------- MODULE MCTxQueue -------------------------------
(* TxQueue for TLC: three slots and four messages of one frame or of two, so that *)
(* the ring wraps and fills, also in the middle of a message.                     *)
EXTENDS TxQueue
================================================================================
