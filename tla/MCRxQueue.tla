------------------------------- MODULE MCRxQueue -------------------------------
(* RxQueue for TLC: two slots and six payloads, so that the ring wraps and     *)
(* fills, with and without a callback, polled and in the interrupt.             *)
EXTENDS RxQueue
================================================================================
