------------------------------- MODULE MCRxRing --------------------------------
(* RxRing for TLC: a ring of four slots, which holds three bytes, and nine     *)
(* arrivals, so that both indices wrap twice and the ring fills.               *)
EXTENDS RxRing
================================================================================
