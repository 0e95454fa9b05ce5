------------------------------ MODULE MCCanAdapter -----------------------------
(* CanAdapter for TLC: a ring that wraps and fills, messages of one and of two   *)
(* bytes, and a second init().                                                    *)
EXTENDS CanAdapter
================================================================================
