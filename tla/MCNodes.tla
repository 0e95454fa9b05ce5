--------------------------------- MODULE MCNodes -------------------------------
(* Nodes for TLC: one slave, two frames in flight, two slots, two sequence        *)
(* numbers, clocks that wrap after a few milliseconds, and answers that are empty  *)
(* or too long for a packet.                                                      *)
EXTENDS Nodes

\* The memory of the slots: cleared, with one number each, and with one that is
\* never allocated in front.
SomeHeld == {<<0, 0>>, <<0, 1>>, <<SeqIds, 0>>}

NoneAndLong == {<<>>, <<7, 8>>}
================================================================================
