----------------------------------- MODULE Cobs --------------------------------
(***************************************************************************)
(* The byte stuffing of IPCLink and of the frame codec: bytes without a     *)
(* zero, in blocks that each begin with their length.                       *)
(***************************************************************************)
EXTENDS Naturals, Sequences

CONSTANT Block     \* bytes a code byte can stand before, 254 in the code

ASSUME CobsAssumption == Block \in Nat \ {0}
--------------------------------------------------------------------------------
(* cobs_encode: done are the blocks that are closed, run is the open one.      *)

Close(run) == <<Len(run) + 1>> \o run

\* mutant: a full block is closed one byte late
EncodeByteLate(s, b) ==
    IF b = 0 THEN [done |-> s.done \o Close(s.run), run |-> <<>>]
    ELSE IF Len(s.run) = Block THEN [done |-> s.done \o Close(s.run), run |-> <<b>>]
    ELSE [s EXCEPT !.run = Append(@, b)]

EncodeByte(s, b) ==
    IF b = 0 THEN [done |-> s.done \o Close(s.run), run |-> <<>>]
    ELSE IF Len(s.run) + 1 = Block THEN [done |-> s.done \o Close(Append(s.run, b)), run |-> <<>>]
    ELSE [s EXCEPT !.run = Append(@, b)]

Encode(r) ==
    LET after[n \in 0 .. Len(r)] ==
            IF n = 0 THEN [done |-> <<>>, run |-> <<>>] ELSE EncodeByte(after[n - 1], r[n])
        s == after[Len(r)]
    IN s.done \o Close(s.run)

(* cobs_decode into a buffer of `size` bytes: a byte that should be a code is  *)
(* read at position i; the outcome is a set of at most one sequence, empty if  *)
(* the bytes are no encoding.                                                  *)
Decode(enc, size) ==
    LET dec[i \in 1 .. Len(enc) + 1] ==
            IF i > Len(enc) THEN {<<>>}
            ELSE LET next == i + enc[i]
                     zero == IF enc[i] <= Block /\ next <= Len(enc) THEN <<0>> ELSE <<>>
                 IN IF enc[i] = 0 \/ next > Len(enc) + 1 THEN {}
                    ELSE {SubSeq(enc, i + 1, next - 1) \o zero \o rest : rest \in dec[next]}
    IN {r \in dec[1] : r # <<>> /\ Len(r) <= size}
================================================================================
