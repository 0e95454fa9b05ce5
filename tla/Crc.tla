----------------------------------- MODULE Crc ---------------------------------
(***************************************************************************)
(* The class template CRC: a register of Width bits, as the set of the      *)
(* positions that are 1, into which the bytes go with their high bit first. *)
(***************************************************************************)
EXTENDS Naturals, Sequences

CONSTANTS
    Width,      \* bits of T, a multiple of 8
    Poly,       \* poly, without its highest power
    Initial,    \* init
    XorOut      \* xorout

ASSUME CrcAssumption ==
    /\ Width \in Nat \ {0} /\ Width % 8 = 0
    /\ {Poly, Initial, XorOut} \subseteq SUBSET (0 .. Width - 1)

Xor(a, b) == (a \ b) \union (b \ a)
Bits(b) == {i \in 0 .. 7 : (b \div 2 ^ i) % 2 = 1}

\* The byte whose ones are at the positions.
ByteOf(bits) ==
    LET low[n \in 0 .. 8] ==
            IF n = 0 THEN 0
            ELSE low[n - 1] + (IF n - 1 \in bits THEN 2 ^ (n - 1) ELSE 0)
    IN low[8]

\* mutant: the bit that leaves the register is looked for after the shift
ShiftLate(reg) ==
    LET shifted == {i + 1 : i \in reg \ {Width - 1}}
    IN IF Width - 1 \in shifted THEN Xor(shifted, Poly) ELSE shifted

Shift(reg) ==
    LET shifted == {i + 1 : i \in reg \ {Width - 1}}
    IN IF Width - 1 \in reg THEN Xor(shifted, Poly) ELSE shifted

\* update(), for one byte
Update(reg, b) ==
    LET after[n \in 0 .. 8] ==
            IF n = 0 THEN Xor(reg, {Width - 8 + i : i \in Bits(b)}) ELSE Shift(after[n - 1])
    IN after[8]

\* reset(), update(), finalize()
CrcOf(data) ==
    LET after[n \in 0 .. Len(data)] ==
            IF n = 0 THEN Initial ELSE Update(after[n - 1], data[n])
    IN Xor(after[Len(data)], XorOut)

\* The bytes of the value as the memory of the targets has them, low byte first.
CrcBytes(data) ==
    LET crc == CrcOf(data)
    IN [k \in 1 .. Width \div 8 |->
          ByteOf({i \in 0 .. 7 : 8 * (k - 1) + i \in crc})]
================================================================================
