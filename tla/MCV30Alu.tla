----------------------------- MODULE MCV30Alu -----------------------------
EXTENDS V30Alu, Bitwise

\* Zero, one, digits, the ends of the signed and of the unsigned range.
MCBytes == {0, 1, 9, 40, 127, 128, 153, 255}
MCWords == {256 * h + l : h, l \in MCBytes}

\* The sets of bits are what TLC's library says of the numbers.
ASSUME BitsAreBitwise ==
  \A a, b \in MCWords :
    /\ BitAnd(16, a, b) = a & b /\ BitOr(16, a, b) = a | b /\ BitXor(16, a, b) = a ^^ b
    /\ Number(Bits(16, a)) = a

MCCounts == {0, 1, 7, 8, 9, 15, 16, 17, 31, 33}
===========================================================================
