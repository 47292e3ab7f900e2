----------------------------- MODULE MCV30Stack -----------------------------
(* A segment of 12 words.  A COM program starts with SS and SP 0; an MZ      *)
(* program with a segment of its own and SP at its end.                      *)
EXTENDS V30Stack

TwoFiles ==
  { [regs |-> [aw |-> 21, cw |-> 22, dw |-> 23, bw |-> 24, ix |-> 25, iy |-> 26],
     psw |-> {"md", "ie", "z", "v"}],
    [regs |-> [r \in Gpr |-> 0], psw |-> {"cy", "dir"}] }

ComAndMz == { [ss |-> 0, sp |-> 0], [ss |-> 4, sp |-> 11] }
=============================================================================
