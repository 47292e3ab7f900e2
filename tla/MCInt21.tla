------------------------------ MODULE MCInt21 ------------------------------
(* Int21 under three programs: one that works with memory, one with files  *)
(* and one with the console; all of them also make calls there are not.    *)
EXTENDS Int21

CONSTANTS f1, s1

OneFile == {f1}
OneStream == {s1}
NoFiles == [f \in OneFile |-> -1]
MCClock == {7}

Regs(ahs, als, bws, cws, dws, ess) ==
  {[int |-> \h21, aw |-> 256 * ah + al, bw |-> bw, cw |-> cw, dw |-> dw, es |-> es] :
     ah \in ahs, al \in als, bw \in bws, cw \in cws, dw \in dws, es \in ess}

\* AH=00h (exit by a call there is not), AX=4301h (set attributes), INT 0.
Unknown ==
  Regs({\h00}, {0}, {0}, {0}, {0}, {0})
    \union Regs({\h43}, {1}, {0}, {0}, {0}, {0})
    \union {[Idle EXCEPT !.aw = \h4C00]}

\* Blocks of at least one paragraph: DosMem's own run has the empty ones.
Memory ==
  [asks |-> Unknown
              \union Regs({\h48}, {0, 8}, 1..(Total - 1), {0}, {0}, {0})
              \union Regs({\h49}, {0}, {0}, {0}, {0}, 0..(Total - 1))
              \union Regs({\h4A}, {0}, 1..(Total - 1), {0}, {0}, 0..(Total - 1)),
   texts |-> {[i \in 0..(SegSize - 1) |-> Nul]},
   disks |-> {NoFiles}]

\* A seek to 0 or 1, or back by one.
Filing ==
  [asks |-> Unknown
              \union Regs({\h3C}, {0}, {0}, {0}, {0}, {0})
              \union Regs({\h3D}, {0, 1, 2, \h83}, {0}, {0}, {0}, {0})
              \union Regs({\h3E, \h44}, {0}, 0..MaxFiles, {0}, {0}, {0})
              \union Regs({\h3F, \h40}, {0}, 0..MaxFiles, 0..MaxCount, {0}, {0})
              \union Regs({\h42}, {0}, 0..MaxFiles, {0}, {0}, {0})
              \union Regs({\h42}, 0..3, {3}, {0}, {0, 1}, {0})
              \union Regs({\h42}, 0..2, {3}, {\hFFFF}, {\hFFFF}, {0})
              \union Regs({\h43, \h4C}, {0}, {0}, {0}, {0}, {0}),
   texts |-> {[i \in 0..(SegSize - 1) |-> IF i = 1 THEN Nul ELSE 70]},
   disks |-> [OneFile -> (-1)..MaxSize]]

\* NUL, "$", a digit, a backslash (which may end a character) and a byte that
\* begins a character of two.  Every text there is, read from its last byte on.
Sample == {Nul, Dollar, 49, 92, 131}

Writing ==
  [asks |-> Unknown
              \union Regs({\h02}, {0}, {0}, {0}, Sample, {0})
              \union Regs({\h09, \h3B}, {0}, {0}, {0}, {SegSize - 1}, {0})
              \union Regs({\h3F}, {0}, {1}, {2}, {0}, {0})
              \union Regs({\h40}, {0}, {0, 1, 2}, 2..3, {SegSize - 1}, {0})
              \union Regs({\h25, \h2A, \h2C, \h30, \h35}, {0}, {0}, {0}, {0}, {0}),
   texts |-> [0..(SegSize - 1) -> Sample],
   disks |-> {NoFiles}]

MCPrograms == [memory |-> Memory, filing |-> Filing, writing |-> Writing]
=============================================================================
