----------------------------- MODULE MCV30Exec -----------------------------
EXTENDS V30Exec

\* Neighbours differ.
MCFill(a) == (7 * a + 13 * (a \div 256) + 5) % 256

AllFlags(b) == [f \in Flag |-> b]

\* The registers in their order, then ES, CS, SS and DS.
Machine(regs, sregs, psw, seg) ==
  Rest([reg |-> [i \in Registers |-> regs[i + 1]], sreg |-> [i \in Segments |-> sregs[i + 1]],
        ip |-> 256, fault_ip |-> IF seg = None THEN 0 ELSE 255, psw |-> psw, mem |-> << >>,
        segpfx |-> seg, pfx_reset |-> (seg = None), was_prefix |-> (seg # None)])

\* Plain; overridden, with offsets that wrap; dividends at their limits.
MCMachines ==
  {Machine(<<\h1283, \h0504, \h0007, \h2010, \h3000, \h2FFA, \h0130, \h0240>>,
           <<\h3000, \h0100, \h4000, \h2000>>, AllFlags(FALSE), None),
   Machine(<<\hFFF0, \h0109, \hFF80, \hF00F, \h5001, \hFFF8, \h1FF0, \hFFFF>>,
           <<\h3500, \h0200, \h4500, \h2500>>, AllFlags(TRUE), ES),
   Machine(<<\h0000, \hFFFF, \h8000, \h0000, \h6000, \h0011, \h0022, \h0033>>,
           <<\h3500, \h0200, \h4500, \h2500>>, AllFlags(FALSE), CS)}

\* What follows an opcode: a displacement, and an immediate.
MCTails == {<<\h85, \hF3, \h9A, \h07, \h11>>, <<\h02, \h00, \h7F, \h41, \h22>>}

Format == INSTANCE V30Isa
Codes ==
  {<<op, m>> : op \in {op \in 0..255 : Format!HasModrm(op)}, m \in 0..255}
    \union {<<op>> : op \in {op \in 0..255 : ~Format!HasModrm(op)}}

MCSingles ==
  [cpu : MCMachines, code : {c \o t : c \in Codes, t \in MCTails}, steps : {1}, block : {NoRep}]

-----------------------------------------------------------------------------

\* Blocks: the pointers apart, the target ahead, behind, and around the end of
\* the segment.
MCBlockMachines ==
  {[Machine(<<\h1283, n, 0, 0, \h3000, 0, p[1], p[2]>>, <<\h3000, \h0100, \h4000, \h3000>>,
            [AllFlags(FALSE) EXCEPT !.dir = dir, !.z = z], None) EXCEPT !.mem = m]
     : n \in 0..4, p \in {<<\h0200, \h0400>>, <<\h0200, \h0202>>, <<\h0204, \h0202>>,
                          <<\h0100, \hFFFE>>, <<\hFFFE, \h0300>>},
       dir \in BOOLEAN, z \in BOOLEAN,
       m \in {<< >>, (\h30402 :> MCFill(\h30202)) @@ (\h30400 :> \h83) @@ (\h30401 :> \h83)}}

Nops == [i \in 1..12 |-> \h90]
Repeated(op, is_z) == [op |-> op, is_z |-> is_z]
Program(code, steps, op, is_z) == [code |-> code, steps |-> steps, block |-> Repeated(op, is_z)]

\* Under a prefix, and as a loop.
MCPrograms(n) ==
  {Program(<<\hF3, op>>, 1, op, TRUE) : op \in {\hA4, \hA5, \hAA, \hAB, \hA6, \hA7, \hAE, \hAF}}
    \union {Program(<<\hF2, op>>, 1, op, FALSE) : op \in {\hA4, \hA6, \hA7, \hAE, \hAF}}
    \union (IF n = 0 THEN {} ELSE
      {Program(<<\hAC, \hAA, \hE2, \hFC>> \o Nops, 3 * n, \hA4, TRUE),
       Program(<<\hAB, \hE2, \hFD>> \o Nops, 2 * n, \hAB, TRUE),
       Program(<<\hA6, \hE1, \hFD>> \o Nops, 2 * n, \hA6, TRUE),
       Program(<<\hAE, \hE0, \hFD>> \o Nops, 2 * n, \hAE, FALSE)})

MCBlocks == UNION {{p @@ [cpu |-> c] : p \in MCPrograms(c.reg[CW])} : c \in MCBlockMachines}

\* The other block operations; overrides before and after the prefix.
MCOthers ==
  {[cpu |-> c, code |-> code, steps |-> 2, block |-> NoRep]
     : c \in MCBlockMachines,
       code \in {<<\hF3, \h6C, \h90>>, <<\hF3, \h6F, \h90>>, <<\hF3, \hAD, \h90>>,
                 <<\h26, \hF3, \hA4>>, <<\hF2, \h2E, \h36, \hAC, \hF6, \h30>>,
                 <<\hF3, \h26, \h26, \h26, \h26, \h26, \h26, \hA4>>, <<\hF3, \h26, \hF6, \h30>>}}

MCStarts == MCSingles \union MCBlocks \union MCOthers
============================================================================
