------------------------------- MODULE V30Mem -------------------------------
(***************************************************************************)
(* The registers of the V30MZ and the memory it reaches through its        *)
(* segment registers (src/emu/cpu/new: v30mz.h, mem.inc.c; src/emu/mem.c). *)
(* A state of the machine is a record c; an access returns a value, an     *)
(* instruction's step the record it leads to.  Words are 16 bits wide and  *)
(* bytes 8 (w is 16 or 8).                                                 *)
(*                                                                         *)
(* Of memory only what has been written is kept.                           *)
(***************************************************************************)
EXTENDS V30Shift, V30Psw, TLC

CONSTANT Fill(_)    \* the byte at an address that nothing has written yet

Registers == 0..7
AW == 0  CW == 1  DW == 2  BW == 3  SP == 4  BP == 5  IX == 6  IY == 7

Segments == 0..3
ES == 0  CS == 1  SS == 2  DS == 3
None == -1                      \* no override, no effective address

Arena == 0..(2^20 - 1)          \* _mem_ram

\* What is kept of the fields of exec between two instructions: each is set
\* before it is read.  (LEA of a register is the exception: it finds the address
\* of an instruction before it in ea, here 0.)
Idle == [op |-> 0, modrm |-> 0, src0 |-> 0, src1 |-> 0, ea |-> 0, ea_seg |-> None]
Rest(c) == Idle @@ c

-----------------------------------------------------------------------------
(* Registers by their number in an instruction.                            *)

\* _cpu_regb_list: bytes 0 to 3 are the low halves of AW to BW, 4 to 7 the high.
Reg(c, w, i) ==
  CASE w = 16 -> c.reg[i]
    [] w = 8 /\ i < 4 -> Al(c.reg[i])
    [] w = 8 /\ i >= 4 -> Ah(c.reg[i - 4])

SetReg(c, w, i, v) ==
  CASE w = 16 -> [c EXCEPT !.reg[i] = Fit(16, v)]
    [] w = 8 /\ i < 4 -> [c EXCEPT !.reg[i] = Aw(Ah(@), v)]
    [] w = 8 /\ i >= 4 -> [c EXCEPT !.reg[i - 4] = Aw(v, Al(@))]

-----------------------------------------------------------------------------
(* Memory.                                                                 *)

\* An offset is an int in C: it may have been advanced out of the segment.
SegAddr(c, seg, o) == c.sreg[seg] * 16 + o

SegDefault(c, seg) == IF c.segpfx # None THEN c.segpfx ELSE seg

Byte(c, a) == IF a \in DOMAIN c.mem THEN c.mem[a] ELSE Fill(a)

\* A word at any address is the byte there and the next one above it.
Peek(c, w, a) == IF w = 8 THEN Byte(c, a) ELSE Aw(Byte(c, a + 1), Byte(c, a))

Poke(c, w, a, v) ==
  LET low == (a :> Al(v)) IN
  [c EXCEPT !.mem = (IF w = 8 THEN low ELSE low @@ (a + 1 :> Fit(8, Ah(v)))) @@ @]

\* The ports: the hooks are still to be written.
PortIn == 0

-----------------------------------------------------------------------------
(* Fetching, and the stack.                                                *)

\* The byte or word at IP, which has already been advanced when it is read.
Fetch(c, w) == Peek(c, w, SegAddr(c, CS, Fit(16, c.ip + w \div 8) - w \div 8))
Skip(c, w) == [c EXCEPT !.ip = Fit(16, @ + w \div 8)]

Push(c, v) ==
  LET sp == Fit(16, c.reg[SP] - 2)
  IN  Poke([c EXCEPT !.reg[SP] = sp], 16, SegAddr(c, SS, sp), v)

Top(c, n) == Peek(c, 16, SegAddr(c, SS, Fit(16, c.reg[SP] + 2 * n) - 2))
Pop(c, n) == [c EXCEPT !.reg[SP] = Fit(16, @ + 2 * n)]

\* cpu_get_psw and cpu_set_psw.
PswWord(c) == GetPsw({f \in Flag : c.psw[f]})
SetPswWord(c, v) == [c EXCEPT !.psw = [f \in Flag |-> f \in SetPsw(v)]]
=============================================================================
