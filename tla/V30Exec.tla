------------------------------- MODULE V30Exec -------------------------------
(***************************************************************************)
(* The instructions of the V30MZ: cpu_exec of                              *)
(* src/emu/cpu/new/exec.inc.c, with its operands in registers and memory.  *)
(* One call of cpu_cycle is one step, except that a block operation under  *)
(* a repeat prefix takes one step for each element.                        *)
(*                                                                         *)
(* An action takes the machine c as cpu_cycle leaves it to cpu_exec, with  *)
(* the opcode fetched.  Left out: `halted', which nothing reads, and       *)
(* irq_disable, as no interrupt is ever requested; INT 21h, which is the   *)
(* subject of the DOS modules.                                             *)
(***************************************************************************)
EXTENDS V30Operand, Sequences, SequencesExt

CONSTANT Starts     \* programs and the machines they start on

VARIABLES
  cpu,        \* the machine
  rep,        \* the repeated block operation in progress, or NoRep
  left,       \* bound: the instructions still to run
  crashed,    \* the host has trapped
  from        \* history: what the program started on

vars == <<cpu, rep, left, crashed, from>>

NoRep == [op |-> 0, is_z |-> FALSE]

IsMachine(c) ==
  /\ c.reg \in [Registers -> Word] /\ c.sreg \in [Segments -> Word]
  /\ {c.ip, c.fault_ip} \subseteq Word
  /\ c.psw \in [Flag -> BOOLEAN]
  /\ DOMAIN c.mem \subseteq Arena /\ \A a \in DOMAIN c.mem : c.mem[a] \in 0..255
  /\ {c.pfx_reset, c.was_prefix} \subseteq BOOLEAN
  /\ c.segpfx \in Segments \union {None}
  /\ Rest(c) = c

\* A start is a machine; the bytes of a program at its CS:IP and the number of
\* instructions it runs; and the repeated block operation it amounts to.
ASSUME ExecAssumption ==
  \A f \in Starts :
    /\ IsMachine(f.cpu)
    /\ f.code \in Seq(0..255) /\ f.steps \in Nat
    /\ f.block = NoRep \/ f.block.op \in Nat

\* The machine with the program loaded.
Loaded(f) ==
  LET base == SegAddr(f.cpu, CS, f.cpu.ip)
  IN  [f.cpu EXCEPT !.mem = [a \in base..(base + Len(f.code) - 1) |-> f.code[a - base + 1]] @@ @]

Init ==
  /\ from \in Starts
  /\ cpu = Loaded(from)
  /\ left = from.steps
  /\ rep = NoRep /\ crashed = FALSE

-----------------------------------------------------------------------------

\* cpu_cycle.
Begin(c) ==
  [Skip(c, 8) EXCEPT
     !.segpfx = IF c.pfx_reset THEN None ELSE @,
     !.fault_ip = IF c.was_prefix THEN @ ELSE c.ip,
     !.was_prefix = FALSE, !.pfx_reset = TRUE,
     !.op = Fetch(c, 8)]

Retire(d) ==
  /\ cpu' = Rest(d)
  /\ left' = left - 1
  /\ UNCHANGED <<rep, crashed, from>>

Width(op) == IF op % 2 = 1 THEN 16 ELSE 8
WithPsw(c, psw) == [c EXCEPT !.psw = psw]
Jump(c, cond) == IF cond THEN [c EXCEPT !.ip = Fit(16, @ + c.src0)] ELSE c

\* cpu_interrupt of a vector but 21h: the BIOS knows no such call.
Interrupt(c) == WithPsw(SetReg(c, 16, AW, 1), [c.psw EXCEPT !.cy = TRUE])

\* cpue_fault.
Fault(c) == Interrupt([c EXCEPT !.ip = c.fault_ip])

-----------------------------------------------------------------------------
(* Arithmetic and logic.                                                   *)

Arith(c) ==
  LET k == c.op \div 8
      form == c.op % 8
      w == Width(c.op)
      d == CASE form \in {0, 1} -> MemReg(c, w)
             [] form \in {2, 3} -> RegMem(c, w)
             [] form \in {4, 5} -> AccImm(c, w)
      r == Alu(k, w, d.src0, d.src1, d.psw)
      e == WithPsw(d, r.psw)
  IN  /\ c.op < \h40 /\ form < 6
      /\ Retire(CASE k = 7 -> e
                  [] k # 7 /\ form \in {0, 1} -> PutRm(e, w, r.dst)
                  [] k # 7 /\ form \in {2, 3} -> PutReg(e, w, r.dst)
                  [] k # 7 /\ form \in {4, 5} -> SetReg(e, w, AW, r.dst))

GroupOne(c) ==
  LET w == Width(c.op)
      d == CASE c.op = \h80 -> RmImm(c, 8, 8)
             [] c.op = \h81 -> RmImm(c, 16, 16)
             [] c.op \in {\h82, \h83} -> RmImm8s(c, w)
      r == Alu(RegOf(d.modrm), w, d.src0, d.src1, d.psw)
  IN  /\ c.op \in \h80..\h83
      /\ Retire(IF RegOf(d.modrm) = 7 THEN WithPsw(d, r.psw) ELSE PutRm(WithPsw(d, r.psw), w, r.dst))

Test(c) ==
  LET w == Width(c.op)
      d == IF c.op \in {\h84, \h85} THEN MemReg(c, w) ELSE AccImm(c, w)
  IN  /\ c.op \in {\h84, \h85, \hA8, \hA9}
      /\ Retire(WithPsw(d, Logic(w, BitAnd(w, d.src0, d.src1), d.psw).psw))

\* INC and DEC of a register.
IncDec(c) ==
  LET r == IF c.op < \h48 THEN Inc(16, c.reg[c.op % 8], c.psw) ELSE Dec(16, c.reg[c.op % 8], c.psw)
  IN  c.op \in \h40..\h4F /\ Retire(SetReg(WithPsw(c, r.psw), 16, c.op % 8, r.dst))

GroupTwo(c) ==
  LET w == Width(c.op)
      d == CASE c.op < \hD0 -> RmImm(c, w, 8)
             [] c.op \in {\hD0, \hD1} -> [Rm(c, w) EXCEPT !.src1 = 1]
             [] c.op \in {\hD2, \hD3} -> [Rm(c, w) EXCEPT !.src1 = Al(c.reg[CW])]
  IN  /\ c.op \in {\hC0, \hC1} \union \hD0..\hD3
      /\ \E r \in Shift(ShiftName[RegOf(d.modrm) + 1], w, d.src0, d.src1, d.psw) :
           Retire(PutRm(WithPsw(d, r.psw), w, r.dst))

\* TEST, NOT and NEG of grp3, and the operation 1, which is unknown.
GroupThree(c) ==
  LET w == Width(c.op)
      d == Rm(c, w)
      n == Neg(w, d.src0, d.psw)
  IN  /\ c.op \in {\hF6, \hF7} /\ RegOf(d.modrm) < 4
      /\ Retire(CASE RegOf(d.modrm) = 0 ->
                       WithPsw(Skip(d, w), Logic(w, BitAnd(w, d.src0, Fetch(d, w)), d.psw).psw)
                  [] RegOf(d.modrm) = 1 -> d
                  [] RegOf(d.modrm) = 2 -> PutRm(d, w, 2^w - 1 - d.src0)
                  [] RegOf(d.modrm) = 3 -> PutRm(WithPsw(d, n.psw), w, n.dst))

\* Of a byte, the whole of AW is the result; of a word, DW:AW is.
SetAw(c, r) == WithPsw(SetReg(c, 16, AW, r.dst), r.psw)
SetDwAw(c, r) == WithPsw(SetReg(SetReg(c, 16, AW, r.lo), 16, DW, r.hi), r.psw)

Multiply(c) ==
  LET d == Rm(c, Width(c.op))
      aw == c.reg[AW]
  IN  /\ c.op \in {\hF6, \hF7} /\ RegOf(d.modrm) \in {4, 5}
      /\ Retire(CASE c.op = \hF6 /\ RegOf(d.modrm) = 4 -> SetAw(d, Mul(aw, d.src0, d.psw))
                  [] c.op = \hF6 /\ RegOf(d.modrm) = 5 -> SetAw(d, Imul(aw, d.src0, d.psw))
                  [] c.op = \hF7 /\ RegOf(d.modrm) = 4 -> SetDwAw(d, MulWord(aw, d.src0, d.psw))
                  [] c.op = \hF7 /\ RegOf(d.modrm) = 5 -> SetDwAw(d, ImulWord(aw, d.src0, d.psw)))

\* The machines a division may leave: none is its fault.
Divided(d) ==
  LET aw == d.reg[AW]
      dw == d.reg[DW]
  IN  CASE d.op = \hF6 /\ RegOf(d.modrm) = 6 -> {SetAw(d, r) : r \in Div(aw, d.src0, d.psw)}
        [] d.op = \hF6 /\ RegOf(d.modrm) = 7 -> {SetAw(d, r) : r \in Idiv(aw, d.src0, d.psw)}
        [] d.op = \hF7 /\ RegOf(d.modrm) = 6 -> {SetDwAw(d, r) : r \in DivWord(dw, aw, d.src0, d.psw)}
        [] d.op = \hF7 /\ RegOf(d.modrm) = 7 -> {SetDwAw(d, r) : r \in IdivWord(dw, aw, d.src0, d.psw)}

DivTraps(d) == d.op = \hF7 /\ RegOf(d.modrm) = 7 /\ Traps(d.reg[DW], d.reg[AW], d.src0)

DivideBy(c) ==
  LET d == Rm(c, Width(c.op))
  IN  /\ c.op \in {\hF6, \hF7} /\ RegOf(d.modrm) \in {6, 7}
      /\ IF Divided(d) = {} THEN Retire(Fault(d)) ELSE \E e \in Divided(d) : Retire(e)

\* The host traps, and the emulator ends.
DivideTrap(c) ==
  LET d == Rm(c, Width(c.op))
  IN  /\ c.op = \hF7 /\ DivTraps(d)
      /\ crashed' = TRUE
      /\ left' = 0
      /\ UNCHANGED <<cpu, rep, from>>

MultiplyFit(c) ==
  LET d == RegMem(c, 16)
      e == IF c.op = \h69 THEN Imm(d, 16) ELSE Imm8s(d)
      r == ImulFit(e.src0, e.src1, e.psw)
  IN  c.op \in {\h69, \h6B} /\ Retire(PutReg(WithPsw(e, r.psw), 16, r.dst))

\* DAA, DAS, AAA, AAS, CBW and CWD; AAM and AAD, which have a base.
Adjust(c) ==
  LET aw == c.reg[AW]
      d == Imm(c, 8)
  IN  /\ c.op \in {\h27, \h2F, \h37, \h3F, \h98, \h99, \hD4, \hD5}
      /\ Retire(CASE c.op \in {\h27, \h2F} -> SetAw(c, DaaDas(c.op = \h2F, aw, c.psw))
                  [] c.op \in {\h37, \h3F} -> SetAw(c, AaaAas(c.op = \h3F, aw, c.psw))
                  [] c.op = \h98 -> SetReg(c, 16, AW, Word16(Al(aw)))
                  [] c.op = \h99 -> SetReg(c, 16, DW, IF Negative(16, aw) THEN 65535 ELSE 0)
                  [] c.op = \hD4 /\ d.src0 # 0 -> SetAw(d, Aam(aw, d.src0, c.psw))
                  [] c.op = \hD4 /\ d.src0 = 0 -> Fault(d)
                  [] c.op = \hD5 -> SetAw(d, Aad(aw, d.src0, c.psw)))

\* CMC, CLC, STC, CLI, STI, CLD and STD; SAHF and LAHF.
Flags(c) ==
  /\ c.op \in {\hF5, \h9E, \h9F} \union \hF8..\hFD
  /\ Retire(CASE c.op = \hF5 -> WithPsw(c, [c.psw EXCEPT !.cy = ~@])
              [] c.op \in {\hF8, \hF9} -> WithPsw(c, [c.psw EXCEPT !.cy = (c.op = \hF9)])
              [] c.op \in {\hFA, \hFB} -> WithPsw(c, [c.psw EXCEPT !.ie = (c.op = \hFB)])
              [] c.op \in {\hFC, \hFD} -> WithPsw(c, [c.psw EXCEPT !.dir = (c.op = \hFD)])
              [] c.op = \h9E -> SetPswWord(c, Aw(Ah(PswWord(c)), Ah(c.reg[AW])))
              [] c.op = \h9F -> SetReg(c, 8, AW + 4, Al(PswWord(c))))

-----------------------------------------------------------------------------
(* Moving data.                                                            *)

Move(c) ==
  LET w == Width(c.op)
      d == GetModrm(c)
  IN  /\ c.op \in \h88..\h8E
      /\ Retire(CASE c.op \in {\h88, \h89} -> PutRm(d, w, GetReg(d, w))
                  [] c.op \in {\h8A, \h8B} -> PutReg(d, w, GetRm(d, w, 0))
                  [] c.op = \h8C -> PutRm(d, 16, d.sreg[RegOf(d.modrm) % 4])
                  [] c.op = \h8D -> PutReg(d, 16, d.ea)
                  [] c.op = \h8E -> [d EXCEPT !.sreg[RegOf(d.modrm) % 4] = GetRm(d, 16, 0)])

MoveImm(c) ==
  LET w == Width(c.op)
      d == Imm(GetModrm(c), w)
      v == IF c.op < \hB8 THEN 8 ELSE 16
      e == Imm(c, v)
  IN  /\ c.op \in \hB0..\hBF \union {\hC6, \hC7}
      /\ Retire(IF c.op < \hC0 THEN SetReg(e, v, c.op % 8, e.src0) ELSE PutRm(d, w, d.src0))

\* MOV between the accumulator and an address in the instruction; XLAT.
MoveAcc(c) ==
  LET w == Width(c.op)
      d == Imm(c, 16)
      a == SegAddr(d, SegDefault(d, DS), d.src0)
      x == SegAddr(c, SegDefault(c, DS), Fit(16, c.reg[BW] + Al(c.reg[AW])))
  IN  /\ c.op \in \hA0..\hA3 \union {\hD7}
      /\ Retire(CASE c.op \in {\hA0, \hA1} -> SetReg(d, w, AW, Peek(d, w, a))
                  [] c.op \in {\hA2, \hA3} -> Poke(d, w, a, Reg(d, w, AW))
                  [] c.op = \hD7 -> SetReg(c, 8, AW, Peek(c, 8, x)))

Exchange(c) ==
  LET w == Width(c.op)
      d == MemReg(c, w)
      i == c.op % 8
  IN  /\ c.op \in {\h86, \h87} \union \h91..\h97
      /\ Retire(IF c.op < \h90 THEN PutReg(PutRm(d, w, d.src1), w, d.src0)
                ELSE [c EXCEPT !.reg[AW] = c.reg[i], !.reg[i] = c.reg[AW]])

\* LES and LDS: the address is that of the first word.
LoadFar(c) ==
  LET d == GetModrm(c)
      e == PutReg(d, 16, GetRm(d, 16, 0))
  IN  /\ c.op \in {\hC4, \hC5}
      /\ Retire([e EXCEPT !.sreg[IF c.op = \hC4 THEN ES ELSE DS] = GetRm(e, 16, 2)])

\* The ports, read and written.
Ports(c) ==
  LET w == Width(c.op)
      d == IF c.op < \hE8 THEN Imm(c, 8) ELSE c
  IN  /\ c.op \in \hE4..\hE7 \union \hEC..\hEF
      /\ Retire(IF c.op % 4 \in {0, 1} THEN SetReg(d, w, AW, PortIn) ELSE d)

\* NOP, WAIT, LOCK and HLT, what the V30MZ does not know, and the instructions
\* of a coprocessor.
Nothing(c) ==
  /\ c.op \in {\h0F, \h90, \h9B, \hD6, \hF0, \hF1, \hF4} \union \h63..\h67 \union \hD8..\hDF
  /\ Retire(CASE c.op \in \hD8..\hDF \ {\hDD} -> Skip(c, 8)
              [] c.op = \hDD -> Skip(Skip(c, 8), 16)
              [] OTHER -> c)

-----------------------------------------------------------------------------
(* The stack.                                                              *)

\* The segment register of an opcode of 06h to 1Fh.
SegNumber(op) == (op \div 8) % 4

PushAll(c) ==
  LET p[i \in Registers] == Push(IF i = 0 THEN c ELSE p[i - 1], c.reg[i]) IN p[7]

PopAll(c) ==
  Pop([c EXCEPT !.reg = [i \in Registers |-> IF i = SP THEN Top(c, 4) ELSE Top(c, 8 - i)]], 0)

PushOne(c) ==
  /\ c.op \in {\h06, \h0E, \h16, \h1E, \h60, \h68, \h6A, \h9C} \union \h50..\h57
  /\ Retire(CASE c.op < \h20 -> Push(c, c.sreg[SegNumber(c.op)])
              [] c.op \in \h50..\h57 -> Push(c, c.reg[c.op % 8])
              [] c.op = \h60 -> PushAll(c)
              [] c.op = \h68 -> Push(Imm(c, 16), Imm(c, 16).src0)
              [] c.op = \h6A -> Push(Imm8s(c), Imm8s(c).src0)
              [] c.op = \h9C -> Push(c, PswWord(c)))

PopOne(c) ==
  /\ c.op \in {\h07, \h17, \h1F, \h61, \h9D} \union \h58..\h5F
  /\ Retire(CASE c.op < \h20 -> [Pop(c, 1) EXCEPT !.sreg[SegNumber(c.op)] = Top(c, 1)]
              [] c.op \in \h58..\h5F -> SetReg(Pop(c, 1), 16, c.op % 8, Top(c, 1))
              [] c.op = \h61 -> PopAll(c)
              [] c.op = \h9D -> SetPswWord(Pop(c, 1), Top(c, 1)))

PopRm(c) ==
  LET d == GetModrm(c)
  IN  c.op = \h8F /\ Retire(PutRm(Pop(d, 1), 16, Top(d, 1)))

\* ENTER copies level - 1 words of the frame outside, then pushes BP.
Enter(c) ==
  LET d == ImmTwo(c, 8)
      level == d.src1 % 32
      b == Push(d, d.reg[BP])
      f == [b EXCEPT !.reg[BP] = b.reg[SP], !.reg[SP] = Fit(16, @ - d.src0)]
      PushOuter(e, i) == Push(e, Peek(e, 16, SegAddr(e, SegDefault(e, SS), e.reg[BP] - 2 * i)))
      copied[i \in 0..(level - 1)] == IF i = 0 THEN f ELSE PushOuter(copied[i - 1], i)
  IN  /\ c.op = \hC8
      /\ Retire(IF level = 0 THEN f ELSE Push(copied[level - 1], f.reg[BP]))

Leave(c) ==
  LET d == [c EXCEPT !.reg[SP] = c.reg[BP]]
  IN  c.op = \hC9 /\ Retire(SetReg(Pop(d, 1), 16, BP, Top(d, 1)))

-----------------------------------------------------------------------------
(* Transfers of control.                                                   *)

JumpIf(c) ==
  LET d == Imm8s(c)
  IN  c.op \in \h70..\h7F /\ Retire(Jump(d, Jumps(c.psw)[Conditions[c.op - \h6F]]))

\* LOOPNZ, LOOPZ, LOOP and JCXZ.
Loop(c) ==
  LET d == Imm8s(c)
      e == [d EXCEPT !.reg[CW] = Fit(16, @ - 1)]
      again == CASE c.op = \hE0 -> ~c.psw.z [] c.op = \hE1 -> c.psw.z [] OTHER -> TRUE
  IN  /\ c.op \in \hE0..\hE3
      /\ Retire(IF c.op = \hE3 THEN Jump(d, c.reg[CW] = 0) ELSE Jump(e, again /\ e.reg[CW] # 0))

JumpFar(d) == [d EXCEPT !.ip = d.src0, !.sreg[CS] = d.src1]
CallFar(d) == JumpFar(Push(Push(d, d.sreg[CS]), d.ip))

JumpTo(c) ==
  /\ c.op \in \hE8..\hEB \union {\h9A}
  /\ Retire(CASE c.op = \hE8 -> Jump(Push(Imm(c, 16), Imm(c, 16).ip), TRUE)
              [] c.op = \hE9 -> Jump(Imm(c, 16), TRUE)
              [] c.op = \hEB -> Jump(Imm8s(c), TRUE)
              [] c.op = \hEA -> JumpFar(ImmTwo(c, 16))
              [] c.op = \h9A -> CallFar(ImmTwo(c, 16)))

\* The word above a far address is read before anything is pushed.
GroupFour(c) ==
  LET w == Width(c.op)
      d == Rm(c, w)
      k == RegOf(d.modrm)
      r == IF k = 0 THEN Inc(w, d.src0, d.psw) ELSE Dec(w, d.src0, d.psw)
      far == [d EXCEPT !.src1 = GetRm(d, w, w \div 8)]
  IN  /\ c.op \in {\hFE, \hFF}
      /\ Retire(CASE k \in {0, 1} -> PutRm(WithPsw(d, r.psw), w, r.dst)
                  [] k = 2 -> [Push(d, d.ip) EXCEPT !.ip = d.src0]
                  [] k = 3 -> CallFar(far)
                  [] k = 4 -> [d EXCEPT !.ip = d.src0]
                  [] k = 5 -> JumpFar(far)
                  [] k = 6 -> Push(d, d.src0)
                  [] k = 7 -> d)

\* RET, RETF and IRET; the first two may drop arguments.
Return(c) ==
  LET d == IF c.op \in {\hC2, \hCA} THEN Imm(c, 16) ELSE [c EXCEPT !.src0 = 0]
      Dropped(e) == [e EXCEPT !.reg[SP] = Fit(16, @ + d.src0)]
      near == [Pop(d, 1) EXCEPT !.ip = Top(d, 1)]
      far == [Pop(near, 1) EXCEPT !.sreg[CS] = Top(near, 1)]
  IN  /\ c.op \in {\hC2, \hC3, \hCA, \hCB, \hCF}
      /\ Retire(CASE c.op \in {\hC2, \hC3} -> Dropped(near)
                  [] c.op \in {\hCA, \hCB} -> Dropped(far)
                  [] c.op = \hCF -> SetPswWord(Pop(far, 1), Top(far, 1)))

\* INT 3, INT, INTO and BOUND, whose bounds have no sign.
Trap(c) ==
  LET d == GetModrm(c)
      outside == GetReg(d, 16) \notin GetRm(d, 16, 0)..GetRm(d, 16, 2)
  IN  /\ c.op \in {\h62, \hCC, \hCD, \hCE}
      /\ c.op = \hCD => Imm(c, 8).src0 # \h21
      /\ Retire(CASE c.op = \hCC -> Interrupt(c)
                  [] c.op = \hCD -> Interrupt(Imm(c, 8))
                  [] c.op = \hCE -> IF c.psw.v THEN Interrupt(c) ELSE c
                  [] c.op = \h62 -> IF outside THEN Interrupt(d) ELSE d)

-----------------------------------------------------------------------------
(* Prefixes and block operations.                                          *)

BlockOps == \h6C..\h6F \union \hA4..\hA7 \union \hAA..\hAF
Compares == {\hA6, \hA7, \hAE, \hAF}

\* Slip: the pointer leaves the segment.
AdvanceBeyond(c, w, regs) ==
  LET n == IF c.psw.dir THEN -(w \div 8) ELSE w \div 8
  IN  [c EXCEPT !.reg = [i \in Registers |-> IF i \in regs THEN @[i] + n ELSE @[i]]]

\* cpue_block_inc.
Advance(c, w, regs) ==
  LET n == IF c.psw.dir THEN -(w \div 8) ELSE w \div 8
  IN  [c EXCEPT !.reg = [i \in Registers |-> IF i \in regs THEN Fit(16, @[i] + n) ELSE @[i]]]

\* Slip: an override moves the destination as well.
ElementBothOverridden(c, op) ==
  LET w == Width(op)
      from_ix == Peek(c, w, SegAddr(c, SegDefault(c, DS), c.reg[IX]))
      iy == SegAddr(c, SegDefault(c, ES), c.reg[IY])
  IN  CASE op \in {\hA4, \hA5} -> Advance(Poke(c, w, iy, from_ix), w, {IX, IY})
        [] op \in {\hAA, \hAB} -> Advance(Poke(c, w, iy, Reg(c, w, AW)), w, {IY})
        [] OTHER -> c

\* One element of a block: of INS, OUTS, MOVS, CMPS, STOS, LODS or SCAS.
Element(c, op) ==
  LET w == Width(op)
      from_ix == Peek(c, w, SegAddr(c, SegDefault(c, DS), c.reg[IX]))
      iy == SegAddr(c, ES, c.reg[IY])
      Compared(a) == WithPsw(c, Sub(w, a, Peek(c, w, iy), FALSE, c.psw).psw)
  IN  CASE op \in {\h6C, \h6D} -> Advance(Poke(c, w, iy, PortIn), w, {IY})
        [] op \in {\h6E, \h6F} -> Advance(c, w, {IX})
        [] op \in {\hA4, \hA5} -> Advance(Poke(c, w, iy, from_ix), w, {IX, IY})
        [] op \in {\hA6, \hA7} -> Advance(Compared(from_ix), w, {IX, IY})
        [] op \in {\hAA, \hAB} -> Advance(Poke(c, w, iy, Reg(c, w, AW)), w, {IY})
        [] op \in {\hAC, \hAD} -> Advance(SetReg(c, w, AW, from_ix), w, {IX})
        [] op \in {\hAE, \hAF} -> Advance(Compared(Reg(c, w, AW)), w, {IY})

Block(c) == c.op \in BlockOps /\ Retire(Element(c, c.op))

\* cpue_i_segpfx.
Overridden(c, seg) == [c EXCEPT !.pfx_reset = FALSE, !.was_prefix = TRUE, !.segpfx = seg]

Overrides == {\h26, \h2E, \h36, \h3E}

Override(c) == c.op \in Overrides /\ Retire(Overridden(c, SegNumber(c.op)))

\* cpue_rep_pfxs: up to six overrides, the last of which holds, and the byte
\* after them.
RepPfxs(c) ==
  LET Ahead(i) == Fetch([c EXCEPT !.ip = Fit(16, @ + i - 1)], 8)
      n == Max({k \in 0..6 : \A i \in 1..k : Ahead(i) \in Overrides})
      d == IF n = 0 THEN c ELSE Overridden(c, SegNumber(Ahead(n)))
  IN  IF n = 6 THEN [c |-> [d EXCEPT !.ip = Fit(16, @ + 6)], next |-> 0]
      ELSE [c |-> [d EXCEPT !.ip = Fit(16, @ + n + 1)], next |-> Ahead(n + 1)]

\* cpue_i_rep: what is not a block operation is left to the next cycle.
Rep(c) ==
  LET p == RepPfxs(c)
      d == [p.c EXCEPT !.pfx_reset = TRUE]
      refused == [Overridden(d, d.segpfx) EXCEPT !.ip = Fit(16, @ - 1)]
  IN  /\ c.op \in {\hF2, \hF3}
      /\ IF p.next \notin BlockOps \/ c.reg[CW] = 0
         THEN Retire(IF p.next \in BlockOps THEN d ELSE refused)
         ELSE /\ cpu' = Rest(d)
              /\ rep' = [op |-> p.next, is_z |-> c.op = \hF3]
              /\ UNCHANGED <<left, crashed, from>>

\* Slip: Z of before the first comparison decides as well.
RepeatChecksFirst ==
  LET e == [Element(cpu, rep.op) EXCEPT !.reg[CW] = Fit(16, @ - 1)]
      more == e.reg[CW] # 0 /\ cpu.psw.z = rep.is_z
  IN  /\ rep # NoRep
      /\ cpu' = Rest(e)
      /\ rep' = IF more THEN rep ELSE NoRep
      /\ left' = IF more THEN left ELSE left - 1
      /\ UNCHANGED <<crashed, from>>

\* A round of its loop.
Repeat ==
  LET e == [Element(cpu, rep.op) EXCEPT !.reg[CW] = Fit(16, @ - 1)]
      more == e.reg[CW] # 0 /\ (rep.op \in Compares => e.psw.z = rep.is_z)
  IN  /\ rep # NoRep
      /\ cpu' = Rest(e)
      /\ rep' = IF more THEN rep ELSE NoRep
      /\ left' = IF more THEN left ELSE left - 1
      /\ UNCHANGED <<crashed, from>>

-----------------------------------------------------------------------------

\* cpu_exec, of the instruction that cpu_cycle has fetched.
Execute(c) ==
  \/ Arith(c) \/ GroupOne(c) \/ Test(c) \/ IncDec(c) \/ GroupTwo(c) \/ GroupThree(c)
  \/ Multiply(c) \/ DivideBy(c) \/ DivideTrap(c) \/ MultiplyFit(c) \/ Adjust(c) \/ Flags(c)
  \/ Move(c) \/ MoveImm(c) \/ MoveAcc(c) \/ Exchange(c) \/ LoadFar(c) \/ Ports(c) \/ Nothing(c)
  \/ PushOne(c) \/ PopOne(c) \/ PopRm(c) \/ Enter(c) \/ Leave(c)
  \/ JumpIf(c) \/ Loop(c) \/ JumpTo(c) \/ GroupFour(c) \/ Return(c) \/ Trap(c)
  \/ Block(c) \/ Override(c) \/ Rep(c)

Cycle == left > 0 /\ rep = NoRep /\ \E c \in {Begin(cpu)} : Execute(c)

\* The program has run its instructions.
Over == left = 0 /\ UNCHANGED vars

Next == Cycle \/ Repeat \/ Over

Spec == Init /\ [][Next]_vars

-----------------------------------------------------------------------------

TypeOK ==
  /\ IsMachine(cpu)
  /\ rep = NoRep \/ rep \in [op : BlockOps, is_z : BOOLEAN]
  /\ left \in Nat /\ crashed \in BOOLEAN

Isa == INSTANCE V30Isa


-----------------------------------------------------------------------------
(* What a repeated block operation is for, and the loop it stands for.     *)

\* The program that amounts to one has run.
Ended(ops) == left = 0 /\ from.block.op \in ops

Start == Loaded(from)
Count == Start.reg[CW]
Size == Width(from.block.op)

\* The offset of element i, and its addresses.
Along(o, i) == Fit(16, IF Start.psw.dir THEN o - i * (Size \div 8) ELSE o + i * (Size \div 8))
Source(i) == SegAddr(Start, SegDefault(Start, DS), Along(Start.reg[IX], i))
Target(i) == SegAddr(Start, ES, Along(Start.reg[IY], i))

\* After n elements the pointers are behind them.
Behind(n, op) ==
  /\ op \in {\hA4, \hA5, \hA6, \hA7} => cpu.reg[IX] = Along(Start.reg[IX], n)
  /\ cpu.reg[IY] = Along(Start.reg[IY], n)
  /\ cpu.reg[CW] = Count - n

\* MOVS copies the elements, and if the target starts p elements ahead in the
\* source, the first p of them again and again; STOS stores AW.  Nothing outside
\* the target changes, and CW of 0 moves nothing.
BlocksMoved ==
  LET Ahead == {p \in 1..(Count - 1) : Source(p) = Target(0)}
      p == IF Ahead = {} THEN Count ELSE Min(Ahead)
      Given(i) == IF from.block.op \in {\hAA, \hAB} THEN Reg(Start, Size, AW)
                  ELSE Peek(Start, Size, Source(i % p))
      Area == UNION {Target(i)..(Target(i) + Size \div 8 - 1) : i \in 0..(Count - 1)}
  IN  Ended({\hA4, \hA5, \hAA, \hAB}) =>
        /\ \A i \in 0..(Count - 1) : Peek(cpu, Size, Target(i)) = Given(i)
        /\ \A a \in DOMAIN cpu.mem \ Area : cpu.mem[a] = Byte(Start, a)
        /\ Behind(Count, from.block.op)

\* CMPS and SCAS stop behind the first element whose comparison does not go on,
\* or behind the last, with the flags of comparing that one.
ScansStopped ==
  LET Wanted(i) == IF from.block.op \in {\hA6, \hA7} THEN Peek(Start, Size, Source(i))
                 ELSE Reg(Start, Size, AW)
      Found(i) == Peek(Start, Size, Target(i))
      Stops == {i \in 0..(Count - 1) : (Wanted(i) = Found(i)) # from.block.is_z}
      n == IF Stops = {} THEN Count ELSE Min(Stops) + 1
  IN  Ended(Compares) =>
        /\ Behind(n, from.block.op)
        /\ IF n = 0 THEN cpu.psw = Start.psw
           ELSE /\ cpu.psw.z = (Wanted(n - 1) = Found(n - 1))
                /\ cpu.psw.cy = (Wanted(n - 1) < Found(n - 1))
===============================================================================
