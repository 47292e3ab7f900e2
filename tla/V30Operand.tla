----------------------------- MODULE V30Operand -----------------------------
(***************************************************************************)
(* The operands of an instruction of the V30MZ: what the cpue_modrm and    *)
(* cpue_imm helpers of src/emu/cpu/new/exec.inc.c fetch after the opcode,  *)
(* and in which order.  A helper takes the record of the machine and       *)
(* returns it with src0, src1, modrm and the effective address set.        *)
(***************************************************************************)
EXTENDS V30Mem

Mod(m) == m \div 64
RegOf(m) == (m \div 8) % 8
RmOf(m) == m % 8

Word16(b) == Fit(16, Signed(8, b))       \* (uint16)(int8)

\* What the displacement is relative to, and the segment it is in by default.
EaBase(c, m) ==
  CASE RmOf(m) = 0 -> <<c.reg[BW] + c.reg[IX], DS>>
    [] RmOf(m) = 1 -> <<c.reg[BW] + c.reg[IY], DS>>
    [] RmOf(m) = 2 -> <<c.reg[BP] + c.reg[IX], SS>>
    [] RmOf(m) = 3 -> <<c.reg[BP] + c.reg[IY], SS>>
    [] RmOf(m) = 4 -> <<c.reg[IX], DS>>
    [] RmOf(m) = 5 -> <<c.reg[IY], DS>>
    [] RmOf(m) = 6 -> IF Mod(m) = 0 THEN <<0, DS>> ELSE <<c.reg[BP], SS>>
    [] RmOf(m) = 7 -> <<c.reg[BW], DS>>

\* The displacement fetched: none, a byte or a word.
Displaced(c, m) ==
  CASE Mod(m) = 1 -> [c |-> Skip(c, 8), by |-> Signed(8, Fetch(c, 8))]
    [] Mod(m) = 2 \/ (Mod(m) = 0 /\ RmOf(m) = 6) -> [c |-> Skip(c, 16), by |-> Fetch(c, 16)]
    [] OTHER -> [c |-> c, by |-> 0]


\* cpue_modrm_get_ea: once for an instruction, and not for two registers.
GetEa(c) ==
  IF c.ea_seg # None \/ Mod(c.modrm) = 3 THEN c
  ELSE LET base == EaBase(c, c.modrm)
           d == Displaced(c, c.modrm)
       IN  [d.c EXCEPT !.ea = Fit(16, base[1] + d.by), !.ea_seg = SegDefault(c, base[2])]

\* cpue_modrm_get.
GetModrm(c) == GetEa([Skip(c, 8) EXCEPT !.modrm = Fetch(c, 8)])

\* cpue_modrm_get_reg and _set_reg, _get_rm and _set_rm.
GetReg(c, w) == Reg(c, w, RegOf(c.modrm))
PutReg(c, w, v) == SetReg(c, w, RegOf(c.modrm), v)

EaAt(c, offset) == SegAddr(c, c.ea_seg, c.ea + offset)

GetRm(c, w, offset) ==
  IF Mod(c.modrm) = 3 THEN Reg(c, w, RmOf(c.modrm)) ELSE Peek(c, w, EaAt(GetEa(c), offset))

PutRm(c, w, v) ==
  IF Mod(c.modrm) = 3
  THEN SetReg(c, w, RmOf(c.modrm), v)
  ELSE LET d == GetEa(c) IN Poke(d, w, EaAt(d, 0), v)

-----------------------------------------------------------------------------

\* cpue_modrm_r_mem_reg and cpue_modrm_r_reg_mem.
MemReg(c, w) ==
  LET d == GetModrm(c) IN [d EXCEPT !.src0 = GetRm(d, w, 0), !.src1 = GetReg(d, w)]

RegMem(c, w) ==
  LET d == GetModrm(c) IN [d EXCEPT !.src0 = GetReg(d, w), !.src1 = GetRm(d, w, 0)]

\* cpue_al_imm8 and cpue_aw_imm16.
AccImm(c, w) == [Skip(c, w) EXCEPT !.src0 = Reg(c, w, AW), !.src1 = Fetch(c, w)]

\* cpue_imm8, cpue_imm16, cpue_imm8s, cpue_imm16_imm8 and cpue_immfar.
Imm(c, w) == [Skip(c, w) EXCEPT !.src0 = Fetch(c, w)]
Imm8s(c) == [Skip(c, 8) EXCEPT !.src0 = Word16(Fetch(c, 8))]
ImmTwo(c, w) ==
  LET d == Imm(c, 16) IN [Skip(d, w) EXCEPT !.src1 = Fetch(d, w)]

\* cpue_modrmEb and cpue_modrmEw, and their forms with an immediate of width i.
Rm(c, w) == LET d == GetModrm(c) IN [d EXCEPT !.src0 = GetRm(d, w, 0)]
RmImm(c, w, i) == LET d == Rm(c, w) IN [Skip(d, i) EXCEPT !.src1 = Fetch(d, i)]
RmImm8s(c, w) == LET d == Rm(c, w) IN [Skip(d, 8) EXCEPT !.src1 = Word16(Fetch(d, 8))]
=============================================================================
