------------------------------ MODULE V30Arith ------------------------------
(***************************************************************************)
(* Addition, subtraction and the conditions of the V30MZ's jumps           *)
(* (src/emu/cpu/new/exec.inc.c).  Each operation of the source comes in an *)
(* 8-bit and a 16-bit version; here the width w of the operands is a       *)
(* parameter.  An operand is a number below 2^w, a result is a record of   *)
(* the destination and the flags.                                          *)
(***************************************************************************)
EXTENDS Integers, FiniteSets

Widths == {8, 16}
Operand(w) == 0..(2^w - 1)
Psw == [cy : BOOLEAN, p : BOOLEAN, ac : BOOLEAN, z : BOOLEAN, s : BOOLEAN, v : BOOLEAN]
Result(dst, psw) == [dst |-> dst, psw |-> psw]

Fit(w, x) == x % 2^w                      \* what a register of w bits keeps of x
Bit(x, i) == (x \div 2^i) % 2 = 1
Negative(w, x) == Bit(x, w - 1)
High(w, x) == Fit(8, x \div 2^(w - 8))    \* the high byte, of which V is computed
AsInt(b) == IF b THEN 1 ELSE 0

\* _cpu_parity.
Parity(x) == Cardinality({i \in 0..7 : Bit(x, i)}) % 2 = 0

\* cpue_flag_szp8 and cpue_flag_szp16.
SZP(w, x, psw) ==
  [psw EXCEPT !.s = Negative(w, x), !.z = (Fit(w, x) = 0), !.p = Parity(x)]

CarryIn(chained, psw) == AsInt(chained /\ psw.cy)

-----------------------------------------------------------------------------

\* cpue_flag_overflow_add8 and _add16: the carry is added to the high byte.
OverflowAdd(w, res, a, b, c) ==
  LET bc == Fit(8, High(w, b) + c)
  IN  /\ Negative(8, High(w, res)) # Negative(8, High(w, a))
      /\ Negative(8, High(w, res)) # Negative(8, bc)

\* cpue_flag_overflow_sub8 and _sub16.
OverflowSub(w, res, a, b, c) ==
  LET bc == Fit(8, High(w, b) + c)
  IN  /\ Negative(8, High(w, a)) # Negative(8, bc)
      /\ Negative(8, High(w, a)) # Negative(8, High(w, res))

\* Slip: the carry of the part before does not come in.
AddApart(w, a, b, chained, psw) ==
  Result(Fit(w, a + b), [SZP(w, a + b, psw) EXCEPT
    !.cy = a + b >= 2^w, !.v = OverflowAdd(w, a + b, a, b, 0), !.ac = (a % 16) + (b % 16) >= 16])

\* ADD and, chained, ADC: cpue_i_add8 and cpue_i_add16.
Add(w, a, b, chained, psw) ==
  LET c == CarryIn(chained, psw)
      res == a + b + c
  IN  Result(Fit(w, res), [SZP(w, res, psw) EXCEPT
        !.cy = res >= 2^w,
        !.v = OverflowAdd(w, res, a, b, c),
        !.ac = (a % 16) + (b % 16) + c >= 16])

\* Slip: the condition of the addition decides on the overflow.
SubOverflowAdd(w, a, b, chained, psw) ==
  LET c == CarryIn(chained, psw)
      res == a - b - c
  IN  Result(Fit(w, res), [SZP(w, res, psw) EXCEPT
        !.cy = res < 0, !.v = OverflowAdd(w, res, a, b, c), !.ac = (a % 16) - (b % 16) - c < 0])

\* Slip: the carry flag is that of the difference before the borrow.
SubBorrowLost(w, a, b, chained, psw) ==
  LET c == CarryIn(chained, psw)
      res == a - b - c
  IN  Result(Fit(w, res), [SZP(w, res, psw) EXCEPT
        !.cy = a < b, !.v = OverflowSub(w, res, a, b, c), !.ac = (a % 16) - (b % 16) - c < 0])

\* SUB, CMP and, chained, SBB: cpue_i_sub8 and cpue_i_sub16.
Sub(w, a, b, chained, psw) ==
  LET c == CarryIn(chained, psw)
      res == a - b - c
  IN  Result(Fit(w, res), [SZP(w, res, psw) EXCEPT
        !.cy = res < 0,
        !.v = OverflowSub(w, res, a, b, c),
        !.ac = (a % 16) - (b % 16) - c < 0])

\* Slip: the register does not wrap.
DecWide(w, a, psw) ==
  Result(a - 1, [SZP(w, a - 1, psw) EXCEPT !.v = (a = 2^(w - 1)), !.ac = (a % 16 = 0)])

\* INC and DEC leave the carry alone: cpue_i_inc8, _inc16, _dec8 and _dec16.
Inc(w, a, psw) ==
  Result(Fit(w, a + 1), [SZP(w, a + 1, psw) EXCEPT !.v = (a + 1 = 2^(w - 1)), !.ac = (a % 16 = 15)])

Dec(w, a, psw) ==
  Result(Fit(w, a - 1), [SZP(w, a - 1, psw) EXCEPT !.v = (a = 2^(w - 1)), !.ac = (a % 16 = 0)])

\* cpue_i_neg.
Neg(w, a, psw) ==
  Result(Fit(w, -a), [SZP(w, -a, psw) EXCEPT
    !.cy = (a # 0), !.v = (a = 2^(w - 1)), !.ac = (a % 16 # 0)])

-----------------------------------------------------------------------------

\* Whether the conditional jump is taken: opcodes 70h to 7Fh.
Jumps(psw) ==
  [jo |-> psw.v,                          jno |-> ~psw.v,
   jc |-> psw.cy,                         jnc |-> ~psw.cy,
   jz |-> psw.z,                          jnz |-> ~psw.z,
   jcz |-> psw.z \/ psw.cy,               jncz |-> ~(psw.z \/ psw.cy),
   js |-> psw.s,                          jns |-> ~psw.s,
   jp |-> psw.p,                          jnp |-> ~psw.p,
   jl |-> psw.s # psw.v /\ ~psw.z,        jnl |-> psw.s = psw.v \/ psw.z,
   jle |-> psw.s # psw.v \/ psw.z,        jnle |-> psw.s = psw.v /\ ~psw.z]

\* In the order of these opcodes.
Conditions == <<"jo", "jno", "jc", "jnc", "jz", "jnz", "jcz", "jncz",
                "js", "jns", "jp", "jnp", "jl", "jnl", "jle", "jnle">>
=============================================================================
