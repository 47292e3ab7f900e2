------------------------------ MODULE V30Shift ------------------------------
(***************************************************************************)
(* The logic, the shifts and rotations, the decimal adjustments and the    *)
(* multiplication and division of the V30MZ                                *)
(* (src/emu/cpu/new/exec.inc.c).  A shift is the set of the results it may *)
(* have: with the count 0 the source shifts by -1 to find the carry, which *)
(* C leaves undefined.                                                     *)
(***************************************************************************)
EXTENDS V30Arith

\* A word as the set of its bits that are 1, and back.
Bits(w, x) == {i \in 0..(w - 1) : Bit(x, i)}

Number(S) ==
  LET d(i) == IF i \in S THEN 2^i ELSE 0
  IN  d(0) + d(1) + d(2) + d(3) + d(4) + d(5) + d(6) + d(7)
        + d(8) + d(9) + d(10) + d(11) + d(12) + d(13) + d(14) + d(15)

BitAnd(w, a, b) == Number(Bits(w, a) \intersect Bits(w, b))
BitOr(w, a, b) == Number(Bits(w, a) \union Bits(w, b))
BitXor(w, a, b) == Number((Bits(w, a) \ Bits(w, b)) \union (Bits(w, b) \ Bits(w, a)))

\* Slip: only the flags that depend on the result are set.
LogicFlagsLeft(w, x, psw) == Result(x, SZP(w, x, psw))

\* AND, OR, XOR and TEST, of the result x.
Logic(w, x, psw) ==
  Result(x, SZP(w, x, [psw EXCEPT !.cy = FALSE, !.v = FALSE, !.ac = FALSE]))

\* The operation k of 0 to 7, as grp1 and the opcodes 00h to 3Fh number them.
Alu(k, w, a, b, psw) ==
  CASE k \in {0, 2} -> Add(w, a, b, k = 2, psw)
    [] k \in {3, 5, 7} -> Sub(w, a, b, k = 3, psw)
    [] k = 1 -> Logic(w, BitOr(w, a, b), psw)
    [] k = 4 -> Logic(w, BitAnd(w, a, b), psw)
    [] k = 6 -> Logic(w, BitXor(w, a, b), psw)

-----------------------------------------------------------------------------
(* cpue_i_grp2_8 and cpue_i_grp2_16: src1 is masked to 5 bits first.       *)

\* Bit w of a << n.
OutLeft(w, a, n) == n <= w /\ Bit(a, w - n)

\* Bit 0 of a >> (n - 1).
OutRight(a, n) == IF n = 0 THEN BOOLEAN ELSE {Bit(a, n - 1)}

\* a << n and a >> n.
Left(w, a, n) == IF n >= w THEN 0 ELSE Fit(w - n, a) * 2^n
Right(w, a, n) == IF n >= w THEN 0 ELSE a \div 2^n

\* V is set when the sign changes.
SignMoved(w, a, dst) == Negative(w, a) # Negative(w, dst)

Turn(w, a, left) == Fit(w, Left(w, a, left) + Right(w, a, w - left))

Rol(w, a, n, psw) ==
  LET dst == Turn(w, a, n % w)
  IN  {Result(dst, [psw EXCEPT !.cy = OutLeft(w, a, n), !.v = SignMoved(w, a, dst)])}

Ror(w, a, n, psw) ==
  LET dst == Turn(w, a, (-n) % w)
  IN  {Result(dst, [psw EXCEPT !.cy = cy, !.v = SignMoved(w, a, dst)]) : cy \in OutRight(a, n)}

\* The loops of RCL and RCR turn the operand and the carry by one bit.
RclOne(w, r) == [a |-> Fit(w, 2 * r.a + AsInt(r.cy)), cy |-> Negative(w, r.a)]

\* Slip: the carry turned out does not come in again.
RcrOneDrops(w, r) == [a |-> r.a \div 2, cy |-> Bit(r.a, 0)]

RcrOne(w, r) == [a |-> r.a \div 2 + (IF r.cy THEN 2^(w - 1) ELSE 0), cy |-> Bit(r.a, 0)]

\* They leave the operand and the carry in r.
Turned(w, a, r, psw) == {Result(r.a, [psw EXCEPT !.cy = r.cy, !.v = SignMoved(w, a, r.a)])}

Rcl(w, a, n, psw) ==
  LET turn[i \in 0..n] == IF i = 0 THEN [a |-> a, cy |-> psw.cy] ELSE RclOne(w, turn[i - 1])
  IN  Turned(w, a, turn[n], psw)

Rcr(w, a, n, psw) ==
  LET turn[i \in 0..n] == IF i = 0 THEN [a |-> a, cy |-> psw.cy] ELSE RcrOne(w, turn[i - 1])
  IN  Turned(w, a, turn[n], psw)

Shl(w, a, n, psw) ==
  LET dst == Left(w, a, n)
  IN  {Result(dst, [SZP(w, dst, psw) EXCEPT !.cy = OutLeft(w, a, n), !.v = SignMoved(w, a, dst)])}

Shr(w, a, n, psw) ==
  LET dst == Right(w, a, n)
  IN  {Result(dst, [SZP(w, dst, psw) EXCEPT !.cy = cy, !.v = SignMoved(w, a, dst)])
         : cy \in OutRight(a, n)}

Sal(w, a, n, psw) ==
  {Result(r.dst, [r.psw EXCEPT !.v = FALSE]) : r \in Shl(w, a, n, psw)}

\* A count of w or more leaves S, Z and P as they were.
Sar(w, a, n, psw) ==
  LET sign == IF Negative(w, a) THEN 2^w - 1 ELSE 0
      dst == Right(w, a, n) + (sign - Right(w, sign, n))
  IN  IF n >= w
      THEN {Result(sign, [psw EXCEPT !.cy = Negative(w, a), !.v = FALSE])}
      ELSE {Result(dst, [SZP(w, dst, psw) EXCEPT !.cy = cy, !.v = FALSE]) : cy \in OutRight(a, n)}

\* As grp2 numbers them from 0.
ShiftName == <<"rol", "ror", "rcl", "rcr", "shl", "shr", "sal", "sar">>

ShiftBy(op, w, a, n, psw) ==
  CASE op = "rol" -> Rol(w, a, n, psw) [] op = "ror" -> Ror(w, a, n, psw)
    [] op = "rcl" -> Rcl(w, a, n, psw) [] op = "rcr" -> Rcr(w, a, n, psw)
    [] op = "shl" -> Shl(w, a, n, psw) [] op = "shr" -> Shr(w, a, n, psw)
    [] op = "sal" -> Sal(w, a, n, psw) [] op = "sar" -> Sar(w, a, n, psw)

\* Slip: the count is not masked, as on the 8086.
ShiftUnmasked(op, w, a, count, psw) == ShiftBy(op, w, a, count, psw)

Shift(op, w, a, count, psw) == ShiftBy(op, w, a, count % 32, psw)

-----------------------------------------------------------------------------
(* The adjustments, on AW (al in its low byte).                            *)

Al(aw) == aw % 256
Ah(aw) == aw \div 256
Aw(ah, al) == 256 * Fit(8, ah) + Fit(8, al)

\* Slip: only the carry flag says that the high digit has overflowed.
DaaDasCarry(neg, aw, psw) ==
  LET lo == psw.ac \/ aw % 16 > 9
      off == (IF lo THEN 6 ELSE 0) + (IF psw.cy THEN 96 ELSE 0)
      al == Fit(8, IF neg THEN Al(aw) - off ELSE Al(aw) + off)
  IN  Result(Aw(Ah(aw), al), SZP(8, al, [psw EXCEPT !.ac = lo]))

\* cpue_i_daa_das.
DaaDas(neg, aw, psw) ==
  LET lo == psw.ac \/ aw % 16 > 9
      hi == psw.cy \/ Al(aw) > 153
      off == (IF lo THEN 6 ELSE 0) + (IF hi THEN 96 ELSE 0)
      al == Fit(8, IF neg THEN Al(aw) - off ELSE Al(aw) + off)
  IN  Result(Aw(Ah(aw), al), SZP(8, al, [psw EXCEPT !.ac = lo, !.cy = hi]))

\* cpue_i_aaa_aas.
AaaAas(neg, aw, psw) ==
  LET adjust == psw.ac \/ aw % 16 > 9
      n == IF ~adjust THEN 0 ELSE IF neg THEN -1 ELSE 1
  IN  Result(Aw(Ah(aw) + n, (Al(aw) + 6 * n) % 16), [psw EXCEPT !.ac = adjust, !.cy = adjust])

\* cpue_i_aam, of a base other than 0.
Aam(aw, base, psw) ==
  LET r == Aw(Al(aw) \div base, Al(aw) % base) IN Result(r, SZP(16, r, psw))

\* cpue_i_aad.
Aad(aw, base, psw) ==
  LET r == Aw(0, Al(aw) + Ah(aw) * base) IN Result(r, SZP(8, r, psw))

-----------------------------------------------------------------------------
(* cpue_i_grp3_8: MUL, IMUL, DIV and IDIV of AW by a byte.                 *)

Signed(w, x) == IF Negative(w, x) THEN x - 2^w ELSE x

\* C's quotient, which is rounded towards 0.
Quotient(x, y) ==
  LET Abs(i) == IF i < 0 THEN -i ELSE i
      q == Abs(x) \div Abs(y)
  IN  IF (x < 0) = (y < 0) THEN q ELSE -q

Product(aw, x, psw) ==
  LET r == Fit(16, x) IN Result(r, [psw EXCEPT !.cy = Ah(r) # 0, !.v = Ah(r) # 0])

Mul(aw, b, psw) == Product(aw, Al(aw) * b, psw)
Imul(aw, b, psw) == Product(aw, Signed(8, Al(aw)) * Signed(8, b), psw)

\* DIV and IDIV of x by y: no result if the quotient is not in `fits`.
Divide(x, y, fits, psw) ==
  IF y = 0 \/ Quotient(x, y) \notin fits THEN {}
  ELSE {Result(Aw(x - y * Quotient(x, y), Quotient(x, y)), psw)}

\* Slip: cpue_divbound8u lets a quotient of 100h pass.
DivOneMore(aw, b, psw) == Divide(aw, b, 0..256, psw)

Div(aw, b, psw) == Divide(aw, b, 0..255, psw)
Idiv(aw, b, psw) == Divide(Signed(16, aw), Signed(8, b), -127..127, psw)

-----------------------------------------------------------------------------
(* cpue_i_grp3_16: the same of DW:AW by a word, which is too large for a   *)
(* number of TLC and kept as a pair of words.                              *)

Wide(hi, lo, psw) ==
  [hi |-> hi, lo |-> lo, psw |-> [psw EXCEPT !.cy = (hi # 0), !.v = (hi # 0)]]

MulWord(a, b, psw) ==
  LET upper == Ah(a) * b + (Al(a) * b) \div 256
  IN  Wide(upper \div 256, Aw(upper, Al(a) * b), psw)

\* The product of two words with signs.
SignedProduct(a, b) == Signed(16, a) * Signed(16, b)

ImulWord(a, b, psw) ==
  LET x == SignedProduct(a, b) IN Wide(Fit(16, x \div 65536), Fit(16, x), psw)

\* cpue_i_imul.
ImulFit(a, b, psw) ==
  LET x == SignedProduct(a, b)
      lost == x # Signed(16, Fit(16, x))
  IN  Result(Fit(16, x), [psw EXCEPT !.cy = lost, !.v = lost])

\* Quotient (lo) and rest (hi) of hi:lo by y, unless the quotient exceeds a word.
DivWord(hi, lo, y, psw) ==
  LET upper == 256 * hi + Ah(lo)
      lower == 256 * (upper % y) + Al(lo)
  IN  IF hi >= y THEN {}
      ELSE {[hi |-> lower % y, lo |-> 256 * (upper \div y) + lower \div y, psw |-> psw]}

\* Of their amounts; the rest has the sign of the dividend.
IdivWord(hi, lo, y, psw) ==
  LET minus == Negative(16, hi)
      Sign(neg, x) == Fit(16, IF neg THEN -x ELSE x)
      amount == IF minus THEN <<65535 - hi + AsInt(lo = 0), Fit(16, -lo)>> ELSE <<hi, lo>>
  IN  {[r EXCEPT !.hi = Sign(minus, @), !.lo = Sign(minus # Negative(16, y), @)]
         : r \in {r \in DivWord(amount[1], amount[2], Sign(Negative(16, y), y), psw) : r.lo <= 32767}}

\* -80000000h by -1 is undefined in C, and stops the emulator on a host that traps.
Traps(hi, lo, y) == hi = 32768 /\ lo = 0 /\ y = 65535
=============================================================================
