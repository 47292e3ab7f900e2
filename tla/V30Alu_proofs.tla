---------------------------- MODULE V30Alu_proofs ----------------------------
(***************************************************************************)
(* Proofs about arithmetic, logic and shifts of the V30MZ, for every word  *)
(* and every count the idioms can start from.                              *)
(*                                                                         *)
(* An idiom gives its result with its last instruction, and a property     *)
(* speaks of that moment.  What the earlier instructions have left for it  *)
(* is the invariant: the registers of the start (Started), a low byte with *)
(* its carry or borrow (LowDone, HalfShifted), digits before they are      *)
(* adjusted (DigitsDone), a quotient or a product (QuotientDone), and an   *)
(* operand rotated one way (Rotated).                                      *)
(*                                                                         *)
(* Words are taken apart into bytes, digits or single bits, and what is    *)
(* left is linear arithmetic.  RCL and RCR rotate in a loop: its rounds    *)
(* are counted by induction over a set of numbers (SetInduction).          *)
(***************************************************************************)
EXTENDS V30Alu, TLAPS, WellFoundedInduction

-----------------------------------------------------------------------------
(* Bytes, words and their flags.                                           *)

LEMMA Ranges ==
  /\ \A x : x \in Operand(8) <=> x \in Int /\ 0 <= x /\ x < 256
  /\ \A x : x \in Operand(16) <=> x \in Int /\ 0 <= x /\ x < 65536
<1>5. \A x : x \in Operand(8) <=> x \in Int /\ 0 <= x /\ x < 256
  BY DEF Operand
<1>6. \A x : x \in Operand(16) <=> x \in Int /\ 0 <= x /\ x < 65536
  BY DEF Operand
<1> QED BY <1>5, <1>6

LEMMA Byte ==
  ASSUME NEW x \in Int
  PROVE  /\ Fit(8, x) \in Operand(8)
         /\ 0 <= x /\ x < 256 => Fit(8, x) = x /\ (Negative(8, x) <=> x >= 128)
         /\ -256 <= x /\ x < 0 => Fit(8, x) = x + 256
         /\ 256 <= x /\ x < 512 => Fit(8, x) = x - 256
<1>1. Fit(8, x) = x % 256
  BY DEF Fit
<1>2. Negative(8, x) <=> (x \div 128) % 2 = 1
  BY DEF Negative, Bit
<1> QED BY <1>1, <1>2, Ranges

LEMMA SignedByte ==
  ASSUME NEW x \in Operand(8)
  PROVE  /\ x >= 128 => Signed(8, x) = x - 256
         /\ x < 128 => Signed(8, x) = x
BY Byte, Ranges DEF Signed

LEMMA HighByte ==
  ASSUME NEW x \in Int
  PROVE  High(8, x) = Fit(8, x)
BY DEF High, Fit

\* A borrow overflows as V says, except into a subtrahend of 7Fh.
LEMMA Borrows8 ==
  ASSUME NEW a \in Operand(8), NEW b \in Operand(8), NEW c \in {0, 1},
         NEW d, d = a - b - c, NEW e, e = Signed(8, a) - Signed(8, b) - c
  PROVE  ~(OverflowSub(8, d, a, b, c) <=> (c = 1 /\ b = 127)) <=> e < -128 \/ e > 127
<1>1. a \in Int /\ b \in Int /\ c \in Int /\ 0 <= a /\ a < 256 /\ 0 <= b /\ b < 256 /\ 0 <= c /\ c <= 1
      /\ d \in Int
  BY Ranges
<1>2. High(8, a) = a /\ High(8, b) = b /\ High(8, d) = Fit(8, d)
  BY <1>1, HighByte, Byte
<1> DEFINE r == Fit(8, d)
           bc == Fit(8, b + c)
           sa == Signed(8, a)
           sb == Signed(8, b)
<1>3. /\ r \in Operand(8) /\ bc \in Operand(8)
      /\ d < 0 => r = d + 256
      /\ d >= 0 => r = d
      /\ b + c = 256 => bc = 0
      /\ b + c < 256 => bc = b + c
  BY <1>1, Byte
<1>4. OverflowSub(8, d, a, b, c)
         <=> ~(Negative(8, a) <=> Negative(8, bc)) /\ ~(Negative(8, a) <=> Negative(8, r))
  BY <1>2 DEF OverflowSub, Negative, Bit
<1>5. /\ Negative(8, a) <=> a >= 128
      /\ Negative(8, bc) <=> bc >= 128
      /\ Negative(8, r) <=> r >= 128
  BY <1>1, <1>3, Byte, Ranges
<1>6. /\ sa = IF a >= 128 THEN a - 256 ELSE a
      /\ sb = IF b >= 128 THEN b - 256 ELSE b
  BY <1>1, SignedByte
<1> HIDE DEF r, bc, sa, sb
<1> QED BY <1>1, <1>3, <1>4, <1>5, <1>6, Ranges DEF sa, sb

LEMMA FlagsOfResult ==
  ASSUME NEW w, NEW x, NEW p \in Psw
  PROVE  LET q == SZP(w, x, p)
         IN  /\ q \in Psw
             /\ q.cy = p.cy /\ q.v = p.v /\ q.ac = p.ac
             /\ q.s <=> Negative(w, x)
             /\ q.z <=> Fit(w, x) = 0
<1> DEFINE s == Negative(w, x)
           z == Fit(w, x) = 0
           pa == Parity(x)
           q == SZP(w, x, p)
<1>1. s \in BOOLEAN /\ z \in BOOLEAN /\ pa \in BOOLEAN
  BY DEF Negative, Bit, Parity
<1>2. q = [p EXCEPT !.s = s, !.z = z, !.p = pa]
  BY DEF SZP
<1> HIDE DEF s, z, pa, q
<1>3. q \in Psw /\ q.s = s /\ q.z = z /\ q.cy = p.cy /\ q.v = p.v /\ q.ac = p.ac
  BY <1>1, <1>2 DEF Psw
<1> QED BY <1>3 DEF s, z, q

\* SUB, SBB and CMP.
LEMMA SubIs ==
  ASSUME NEW w, NEW a, NEW b, NEW chained \in BOOLEAN, NEW p \in Psw,
         NEW c, c = CarryIn(chained, p), NEW r, r = Sub(w, a, b, chained, p)
  PROVE  /\ c \in {0, 1} /\ (c = 1 <=> chained /\ p.cy)
         /\ r.psw \in Psw /\ r.dst = Fit(w, a - b - c)
         /\ r.psw.cy <=> a - b - c < 0
         /\ r.psw.ac <=> (a % 16) - (b % 16) - c < 0
         /\ r.psw.z <=> r.dst = 0
         /\ r.psw.s <=> Negative(w, a - b - c)
         /\ r.psw.v <=> OverflowSub(w, a - b - c, a, b, c)
<1> DEFINE res == a - b - c
           o == SZP(w, res, p)
           out == res < 0
           over == OverflowSub(w, res, a, b, c)
           half == (a % 16) - (b % 16) - c < 0
<1>1. c \in {0, 1} /\ (c = 1 <=> chained /\ p.cy)
  BY DEF CarryIn, AsInt, Psw
<1>2. out \in BOOLEAN /\ over \in BOOLEAN /\ half \in BOOLEAN
  BY DEF OverflowSub
<1>3. r.dst = Fit(w, res) /\ r.psw = [o EXCEPT !.cy = out, !.v = over, !.ac = half]
  BY DEF Sub, Result
<1>4. o \in Psw /\ (o.s <=> Negative(w, res)) /\ (o.z <=> Fit(w, res) = 0)
  BY FlagsOfResult
<1> HIDE DEF res, out, over, half, o
<1>5. /\ r.psw \in Psw
      /\ r.psw.cy = out /\ r.psw.v = over /\ r.psw.ac = half /\ r.psw.s = o.s /\ r.psw.z = o.z
  BY <1>2, <1>3, <1>4 DEF Psw
<1> QED BY <1>1, <1>3, <1>4, <1>5 DEF res, out, over, half

\* What the conditional jumps test.
LEMMA JumpFlags ==
  ASSUME NEW p \in Psw
  PROVE  LET j == Jumps(p)
         IN  /\ j.jo = p.v /\ j.jc = p.cy /\ j.jnc = ~p.cy /\ j.jz = p.z /\ j.jnz = ~p.z
             /\ j.jcz = (p.z \/ p.cy) /\ j.jncz = ~(p.z \/ p.cy)
             /\ j.jl = (p.s # p.v /\ ~p.z) /\ j.jnl = (p.s = p.v \/ p.z)
             /\ j.jle = (p.s # p.v \/ p.z) /\ j.jnle = (p.s = p.v /\ ~p.z)
BY DEF Jumps, Psw

LEMMA WordParts ==
  ASSUME NEW x \in Operand(16)
  PROVE  /\ Al(x) \in Operand(8) /\ Ah(x) \in Operand(8)
         /\ x = 256 * Ah(x) + Al(x)
BY Ranges DEF Al, Ah

LEMMA WordOf ==
  ASSUME NEW h \in Int, NEW l \in Int
  PROVE  /\ Aw(h, l) \in Operand(16)
         /\ Al(Aw(h, l)) = Fit(8, l) /\ Ah(Aw(h, l)) = Fit(8, h)
         /\ Aw(h, l) = 256 * Fit(8, h) + Fit(8, l)
<1> DEFINE fh == Fit(8, h)
           fl == Fit(8, l)
<1>1. fh \in Int /\ fl \in Int /\ 0 <= fh /\ fh < 256 /\ 0 <= fl /\ fl < 256
  BY Byte, Ranges
<1>2. Aw(h, l) = 256 * fh + fl
  BY DEF Aw
<1> HIDE DEF fh, fl
<1>3. (256 * fh + fl) % 256 = fl /\ (256 * fh + fl) \div 256 = fh
  BY <1>1
<1> QED BY <1>1, <1>2, <1>3, Ranges DEF Al, Ah, fh, fl

LEMMA Whole ==
  ASSUME NEW x \in Int
  PROVE  /\ Fit(16, x) \in Operand(16)
         /\ 0 <= x /\ x < 65536 => Fit(16, x) = x
         /\ -65536 <= x /\ x < 0 => Fit(16, x) = x + 65536
         /\ 65536 <= x /\ x < 131072 => Fit(16, x) = x - 65536
         /\ 0 <= x /\ x < 65536 => (Negative(16, x) <=> x >= 32768)
         /\ -65536 <= x /\ x < 0 => (Negative(16, x) <=> x >= -32768)
<1>1. Fit(16, x) = x % 65536
  BY DEF Fit
<1>2. Negative(16, x) <=> (x \div 32768) % 2 = 1
  BY DEF Negative, Bit
<1>3. 0 <= x /\ x < 65536 => (Negative(16, x) <=> x >= 32768)
  <2>1. ASSUME 0 <= x, x < 32768 PROVE x \div 32768 = 0
    BY <2>1
  <2>2. ASSUME 32768 <= x, x < 65536 PROVE x \div 32768 = 1
    BY <2>2
  <2> QED BY <1>2, <2>1, <2>2
<1>4. -65536 <= x /\ x < 0 => (Negative(16, x) <=> x >= -32768)
  <2>1. ASSUME -32768 <= x, x < 0 PROVE x \div 32768 = -1
    BY <2>1
  <2>2. ASSUME -65536 <= x, x < -32768 PROVE x \div 32768 = -2
    BY <2>2
  <2> QED BY <1>2, <2>1, <2>2
<1> QED BY <1>1, <1>3, <1>4, Ranges

LEMMA SignedWord ==
  ASSUME NEW x \in Operand(16)
  PROVE  /\ x >= 32768 => Signed(16, x) = x - 65536
         /\ x < 32768 => Signed(16, x) = x
BY Whole, Ranges DEF Signed

\* The sign of a word is that of its high byte.
LEMMA HighSign ==
  ASSUME NEW x \in Int
  PROVE  Negative(8, High(16, x)) <=> Negative(16, x)
<1>1. High(16, x) = (x \div 256) % 256
  BY DEF High, Fit
<1>2. Negative(8, High(16, x)) <=> (((x \div 256) % 256) \div 128) % 2 = 1
  BY <1>1 DEF Negative, Bit
<1>3. Negative(16, x) <=> (x \div 32768) % 2 = 1
  BY DEF Negative, Bit
<1> DEFINE y == x \div 256
<1>4. y \in Int /\ x \div 32768 = y \div 128
  OBVIOUS
<1> HIDE DEF y
<1>5. ((y % 256) \div 128) % 2 = (y \div 128) % 2
  BY <1>4
<1> QED BY <1>2, <1>3, <1>4, <1>5 DEF y

LEMMA Borrows16 ==
  ASSUME NEW a \in Operand(16), NEW b \in Operand(16), NEW c, c = 0
  PROVE  OverflowSub(16, a - b - c, a, b, c)
            <=> \/ Signed(16, a) - Signed(16, b) < -32768
                \/ Signed(16, a) - Signed(16, b) > 32767
<1> DEFINE sa == Signed(16, a)
           sb == Signed(16, b)
           hb == High(16, b)
           res == a - b - c
<1>1. a \in Int /\ b \in Int /\ 0 <= a /\ a < 65536 /\ 0 <= b /\ b < 65536 /\ res \in Int /\ res = a - b
  BY Ranges
<1>2. Fit(8, hb + c) = hb
  <2>1. hb = (b \div 256) % 256
    BY DEF High, Fit
  <2> HIDE DEF hb
  <2>2. hb \in Int /\ 0 <= hb /\ hb < 256
    BY <1>1, <2>1
  <2> QED BY <2>2, Byte
<1>3. OverflowSub(16, res, a, b, c)
         <=> ~(Negative(16, a) <=> Negative(16, b)) /\ ~(Negative(16, a) <=> Negative(16, res))
  <2>1. /\ Negative(8, High(16, a)) <=> Negative(16, a)
        /\ Negative(8, High(16, b)) <=> Negative(16, b)
        /\ Negative(8, High(16, res)) <=> Negative(16, res)
    BY <1>1, HighSign
  <2>2. OverflowSub(16, res, a, b, c)
           <=> ~(Negative(8, High(16, a)) <=> Negative(8, hb))
                 /\ ~(Negative(8, High(16, a)) <=> Negative(8, High(16, res)))
    BY <1>2 DEF OverflowSub, Negative, Bit
  <2> QED BY <2>1, <2>2
<1>4. /\ Negative(16, a) <=> a >= 32768
      /\ Negative(16, b) <=> b >= 32768
      /\ res >= 0 => (Negative(16, res) <=> res >= 32768)
      /\ res < 0 => (Negative(16, res) <=> res >= -32768)
  BY <1>1, Whole
<1>5. /\ sa = IF a >= 32768 THEN a - 65536 ELSE a
      /\ sb = IF b >= 32768 THEN b - 65536 ELSE b
  BY <1>1, SignedWord
<1> HIDE DEF sa, sb, hb, res
<1> QED BY <1>1, <1>3, <1>4, <1>5 DEF sa, sb, res

\* So does a carry, except into an addend of 7Fh.
LEMMA Carries8 ==
  ASSUME NEW a \in Operand(8), NEW b \in Operand(8), NEW c \in {0, 1}
  PROVE  (~(OverflowAdd(8, a + b + c, a, b, c) <=> (c = 1 /\ b = 127)))
            <=> (Signed(8, a) + Signed(8, b) + c \notin -128..127)
<1>1. a \in Int /\ b \in Int /\ c \in Int /\ 0 <= a /\ a < 256 /\ 0 <= b /\ b < 256 /\ 0 <= c /\ c <= 1
  BY Ranges
<1>2. High(8, a) = a /\ High(8, b) = b /\ High(8, a + b + c) = Fit(8, a + b + c)
  BY <1>1, HighByte, Byte
<1> DEFINE r == Fit(8, a + b + c)
           bc == Fit(8, b + c)
           sa == Signed(8, a)
           sb == Signed(8, b)
<1>3. /\ r \in Operand(8) /\ bc \in Operand(8)
      /\ a + b + c > 255 => r = a + b + c - 256
      /\ a + b + c < 256 => r = a + b + c
      /\ b + c = 256 => bc = 0
      /\ b + c < 256 => bc = b + c
  BY <1>1, Byte
<1>4. OverflowAdd(8, a + b + c, a, b, c)
         <=> ~(Negative(8, r) <=> Negative(8, a)) /\ ~(Negative(8, r) <=> Negative(8, bc))
  BY <1>2 DEF OverflowAdd, Negative, Bit
<1>5. /\ Negative(8, a) <=> a >= 128
      /\ Negative(8, bc) <=> bc >= 128
      /\ Negative(8, r) <=> r >= 128
  BY <1>1, <1>3, Byte, Ranges
<1>6. /\ sa = IF a >= 128 THEN a - 256 ELSE a
      /\ sb = IF b >= 128 THEN b - 256 ELSE b
  BY <1>1, SignedByte
<1> HIDE DEF r, bc, sa, sb
<1>7. (sa + sb + c \notin -128..127) <=> (sa + sb + c < -128 \/ sa + sb + c > 127)
  BY <1>1, <1>6
<1> QED BY <1>1, <1>3, <1>4, <1>5, <1>6, <1>7, Ranges DEF sa, sb

\* ADD and ADC.
LEMMA AddIs ==
  ASSUME NEW w, NEW a, NEW b, NEW chained \in BOOLEAN, NEW p \in Psw,
         NEW c, c = CarryIn(chained, p), NEW r, r = Add(w, a, b, chained, p)
  PROVE  /\ c \in {0, 1} /\ (c = 1 <=> chained /\ p.cy)
         /\ r.psw \in Psw /\ r.dst = Fit(w, a + b + c)
         /\ w = 8 => (r.psw.cy <=> a + b + c >= 256)
         /\ r.psw.ac <=> (a % 16) + (b % 16) + c >= 16
         /\ r.psw.z <=> r.dst = 0
         /\ r.psw.s <=> Negative(w, a + b + c)
         /\ r.psw.v <=> OverflowAdd(w, a + b + c, a, b, c)
<1> DEFINE res == a + b + c
           o == SZP(w, res, p)
           out == res >= 2^w
           over == OverflowAdd(w, res, a, b, c)
           half == (a % 16) + (b % 16) + c >= 16
<1>1. c \in {0, 1} /\ (c = 1 <=> chained /\ p.cy)
  BY DEF CarryIn, AsInt, Psw
<1>2. out \in BOOLEAN /\ over \in BOOLEAN /\ half \in BOOLEAN
  BY DEF OverflowAdd
<1>3. r.dst = Fit(w, res) /\ r.psw = [o EXCEPT !.cy = out, !.v = over, !.ac = half]
  BY DEF Add, Result
<1>4. o \in Psw /\ (o.s <=> Negative(w, res)) /\ (o.z <=> Fit(w, res) = 0)
  BY FlagsOfResult
<1>6. w = 8 => (out <=> res >= 256)
  OBVIOUS
<1> HIDE DEF res, out, over, half, o
<1>5. /\ r.psw \in Psw
      /\ r.psw.cy = out /\ r.psw.v = over /\ r.psw.ac = half /\ r.psw.s = o.s /\ r.psw.z = o.z
  BY <1>2, <1>3, <1>4 DEF Psw
<1>7. w = 8 => (r.psw.cy <=> res >= 256)
  BY <1>2, <1>5, <1>6
<1>8. /\ r.psw.ac <=> half
      /\ r.psw.z <=> r.dst = 0
      /\ r.psw.s <=> Negative(w, res)
      /\ r.psw.v <=> over
  BY <1>2, <1>3, <1>4, <1>5
<1> QED BY <1>1, <1>3, <1>5, <1>7, <1>8 DEF res, over, half

-----------------------------------------------------------------------------
(* The instructions of the idioms.                                         *)

Arithmetic == {"add", "adc", "sub", "sbb", "cmp", "neg"}
Stepping == {"inc", "dec"}
Adjusting == {"daa", "das", "aaa", "aas"}
Products == {"aad", "mul", "imul"}
Dividing == {"aam", "div", "idiv"}
OnWord == Adjusting \union Products \union Dividing

WellFormed(i) ==
  /\ i.op \in Arithmetic \union Stepping \union Tests \union Shiftings \union OnWord
  /\ i.by \in {"bw", "cl", "one", "zero"}
  /\ i.on \in Parts \union {"cw"}
  /\ i.on = "cw" => i.op \in Stepping
  /\ i.op \in OnWord => i.on = "aw"

\* An idiom has one to three instructions, on operands they can have.
LEMMA WellFormedIdioms ==
  ASSUME NEW seq \in Idioms
  PROVE  /\ Len(seq) \in 1..3
         /\ \A k \in 1..Len(seq) : WellFormed(seq[k])
<1> USE DEF I
<1>a. \A i1 : LET q == <<i1>> IN Len(q) = 1 /\ q[1] = i1
  OBVIOUS
<1>b. \A i1, i2 : LET q == <<i1, i2>> IN Len(q) = 2 /\ q[1] = i1 /\ q[2] = i2
  OBVIOUS
<1>c. \A i1, i2, i3 : LET q == <<i1, i2, i3>> IN Len(q) = 3 /\ q[1] = i1 /\ q[2] = i2 /\ q[3] = i3
  OBVIOUS
<1>d. \A k : (k \in 1..1 <=> k = 1) /\ (k \in 1..2 <=> k = 1 \/ k = 2)
                /\ (k \in 1..3 <=> k = 1 \/ k = 2 \/ k = 3)
  OBVIOUS
<1> USE <1>a, <1>b, <1>c, <1>d DEF WellFormed, Arithmetic, Stepping, OnWord, Adjusting, Products, Dividing
<1>1. CASE seq \in {AddBytes, SubBytes, NegBytes}
  BY <1>1 DEF AddBytes, SubBytes, NegBytes, Parts
<1>2. CASE seq \in {CmpBytes, ShlBytes, ShrBytes, SarBytes}
  BY <1>2 DEF CmpBytes, ShlBytes, ShrBytes, SarBytes, Parts, Shiftings
<1>3. CASE seq \in {Digits, MulBack, ImulBack}
  BY <1>3 DEF Digits, MulBack, ImulBack, Parts
<1>4. CASE seq \in {Cmp(on) : on \in Parts} \union {Test(op, on) : op \in Tests, on \in Parts}
  BY <1>4 DEF Cmp, Test, Parts, Tests
<1>5. CASE seq \in {RotateBack(r[1], r[2], on) : r \in Rotations, on \in Parts}
  <2>1. PICK r \in Rotations, on \in Parts : seq = RotateBack(r[1], r[2], on)
    BY <1>5
  <2>2. r[1] \in Shiftings /\ r[2] \in Shiftings
    BY DEF Rotations, Shiftings
  <2> QED BY <2>1, <2>2 DEF RotateBack, Parts, Shiftings
<1>6. CASE seq \in {ShiftByCl(op, on) : op \in Shiftings, on \in Parts}
  BY <1>6 DEF ShiftByCl, Parts, Shiftings
<1>7. CASE seq \in {Decimal(a[1], a[2]) : a \in Adjusts} \union {DivBy(op) : op \in {"div", "idiv"}}
  <2>1. CASE seq \in {Decimal(a[1], a[2]) : a \in Adjusts}
    <3>1. PICK a \in Adjusts : seq = Decimal(a[1], a[2])
      BY <2>1
    <3>2. a[1] \in Arithmetic /\ a[2] \in Adjusting
      BY DEF Adjusts
    <3> QED BY <3>1, <3>2 DEF Decimal, Parts
  <2> QED BY <1>7, <2>1 DEF DivBy, Parts
<1> QED BY <1>1, <1>2, <1>3, <1>4, <1>5, <1>6, <1>7 DEF Idioms

LEMMA PowerOfTwo ==
  ASSUME NEW n \in 0..16
  PROVE  /\ 2^n \in Int /\ 1 <= 2^n /\ 2^n <= 65536
         /\ n < 16 => 2^(n + 1) = 2 * 2^n
<1> DEFINE Good(m) == /\ 2^m \in Int /\ 1 <= 2^m /\ 2^m <= 65536
                      /\ m < 16 => 2^(m + 1) = 2 * 2^m
<1>1. Good(0) /\ Good(1) /\ Good(2) /\ Good(3) /\ Good(4) /\ Good(5) /\ Good(6) /\ Good(7) /\ Good(8) /\ Good(9) /\ Good(10) /\ Good(11) /\ Good(12) /\ Good(13) /\ Good(14) /\ Good(15) /\ Good(16)
  OBVIOUS
<1>2. n = 0 \/ n = 1 \/ n = 2 \/ n = 3 \/ n = 4 \/ n = 5 \/ n = 6 \/ n = 7 \/ n = 8 \/ n = 9 \/ n = 10 \/ n = 11 \/ n = 12 \/ n = 13 \/ n = 14 \/ n = 15 \/ n = 16
  OBVIOUS
<1> HIDE DEF Good
<1>3. Good(n)
  BY <1>1, <1>2
<1> QED BY <1>3 DEF Good

LEMMA Widening ==
  /\ \A x \in Operand(8) : x \in Operand(16)
  /\ \A x \in Operand(8) : x \in Int
  /\ \A x \in Operand(16) : x \in Int
BY Ranges

\* Writing a part of AW leaves the other one.
LEMMA Parted ==
  ASSUME NEW x \in Operand(16), NEW on \in Parts, NEW y \in Operand(Width(on))
  PROVE  /\ With(on, x, y) \in Operand(16)
         /\ Part(on, With(on, x, y)) = y
         /\ on = "al" => Al(With(on, x, y)) = y /\ Ah(With(on, x, y)) = Ah(x)
         /\ on = "ah" => Ah(With(on, x, y)) = y /\ Al(With(on, x, y)) = Al(x)
<1>1. Al(x) \in Operand(8) /\ Ah(x) \in Operand(8)
  BY WordParts
<1>2. CASE on \in {"al", "ah"}
  <2>1. y \in Operand(8)
    BY <1>2 DEF Width
  <2>2. Fit(8, y) = y /\ Fit(8, Al(x)) = Al(x) /\ Fit(8, Ah(x)) = Ah(x)
        /\ y \in Int /\ Ah(x) \in Int /\ Al(x) \in Int
    BY <1>1, <2>1, Byte, Ranges
  <2>3. CASE on = "al"
    <3>1. With(on, x, y) = Aw(Ah(x), y)
      BY <2>3 DEF With
    <3>2. Aw(Ah(x), y) \in Operand(16) /\ Al(Aw(Ah(x), y)) = y /\ Ah(Aw(Ah(x), y)) = Ah(x)
      BY <2>2, WordOf
    <3> QED BY <2>3, <3>1, <3>2 DEF Part
  <2>4. CASE on = "ah"
    <3>1. With(on, x, y) = Aw(y, Al(x))
      BY <2>4 DEF With
    <3>2. Aw(y, Al(x)) \in Operand(16) /\ Al(Aw(y, Al(x))) = Al(x) /\ Ah(Aw(y, Al(x))) = y
      BY <2>2, WordOf
    <3> QED BY <2>4, <3>1, <3>2 DEF Part
  <2> QED BY <1>2, <2>3, <2>4
<1>3. CASE on = "aw"
  BY <1>3 DEF With, Part, Width
<1> QED BY <1>2, <1>3 DEF Parts

LEMMA PartIn ==
  ASSUME NEW x \in Operand(16), NEW on \in Parts
  PROVE  /\ Part(on, x) \in Operand(Width(on))
         /\ With(on, x, Part(on, x)) = x
<1>1. Al(x) \in Operand(8) /\ Ah(x) \in Operand(8) /\ x = 256 * Ah(x) + Al(x)
  BY WordParts
<1>2. Fit(8, Al(x)) = Al(x) /\ Fit(8, Ah(x)) = Ah(x)
  BY <1>1, Byte, Ranges
<1>3. Aw(Ah(x), Al(x)) = x
  BY <1>1, <1>2 DEF Aw
<1> QED BY <1>1, <1>3 DEF With, Part, Width, Parts

LEMMA WidthOf == \A on : Width(on) \in Widths /\ (Width(on) = 16 \/ Width(on) = 8)
BY DEF Width, Widths

LEMMA Fits ==
  ASSUME NEW w \in Widths, NEW x \in Int
  PROVE  Fit(w, x) \in Operand(w)
<1>1. CASE w = 8
  BY <1>1, Byte
<1>2. CASE w = 16
  BY <1>2, Whole
<1> QED BY <1>1, <1>2 DEF Widths

\* What a step does, by instruction.
LEMMA Acts ==
  ASSUME Next
  PROVE  /\ Running /\ idiom' = idiom /\ bw' = bw /\ from' = from
         /\ Insn.op \in {"add", "adc"} => Set(Add(W, Dst, Src, Insn.op = "adc", psw))
         /\ Insn.op \in {"sub", "sbb"} => Set(Sub(W, Dst, Src, Insn.op = "sbb", psw))
         /\ Insn.op = "cmp" => Set(Result(Dst, Sub(W, Dst, Src, FALSE, psw).psw))
         /\ Insn.op \in Stepping => ExecIncDec
         /\ Insn.op = "neg" => Set(Neg(W, Dst, psw))
         /\ Insn.op \in {"and", "or", "xor"} => ExecLogic
         /\ Insn.op = "test" => Set(Result(Dst, Logic(W, BitAnd(W, Dst, Src), psw).psw))
         /\ Insn.op \in Shiftings => \E r \in Shift(Insn.op, W, Dst, Src, psw) : Set(r)
         /\ Insn.op \in Adjusting => ExecAdjust
         /\ Insn.op = "aad" => Set(Aad(aw, Al(Src), psw))
         /\ Insn.op = "mul" => Set(Mul(aw, Al(Src), psw))
         /\ Insn.op = "imul" => Set(Imul(aw, Al(Src), psw))
         /\ Insn.op \in Dividing => ExecDiv \/ DivFault
         /\ Insn.op \notin Dividing => pc' = pc + 1 /\ faulted' = faulted
BY DEF Next, ExecAdd, ExecSub, ExecCmp, ExecIncDec, ExecNeg, ExecLogic, ExecTest, ExecShift,
  ExecAdjust, ExecAad, ExecMul, ExecDiv, DivFault, Set, Stepping, Shiftings, Adjusting, Dividing

Fine(w, r) == r.dst \in Operand(w) /\ r.psw \in Psw

\* The bits of an operand make an operand.
LEMMA NumberIn ==
  ASSUME NEW w \in Widths, NEW S \in SUBSET (0..(w - 1))
  PROVE  Number(S) \in Operand(w)
<1> DEFINE d(i) == IF i \in S THEN 2^i ELSE 0
           n == d(0) + d(1) + d(2) + d(3) + d(4) + d(5) + d(6) + d(7)
                  + d(8) + d(9) + d(10) + d(11) + d(12) + d(13) + d(14) + d(15)
<1>1. n = Number(S)
  BY DEF Number
<1>2. n \in Int /\ 0 <= n /\ n < 65536
  OBVIOUS
<1>3. ASSUME w = 8 PROVE n < 256
  <2>1. \A i : i \in {8, 9, 10, 11, 12, 13, 14, 15} => i \notin S
    BY <1>3
  <2> QED BY <2>1
<1> HIDE DEF n
<1>4. CASE w = 8
  BY <1>1, <1>2, <1>3, <1>4, Ranges
<1>5. CASE w = 16
  BY <1>1, <1>2, <1>5, Ranges
<1> QED BY <1>4, <1>5 DEF Widths

\* AND, OR, XOR and TEST.
LEMMA LogicIs ==
  ASSUME NEW w, NEW x, NEW p \in Psw, NEW r, r = Logic(w, x, p)
  PROVE  /\ r.dst = x /\ r.psw \in Psw /\ ~r.psw.cy /\ ~r.psw.v
         /\ r.psw.z <=> Fit(w, x) = 0
         /\ r.psw.s <=> Negative(w, x)
<1> DEFINE cleared == [p EXCEPT !.cy = FALSE, !.v = FALSE, !.ac = FALSE]
<1>1. r.dst = x /\ r.psw = SZP(w, x, cleared)
  BY DEF Logic, Result
<1>2. cleared \in Psw /\ ~cleared.cy /\ ~cleared.v
  BY DEF Psw
<1> HIDE DEF cleared
<1> QED BY <1>1, <1>2, FlagsOfResult

\* INC and DEC leave the carry.
LEMMA StepIs ==
  ASSUME NEW a \in Operand(16), NEW p \in Psw, NEW up \in BOOLEAN,
         NEW r, r = IF up THEN Inc(16, a, p) ELSE Dec(16, a, p)
  PROVE  Fine(16, r) /\ (r.psw.cy <=> p.cy)
<1> DEFINE next == IF up THEN a + 1 ELSE a - 1
           o == SZP(16, next, p)
           over == IF up THEN a + 1 = 2^(16 - 1) ELSE a = 2^(16 - 1)
           half == IF up THEN a % 16 = 15 ELSE a % 16 = 0
<1>1. r.dst = Fit(16, next) /\ r.psw = [o EXCEPT !.v = over, !.ac = half]
  <2>1. CASE up
    BY <2>1 DEF Inc, Result
  <2>2. CASE ~up
    BY <2>2 DEF Dec, Result
  <2> QED BY <2>1, <2>2
<1>2. o \in Psw /\ o.cy = p.cy
  BY FlagsOfResult
<1>3. over \in BOOLEAN /\ half \in BOOLEAN
  OBVIOUS
<1>4. next \in Int
  BY Widening
<1> HIDE DEF next, o, over, half
<1>5. r.psw \in Psw /\ r.psw.cy = p.cy
  BY <1>1, <1>2, <1>3 DEF Psw
<1> QED BY <1>1, <1>4, <1>5, Whole DEF Fine

\* NEG.
LEMMA NegIs ==
  ASSUME NEW w, NEW a, NEW p \in Psw, NEW r, r = Neg(w, a, p)
  PROVE  r.dst = Fit(w, -a) /\ r.psw \in Psw /\ (r.psw.cy <=> a # 0)
<1> DEFINE o == SZP(w, -a, p)
           out == a # 0
           over == a = 2^(w - 1)
           half == a % 16 # 0
<1>1. r.dst = Fit(w, -a) /\ r.psw = [o EXCEPT !.cy = out, !.v = over, !.ac = half]
  BY DEF Neg, Result
<1>2. o \in Psw
  BY FlagsOfResult
<1>3. out \in BOOLEAN /\ over \in BOOLEAN /\ half \in BOOLEAN
  OBVIOUS
<1> HIDE DEF o, out, over, half
<1>4. r.psw \in Psw /\ r.psw.cy = out
  BY <1>1, <1>2, <1>3 DEF Psw
<1> QED BY <1>1, <1>4 DEF out

-----------------------------------------------------------------------------
(* Shifts and rotations.                                                   *)

LEMMA ShiftedRange ==
  ASSUME NEW w \in Widths, NEW a \in Operand(w), NEW n \in 0..31
  PROVE  Left(w, a, n) \in Operand(w) /\ Right(w, a, n) \in Operand(w)
<1>1. CASE w = 8
  <2> DEFINE L(m) == LET l == Fit(8 - m, a) * 2^m IN l \in Int /\ 0 <= l /\ l < 256
             R(m) == LET h == a \div 2^m IN h \in Int /\ 0 <= h /\ h < 256
  <2>1. a \in Int /\ 0 <= a /\ a < 256
    BY <1>1, Ranges
  <2>2. /\ L(0) /\ L(1) /\ L(2) /\ L(3) /\ L(4) /\ L(5) /\ L(6) /\ L(7)
    BY <2>1 DEF Fit
  <2>3. /\ R(0) /\ R(1) /\ R(2) /\ R(3) /\ R(4) /\ R(5) /\ R(6) /\ R(7)
    BY <2>1
  <2> HIDE DEF L, R
  <2>4. n < 8 => L(n) /\ R(n)
    <3>1. n < 8 => \/ n = 0 \/ n = 1 \/ n = 2 \/ n = 3 \/ n = 4 \/ n = 5 \/ n = 6 \/ n = 7
      OBVIOUS
    <3> QED BY <2>2, <2>3, <3>1
  <2>5. n < 8 => Left(8, a, n) = Fit(8 - n, a) * 2^n /\ Right(8, a, n) = a \div 2^n
    BY DEF Left, Right
  <2>6. n >= 8 => Left(8, a, n) = 0 /\ Right(8, a, n) = 0
    BY DEF Left, Right
  <2> QED BY <1>1, <2>4, <2>5, <2>6, Ranges DEF L, R
<1>2. CASE w = 16
  <2> DEFINE L(m) == LET l == Fit(16 - m, a) * 2^m IN l \in Int /\ 0 <= l /\ l < 65536
             R(m) == LET h == a \div 2^m IN h \in Int /\ 0 <= h /\ h < 65536
  <2>1. a \in Int /\ 0 <= a /\ a < 65536
    BY <1>2, Ranges
  <2>2. /\ L(0) /\ L(1) /\ L(2) /\ L(3) /\ L(4) /\ L(5) /\ L(6) /\ L(7) /\ L(8) /\ L(9)
        /\ L(10) /\ L(11) /\ L(12) /\ L(13) /\ L(14) /\ L(15)
    BY <2>1 DEF Fit
  <2>3. /\ R(0) /\ R(1) /\ R(2) /\ R(3) /\ R(4) /\ R(5) /\ R(6) /\ R(7) /\ R(8) /\ R(9)
        /\ R(10) /\ R(11) /\ R(12) /\ R(13) /\ R(14) /\ R(15)
    BY <2>1
  <2> HIDE DEF L, R
  <2>4. n < 16 => L(n) /\ R(n)
    <3>1. n < 16 => \/ n = 0 \/ n = 1 \/ n = 2 \/ n = 3 \/ n = 4 \/ n = 5 \/ n = 6 \/ n = 7 \/ n = 8
                       \/ n = 9 \/ n = 10 \/ n = 11 \/ n = 12 \/ n = 13 \/ n = 14 \/ n = 15
      OBVIOUS
    <3> QED BY <2>2, <2>3, <3>1
  <2>5. n < 16 => Left(16, a, n) = Fit(16 - n, a) * 2^n /\ Right(16, a, n) = a \div 2^n
    BY DEF Left, Right
  <2>6. n >= 16 => Left(16, a, n) = 0 /\ Right(16, a, n) = 0
    BY DEF Left, Right
  <2> QED BY <1>2, <2>4, <2>5, <2>6, Ranges DEF L, R
<1> QED BY <1>1, <1>2 DEF Widths

\* Every set of numbers has a least one.
LEMMA Least ==
  ASSUME NEW T \in SUBSET Nat, T # {}
  PROVE  \E x \in T : \A y \in T : x <= y
<1> DEFINE R == OpToRel(<, Nat)
<1>1. IsWellFoundedOn(R, Nat)
  BY NatLessThanWellFounded
<1>2. \A x, y \in Nat : x < y => <<x, y>> \in R
  BY DEF OpToRel
<1> HIDE DEF R
<1>3. PICK x \in T : \A y \in T : <<y, x>> \notin R
  BY <1>1, WFMin
<1>4. \A y \in T : x <= y
  <2> SUFFICES ASSUME NEW y \in T PROVE ~(y < x)
    OBVIOUS
  <2> QED BY <1>2, <1>3
<1> QED BY <1>3, <1>4

\* Induction, for sets of numbers.
LEMMA SetInduction ==
  ASSUME NEW S \in SUBSET Nat, 0 \in S, \A n \in S : n + 1 \in S
  PROVE  S = Nat
<1> SUFFICES ASSUME Nat \ S # {} PROVE FALSE
  OBVIOUS
<1>1. PICK x \in Nat \ S : \A y \in Nat \ S : x <= y
  BY Least
<1>2. x # 0 /\ x - 1 \in Nat /\ x - 1 \in S
  BY <1>1
<1> QED BY <1>1, <1>2

\* g has the rounds of a loop that does a step n times.
Iterates(g, start, step, n) ==
  g[0] = start /\ \A i \in 1..n : g[i] = step[g[i - 1]]

LEMMA Iterated ==
  ASSUME NEW R, NEW start \in R, NEW step \in [R -> R], NEW n \in Nat
  PROVE  \E g \in [0..n -> R] : Iterates(g, start, step, n)
<1> DEFINE S == {m \in Nat : \E g \in [0..m -> R] : Iterates(g, start, step, m)}
<1>1. 0 \in S
  <2> DEFINE g == [i \in 0..0 |-> start]
  <2>1. g \in [0..0 -> R] /\ Iterates(g, start, step, 0)
    BY DEF Iterates
  <2> QED BY <2>1
<1>2. ASSUME NEW m \in S PROVE m + 1 \in S
  <2>1. PICK f \in [0..m -> R] : Iterates(f, start, step, m)
    OBVIOUS
  <2> DEFINE g == [i \in 0..(m + 1) |-> IF i = m + 1 THEN step[f[m]] ELSE f[i]]
  <2>2. g \in [0..(m + 1) -> R]
    OBVIOUS
  <2>3. Iterates(g, start, step, m + 1)
    <3>1. g[0] = start
      BY <2>1 DEF Iterates
    <3>2. ASSUME NEW i \in 1..(m + 1) PROVE g[i] = step[g[i - 1]]
      <4>1. CASE i = m + 1
        BY <4>1
      <4>2. CASE i # m + 1
        <5>1. i \in 1..m /\ i - 1 \in 0..m /\ i \in 0..(m + 1) /\ i - 1 \in 0..(m + 1) /\ i - 1 # m + 1
          BY <4>2
        <5>2. f[i] = step[f[i - 1]]
          BY <2>1, <5>1 DEF Iterates
        <5> QED BY <4>2, <5>1, <5>2
      <4> QED BY <4>1, <4>2
    <3> QED BY <3>1, <3>2 DEF Iterates
  <2> HIDE DEF g
  <2> QED BY <2>2, <2>3
<1> HIDE DEF S
<1>3. S = Nat
  <2>1. S \in SUBSET Nat
    BY DEF S
  <2> QED BY <1>1, <1>2, <2>1, SetInduction
<1> QED BY <1>3 DEF S

\* An operand of w bits and the carry beside it.
Pair(w) == [a : Operand(w), cy : BOOLEAN]

LEMMA OneTurn ==
  ASSUME NEW w \in Widths, NEW r \in Pair(w)
  PROVE  RclOne(w, r) \in Pair(w) /\ RcrOne(w, r) \in Pair(w)
<1>1. r.a \in Operand(w) /\ r.cy \in BOOLEAN /\ AsInt(r.cy) \in {0, 1}
  BY DEF Pair, AsInt
<1>2. Negative(w, r.a) \in BOOLEAN /\ Bit(r.a, 0) \in BOOLEAN
  BY DEF Negative, Bit
<1>3. Fit(w, 2 * r.a + AsInt(r.cy)) \in Operand(w)
  <2>1. 2 * r.a + AsInt(r.cy) \in Int
    BY <1>1, Ranges DEF Widths
  <2> QED BY <2>1, Fits
<1>4. r.a \div 2 + (IF r.cy THEN 2^(w - 1) ELSE 0) \in Operand(w)
  <2>1. CASE w = 8
    BY <1>1, <2>1, Ranges
  <2>2. CASE w = 16
    BY <1>1, <2>2, Ranges
  <2> QED BY <2>1, <2>2 DEF Widths
<1> QED BY <1>2, <1>3, <1>4 DEF RclOne, RcrOne, Pair

\* RCL and RCR, from the rounds of their loops.
LEMMA RclIs ==
  ASSUME NEW w \in Widths, NEW a \in Operand(w), NEW n \in Nat, NEW p \in Psw
  PROVE  \E g \in [0..n -> Pair(w)] :
           /\ Iterates(g, [a |-> a, cy |-> p.cy], [r \in Pair(w) |-> RclOne(w, r)], n)
           /\ Rcl(w, a, n, p) = Turned(w, a, g[n], p)
<1> DEFINE start == [a |-> a, cy |-> p.cy]
           step == [r \in Pair(w) |-> RclOne(w, r)]
           turn == CHOOSE f : f = [i \in 0..n |-> IF i = 0 THEN start ELSE RclOne(w, f[i - 1])]
<1>1. start \in Pair(w) /\ step \in [Pair(w) -> Pair(w)]
  BY OneTurn DEF Pair, Psw
<1>2. \A r \in Pair(w) : step[r] = RclOne(w, r)
  OBVIOUS
<1>3. Rcl(w, a, n, p) = Turned(w, a, turn[n], p)
  BY DEF Rcl
<1> HIDE DEF start, step
<1>4. PICK g \in [0..n -> Pair(w)] : Iterates(g, start, step, n)
  BY <1>1, Iterated
<1>5. g = [i \in 0..n |-> IF i = 0 THEN start ELSE RclOne(w, g[i - 1])]
  <2>1. ASSUME NEW i \in 0..n PROVE g[i] = IF i = 0 THEN start ELSE RclOne(w, g[i - 1])
    <3>1. CASE i = 0
      BY <1>4, <3>1 DEF Iterates
    <3>2. CASE i # 0
      <4>1. i \in 1..n /\ i - 1 \in 0..n
        BY <3>2
      <4> QED BY <1>2, <1>4, <3>2, <4>1 DEF Iterates
    <3> QED BY <3>1, <3>2
  <2> QED BY <2>1
<1>6. turn = [i \in 0..n |-> IF i = 0 THEN start ELSE RclOne(w, turn[i - 1])]
  BY <1>5
<1> HIDE DEF turn
<1> DEFINE S == {m \in Nat : m <= n => turn[m] = g[m]}
<1>7. 0 \in S
  BY <1>4, <1>6 DEF Iterates
<1>8. ASSUME NEW m \in S PROVE m + 1 \in S
  <2>1. SUFFICES ASSUME m + 1 <= n PROVE turn[m + 1] = g[m + 1]
    OBVIOUS
  <2>2. turn[m] = g[m] /\ m + 1 \in 0..n /\ m + 1 # 0 /\ (m + 1) - 1 = m
    BY <2>1
  <2> QED BY <1>5, <1>6, <2>2
<1> HIDE DEF S
<1>9. n \in S
  <2>1. S \in SUBSET Nat
    BY DEF S
  <2> QED BY <1>7, <1>8, <2>1, SetInduction
<1> QED BY <1>3, <1>4, <1>9 DEF S, start, step

LEMMA RcrIs ==
  ASSUME NEW w \in Widths, NEW a \in Operand(w), NEW n \in Nat, NEW p \in Psw
  PROVE  \E g \in [0..n -> Pair(w)] :
           /\ Iterates(g, [a |-> a, cy |-> p.cy], [r \in Pair(w) |-> RcrOne(w, r)], n)
           /\ Rcr(w, a, n, p) = Turned(w, a, g[n], p)
<1> DEFINE start == [a |-> a, cy |-> p.cy]
           step == [r \in Pair(w) |-> RcrOne(w, r)]
           turn == CHOOSE f : f = [i \in 0..n |-> IF i = 0 THEN start ELSE RcrOne(w, f[i - 1])]
<1>1. start \in Pair(w) /\ step \in [Pair(w) -> Pair(w)]
  BY OneTurn DEF Pair, Psw
<1>2. \A r \in Pair(w) : step[r] = RcrOne(w, r)
  OBVIOUS
<1>3. Rcr(w, a, n, p) = Turned(w, a, turn[n], p)
  BY DEF Rcr
<1> HIDE DEF start, step
<1>4. PICK g \in [0..n -> Pair(w)] : Iterates(g, start, step, n)
  BY <1>1, Iterated
<1>5. g = [i \in 0..n |-> IF i = 0 THEN start ELSE RcrOne(w, g[i - 1])]
  <2>1. ASSUME NEW i \in 0..n PROVE g[i] = IF i = 0 THEN start ELSE RcrOne(w, g[i - 1])
    <3>1. CASE i = 0
      BY <1>4, <3>1 DEF Iterates
    <3>2. CASE i # 0
      <4>1. i \in 1..n /\ i - 1 \in 0..n
        BY <3>2
      <4> QED BY <1>2, <1>4, <3>2, <4>1 DEF Iterates
    <3> QED BY <3>1, <3>2
  <2> QED BY <2>1
<1>6. turn = [i \in 0..n |-> IF i = 0 THEN start ELSE RcrOne(w, turn[i - 1])]
  BY <1>5
<1> HIDE DEF turn
<1> DEFINE S == {m \in Nat : m <= n => turn[m] = g[m]}
<1>7. 0 \in S
  BY <1>4, <1>6 DEF Iterates
<1>8. ASSUME NEW m \in S PROVE m + 1 \in S
  <2>1. SUFFICES ASSUME m + 1 <= n PROVE turn[m + 1] = g[m + 1]
    OBVIOUS
  <2>2. turn[m] = g[m] /\ m + 1 \in 0..n /\ m + 1 # 0 /\ (m + 1) - 1 = m
    BY <2>1
  <2> QED BY <1>5, <1>6, <2>2
<1> HIDE DEF S
<1>9. n \in S
  <2>1. S \in SUBSET Nat
    BY DEF S
  <2> QED BY <1>7, <1>8, <2>1, SetInduction
<1> QED BY <1>3, <1>4, <1>9 DEF S, start, step

\* The carry and the overflow flag are set.
CyV(q, cy, v) == [q EXCEPT !.cy = cy, !.v = v]

LEMMA CyVIs ==
  ASSUME NEW q \in Psw, NEW cy \in BOOLEAN, NEW v \in BOOLEAN
  PROVE  /\ CyV(q, cy, v) \in Psw
         /\ CyV(q, cy, v).cy = cy /\ CyV(q, cy, v).v = v
         /\ CyV(q, cy, v).s = q.s /\ CyV(q, cy, v).z = q.z /\ CyV(q, cy, v).p = q.p
BY DEF CyV, Psw

LEMMA ShiftBits ==
  ASSUME NEW w, NEW a, NEW n, NEW dst
  PROVE  /\ OutLeft(w, a, n) \in BOOLEAN /\ OutRight(a, n) \subseteq BOOLEAN
         /\ SignMoved(w, a, dst) \in BOOLEAN /\ Negative(w, a) \in BOOLEAN
BY DEF OutLeft, OutRight, SignMoved, Negative, Bit

\* ROL and ROR.
LEMMA RotateIs ==
  ASSUME NEW w \in Widths, NEW a \in Operand(w), NEW n \in 0..31, NEW p \in Psw
  PROVE  /\ \A r \in Rol(w, a, n, p) :
              /\ r.dst = Turn(w, a, n % w) /\ r.psw.cy = OutLeft(w, a, n)
              /\ r.psw.s = p.s /\ r.psw.z = p.z /\ r.psw.p = p.p
              /\ Fine(w, r)
         /\ \A r \in Ror(w, a, n, p) :
              /\ r.dst = Turn(w, a, (-n) % w) /\ r.psw.cy \in OutRight(a, n)
              /\ r.psw.s = p.s /\ r.psw.z = p.z /\ r.psw.p = p.p
              /\ Fine(w, r)
<1>1. \A m \in 0..(w - 1) : Turn(w, a, m) \in Operand(w)
  <2> TAKE m \in 0..(w - 1)
  <2>1. m \in 0..31 /\ w - m \in 0..31
    BY DEF Widths
  <2>2. Left(w, a, m) \in Int /\ Right(w, a, w - m) \in Int
    BY <2>1, ShiftedRange, Ranges DEF Widths
  <2>3. Left(w, a, m) + Right(w, a, w - m) \in Int
    BY <2>2
  <2> QED BY <2>3, Fits DEF Turn
<1>2. n % w \in 0..(w - 1) /\ (-n) % w \in 0..(w - 1)
  BY DEF Widths
<1>3. ASSUME NEW r \in Rol(w, a, n, p)
      PROVE  /\ r.dst = Turn(w, a, n % w) /\ r.psw.cy = OutLeft(w, a, n)
             /\ r.psw.s = p.s /\ r.psw.z = p.z /\ r.psw.p = p.p
             /\ Fine(w, r)
  <2> DEFINE cy == OutLeft(w, a, n)
             v == SignMoved(w, a, Turn(w, a, n % w))
  <2>1. r.dst = Turn(w, a, n % w) /\ r.psw = CyV(p, cy, v)
    BY DEF Rol, Result, CyV
  <2>2. cy \in BOOLEAN /\ v \in BOOLEAN
    BY ShiftBits
  <2> HIDE DEF v
  <2> QED BY <1>1, <1>2, <2>1, <2>2, CyVIs DEF Fine
<1>4. ASSUME NEW r \in Ror(w, a, n, p)
      PROVE  /\ r.dst = Turn(w, a, (-n) % w) /\ r.psw.cy \in OutRight(a, n)
             /\ r.psw.s = p.s /\ r.psw.z = p.z /\ r.psw.p = p.p
             /\ Fine(w, r)
  <2> DEFINE v == SignMoved(w, a, Turn(w, a, (-n) % w))
  <2>1. PICK cy \in OutRight(a, n) : r = Result(Turn(w, a, (-n) % w), CyV(p, cy, v))
    BY DEF Ror, CyV
  <2>3. r.dst = Turn(w, a, (-n) % w) /\ r.psw = CyV(p, cy, v)
    BY <2>1 DEF Result
  <2>2. cy \in BOOLEAN /\ v \in BOOLEAN
    BY ShiftBits
  <2> HIDE DEF v
  <2> QED BY <1>1, <1>2, <2>2, <2>3, CyVIs DEF Fine
<1> QED BY <1>3, <1>4

LEMMA TurnedIs ==
  ASSUME NEW w, NEW a, NEW t \in Pair(w), NEW p \in Psw, NEW r \in Turned(w, a, t, p)
  PROVE  /\ r.dst = t.a /\ r.psw.cy = t.cy
         /\ r.psw.s = p.s /\ r.psw.z = p.z /\ r.psw.p = p.p
         /\ Fine(w, r)
<1> DEFINE v == SignMoved(w, a, t.a)
<1>1. r.dst = t.a /\ r.psw = CyV(p, t.cy, v)
  BY DEF Turned, Result, CyV
<1>2. v \in BOOLEAN /\ t.cy \in BOOLEAN /\ t.a \in Operand(w)
  BY ShiftBits DEF Pair
<1> HIDE DEF v
<1> QED BY <1>1, <1>2, CyVIs DEF Fine

\* The bits SAR brings in from the left, and its result.
SignBits(w, a) == IF Negative(w, a) THEN 2^w - 1 ELSE 0
SarDst(w, a, n) == Right(w, a, n) + (SignBits(w, a) - Right(w, SignBits(w, a), n))

LEMMA SarRange ==
  ASSUME NEW w \in Widths, NEW a \in Operand(w), NEW n \in 0..(w - 1)
  PROVE  SarDst(w, a, n) \in Operand(w) /\ SignBits(w, a) \in Operand(w)
<1> DEFINE sign == SignBits(w, a)
<1>0. sign \in Operand(w)
  BY DEF SignBits, Operand, Widths
<1>1. ASSUME w = 8 PROVE SarDst(w, a, n) \in Operand(w)
  <2> DEFINE D(m) == LET d == a \div 2^m + (sign - sign \div 2^m) IN d \in Int /\ 0 <= d /\ d < 256
  <2>1. a \in Int /\ 0 <= a /\ a < 256 /\ (sign = 0 \/ sign = 255)
    BY <1>1, Ranges DEF SignBits
  <2> HIDE DEF sign
  <2>2. /\ D(0) /\ D(1) /\ D(2) /\ D(3) /\ D(4) /\ D(5) /\ D(6) /\ D(7)
    BY <2>1
  <2> HIDE DEF D
  <2>3. \/ n = 0 \/ n = 1 \/ n = 2 \/ n = 3 \/ n = 4 \/ n = 5 \/ n = 6 \/ n = 7
    BY <1>1
  <2>4. D(n)
    BY <2>2, <2>3
  <2>5. Right(w, a, n) = a \div 2^n /\ Right(w, sign, n) = sign \div 2^n
    BY <1>1 DEF Right
  <2>6. SarDst(w, a, n) = a \div 2^n + (sign - sign \div 2^n)
    BY <2>5 DEF SarDst, sign
  <2> QED BY <1>1, <2>4, <2>6, Ranges DEF D
<1>2. ASSUME w = 16 PROVE SarDst(w, a, n) \in Operand(w)
  <2> DEFINE D(m) == LET d == a \div 2^m + (sign - sign \div 2^m) IN d \in Int /\ 0 <= d /\ d < 65536
  <2>1. a \in Int /\ 0 <= a /\ a < 65536 /\ (sign = 0 \/ sign = 65535)
    BY <1>2, Ranges DEF SignBits
  <2> HIDE DEF sign
  <2>2. /\ D(0) /\ D(1) /\ D(2) /\ D(3) /\ D(4) /\ D(5) /\ D(6) /\ D(7) /\ D(8) /\ D(9)
        /\ D(10) /\ D(11) /\ D(12) /\ D(13) /\ D(14) /\ D(15)
    BY <2>1
  <2> HIDE DEF D
  <2>3. \/ n = 0 \/ n = 1 \/ n = 2 \/ n = 3 \/ n = 4 \/ n = 5 \/ n = 6 \/ n = 7 \/ n = 8
        \/ n = 9 \/ n = 10 \/ n = 11 \/ n = 12 \/ n = 13 \/ n = 14 \/ n = 15
    BY <1>2
  <2>4. D(n)
    BY <2>2, <2>3
  <2>5. Right(w, a, n) = a \div 2^n /\ Right(w, sign, n) = sign \div 2^n
    BY <1>2 DEF Right
  <2>6. SarDst(w, a, n) = a \div 2^n + (sign - sign \div 2^n)
    BY <2>5 DEF SarDst, sign
  <2> QED BY <1>2, <2>4, <2>6, Ranges DEF D
<1> QED BY <1>0, <1>1, <1>2 DEF Widths, sign

Reflects(q, w, x) == q.s = Negative(w, x) /\ q.z = (Fit(w, x) = 0) /\ q.p = Parity(x)

LEMMA SZPIs ==
  ASSUME NEW w, NEW x, NEW p \in Psw
  PROVE  SZP(w, x, p) \in Psw /\ Reflects(SZP(w, x, p), w, x)
<1> DEFINE s == Negative(w, x)
           z == Fit(w, x) = 0
           pa == Parity(x)
           q == SZP(w, x, p)
<1>1. s \in BOOLEAN /\ z \in BOOLEAN /\ pa \in BOOLEAN
  BY DEF Negative, Bit, Parity
<1>2. q = [p EXCEPT !.s = s, !.z = z, !.p = pa]
  BY DEF SZP
<1> HIDE DEF s, z, pa, q
<1>3. q \in Psw /\ q.s = s /\ q.z = z /\ q.p = pa
  BY <1>1, <1>2 DEF Psw
<1> QED BY <1>3 DEF s, z, pa, q, Reflects

\* SHL, SAL and SHR.
LEMMA ShiftIs ==
  ASSUME NEW w \in Widths, NEW a \in Operand(w), NEW n \in 0..31, NEW p \in Psw
  PROVE  /\ \A r \in Shl(w, a, n, p) \union Sal(w, a, n, p) :
              /\ r.dst = Left(w, a, n) /\ r.psw.cy = OutLeft(w, a, n)
              /\ Reflects(r.psw, w, r.dst) /\ Fine(w, r)
         /\ \A r \in Shr(w, a, n, p) :
              /\ r.dst = Right(w, a, n) /\ r.psw.cy \in OutRight(a, n)
              /\ Reflects(r.psw, w, r.dst) /\ Fine(w, r)
<1>1. Left(w, a, n) \in Operand(w) /\ Right(w, a, n) \in Operand(w)
  BY ShiftedRange
<1>2. ASSUME NEW r \in Shl(w, a, n, p)
      PROVE  /\ r.dst = Left(w, a, n) /\ r.psw.cy = OutLeft(w, a, n)
             /\ Reflects(r.psw, w, r.dst) /\ Fine(w, r)
  <2> DEFINE dst == Left(w, a, n)
             o == SZP(w, dst, p)
             cy == OutLeft(w, a, n)
             v == SignMoved(w, a, dst)
  <2>1. r.dst = dst /\ r.psw = CyV(o, cy, v)
    BY DEF Shl, Result, CyV
  <2>2. cy \in BOOLEAN /\ v \in BOOLEAN
    BY ShiftBits
  <2>3. o \in Psw /\ Reflects(o, w, dst)
    BY SZPIs
  <2> HIDE DEF v, o, cy
  <2> QED BY <1>1, <2>1, <2>2, <2>3, CyVIs DEF Fine, Reflects, cy
<1>3. ASSUME NEW r \in Sal(w, a, n, p)
      PROVE  /\ r.dst = Left(w, a, n) /\ r.psw.cy = OutLeft(w, a, n)
             /\ Reflects(r.psw, w, r.dst) /\ Fine(w, r)
  <2>1. PICK q \in Shl(w, a, n, p) : r = Result(q.dst, [q.psw EXCEPT !.v = FALSE])
    BY DEF Sal
  <2>2. r.dst = q.dst /\ r.psw = [q.psw EXCEPT !.v = FALSE]
    BY <2>1 DEF Result
  <2>3. q.psw \in Psw
    BY <1>2 DEF Fine
  <2>4. /\ r.psw \in Psw /\ r.psw.cy = q.psw.cy
        /\ r.psw.s = q.psw.s /\ r.psw.z = q.psw.z /\ r.psw.p = q.psw.p
    BY <2>2, <2>3 DEF Psw
  <2> QED BY <1>1, <1>2, <2>2, <2>4 DEF Fine, Reflects
<1>4. ASSUME NEW r \in Shr(w, a, n, p)
      PROVE  /\ r.dst = Right(w, a, n) /\ r.psw.cy \in OutRight(a, n)
             /\ Reflects(r.psw, w, r.dst) /\ Fine(w, r)
  <2> DEFINE dst == Right(w, a, n)
             o == SZP(w, dst, p)
             v == SignMoved(w, a, dst)
  <2>1. PICK cy \in OutRight(a, n) : r = Result(dst, CyV(o, cy, v))
    BY DEF Shr, CyV
  <2>2. r.dst = dst /\ r.psw = CyV(o, cy, v)
    BY <2>1 DEF Result
  <2>3. cy \in BOOLEAN /\ v \in BOOLEAN
    BY ShiftBits
  <2>4. o \in Psw /\ Reflects(o, w, dst)
    BY SZPIs
  <2> HIDE DEF v, o
  <2> QED BY <1>1, <2>2, <2>3, <2>4, CyVIs DEF Fine, Reflects
<1> QED BY <1>2, <1>3, <1>4

\* SAR.
LEMMA SarIs ==
  ASSUME NEW w \in Widths, NEW a \in Operand(w), NEW n \in 0..31, NEW p \in Psw,
         NEW r \in Sar(w, a, n, p)
  PROVE  /\ n < w => /\ r.dst = SarDst(w, a, n) /\ r.psw.cy \in OutRight(a, n)
                     /\ Reflects(r.psw, w, r.dst)
         /\ n >= w => r.dst = SignBits(w, a) /\ r.psw.cy = Negative(w, a)
         /\ Fine(w, r)
<1> DEFINE no == FALSE
<1>0. no \in BOOLEAN
  OBVIOUS
<1>1. CASE n < w
  <2> DEFINE dst == SarDst(w, a, n)
             o == SZP(w, dst, p)
  <2>0. w \in Nat /\ dst \in Operand(w)
    <3>1. n \in 0..(w - 1)
      BY <1>1 DEF Widths
    <3> QED BY <3>1, SarRange DEF Widths
  <2>a. ~(n >= w)
    BY <1>1, <2>0
  <2>b. Sar(w, a, n, p) = {Result(dst, CyV(o, cy, no)) : cy \in OutRight(a, n)}
    BY <2>a DEF Sar, SarDst, SignBits, CyV
  <2>1. PICK cy \in OutRight(a, n) : r = Result(dst, CyV(o, cy, no))
    BY <2>b
  <2>2. r.dst = dst /\ r.psw = CyV(o, cy, no)
    BY <2>1 DEF Result
  <2>3. cy \in BOOLEAN
    BY ShiftBits
  <2>4. o \in Psw /\ Reflects(o, w, dst)
    BY SZPIs
  <2> HIDE DEF o, dst, no
  <2>5. r.dst = dst /\ r.psw.cy = cy /\ Reflects(r.psw, w, r.dst) /\ Fine(w, r)
    BY <1>0, <2>0, <2>2, <2>3, <2>4, CyVIs DEF Fine, Reflects
  <2> QED BY <1>1, <2>0, <2>5 DEF dst
<1>2. CASE n >= w
  <2>1. r = Result(SignBits(w, a), CyV(p, Negative(w, a), no))
    BY <1>2 DEF Sar, SignBits, CyV
  <2>2. r.dst = SignBits(w, a) /\ r.psw = CyV(p, Negative(w, a), no)
    BY <2>1 DEF Result
  <2>3. 0 \in 0..(w - 1) /\ Negative(w, a) \in BOOLEAN
    BY ShiftBits DEF Widths
  <2>4. SignBits(w, a) \in Operand(w)
    BY <2>3, SarRange
  <2> HIDE DEF no
  <2>5. r.psw \in Psw /\ r.psw.cy = Negative(w, a)
    BY <1>0, <2>2, <2>3, CyVIs
  <2> QED BY <1>2, <2>2, <2>4, <2>5 DEF Fine, Widths
<1> QED BY <1>1, <1>2 DEF Widths

\* A shift or a rotation gives an operand and flags.
LEMMA ShiftFine ==
  ASSUME NEW op \in Shiftings, NEW w \in Widths, NEW a \in Operand(w), NEW count \in Nat, NEW p \in Psw,
         NEW r \in Shift(op, w, a, count, p)
  PROVE  Fine(w, r)
<1> DEFINE n == count % 32
<1>1. n \in 0..31 /\ n \in Nat
  OBVIOUS
<1>2. r \in ShiftBy(op, w, a, n, p)
  BY DEF Shift
<1> HIDE DEF n
<1>3. CASE r \in Rcl(w, a, n, p)
  <2>1. PICK g \in [0..n -> Pair(w)] : Rcl(w, a, n, p) = Turned(w, a, g[n], p)
    BY <1>1, RclIs
  <2>2. g[n] \in Pair(w)
    BY <1>1, <2>1
  <2> QED BY <1>3, <2>1, <2>2, TurnedIs
<1>4. CASE r \in Rcr(w, a, n, p)
  <2>1. PICK g \in [0..n -> Pair(w)] : Rcr(w, a, n, p) = Turned(w, a, g[n], p)
    BY <1>1, RcrIs
  <2>2. g[n] \in Pair(w)
    BY <1>1, <2>1
  <2> QED BY <1>4, <2>1, <2>2, TurnedIs
<1>5. CASE r \in Rol(w, a, n, p) \union Ror(w, a, n, p)
  BY <1>1, <1>5, RotateIs
<1>6. CASE r \in Shl(w, a, n, p) \union Sal(w, a, n, p) \union Shr(w, a, n, p)
  BY <1>1, <1>6, ShiftIs
<1>7. CASE r \in Sar(w, a, n, p)
  BY <1>1, <1>7, SarIs
<1> QED BY <1>2, <1>3, <1>4, <1>5, <1>6, <1>7 DEF ShiftBy, Shiftings

-----------------------------------------------------------------------------
(* The results of the other instructions.                                  *)

LEMMA AdjustFine ==
  ASSUME NEW x \in Operand(16), NEW p \in Psw, NEW neg \in BOOLEAN
  PROVE  Fine(16, DaaDas(neg, x, p)) /\ Fine(16, AaaAas(neg, x, p))
<1>1. Al(x) \in Int /\ Ah(x) \in Int
  BY WordParts, Ranges
<1>2. Fine(16, DaaDas(neg, x, p))
  <2> DEFINE lo == p.ac \/ x % 16 > 9
             hi == p.cy \/ Al(x) > 153
             off == (IF lo THEN 6 ELSE 0) + (IF hi THEN 96 ELSE 0)
             sum == IF neg THEN Al(x) - off ELSE Al(x) + off
             al == Fit(8, sum)
             o == [p EXCEPT !.ac = lo, !.cy = hi]
             r == DaaDas(neg, x, p)
  <2>1. lo \in BOOLEAN /\ hi \in BOOLEAN /\ off \in Int
    BY DEF Psw
  <2>2. sum \in Int
    BY <1>1, <2>1
  <2>3. r.dst = Aw(Ah(x), al) /\ r.psw = SZP(8, al, o)
    BY DEF DaaDas, Result
  <2>4. al \in Int
    BY <2>2, Byte, Ranges
  <2> HIDE DEF lo, hi, off, sum, al, r
  <2>5. o \in Psw
    BY <2>1 DEF Psw
  <2> HIDE DEF o
  <2>6. SZP(8, al, o) \in Psw
    BY <2>5, SZPIs
  <2>7. Aw(Ah(x), al) \in Operand(16)
    BY <1>1, <2>4, WordOf
  <2> QED BY <2>3, <2>6, <2>7 DEF Fine, r
<1>3. Fine(16, AaaAas(neg, x, p))
  <2> DEFINE adjust == p.ac \/ x % 16 > 9
             n == IF ~adjust THEN 0 ELSE IF neg THEN -1 ELSE 1
             h == Ah(x) + n
             l == (Al(x) + 6 * n) % 16
             r == AaaAas(neg, x, p)
  <2>1. adjust \in BOOLEAN /\ n \in Int
    BY DEF Psw
  <2>2. h \in Int /\ l \in Int
    BY <1>1, <2>1
  <2>3. r.dst = Aw(h, l) /\ r.psw = [p EXCEPT !.ac = adjust, !.cy = adjust]
    BY DEF AaaAas, Result
  <2> HIDE DEF adjust, n, h, l, r
  <2>4. r.psw \in Psw
    BY <2>1, <2>3 DEF Psw
  <2>5. Aw(h, l) \in Operand(16)
    BY <2>2, WordOf
  <2> QED BY <2>3, <2>4, <2>5 DEF Fine, r
<1> QED BY <1>2, <1>3

LEMMA WordFine ==
  ASSUME NEW w, NEW h \in Int, NEW l \in Int, NEW p \in Psw
  PROVE  /\ Fine(16, Result(Aw(h, l), p))
         /\ Fine(16, Result(Aw(h, l), SZP(w, Aw(h, l), p)))
<1>1. Aw(h, l) \in Operand(16)
  BY WordOf
<1>2. SZP(w, Aw(h, l), p) \in Psw
  BY SZPIs
<1> QED BY <1>1, <1>2 DEF Fine, Result

LEMMA DigitsFine ==
  ASSUME NEW x \in Operand(16), NEW b \in Operand(8), NEW p \in Psw
  PROVE  /\ b # 0 => Fine(16, Aam(x, b, p))
         /\ Fine(16, Aad(x, b, p))
<1>1. Al(x) \in Nat /\ Ah(x) \in Int /\ b \in Nat
  BY WordParts, Ranges
<1>2. Al(x) + Ah(x) * b \in Int
  BY <1>1
<1>3. b # 0 => Al(x) \div b \in Int /\ Al(x) % b \in Int
  BY <1>1
<1> QED BY <1>2, <1>3, WordFine DEF Aam, Aad

LEMMA ProductFine ==
  ASSUME NEW a, NEW x \in Int, NEW p \in Psw
  PROVE  Fine(16, Product(a, x, p))
<1> DEFINE big == Ah(Fit(16, x)) # 0
           r == Product(a, x, p)
<1>1. r.dst = Fit(16, x) /\ r.psw = CyV(p, big, big)
  BY DEF Product, Result, CyV
<1>2. big \in BOOLEAN
  OBVIOUS
<1>3. Fit(16, x) \in Operand(16)
  BY Whole
<1> HIDE DEF big, r
<1> QED BY <1>1, <1>2, <1>3, CyVIs DEF Fine, r

LEMMA MulFine ==
  ASSUME NEW x \in Operand(16), NEW b \in Operand(8), NEW p \in Psw
  PROVE  Fine(16, Mul(x, b, p)) /\ Fine(16, Imul(x, b, p))
<1>1. Al(x) \in Operand(8) /\ Al(x) \in Int /\ b \in Int
  BY WordParts, Ranges
<1>2. Signed(8, Al(x)) \in Int /\ Signed(8, b) \in Int
  BY <1>1, SignedByte, Ranges
<1>3. Al(x) * b \in Int /\ Signed(8, Al(x)) * Signed(8, b) \in Int
  BY <1>1, <1>2
<1> QED BY <1>3, ProductFine DEF Mul, Imul

LEMMA DivideFine ==
  ASSUME NEW x \in Int, NEW y \in Int, NEW fits, NEW p \in Psw, NEW r \in Divide(x, y, fits, p)
  PROVE  /\ y # 0 /\ Quotient(x, y) \in fits /\ Quotient(x, y) \in Int
         /\ r = Result(Aw(x - y * Quotient(x, y), Quotient(x, y)), p)
         /\ Fine(16, r)
<1> DEFINE q == Quotient(x, y)
<1>1. y # 0 /\ q \in fits /\ r = Result(Aw(x - y * q, q), p)
  BY DEF Divide
<1>2. q \in Int
  BY <1>1 DEF Quotient
<1> HIDE DEF q
<1>3. x - y * q \in Int
  BY <1>2
<1> QED BY <1>1, <1>2, <1>3, WordFine DEF q

-----------------------------------------------------------------------------
(* Types.                                                                  *)

\* What an instruction works on.
LEMMA Operands ==
  ASSUME TypeOK, Running
  PROVE  /\ WellFormed(Insn) /\ pc + 1 \in 1..Len(idiom)
         /\ Src \in Nat /\ W \in Widths
         /\ Insn.on \in Parts => Dst \in Operand(W) /\ Src \in Operand(W)
<1>1. idiom \in Idioms /\ pc \in 0..Len(idiom) /\ aw \in Operand(16) /\ bw \in Operand(16) /\ cw \in Operand(16)
  BY DEF TypeOK
<1>2. Len(idiom) \in Nat /\ pc + 1 \in 1..Len(idiom) /\ WellFormed(Insn)
  <2>1. Len(idiom) \in 1..3 /\ \A k \in 1..Len(idiom) : WellFormed(idiom[k])
    BY <1>1, WellFormedIdioms
  <2>2. pc + 1 \in 1..Len(idiom)
    BY <1>1, <2>1 DEF Running
  <2> QED BY <2>1, <2>2 DEF Insn
<1>3. W \in Widths
  BY WidthOf DEF W
<1>4. Al(cw) \in Operand(8) /\ 0 \in Operand(8) /\ 1 \in Operand(8)
  <2>1. Al(cw) \in Operand(8)
    BY <1>1, WordParts
  <2> QED BY <2>1, Ranges
<1>5. \A x \in Operand(8) : x \in Operand(W) /\ x \in Nat
  BY <1>3, Ranges DEF Widths
<1>6. Src \in Nat
  <2>1. Part(Insn.on, bw) \in Nat
    BY <1>1, WordParts, Ranges DEF Part
  <2> QED BY <1>2, <1>4, <1>5, <2>1 DEF Src, WellFormed
<1>7. ASSUME Insn.on \in Parts PROVE Dst \in Operand(W) /\ Src \in Operand(W)
  <2>1. Dst \in Operand(W) /\ Part(Insn.on, bw) \in Operand(W)
    BY <1>1, <1>7, PartIn DEF Dst, W
  <2> QED BY <1>2, <1>4, <1>5, <2>1 DEF Src, WellFormed
<1> QED BY <1>2, <1>3, <1>6, <1>7

LEMMA SetFine ==
  ASSUME TypeOK, Running, NEW r, Set(r), Insn.on \in Parts, Fine(W, r)
  PROVE  TypeOK'
<1>1. aw' \in Operand(16)
  <2>1. r.dst \in Operand(Width(Insn.on)) /\ aw \in Operand(16)
    BY DEF Fine, W, TypeOK
  <2> QED BY <2>1, Parted DEF Set
<1>2. psw' \in Psw /\ pc' = pc + 1 /\ UNCHANGED <<idiom, bw, cw, faulted, from>>
  BY DEF Set, Fine
<1>3. pc + 1 \in 0..Len(idiom)
  BY Operands DEF TypeOK
<1> QED BY <1>1, <1>2, <1>3 DEF TypeOK

LEMMA TypeInit == Init => TypeOK
<1> SUFFICES ASSUME Init PROVE TypeOK
  OBVIOUS
<1>1. idiom \in Idioms /\ pc = 0 /\ faulted = FALSE
  BY DEF Init
<1>2. 0 \in 0..Len(idiom)
  BY <1>1, WellFormedIdioms
<1>3. aw \in Operand(16) /\ bw \in Operand(16) /\ cw \in Operand(16)
  BY AluAssumption, Widening, Ranges DEF Init
<1>4. psw \in Psw
  <2>1. PICK b \in BOOLEAN : psw = Flags(b)
    BY DEF Init
  <2> QED BY <2>1 DEF Flags, Psw
<1>5. from \in [aw : Operand(16), psw : Psw]
  BY <1>3, <1>4 DEF Init
<1> QED BY <1>1, <1>2, <1>3, <1>4, <1>5 DEF TypeOK

LEMMA BitOperations ==
  ASSUME NEW w \in Widths, NEW a, NEW b
  PROVE  /\ BitAnd(w, a, b) \in Operand(w) /\ BitOr(w, a, b) \in Operand(w)
         /\ BitXor(w, a, b) \in Operand(w)
BY NumberIn DEF BitAnd, BitOr, BitXor, Bits

LEMMA DivisionsFine ==
  ASSUME NEW x \in Operand(16), NEW b \in Operand(8), NEW p \in Psw,
         NEW r \in Div(x, b, p) \union Idiv(x, b, p)
  PROVE  Fine(16, r)
<1>1. x \in Int /\ b \in Int /\ Signed(16, x) \in Int /\ Signed(8, b) \in Int
  BY Ranges, SignedWord, SignedByte
<1>2. CASE r \in Div(x, b, p)
  BY <1>1, <1>2, DivideFine DEF Div
<1>3. CASE r \in Idiv(x, b, p)
  BY <1>1, <1>3, DivideFine DEF Idiv
<1> QED BY <1>2, <1>3

LEMMA TypeStep == TypeOK /\ [Next]_vars => TypeOK'
<1>1. ASSUME TypeOK, UNCHANGED vars PROVE TypeOK'
  BY <1>1 DEF vars, TypeOK
<1>2. ASSUME TypeOK, Next PROVE TypeOK'
  <2>1. Running
    BY <1>2, Acts
  <2>2. WellFormed(Insn) /\ Src \in Nat /\ W \in Widths
    BY <1>2, <2>1, Operands
  <2>3. Insn.on \in Parts => Dst \in Operand(W) /\ Src \in Operand(W)
    BY <1>2, <2>1, Operands
  <2>4. psw \in Psw /\ aw \in Operand(16) /\ cw \in Operand(16) /\ bw \in Operand(16)
    BY <1>2 DEF TypeOK
  <2>5. Insn.op \notin Stepping => Insn.on \in Parts
    BY <2>2 DEF WellFormed
  <2>6. Insn.op \in OnWord => Insn.on \in Parts /\ W = 16 /\ Dst = aw
    BY <2>2 DEF WellFormed, W, Dst, Width, Part, Parts
  <2>7. Al(Src) \in Operand(8)
    BY <2>2, Ranges DEF Al
  <2>8. CASE Insn.op \in {"add", "adc"}
    <3>1. Set(Add(W, Dst, Src, Insn.op = "adc", psw)) /\ Insn.on \in Parts
      BY <1>2, <2>5, <2>8, Acts DEF Stepping
    <3> DEFINE chained == Insn.op = "adc"
               c == CarryIn(chained, psw)
               r == Add(W, Dst, Src, chained, psw)
    <3>2. chained \in BOOLEAN /\ Dst \in Int /\ Src \in Int
      BY <2>2, <2>3, <3>1, Ranges DEF Widths
    <3> HIDE DEF chained, r
    <3>3. r.psw \in Psw /\ r.dst = Fit(W, Dst + Src + c) /\ c \in {0, 1}
      BY <2>2, <2>4, <3>2, AddIs DEF r
    <3> HIDE DEF c
    <3>4. Dst + Src + c \in Int
      BY <3>2, <3>3
    <3>5. Fine(W, r)
      BY <2>2, <3>3, <3>4, Fits DEF Fine
    <3> QED BY <1>2, <2>1, <3>1, <3>5, SetFine DEF r, chained
  <2>9. CASE Insn.op \in {"sub", "sbb", "cmp"}
    <3> DEFINE chained == Insn.op = "sbb"
               c == CarryIn(chained, psw)
               r == Sub(W, Dst, Src, chained, psw)
    <3>1. /\ Insn.on \in Parts
          /\ Insn.op # "cmp" => Set(r)
          /\ Insn.op = "cmp" => Set(Result(Dst, r.psw))
      BY <1>2, <2>5, <2>9, Acts DEF Stepping
    <3>2. chained \in BOOLEAN /\ Dst \in Int /\ Src \in Int
      BY <2>2, <2>3, <3>1, Ranges DEF Widths
    <3> HIDE DEF chained, r
    <3>3. r.psw \in Psw /\ r.dst = Fit(W, Dst - Src - c) /\ c \in {0, 1}
      BY <2>2, <2>4, <3>2, SubIs DEF r
    <3> HIDE DEF c
    <3>4. Dst - Src - c \in Int
      BY <3>2, <3>3
    <3>5. Fine(W, r) /\ Fine(W, Result(Dst, r.psw))
      BY <2>2, <2>3, <3>1, <3>3, <3>4, Fits DEF Fine, Result
    <3> QED BY <1>2, <2>1, <2>9, <3>1, <3>5, SetFine
  <2>10. CASE Insn.op \in Stepping
    <3> DEFINE up == Insn.op = "inc"
               r == IF up THEN Inc(16, cw, psw) ELSE Dec(16, cw, psw)
    <3>1. cw' = r.dst /\ psw' = r.psw /\ pc' = pc + 1 /\ UNCHANGED <<idiom, aw, bw, faulted, from>>
      BY <1>2, <2>10, Acts DEF ExecIncDec
    <3>2. up \in BOOLEAN
      OBVIOUS
    <3> HIDE DEF up
    <3>3. Fine(16, r)
      BY <2>4, <3>2, StepIs
    <3> HIDE DEF r
    <3>4. pc + 1 \in 0..Len(idiom)
      BY <1>2, <2>1, Operands DEF TypeOK
    <3> QED BY <1>2, <3>1, <3>3, <3>4 DEF TypeOK, Fine
  <2>11. CASE Insn.op = "neg"
    <3> DEFINE r == Neg(W, Dst, psw)
    <3>1. Set(r) /\ Insn.on \in Parts
      BY <1>2, <2>5, <2>11, Acts DEF Stepping
    <3>2. -Dst \in Int
      BY <2>2, <2>3, <3>1, Ranges DEF Widths
    <3>3. r.dst = Fit(W, -Dst) /\ r.psw \in Psw
      BY <2>4, NegIs
    <3> HIDE DEF r
    <3> QED BY <1>2, <2>1, <2>2, <3>1, <3>2, <3>3, Fits, SetFine DEF Fine
  <2>12. CASE Insn.op \in Tests
    <3>1. Insn.on \in Parts
      BY <2>5, <2>12 DEF Stepping, Tests
    <3>2. \E x \in Operand(W) :
             Set(Logic(W, x, psw)) \/ Set(Result(Dst, Logic(W, x, psw).psw))
      BY <1>2, <2>2, <2>12, BitOperations, Acts DEF ExecLogic, Tests
    <3>3. PICK x \in Operand(W) : Set(Logic(W, x, psw)) \/ Set(Result(Dst, Logic(W, x, psw).psw))
      BY <3>2
    <3> DEFINE r == Logic(W, x, psw)
    <3>4. r.dst = x /\ r.psw \in Psw
      BY <2>4, LogicIs
    <3> HIDE DEF r
    <3>5. Fine(W, r) /\ Fine(W, Result(Dst, r.psw))
      BY <2>3, <3>1, <3>4 DEF Fine, Result
    <3> QED BY <1>2, <2>1, <3>1, <3>3, <3>5, SetFine DEF r
  <2>13. CASE Insn.op \in Shiftings
    <3>1. Insn.on \in Parts
      BY <2>5, <2>13 DEF Stepping, Shiftings
    <3>2. PICK r \in Shift(Insn.op, W, Dst, Src, psw) : Set(r)
      BY <1>2, <2>13, Acts
    <3>3. Fine(W, r)
      BY <2>2, <2>3, <2>4, <2>13, <3>1, <3>2, ShiftFine
    <3> QED BY <1>2, <2>1, <3>1, <3>2, <3>3, SetFine
  <2>14. CASE Insn.op \in Adjusting
    <3> DEFINE das == Insn.op = "das"
               aas == Insn.op = "aas"
    <3>1. Set(DaaDas(das, aw, psw)) \/ Set(AaaAas(aas, aw, psw))
      BY <1>2, <2>14, Acts DEF ExecAdjust
    <3>2. Insn.on \in Parts /\ W = 16
      BY <2>6, <2>14 DEF OnWord
    <3>3. das \in BOOLEAN /\ aas \in BOOLEAN
      OBVIOUS
    <3> HIDE DEF das, aas
    <3>4. Fine(W, DaaDas(das, aw, psw)) /\ Fine(W, AaaAas(aas, aw, psw))
      BY <2>4, <3>2, <3>3, AdjustFine
    <3> QED BY <1>2, <2>1, <3>1, <3>2, <3>4, SetFine
  <2>15. CASE Insn.op \in Products
    <3>1. Set(Aad(aw, Al(Src), psw)) \/ Set(Mul(aw, Al(Src), psw)) \/ Set(Imul(aw, Al(Src), psw))
      BY <1>2, <2>15, Acts DEF Products
    <3>2. Insn.on \in Parts /\ W = 16
      BY <2>6, <2>15 DEF OnWord
    <3>3. /\ Fine(16, Aad(aw, Al(Src), psw)) /\ Fine(16, Mul(aw, Al(Src), psw))
          /\ Fine(16, Imul(aw, Al(Src), psw))
      BY <2>4, <2>7, DigitsFine, MulFine
    <3> QED BY <1>2, <2>1, <3>1, <3>2, <3>3, SetFine
  <2>16. CASE Insn.op \in Dividing
    <3>1. Insn.on \in Parts /\ W = 16
      BY <2>6, <2>16 DEF OnWord
    <3>2. ASSUME ExecDiv PROVE TypeOK'
      <4>1. PICK r \in Quotients : Set(r)
        BY <3>2 DEF ExecDiv
      <4>2. Fine(16, r)
        BY <2>4, <2>7, <2>16, <4>1, DigitsFine, DivisionsFine DEF Quotients, Dividing
      <4> QED BY <1>2, <2>1, <3>1, <4>1, <4>2, SetFine
    <3>3. ASSUME DivFault PROVE TypeOK'
      <4>1. aw' = 1 /\ psw' = [psw EXCEPT !.cy = TRUE] /\ faulted' = TRUE
            /\ UNCHANGED <<idiom, pc, bw, cw, from>>
        BY <3>3 DEF DivFault
      <4>2. 1 \in Operand(16)
        BY Ranges
      <4>3. psw' \in Psw
        BY <2>4, <4>1 DEF Psw
      <4> QED BY <1>2, <4>1, <4>2, <4>3 DEF TypeOK
    <3> QED BY <1>2, <2>16, <3>2, <3>3, Acts
  <2>17. Insn.op \in Arithmetic \union Stepping \union Tests \union Shiftings \union OnWord
    BY <2>2 DEF WellFormed
  <2>18. CASE Insn.op \in Arithmetic
    BY <2>8, <2>9, <2>11, <2>18 DEF Arithmetic
  <2>19. CASE Insn.op \in OnWord
    BY <2>14, <2>15, <2>16, <2>19 DEF OnWord
  <2> QED BY <2>10, <2>12, <2>13, <2>17, <2>18, <2>19
<1> QED BY <1>1, <1>2

\* For every words and counts to start from, the registers stay words, the flags
\* flags, and the program within its idiom.
THEOREM Typed == Spec => []TypeOK
BY TypeInit, TypeStep, PTL DEF Spec

-----------------------------------------------------------------------------
(* Comparisons.                                                            *)

\* The signed comparison of two bytes is in the flags of their difference.
LEMMA Less8 ==
  ASSUME NEW a \in Operand(8), NEW b \in Operand(8), NEW c, c = 0, NEW d, d = a - b - c
  PROVE  /\ Fit(8, d) = 0 <=> a = b
         /\ ~(Negative(8, d) <=> OverflowSub(8, d, a, b, c)) <=> Signed(8, a) < Signed(8, b)
         /\ Signed(8, a) \in Int /\ Signed(8, b) \in Int
         /\ Signed(8, a) = Signed(8, b) <=> a = b
<1> DEFINE sa == Signed(8, a)
           sb == Signed(8, b)
<1>1. /\ a \in Int /\ b \in Int /\ 0 <= a /\ a < 256 /\ 0 <= b /\ b < 256
      /\ d = a - b /\ d \in Int
  BY Ranges
<1>2. /\ sa = IF a >= 128 THEN a - 256 ELSE a
      /\ sb = IF b >= 128 THEN b - 256 ELSE b
  BY <1>1, SignedByte
<1>3. Fit(8, d) = 0 <=> a = b
  BY <1>1, Byte
<1>4. Negative(8, d) <=> d >= 128 \/ (d >= -128 /\ d < 0)
  <2>1. Negative(8, d) <=> (d \div 128) % 2 = 1
    BY DEF Negative, Bit
  <2> QED BY <1>1, <2>1
<1>5. OverflowSub(8, d, a, b, c) <=> sa - sb < -128 \/ sa - sb > 127
  <2>1. c \in {0, 1} /\ a - b - c = d
    OBVIOUS
  <2>2. PICK e : e = sa - sb - c
    OBVIOUS
  <2>3. ~(OverflowSub(8, d, a, b, c) <=> (c = 1 /\ b = 127)) <=> e < -128 \/ e > 127
    BY <2>1, <2>2, Borrows8
  <2> HIDE DEF sa, sb
  <2>4. e = sa - sb
    BY <1>1, <1>2, <2>2
  <2> QED BY <2>3, <2>4
<1> HIDE DEF sa, sb
<1>6. /\ ~(Negative(8, d) <=> OverflowSub(8, d, a, b, c)) <=> sa < sb
      /\ sa \in Int /\ sb \in Int /\ (sa = sb <=> a = b)
  BY <1>1, <1>2, <1>4, <1>5
<1> QED BY <1>3, <1>6 DEF sa, sb

\* So is that of two words.
LEMMA Less16 ==
  ASSUME NEW a \in Operand(16), NEW b \in Operand(16), NEW c, c = 0, NEW d, d = a - b - c
  PROVE  /\ Fit(16, d) = 0 <=> a = b
         /\ ~(Negative(16, d) <=> OverflowSub(16, d, a, b, c)) <=> Signed(16, a) < Signed(16, b)
         /\ Signed(16, a) \in Int /\ Signed(16, b) \in Int
         /\ Signed(16, a) = Signed(16, b) <=> a = b
<1> DEFINE sa == Signed(16, a)
           sb == Signed(16, b)
<1>1. /\ a \in Int /\ b \in Int /\ 0 <= a /\ a < 65536 /\ 0 <= b /\ b < 65536
      /\ d = a - b /\ d \in Int
  BY Ranges
<1>2. /\ sa = IF a >= 32768 THEN a - 65536 ELSE a
      /\ sb = IF b >= 32768 THEN b - 65536 ELSE b
  BY <1>1, SignedWord
<1>3. Fit(16, d) = 0 <=> a = b
  BY <1>1, Whole
<1>4. Negative(16, d) <=> d >= 32768 \/ (d >= -32768 /\ d < 0)
  BY <1>1, Whole
<1>5. OverflowSub(16, d, a, b, c) <=> sa - sb < -32768 \/ sa - sb > 32767
  BY Borrows16
<1> HIDE DEF sa, sb
<1>6. /\ ~(Negative(16, d) <=> OverflowSub(16, d, a, b, c)) <=> sa < sb
      /\ sa \in Int /\ sb \in Int /\ (sa = sb <=> a = b)
  BY <1>1, <1>2, <1>4, <1>5
<1> QED BY <1>3, <1>6 DEF sa, sb

LEMMA Compared ==
  ASSUME NEW w \in Widths, NEW a \in Operand(w), NEW b \in Operand(w), NEW chained \in BOOLEAN,
         NEW p \in Psw, NEW r, r = Sub(w, a, b, chained, p), NEW q, q = r.psw, ~chained
  PROVE  /\ q \in Psw
         /\ q.cy <=> a < b
         /\ q.z <=> a = b
         /\ ~(q.s <=> q.v) <=> Signed(w, a) < Signed(w, b)
         /\ a \in Int /\ b \in Int /\ Signed(w, a) \in Int /\ Signed(w, b) \in Int
         /\ Signed(w, a) = Signed(w, b) <=> a = b
<1>1. PICK c : c = CarryIn(chained, p)
  OBVIOUS
<1>2. /\ c \in {0, 1} /\ (c = 1 <=> chained /\ p.cy)
      /\ r.psw \in Psw /\ r.dst = Fit(w, a - b - c)
      /\ r.psw.cy <=> a - b - c < 0
      /\ r.psw.z <=> r.dst = 0
      /\ r.psw.s <=> Negative(w, a - b - c)
      /\ r.psw.v <=> OverflowSub(w, a - b - c, a, b, c)
  BY <1>1, SubIs
<1>3. c = 0
  BY <1>2
<1> DEFINE d == a - b - c
<1>4. /\ q \in Psw /\ r.dst = Fit(w, d)
      /\ q.cy <=> d < 0
      /\ q.z <=> r.dst = 0
      /\ q.s <=> Negative(w, d)
      /\ q.v <=> OverflowSub(w, d, a, b, c)
  BY <1>2
<1>5. a \in Int /\ b \in Int
  BY Ranges DEF Widths
<1>6. d = a - b
  BY <1>3, <1>5
<1> HIDE DEF d
<1>7. /\ Fit(w, d) = 0 <=> a = b
      /\ ~(Negative(w, d) <=> OverflowSub(w, d, a, b, c)) <=> Signed(w, a) < Signed(w, b)
      /\ Signed(w, a) \in Int /\ Signed(w, b) \in Int
      /\ Signed(w, a) = Signed(w, b) <=> a = b
  BY <1>3, Less8, Less16 DEF Widths, d
<1>8. ~(q.s <=> q.v) <=> ~(Negative(w, d) <=> OverflowSub(w, d, a, b, c))
  BY <1>4
<1>9. q.z <=> a = b
  BY <1>4, <1>7, Zenon
<1>10. d < 0 <=> a < b
  BY <1>5, <1>6
<1>11. q.cy <=> a < b
  BY <1>4, <1>10, Zenon
<1> QED BY <1>4, <1>5, <1>7, <1>8, <1>9, <1>11

LEMMA Only ==
  ASSUME TypeOK, Next, NEW i, idiom = <<i>>
  PROVE  pc = 0 /\ Insn = i
<1>1. pc \in Nat /\ pc < 1
  BY Acts, Operands DEF TypeOK, Running
<1> QED BY <1>1 DEF Insn

\* From flags that order two operands, every jump decides as it is named.
LEMMA Decides ==
  ASSUME NEW q \in Psw, NEW a \in Int, NEW b \in Int, NEW sa \in Int, NEW sb \in Int,
         q.cy <=> a < b,
         q.z <=> a = b,
         ~(q.s <=> q.v) <=> sa < sb,
         sa = sb <=> a = b
  PROVE  LET j == Jumps(q)
         IN  /\ j.jc = (a < b) /\ j.jnc = (a >= b) /\ j.jcz = (a <= b) /\ j.jncz = (a > b)
             /\ j.jl = (sa < sb) /\ j.jnl = (sa >= sb) /\ j.jle = (sa <= sb) /\ j.jnle = (sa > sb)
             /\ j.jz = (a = b) /\ j.jnz = (a # b)
<1>1. q.s \in BOOLEAN /\ q.v \in BOOLEAN /\ q.z \in BOOLEAN /\ q.cy \in BOOLEAN
  BY DEF Psw
<1>2. (q.s # q.v) <=> sa < sb
  BY <1>1
<1>3. (a >= b <=> ~(a < b)) /\ (a <= b <=> a < b \/ a = b) /\ (a > b <=> ~(a < b \/ a = b))
  OBVIOUS
<1>4. (sa >= sb <=> ~(sa < sb)) /\ (sa <= sb <=> sa < sb \/ a = b) /\ (sa > sb <=> ~(sa < sb \/ a = b))
  OBVIOUS
<1>5. sa < sb => a # b
  OBVIOUS
<1> QED BY <1>1, <1>2, <1>3, <1>4, <1>5, JumpFlags

LEMMA CompareStep ==
  ASSUME TypeOK, Next, NEW on \in Parts, Insn = I("cmp", on, "bw"),
         NEW a, a = Part(on, aw), NEW b, b = Part(on, bw), NEW w, w = Width(on)
  PROVE  /\ aw' = aw /\ pc' = pc + 1
         /\ psw' \in Psw
         /\ psw'.cy <=> a < b
         /\ psw'.z <=> a = b
         /\ ~(psw'.s <=> psw'.v) <=> Signed(w, a) < Signed(w, b)
         /\ a \in Int /\ b \in Int /\ Signed(w, a) \in Int /\ Signed(w, b) \in Int
         /\ Signed(w, a) = Signed(w, b) <=> a = b
<1> DEFINE r == Sub(w, a, b, FALSE, psw)
<1>1. Insn.op = "cmp" /\ Insn.on = on /\ W = w /\ Dst = a /\ Src = b
  BY DEF I, W, Dst, Src
<1>2. Set(Result(a, r.psw))
  BY <1>1, Acts
<1>3. aw' = With(on, aw, a) /\ psw' = r.psw /\ pc' = pc + 1
  BY <1>1, <1>2 DEF Set, Result
<1>4. aw \in Operand(16) /\ bw \in Operand(16) /\ psw \in Psw
  BY DEF TypeOK
<1>5. aw' = aw /\ w \in Widths /\ a \in Operand(w) /\ b \in Operand(w)
  BY <1>3, <1>4, PartIn, WidthOf
<1>6. PICK no \in BOOLEAN : no = FALSE
  OBVIOUS
<1>7. ~no /\ r = Sub(w, a, b, no, psw)
  BY <1>6
<1> HIDE DEF r
<1> QED BY <1>3, <1>4, <1>5, <1>6, <1>7, Compared

LEMMA CmpStep == TypeOK /\ CmpJumps /\ [Next]_vars => CmpJumps'
<1>1. ASSUME CmpJumps, UNCHANGED vars PROVE CmpJumps'
  BY <1>1 DEF vars, CmpJumps, Ended
<1>2. ASSUME TypeOK, Next PROVE CmpJumps'
  <2> DEFINE P(on) ==
        LET a == Part(on, aw)
            b == Part(on, bw)
            sa == Signed(Width(on), a)
            sb == Signed(Width(on), b)
            j == Jumps(psw)
        IN  Ended(Cmp(on)) =>
              /\ j.jc = (a < b) /\ j.jnc = (a >= b) /\ j.jcz = (a <= b) /\ j.jncz = (a > b)
              /\ j.jl = (sa < sb) /\ j.jnl = (sa >= sb) /\ j.jle = (sa <= sb) /\ j.jnle = (sa > sb)
              /\ j.jz = (a = b) /\ j.jnz = (a # b)
  <2>1. ASSUME NEW on \in Parts, Ended(Cmp(on))' PROVE P(on)'
    <3> DEFINE w == Width(on)
               a == Part(on, aw)
               b == Part(on, bw)
    <3>1. idiom = <<I("cmp", on, "bw")>> /\ bw' = bw
      BY <1>2, <2>1, Acts DEF Ended, Cmp
    <3>2. Insn = I("cmp", on, "bw")
      BY <1>2, <3>1, Only
    <3>3. w = Width(on) /\ a = Part(on, aw) /\ b = Part(on, bw)
      OBVIOUS
    <3> HIDE DEF w, a, b
    <3>4. /\ psw' \in Psw /\ aw' = aw
          /\ psw'.cy <=> a < b
          /\ psw'.z <=> a = b
          /\ ~(psw'.s <=> psw'.v) <=> Signed(w, a) < Signed(w, b)
          /\ a \in Int /\ b \in Int /\ Signed(w, a) \in Int /\ Signed(w, b) \in Int
          /\ Signed(w, a) = Signed(w, b) <=> a = b
      BY <1>2, <3>2, <3>3, CompareStep
    <3>5. P(on)' <=> LET sa == Signed(w, a)
                         sb == Signed(w, b)
                         j == Jumps(psw')
                     IN  /\ j.jc = (a < b) /\ j.jnc = (a >= b) /\ j.jcz = (a <= b) /\ j.jncz = (a > b)
                         /\ j.jl = (sa < sb) /\ j.jnl = (sa >= sb) /\ j.jle = (sa <= sb) /\ j.jnle = (sa > sb)
                         /\ j.jz = (a = b) /\ j.jnz = (a # b)
      BY <2>1, <3>1, <3>4 DEF w, a, b
    <3> HIDE DEF P
    <3> QED BY <3>4, <3>5, Decides
  <2>2. \A on \in Parts : P(on)'
    BY <2>1
  <2> QED BY <2>2 DEF CmpJumps
<1> QED BY <1>1, <1>2

\* After a comparison each conditional jump decides as its name says, for signed
\* and for unsigned operands (CMP and the conditions of op_jcc).
THEOREM ComparisonsJump == Spec => []CmpJumps
<1>1. Init => CmpJumps
  BY DEF Init, CmpJumps, Ended, Cmp, I
<1> QED BY <1>1, Typed, CmpStep, PTL DEF Spec

-----------------------------------------------------------------------------
(* Words, a byte at a time.                                                *)

LEMMA SignedBytes ==
  ASSUME NEW x \in Operand(16)
  PROVE  /\ Signed(16, x) = 256 * Signed(8, Ah(x)) + Al(x)
         /\ Signed(8, Ah(x)) \in Int
<1> DEFINE h == Ah(x)
           l == Al(x)
<1>1. h \in Operand(8) /\ x = 256 * h + l /\ l \in Int /\ 0 <= l /\ l < 256 /\ h \in Int
  BY WordParts, Ranges
<1>2. /\ h >= 128 => Signed(8, h) = h - 256
      /\ h < 128 => Signed(8, h) = h
  BY <1>1, SignedByte
<1>3. /\ x >= 32768 => Signed(16, x) = x - 65536
      /\ x < 32768 => Signed(16, x) = x
  BY SignedWord
<1> HIDE DEF h, l
<1>4. x >= 32768 <=> h >= 128
  BY <1>1
<1>5. Signed(16, x) = 256 * Signed(8, h) + l /\ Signed(8, h) \in Int
  BY <1>1, <1>2, <1>3, <1>4
<1> QED BY <1>5 DEF h, l

LEMMA NoWord ==
  ASSUME NEW d \in Int
  PROVE  d \notin Operand(16) <=> d < 0 \/ d > 65535
BY Ranges

LEMMA ByteRange ==
  ASSUME NEW d \in Int
  PROVE  d \notin -128..127 <=> d < -128 \/ d > 127
OBVIOUS

\* The sum of two words is that of their bytes, with the carry.
LEMMA AddWords ==
  ASSUME NEW x \in Operand(16), NEW y \in Operand(16),
         NEW c, c = IF Al(x) + Al(y) > 255 THEN 1 ELSE 0,
         NEW z \in Operand(16), Al(z) = Fit(8, Al(x) + Al(y)), Ah(z) = Fit(8, Ah(x) + Ah(y) + c),
         NEW sum, sum = Signed(16, x) + Signed(16, y)
  PROVE  /\ z = Fit(16, x + y)
         /\ Ah(x) + Ah(y) + c >= 256 <=> x + y \notin Operand(16)
         /\ Negative(8, Ah(x) + Ah(y) + c) <=> Negative(16, z)
         /\ ~(OverflowAdd(8, Ah(x) + Ah(y) + c, Ah(x), Ah(y), c) <=> (c = 1 /\ Ah(y) = 127))
              <=> sum < -32768 \/ sum > 32767
<1> DEFINE hx == Ah(x)
           hy == Ah(y)
           hz == Ah(z)
           lx == Al(x)
           ly == Al(y)
           lz == Al(z)
           hs == hx + hy + c
           sx == Signed(8, hx)
           sy == Signed(8, hy)
           high == sx + sy + c
<1>1. /\ x \in Int /\ y \in Int /\ z \in Int
      /\ hx \in Operand(8) /\ hy \in Operand(8) /\ hz \in Operand(8)
      /\ lx \in Operand(8) /\ ly \in Operand(8) /\ lz \in Operand(8)
      /\ x = 256 * hx + lx /\ y = 256 * hy + ly /\ z = 256 * hz + lz
  BY WordParts, Widening
<1>2. /\ hx \in Int /\ 0 <= hx /\ hx < 256 /\ hy \in Int /\ 0 <= hy /\ hy < 256
      /\ lx \in Int /\ 0 <= lx /\ lx < 256 /\ ly \in Int /\ 0 <= ly /\ ly < 256
      /\ lz \in Int /\ 0 <= lz /\ lz < 256 /\ hz \in Int /\ 0 <= hz /\ hz < 256
  BY <1>1, Ranges
<1>3. c \in {0, 1} /\ (lx + ly > 255 => c = 1) /\ (lx + ly < 256 => c = 0)
  BY <1>2
<1>4. lz = lx + ly - 256 * c
  BY <1>2, <1>3, Byte
<1>5. hs \in Int /\ 0 <= hs /\ hs < 512
  BY <1>2, <1>3
<1>6. /\ hs < 256 => hz = hs
      /\ hs >= 256 => hz = hs - 256
  BY <1>5, Byte
<1>7. Negative(8, hs) <=> hz >= 128
  <2>1. Negative(8, hs) <=> (hs \div 128) % 2 = 1
    BY DEF Negative, Bit
  <2> HIDE DEF hs, hz
  <2> QED BY <1>5, <1>6, <2>1
<1>8. ~(OverflowAdd(8, hs, hx, hy, c) <=> (c = 1 /\ hy = 127)) <=> high \notin -128..127
  <2>1. hx \in Operand(8) /\ hy \in Operand(8) /\ c \in {0, 1}
    BY <1>1, <1>3
  <2> HIDE DEF hx, hy
  <2> QED BY <2>1, Carries8
<1>9. /\ sum = 256 * (sx + sy) + lx + ly
      /\ sx \in Int /\ sy \in Int
  BY SignedBytes, <1>2
<1> HIDE DEF hx, hy, hz, lx, ly, lz, sx, sy
<1>10. high \in Int /\ sum \in Int /\ sum = 256 * high + lz
  BY <1>2, <1>3, <1>4, <1>9
<1> HIDE DEF high
<1>11. high \notin -128..127 <=> sum < -32768 \/ sum > 32767
  <2>1. high \notin -128..127 <=> high < -128 \/ high > 127
    BY <1>10, ByteRange
  <2>2. high < -128 \/ high > 127 <=> sum < -32768 \/ sum > 32767
    BY <1>2, <1>10
  <2> QED BY <2>1, <2>2
<1>12. x + y = 256 * hs + lz
  BY <1>1, <1>2, <1>3, <1>4
<1>13. z = Fit(16, x + y) /\ (hs >= 256 <=> x + y \notin Operand(16))
  <2> DEFINE s == x + y
  <2>1. s \in Int /\ 0 <= s /\ s < 131072 /\ (s >= 65536 <=> hs >= 256)
    BY <1>1, <1>2, <1>5, <1>12
  <2>2. z = s \/ (hs >= 256 /\ z = s - 65536)
    BY <1>1, <1>2, <1>5, <1>6, <1>12
  <2>3. hs >= 256 => z = s - 65536
    BY <1>1, <1>2, <1>5, <1>6, <1>12
  <2> HIDE DEF s, hs
  <2>4. z = Fit(16, s) /\ (hs >= 256 <=> s \notin Operand(16))
    BY <2>1, <2>2, <2>3, Whole, NoWord
  <2> QED BY <2>4 DEF s
<1>14. Negative(16, z) <=> hz >= 128
  <2>1. 0 <= z /\ z < 65536 /\ (z >= 32768 <=> hz >= 128)
    BY <1>1, <1>2
  <2> QED BY <1>1, <2>1, Whole
<1>15. Negative(8, hs) <=> Negative(16, z)
  BY <1>7, <1>14
<1>16. ~(OverflowAdd(8, hs, hx, hy, c) <=> (c = 1 /\ hy = 127)) <=> sum < -32768 \/ sum > 32767
  BY <1>8, <1>11
<1> QED BY <1>13, <1>15, <1>16 DEF hx, hy, hz

\* Their difference is that of their bytes, with the borrow.
LEMMA SubWords ==
  ASSUME NEW x \in Operand(16), NEW y \in Operand(16),
         NEW c, c = IF Al(x) < Al(y) THEN 1 ELSE 0,
         NEW z \in Operand(16), Al(z) = Fit(8, Al(x) - Al(y)), Ah(z) = Fit(8, Ah(x) - Ah(y) - c),
         NEW sum, sum = Signed(16, x) - Signed(16, y)
  PROVE  /\ z = Fit(16, x - y)
         /\ Ah(x) - Ah(y) - c < 0 <=> x < y
         /\ x < y <=> x - y \notin Operand(16)
         /\ Negative(8, Ah(x) - Ah(y) - c) <=> Negative(16, z)
         /\ ~(OverflowSub(8, Ah(x) - Ah(y) - c, Ah(x), Ah(y), c) <=> (c = 1 /\ Ah(y) = 127))
              <=> sum < -32768 \/ sum > 32767
<1> DEFINE hx == Ah(x)
           hy == Ah(y)
           hz == Ah(z)
           lx == Al(x)
           ly == Al(y)
           lz == Al(z)
           hs == hx - hy - c
           sx == Signed(8, hx)
           sy == Signed(8, hy)
           high == sx - sy - c
<1>1. /\ x \in Int /\ y \in Int /\ z \in Int
      /\ hx \in Operand(8) /\ hy \in Operand(8) /\ hz \in Operand(8)
      /\ lx \in Operand(8) /\ ly \in Operand(8) /\ lz \in Operand(8)
      /\ x = 256 * hx + lx /\ y = 256 * hy + ly /\ z = 256 * hz + lz
  BY WordParts, Widening
<1>2. /\ hx \in Int /\ 0 <= hx /\ hx < 256 /\ hy \in Int /\ 0 <= hy /\ hy < 256
      /\ lx \in Int /\ 0 <= lx /\ lx < 256 /\ ly \in Int /\ 0 <= ly /\ ly < 256
      /\ lz \in Int /\ 0 <= lz /\ lz < 256 /\ hz \in Int /\ 0 <= hz /\ hz < 256
  BY <1>1, Ranges
<1>3. c \in {0, 1} /\ (lx < ly => c = 1) /\ (lx >= ly => c = 0)
  BY <1>2
<1>4. lz = lx - ly + 256 * c
  BY <1>2, <1>3, Byte
<1>5. hs \in Int /\ -256 <= hs /\ hs < 256
  BY <1>2, <1>3
<1>6. /\ hs >= 0 => hz = hs
      /\ hs < 0 => hz = hs + 256
  BY <1>5, Byte
<1>7. Negative(8, hs) <=> hz >= 128
  <2>1. Negative(8, hs) <=> (hs \div 128) % 2 = 1
    BY DEF Negative, Bit
  <2> HIDE DEF hs, hz
  <2> QED BY <1>5, <1>6, <2>1
<1>8. ~(OverflowSub(8, hs, hx, hy, c) <=> (c = 1 /\ hy = 127)) <=> high < -128 \/ high > 127
  <2>1. hx \in Operand(8) /\ hy \in Operand(8) /\ c \in {0, 1}
    BY <1>1, <1>3
  <2> HIDE DEF hx, hy
  <2> QED BY <2>1, Borrows8
<1>9. /\ sum = 256 * (sx - sy) + lx - ly
      /\ sx \in Int /\ sy \in Int
  BY SignedBytes, <1>2
<1> HIDE DEF hx, hy, hz, lx, ly, lz, sx, sy
<1>10. high \in Int /\ sum \in Int /\ sum = 256 * high + lz
  BY <1>2, <1>3, <1>4, <1>9
<1> HIDE DEF high
<1>11. high < -128 \/ high > 127 <=> sum < -32768 \/ sum > 32767
  BY <1>2, <1>10
<1>12. x - y = 256 * hs + lz
  BY <1>1, <1>2, <1>3, <1>4
<1>13. z = Fit(16, x - y) /\ (hs < 0 <=> x < y) /\ (x < y <=> x - y \notin Operand(16))
  <2> DEFINE s == x - y
  <2>1. s \in Int /\ -65536 <= s /\ s < 65536 /\ (s < 0 <=> hs < 0) /\ (s < 0 <=> x < y)
    BY <1>1, <1>2, <1>5, <1>12
  <2>2. (hs >= 0 => z = s) /\ (hs < 0 => z = s + 65536)
    BY <1>1, <1>2, <1>5, <1>6, <1>12
  <2> HIDE DEF s, hs
  <2>3. z = Fit(16, s) /\ (s < 0 <=> s \notin Operand(16))
    BY <1>5, <2>1, <2>2, Whole, NoWord
  <2> QED BY <2>1, <2>3 DEF s
<1>14. Negative(16, z) <=> hz >= 128
  <2>1. 0 <= z /\ z < 65536 /\ (z >= 32768 <=> hz >= 128)
    BY <1>1, <1>2
  <2> QED BY <1>1, <2>1, Whole
<1>15. Negative(8, hs) <=> Negative(16, z)
  BY <1>7, <1>14
<1>16. ~(OverflowSub(8, hs, hx, hy, c) <=> (c = 1 /\ hy = 127)) <=> sum < -32768 \/ sum > 32767
  BY <1>8, <1>11
<1> QED BY <1>13, <1>15, <1>16 DEF hx, hy, hz

-----------------------------------------------------------------------------
(* What holds before an idiom has ended.                                   *)

\* The idioms that may fault.
Divided == {MulBack, ImulBack, DivBy("div"), DivBy("idiv"), Digits}

\* Before its first instruction an idiom has the registers it started from.
Started ==
  /\ pc = 0 /\ ~faulted => aw = from.aw /\ psw = from.psw
  /\ faulted => idiom \in Divided

LEMMA DividedIdioms ==
  ASSUME NEW seq \in Idioms, NEW k \in 1..Len(seq), seq[k].op \in Dividing
  PROVE  seq \in Divided
<1> USE DEF I, Dividing
<1>a. \A i1 : LET q == <<i1>> IN Len(q) = 1 /\ q[1] = i1
  OBVIOUS
<1>b. \A i1, i2 : LET q == <<i1, i2>> IN Len(q) = 2 /\ q[1] = i1 /\ q[2] = i2
  OBVIOUS
<1>c. \A i1, i2, i3 : LET q == <<i1, i2, i3>> IN Len(q) = 3 /\ q[1] = i1 /\ q[2] = i2 /\ q[3] = i3
  OBVIOUS
<1>d. \A m : (m \in 1..1 <=> m = 1) /\ (m \in 1..2 <=> m = 1 \/ m = 2)
                /\ (m \in 1..3 <=> m = 1 \/ m = 2 \/ m = 3)
  OBVIOUS
<1> USE <1>a, <1>b, <1>c, <1>d
<1>1. seq \notin {AddBytes, SubBytes, NegBytes}
  <2>1. seq # AddBytes
    BY DEF AddBytes
  <2>2. seq # SubBytes
    BY DEF SubBytes
  <2>3. seq # NegBytes
    BY DEF NegBytes
  <2> QED BY <2>1, <2>2, <2>3, Zenon
<1>2. seq \notin {CmpBytes, ShlBytes, ShrBytes, SarBytes}
  BY DEF CmpBytes, ShlBytes, ShrBytes, SarBytes
<1>4. seq \notin {Cmp(on) : on \in Parts} \union {Test(op, on) : op \in Tests, on \in Parts}
  BY DEF Cmp, Test, Tests
<1>5. seq \notin {RotateBack(r[1], r[2], on) : r \in Rotations, on \in Parts}
  <2> SUFFICES ASSUME NEW r \in Rotations, NEW on \in Parts, seq = RotateBack(r[1], r[2], on)
               PROVE  FALSE
    OBVIOUS
  <2>2. r[1] \notin Dividing /\ r[2] \notin Dividing
    BY DEF Rotations
  <2> QED BY <2>2 DEF RotateBack
<1>6. seq \notin {ShiftByCl(op, on) : op \in Shiftings, on \in Parts}
  BY DEF ShiftByCl, Shiftings
<1>7. seq \notin {Decimal(a[1], a[2]) : a \in Adjusts}
  <2> SUFFICES ASSUME NEW a \in Adjusts, seq = Decimal(a[1], a[2]) PROVE FALSE
    OBVIOUS
  <2>2. a[1] \notin Dividing /\ a[2] \notin Dividing
    BY DEF Adjusts
  <2> QED BY <2>2 DEF Decimal
<1>8. seq \in {Digits, MulBack, ImulBack} \union {DivBy(op) : op \in {"div", "idiv"}}
  BY <1>1, <1>2, <1>4, <1>5, <1>6, <1>7 DEF Idioms
<1> QED BY <1>8 DEF Divided

LEMMA StartedStep == TypeOK /\ Started /\ [Next]_vars => Started'
<1>1. ASSUME Started, UNCHANGED vars PROVE Started'
  BY <1>1 DEF vars, Started
<1>2. ASSUME TypeOK, Started, Next PROVE Started'
  <2>1. Running /\ idiom' = idiom /\ pc \in Nat
    BY <1>2, Acts, WellFormedIdioms DEF TypeOK
  <2>2. CASE Insn.op \notin Dividing
    BY <1>2, <2>1, <2>2, Acts DEF Started
  <2>3. CASE Insn.op \in Dividing
    <3>1. idiom \in Divided
      BY <1>2, <2>1, <2>3, Operands, DividedIdioms DEF Insn, TypeOK
    <3>2. ExecDiv \/ DivFault
      BY <1>2, <2>3, Acts
    <3>3. (pc' = pc + 1) \/ faulted'
      BY <3>2 DEF ExecDiv, DivFault, Set
    <3> QED BY <2>1, <3>1, <3>3 DEF Started
  <2> QED BY <2>2, <2>3
<1> QED BY <1>1, <1>2

LEMMA AlwaysStarted == Spec => []Started
<1>1. Init => Started
  BY DEF Init, Started
<1> QED BY <1>1, Typed, StartedStep, PTL DEF Spec

LEMMA InsnOf2 ==
  ASSUME TypeOK, Next, NEW i1, NEW i2, idiom = <<i1, i2>>
  PROVE  /\ pc \in {0, 1}
         /\ pc = 0 => Insn = i1
         /\ pc = 1 => Insn = i2
<1>1. pc \in Nat /\ pc < 2
  BY Acts, Operands DEF TypeOK, Running
<1> QED BY <1>1 DEF Insn

LEMMA InsnOf3 ==
  ASSUME TypeOK, Next, NEW i1, NEW i2, NEW i3, idiom = <<i1, i2, i3>>
  PROVE  /\ pc \in {0, 1, 2}
         /\ pc = 0 => Insn = i1
         /\ pc = 1 => Insn = i2
         /\ pc = 2 => Insn = i3
<1>1. pc \in Nat /\ pc < 3
  BY Acts, Operands DEF TypeOK, Running
<1> QED BY <1>1 DEF Insn

LEMMA Unfaulted ==
  ASSUME Started, idiom[1].op \notin {"aam", "mul", "imul", "div", "idiv"}
  PROVE  /\ ~faulted
         /\ pc = 0 => aw = from.aw /\ psw = from.psw
<1>1. \A seq \in Divided : seq[1].op \in {"aam", "mul", "imul", "div", "idiv"}
  BY DEF Divided, MulBack, ImulBack, DivBy, Digits, I
<1> QED BY <1>1 DEF Started

\* The low bytes have been compared, added or subtracted.
LowDone ==
  /\ idiom = CmpBytes /\ pc = 1 =>
       aw = from.aw /\ (psw.cy <=> Al(from.aw) < Al(bw))
  /\ idiom = AddBytes /\ pc \in {1, 2} =>
       /\ Ah(aw) = Ah(from.aw) /\ Al(aw) = Fit(8, Al(from.aw) + Al(bw))
       /\ psw.cy <=> Al(from.aw) + Al(bw) > 255
  /\ idiom = SubBytes /\ pc \in {1, 2} =>
       /\ Ah(aw) = Ah(from.aw) /\ Al(aw) = Fit(8, Al(from.aw) - Al(bw))
       /\ psw.cy <=> Al(from.aw) < Al(bw)

LEMMA TypeFacts ==
  ASSUME TypeOK
  PROVE  /\ aw \in Operand(16) /\ bw \in Operand(16) /\ cw \in Operand(16) /\ psw \in Psw
         /\ from.aw \in Operand(16) /\ from.psw \in Psw
         /\ \A on \in Parts : Part(on, aw) \in Operand(Width(on)) /\ Part(on, bw) \in Operand(Width(on))
BY PartIn DEF TypeOK

LEMMA PartSet ==
  ASSUME TypeOK, NEW on \in Parts, NEW r, Insn.on = on, Set(r), r.dst \in Operand(Width(on))
  PROVE  /\ psw' = r.psw /\ pc' = pc + 1 /\ aw' = With(on, aw, r.dst)
         /\ Part(on, aw') = r.dst
         /\ on = "al" => Al(aw') = r.dst /\ Ah(aw') = Ah(aw)
         /\ on = "ah" => Ah(aw') = r.dst /\ Al(aw') = Al(aw)
<1>1. aw' = With(on, aw, r.dst) /\ psw' = r.psw /\ pc' = pc + 1
  BY DEF Set
<1> QED BY <1>1, TypeFacts, Parted

LEMMA AddStep ==
  ASSUME TypeOK, Next, NEW on \in {"al", "ah"}, NEW op \in {"add", "adc"}, Insn = I(op, on, "bw"),
         NEW c, c = CarryIn(op = "adc", psw)
  PROVE  /\ c \in {0, 1} /\ (c = 1 <=> op = "adc" /\ psw.cy)
         /\ pc' = pc + 1 /\ psw' \in Psw
         /\ Part(on, aw') = Fit(8, Part(on, aw) + Part(on, bw) + c)
         /\ on = "al" => Ah(aw') = Ah(aw)
         /\ on = "ah" => Al(aw') = Al(aw)
         /\ psw'.cy <=> Part(on, aw) + Part(on, bw) + c >= 256
         /\ psw'.ac <=> (Part(on, aw) % 16) + (Part(on, bw) % 16) + c >= 16
         /\ psw'.s <=> Negative(8, Part(on, aw) + Part(on, bw) + c)
         /\ psw'.v <=> OverflowAdd(8, Part(on, aw) + Part(on, bw) + c, Part(on, aw), Part(on, bw), c)
<1> DEFINE a == Part(on, aw)
           b == Part(on, bw)
           chained == op = "adc"
           r == Add(8, a, b, chained, psw)
<1>1. Insn.op = op /\ Insn.on = on /\ Insn.by = "bw"
  BY DEF I
<1>2. W = 8 /\ Dst = a /\ Src = b
  BY <1>1 DEF W, Width, Dst, Src
<1>3. Set(r)
  BY <1>1, <1>2, Acts
<1>4. a \in Operand(8) /\ b \in Operand(8) /\ a \in Int /\ b \in Int /\ on \in Parts /\ Width(on) = 8
  BY TypeFacts, Widening DEF Width, Parts
<1>5. chained \in BOOLEAN /\ 8 \in Widths /\ psw \in Psw
  BY TypeFacts DEF Widths
<1>c. c = CarryIn(chained, psw) /\ r = Add(8, a, b, chained, psw)
  OBVIOUS
<1> HIDE DEF a, b, chained, r
<1>6a. /\ c \in {0, 1} /\ (c = 1 <=> chained /\ psw.cy)
       /\ r.psw \in Psw /\ r.dst = Fit(8, a + b + c)
  BY <1>4, <1>5, <1>c, AddIs
<1>6b. r.psw.cy <=> a + b + c >= 256
  BY <1>4, <1>5, <1>c, AddIs
<1>6c. r.psw.ac <=> (a % 16) + (b % 16) + c >= 16
  BY <1>4, <1>5, <1>c, AddIs
<1>6d. r.psw.s <=> Negative(8, a + b + c)
  BY <1>4, <1>5, <1>c, AddIs
<1>6e. r.psw.v <=> OverflowAdd(8, a + b + c, a, b, c)
  BY <1>4, <1>5, <1>c, AddIs
<1>7. r.dst \in Operand(8)
  BY <1>4, <1>6a, Byte
<1>8. /\ psw' = r.psw /\ pc' = pc + 1
      /\ Part(on, aw') = r.dst
      /\ on = "al" => Ah(aw') = Ah(aw)
      /\ on = "ah" => Al(aw') = Al(aw)
  BY <1>1, <1>3, <1>4, <1>7, PartSet
<1> QED BY <1>6a, <1>6b, <1>6c, <1>6d, <1>6e, <1>8 DEF a, b, chained

LEMMA SubStep ==
  ASSUME TypeOK, Next, NEW on \in {"al", "ah"}, NEW op \in {"sub", "sbb"}, Insn = I(op, on, "bw"),
         NEW c, c = CarryIn(op = "sbb", psw)
  PROVE  /\ c \in {0, 1} /\ (c = 1 <=> op = "sbb" /\ psw.cy)
         /\ pc' = pc + 1 /\ psw' \in Psw
         /\ Part(on, aw') = Fit(8, Part(on, aw) - Part(on, bw) - c)
         /\ on = "al" => Ah(aw') = Ah(aw)
         /\ on = "ah" => Al(aw') = Al(aw)
         /\ psw'.cy <=> Part(on, aw) - Part(on, bw) - c < 0
         /\ psw'.ac <=> (Part(on, aw) % 16) - (Part(on, bw) % 16) - c < 0
         /\ psw'.z <=> Part(on, aw') = 0
         /\ psw'.s <=> Negative(8, Part(on, aw) - Part(on, bw) - c)
         /\ psw'.v <=> OverflowSub(8, Part(on, aw) - Part(on, bw) - c, Part(on, aw), Part(on, bw), c)
<1> DEFINE a == Part(on, aw)
           b == Part(on, bw)
           chained == op = "sbb"
           r == Sub(8, a, b, chained, psw)
<1>1. Insn.op = op /\ Insn.on = on /\ Insn.by = "bw"
  BY DEF I
<1>2. W = 8 /\ Dst = a /\ Src = b
  BY <1>1 DEF W, Width, Dst, Src
<1>3. Set(r)
  BY <1>1, <1>2, Acts
<1>4. a \in Operand(8) /\ b \in Operand(8) /\ a \in Int /\ b \in Int /\ on \in Parts /\ Width(on) = 8
  BY TypeFacts, Widening DEF Width, Parts
<1>5. chained \in BOOLEAN /\ 8 \in Widths /\ psw \in Psw
  BY TypeFacts DEF Widths
<1>c. c = CarryIn(chained, psw) /\ r = Sub(8, a, b, chained, psw)
  OBVIOUS
<1> HIDE DEF a, b, chained, r
<1>6a. /\ c \in {0, 1} /\ (c = 1 <=> chained /\ psw.cy)
       /\ r.psw \in Psw /\ r.dst = Fit(8, a - b - c)
  BY <1>4, <1>5, <1>c, SubIs
<1>6b. r.psw.cy <=> a - b - c < 0
  BY <1>4, <1>5, <1>c, SubIs
<1>6c. r.psw.ac <=> (a % 16) - (b % 16) - c < 0
  BY <1>4, <1>5, <1>c, SubIs
<1>6z. r.psw.z <=> r.dst = 0
  BY <1>4, <1>5, <1>c, SubIs
<1>6d. r.psw.s <=> Negative(8, a - b - c)
  BY <1>4, <1>5, <1>c, SubIs
<1>6e. r.psw.v <=> OverflowSub(8, a - b - c, a, b, c)
  BY <1>4, <1>5, <1>c, SubIs
<1>7. r.dst \in Operand(8)
  BY <1>4, <1>6a, Byte
<1>8. /\ psw' = r.psw /\ pc' = pc + 1
      /\ Part(on, aw') = r.dst
      /\ on = "al" => Ah(aw') = Ah(aw)
      /\ on = "ah" => Al(aw') = Al(aw)
  BY <1>1, <1>3, <1>4, <1>7, PartSet
<1> QED BY <1>6a, <1>6b, <1>6c, <1>6z, <1>6d, <1>6e, <1>8 DEF a, b, chained

LEMMA StepStep ==
  ASSUME TypeOK, Next, Insn.op \in Stepping
  PROVE  aw' = aw /\ (psw'.cy <=> psw.cy) /\ pc' = pc + 1
<1> DEFINE up == Insn.op = "inc"
           r == IF up THEN Inc(16, cw, psw) ELSE Dec(16, cw, psw)
<1>1. psw' = r.psw /\ pc' = pc + 1 /\ aw' = aw
  BY Acts DEF ExecIncDec
<1>2. up \in BOOLEAN
  OBVIOUS
<1> HIDE DEF up
<1>3. r.psw.cy <=> psw.cy
  BY <1>2, TypeFacts, StepIs
<1> QED BY <1>1, <1>3

LEMMA LowStep == TypeOK /\ Started /\ LowDone /\ [Next]_vars => LowDone'
<1>1. ASSUME LowDone, UNCHANGED vars PROVE LowDone'
  BY <1>1 DEF vars, LowDone
<1>2. ASSUME TypeOK, Started, LowDone, Next PROVE LowDone'
  <2>1. idiom' = idiom /\ bw' = bw /\ from' = from
    BY <1>2, Acts
  <2>2. ASSUME idiom = CmpBytes, pc' = 1
        PROVE  aw' = from.aw /\ (psw'.cy <=> Al(from.aw) < Al(bw))
    <3>1. /\ pc \in {0, 1}
          /\ pc = 0 => Insn = I("cmp", "al", "bw")
          /\ pc = 1 => Insn = I("sbb", "ah", "bw")
      BY <1>2, <2>2, InsnOf2 DEF CmpBytes
    <3>2. pc = 0
      BY <1>2, <2>2, <3>1, Acts DEF I, Dividing
    <3>3. aw = from.aw
      BY <1>2, <2>2, <3>2, Unfaulted DEF CmpBytes, I
    <3>4. Part("al", aw) = Al(aw) /\ Part("al", bw) = Al(bw) /\ "al" \in Parts
      BY DEF Part, Parts
    <3>5. aw' = aw /\ (psw'.cy <=> Part("al", aw) < Part("al", bw))
      BY <1>2, <3>1, <3>2, <3>4, CompareStep
    <3> QED BY <3>3, <3>4, <3>5
  <2>3. ASSUME idiom = AddBytes, pc' \in {1, 2}
        PROVE  /\ Ah(aw') = Ah(from.aw) /\ Al(aw') = Fit(8, Al(from.aw) + Al(bw))
               /\ psw'.cy <=> Al(from.aw) + Al(bw) > 255
    <3>1. /\ pc \in {0, 1, 2}
          /\ pc = 0 => Insn = I("add", "al", "bw")
          /\ pc = 1 => Insn = I("inc", "cw", "zero")
          /\ pc = 2 => Insn = I("adc", "ah", "bw")
      BY <1>2, <2>3, InsnOf3 DEF AddBytes
    <3>2. pc' = pc + 1
      BY <1>2, <3>1, Acts DEF I, Dividing
    <3>3. CASE pc = 0
      <4>1. aw = from.aw
        BY <1>2, <2>3, <3>3, Unfaulted DEF AddBytes, I
      <4>2. Part("al", aw) = Al(aw) /\ Part("al", bw) = Al(bw) /\ Part("al", aw') = Al(aw')
        BY DEF Part
      <4>3. PICK c : c = CarryIn("add" = "adc", psw)
        OBVIOUS
      <4>4. /\ c \in {0, 1} /\ (c = 1 <=> "add" = "adc" /\ psw.cy)
            /\ Part("al", aw') = Fit(8, Part("al", aw) + Part("al", bw) + c)
            /\ Ah(aw') = Ah(aw)
            /\ psw'.cy <=> Part("al", aw) + Part("al", bw) + c >= 256
        BY <1>2, <3>1, <3>3, <4>3, AddStep
      <4>5. Al(aw) \in Int /\ Al(bw) \in Int
        BY <1>2, WordParts, Widening DEF TypeOK
      <4>6. c = 0 /\ Al(aw) + Al(bw) + c = Al(aw) + Al(bw)
        BY <4>4, <4>5
      <4> QED BY <4>1, <4>2, <4>4, <4>5, <4>6
    <3>4. CASE pc = 1
      <4>1. aw' = aw /\ (psw'.cy <=> psw.cy)
        BY <1>2, <3>1, <3>4, StepStep DEF I, Stepping
      <4> QED BY <1>2, <2>3, <3>4, <4>1 DEF LowDone
    <3> QED BY <2>3, <3>1, <3>2, <3>3, <3>4
  <2>4. ASSUME idiom = SubBytes, pc' \in {1, 2}
        PROVE  /\ Ah(aw') = Ah(from.aw) /\ Al(aw') = Fit(8, Al(from.aw) - Al(bw))
               /\ psw'.cy <=> Al(from.aw) < Al(bw)
    <3>1. /\ pc \in {0, 1, 2}
          /\ pc = 0 => Insn = I("sub", "al", "bw")
          /\ pc = 1 => Insn = I("dec", "cw", "zero")
          /\ pc = 2 => Insn = I("sbb", "ah", "bw")
      BY <1>2, <2>4, InsnOf3 DEF SubBytes
    <3>2. pc' = pc + 1
      BY <1>2, <3>1, Acts DEF I, Dividing
    <3>3. CASE pc = 0
      <4>1. aw = from.aw
        BY <1>2, <2>4, <3>3, Unfaulted DEF SubBytes, I
      <4>2. Part("al", aw) = Al(aw) /\ Part("al", bw) = Al(bw) /\ Part("al", aw') = Al(aw')
        BY DEF Part
      <4>3. PICK c : c = CarryIn("sub" = "sbb", psw)
        OBVIOUS
      <4>4. /\ c \in {0, 1} /\ (c = 1 <=> "sub" = "sbb" /\ psw.cy)
            /\ Part("al", aw') = Fit(8, Part("al", aw) - Part("al", bw) - c)
            /\ Ah(aw') = Ah(aw)
            /\ psw'.cy <=> Part("al", aw) - Part("al", bw) - c < 0
        BY <1>2, <3>1, <3>3, <4>3, SubStep
      <4>5. Al(aw) \in Int /\ Al(bw) \in Int
        BY <1>2, WordParts, Widening DEF TypeOK
      <4>6. c = 0 /\ Al(aw) - Al(bw) - c = Al(aw) - Al(bw)
        BY <4>4, <4>5
      <4> QED BY <4>1, <4>2, <4>4, <4>5, <4>6
    <3>4. CASE pc = 1
      <4>1. aw' = aw /\ (psw'.cy <=> psw.cy)
        BY <1>2, <3>1, <3>4, StepStep DEF I, Stepping
      <4> QED BY <1>2, <2>4, <3>4, <4>1 DEF LowDone
    <3> QED BY <2>4, <3>1, <3>2, <3>3, <3>4
  <2> QED BY <2>1, <2>2, <2>3, <2>4 DEF LowDone
<1> QED BY <1>1, <1>2

LEMMA AlwaysLowDone == Spec => []LowDone
<1>1. Init => LowDone
  BY DEF Init, LowDone
<1> QED BY <1>1, Typed, AlwaysStarted, LowStep, PTL DEF Spec

LEMMA WordRange ==
  ASSUME NEW d \in Int
  PROVE  d \in SignedOperand(16) <=> ~(d < -32768 \/ d > 32767)
BY DEF SignedOperand

LEMMA HighAdded ==
  ASSUME TypeOK, Started, LowDone, Next, idiom = AddBytes, pc' = 3,
         NEW x, x = from.aw, NEW y, y = bw,
         NEW sum, sum = Signed(16, x) + Signed(16, y)
  PROVE  /\ aw' = Fit(16, x + y)
         /\ psw' \in Psw
         /\ psw'.cy <=> x + y \notin Operand(16)
         /\ psw'.s <=> Negative(16, aw')
         /\ ~(psw'.v <=> (Al(x) + Al(y) > 255 /\ Ah(y) = 127)) <=> sum < -32768 \/ sum > 32767
<1>1. /\ pc \in {0, 1, 2}
      /\ pc = 0 => Insn = I("add", "al", "bw")
      /\ pc = 1 => Insn = I("inc", "cw", "zero")
      /\ pc = 2 => Insn = I("adc", "ah", "bw")
  BY InsnOf3 DEF AddBytes
<1>2. pc' = pc + 1
  BY <1>1, Acts DEF I, Dividing
<1>3. pc = 2 /\ Insn = I("adc", "ah", "bw")
  BY <1>1, <1>2
<1>4. /\ Ah(aw) = Ah(x) /\ Al(aw) = Fit(8, Al(x) + Al(y))
      /\ psw.cy <=> Al(x) + Al(y) > 255
  BY <1>3 DEF LowDone
<1>5. PICK chained : chained = "adc"
  OBVIOUS
<1>6. PICK c : c = CarryIn(chained = "adc", psw)
  OBVIOUS
<1>7. Part("ah", aw) = Ah(aw) /\ Part("ah", bw) = Ah(bw) /\ Part("ah", aw') = Ah(aw')
  BY DEF Part
<1>8. /\ c \in {0, 1} /\ (c = 1 <=> chained = "adc" /\ psw.cy)
      /\ psw' \in Psw
      /\ Ah(aw') = Fit(8, Ah(x) + Ah(y) + c) /\ Al(aw') = Al(aw)
      /\ psw'.cy <=> Ah(x) + Ah(y) + c >= 256
      /\ psw'.s <=> Negative(8, Ah(x) + Ah(y) + c)
      /\ psw'.v <=> OverflowAdd(8, Ah(x) + Ah(y) + c, Ah(x), Ah(y), c)
  BY <1>3, <1>4, <1>5, <1>6, <1>7, AddStep
<1>9. c = IF Al(x) + Al(y) > 255 THEN 1 ELSE 0
  BY <1>4, <1>5, <1>8
<1>10. x \in Operand(16) /\ y \in Operand(16) /\ aw' \in Operand(16)
  BY TypeFacts, TypeStep DEF TypeOK
<1>11. /\ aw' = Fit(16, x + y)
       /\ Ah(x) + Ah(y) + c >= 256 <=> x + y \notin Operand(16)
       /\ Negative(8, Ah(x) + Ah(y) + c) <=> Negative(16, aw')
       /\ ~(OverflowAdd(8, Ah(x) + Ah(y) + c, Ah(x), Ah(y), c) <=> (c = 1 /\ Ah(y) = 127))
            <=> sum < -32768 \/ sum > 32767
  BY <1>4, <1>8, <1>9, <1>10, AddWords
<1>12. c = 1 <=> Al(x) + Al(y) > 255
  BY <1>9
<1> QED BY <1>8, <1>11, <1>12

LEMMA HighSubtracted ==
  ASSUME TypeOK, Started, LowDone, Next, idiom = SubBytes, pc' = 3,
         NEW x, x = from.aw, NEW y, y = bw,
         NEW sum, sum = Signed(16, x) - Signed(16, y)
  PROVE  /\ aw' = Fit(16, x - y)
         /\ psw' \in Psw
         /\ psw'.cy <=> x - y \notin Operand(16)
         /\ psw'.s <=> Negative(16, aw')
         /\ ~(psw'.v <=> (Al(x) < Al(y) /\ Ah(y) = 127)) <=> sum < -32768 \/ sum > 32767
<1>1. /\ pc \in {0, 1, 2}
      /\ pc = 0 => Insn = I("sub", "al", "bw")
      /\ pc = 1 => Insn = I("dec", "cw", "zero")
      /\ pc = 2 => Insn = I("sbb", "ah", "bw")
  BY InsnOf3 DEF SubBytes
<1>2. pc' = pc + 1
  BY <1>1, Acts DEF I, Dividing
<1>3. pc = 2 /\ Insn = I("sbb", "ah", "bw")
  BY <1>1, <1>2
<1>4. /\ Ah(aw) = Ah(x) /\ Al(aw) = Fit(8, Al(x) - Al(y))
      /\ psw.cy <=> Al(x) < Al(y)
  BY <1>3 DEF LowDone
<1>5. PICK c : c = CarryIn("sbb" = "sbb", psw)
  OBVIOUS
<1>6. Part("ah", aw) = Ah(aw) /\ Part("ah", bw) = Ah(bw) /\ Part("ah", aw') = Ah(aw')
  BY DEF Part
<1>7. /\ c \in {0, 1} /\ (c = 1 <=> psw.cy)
      /\ psw' \in Psw
      /\ Ah(aw') = Fit(8, Ah(x) - Ah(y) - c) /\ Al(aw') = Al(aw)
      /\ psw'.cy <=> Ah(x) - Ah(y) - c < 0
      /\ psw'.s <=> Negative(8, Ah(x) - Ah(y) - c)
      /\ psw'.v <=> OverflowSub(8, Ah(x) - Ah(y) - c, Ah(x), Ah(y), c)
  BY <1>3, <1>4, <1>5, <1>6, SubStep
<1>8. c = IF Al(x) < Al(y) THEN 1 ELSE 0
  BY <1>4, <1>7
<1>9. x \in Operand(16) /\ y \in Operand(16) /\ aw' \in Operand(16)
  BY TypeFacts, TypeStep DEF TypeOK
<1>10. /\ aw' = Fit(16, x - y)
       /\ Ah(x) - Ah(y) - c < 0 <=> x < y
       /\ x < y <=> x - y \notin Operand(16)
       /\ Negative(8, Ah(x) - Ah(y) - c) <=> Negative(16, aw')
       /\ ~(OverflowSub(8, Ah(x) - Ah(y) - c, Ah(x), Ah(y), c) <=> (c = 1 /\ Ah(y) = 127))
            <=> sum < -32768 \/ sum > 32767
  BY <1>4, <1>7, <1>8, <1>9, SubWords
<1>11. c = 1 <=> Al(x) < Al(y)
  BY <1>8
<1> QED BY <1>7, <1>10, <1>11

LEMMA WideSumsStep == TypeOK /\ Started /\ LowDone /\ WideSums /\ [Next]_vars => WideSums'
<1>1. ASSUME WideSums, UNCHANGED vars PROVE WideSums'
  BY <1>1 DEF vars, WideSums, Ended
<1>2. ASSUME TypeOK, Started, LowDone, Next PROVE WideSums'
  <2>1. idiom' = idiom /\ bw' = bw /\ from' = from
    BY <1>2, Acts
  <2>2. AddBytes # SubBytes /\ Len(AddBytes) = 3 /\ Len(SubBytes) = 3
    BY DEF AddBytes, SubBytes, I
  <2> DEFINE x == from.aw
             y == bw
             sum == Signed(16, x) + Signed(16, y)
             difference == Signed(16, x) - Signed(16, y)
  <2>3. sum \in Int /\ difference \in Int
    <3>1. x \in Operand(16) /\ y \in Operand(16)
      BY <1>2, TypeFacts
    <3> HIDE DEF x, y
    <3>2. x \in Int /\ y \in Int
      BY <3>1, Widening
    <3>3. /\ (x >= 32768 => Signed(16, x) = x - 65536) /\ (x < 32768 => Signed(16, x) = x)
          /\ (y >= 32768 => Signed(16, y) = y - 65536) /\ (y < 32768 => Signed(16, y) = y)
      BY <3>1, SignedWord
    <3> QED BY <3>2, <3>3
  <2>4. CASE Ended(AddBytes)'
    <3>1. idiom = AddBytes /\ pc' = 3
      BY <2>1, <2>2, <2>4 DEF Ended
    <3>2. x = from.aw /\ y = bw /\ sum = Signed(16, x) + Signed(16, y)
      OBVIOUS
    <3> HIDE DEF x, y, sum, difference
    <3>3. /\ aw' = Fit(16, x + y)
          /\ psw' \in Psw
          /\ psw'.cy <=> x + y \notin Operand(16)
          /\ psw'.s <=> Negative(16, aw')
          /\ ~(psw'.v <=> (Al(x) + Al(y) > 255 /\ Ah(y) = 127)) <=> sum < -32768 \/ sum > 32767
      BY <1>2, <3>1, <3>2, HighAdded
    <3> DEFINE exception == Al(x) + Al(y) > 255 /\ Ah(y) = 127
    <3>4. exception \in BOOLEAN /\ psw'.v \in BOOLEAN
      BY <3>3 DEF Psw
    <3>5. sum \in SignedOperand(16) <=> ~(sum < -32768 \/ sum > 32767)
      BY <2>3, WordRange
    <3>6. (psw'.v # exception) = (sum \notin SignedOperand(16))
      <4> DEFINE fits == sum \in SignedOperand(16)
                 out == sum < -32768 \/ sum > 32767
      <4>1. fits <=> ~out
        BY <3>5
      <4>2. ~(psw'.v <=> exception) <=> out
        BY <3>3
      <4>3. fits \in BOOLEAN /\ out \in BOOLEAN
        OBVIOUS
      <4> HIDE DEF fits, out, exception
      <4>4. (psw'.v # exception) = (~fits)
        BY <3>4, <4>1, <4>2, <4>3
      <4> QED BY <4>4 DEF fits
    <3>7. psw'.cy = (x + y \notin Operand(16)) /\ psw'.s = Negative(16, aw')
      BY <3>3 DEF Psw, Negative, Bit
    <3> HIDE DEF exception
    <3> QED BY <2>1, <3>1, <3>3, <3>6, <3>7 DEF WideSums, Ended, x, y, sum, exception
  <2>5. CASE Ended(SubBytes)'
    <3>1. idiom = SubBytes /\ pc' = 3
      BY <2>1, <2>2, <2>5 DEF Ended
    <3>2. x = from.aw /\ y = bw /\ difference = Signed(16, x) - Signed(16, y)
      OBVIOUS
    <3> HIDE DEF x, y, sum, difference
    <3>3. /\ aw' = Fit(16, x - y)
          /\ psw' \in Psw
          /\ psw'.cy <=> x - y \notin Operand(16)
          /\ psw'.s <=> Negative(16, aw')
          /\ ~(psw'.v <=> (Al(x) < Al(y) /\ Ah(y) = 127)) <=> difference < -32768 \/ difference > 32767
      BY <1>2, <3>1, <3>2, HighSubtracted
    <3> DEFINE exception == Al(x) < Al(y) /\ Ah(y) = 127
    <3>4. exception \in BOOLEAN /\ psw'.v \in BOOLEAN
      BY <3>3 DEF Psw
    <3>5. difference \in SignedOperand(16) <=> ~(difference < -32768 \/ difference > 32767)
      BY <2>3, WordRange
    <3>6. (psw'.v # exception) = (difference \notin SignedOperand(16))
      <4> DEFINE fits == difference \in SignedOperand(16)
                 out == difference < -32768 \/ difference > 32767
      <4>1. fits <=> ~out
        BY <3>5
      <4>2. ~(psw'.v <=> exception) <=> out
        BY <3>3
      <4>3. fits \in BOOLEAN /\ out \in BOOLEAN
        OBVIOUS
      <4> HIDE DEF fits, out, exception
      <4>4. (psw'.v # exception) = (~fits)
        BY <3>4, <4>1, <4>2, <4>3
      <4> QED BY <4>4 DEF fits
    <3>7. psw'.cy = (x - y \notin Operand(16)) /\ psw'.s = Negative(16, aw')
      BY <3>3 DEF Psw, Negative, Bit
    <3> HIDE DEF exception
    <3> QED BY <2>1, <2>2, <3>1, <3>3, <3>6, <3>7 DEF WideSums, Ended, x, y, difference, exception
  <2> QED BY <2>4, <2>5 DEF WideSums
<1> QED BY <1>1, <1>2

\* Adding or subtracting two words by their bytes gives their sum or difference,
\* and CY, V and S what they say of the words, but for the V of ADC and SBB when
\* the carry meets a source byte of 7Fh.
THEOREM WordsAdded == Spec => []WideSums
<1>1. Init => WideSums
  BY DEF Init, WideSums, Ended, AddBytes, SubBytes
<1> QED BY <1>1, Typed, AlwaysStarted, AlwaysLowDone, WideSumsStep, PTL DEF Spec

\* Comparing two words by their bytes.
LEMMA LessWords ==
  ASSUME NEW x \in Operand(16), NEW y \in Operand(16),
         NEW c, c = IF Al(x) < Al(y) THEN 1 ELSE 0,
         NEW z \in Operand(16), Al(z) = Fit(8, Al(x) - Al(y)), Ah(z) = Fit(8, Ah(x) - Ah(y) - c),
         NEW sum, sum = Signed(16, x) - Signed(16, y)
  PROVE  /\ Signed(16, x) < Signed(16, y)
              <=> ~(Negative(16, z) <=> sum < -32768 \/ sum > 32767)
         /\ Ah(z) = 0 => (Signed(16, x) < Signed(16, y) <=> (c = 1 /\ Ah(y) = 127))
<1> DEFINE hx == Ah(x)
           hy == Ah(y)
           hz == Ah(z)
           lx == Al(x)
           ly == Al(y)
           lz == Al(z)
           sx == Signed(16, x)
           sy == Signed(16, y)
           over == sum < -32768 \/ sum > 32767
           neg == Negative(16, z)
<1>1. /\ x \in Int /\ y \in Int /\ z \in Int
      /\ hx \in Operand(8) /\ hy \in Operand(8) /\ hz \in Operand(8)
      /\ lx \in Operand(8) /\ ly \in Operand(8) /\ lz \in Operand(8)
      /\ x = 256 * hx + lx /\ y = 256 * hy + ly /\ z = 256 * hz + lz
  BY WordParts, Widening
<1>2. /\ hx \in Int /\ 0 <= hx /\ hx < 256 /\ hy \in Int /\ 0 <= hy /\ hy < 256
      /\ lx \in Int /\ 0 <= lx /\ lx < 256 /\ ly \in Int /\ 0 <= ly /\ ly < 256
      /\ lz \in Int /\ 0 <= lz /\ lz < 256 /\ hz \in Int /\ 0 <= hz /\ hz < 256
  BY <1>1, Ranges
<1>3. c \in {0, 1} /\ (c = 1 <=> lx < ly)
  BY <1>2
<1>4. z = Fit(16, x - y)
  BY SubWords
<1>5. /\ x >= 32768 => sx = x - 65536
      /\ x < 32768 => sx = x
      /\ y >= 32768 => sy = y - 65536
      /\ y < 32768 => sy = y
  BY SignedWord
<1>6. /\ x - y \in Int /\ -65536 <= x - y /\ x - y < 65536
      /\ 0 <= z /\ z < 65536 /\ 0 <= x /\ x < 65536 /\ 0 <= y /\ y < 65536
  BY <1>1, <1>2
<1>7. z = x - y \/ z = x - y + 65536
  BY <1>4, <1>6, Whole
<1>8. neg <=> z >= 32768
  BY <1>1, <1>6, Whole
<1> HIDE DEF hx, hy, hz, lx, ly, lz, sx, sy, neg
<1>9. sum = sx - sy /\ sx \in Int /\ sy \in Int
  BY <1>1, <1>5 DEF sx, sy
<1>10. sx < sy <=> ~(z >= 32768 <=> over)
  BY <1>1, <1>5, <1>6, <1>7, <1>9
<1>11. hz = 0 => (sx < sy <=> (c = 1 /\ hy = 127))
  BY <1>1, <1>2, <1>3, <1>5, <1>6, <1>7, <1>9
<1>12. sx < sy <=> ~(neg <=> over)
  BY <1>8, <1>10
<1> HIDE DEF over
<1> QED BY <1>11, <1>12 DEF hx, hy, hz, lx, ly, lz, sx, sy, neg, over

LEMMA WideCompareStep ==
  TypeOK /\ Started /\ LowDone /\ WideCompare /\ [Next]_vars => WideCompare'
<1>1. ASSUME WideCompare, UNCHANGED vars PROVE WideCompare'
  BY <1>1 DEF vars, WideCompare, Ended
<1>2. ASSUME TypeOK, Started, LowDone, Next, Ended(CmpBytes)' PROVE WideCompare'
  <2>1. idiom' = idiom /\ bw' = bw /\ from' = from
    BY <1>2, Acts
  <2>2. idiom = CmpBytes /\ pc' = 2
    BY <1>2, <2>1 DEF Ended, CmpBytes
  <2>3. /\ pc \in {0, 1}
        /\ pc = 0 => Insn = I("cmp", "al", "bw")
        /\ pc = 1 => Insn = I("sbb", "ah", "bw")
    BY <1>2, <2>2, InsnOf2 DEF CmpBytes
  <2>4. pc' = pc + 1
    BY <1>2, <2>3, Acts DEF I, Dividing
  <2>5. pc = 1 /\ Insn = I("sbb", "ah", "bw")
    BY <2>2, <2>3, <2>4
  <2> DEFINE x == from.aw
             y == bw
             sum == Signed(16, x) - Signed(16, y)
             less == Signed(16, x) < Signed(16, y)
             exception == Al(x) < Al(y) /\ Ah(y) = 127
             over == sum < -32768 \/ sum > 32767
  <2>6. aw = x /\ (psw.cy <=> Al(x) < Al(y))
    BY <1>2, <2>2, <2>5 DEF LowDone
  <2>7. PICK c : c = CarryIn("sbb" = "sbb", psw)
    OBVIOUS
  <2>8. Part("ah", aw) = Ah(aw) /\ Part("ah", bw) = Ah(bw) /\ Part("ah", aw') = Ah(aw')
    BY DEF Part
  <2>9. x \in Operand(16) /\ y \in Operand(16) /\ aw' \in Operand(16)
    BY <1>2, TypeFacts, TypeStep DEF TypeOK
  <2>10. sum = Signed(16, x) - Signed(16, y) /\ y = bw
    OBVIOUS
  <2> HIDE DEF x, y, sum
  <2>11. /\ c \in {0, 1} /\ (c = 1 <=> psw.cy)
         /\ psw' \in Psw
         /\ Ah(aw') = Fit(8, Ah(x) - Ah(y) - c) /\ Al(aw') = Al(x)
         /\ psw'.cy <=> Ah(x) - Ah(y) - c < 0
         /\ psw'.z <=> Ah(aw') = 0
         /\ psw'.s <=> Negative(8, Ah(x) - Ah(y) - c)
         /\ psw'.v <=> OverflowSub(8, Ah(x) - Ah(y) - c, Ah(x), Ah(y), c)
    BY <1>2, <2>5, <2>6, <2>7, <2>8, <2>10, SubStep
  <2>12. c = IF Al(x) < Al(y) THEN 1 ELSE 0
    BY <2>6, <2>11
  <2>13. PICK z \in Operand(16) : Al(z) = Fit(8, Al(x) - Al(y)) /\ Ah(z) = Ah(aw')
    <3>1. Al(x) \in Int /\ Al(y) \in Int /\ Ah(aw') \in Operand(8) /\ Ah(aw') \in Int
      BY <2>9, WordParts, Widening
    <3>2. Fit(8, Ah(aw')) = Ah(aw')
      BY <3>1, Byte, Ranges
    <3>3. Al(x) - Al(y) \in Int
      BY <3>1
    <3>4. /\ Aw(Ah(aw'), Al(x) - Al(y)) \in Operand(16)
          /\ Al(Aw(Ah(aw'), Al(x) - Al(y))) = Fit(8, Al(x) - Al(y))
          /\ Ah(Aw(Ah(aw'), Al(x) - Al(y))) = Ah(aw')
      BY <3>1, <3>2, <3>3, WordOf
    <3> QED BY <3>4
  <2>14. /\ Ah(x) - Ah(y) - c < 0 <=> x < y
         /\ Negative(8, Ah(x) - Ah(y) - c) <=> Negative(16, z)
         /\ ~(OverflowSub(8, Ah(x) - Ah(y) - c, Ah(x), Ah(y), c) <=> (c = 1 /\ Ah(y) = 127)) <=> over
    BY <2>9, <2>10, <2>11, <2>12, <2>13, SubWords
  <2>15. /\ less <=> ~(Negative(16, z) <=> over)
         /\ Ah(z) = 0 => (less <=> (c = 1 /\ Ah(y) = 127))
    BY <2>9, <2>10, <2>11, <2>12, <2>13, LessWords
  <2>16. c = 1 <=> Al(x) < Al(y)
    BY <2>6, <2>11
  <2>17. /\ psw'.cy \in BOOLEAN /\ psw'.z \in BOOLEAN /\ psw'.s \in BOOLEAN /\ psw'.v \in BOOLEAN
         /\ exception \in BOOLEAN /\ less \in BOOLEAN /\ over \in BOOLEAN
    BY <2>11 DEF Psw
  <2>18. exception <=> c = 1 /\ Ah(y) = 127
    BY <2>16
  <2> HIDE DEF exception, less, over
  <2>19. ~(psw'.v <=> exception) <=> over
    BY <2>11, <2>14, <2>18
  <2>20. /\ less <=> ~(psw'.s <=> over)
         /\ psw'.z => (less <=> exception)
    BY <2>11, <2>13, <2>14, <2>15, <2>18
  <2>21. Jumps(psw').jc = psw'.cy /\ Jumps(psw').jl = (psw'.s # psw'.v /\ ~psw'.z)
    BY <2>11, JumpFlags
  <2>22. (Jumps(psw').jl # less) = exception
    BY <2>17, <2>19, <2>20, <2>21
  <2>23. psw'.cy = (x < y)
    BY <2>11, <2>14, <2>17
  <2> QED BY <2>1, <2>21, <2>22, <2>23 DEF WideCompare, x, y, less, exception
<1> QED BY <1>1, <1>2 DEF WideCompare

\* Comparing words by their bytes, with CMP and SBB, decides the jumps as the words
\* are ordered, but for less and not less when the borrow meets a source byte of 7Fh.
THEOREM WordsCompared == Spec => []WideCompare
<1>1. Init => WideCompare
  BY DEF Init, WideCompare, Ended, CmpBytes
<1> QED BY <1>1, Typed, AlwaysStarted, AlwaysLowDone, WideCompareStep, PTL DEF Spec

-----------------------------------------------------------------------------
(* The logical operations.                                                 *)

\* What the logical instructions give.
Outcome(op, w, a, b) ==
  CASE op = "or" -> BitOr(w, a, b) [] op = "xor" -> BitXor(w, a, b) [] OTHER -> BitAnd(w, a, b)

LEMMA Tested ==
  ASSUME NEW w \in Widths, NEW x \in Operand(w), NEW q \in Psw, ~q.cy, ~q.v,
         q.z <=> Fit(w, x) = 0, q.s <=> Negative(w, x)
  PROVE  LET signed == Signed(w, x)
             j == Jumps(q)
         IN  /\ j.jl = (signed < 0) /\ j.jle = (signed <= 0) /\ j.jnle = (signed > 0)
             /\ j.jz = (x = 0) /\ ~j.jc /\ ~j.jo
<1> DEFINE signed == Signed(w, x)
<1>1. x \in Int /\ Fit(w, x) = x /\ signed \in Int /\ (signed = 0 <=> x = 0) /\ (Negative(w, x) <=> signed < 0)
  <2>1. CASE w = 8
    <3>1. x \in Operand(8) /\ x \in Int /\ 0 <= x /\ x < 256
      BY <2>1, Ranges
    <3> QED BY <2>1, <3>1, Byte, SignedByte
  <2>2. CASE w = 16
    <3>1. x \in Operand(16) /\ x \in Int /\ 0 <= x /\ x < 65536
      BY <2>2, Ranges
    <3> QED BY <2>2, <3>1, Whole, SignedWord
  <2> QED BY <2>1, <2>2 DEF Widths
<1> HIDE DEF signed
<1>2. /\ q.z \in BOOLEAN /\ q.s \in BOOLEAN /\ q.v \in BOOLEAN /\ q.cy \in BOOLEAN
      /\ q.z <=> x = 0
      /\ q.s <=> signed < 0
  BY <1>1 DEF Psw
<1>3. (signed <= 0 <=> signed < 0 \/ x = 0) /\ (signed > 0 <=> ~(signed < 0) /\ x # 0)
      /\ ~(signed < 0 /\ x = 0)
  BY <1>1
<1>4. LET j == Jumps(q)
      IN  /\ j.jo = q.v /\ j.jc = q.cy /\ j.jz = q.z
          /\ j.jl = (q.s # q.v /\ ~q.z) /\ j.jle = (q.s # q.v \/ q.z) /\ j.jnle = (q.s = q.v /\ ~q.z)
  BY JumpFlags
<1>5. (q.s # q.v <=> signed < 0) /\ (q.s = q.v <=> ~(signed < 0))
  BY <1>2
<1> QED BY <1>2, <1>3, <1>4, <1>5 DEF signed

LEMMA LogicStep ==
  ASSUME TypeOK, Next, NEW op \in Tests, NEW on \in Parts, Insn = I(op, on, "bw"),
         NEW w, w = Width(on), NEW a, a = Part(on, aw), NEW b, b = Part(on, bw),
         NEW x, x = Outcome(op, w, a, b)
  PROVE  /\ w \in Widths /\ x \in Operand(w) /\ pc' = pc + 1
         /\ Part(on, aw') = IF op = "test" THEN a ELSE x
         /\ psw' \in Psw /\ ~psw'.cy /\ ~psw'.v
         /\ psw'.z <=> Fit(w, x) = 0
         /\ psw'.s <=> Negative(w, x)
<1>1. Insn.op = op /\ Insn.on = on /\ Insn.by = "bw"
  BY DEF I
<1>2. W = w /\ Dst = a /\ Src = b
  BY <1>1 DEF W, Dst, Src
<1>3. w \in Widths /\ a \in Operand(w) /\ psw \in Psw
  BY TypeFacts, WidthOf
<1>4. x \in Operand(w)
  BY <1>3, BitOperations DEF Outcome
<1> DEFINE r == Logic(w, x, psw)
           result == IF op = "test" THEN Result(a, r.psw) ELSE r
<1>5. Set(result)
  <2>1. CASE op = "test"
    <3>1. x = BitAnd(w, a, b)
      BY <2>1 DEF Outcome
    <3>2. Set(Result(Dst, Logic(W, BitAnd(W, Dst, Src), psw).psw))
      BY <1>1, <2>1, Acts
    <3> QED BY <1>2, <2>1, <3>1, <3>2
  <2>2. CASE op \in {"and", "or", "xor"}
    <3>1. ExecLogic
      BY <1>1, <2>2, Acts
    <3> QED BY <1>1, <1>2, <2>2, <3>1 DEF ExecLogic, Outcome
  <2> QED BY <2>1, <2>2 DEF Tests
<1>6. r = Logic(w, x, psw)
  OBVIOUS
<1>7. result.psw = r.psw /\ result.dst = IF op = "test" THEN a ELSE x
  BY DEF Result, Logic
<1> HIDE DEF r, result
<1>8. /\ r.psw \in Psw /\ ~r.psw.cy /\ ~r.psw.v
      /\ r.psw.z <=> Fit(w, x) = 0
      /\ r.psw.s <=> Negative(w, x)
  BY <1>3, <1>6, LogicIs
<1>9. result.dst \in Operand(Width(on))
  BY <1>3, <1>4, <1>7
<1>10. psw' = r.psw /\ pc' = pc + 1 /\ Part(on, aw') = result.dst
  BY <1>1, <1>5, <1>7, <1>9, PartSet
<1> QED BY <1>3, <1>4, <1>7, <1>8, <1>10

LEMMA TestStep == TypeOK /\ Started /\ TestJumps /\ [Next]_vars => TestJumps'
<1>1. ASSUME TestJumps, UNCHANGED vars PROVE TestJumps'
  BY <1>1 DEF vars, TestJumps, Ended
<1>2. ASSUME TypeOK, Started, Next PROVE TestJumps'
  <2>1. ASSUME NEW op \in Tests, NEW on \in Parts, Ended(Test(op, on))'
        PROVE  LET a == Part(on, from.aw)'
                   b == Part(on, bw)'
                   w == Width(on)
                   x == Outcome(op, w, a, b)
                   signed == Signed(w, x)
                   j == Jumps(psw')
               IN  /\ Part(on, aw)' = (IF op = "test" THEN a ELSE x)
                   /\ j.jl = (signed < 0) /\ j.jle = (signed <= 0) /\ j.jnle = (signed > 0)
                   /\ j.jz = (x = 0) /\ ~j.jc /\ ~j.jo
    <3> DEFINE a == Part(on, from.aw)
               b == Part(on, bw)
               w == Width(on)
               x == Outcome(op, w, a, b)
    <3>1. idiom = <<I(op, on, "bw")>> /\ bw' = bw /\ from' = from
      BY <1>2, <2>1, Acts DEF Ended, Test
    <3>2. pc = 0 /\ Insn = I(op, on, "bw")
      BY <1>2, <3>1, Only
    <3>3. aw = from.aw
      BY <1>2, <3>1, <3>2, Unfaulted DEF I, Tests
    <3>4. w = Width(on) /\ a = Part(on, aw) /\ b = Part(on, bw) /\ x = Outcome(op, w, a, b)
      BY <3>3
    <3>5. Part(on, from.aw)' = a /\ Part(on, bw)' = b
      BY <3>1
    <3> HIDE DEF a, b, w, x
    <3>6. /\ w \in Widths /\ x \in Operand(w)
          /\ Part(on, aw') = IF op = "test" THEN a ELSE x
          /\ psw' \in Psw /\ ~psw'.cy /\ ~psw'.v
          /\ psw'.z <=> Fit(w, x) = 0
          /\ psw'.s <=> Negative(w, x)
      BY <1>2, <3>2, <3>4, LogicStep
    <3>7. LET signed == Signed(w, x)
              j == Jumps(psw')
          IN  /\ j.jl = (signed < 0) /\ j.jle = (signed <= 0) /\ j.jnle = (signed > 0)
              /\ j.jz = (x = 0) /\ ~j.jc /\ ~j.jo
      BY <3>6, Tested
    <3> QED BY <3>5, <3>6, <3>7 DEF w, x
  <2> QED BY <2>1 DEF TestJumps, Outcome
<1> QED BY <1>1, <1>2

\* After AND, OR, XOR or TEST the jumps decide as the sign and the zero of the
\* result say, with neither carry nor overflow.
THEOREM LogicJumps == Spec => []TestJumps
<1>1. Init => TestJumps
  BY DEF Init, TestJumps, Ended, Test, I
<1> QED BY <1>1, Typed, AlwaysStarted, TestStep, PTL DEF Spec

-----------------------------------------------------------------------------
(* Decimal digits.                                                         *)

\* Two digits in a byte.
IsPacked(x) == x % 16 <= 9 /\ x \div 16 <= 9
PackedValue(x) == 10 * (x \div 16) + (x % 16)

LEMMA DigitsOf ==
  ASSUME NEW x \in Operand(8)
  PROVE  /\ x = 16 * (x \div 16) + (x % 16)
         /\ x \div 16 \in Int /\ x % 16 \in Int /\ 0 <= x \div 16 /\ 0 <= x % 16
<1>1. x \in Int /\ 0 <= x
  BY Ranges
<1>2. x = 16 * (x \div 16) + (x % 16)
  BY <1>1
<1>3. x \div 16 \in Int /\ x % 16 \in Int /\ 0 <= x % 16
  BY <1>1
<1>4. 0 <= x \div 16
  BY <1>1
<1> QED BY <1>2, <1>3, <1>4

LEMMA FromDigits ==
  ASSUME NEW h \in 0..15, NEW l \in 0..15
  PROVE  (16 * h + l) \div 16 = h /\ (16 * h + l) % 16 = l /\ 16 * h + l \in Operand(8)
BY Ranges

\* DAA after ADD, and DAS after SUB.
LEMMA PackedSum ==
  ASSUME NEW x \in Operand(8), NEW y \in Operand(8), IsPacked(x), IsPacked(y),
         NEW z, z = Fit(8, x + y),
         NEW lo, lo <=> (x % 16) + (y % 16) >= 16 \/ z % 16 > 9,
         NEW hi, hi <=> x + y > 255 \/ z > 153,
         NEW al, al = Fit(8, z + ((IF lo THEN 6 ELSE 0) + (IF hi THEN 96 ELSE 0)))
  PROVE  /\ IsPacked(al)
         /\ PackedValue(al) + 100 * (IF hi THEN 1 ELSE 0) = PackedValue(x) + PackedValue(y)
<1> DEFINE xh == x \div 16
           xl == x % 16
           yh == y \div 16
           yl == y % 16
           s == xl + yl
           c == IF s > 9 THEN 1 ELSE 0
           t == xh + yh + c
           d == IF t > 9 THEN 1 ELSE 0
           h == t - 10 * d
           l == s - 10 * c
           off == (IF lo THEN 6 ELSE 0) + (IF hi THEN 96 ELSE 0)
<1>1. /\ x = 16 * xh + xl /\ xh \in Int /\ 0 <= xh /\ xh <= 9 /\ xl \in Int /\ 0 <= xl /\ xl <= 9
      /\ y = 16 * yh + yl /\ yh \in Int /\ 0 <= yh /\ yh <= 9 /\ yl \in Int /\ 0 <= yl /\ yl <= 9
  <2>1. xh <= 9 /\ xl <= 9 /\ yh <= 9 /\ yl <= 9
    BY DEF IsPacked
  <2>2. x = 16 * xh + xl /\ xh \in Int /\ xl \in Int /\ 0 <= xh /\ 0 <= xl
    BY DigitsOf
  <2>3. y = 16 * yh + yl /\ yh \in Int /\ yl \in Int /\ 0 <= yh /\ 0 <= yl
    BY DigitsOf
  <2> QED BY <2>1, <2>2, <2>3
<1>2. lo <=> s >= 16 \/ z % 16 > 9
  OBVIOUS
<1>3. al = Fit(8, z + off)
  OBVIOUS
<1> HIDE DEF xh, xl, yh, yl
<1>4. s \in Int /\ 0 <= s /\ s <= 18 /\ c \in {0, 1} /\ (c = 1 <=> s > 9)
  BY <1>1
<1>5. t \in Int /\ 0 <= t /\ t <= 19 /\ d \in {0, 1} /\ (d = 1 <=> t > 9)
  BY <1>1, <1>4
<1>6. x + y = 16 * (t - c) + s /\ x + y \in Int /\ 0 <= x + y /\ x + y < 512
  BY <1>1
<1>7. h \in 0..9 /\ l \in 0..9
  BY <1>4, <1>5
<1> HIDE DEF s, c, t, d, off
<1> DEFINE k == IF x + y > 255 THEN 1 ELSE 0
<1>8. k \in {0, 1} /\ (k = 1 <=> x + y > 255)
  OBVIOUS
<1>9. z = x + y - 256 * k
  <2> DEFINE sum == x + y
  <2>1. sum \in Int /\ 0 <= sum /\ sum < 512 /\ z = Fit(8, sum) /\ (sum > 255 <=> sum >= 256)
    BY <1>6
  <2>2. k = IF sum > 255 THEN 1 ELSE 0
    OBVIOUS
  <2> HIDE DEF sum, k
  <2>3. z = sum - 256 * k
    BY <2>1, <2>2, Byte
  <2>4. x \in Int /\ y \in Int /\ k \in Int
    BY <1>1, <1>8
  <2> QED BY <2>3, <2>4 DEF sum
<1> HIDE DEF k
<1>10. z = 16 * (t - c - 16 * k) + s /\ z \in Int
  <2>1. 16 * (t - c - 16 * k) = 16 * (t - c) - 256 * k
    BY <1>4, <1>5, <1>8
  <2>2. z = 16 * (t - c) + s - 256 * k
    BY <1>1, <1>4, <1>5, <1>6, <1>8, <1>9
  <2> QED BY <1>4, <1>5, <1>8, <2>1, <2>2
<1>11. lo <=> c = 1
  <2>1. CASE s >= 16
    BY <1>2, <1>4, <2>1
  <2>2. CASE s < 16
    <3>1. z % 16 = s
      BY <1>4, <1>5, <1>8, <1>10, <2>2
    <3> QED BY <1>2, <1>4, <2>2, <3>1
  <2> QED BY <1>4, <2>1, <2>2
<1>12. hi <=> d = 1
  BY <1>4, <1>5, <1>6, <1>8, <1>9, <1>10
<1>13. off = 6 * c + 96 * d
  BY <1>4, <1>5, <1>11, <1>12 DEF off
<1>14. z + off = 16 * h + l + 256 * (d - k)
  BY <1>4, <1>5, <1>8, <1>10, <1>13
<1>15. al = 16 * h + l
  <2> HIDE DEF h, l
  <2>1. 16 * h + l \in Int /\ 0 <= 16 * h + l /\ 16 * h + l < 256
    BY <1>7
  <2>2. k <= d
    BY <1>4, <1>5, <1>6, <1>8
  <2>3. z + off = 16 * h + l \/ z + off = 16 * h + l + 256
    BY <1>5, <1>7, <1>8, <1>14, <2>2
  <2>4. z + off \in Int
    BY <2>1, <2>3
  <2> QED BY <1>3, <2>1, <2>3, <2>4, Byte
<1>16. al \div 16 = h /\ al % 16 = l
  <2> HIDE DEF h, l
  <2> QED BY <1>7, <1>15, FromDigits
<1>17. IsPacked(al)
  BY <1>7, <1>16 DEF IsPacked
<1>18. PackedValue(al) = 10 * h + l /\ PackedValue(x) = 10 * xh + xl /\ PackedValue(y) = 10 * yh + yl
  BY <1>16 DEF PackedValue, xh, xl, yh, yl
<1>19. 10 * h + l + 100 * d = 10 * xh + xl + 10 * yh + yl
  BY <1>1, <1>4, <1>5 DEF s, t
<1>20. (IF hi THEN 1 ELSE 0) = d
  BY <1>5, <1>12
<1>21. h \in Int /\ l \in Int
  BY <1>7
<1> HIDE DEF h, l
<1> QED BY <1>1, <1>5, <1>17, <1>18, <1>19, <1>20, <1>21

LEMMA PackedDifference ==
  ASSUME NEW x \in Operand(8), NEW y \in Operand(8), IsPacked(x), IsPacked(y),
         NEW z, z = Fit(8, x - y),
         NEW lo, lo <=> (x % 16) - (y % 16) < 0 \/ z % 16 > 9,
         NEW hi, hi <=> x < y \/ z > 153,
         NEW al, al = Fit(8, z - ((IF lo THEN 6 ELSE 0) + (IF hi THEN 96 ELSE 0)))
  PROVE  /\ IsPacked(al)
         /\ PackedValue(al) - 100 * (IF hi THEN 1 ELSE 0) = PackedValue(x) - PackedValue(y)
<1> DEFINE xh == x \div 16
           xl == x % 16
           yh == y \div 16
           yl == y % 16
           s == xl - yl
           c == IF s < 0 THEN 1 ELSE 0
           t == xh - yh - c
           d == IF t < 0 THEN 1 ELSE 0
           h == t + 10 * d
           l == s + 10 * c
           off == (IF lo THEN 6 ELSE 0) + (IF hi THEN 96 ELSE 0)
<1>1. /\ x = 16 * xh + xl /\ xh \in Int /\ 0 <= xh /\ xh <= 9 /\ xl \in Int /\ 0 <= xl /\ xl <= 9
      /\ y = 16 * yh + yl /\ yh \in Int /\ 0 <= yh /\ yh <= 9 /\ yl \in Int /\ 0 <= yl /\ yl <= 9
  <2>1. xh <= 9 /\ xl <= 9 /\ yh <= 9 /\ yl <= 9
    BY DEF IsPacked
  <2>2. x = 16 * xh + xl /\ xh \in Int /\ xl \in Int /\ 0 <= xh /\ 0 <= xl
    BY DigitsOf
  <2>3. y = 16 * yh + yl /\ yh \in Int /\ yl \in Int /\ 0 <= yh /\ 0 <= yl
    BY DigitsOf
  <2> QED BY <2>1, <2>2, <2>3
<1>2. lo <=> s < 0 \/ z % 16 > 9
  OBVIOUS
<1>3. al = Fit(8, z - off)
  OBVIOUS
<1> HIDE DEF xh, xl, yh, yl
<1>4. s \in Int /\ -9 <= s /\ s <= 9 /\ c \in {0, 1} /\ (c = 1 <=> s < 0)
  BY <1>1
<1>5. t \in Int /\ -10 <= t /\ t + c <= 9 /\ d \in {0, 1} /\ (d = 1 <=> t < 0)
  BY <1>1, <1>4
<1>6. x - y = 16 * (t + c) + s /\ x - y \in Int /\ -256 <= x - y /\ x - y < 256
  BY <1>1
<1>7. h \in 0..9 /\ l \in 0..9
  BY <1>4, <1>5
<1> HIDE DEF s, c, t, d, off
<1>8. x < y <=> x - y < 0
  BY <1>1
<1>9. d = 1 <=> x - y < 0
  BY <1>4, <1>5, <1>6
<1>10. z = x - y + 256 * d
  BY <1>5, <1>6, <1>9, Byte
<1>11. z = 16 * (t + c + 16 * d) + s /\ z \in Int
  BY <1>4, <1>5, <1>6, <1>10
<1>12. lo <=> c = 1
  <2>1. CASE s < 0
    BY <1>2, <1>4, <2>1
  <2>2. CASE s >= 0
    <3>1. z % 16 = s
      BY <1>4, <1>5, <1>11, <2>2
    <3> QED BY <1>2, <1>4, <2>2, <3>1
  <2> QED BY <1>4, <2>1, <2>2
<1>13. hi <=> d = 1
  <2>1. d = 0 => z <= 153
    BY <1>4, <1>5, <1>7, <1>11
  <2>2. x < y <=> d = 1
    BY <1>8, <1>9
  <2> QED BY <1>5, <1>11, <2>1, <2>2
<1>14. off = 6 * c + 96 * d
  BY <1>4, <1>5, <1>12, <1>13 DEF off
<1>15. z - off = 16 * h + l
  BY <1>4, <1>5, <1>11, <1>14
<1>16. al = 16 * h + l
  <2> HIDE DEF h, l
  <2>1. 16 * h + l \in Int /\ 0 <= 16 * h + l /\ 16 * h + l < 256
    BY <1>7
  <2> QED BY <1>3, <1>15, <2>1, Byte
<1>17. al \div 16 = h /\ al % 16 = l
  <2> HIDE DEF h, l
  <2> QED BY <1>7, <1>16, FromDigits
<1>18. IsPacked(al)
  BY <1>7, <1>17 DEF IsPacked
<1>19. PackedValue(al) = 10 * h + l /\ PackedValue(x) = 10 * xh + xl /\ PackedValue(y) = 10 * yh + yl
  BY <1>17 DEF PackedValue, xh, xl, yh, yl
<1>20. 10 * h + l - 100 * d = 10 * xh + xl - (10 * yh + yl)
  BY <1>1, <1>4, <1>5 DEF s, t
<1>21. (IF hi THEN 1 ELSE 0) = d
  BY <1>5, <1>13
<1>22. h \in Int /\ l \in Int
  BY <1>7
<1> HIDE DEF h, l
<1> QED BY <1>1, <1>5, <1>18, <1>19, <1>20, <1>21, <1>22

\* AAA after ADD, and AAS after SUB.
LEMMA UnpackedSum ==
  ASSUME NEW x \in Operand(8), NEW y \in Operand(8), x <= 9, y <= 9,
         NEW z, z = Fit(8, x + y),
         NEW adjust, adjust <=> (x % 16) + (y % 16) >= 16 \/ z % 16 > 9,
         NEW n, n = (IF adjust THEN 1 ELSE 0),
         NEW al, al = (z + 6 * n) % 16
  PROVE  al <= 9 /\ al + 10 * n = x + y /\ al \in Int /\ 0 <= al /\ n \in Int
<1>1. x \in Int /\ y \in Int /\ 0 <= x /\ 0 <= y
  BY Ranges
<1>2. x % 16 = x /\ y % 16 = y
  BY <1>1
<1>3. x + y \in Int /\ 0 <= x + y /\ x + y < 19
  BY <1>1
<1>4. z = x + y
  BY <1>3, Byte
<1>5. adjust <=> x + y > 9
  BY <1>1, <1>2, <1>3, <1>4
<1> QED BY <1>1, <1>3, <1>4, <1>5

LEMMA UnpackedDifference ==
  ASSUME NEW x \in Operand(8), NEW y \in Operand(8), x <= 9, y <= 9,
         NEW z, z = Fit(8, x - y),
         NEW adjust, adjust <=> (x % 16) - (y % 16) < 0 \/ z % 16 > 9,
         NEW n, n = (IF adjust THEN 1 ELSE 0),
         NEW al, al = (z - 6 * n) % 16
  PROVE  al <= 9 /\ al - 10 * n = x - y /\ al \in Int /\ 0 <= al /\ n \in Int
<1>1. x \in Int /\ y \in Int /\ 0 <= x /\ 0 <= y
  BY Ranges
<1>2. x % 16 = x /\ y % 16 = y
  BY <1>1
<1>3. x - y \in Int /\ -10 < x - y /\ x - y < 10
  BY <1>1
<1>4. z = IF x < y THEN x - y + 256 ELSE x - y
  <2>1. x < y <=> x - y < 0
    BY <1>1
  <2> QED BY <1>3, <2>1, Byte
<1>5. adjust <=> x < y
  BY <1>1, <1>2, <1>3, <1>4
<1> QED BY <1>1, <1>3, <1>4, <1>5

LEMMA DaaDasIs ==
  ASSUME NEW x \in Operand(16), NEW p \in Psw, NEW neg \in BOOLEAN, NEW r, r = DaaDas(neg, x, p),
         NEW lo, lo = (p.ac \/ Al(x) % 16 > 9), NEW hi, hi = (p.cy \/ Al(x) > 153),
         NEW off, off = (IF lo THEN 6 ELSE 0) + (IF hi THEN 96 ELSE 0)
  PROVE  /\ Al(r.dst) = Fit(8, IF neg THEN Al(x) - off ELSE Al(x) + off)
         /\ r.psw.cy <=> hi
         /\ r.dst \in Operand(16) /\ r.psw \in Psw
<1> DEFINE sum == IF neg THEN Al(x) - off ELSE Al(x) + off
           al == Fit(8, sum)
           o == [p EXCEPT !.ac = lo, !.cy = hi]
<1>1. lo \in BOOLEAN /\ hi \in BOOLEAN
  BY DEF Psw
<1>2. Al(x) \in Int /\ Ah(x) \in Int /\ x \in Int
  BY WordParts, Ranges
<1>3. x % 16 = Al(x) % 16
  BY <1>2 DEF Al
<1>4. off \in Int /\ sum \in Int
  BY <1>1, <1>2
<1>5. r.dst = Aw(Ah(x), al) /\ r.psw = SZP(8, al, o)
  BY <1>3 DEF DaaDas, Result
<1>6. al \in Int /\ Fit(8, al) = al
  BY <1>4, Byte, Ranges
<1>7. o \in Psw /\ o.cy = hi
  BY <1>1 DEF Psw
<1> HIDE DEF sum, al, o
<1>8. r.psw \in Psw /\ r.psw.cy = hi
  BY <1>5, <1>7, FlagsOfResult
<1>9. r.dst \in Operand(16) /\ Al(r.dst) = al
  BY <1>2, <1>5, <1>6, WordOf
<1> QED BY <1>8, <1>9 DEF al, sum

LEMMA AaaAasIs ==
  ASSUME NEW x \in Operand(16), NEW p \in Psw, NEW neg \in BOOLEAN, NEW r, r = AaaAas(neg, x, p),
         NEW adjust, adjust = (p.ac \/ Al(x) % 16 > 9),
         NEW n, n = IF ~adjust THEN 0 ELSE IF neg THEN -1 ELSE 1
  PROVE  /\ Al(r.dst) = (Al(x) + 6 * n) % 16 /\ Ah(r.dst) = (Ah(x) + n) % 256
         /\ r.psw.cy <=> adjust
         /\ r.dst \in Operand(16) /\ r.psw \in Psw
<1> DEFINE h == Ah(x) + n
           l == (Al(x) + 6 * n) % 16
<1>1. adjust \in BOOLEAN
  BY DEF Psw
<1>2. Al(x) \in Int /\ Ah(x) \in Int /\ x \in Int
  BY WordParts, Ranges
<1>3. x % 16 = Al(x) % 16
  BY <1>2 DEF Al
<1>4. h \in Int /\ l \in Int /\ 0 <= l /\ l < 256
  BY <1>2
<1>5. r.dst = Aw(h, l) /\ r.psw = [p EXCEPT !.ac = adjust, !.cy = adjust]
  BY <1>3 DEF AaaAas, Result
<1>6. r.psw \in Psw /\ r.psw.cy = adjust
  BY <1>1, <1>5 DEF Psw
<1> HIDE DEF h, l
<1>7. Fit(8, l) = l /\ Fit(8, h) = h % 256
  BY <1>4, Byte DEF Fit
<1>8. r.dst \in Operand(16) /\ Al(r.dst) = l /\ Ah(r.dst) = h % 256
  BY <1>4, <1>5, <1>7, WordOf
<1> QED BY <1>6, <1>8 DEF h, l

\* The digits have been added or subtracted, and wait for their adjustment.
DigitsDone ==
  \A a \in Adjusts :
    LET x == Al(from.aw)
        y == Al(bw)
    IN  idiom = Decimal(a[1], a[2]) /\ pc = 1 =>
          /\ Ah(aw) = Ah(from.aw)
          /\ a[1] = "add" =>
               /\ Al(aw) = Fit(8, x + y)
               /\ psw.cy <=> x + y > 255
               /\ psw.ac <=> (x % 16) + (y % 16) >= 16
          /\ a[1] = "sub" =>
               /\ Al(aw) = Fit(8, x - y)
               /\ psw.cy <=> x < y
               /\ psw.ac <=> (x % 16) - (y % 16) < 0

LEMMA AdjustStep ==
  ASSUME TypeOK, Next, NEW op \in Adjusting, Insn = I(op, "aw", "zero"),
         NEW r, r = IF op \in {"daa", "das"} THEN DaaDas(op = "das", aw, psw)
                                            ELSE AaaAas(op = "aas", aw, psw)
  PROVE  aw' = r.dst /\ psw' = r.psw
<1>1. Insn.op = op /\ Insn.on = "aw"
  BY DEF I
<1>2. Set(r)
  BY <1>1, Acts DEF ExecAdjust
<1> QED BY <1>1, <1>2 DEF Set, With

LEMMA DecimalInsn ==
  ASSUME TypeOK, Next, NEW op, NEW adjust, idiom = Decimal(op, adjust)
  PROVE  /\ pc \in {0, 1}
         /\ pc = 0 => Insn = I(op, "al", "bw")
         /\ pc = 1 => Insn = I(adjust, "aw", "zero")
BY InsnOf2 DEF Decimal

LEMMA DigitsStep == TypeOK /\ Started /\ DigitsDone /\ [Next]_vars => DigitsDone'
<1>1. ASSUME DigitsDone, UNCHANGED vars PROVE DigitsDone'
  BY <1>1 DEF vars, DigitsDone
<1>2. ASSUME TypeOK, Started, DigitsDone, Next PROVE DigitsDone'
  <2>1. idiom' = idiom /\ bw' = bw /\ from' = from
    BY <1>2, Acts
  <2> DEFINE x == Al(from.aw)
             y == Al(bw)
  <2>2. ASSUME NEW op \in {"add", "sub"}, NEW adjust \in Adjusting,
               idiom = Decimal(op, adjust), pc' = 1
        PROVE  /\ Ah(aw') = Ah(from.aw)
               /\ op = "add" =>
                    /\ Al(aw') = Fit(8, x + y)
                    /\ psw'.cy <=> x + y > 255
                    /\ psw'.ac <=> (x % 16) + (y % 16) >= 16
               /\ op = "sub" =>
                    /\ Al(aw') = Fit(8, x - y)
                    /\ psw'.cy <=> x < y
                    /\ psw'.ac <=> (x % 16) - (y % 16) < 0
    <3>1. /\ pc \in {0, 1}
          /\ pc = 0 => Insn = I(op, "al", "bw")
          /\ pc = 1 => Insn = I(adjust, "aw", "zero")
      BY <1>2, <2>2, DecimalInsn
    <3>2. pc = 0 /\ Insn = I(op, "al", "bw")
      BY <1>2, <2>2, <3>1, Acts DEF I, Adjusting, Dividing
    <3>3. aw = from.aw
      BY <1>2, <2>2, <3>2, Unfaulted DEF Decimal, I
    <3>4. /\ Part("al", aw) = x /\ Part("al", bw) = y /\ Part("al", aw') = Al(aw')
          /\ x \in Int /\ y \in Int
      BY <1>2, <3>3, WordParts, Widening DEF Part, TypeOK
    <3> HIDE DEF x, y
    <3>5. CASE op = "add"
      <4>1. PICK c : c = CarryIn("add" = "adc", psw)
        OBVIOUS
      <4>2. /\ c \in {0, 1} /\ (c = 1 <=> "add" = "adc" /\ psw.cy)
            /\ Al(aw') = Fit(8, x + y + c) /\ Ah(aw') = Ah(aw)
            /\ psw'.cy <=> x + y + c >= 256
            /\ psw'.ac <=> (x % 16) + (y % 16) + c >= 16
        BY <1>2, <3>2, <3>4, <3>5, <4>1, AddStep
      <4>3. c = 0 /\ x + y + c = x + y /\ (x % 16) + (y % 16) + c = (x % 16) + (y % 16)
        BY <3>4, <4>2
      <4>4. x + y >= 256 <=> x + y > 255
        BY <3>4
      <4> QED BY <3>3, <3>5, <4>2, <4>3, <4>4
    <3>6. CASE op = "sub"
      <4>1. PICK c : c = CarryIn("sub" = "sbb", psw)
        OBVIOUS
      <4>2. /\ c \in {0, 1} /\ (c = 1 <=> "sub" = "sbb" /\ psw.cy)
            /\ Al(aw') = Fit(8, x - y - c) /\ Ah(aw') = Ah(aw)
            /\ psw'.cy <=> x - y - c < 0
            /\ psw'.ac <=> (x % 16) - (y % 16) - c < 0
        BY <1>2, <3>2, <3>4, <3>6, <4>1, SubStep
      <4>3. c = 0 /\ x - y - c = x - y /\ (x % 16) - (y % 16) - c = (x % 16) - (y % 16)
        BY <3>4, <4>2
      <4>4. x - y < 0 <=> x < y
        BY <3>4
      <4> QED BY <3>3, <3>6, <4>2, <4>3, <4>4
    <3> QED BY <3>5, <3>6
  <2>3. \A a \in Adjusts : a[1] \in {"add", "sub"} /\ a[2] \in Adjusting
    BY DEF Adjusts, Adjusting
  <2> HIDE DEF x, y
  <2>4. \A op \in {"add", "sub"}, adjust \in Adjusting :
          idiom = Decimal(op, adjust) /\ pc' = 1 =>
            /\ Ah(aw') = Ah(from.aw)
            /\ op = "add" =>
                 /\ Al(aw') = Fit(8, x + y)
                 /\ psw'.cy <=> x + y > 255
                 /\ psw'.ac <=> (x % 16) + (y % 16) >= 16
            /\ op = "sub" =>
                 /\ Al(aw') = Fit(8, x - y)
                 /\ psw'.cy <=> x < y
                 /\ psw'.ac <=> (x % 16) - (y % 16) < 0
    BY <2>2
  <2> QED BY <2>1, <2>3, <2>4 DEF DigitsDone, x, y
<1> QED BY <1>1, <1>2

LEMMA AlwaysDigitsDone == Spec => []DigitsDone
<1>1. Init => DigitsDone
  BY DEF Init, DigitsDone
<1> QED BY <1>1, Typed, AlwaysStarted, DigitsStep, PTL DEF Spec

-----------------------------------------------------------------------------
(* Division.                                                               *)

Amount(i) == IF i < 0 THEN -i ELSE i

\* Division of natural numbers.
LEMMA Euclid ==
  ASSUME NEW x \in Nat, NEW y \in Nat, y > 0, NEW q, q = x \div y, NEW r, r = x % y
  PROVE  x = y * q + r /\ q \in Nat /\ r \in Nat /\ r < y
OBVIOUS

LEMMA EuclidAll ==
  \A x, y \in Nat : y > 0 => /\ x = y * (x \div y) + (x % y)
                            /\ x \div y \in Nat /\ x % y \in Nat /\ x % y < y
BY Euclid

LEMMA Multiples ==
  ASSUME NEW y \in Nat, NEW q \in Nat, NEW k \in Nat, q >= k
  PROVE  y * q >= y * k /\ y * q \in Nat
OBVIOUS

LEMMA SignsOfProduct ==
  ASSUME NEW x \in Int, NEW y \in Int
  PROVE  x * y = y * x /\ x * y \in Int /\ (-x) * y = -(x * y) /\ x * (-y) = -(x * y)
OBVIOUS

LEMMA Cancels ==
  ASSUME NEW y \in Nat, NEW q \in Nat, y > 0
  PROVE  (y * q) \div y = q /\ (y * q) % y = 0
OBVIOUS

\* The quotient is rounded to 0, and the rest has the sign of the dividend.
LEMMA QuotientIs ==
  ASSUME NEW x \in Int, NEW y \in Int, y # 0, NEW q, q = Quotient(x, y), NEW rest, rest = x - y * q
  PROVE  /\ q \in Int /\ rest \in Int /\ x = y * q + rest
         /\ Amount(rest) < Amount(y) /\ (rest = 0 \/ (rest < 0 <=> x < 0))
         /\ Amount(q) = Amount(x) \div Amount(y)
         /\ x >= 0 /\ y >= 0 => q = x \div y
<1> DEFINE X == Amount(x)
           Y == Amount(y)
           d == X \div Y
           m == X % Y
<1>1. X \in Nat /\ Y \in Nat /\ Y > 0
  BY DEF Amount
<1>2. q = IF (x < 0) = (y < 0) THEN d ELSE -d
  BY DEF Quotient, Amount
<1>3. (x < 0 => x = -X) /\ (x >= 0 => x = X) /\ (y < 0 => y = -Y) /\ (y >= 0 => y = Y)
  BY DEF Amount
<1>4. d = X \div Y /\ m = X % Y
  OBVIOUS
<1> HIDE DEF X, Y, d, m
<1>5. X = Y * d + m /\ d \in Nat /\ m \in Nat /\ m < Y
  BY <1>1, <1>4, Euclid
<1>6. Y * d \in Int /\ (-Y) * d = -(Y * d) /\ Y * (-d) = -(Y * d) /\ (-Y) * (-d) = Y * d
  BY <1>1, <1>5, SignsOfProduct
<1>7. /\ y * q = (IF x < 0 THEN -(Y * d) ELSE Y * d)
      /\ q \in Int /\ Amount(q) = d
  <2>1. CASE x < 0 /\ y < 0
    BY <1>2, <1>3, <1>5, <1>6, <2>1 DEF Amount
  <2>2. CASE x < 0 /\ y >= 0
    BY <1>2, <1>3, <1>5, <1>6, <2>2 DEF Amount
  <2>3. CASE x >= 0 /\ y < 0
    BY <1>2, <1>3, <1>5, <1>6, <2>3 DEF Amount
  <2>4. CASE x >= 0 /\ y >= 0
    BY <1>2, <1>3, <1>5, <1>6, <2>4 DEF Amount
  <2> QED BY <2>1, <2>2, <2>3, <2>4
<1> DEFINE e == y * q
           f == Y * d
<1>8. e \in Int /\ f \in Int /\ rest = x - e /\ e = (IF x < 0 THEN -f ELSE f) /\ X = f + m
  BY <1>5, <1>6, <1>7
<1> HIDE DEF e, f
<1>9. rest \in Int /\ rest = (IF x < 0 THEN -m ELSE m)
  BY <1>1, <1>3, <1>5, <1>8
<1>10. Amount(rest) < Y /\ (rest = 0 \/ (rest < 0 <=> x < 0))
  BY <1>5, <1>9 DEF Amount
<1>11. x = e + rest
  BY <1>8, <1>9
<1>12. x >= 0 /\ y >= 0 => q = x \div y
  BY <1>2, <1>3, <1>4
<1> QED BY <1>4, <1>7, <1>9, <1>10, <1>11, <1>12 DEF X, Y, e

QuotientFacts(x, y, q, rest) ==
  /\ q \in Int /\ rest \in Int /\ x = y * q + rest
  /\ Amount(rest) < Amount(y) /\ (rest = 0 \/ (rest < 0 <=> x < 0))
  /\ Amount(q) = Amount(x) \div Amount(y)
  /\ x >= 0 /\ y >= 0 => q = x \div y

LEMMA QuotientHas ==
  \A x, y \in Int : y # 0 => QuotientFacts(x, y, Quotient(x, y), x - y * Quotient(x, y))
BY QuotientIs DEF QuotientFacts

\* A quotient that fits keeps its sign in a byte.
LEMMA Resigned ==
  ASSUME NEW q \in Int, -128 <= q, q <= 127
  PROVE  Signed(8, Fit(8, q)) = q /\ Fit(8, q) \in Operand(8)
<1>1. Fit(8, q) \in Operand(8) /\ Fit(8, q) = IF q < 0 THEN q + 256 ELSE q
  BY Byte
<1> QED BY <1>1, SignedByte

\* DIV gives quotient and rest, or the quotient does not fit.
LEMMA DivIs ==
  ASSUME NEW x \in Operand(16), NEW b \in Operand(8), NEW p
  PROVE  /\ Div(x, b, p) = {} => x >= 256 * b
         /\ \A r \in Div(x, b, p) :
              b # 0 /\ Al(r.dst) * b + Ah(r.dst) = x /\ Ah(r.dst) < b /\ r.dst \in Operand(16)
<1> DEFINE q == Quotient(x, b)
           rest == x - b * q
<1>1. x \in Nat /\ b \in Nat /\ x >= 0 /\ b < 256
  BY Ranges
<1>2. CASE b = 0
  BY <1>1, <1>2 DEF Div, Divide
<1>3. CASE b # 0
  <2>1. q = Quotient(x, b) /\ rest = x - b * q
    OBVIOUS
  <2>2. /\ Div(x, b, p) = {} <=> q \notin 0..255
        /\ \A r \in Div(x, b, p) : r = Result(Aw(rest, q), p) /\ q \in 0..255
    BY <1>3 DEF Div, Divide
  <2> HIDE DEF q, rest
  <2>3. /\ q \in Int /\ rest \in Int /\ x = b * q + rest
        /\ Amount(rest) < Amount(b) /\ (rest = 0 \/ (rest < 0 <=> x < 0))
        /\ q = x \div b
    <3>1. x \in Int /\ b \in Int /\ b # 0 /\ x >= 0 /\ b >= 0
      BY <1>1, <1>3
    <3>2. QuotientFacts(x, b, q, rest)
      BY <2>1, <3>1, QuotientHas
    <3> QED BY <3>1, <3>2 DEF QuotientFacts
  <2>4. 0 <= rest /\ rest < b /\ q \in Nat
    BY <1>1, <1>3, <2>3 DEF Amount
  <2>5. ASSUME q \notin 0..255 PROVE x >= 256 * b
    <3>1. q >= 256
      BY <2>4, <2>5
    <3>2. b * q >= b * 256 /\ b * q \in Nat
      BY <1>1, <2>4, <3>1, Multiples
    <3> QED BY <1>1, <2>3, <2>4, <3>2
  <2>6. ASSUME q \in 0..255, NEW r, r = Result(Aw(rest, q), p)
        PROVE  Al(r.dst) * b + Ah(r.dst) = x /\ Ah(r.dst) < b /\ r.dst \in Operand(16)
    <3>1. Fit(8, q) = q /\ Fit(8, rest) = rest
      BY <1>1, <2>3, <2>4, <2>6, Byte
    <3>2. Al(Aw(rest, q)) = q /\ Ah(Aw(rest, q)) = rest /\ Aw(rest, q) \in Operand(16)
      BY <2>3, <3>1, WordOf
    <3>3. q * b = b * q
      BY <1>1, <2>3, SignsOfProduct
    <3> QED BY <2>3, <2>4, <2>6, <3>2, <3>3 DEF Result
  <2> QED BY <1>3, <2>2, <2>5, <2>6
<1> QED BY <1>2, <1>3

\* IDIV does, of signed numbers, and refuses -128 too.
LEMMA IdivIs ==
  ASSUME NEW x \in Operand(16), NEW b \in Operand(8), NEW p,
         NEW sx, sx = Signed(16, x), NEW sy, sy = Signed(8, b)
  PROVE  /\ sx \in Int /\ sy \in Int /\ (sy = 0 <=> b = 0)
         /\ Idiv(x, b, p) = {} => Amount(sx) >= 128 * Amount(sy)
         /\ \A r \in Idiv(x, b, p) :
              LET rest == Signed(8, Ah(r.dst))
              IN  /\ b # 0 /\ r.dst \in Operand(16)
                  /\ Signed(8, Al(r.dst)) * sy + rest = sx
                  /\ Amount(rest) < Amount(sy) /\ (rest = 0 \/ (rest < 0 <=> x >= 32768))
<1> DEFINE q == Quotient(sx, sy)
           rest == sx - sy * q
<1>1. /\ x \in Int /\ 0 <= x /\ x < 65536 /\ b \in Int /\ 0 <= b /\ b < 256
  BY Ranges
<1>2. /\ x >= 32768 => sx = x - 65536
      /\ x < 32768 => sx = x
      /\ b >= 128 => sy = b - 256
      /\ b < 128 => sy = b
  BY SignedWord, SignedByte
<1>3. sx \in Int /\ sy \in Int /\ (sy = 0 <=> b = 0) /\ -128 <= sy /\ sy <= 127 /\ (sx < 0 <=> x >= 32768)
  BY <1>1, <1>2
<1>4. Idiv(x, b, p) = Divide(sx, sy, -127..127, p)
  BY DEF Idiv
<1>5. CASE b = 0
  <2>1. Amount(sx) >= 128 * Amount(sy)
    BY <1>3, <1>5 DEF Amount
  <2> QED BY <1>3, <1>4, <1>5, <2>1 DEF Divide
<1>6. CASE b # 0
  <2>1. q = Quotient(sx, sy) /\ rest = sx - sy * q
    OBVIOUS
  <2>2. /\ Idiv(x, b, p) = {} <=> q \notin -127..127
        /\ \A r \in Idiv(x, b, p) : r = Result(Aw(rest, q), p) /\ q \in -127..127
    BY <1>3, <1>4, <1>6 DEF Divide
  <2> HIDE DEF q, rest
  <2>3. /\ q \in Int /\ rest \in Int /\ sx = sy * q + rest
        /\ Amount(rest) < Amount(sy) /\ (rest = 0 \/ (rest < 0 <=> sx < 0))
        /\ Amount(q) = Amount(sx) \div Amount(sy)
    <3>1. sx \in Int /\ sy \in Int /\ sy # 0
      BY <1>3, <1>6
    <3>2. QuotientFacts(sx, sy, q, rest)
      BY <2>1, <3>1, QuotientHas
    <3> QED BY <3>1, <3>2 DEF QuotientFacts
  <2>4. ASSUME q \notin -127..127 PROVE Amount(sx) >= 128 * Amount(sy)
    <3> DEFINE X == Amount(sx)
               Y == Amount(sy)
               d == Amount(q)
               m == X % Y
    <3>1. X \in Nat /\ Y \in Nat /\ Y > 0 /\ d >= 128 /\ d \in Nat
      BY <1>3, <1>6, <2>3, <2>4 DEF Amount
    <3>2. d = X \div Y /\ m = X % Y
      BY <2>3
    <3> HIDE DEF X, Y, d, m
    <3>3. X = Y * d + m /\ m \in Nat
      <4>1. X = Y * (X \div Y) + (X % Y) /\ X % Y \in Nat
        BY <3>1, EuclidAll
      <4> QED BY <3>2, <4>1
    <3>4. Y * d >= Y * 128 /\ Y * d \in Nat
      BY <3>1, Multiples
    <3>5. X >= 128 * Y
      BY <3>1, <3>3, <3>4
    <3> QED BY <3>5 DEF X, Y
  <2>5. ASSUME q \in -127..127, NEW r, r = Result(Aw(rest, q), p)
        PROVE  /\ r.dst \in Operand(16)
               /\ Signed(8, Al(r.dst)) = q /\ Signed(8, Ah(r.dst)) = rest
    <3>1. -128 <= rest /\ rest <= 127
      BY <1>3, <2>3 DEF Amount
    <3>2. Signed(8, Fit(8, q)) = q /\ Signed(8, Fit(8, rest)) = rest
      BY <2>3, <2>5, <3>1, Resigned
    <3>3. Al(Aw(rest, q)) = Fit(8, q) /\ Ah(Aw(rest, q)) = Fit(8, rest) /\ Aw(rest, q) \in Operand(16)
      BY <2>3, WordOf
    <3> QED BY <2>5, <3>2, <3>3 DEF Result
  <2>6. q * sy + rest = sx
    BY <1>3, <2>3, SignsOfProduct
  <2> QED BY <1>3, <1>6, <2>2, <2>3, <2>4, <2>5, <2>6
<1> QED BY <1>5, <1>6

LEMMA DivideStep ==
  ASSUME TypeOK, Next, NEW op \in Dividing, Insn = I(op, "aw", "bw"), NEW b, b = Al(bw)
  PROVE  /\ b \in Operand(8)
         /\ \/ faulted' /\ pc' = pc /\ aw' = 1 /\ Quotients = {}
            \/ (faulted' <=> faulted) /\ pc' = pc + 1 /\ \E r \in Quotients : aw' = r.dst
         /\ op = "aam" => Quotients = IF b = 0 THEN {} ELSE {Aam(aw, b, psw)}
         /\ op = "div" => Quotients = Div(aw, b, psw)
         /\ op = "idiv" => Quotients = Idiv(aw, b, psw)
<1>1. Insn.op = op /\ Insn.on = "aw" /\ Insn.by = "bw"
  BY DEF I
<1>2. Al(Src) = b
  BY <1>1 DEF Src, Part
<1>3. b \in Operand(8)
  BY TypeFacts, WordParts
<1>4. ExecDiv \/ DivFault
  BY <1>1, Acts
<1>5. CASE ExecDiv
  <2>1. PICK r \in Quotients : Set(r)
    BY <1>5 DEF ExecDiv
  <2>2. aw' = r.dst /\ pc' = pc + 1 /\ faulted' = faulted
    BY <1>1, <2>1 DEF Set, With
  <2> QED BY <1>1, <1>2, <1>3, <2>2 DEF Quotients
<1>6. CASE DivFault
  BY <1>1, <1>2, <1>3, <1>6 DEF DivFault, Quotients
<1> QED BY <1>4, <1>5, <1>6

LEMMA MultiplyStep ==
  ASSUME TypeOK, Next, NEW op \in {"mul", "imul"}, Insn = I(op, "aw", "bw"), NEW b, b = Al(bw)
  PROVE  /\ pc' = pc + 1 /\ faulted' = faulted /\ b \in Operand(8)
         /\ op = "mul" => aw' = Fit(16, Al(aw) * b)
         /\ op = "imul" => aw' = Fit(16, Signed(8, Al(aw)) * Signed(8, b))
<1>1. Insn.op = op /\ Insn.on = "aw" /\ Insn.by = "bw"
  BY DEF I
<1>2. Al(Src) = b
  BY <1>1 DEF Src, Part
<1>3. b \in Operand(8)
  BY TypeFacts, WordParts
<1>4. CASE op = "mul"
  <2>1. Set(Mul(aw, b, psw))
    BY <1>1, <1>2, <1>4, Acts
  <2> QED BY <1>1, <1>3, <1>4, <2>1 DEF Set, With, Mul, Product, Result
<1>5. CASE op = "imul"
  <2>1. Set(Imul(aw, b, psw))
    BY <1>1, <1>2, <1>5, Acts
  <2> QED BY <1>1, <1>3, <1>5, <2>1 DEF Set, With, Imul, Product, Result
<1> QED BY <1>4, <1>5

\* What a division, or the multiplication before it, leaves until the idiom ends.
Dividend == IF faulted THEN 1 ELSE from.aw

QuotientDone ==
  LET b == Al(bw)
      l == Al(from.aw)
  IN  /\ idiom = Digits =>
           /\ faulted => b = 0
           /\ pc > 0 => b # 0
           /\ pc = 1 => Al(aw) = l % b /\ Ah(aw) = l \div b
      /\ idiom = MulBack =>
           /\ pc = 0 => ~faulted
           /\ pc = 1 /\ ~faulted => aw = l * b
           /\ faulted => b = 0
           /\ pc = 2 => b # 0
      /\ idiom = ImulBack =>
           /\ pc = 0 => ~faulted
           /\ pc = 1 /\ ~faulted => aw = Fit(16, Signed(8, l) * Signed(8, b))
           /\ pc = 2 => b # 0
      /\ idiom \in {DivBy("div"), DivBy("idiv")} =>
           /\ pc = 0 => aw = Dividend
           /\ pc = 1 => b # 0

LEMMA DifferentIdioms ==
  /\ Digits # MulBack /\ Digits # ImulBack /\ MulBack # ImulBack /\ DivBy("div") # DivBy("idiv")
  /\ \A op : DivBy(op) # Digits /\ DivBy(op) # MulBack /\ DivBy(op) # ImulBack
BY DEF Digits, MulBack, ImulBack, DivBy, I

\* MUL gives a product that DIV divides back.
LEMMA BytesProduct ==
  ASSUME NEW l \in Operand(8), NEW b \in Operand(8), NEW x, x = l * b
  PROVE  /\ x \in Operand(16) /\ x \in Int /\ Fit(16, x) = x
         /\ b # 0 => /\ x < 256 * b
                     /\ \A q, r \in Operand(8) : q * b + r = x /\ r < b => q = l /\ r = 0
<1>1. l \in Nat /\ b \in Nat /\ l < 256 /\ b < 256
  BY Ranges
<1>2. x \in Int /\ 0 <= x /\ x < 65536
  BY <1>1
<1>3. Fit(16, x) = x /\ x \in Operand(16)
  BY <1>2, Whole, Ranges
<1>4. b # 0 => x < 256 * b
  BY <1>1
<1>5. ASSUME b # 0, NEW q \in Operand(8), NEW r \in Operand(8), q * b + r = x, r < b
      PROVE  q = l /\ r = 0
  <2>1. q \in Nat /\ r \in Nat
    BY Ranges
  <2> DEFINE d == q - l
  <2>2. d * b + r = 0 /\ d \in Int
    BY <1>1, <1>5, <2>1
  <2> HIDE DEF d
  <2>3. d = 0
    <3>1. CASE d > 0
      <4>1. d * b >= b
        BY <1>1, <2>2, <3>1
      <4> QED BY <1>1, <1>5, <2>1, <2>2, <4>1
    <3>2. CASE d < 0
      <4>1. d * b <= -b
        BY <1>1, <2>2, <3>2
      <4> QED BY <1>1, <1>5, <2>1, <2>2, <4>1
    <3> QED BY <2>2, <3>1, <3>2
  <2> QED BY <1>1, <2>1, <2>2, <2>3 DEF d
<1> QED BY <1>2, <1>3, <1>4, <1>5

LEMMA Aams ==
  ASSUME NEW x \in Operand(16), NEW b \in Operand(8), b # 0, NEW p, NEW r, r = Aam(x, b, p)
  PROVE  Al(r.dst) = Al(x) % b /\ Ah(r.dst) = Al(x) \div b
<1> DEFINE l == Al(x)
<1>1. l \in Nat /\ b \in Nat /\ l < 256 /\ b > 0
  BY WordParts, Ranges
<1>2. r.dst = Aw(l \div b, l % b)
  BY DEF Aam, Result
<1> HIDE DEF l
<1>3. l = b * (l \div b) + (l % b) /\ l \div b \in Nat /\ l % b \in Nat /\ l % b < b
  BY <1>1, EuclidAll
<1>4. l \div b < 256 /\ l % b < 256
  <2> DEFINE q == l \div b
             m == l % b
  <2>1. q \in Nat /\ m \in Nat /\ l = b * q + m
    BY <1>3
  <2> HIDE DEF q, m
  <2>2. b * q >= q
    BY <1>1, <2>1
  <2>3. q <= l
    BY <1>1, <2>1, <2>2
  <2>4. m <= l
    BY <1>1, <2>1, <2>2
  <2> QED BY <1>1, <2>1, <2>3, <2>4 DEF q, m
<1> DEFINE q == l \div b
           m == l % b
<1>5. q \in Int /\ m \in Int /\ 0 <= q /\ q < 256 /\ 0 <= m /\ m < 256 /\ r.dst = Aw(q, m)
  BY <1>2, <1>3, <1>4
<1> HIDE DEF q, m
<1>6. Al(r.dst) = m /\ Ah(r.dst) = q
  BY <1>5, WordOf, Byte
<1> QED BY <1>6 DEF q, m, l

LEMMA QuotientStep == TypeOK /\ Started /\ QuotientDone /\ [Next]_vars => QuotientDone'
<1>1. ASSUME QuotientDone, UNCHANGED vars PROVE QuotientDone'
  BY <1>1 DEF vars, QuotientDone, Dividend
<1>2. ASSUME TypeOK, Started, QuotientDone, Next PROVE QuotientDone'
  <2> DEFINE b == Al(bw)
             l == Al(from.aw)
  <2>1. idiom' = idiom /\ bw' = bw /\ from' = from /\ b = Al(bw)
    BY <1>2, Acts
  <2>2. b \in Operand(8) /\ l \in Operand(8) /\ aw \in Operand(16) /\ faulted \in BOOLEAN /\ faulted' \in BOOLEAN
    BY <1>2, TypeFacts, TypeStep, WordParts DEF TypeOK
  <2>a. pc = 0 /\ ~faulted => aw = from.aw
    BY <1>2 DEF Started
  <2>3. CASE idiom = Digits
    <3>1. /\ pc \in {0, 1}
          /\ pc = 0 => Insn = I("aam", "aw", "bw")
          /\ pc = 1 => Insn = I("aad", "aw", "bw")
      BY <1>2, <2>3, InsnOf2 DEF Digits
    <3>2. /\ faulted => b = 0
          /\ pc > 0 => b # 0
      BY <1>2, <2>3 DEF QuotientDone
    <3> HIDE DEF b, l
    <3>3. CASE pc = 0
      <4>1. /\ \/ faulted' /\ pc' = pc /\ aw' = 1 /\ Quotients = {}
               \/ (faulted' <=> faulted) /\ pc' = pc + 1 /\ \E r \in Quotients : aw' = r.dst
            /\ Quotients = IF b = 0 THEN {} ELSE {Aam(aw, b, psw)}
        BY <1>2, <2>1, <3>1, <3>3, DivideStep DEF Dividing
      <4>2. CASE b = 0
        <5>1. faulted' /\ pc' = 0
          BY <3>3, <4>1, <4>2
        <5> QED BY <2>1, <2>3, <4>2, <5>1, DifferentIdioms DEF QuotientDone, b
      <4>3. CASE b # 0
        <5>1. ~faulted /\ aw = from.aw
          BY <2>a, <3>2, <3>3, <4>3
        <5>2. ~faulted' /\ pc' = 1 /\ aw' = Aam(aw, b, psw).dst
          BY <3>3, <4>1, <4>3, <5>1
        <5>3. Al(aw') = l % b /\ Ah(aw') = l \div b
          BY <2>2, <4>3, <5>1, <5>2, Aams DEF l
        <5> QED BY <2>1, <2>3, <4>3, <5>2, <5>3, DifferentIdioms DEF QuotientDone, b, l
      <4> QED BY <4>2, <4>3
    <3>4. CASE pc = 1
      <4>1. pc' = 2 /\ faulted' = faulted
        BY <1>2, <3>1, <3>4, Acts DEF I, Dividing
      <4> QED BY <2>1, <2>3, <3>2, <3>4, <4>1, DifferentIdioms DEF QuotientDone, b
    <3> QED BY <3>1, <3>3, <3>4
  <2>4. CASE idiom = MulBack
    <3>1. /\ pc \in {0, 1}
          /\ pc = 0 => Insn = I("mul", "aw", "bw")
          /\ pc = 1 => Insn = I("div", "aw", "bw")
      BY <1>2, <2>4, InsnOf2 DEF MulBack
    <3>2. /\ pc = 0 => ~faulted
          /\ pc = 1 /\ ~faulted => aw = l * b
          /\ faulted => b = 0
      BY <1>2, <2>4 DEF QuotientDone
    <3> HIDE DEF b, l
    <3>3. CASE pc = 0
      <4>1. pc' = 1 /\ ~faulted' /\ aw' = Fit(16, l * b)
        BY <1>2, <2>1, <2>a, <3>1, <3>2, <3>3, MultiplyStep DEF l
      <4>2. aw' = l * b
        BY <2>2, <4>1, BytesProduct
      <4> QED BY <2>1, <2>4, <4>1, <4>2, DifferentIdioms DEF QuotientDone, b, l
    <3>4. CASE pc = 1
      <4>1. /\ \/ faulted' /\ pc' = pc /\ aw' = 1 /\ Quotients = {}
               \/ (faulted' <=> faulted) /\ pc' = pc + 1 /\ \E r \in Quotients : aw' = r.dst
            /\ Quotients = Div(aw, b, psw)
        BY <1>2, <2>1, <3>1, <3>4, DivideStep DEF Dividing
      <4>2. /\ Quotients = {} => aw >= 256 * b
            /\ \A r \in Quotients : b # 0
        BY <2>2, <4>1, DivIs
      <4>3. CASE faulted' /\ pc' = pc /\ Quotients = {}
        <5>1. b = 0
          <6>1. CASE ~faulted
            <7>1. aw = l * b /\ aw >= 256 * b
              BY <3>2, <3>4, <4>2, <4>3, <6>1
            <7>2. b # 0 => aw < 256 * b
              BY <2>2, <7>1, BytesProduct
            <7>3. aw \in Int /\ 256 * b \in Int
              BY <2>2, Ranges
            <7> QED BY <7>1, <7>2, <7>3
          <6> QED BY <3>2, <6>1
        <5> QED BY <2>1, <2>4, <3>4, <4>3, <5>1, DifferentIdioms DEF QuotientDone, b
      <4>4. CASE (faulted' <=> faulted) /\ pc' = pc + 1 /\ \E r \in Quotients : aw' = r.dst
        <5>1. b # 0 /\ pc' = 2 /\ ~faulted'
          BY <3>2, <3>4, <4>2, <4>4
        <5> QED BY <2>1, <2>4, <5>1, DifferentIdioms DEF QuotientDone, b
      <4> QED BY <4>1, <4>3, <4>4
    <3> QED BY <3>1, <3>3, <3>4
  <2>5. CASE idiom = ImulBack
    <3>1. /\ pc \in {0, 1}
          /\ pc = 0 => Insn = I("imul", "aw", "bw")
          /\ pc = 1 => Insn = I("idiv", "aw", "bw")
      BY <1>2, <2>5, InsnOf2 DEF ImulBack
    <3>2. pc = 0 => ~faulted
      BY <1>2, <2>5 DEF QuotientDone
    <3> HIDE DEF b, l
    <3>3. CASE pc = 0
      <4>1. pc' = 1 /\ ~faulted' /\ aw' = Fit(16, Signed(8, l) * Signed(8, b))
        BY <1>2, <2>1, <2>a, <3>1, <3>2, <3>3, MultiplyStep DEF l
      <4> QED BY <2>1, <2>5, <4>1, DifferentIdioms DEF QuotientDone, b, l
    <3>4. CASE pc = 1
      <4>1. /\ \/ faulted' /\ pc' = pc /\ aw' = 1 /\ Quotients = {}
               \/ (faulted' <=> faulted) /\ pc' = pc + 1 /\ \E r \in Quotients : aw' = r.dst
            /\ Quotients = Idiv(aw, b, psw)
        BY <1>2, <2>1, <3>1, <3>4, DivideStep DEF Dividing
      <4>2. \A r \in Quotients : b # 0
        BY <2>2, <4>1, IdivIs
      <4>3. CASE faulted' /\ pc' = pc
        BY <2>1, <2>5, <3>4, <4>3, DifferentIdioms DEF QuotientDone
      <4>4. CASE (faulted' <=> faulted) /\ pc' = pc + 1 /\ \E r \in Quotients : aw' = r.dst
        <5>1. b # 0 /\ pc' = 2
          BY <3>4, <4>2, <4>4
        <5> QED BY <2>1, <2>5, <5>1, DifferentIdioms DEF QuotientDone, b
      <4> QED BY <4>1, <4>3, <4>4
    <3> QED BY <3>1, <3>3, <3>4
  <2>6. ASSUME NEW op \in {"div", "idiv"}, idiom = DivBy(op) PROVE QuotientDone'
    <3>1. pc = 0 /\ Insn = I(op, "aw", "bw")
      BY <1>2, <2>6, Only DEF DivBy
    <3> HIDE DEF b, l
    <3>2. /\ \/ faulted' /\ pc' = pc /\ aw' = 1 /\ Quotients = {}
             \/ (faulted' <=> faulted) /\ pc' = pc + 1 /\ \E r \in Quotients : aw' = r.dst
          /\ op = "div" => Quotients = Div(aw, b, psw)
          /\ op = "idiv" => Quotients = Idiv(aw, b, psw)
      BY <1>2, <2>1, <3>1, DivideStep DEF Dividing
    <3>3. \A r \in Quotients : b # 0
      BY <2>2, <2>6, <3>2, DivIs, IdivIs
    <3>4. CASE faulted' /\ pc' = pc /\ aw' = 1
      BY <2>1, <2>6, <3>1, <3>4, DifferentIdioms DEF QuotientDone, Dividend
    <3>5. CASE pc' = pc + 1 /\ \E r \in Quotients : aw' = r.dst
      BY <2>1, <2>6, <3>1, <3>3, <3>5, DifferentIdioms DEF QuotientDone, Dividend, b
    <3> QED BY <3>2, <3>4, <3>5
  <2>7. CASE idiom \notin Divided
    BY <2>1, <2>7 DEF QuotientDone, Divided
  <2> QED BY <2>3, <2>4, <2>5, <2>6, <2>7 DEF Divided
<1> QED BY <1>1, <1>2

LEMMA AlwaysQuotientDone == Spec => []QuotientDone
<1>1. Init => QuotientDone
  BY DEF Init, QuotientDone, Dividend
<1> QED BY <1>1, Typed, AlwaysStarted, QuotientStep, PTL DEF Spec

LEMMA Aads ==
  ASSUME NEW x \in Operand(16), NEW b \in Operand(8), b # 0, NEW l \in Operand(8),
         Al(x) = l % b, Ah(x) = l \div b, NEW p
  PROVE  Aad(x, b, p).dst = l
<1>1. l \in Nat /\ b \in Nat /\ b > 0 /\ l \in Int /\ 0 <= l /\ l < 256
  BY Ranges
<1>2. l = b * (l \div b) + (l % b) /\ l \div b \in Nat /\ l % b \in Nat
  BY <1>1, EuclidAll
<1> DEFINE q == l \div b
           m == l % b
<1>3. q \in Int /\ m \in Int /\ l = b * q + m /\ Al(x) = m /\ Ah(x) = q
  BY <1>2
<1> HIDE DEF q, m
<1>4. m + q * b = l
  BY <1>1, <1>3, SignsOfProduct
<1>5. Aad(x, b, p).dst = Aw(0, l)
  BY <1>3, <1>4 DEF Aad, Result
<1>6. Fit(8, 0) = 0 /\ Fit(8, l) = l
  BY <1>1, Byte
<1>7. Aw(0, l) = l
  BY <1>1, <1>6 DEF Aw
<1> QED BY <1>5, <1>7

LEMMA PackedAdjusted ==
  ASSUME TypeOK, DigitsDone, Next, NEW neg \in BOOLEAN,
         idiom = IF neg THEN Decimal("sub", "das") ELSE Decimal("add", "daa"), pc = 1,
         NEW a, a = Al(from.aw), NEW b, b = Al(bw), IsPacked(a), IsPacked(b)
  PROVE  /\ IsPacked(Al(aw'))
         /\ neg => PackedValue(Al(aw')) - 100 * AsInt(psw'.cy) = PackedValue(a) - PackedValue(b)
         /\ ~neg => PackedValue(Al(aw')) + 100 * AsInt(psw'.cy) = PackedValue(a) + PackedValue(b)
<1> DEFINE r == DaaDas(neg, aw, psw)
           z == Al(aw)
           lo == psw.ac \/ z % 16 > 9
           hi == psw.cy \/ z > 153
           off == (IF lo THEN 6 ELSE 0) + (IF hi THEN 96 ELSE 0)
<1>1. aw \in Operand(16) /\ psw \in Psw /\ a \in Operand(8) /\ b \in Operand(8)
  BY TypeFacts, WordParts
<1>2. Insn = I(IF neg THEN "das" ELSE "daa", "aw", "zero")
  BY DecimalInsn
<1>3. aw' = r.dst /\ psw' = r.psw
  <2> DEFINE op == IF neg THEN "das" ELSE "daa"
  <2>1. op \in Adjusting /\ (op = "das" <=> neg) /\ op \in {"daa", "das"}
    BY DEF Adjusting
  <2>2. DaaDas(op = "das", aw, psw) = r
    BY <2>1
  <2> HIDE DEF op, r
  <2>3. PICK s : s = IF op \in {"daa", "das"} THEN DaaDas(op = "das", aw, psw)
                                              ELSE AaaAas(op = "aas", aw, psw)
    OBVIOUS
  <2>4. aw' = s.dst /\ psw' = s.psw
    BY <1>2, <2>1, <2>3, AdjustStep DEF op
  <2> QED BY <2>1, <2>2, <2>3, <2>4
<1>4. /\ z = IF neg THEN Fit(8, a - b) ELSE Fit(8, a + b)
      /\ psw.cy <=> IF neg THEN a < b ELSE a + b > 255
      /\ psw.ac <=> IF neg THEN (a % 16) - (b % 16) < 0 ELSE (a % 16) + (b % 16) >= 16
  <2>1. <<"add", "daa">> \in Adjusts /\ <<"sub", "das">> \in Adjusts
    BY DEF Adjusts
  <2>2. CASE neg
    <3>1. idiom = Decimal(<<"sub", "das">>[1], <<"sub", "das">>[2]) /\ <<"sub", "das">>[1] = "sub"
      BY <2>2
    <3>2. /\ Al(aw) = Fit(8, Al(from.aw) - Al(bw))
          /\ psw.cy <=> Al(from.aw) < Al(bw)
          /\ psw.ac <=> (Al(from.aw) % 16) - (Al(bw) % 16) < 0
      BY <2>1, <3>1 DEF DigitsDone
    <3> QED BY <2>2, <3>2
  <2>3. CASE ~neg
    <3>1. idiom = Decimal(<<"add", "daa">>[1], <<"add", "daa">>[2]) /\ <<"add", "daa">>[1] = "add"
      BY <2>3
    <3>2. /\ Al(aw) = Fit(8, Al(from.aw) + Al(bw))
          /\ psw.cy <=> Al(from.aw) + Al(bw) > 255
          /\ psw.ac <=> (Al(from.aw) % 16) + (Al(bw) % 16) >= 16
      BY <2>1, <3>1 DEF DigitsDone
    <3> QED BY <2>3, <3>2
  <2> QED BY <2>2, <2>3
<1>5. r = DaaDas(neg, aw, psw) /\ z = Al(aw) /\ lo = (psw.ac \/ z % 16 > 9) /\ hi = (psw.cy \/ z > 153)
      /\ off = (IF lo THEN 6 ELSE 0) + (IF hi THEN 96 ELSE 0)
  OBVIOUS
<1>6. lo \in BOOLEAN /\ hi \in BOOLEAN
  BY <1>1 DEF Psw
<1> HIDE DEF r, z, lo, hi, off
<1>7. /\ Al(r.dst) = Fit(8, IF neg THEN z - off ELSE z + off)
      /\ r.psw.cy <=> hi
      /\ r.psw \in Psw
  BY <1>1, <1>5, DaaDasIs
<1>8. AsInt(psw'.cy) = IF hi THEN 1 ELSE 0
  BY <1>3, <1>7 DEF AsInt
<1>9. CASE neg
  <2>1. /\ z = Fit(8, a - b)
        /\ lo <=> (a % 16) - (b % 16) < 0 \/ z % 16 > 9
        /\ hi <=> a < b \/ z > 153
        /\ Al(r.dst) = Fit(8, z - ((IF lo THEN 6 ELSE 0) + (IF hi THEN 96 ELSE 0)))
    BY <1>4, <1>5, <1>7, <1>9
  <2>2. /\ IsPacked(Al(r.dst))
        /\ PackedValue(Al(r.dst)) - 100 * (IF hi THEN 1 ELSE 0) = PackedValue(a) - PackedValue(b)
    BY <1>1, <2>1, PackedDifference
  <2> QED BY <1>3, <1>8, <1>9, <2>2
<1>10. CASE ~neg
  <2>1. /\ z = Fit(8, a + b)
        /\ lo <=> (a % 16) + (b % 16) >= 16 \/ z % 16 > 9
        /\ hi <=> a + b > 255 \/ z > 153
        /\ Al(r.dst) = Fit(8, z + ((IF lo THEN 6 ELSE 0) + (IF hi THEN 96 ELSE 0)))
    BY <1>4, <1>5, <1>7, <1>10
  <2>2. /\ IsPacked(Al(r.dst))
        /\ PackedValue(Al(r.dst)) + 100 * (IF hi THEN 1 ELSE 0) = PackedValue(a) + PackedValue(b)
    BY <1>1, <2>1, PackedSum
  <2> QED BY <1>3, <1>8, <1>10, <2>2
<1> QED BY <1>9, <1>10

LEMMA UnpackedAdjusted ==
  ASSUME TypeOK, DigitsDone, Next, NEW neg \in BOOLEAN,
         idiom = IF neg THEN Decimal("sub", "aas") ELSE Decimal("add", "aaa"), pc = 1,
         NEW a, a = Al(from.aw), NEW b, b = Al(bw), a <= 9, b <= 9,
         NEW c, c = AsInt(psw'.cy)
  PROVE  /\ Al(aw') <= 9
         /\ neg => Al(aw') - 10 * c = a - b /\ Ah(aw') = (Ah(from.aw) - c) % 256
         /\ ~neg => Al(aw') + 10 * c = a + b /\ Ah(aw') = (Ah(from.aw) + c) % 256
<1> DEFINE r == AaaAas(neg, aw, psw)
           z == Al(aw)
           adjust == psw.ac \/ z % 16 > 9
           n == IF ~adjust THEN 0 ELSE IF neg THEN -1 ELSE 1
<1>1. aw \in Operand(16) /\ psw \in Psw /\ a \in Operand(8) /\ b \in Operand(8)
  BY TypeFacts, WordParts
<1>2. Insn = I(IF neg THEN "aas" ELSE "aaa", "aw", "zero")
  BY DecimalInsn
<1>3. aw' = r.dst /\ psw' = r.psw
  <2> DEFINE op == IF neg THEN "aas" ELSE "aaa"
  <2>1. op \in Adjusting /\ (op = "aas" <=> neg) /\ op \notin {"daa", "das"}
    BY DEF Adjusting
  <2>2. AaaAas(op = "aas", aw, psw) = r
    BY <2>1
  <2> HIDE DEF op, r
  <2>3. PICK s : s = IF op \in {"daa", "das"} THEN DaaDas(op = "das", aw, psw)
                                              ELSE AaaAas(op = "aas", aw, psw)
    OBVIOUS
  <2>4. aw' = s.dst /\ psw' = s.psw
    BY <1>2, <2>1, <2>3, AdjustStep DEF op
  <2> QED BY <2>1, <2>2, <2>3, <2>4
<1>4. /\ z = IF neg THEN Fit(8, a - b) ELSE Fit(8, a + b)
      /\ psw.ac <=> IF neg THEN (a % 16) - (b % 16) < 0 ELSE (a % 16) + (b % 16) >= 16
      /\ Ah(aw) = Ah(from.aw)
  <2>1. <<"add", "aaa">> \in Adjusts /\ <<"sub", "aas">> \in Adjusts
    BY DEF Adjusts
  <2>2. CASE neg
    <3>1. idiom = Decimal(<<"sub", "aas">>[1], <<"sub", "aas">>[2]) /\ <<"sub", "aas">>[1] = "sub"
      BY <2>2
    <3>2. /\ Al(aw) = Fit(8, Al(from.aw) - Al(bw))
          /\ psw.ac <=> (Al(from.aw) % 16) - (Al(bw) % 16) < 0
          /\ Ah(aw) = Ah(from.aw)
      BY <2>1, <3>1 DEF DigitsDone
    <3> QED BY <2>2, <3>2
  <2>3. CASE ~neg
    <3>1. idiom = Decimal(<<"add", "aaa">>[1], <<"add", "aaa">>[2]) /\ <<"add", "aaa">>[1] = "add"
      BY <2>3
    <3>2. /\ Al(aw) = Fit(8, Al(from.aw) + Al(bw))
          /\ psw.ac <=> (Al(from.aw) % 16) + (Al(bw) % 16) >= 16
          /\ Ah(aw) = Ah(from.aw)
      BY <2>1, <3>1 DEF DigitsDone
    <3> QED BY <2>3, <3>2
  <2> QED BY <2>2, <2>3
<1>5. /\ r = AaaAas(neg, aw, psw) /\ z = Al(aw) /\ adjust = (psw.ac \/ z % 16 > 9)
      /\ n = IF ~adjust THEN 0 ELSE IF neg THEN -1 ELSE 1
  OBVIOUS
<1>6. adjust \in BOOLEAN
  BY <1>1 DEF Psw
<1>7. z \in Int /\ Ah(aw) \in Int
  BY <1>1, WordParts, Ranges
<1> HIDE DEF r, z, adjust, n
<1>8. /\ Al(r.dst) = (z + 6 * n) % 16 /\ Ah(r.dst) = (Ah(aw) + n) % 256
      /\ r.psw.cy <=> adjust
      /\ r.psw \in Psw
  BY <1>1, <1>5, AaaAasIs
<1>9. c = IF adjust THEN 1 ELSE 0
  BY <1>3, <1>8 DEF AsInt
<1>10. CASE neg
  <2>1. n = -c /\ c \in Int
    BY <1>5, <1>9, <1>10
  <2>2. z + 6 * n = z - 6 * c /\ Ah(aw) + n = Ah(aw) - c
    BY <1>7, <2>1
  <2>3. /\ z = Fit(8, a - b)
        /\ adjust <=> (a % 16) - (b % 16) < 0 \/ z % 16 > 9
        /\ Al(r.dst) = (z - 6 * c) % 16
    BY <1>4, <1>5, <1>8, <1>10, <2>2
  <2>4. Al(r.dst) <= 9 /\ Al(r.dst) - 10 * c = a - b
    BY <1>1, <1>9, <2>3, UnpackedDifference
  <2> QED BY <1>3, <1>4, <1>8, <1>10, <2>2, <2>4
<1>11. CASE ~neg
  <2>1. n = c
    BY <1>5, <1>9, <1>11
  <2>2. /\ z = Fit(8, a + b)
        /\ adjust <=> (a % 16) + (b % 16) >= 16 \/ z % 16 > 9
        /\ Al(r.dst) = (z + 6 * c) % 16
    BY <1>4, <1>5, <1>8, <1>11, <2>1
  <2>3. Al(r.dst) <= 9 /\ Al(r.dst) + 10 * c = a + b
    BY <1>1, <1>9, <2>2, UnpackedSum
  <2> QED BY <1>3, <1>4, <1>8, <1>11, <2>1, <2>3
<1> QED BY <1>10, <1>11

LEMMA DigitsBack ==
  ASSUME TypeOK, QuotientDone, Next, idiom = Digits, pc = 1
  PROVE  aw' = Al(from.aw)
<1> DEFINE b == Al(bw)
           l == Al(from.aw)
<1>1. Insn = I("aad", "aw", "bw")
  BY InsnOf2 DEF Digits
<1>2. Insn.op = "aad" /\ Insn.on = "aw" /\ Al(Src) = b
  BY <1>1 DEF I, Src, Part
<1>3. aw' = Aad(aw, b, psw).dst
  BY <1>2, Acts DEF Set, With
<1>4. aw \in Operand(16) /\ b \in Operand(8) /\ l \in Operand(8)
  BY TypeFacts, WordParts
<1>5. b # 0 /\ Al(aw) = l % b /\ Ah(aw) = l \div b
  BY DEF QuotientDone
<1> HIDE DEF b, l
<1>6. Aad(aw, b, psw).dst = l
  BY <1>4, <1>5, Aads
<1> QED BY <1>3, <1>6 DEF l

LEMMA DecimalsStep ==
  TypeOK /\ DigitsDone /\ QuotientDone /\ Decimals /\ [Next]_vars => Decimals'
<1>1. ASSUME Decimals, UNCHANGED vars PROVE Decimals'
  BY <1>1 DEF vars, Decimals, Ended
<1>2. ASSUME TypeOK, DigitsDone, QuotientDone, Next PROVE Decimals'
  <2> DEFINE a == Al(from.aw)
             b == Al(bw)
             al == Al(aw')
             c == AsInt(psw'.cy)
  <2>1. idiom' = idiom /\ bw' = bw /\ from' = from /\ Running
    BY <1>2, Acts
  <2>2. a = Al(from.aw) /\ b = Al(bw) /\ al = Al(aw') /\ c = AsInt(psw'.cy)
    OBVIOUS
  <2>3. ASSUME NEW op \in {"add", "sub"}, NEW adjust \in Adjusting, Ended(Decimal(op, adjust))'
        PROVE  idiom = Decimal(op, adjust) /\ pc = 1
    <3>1. idiom = Decimal(op, adjust) /\ pc' = 2
      BY <2>1, <2>3 DEF Ended, Decimal
    <3>2. /\ pc \in {0, 1}
          /\ pc = 0 => Insn = I(op, "al", "bw")
          /\ pc = 1 => Insn = I(adjust, "aw", "zero")
      BY <1>2, <3>1, DecimalInsn
    <3>3. pc' = pc + 1
      BY <1>2, <3>2, Acts DEF I, Dividing, Adjusting
    <3> QED BY <3>1, <3>2, <3>3
  <2> HIDE DEF a, b, al, c
  <2>4. PICK no \in BOOLEAN, yes \in BOOLEAN : ~no /\ yes
    OBVIOUS
  <2>5. ASSUME IsPacked(a), IsPacked(b), Ended(Decimal("add", "daa"))'
        PROVE  IsPacked(al) /\ PackedValue(al) + 100 * c = PackedValue(a) + PackedValue(b)
    <3>1. idiom = (IF no THEN Decimal("sub", "das") ELSE Decimal("add", "daa")) /\ pc = 1
      BY <2>3, <2>4, <2>5 DEF Adjusting
    <3> QED BY <1>2, <2>2, <2>4, <2>5, <3>1, PackedAdjusted
  <2>6. ASSUME IsPacked(a), IsPacked(b), Ended(Decimal("sub", "das"))'
        PROVE  IsPacked(al) /\ PackedValue(al) - 100 * c = PackedValue(a) - PackedValue(b)
    <3>1. idiom = (IF yes THEN Decimal("sub", "das") ELSE Decimal("add", "daa")) /\ pc = 1
      BY <2>3, <2>4, <2>6 DEF Adjusting
    <3> QED BY <1>2, <2>2, <2>4, <2>6, <3>1, PackedAdjusted
  <2>7. ASSUME a <= 9, b <= 9, Ended(Decimal("add", "aaa"))'
        PROVE  al <= 9 /\ al + 10 * c = a + b /\ Ah(aw') = (Ah(from.aw) + c) % 256
    <3>1. idiom = (IF no THEN Decimal("sub", "aas") ELSE Decimal("add", "aaa")) /\ pc = 1
      BY <2>3, <2>4, <2>7 DEF Adjusting
    <3> QED BY <1>2, <2>2, <2>4, <2>7, <3>1, UnpackedAdjusted
  <2>8. ASSUME a <= 9, b <= 9, Ended(Decimal("sub", "aas"))'
        PROVE  al <= 9 /\ al - 10 * c = a - b /\ Ah(aw') = (Ah(from.aw) - c) % 256
    <3>1. idiom = (IF yes THEN Decimal("sub", "aas") ELSE Decimal("add", "aaa")) /\ pc = 1
      BY <2>3, <2>4, <2>8 DEF Adjusting
    <3>2. a <= 9 /\ b <= 9
      BY <2>8
    <3>3. /\ al <= 9
          /\ yes => al - 10 * c = a - b /\ Ah(aw') = (Ah(from.aw) - c) % 256
      BY <1>2, <2>2, <3>1, <3>2, UnpackedAdjusted
    <3> QED BY <2>4, <3>3
  <2>9. ASSUME Ended(Digits)' PROVE aw' = a
    <3>1. idiom = Digits /\ pc' = 2
      BY <2>1, <2>9 DEF Ended, Digits
    <3>2. /\ pc \in {0, 1}
          /\ pc = 0 => Insn = I("aam", "aw", "bw")
      BY <1>2, <3>1, InsnOf2 DEF Digits
    <3>3. CASE pc = 0
      <4>1. pc' \in {0, 1}
        BY <1>2, <2>2, <3>2, <3>3, DivideStep DEF Dividing
      <4> QED BY <3>1, <4>1
    <3>4. CASE pc = 1
      BY <1>2, <2>2, <3>1, <3>4, DigitsBack
    <3> QED BY <3>2, <3>3, <3>4
  <2> QED BY <2>1, <2>5, <2>6, <2>7, <2>8, <2>9 DEF Decimals, IsPacked, PackedValue, a, b, al, c
<1> QED BY <1>1, <1>2

\* Adding or subtracting decimal digits and adjusting gives the digits of the sum
\* or difference, with its decimal carry or borrow; AAM and AAD divide and
\* multiply back.
THEOREM DigitsAdjusted == Spec => []Decimals
<1>1. Init => Decimals
  BY DEF Init, Decimals, Ended, Decimal, Digits
<1> QED BY <1>1, Typed, AlwaysDigitsDone, AlwaysQuotientDone, DecimalsStep, PTL DEF Spec

LEMMA FitsIdiv == \A q \in Int : -127 <= q /\ q <= 127 => q \in -127..127
OBVIOUS

LEMMA SignedProducts ==
  ASSUME NEW l \in Operand(8), NEW b \in Operand(8), b # 0,
         NEW sl, sl = Signed(8, l), NEW sb, sb = Signed(8, b), NEW x, x = Fit(16, sl * sb), NEW p
  PROVE  /\ sl \in Int /\ sb \in Int /\ x \in Operand(16) /\ Signed(16, x) = sl * sb
         /\ Quotient(sl * sb, sb) = sl
         /\ Idiv(x, b, p) = {} => l = 128
         /\ \A r \in Idiv(x, b, p) : r.dst = l
<1>1. l \in Int /\ 0 <= l /\ l < 256 /\ b \in Int /\ 0 <= b /\ b < 256
  BY Ranges
<1>2. /\ l >= 128 => sl = l - 256
      /\ l < 128 => sl = l
      /\ b >= 128 => sb = b - 256
      /\ b < 128 => sb = b
  BY SignedByte
<1>3. /\ sl \in Int /\ -128 <= sl /\ sl <= 127 /\ sb \in Int /\ -128 <= sb /\ sb <= 127 /\ sb # 0
      /\ (sl = -128 <=> l = 128)
  BY <1>1, <1>2
<1> DEFINE m == sl * sb
<1>4. m \in Int /\ -16256 <= m /\ m <= 16384
  BY <1>3
<1>5. m = sb * sl
  BY <1>3, SignsOfProduct
<1> HIDE DEF m
<1>6. x \in Operand(16) /\ Signed(16, x) = m
  <2>1. x = Fit(16, m)
    BY DEF m
  <2>2. x \in Operand(16) /\ (0 <= m => x = m) /\ (m < 0 => x = m + 65536)
    BY <1>4, <2>1, Whole
  <2> QED BY <1>4, <2>2, SignedWord
<1>7. Quotient(m, sb) = sl
  <2> DEFINE q == Quotient(m, sb)
             rest == m - sb * q
             d == q - sl
  <2>1. QuotientFacts(m, sb, q, rest)
    BY <1>3, <1>4, QuotientHas
  <2> HIDE DEF q, rest
  <2>2. q \in Int /\ rest \in Int /\ m = sb * q + rest /\ Amount(rest) < Amount(sb)
    BY <2>1 DEF QuotientFacts
  <2>3. d \in Int /\ sb * d = -rest
    <3>1. sb * d = sb * q - sb * sl
      BY <1>3, <2>2
    <3>2. sb * q \in Int /\ sb * sl \in Int
      BY <1>3, <2>2
    <3> QED BY <1>3, <1>5, <2>2, <3>1, <3>2
  <2> HIDE DEF d
  <2>4. Amount(sb * d) < Amount(sb)
    BY <2>2, <2>3 DEF Amount
  <2>5. d = 0
    <3>1. ASSUME d # 0 PROVE Amount(sb * d) >= Amount(sb)
      <4>1. CASE sb > 0 /\ d > 0
        BY <1>3, <2>3, <4>1 DEF Amount
      <4>2. CASE sb > 0 /\ d < 0
        BY <1>3, <2>3, <4>2 DEF Amount
      <4>3. CASE sb < 0 /\ d > 0
        BY <1>3, <2>3, <4>3 DEF Amount
      <4>4. CASE sb < 0 /\ d < 0
        BY <1>3, <2>3, <4>4 DEF Amount
      <4> QED BY <1>3, <2>3, <3>1, <4>1, <4>2, <4>3, <4>4
    <3>2. Amount(sb * d) \in Int /\ Amount(sb) \in Int
      BY <1>3, <2>3 DEF Amount
    <3> QED BY <2>4, <3>1, <3>2
  <2> QED BY <1>3, <2>2, <2>5 DEF q, d
<1>8. Idiv(x, b, p) = Divide(m, sb, -127..127, p)
  BY <1>6 DEF Idiv
<1>9. Idiv(x, b, p) = {} => l = 128
  <2>1. Idiv(x, b, p) = {} => sl \notin -127..127
    BY <1>3, <1>7, <1>8 DEF Divide
  <2>2. sl # -128 => sl \in -127..127
    <3>1. sl \in Int /\ -128 <= sl /\ sl <= 127
      BY <1>3
    <3>2. sl # -128 => -127 <= sl
      BY <3>1
    <3> QED BY <3>1, <3>2, FitsIdiv
  <2> QED BY <1>3, <2>1, <2>2
<1>10. ASSUME NEW r \in Idiv(x, b, p) PROVE r.dst = l
  <2>1. r.dst = Aw(m - sb * sl, sl)
    BY <1>3, <1>7, <1>8 DEF Divide, Result
  <2>2. m - sb * sl = 0
    BY <1>4, <1>5
  <2>3. Fit(8, 0) = 0 /\ Fit(8, sl) = l
    BY <1>1, <1>2, <1>3, Byte
  <2> QED BY <1>1, <2>1, <2>2, <2>3 DEF Aw
<1> QED BY <1>3, <1>6, <1>7, <1>9, <1>10 DEF m

\* The parts of Divisions.
NeverByZero ==
  idiom \in {MulBack, ImulBack, DivBy("div"), DivBy("idiv"), Digits} /\ Al(bw) = 0 => ~(pc = Len(idiom))

FaultsDue ==
  LET b == Al(bw)
      x == Signed(16, from.aw)
      y == Signed(8, b)
  IN  faulted =>
        CASE idiom \in {MulBack, Digits} -> b = 0
          [] idiom = ImulBack -> b = 0 \/ Al(from.aw) = 128
          [] idiom = DivBy("div") -> from.aw >= 256 * b
          [] idiom = DivBy("idiv") -> Amount(x) >= 128 * Amount(y)

Undone == pc = Len(idiom) /\ ~faulted /\ idiom \in {MulBack, ImulBack} => aw = Al(from.aw)

DivGives(x, b, dividend) == Al(x) * b + Ah(x) = dividend /\ Ah(x) < b

IdivGives(x, y, dividend) ==
  LET rest == Signed(8, Ah(x))
  IN  /\ Signed(8, Al(x)) * y + rest = Signed(16, dividend)
      /\ Amount(rest) < Amount(y) /\ (rest = 0 \/ (rest < 0) = Negative(16, dividend))

Exact ==
  /\ pc = Len(idiom) /\ idiom = DivBy("div") => DivGives(aw, Al(bw), Dividend)
  /\ pc = Len(idiom) /\ idiom = DivBy("idiv") => IdivGives(aw, Signed(8, Al(bw)), Dividend)

LEMMA DivisionsParts == Divisions <=> NeverByZero /\ FaultsDue /\ Undone /\ Exact
<1>1. NeverByZero /\ FaultsDue /\ Undone /\ Exact => Divisions
  BY Zenon DEF Divisions, NeverByZero, FaultsDue, Undone, Exact, DivGives, IdivGives, Amount, Dividend
<1>2. Divisions => NeverByZero /\ FaultsDue /\ Undone /\ Exact
  BY Zenon DEF Divisions, NeverByZero, FaultsDue, Undone, Exact, DivGives, IdivGives, Amount, Dividend
<1> QED BY <1>1, <1>2

LEMMA DivisionsStep ==
  TypeOK /\ Started /\ QuotientDone /\ Divisions /\ [Next]_vars => Divisions'
<1>1. ASSUME Divisions, UNCHANGED vars PROVE Divisions'
  BY <1>1 DEF vars, Divisions
<1>2. ASSUME TypeOK, Started, QuotientDone, Divisions, Next PROVE Divisions'
  <2> DEFINE b == Al(bw)
             l == Al(from.aw)
             x == Signed(16, from.aw)
             y == Signed(8, b)
             dividend == IF faulted' THEN 1 ELSE from.aw
             rest == Signed(8, Ah(aw'))
  <2>1. /\ idiom' = idiom /\ bw' = bw /\ from' = from /\ b = Al(bw) /\ l = Al(from.aw)
        /\ Al(bw)' = b /\ Al(from.aw)' = l
    BY <1>2, Acts
  <2>2. /\ b \in Operand(8) /\ l \in Operand(8) /\ aw \in Operand(16) /\ aw' \in Operand(16)
        /\ from.aw \in Operand(16) /\ faulted \in BOOLEAN /\ faulted' \in BOOLEAN
        /\ QuotientDone'
    BY <1>2, TypeFacts, TypeStep, QuotientStep, WordParts DEF TypeOK
  <2>3. CASE idiom = Digits
    <3>1. pc' = Len(idiom') => b # 0
      BY <2>1, <2>2, <2>3 DEF QuotientDone, Digits
    <3>2. faulted' => b = 0
      BY <2>1, <2>2, <2>3 DEF QuotientDone
    <3> HIDE DEF b
    <3> QED BY <2>1, <2>3, <3>1, <3>2, DifferentIdioms DEF Divisions
  <2>4. CASE idiom = MulBack
    <3>1. pc' = Len(idiom') => b # 0
      BY <2>1, <2>2, <2>4 DEF QuotientDone, MulBack
    <3>2. faulted' => b = 0
      BY <2>1, <2>2, <2>4 DEF QuotientDone
    <3>3. ASSUME pc' = Len(idiom'), ~faulted' PROVE aw' = l
      <4>1. pc' = 2
        BY <2>1, <2>4, <3>3 DEF MulBack
      <4>2. /\ pc \in {0, 1}
            /\ pc = 0 => Insn = I("mul", "aw", "bw")
            /\ pc = 1 => Insn = I("div", "aw", "bw")
        BY <1>2, <2>4, InsnOf2 DEF MulBack
      <4>3. pc = 1
        BY <1>2, <2>1, <4>1, <4>2, MultiplyStep
      <4>4. /\ Quotients = Div(aw, b, psw) /\ ~faulted
            /\ \E r \in Quotients : aw' = r.dst
        BY <1>2, <2>1, <3>3, <4>2, <4>3, DivideStep DEF Dividing
      <4>5. aw = l * b /\ b # 0
        BY <1>2, <2>1, <2>2, <2>4, <3>1, <3>3, <4>3, <4>4 DEF QuotientDone
      <4> HIDE DEF b, l
      <4>6. Al(aw') * b + Ah(aw') = aw /\ Ah(aw') < b /\ aw' \in Operand(16)
        BY <2>2, <4>4, DivIs
      <4>7. Al(aw') \in Operand(8) /\ Ah(aw') \in Operand(8) /\ aw' = 256 * Ah(aw') + Al(aw')
        BY <4>6, WordParts
      <4>8. Al(aw') = l /\ Ah(aw') = 0
        <5>1. \A q, r \in Operand(8) : q * b + r = aw /\ r < b => q = l /\ r = 0
          BY <2>2, <4>5, BytesProduct
        <5> QED BY <4>6, <4>7, <5>1
      <4> QED BY <2>2, <4>7, <4>8, Widening
    <3> HIDE DEF b, l
    <3> QED BY <2>1, <2>4, <3>1, <3>2, <3>3, DifferentIdioms DEF Divisions
  <2>5. CASE idiom = ImulBack
    <3>1. pc' = Len(idiom') => b # 0
      BY <2>1, <2>2, <2>5 DEF QuotientDone, ImulBack
    <3>2. /\ pc \in {0, 1}
          /\ pc = 0 => Insn = I("imul", "aw", "bw")
          /\ pc = 1 => Insn = I("idiv", "aw", "bw")
      BY <1>2, <2>5, InsnOf2 DEF ImulBack
    <3>3. pc = 1 => /\ Quotients = Idiv(aw, b, psw)
                    /\ \/ faulted' /\ pc' = pc /\ Quotients = {}
                       \/ (faulted' <=> faulted) /\ pc' = pc + 1 /\ \E r \in Quotients : aw' = r.dst
      BY <1>2, <2>1, <3>2, DivideStep DEF Dividing
    <3>4. pc = 0 => pc' = 1 /\ faulted' = faulted
      BY <1>2, <2>1, <3>2, MultiplyStep
    <3>5. /\ pc = 0 => ~faulted
          /\ pc = 1 /\ ~faulted => aw = Fit(16, Signed(8, l) * Signed(8, b))
      BY <1>2, <2>5 DEF QuotientDone
    <3>6. faulted => b = 0 \/ l = 128
      BY <1>2, <2>5, DifferentIdioms DEF Divisions
    <3>7. ASSUME faulted', ~faulted PROVE b = 0 \/ l = 128
      <4>1. pc = 1 /\ Quotients = {} /\ Quotients = Idiv(aw, b, psw)
        BY <3>2, <3>3, <3>4, <3>7
      <4>2. aw = Fit(16, Signed(8, l) * Signed(8, b))
        BY <3>5, <3>7, <4>1
      <4> HIDE DEF b, l
      <4> QED BY <2>2, <4>1, <4>2, SignedProducts
    <3>8. ASSUME pc' = Len(idiom'), ~faulted' PROVE aw' = l
      <4>1. pc' = 2
        BY <2>1, <2>5, <3>8 DEF ImulBack
      <4>2. pc = 1 /\ ~faulted /\ b # 0
        BY <3>1, <3>2, <3>3, <3>4, <3>8, <4>1
      <4>3. PICK r \in Idiv(aw, b, psw) : aw' = r.dst
        BY <3>3, <3>8, <4>2
      <4>4. aw = Fit(16, Signed(8, l) * Signed(8, b))
        BY <3>5, <4>2
      <4> HIDE DEF b, l
      <4> QED BY <2>2, <4>2, <4>3, <4>4, SignedProducts
    <3> HIDE DEF b, l
    <3> QED BY <2>1, <2>5, <3>1, <3>6, <3>7, <3>8, DifferentIdioms DEF Divisions
  <2>6. CASE idiom = DivBy("div")
    <3>1. pc' = Len(idiom') => b # 0
      BY <2>1, <2>2, <2>6 DEF QuotientDone, DivBy
    <3>2. pc = 0 /\ Insn = I("div", "aw", "bw")
      BY <1>2, <2>6, Only DEF DivBy
    <3>3. /\ Quotients = Div(aw, b, psw)
          /\ \/ faulted' /\ pc' = pc /\ Quotients = {}
             \/ (faulted' <=> faulted) /\ pc' = pc + 1 /\ \E r \in Quotients : aw' = r.dst
      BY <1>2, <2>1, <3>2, DivideStep DEF Dividing
    <3>4. aw = Dividend
      BY <1>2, <2>6, <3>2 DEF QuotientDone
    <3>5. faulted => from.aw >= 256 * b
      BY <1>2, <2>6, DifferentIdioms DEF Divisions
    <3> HIDE DEF b, l
    <3>6. ASSUME faulted', ~faulted PROVE from.aw >= 256 * b
      BY <2>2, <3>3, <3>4, <3>6, DivIs DEF Dividend
    <3>7. ASSUME pc' = Len(idiom')
          PROVE  Al(aw') * b + Ah(aw') = dividend /\ Ah(aw') < b
      <4>1. pc' = 1
        BY <2>1, <2>6, <3>7 DEF DivBy
      <4>2. (faulted' <=> faulted) /\ \E r \in Quotients : aw' = r.dst
        BY <3>2, <3>3, <4>1
      <4>3. aw = dividend
        BY <3>4, <4>2 DEF Dividend
      <4> QED BY <2>2, <3>3, <4>2, <4>3, DivIs
    <3> HIDE DEF dividend
    <3> QED BY <2>1, <2>6, <3>1, <3>5, <3>6, <3>7, DifferentIdioms DEF Divisions, dividend
  <2>7. CASE idiom = DivBy("idiv")
    <3>1. pc' = Len(idiom') => b # 0
      BY <2>1, <2>2, <2>7 DEF QuotientDone, DivBy
    <3>2. pc = 0 /\ Insn = I("idiv", "aw", "bw")
      BY <1>2, <2>7, Only DEF DivBy
    <3>3. /\ Quotients = Idiv(aw, b, psw)
          /\ \/ faulted' /\ pc' = pc /\ Quotients = {}
             \/ (faulted' <=> faulted) /\ pc' = pc + 1 /\ \E r \in Quotients : aw' = r.dst
      BY <1>2, <2>1, <3>2, DivideStep DEF Dividing
    <3>4. aw = Dividend
      BY <1>2, <2>7, <3>2 DEF QuotientDone
    <3>5. faulted => Amount(x) >= 128 * Amount(y)
      BY <1>2, <2>7, DifferentIdioms DEF Divisions, Amount
    <3>6. x = Signed(16, from.aw) /\ y = Signed(8, b)
      OBVIOUS
    <3> HIDE DEF b, l, x, y
    <3>7. ASSUME faulted', ~faulted PROVE Amount(x) >= 128 * Amount(y)
      BY <2>2, <3>3, <3>4, <3>6, <3>7, IdivIs DEF Dividend
    <3>8. ASSUME pc' = Len(idiom')
          PROVE  /\ Signed(8, Al(aw')) * y + rest = Signed(16, dividend)
                 /\ Amount(rest) < Amount(y) /\ (rest = 0 \/ (rest < 0 <=> dividend >= 32768))
      <4>1. pc' = 1
        BY <2>1, <2>7, <3>8 DEF DivBy
      <4>2. (faulted' <=> faulted) /\ \E r \in Quotients : aw' = r.dst
        BY <3>2, <3>3, <4>1
      <4>3. aw = dividend
        BY <3>4, <4>2 DEF Dividend
      <4> HIDE DEF dividend
      <4>4. PICK r \in Idiv(aw, b, psw) : aw' = r.dst
        BY <3>3, <4>2
      <4> QED BY <2>2, <3>6, <4>3, <4>4, IdivIs
    <3> HIDE DEF dividend, rest
    <3>9. pc' = Len(idiom') => (rest = 0 \/ (rest < 0) = Negative(16, dividend))
      <4>1. dividend \in Operand(16)
        BY <2>2, Ranges DEF dividend
      <4>2. (dividend >= 32768) = Negative(16, dividend)
        BY <4>1, Whole, Ranges DEF Negative, Bit
      <4> QED BY <3>8, <4>2
    <3> QED BY <2>1, <2>7, <3>1, <3>5, <3>7, <3>8, <3>9, DifferentIdioms
            DEF Divisions, dividend, rest, x, y, Amount
  <2>8. CASE idiom \notin Divided
    <3>1. ~faulted' /\ idiom' \notin Divided
      <4>1. Started'
        BY <1>2, StartedStep
      <4> QED BY <2>1, <2>8, <4>1 DEF Started
    <3> QED BY <3>1 DEF Divisions, Divided
  <2> QED BY <2>3, <2>4, <2>5, <2>6, <2>7, <2>8 DEF Divided
<1> QED BY <1>1, <1>2

\* A division gives quotient and remainder exactly, faults only where the quotient
\* does not fit, and undoes a multiplication.
THEOREM DivisionsExact == Spec => []Divisions
<1>1. Init => Divisions
  <2> SUFFICES ASSUME Init PROVE Divisions
    OBVIOUS
  <2>1. pc = 0 /\ ~faulted /\ idiom \in Idioms
    BY DEF Init
  <2>2. Len(idiom) # 0
    BY <2>1, WellFormedIdioms
  <2> QED BY <2>1, <2>2 DEF Divisions
<1> QED BY <1>1, Typed, AlwaysStarted, AlwaysQuotientDone, DivisionsStep, PTL DEF Spec

-----------------------------------------------------------------------------
(* Words negated and shifted, a byte at a time.                            *)

\* A byte shifted by one.
LEMMA Halves ==
  ASSUME NEW a \in Operand(8)
  PROVE  /\ Left(8, a, 1) = Fit(8, 2 * a) /\ Right(8, a, 1) = a \div 2
         /\ SarDst(8, a, 1) = a \div 2 + (IF a >= 128 THEN 128 ELSE 0)
         /\ OutLeft(8, a, 1) <=> a >= 128
         /\ Negative(8, a) <=> a >= 128
         /\ Bit(a, 0) <=> a % 2 = 1
         /\ \A cy \in OutRight(a, 1) : cy <=> a % 2 = 1
<1>1. a \in Int /\ 0 <= a /\ a < 256
  BY Ranges
<1>2. Negative(8, a) <=> a >= 128
  BY <1>1, Byte
<1>3. Left(8, a, 1) = Fit(8, 2 * a) /\ Right(8, a, 1) = a \div 2
  BY <1>1 DEF Left, Right, Fit
<1>4. SarDst(8, a, 1) = a \div 2 + (IF a >= 128 THEN 128 ELSE 0)
  BY <1>1, <1>2 DEF SarDst, SignBits, Right
<1>5. OutLeft(8, a, 1) <=> a >= 128
  BY <1>1 DEF OutLeft, Bit
<1>6. Bit(a, 0) <=> a % 2 = 1
  BY <1>1 DEF Bit
<1>7. \A cy \in OutRight(a, 1) : cy <=> a % 2 = 1
  BY <1>6 DEF OutRight
<1> QED BY <1>2, <1>3, <1>4, <1>5, <1>6, <1>7

\* RCL and RCR by one do one round.
LEMMA TurnsByOne ==
  ASSUME NEW w \in Widths, NEW a \in Operand(w), NEW p \in Psw
  PROVE  /\ Rcl(w, a, 1, p) = Turned(w, a, RclOne(w, [a |-> a, cy |-> p.cy]), p)
         /\ Rcr(w, a, 1, p) = Turned(w, a, RcrOne(w, [a |-> a, cy |-> p.cy]), p)
<1> DEFINE t == [a |-> a, cy |-> p.cy]
<1>1. t \in Pair(w) /\ 1 \in Nat
  BY DEF Pair, Psw
<1>2. 1 \in 1..1 /\ 1 - 1 = 0
  OBVIOUS
<1> HIDE DEF t
<1>3. \A g, step : Iterates(g, t, step, 1) => g[1] = step[t]
  BY <1>2 DEF Iterates
<1>4. Rcl(w, a, 1, p) = Turned(w, a, RclOne(w, t), p)
  <2> DEFINE step == [r \in Pair(w) |-> RclOne(w, r)]
  <2>1. step[t] = RclOne(w, t)
    BY <1>1
  <2> HIDE DEF step
  <2>2. PICK g : Iterates(g, t, step, 1) /\ Rcl(w, a, 1, p) = Turned(w, a, g[1], p)
    BY <1>1, RclIs DEF t, step
  <2> QED BY <1>3, <2>1, <2>2
<1>5. Rcr(w, a, 1, p) = Turned(w, a, RcrOne(w, t), p)
  <2> DEFINE step == [r \in Pair(w) |-> RcrOne(w, r)]
  <2>1. step[t] = RcrOne(w, t)
    BY <1>1
  <2> HIDE DEF step
  <2>2. PICK g : Iterates(g, t, step, 1) /\ Rcr(w, a, 1, p) = Turned(w, a, g[1], p)
    BY <1>1, RcrIs DEF t, step
  <2> QED BY <1>3, <2>1, <2>2
<1> QED BY <1>4, <1>5 DEF t

\* What a shift of a byte by one leaves.
ByteShifted(op, a, c, dst, out) ==
  CASE op = "shl" -> dst = Fit(8, 2 * a) /\ (out <=> a >= 128)
    [] op = "shr" -> dst = a \div 2 /\ (out <=> a % 2 = 1)
    [] op = "sar" -> dst = a \div 2 + (IF a >= 128 THEN 128 ELSE 0) /\ (out <=> a % 2 = 1)
    [] op = "rcl" -> dst = Fit(8, 2 * a + AsInt(c)) /\ (out <=> a >= 128)
    [] op = "rcr" -> dst = a \div 2 + (IF c THEN 128 ELSE 0) /\ (out <=> a % 2 = 1)

LEMMA ShiftByOne ==
  ASSUME NEW op \in {"shl", "shr", "sar", "rcl", "rcr"}, NEW a \in Operand(8), NEW p \in Psw,
         NEW r \in Shift(op, 8, a, 1, p)
  PROVE  ByteShifted(op, a, p.cy, r.dst, r.psw.cy)
<1>1. r \in ShiftBy(op, 8, a, 1, p) /\ 8 \in Widths /\ 1 \in 0..31 /\ 1 < 8
  BY DEF Shift, Widths
<1>2. CASE op = "shl"
  <2>1. r \in Shl(8, a, 1, p)
    BY <1>1, <1>2 DEF ShiftBy
  <2>2. r.dst = Left(8, a, 1) /\ r.psw.cy = OutLeft(8, a, 1)
    BY <1>1, <2>1, ShiftIs
  <2> QED BY <1>2, <2>2, Halves DEF ByteShifted
<1>3. CASE op = "shr"
  <2>1. r \in Shr(8, a, 1, p)
    BY <1>1, <1>3 DEF ShiftBy
  <2>2. r.dst = Right(8, a, 1) /\ r.psw.cy \in OutRight(a, 1)
    BY <1>1, <2>1, ShiftIs
  <2> QED BY <1>3, <2>2, Halves DEF ByteShifted
<1>4. CASE op = "sar"
  <2>1. r \in Sar(8, a, 1, p)
    BY <1>1, <1>4 DEF ShiftBy
  <2>2. r.dst = SarDst(8, a, 1) /\ r.psw.cy \in OutRight(a, 1)
    BY <1>1, <2>1, SarIs
  <2> QED BY <1>4, <2>2, Halves DEF ByteShifted
<1> DEFINE t == [a |-> a, cy |-> p.cy]
<1>5. t.a = a /\ t.cy = p.cy /\ t \in Pair(8)
  BY DEF Pair, Psw
<1> HIDE DEF t
<1>6. CASE op = "rcl"
  <2>1. r \in Turned(8, a, RclOne(8, t), p)
    BY <1>1, <1>6, TurnsByOne DEF ShiftBy, t
  <2>2. r.dst = RclOne(8, t).a /\ r.psw.cy = RclOne(8, t).cy
    BY <1>1, <1>5, <2>1, OneTurn, TurnedIs
  <2>3. RclOne(8, t).a = Fit(8, 2 * a + AsInt(p.cy)) /\ RclOne(8, t).cy = Negative(8, a)
    BY <1>5 DEF RclOne
  <2> QED BY <1>6, <2>2, <2>3, Halves DEF ByteShifted
<1>7. CASE op = "rcr"
  <2>1. r \in Turned(8, a, RcrOne(8, t), p)
    BY <1>1, <1>7, TurnsByOne DEF ShiftBy, t
  <2>2. r.dst = RcrOne(8, t).a /\ r.psw.cy = RcrOne(8, t).cy
    BY <1>1, <1>5, <2>1, OneTurn, TurnedIs
  <2>3. RcrOne(8, t).a = a \div 2 + (IF p.cy THEN 128 ELSE 0) /\ RcrOne(8, t).cy = Bit(a, 0)
    BY <1>5 DEF RcrOne
  <2> QED BY <1>7, <2>2, <2>3, Halves DEF ByteShifted
<1> QED BY <1>2, <1>3, <1>4, <1>6, <1>7

LEMMA ShiftStep ==
  ASSUME TypeOK, Next, NEW on \in Parts, NEW op \in Shiftings, NEW by, Insn = I(op, on, by)
  PROVE  /\ pc' = pc + 1 /\ cw' = cw
         /\ Src \in Nat
         /\ \E r \in Shift(op, Width(on), Part(on, aw), Src, psw) :
              /\ r.dst \in Operand(Width(on)) /\ r.psw \in Psw
              /\ psw' = r.psw /\ aw' = With(on, aw, r.dst) /\ Part(on, aw') = r.dst
              /\ on = "al" => Al(aw') = r.dst /\ Ah(aw') = Ah(aw)
              /\ on = "ah" => Ah(aw') = r.dst /\ Al(aw') = Al(aw)
<1>1. Insn.op = op /\ Insn.on = on /\ Running
  BY Acts DEF I
<1>2. W = Width(on) /\ Dst = Part(on, aw) /\ W \in Widths /\ Dst \in Operand(W) /\ Src \in Nat
  BY <1>1, Operands DEF W, Dst
<1>3. PICK r \in Shift(op, W, Dst, Src, psw) : Set(r)
  BY <1>1, Acts
<1>4. Fine(W, r)
  BY <1>2, <1>3, ShiftFine, TypeFacts
<1>5. r.dst \in Operand(Width(on)) /\ r.psw \in Psw
  BY <1>2, <1>4 DEF Fine
<1>6. /\ psw' = r.psw /\ pc' = pc + 1 /\ aw' = With(on, aw, r.dst)
      /\ Part(on, aw') = r.dst
      /\ on = "al" => Al(aw') = r.dst /\ Ah(aw') = Ah(aw)
      /\ on = "ah" => Ah(aw') = r.dst /\ Al(aw') = Al(aw)
  BY <1>1, <1>3, <1>5, PartSet
<1>7. cw' = cw
  BY <1>3 DEF Set
<1> QED BY <1>2, <1>3, <1>5, <1>6, <1>7

LEMMA ByteStep ==
  ASSUME TypeOK, Next, NEW on \in {"al", "ah"},
         NEW op \in {"shl", "shr", "sar", "rcl", "rcr"}, Insn = I(op, on, "one")
  PROVE  /\ pc' = pc + 1 /\ psw' \in Psw
         /\ ByteShifted(op, Part(on, aw), psw.cy, Part(on, aw'), psw'.cy)
         /\ on = "al" => Ah(aw') = Ah(aw)
         /\ on = "ah" => Al(aw') = Al(aw)
<1>1. on \in Parts /\ Width(on) = 8 /\ op \in Shiftings
  BY DEF Parts, Width, Shiftings
<1>2. Src = 1
  BY DEF Src, I
<1>3. pc' = pc + 1
  BY <1>1, ShiftStep
<1>4. PICK r \in Shift(op, 8, Part(on, aw), 1, psw) :
              /\ r.dst \in Operand(Width(on)) /\ r.psw \in Psw
              /\ psw' = r.psw /\ aw' = With(on, aw, r.dst) /\ Part(on, aw') = r.dst
              /\ on = "al" => Al(aw') = r.dst /\ Ah(aw') = Ah(aw)
              /\ on = "ah" => Ah(aw') = r.dst /\ Al(aw') = Al(aw)
  <2>1. \E r \in Shift(op, Width(on), Part(on, aw), Src, psw) :
              /\ r.dst \in Operand(Width(on)) /\ r.psw \in Psw
              /\ psw' = r.psw /\ aw' = With(on, aw, r.dst) /\ Part(on, aw') = r.dst
              /\ on = "al" => Al(aw') = r.dst /\ Ah(aw') = Ah(aw)
              /\ on = "ah" => Ah(aw') = r.dst /\ Al(aw') = Al(aw)
    BY <1>1, ShiftStep
  <2> QED BY <1>1, <1>2, <2>1
<1>5. Part(on, aw) \in Operand(8) /\ psw \in Psw
  BY <1>1, TypeFacts
<1>6. ByteShifted(op, Part(on, aw), psw.cy, r.dst, r.psw.cy)
  BY <1>4, <1>5, ShiftByOne
<1> QED BY <1>3, <1>4, <1>6

LEMMA NegStep ==
  ASSUME TypeOK, Next, NEW on \in {"al", "ah"}, Insn = I("neg", on, "zero")
  PROVE  /\ pc' = pc + 1 /\ psw' \in Psw
         /\ Part(on, aw') = Fit(8, -Part(on, aw))
         /\ psw'.cy <=> Part(on, aw) # 0
         /\ on = "al" => Ah(aw') = Ah(aw)
         /\ on = "ah" => Al(aw') = Al(aw)
<1> DEFINE a == Part(on, aw)
           r == Neg(8, a, psw)
<1>1. Insn.op = "neg" /\ Insn.on = on /\ on \in Parts /\ Width(on) = 8
  BY DEF I, Parts, Width
<1>2. W = 8 /\ Dst = a
  BY <1>1 DEF W, Dst
<1>3. Set(r)
  BY <1>1, <1>2, Acts
<1>4. a \in Operand(8) /\ a \in Int /\ psw \in Psw
  BY <1>1, TypeFacts, Widening
<1> HIDE DEF a
<1>5. r.dst = Fit(8, -a) /\ r.psw \in Psw /\ (r.psw.cy <=> a # 0)
  BY <1>4, NegIs
<1> HIDE DEF r
<1>6. r.dst \in Operand(8)
  BY <1>4, <1>5, Byte
<1>7. /\ psw' = r.psw /\ pc' = pc + 1 /\ Part(on, aw') = r.dst
      /\ on = "al" => Ah(aw') = Ah(aw)
      /\ on = "ah" => Al(aw') = Al(aw)
  BY <1>1, <1>3, <1>6, PartSet
<1> QED BY <1>5, <1>7 DEF a

LEMMA BorrowStep ==
  ASSUME TypeOK, Next, Insn = I("sbb", "ah", "zero")
  PROVE  /\ pc' = pc + 1
         /\ Ah(aw') = Fit(8, Ah(aw) - AsInt(psw.cy)) /\ Al(aw') = Al(aw)
<1>1. Insn.op = "sbb" /\ Insn.on = "ah" /\ Insn.by = "zero" /\ "ah" \in Parts /\ Width("ah") = 8
  BY DEF I, Parts, Width
<1>2. W = 8 /\ Dst = Part("ah", aw) /\ Part("ah", aw) = Ah(aw) /\ Part("ah", aw') = Ah(aw') /\ Src = 0
  BY <1>1 DEF W, Dst, Src, Part
<1>3. PICK chained \in BOOLEAN : chained = ("sbb" = "sbb")
  OBVIOUS
<1>4. Set(Sub(8, Ah(aw), 0, chained, psw))
  BY <1>1, <1>2, <1>3, Acts
<1> DEFINE r == Sub(8, Ah(aw), 0, chained, psw)
           c == CarryIn(chained, psw)
<1>5. c = AsInt(psw.cy)
  BY <1>3, TypeFacts DEF CarryIn, AsInt, Psw
<1>6. r.dst = Fit(8, Ah(aw) - 0 - c) /\ c \in {0, 1}
  BY TypeFacts, SubIs
<1>7. Ah(aw) \in Int
  BY TypeFacts, WordParts, Widening
<1>s. Set(r)
  BY <1>4
<1> HIDE DEF r, c
<1>8. r.dst = Fit(8, Ah(aw) - c) /\ r.dst \in Operand(8)
  <2>1. Ah(aw) - 0 - c = Ah(aw) - c /\ Ah(aw) - c \in Int
    BY <1>6, <1>7
  <2> QED BY <1>6, <2>1, Byte
<1>9. pc' = pc + 1 /\ Ah(aw') = r.dst /\ Al(aw') = Al(aw)
  BY <1>1, <1>s, <1>8, PartSet
<1> QED BY <1>5, <1>8, <1>9

\* Negating both bytes and taking the borrow from the high one negates a word.
LEMMA WordNegated ==
  ASSUME NEW x \in Operand(16), NEW y \in Operand(16),
         Al(y) = Fit(8, -Al(x)),
         Ah(y) = Fit(8, Fit(8, -Ah(x)) - AsInt(Al(x) # 0))
  PROVE  y = Fit(16, -x)
<1> DEFINE h == Ah(x)
           l == Al(x)
<1>1. /\ h \in Int /\ l \in Int /\ 0 <= h /\ h < 256 /\ 0 <= l /\ l < 256
      /\ x = 256 * h + l /\ y = 256 * Ah(y) + Al(y)
  BY WordParts, Ranges
<1> HIDE DEF h, l
<1>2. Al(y) = (-l) % 256 /\ Ah(y) = (((-h) % 256) - (IF l # 0 THEN 1 ELSE 0)) % 256
  BY DEF Fit, h, l, AsInt
<1>3. (-l) % 256 = IF l = 0 THEN 0 ELSE 256 - l
  BY <1>1
<1>4. (-h) % 256 = IF h = 0 THEN 0 ELSE 256 - h
  BY <1>1
<1>5. Fit(16, -x) = IF x = 0 THEN 0 ELSE 65536 - x
  BY <1>1, Whole
<1> QED BY <1>1, <1>2, <1>3, <1>4, <1>5

\* The carry brings the top bit of one byte into the other.
LEMMA WordShiftedLeft ==
  ASSUME NEW x \in Operand(16), NEW y \in Operand(16), NEW c, c <=> Al(x) >= 128,
         Al(y) = Fit(8, 2 * Al(x)), Ah(y) = Fit(8, 2 * Ah(x) + AsInt(c))
  PROVE  /\ y = Fit(16, 2 * x)
         /\ Ah(x) >= 128 <=> 2 * x > 65535
<1> DEFINE h == Ah(x)
           l == Al(x)
<1>1. /\ h \in Int /\ l \in Int /\ 0 <= h /\ h < 256 /\ 0 <= l /\ l < 256
      /\ x = 256 * h + l /\ y = 256 * Ah(y) + Al(y)
  BY WordParts, Ranges
<1>2. AsInt(c) = IF l >= 128 THEN 1 ELSE 0
  BY DEF AsInt
<1> DEFINE d == AsInt(c)
<1>3. d = IF l >= 128 THEN 1 ELSE 0
  BY <1>2
<1>4. Al(y) = (2 * l) % 256 /\ Ah(y) = (2 * h + d) % 256
  BY DEF Fit
<1> HIDE DEF h, l, d
<1>5. Fit(16, 2 * x) = IF x >= 32768 THEN 2 * x - 65536 ELSE 2 * x
  BY <1>1, Whole
<1>6. (2 * l) % 256 = IF l >= 128 THEN 2 * l - 256 ELSE 2 * l
  BY <1>1
<1>7. (2 * h + d) % 256 = IF h >= 128 THEN 2 * h + d - 256 ELSE 2 * h + d
  BY <1>1, <1>3
<1>8. x >= 32768 <=> h >= 128
  BY <1>1
<1>9. y = Fit(16, 2 * x)
  BY <1>1, <1>3, <1>4, <1>5, <1>6, <1>7, <1>8
<1> QED BY <1>1, <1>8, <1>9 DEF h

LEMMA WordShiftedRight ==
  ASSUME NEW x \in Operand(16), NEW y \in Operand(16), NEW c, c <=> Ah(x) % 2 = 1,
         Al(y) = Al(x) \div 2 + (IF c THEN 128 ELSE 0)
  PROVE  /\ Ah(y) = Ah(x) \div 2 => y = x \div 2
         /\ Ah(y) = Ah(x) \div 2 + (IF Ah(x) >= 128 THEN 128 ELSE 0) => Signed(16, y) = Signed(16, x) \div 2
         /\ Al(x) % 2 = 1 <=> x % 2 = 1
<1> DEFINE h == Ah(x)
           l == Al(x)
           k == Ah(y)
<1>1. /\ h \in Int /\ l \in Int /\ 0 <= h /\ h < 256 /\ 0 <= l /\ l < 256
      /\ x = 256 * h + l /\ y = 256 * k + Al(y) /\ k \in Int
  BY WordParts, Ranges
<1>2. Al(y) = l \div 2 + (IF h % 2 = 1 THEN 128 ELSE 0)
  OBVIOUS
<1>3. /\ (x >= 32768 => Signed(16, x) = x - 65536) /\ (x < 32768 => Signed(16, x) = x)
      /\ (y >= 32768 => Signed(16, y) = y - 65536) /\ (y < 32768 => Signed(16, y) = y)
  BY SignedWord
<1> HIDE DEF h, l, k
<1>4. k = h \div 2 => y = x \div 2
  BY <1>1, <1>2
<1>5. l % 2 = 1 <=> x % 2 = 1
  BY <1>1
<1>6. ASSUME k = h \div 2 + (IF h >= 128 THEN 128 ELSE 0) PROVE Signed(16, y) = Signed(16, x) \div 2
  <2>1. y = x \div 2 + (IF h >= 128 THEN 32768 ELSE 0)
    BY <1>1, <1>2, <1>6
  <2>2. h >= 128 <=> x >= 32768
    BY <1>1
  <2>3. 0 <= x /\ x < 65536
    BY <1>1
  <2>4. CASE h >= 128
    BY <1>1, <1>3, <2>1, <2>2, <2>3, <2>4
  <2>5. CASE h < 128
    BY <1>1, <1>3, <2>1, <2>2, <2>3, <2>5
  <2> QED BY <1>1, <2>4, <2>5
<1> QED BY <1>4, <1>5, <1>6 DEF h, l, k

\* The byte that goes first has been negated or shifted, and for a negation the
\* second one too.
HalfShifted ==
  LET a == from.aw
  IN  /\ idiom = NegBytes /\ pc = 1 => Ah(aw) = Fit(8, -Ah(a)) /\ Al(aw) = Al(a)
      /\ idiom = NegBytes /\ pc = 2 =>
           Ah(aw) = Fit(8, -Ah(a)) /\ Al(aw) = Fit(8, -Al(a)) /\ (psw.cy <=> Al(a) # 0)
      /\ idiom = ShlBytes /\ pc = 1 =>
           Al(aw) = Fit(8, 2 * Al(a)) /\ Ah(aw) = Ah(a) /\ (psw.cy <=> Al(a) >= 128)
      /\ idiom = ShrBytes /\ pc = 1 =>
           Ah(aw) = Ah(a) \div 2 /\ Al(aw) = Al(a) /\ (psw.cy <=> Ah(a) % 2 = 1)
      /\ idiom = SarBytes /\ pc = 1 =>
           /\ Ah(aw) = Ah(a) \div 2 + (IF Ah(a) >= 128 THEN 128 ELSE 0)
           /\ Al(aw) = Al(a) /\ (psw.cy <=> Ah(a) % 2 = 1)

LEMMA HalfStep == TypeOK /\ Started /\ HalfShifted /\ [Next]_vars => HalfShifted'
<1>1. ASSUME HalfShifted, UNCHANGED vars PROVE HalfShifted'
  BY <1>1 DEF vars, HalfShifted
<1>2. ASSUME TypeOK, Started, HalfShifted, Next PROVE HalfShifted'
  <2> DEFINE a == from.aw
  <2>1. idiom' = idiom /\ from' = from /\ a' = a
    BY <1>2, Acts
  <2>2. Part("ah", aw) = Ah(aw) /\ Part("al", aw) = Al(aw) /\ Part("ah", aw') = Ah(aw') /\ Part("al", aw') = Al(aw')
    BY DEF Part
  <2>3. ASSUME idiom = NegBytes
        PROVE  /\ pc' = 1 => Ah(aw') = Fit(8, -Ah(a)) /\ Al(aw') = Al(a)
               /\ pc' = 2 => Ah(aw') = Fit(8, -Ah(a)) /\ Al(aw') = Fit(8, -Al(a)) /\ (psw'.cy <=> Al(a) # 0)
    <3>1. /\ pc \in {0, 1, 2}
          /\ pc = 0 => Insn = I("neg", "ah", "zero") /\ aw = a
          /\ pc = 1 => Insn = I("neg", "al", "zero")
          /\ pc = 2 => Insn = I("sbb", "ah", "zero")
      BY <1>2, <2>3, InsnOf3, Unfaulted DEF NegBytes, I
    <3>2. pc' = pc + 1
      BY <1>2, <3>1, Acts DEF I, Dividing
    <3>3. CASE pc = 0
      BY <1>2, <2>2, <3>1, <3>2, <3>3, NegStep
    <3>4. CASE pc = 1
      BY <1>2, <2>2, <2>3, <3>1, <3>2, <3>4, NegStep DEF HalfShifted
    <3> QED BY <3>1, <3>2, <3>3, <3>4
  <2>4. ASSUME NEW op \in {"shl", "shr", "sar"}, NEW on \in {"al", "ah"}, NEW second,
               idiom = <<I(op, on, "one"), second>>, pc' = 1
        PROVE  /\ ByteShifted(op, Part(on, a), from.psw.cy, Part(on, aw'), psw'.cy)
               /\ on = "al" => Ah(aw') = Ah(a)
               /\ on = "ah" => Al(aw') = Al(a)
    <3>0. idiom[1].op = op
      BY <2>4 DEF I
    <3>1. pc \in {0, 1} /\ (pc = 0 => Insn = I(op, on, "one"))
      BY <1>2, <2>4, InsnOf2
    <3>2. ~faulted /\ (pc = 0 => aw = a /\ psw = from.psw)
      BY <1>2, <3>0, Unfaulted
    <3>3. pc' = pc + 1
      <4>1. idiom \notin Divided
        BY <2>4, <3>0 DEF Divided, MulBack, ImulBack, DivBy, Digits, I
      <4>2. pc + 1 \in 1..Len(idiom) /\ Insn = idiom[pc + 1]
        BY <1>2, Acts, Operands DEF Insn
      <4>3. Insn.op \notin Dividing
        BY <1>2, <4>1, <4>2, DividedIdioms DEF TypeOK
      <4> QED BY <1>2, <4>3, Acts
    <3>4. pc = 0
      BY <2>4, <3>1, <3>3
    <3> QED BY <1>2, <3>1, <3>2, <3>4, ByteStep
  <2>5. ASSUME idiom = ShlBytes, pc' = 1
        PROVE  Al(aw') = Fit(8, 2 * Al(a)) /\ Ah(aw') = Ah(a) /\ (psw'.cy <=> Al(a) >= 128)
    <3>1. ByteShifted("shl", Part("al", a), from.psw.cy, Part("al", aw'), psw'.cy) /\ Ah(aw') = Ah(a)
      BY <2>4, <2>5 DEF ShlBytes
    <3> QED BY <2>2, <3>1 DEF ByteShifted, Part
  <2>6. ASSUME idiom = ShrBytes, pc' = 1
        PROVE  Ah(aw') = Ah(a) \div 2 /\ Al(aw') = Al(a) /\ (psw'.cy <=> Ah(a) % 2 = 1)
    <3>1. ByteShifted("shr", Part("ah", a), from.psw.cy, Part("ah", aw'), psw'.cy) /\ Al(aw') = Al(a)
      BY <2>4, <2>6 DEF ShrBytes
    <3> QED BY <2>2, <3>1 DEF ByteShifted, Part
  <2>7. ASSUME idiom = SarBytes, pc' = 1
        PROVE  /\ Ah(aw') = Ah(a) \div 2 + (IF Ah(a) >= 128 THEN 128 ELSE 0)
               /\ Al(aw') = Al(a) /\ (psw'.cy <=> Ah(a) % 2 = 1)
    <3>1. ByteShifted("sar", Part("ah", a), from.psw.cy, Part("ah", aw'), psw'.cy) /\ Al(aw') = Al(a)
      BY <2>4, <2>7 DEF SarBytes
    <3> QED BY <2>2, <3>1 DEF ByteShifted, Part
  <2> HIDE DEF a
  <2>8. /\ idiom' = NegBytes /\ pc' = 1 => Ah(aw') = Fit(8, -Ah(a)) /\ Al(aw') = Al(a)
        /\ idiom' = NegBytes /\ pc' = 2 =>
             Ah(aw') = Fit(8, -Ah(a)) /\ Al(aw') = Fit(8, -Al(a)) /\ (psw'.cy <=> Al(a) # 0)
    BY <2>1, <2>3
  <2> QED BY <2>1, <2>5, <2>6, <2>7, <2>8 DEF HalfShifted, a
<1> QED BY <1>1, <1>2

LEMMA AlwaysHalfShifted == Spec => []HalfShifted
<1>1. Init => HalfShifted
  BY DEF Init, HalfShifted
<1> QED BY <1>1, Typed, AlwaysStarted, HalfStep, PTL DEF Spec

\* The parts of WideShifts.
NegWide == Ended(NegBytes) => aw = Fit(16, -from.aw)
ShlWide == Ended(ShlBytes) => aw = Fit(16, 2 * from.aw) /\ psw.cy = (2 * from.aw > 65535)
ShrWide == Ended(ShrBytes) => aw = from.aw \div 2 /\ psw.cy = (from.aw % 2 = 1)
SarWide == Ended(SarBytes) =>
  Signed(16, aw) = Signed(16, from.aw) \div 2 /\ psw.cy = (from.aw % 2 = 1)

LEMMA NegWideStep == TypeOK /\ HalfShifted /\ NegWide /\ [Next]_vars => NegWide'
<1>1. ASSUME NegWide, UNCHANGED vars PROVE NegWide'
  BY <1>1 DEF vars, NegWide, Ended
<1>2. ASSUME TypeOK, HalfShifted, Next, Ended(NegBytes)' PROVE aw' = Fit(16, -from.aw) /\ from' = from
  <2>1. idiom' = idiom /\ from' = from /\ idiom = NegBytes /\ pc' = 3
    BY <1>2, Acts DEF Ended, NegBytes
  <2>2. /\ pc \in {0, 1, 2}
        /\ pc = 0 => Insn = I("neg", "ah", "zero")
        /\ pc = 1 => Insn = I("neg", "al", "zero")
        /\ pc = 2 => Insn = I("sbb", "ah", "zero")
    BY <1>2, <2>1, InsnOf3 DEF NegBytes
  <2>3. pc' = pc + 1
    BY <1>2, <2>2, Acts DEF I, Dividing
  <2>4. pc = 2 /\ Insn = I("sbb", "ah", "zero")
    BY <2>1, <2>2, <2>3
  <2>5. Ah(aw) = Fit(8, -Ah(from.aw)) /\ Al(aw) = Fit(8, -Al(from.aw)) /\ (psw.cy <=> Al(from.aw) # 0)
    BY <1>2, <2>1, <2>4 DEF HalfShifted
  <2>6. Ah(aw') = Fit(8, Ah(aw) - AsInt(psw.cy)) /\ Al(aw') = Al(aw)
    BY <1>2, <2>4, BorrowStep
  <2>7. AsInt(psw.cy) = AsInt(Al(from.aw) # 0)
    BY <2>5 DEF AsInt
  <2>8. aw' \in Operand(16) /\ from.aw \in Operand(16)
    BY <1>2, TypeFacts, TypeStep DEF TypeOK
  <2>9. Al(aw') = Fit(8, -Al(from.aw)) /\ Ah(aw') = Fit(8, Fit(8, -Ah(from.aw)) - AsInt(Al(from.aw) # 0))
    BY <2>5, <2>6, <2>7
  <2>10. aw' = Fit(16, -from.aw)
    BY <2>8, <2>9, WordNegated
  <2> QED BY <2>1, <2>10
<1> QED BY <1>1, <1>2 DEF NegWide

\* The second instruction of a shift has ended.
LEMMA SecondByte ==
  ASSUME TypeOK, Next, NEW op \in {"rcl", "rcr"}, NEW on \in {"al", "ah"}, NEW first,
         idiom = <<first, I(op, on, "one")>>, first.op \notin Dividing, pc' = 2
  PROVE  /\ pc = 1 /\ idiom' = idiom /\ from' = from /\ psw' \in Psw
         /\ aw' \in Operand(16) /\ from.aw \in Operand(16)
         /\ ByteShifted(op, Part(on, aw), psw.cy, Part(on, aw'), psw'.cy)
         /\ on = "al" => Ah(aw') = Ah(aw)
         /\ on = "ah" => Al(aw') = Al(aw)
<1>1. /\ pc \in {0, 1}
      /\ pc = 0 => Insn = first
      /\ pc = 1 => Insn = I(op, on, "one")
  BY InsnOf2
<1>2. pc' = pc + 1
  BY <1>1, Acts DEF I, Dividing
<1>3. pc = 1
  BY <1>1, <1>2
<1>4. aw' \in Operand(16) /\ from.aw \in Operand(16) /\ idiom' = idiom /\ from' = from
  BY TypeFacts, TypeStep, Acts DEF TypeOK
<1> QED BY <1>1, <1>3, <1>4, ByteStep

LEMMA ShlWideStep == TypeOK /\ HalfShifted /\ ShlWide /\ [Next]_vars => ShlWide'
<1>1. ASSUME ShlWide, UNCHANGED vars PROVE ShlWide'
  BY <1>1 DEF vars, ShlWide, Ended
<1>2. ASSUME TypeOK, HalfShifted, Next, Ended(ShlBytes)'
      PROVE  aw' = Fit(16, 2 * from.aw) /\ psw'.cy = (2 * from.aw > 65535) /\ from' = from
  <2>1. idiom = <<I("shl", "al", "one"), I("rcl", "ah", "one")>> /\ pc' = 2 /\ I("shl", "al", "one").op \notin Dividing
    BY <1>2, Acts DEF Ended, ShlBytes, I, Dividing
  <2>2. /\ pc = 1 /\ idiom' = idiom /\ from' = from /\ psw' \in Psw
        /\ aw' \in Operand(16) /\ from.aw \in Operand(16)
        /\ ByteShifted("rcl", Part("ah", aw), psw.cy, Part("ah", aw'), psw'.cy)
        /\ Al(aw') = Al(aw)
    BY <1>2, <2>1, SecondByte
  <2>3. Al(aw) = Fit(8, 2 * Al(from.aw)) /\ Ah(aw) = Ah(from.aw) /\ (psw.cy <=> Al(from.aw) >= 128)
    BY <1>2, <2>1, <2>2 DEF HalfShifted, ShlBytes
  <2>4. Ah(aw') = Fit(8, 2 * Ah(from.aw) + AsInt(psw.cy)) /\ (psw'.cy <=> Ah(from.aw) >= 128)
    BY <2>2, <2>3 DEF ByteShifted, Part
  <2>5. aw' = Fit(16, 2 * from.aw) /\ (Ah(from.aw) >= 128 <=> 2 * from.aw > 65535)
    BY <2>2, <2>3, <2>4, WordShiftedLeft
  <2>6. psw'.cy \in BOOLEAN
    BY <2>2 DEF Psw
  <2> QED BY <2>2, <2>4, <2>5, <2>6
<1> QED BY <1>1, <1>2 DEF ShlWide

LEMMA ShrWideStep == TypeOK /\ HalfShifted /\ ShrWide /\ SarWide /\ [Next]_vars => ShrWide' /\ SarWide'
<1>1. ASSUME ShrWide, SarWide, UNCHANGED vars PROVE ShrWide' /\ SarWide'
  BY <1>1 DEF vars, ShrWide, SarWide, Ended
<1>2. ASSUME TypeOK, HalfShifted, Next, NEW op \in {"shr", "sar"},
             idiom = <<I(op, "ah", "one"), I("rcr", "al", "one")>>, pc' = 2
      PROVE  /\ pc = 1 /\ from' = from /\ psw' \in Psw
             /\ aw' \in Operand(16) /\ from.aw \in Operand(16)
             /\ Ah(aw') = Ah(aw)
             /\ Al(aw') = Al(aw) \div 2 + (IF psw.cy THEN 128 ELSE 0)
             /\ psw'.cy <=> Al(aw) % 2 = 1
  <2>1. I(op, "ah", "one").op \notin Dividing
    BY <1>2 DEF I, Dividing
  <2>2. /\ pc = 1 /\ idiom' = idiom /\ from' = from /\ psw' \in Psw
        /\ aw' \in Operand(16) /\ from.aw \in Operand(16)
        /\ ByteShifted("rcr", Part("al", aw), psw.cy, Part("al", aw'), psw'.cy)
        /\ Ah(aw') = Ah(aw)
    BY <1>2, <2>1, SecondByte
  <2> QED BY <2>2 DEF ByteShifted, Part
<1>3. ASSUME TypeOK, HalfShifted, Next, Ended(ShrBytes)'
      PROVE  aw' = from.aw \div 2 /\ psw'.cy = (from.aw % 2 = 1) /\ from' = from
  <2>1. idiom = <<I("shr", "ah", "one"), I("rcr", "al", "one")>> /\ pc' = 2
    BY <1>3, Acts DEF Ended, ShrBytes
  <2>2. /\ pc = 1 /\ from' = from /\ psw' \in Psw
        /\ aw' \in Operand(16) /\ from.aw \in Operand(16)
        /\ Ah(aw') = Ah(aw)
        /\ Al(aw') = Al(aw) \div 2 + (IF psw.cy THEN 128 ELSE 0)
        /\ psw'.cy <=> Al(aw) % 2 = 1
    BY <1>2, <1>3, <2>1
  <2>3. Ah(aw) = Ah(from.aw) \div 2 /\ Al(aw) = Al(from.aw) /\ (psw.cy <=> Ah(from.aw) % 2 = 1)
    BY <1>3, <2>1, <2>2 DEF HalfShifted, ShrBytes
  <2>4. aw' = from.aw \div 2 /\ (Al(from.aw) % 2 = 1 <=> from.aw % 2 = 1)
    BY <2>2, <2>3, WordShiftedRight
  <2>5. psw'.cy \in BOOLEAN
    BY <2>2 DEF Psw
  <2> QED BY <2>2, <2>3, <2>4, <2>5
<1>4. ASSUME TypeOK, HalfShifted, Next, Ended(SarBytes)'
      PROVE  Signed(16, aw') = Signed(16, from.aw) \div 2 /\ psw'.cy = (from.aw % 2 = 1) /\ from' = from
  <2>1. idiom = <<I("sar", "ah", "one"), I("rcr", "al", "one")>> /\ pc' = 2
    BY <1>4, Acts DEF Ended, SarBytes
  <2>2. /\ pc = 1 /\ from' = from /\ psw' \in Psw
        /\ aw' \in Operand(16) /\ from.aw \in Operand(16)
        /\ Ah(aw') = Ah(aw)
        /\ Al(aw') = Al(aw) \div 2 + (IF psw.cy THEN 128 ELSE 0)
        /\ psw'.cy <=> Al(aw) % 2 = 1
    BY <1>2, <1>4, <2>1
  <2>3. /\ Ah(aw) = Ah(from.aw) \div 2 + (IF Ah(from.aw) >= 128 THEN 128 ELSE 0)
        /\ Al(aw) = Al(from.aw) /\ (psw.cy <=> Ah(from.aw) % 2 = 1)
    BY <1>4, <2>1, <2>2 DEF HalfShifted, SarBytes
  <2>4. Signed(16, aw') = Signed(16, from.aw) \div 2 /\ (Al(from.aw) % 2 = 1 <=> from.aw % 2 = 1)
    BY <2>2, <2>3, WordShiftedRight
  <2>5. psw'.cy \in BOOLEAN
    BY <2>2 DEF Psw
  <2> QED BY <2>2, <2>3, <2>4, <2>5
<1> QED BY <1>1, <1>3, <1>4 DEF ShrWide, SarWide

-----------------------------------------------------------------------------
(* Rotations there and back.                                               *)

\* A round of RCL undoes one of RCR, and a round of RCR one of RCL.
LEMMA OneBack ==
  ASSUME NEW w \in Widths, NEW r \in Pair(w)
  PROVE  RcrOne(w, RclOne(w, r)) = r /\ RclOne(w, RcrOne(w, r)) = r
<1> DEFINE a == r.a
           c == AsInt(r.cy)
           top == 2^(w - 1)
           left == Fit(w, 2 * a + c)
           right == a \div 2 + (IF r.cy THEN top ELSE 0)
<1>1. r = [a |-> a, cy |-> r.cy] /\ a \in Operand(w) /\ r.cy \in BOOLEAN /\ c \in {0, 1} /\ (c = 1 <=> r.cy)
  BY DEF Pair, AsInt
<1>2. /\ top \in Int /\ top >= 1 /\ a \in Int /\ 0 <= a /\ a < 2 * top
      /\ Negative(w, a) <=> a >= top
      /\ left = 2 * a + c - (IF a >= top THEN 2 * top ELSE 0)
      /\ Negative(w, right) <=> right >= top
      /\ Fit(w, 2 * right + AsInt(Bit(a, 0))) =
           2 * right + AsInt(Bit(a, 0)) - (IF right >= top THEN 2 * top ELSE 0)
  <2>1. CASE w = 8
    <3>1. top = 128 /\ a \in Int /\ 0 <= a /\ a < 256
      BY <1>1, <2>1, Ranges
    <3>2. left = 2 * a + c - (IF a >= 128 THEN 256 ELSE 0)
      <4>1. PICK x \in Int : x = 2 * a + c
        BY <1>1, <3>1
      <4>2. 0 <= x /\ x < 512 /\ (x >= 256 <=> a >= 128)
        BY <1>1, <3>1, <4>1
      <4>3. Fit(8, x) = x - (IF a >= 128 THEN 256 ELSE 0)
        BY <4>2, Byte
      <4> QED BY <1>1, <2>1, <3>1, <4>1, <4>3
    <3>3. right \in Int /\ 0 <= right /\ right < 256
      BY <3>1
    <3> DEFINE d == AsInt(Bit(a, 0))
    <3>4. d \in {0, 1}
      BY DEF AsInt
    <3> HIDE DEF right, d
    <3>5. PICK x \in Int : x = 2 * right + d
      BY <3>3, <3>4
    <3>a. 0 <= x /\ x < 512 /\ (x >= 256 <=> right >= 128)
      BY <3>3, <3>4, <3>5
    <3>b. Fit(8, x) = x - (IF right >= 128 THEN 256 ELSE 0)
      BY <3>a, Byte
    <3>6. Fit(8, 2 * right + d) = 2 * right + d - (IF right >= 128 THEN 256 ELSE 0)
      BY <3>3, <3>4, <3>5, <3>b
    <3>7. (Negative(8, a) <=> a >= 128) /\ (Negative(8, right) <=> right >= 128)
      BY <3>1, <3>3, Byte
    <3> QED BY <2>1, <3>1, <3>2, <3>6, <3>7 DEF d
  <2>2. CASE w = 16
    <3>1. top = 32768 /\ a \in Int /\ 0 <= a /\ a < 65536
      BY <1>1, <2>2, Ranges
    <3>2. left = 2 * a + c - (IF a >= 32768 THEN 65536 ELSE 0)
      <4>1. PICK x \in Int : x = 2 * a + c
        BY <1>1, <3>1
      <4>2. 0 <= x /\ x < 131072 /\ (x >= 65536 <=> a >= 32768)
        BY <1>1, <3>1, <4>1
      <4>3. Fit(16, x) = x - (IF a >= 32768 THEN 65536 ELSE 0)
        BY <4>2, Whole
      <4> QED BY <1>1, <2>2, <3>1, <4>1, <4>3
    <3>3. right \in Int /\ 0 <= right /\ right < 65536
      BY <3>1
    <3> DEFINE d == AsInt(Bit(a, 0))
    <3>4. d \in {0, 1}
      BY DEF AsInt
    <3> HIDE DEF right, d
    <3>5. PICK x \in Int : x = 2 * right + d
      BY <3>3, <3>4
    <3>a. 0 <= x /\ x < 131072 /\ (x >= 65536 <=> right >= 32768)
      BY <3>3, <3>4, <3>5
    <3>b. Fit(16, x) = x - (IF right >= 32768 THEN 65536 ELSE 0)
      BY <3>a, Whole
    <3>6. Fit(16, 2 * right + d) = 2 * right + d - (IF right >= 32768 THEN 65536 ELSE 0)
      BY <3>3, <3>4, <3>5, <3>b
    <3>7. (Negative(16, a) <=> a >= 32768) /\ (Negative(16, right) <=> right >= 32768)
      BY <3>1, <3>3, Whole
    <3> QED BY <2>2, <3>1, <3>2, <3>6, <3>7 DEF d
  <2> QED BY <2>1, <2>2 DEF Widths
<1>3. /\ RclOne(w, r) = [a |-> left, cy |-> Negative(w, a)]
      /\ RcrOne(w, r) = [a |-> right, cy |-> Bit(a, 0)]
  BY DEF RclOne, RcrOne
<1>4. \A x \in Int : (Bit(x, 0) <=> x % 2 = 1) /\ Bit(x, 0) \in BOOLEAN
  BY DEF Bit
<1>s. /\ right = a \div 2 + (IF r.cy THEN top ELSE 0)
      /\ AsInt(Bit(a, 0)) = a % 2
  BY <1>2, <1>4 DEF AsInt
<1>n. Negative(w, a) \in BOOLEAN /\ Negative(w, right) \in BOOLEAN
  BY DEF Negative, Bit
<1> HIDE DEF a, c, top, left, right
<1>5. RcrOne(w, RclOne(w, r)) = r
  <2>1. RcrOne(w, [a |-> left, cy |-> Negative(w, a)])
          = [a |-> left \div 2 + (IF Negative(w, a) THEN top ELSE 0), cy |-> Bit(left, 0)]
    BY DEF RcrOne, top
  <2>2. left \in Int
    BY <1>1, <1>2
  <2>3. left \div 2 + (IF a >= top THEN top ELSE 0) = a /\ (left % 2 = 1 <=> c = 1)
    <3>1. CASE a >= top
      BY <1>1, <1>2, <3>1
    <3>2. CASE a < top
      BY <1>1, <1>2, <3>2
    <3> QED BY <1>2, <3>1, <3>2
  <2>4. Bit(left, 0) = r.cy
    BY <1>1, <1>4, <2>2, <2>3
  <2>5. left \div 2 + (IF Negative(w, a) THEN top ELSE 0) = a
    BY <1>2, <2>3
  <2> QED BY <1>1, <1>3, <2>1, <2>4, <2>5
<1>6. RclOne(w, RcrOne(w, r)) = r
  <2>1. RclOne(w, [a |-> right, cy |-> Bit(a, 0)])
          = [a |-> Fit(w, 2 * right + AsInt(Bit(a, 0))), cy |-> Negative(w, right)]
    BY DEF RclOne
  <2>2. (right >= top <=> r.cy) /\ 2 * right + (a % 2) - (IF right >= top THEN 2 * top ELSE 0) = a
    <3>1. CASE r.cy
      BY <1>2, <1>s, <3>1
    <3>2. CASE ~r.cy
      BY <1>2, <1>s, <3>2
    <3> QED BY <3>1, <3>2
  <2>3. Negative(w, right) = r.cy
    BY <1>1, <1>2, <1>n, <2>2
  <2>4. Fit(w, 2 * right + AsInt(Bit(a, 0))) = a
    BY <1>2, <1>s, <2>2
  <2> QED BY <1>1, <1>3, <2>1, <2>3, <2>4
<1> QED BY <1>5, <1>6

\* As many rounds back lead to the start.
LEMMA IterationsCancel ==
  ASSUME NEW R, NEW start \in R, NEW step \in [R -> R], NEW back \in [R -> R],
         \A r \in R : back[step[r]] = r,
         NEW n \in Nat, NEW g \in [0..n -> R], Iterates(g, start, step, n),
         NEW h \in [0..n -> R], Iterates(h, g[n], back, n)
  PROVE  h[n] = start
<1> DEFINE S == {m \in Nat : m <= n => h[m] = g[n - m]}
<1>1. 0 \in S
  BY DEF Iterates
<1>2. ASSUME NEW m \in S PROVE m + 1 \in S
  <2>1. SUFFICES ASSUME m + 1 <= n PROVE h[m + 1] = g[n - (m + 1)]
    OBVIOUS
  <2> DEFINE k == n - (m + 1)
  <2>2. /\ m <= n /\ m + 1 \in 1..n /\ (m + 1) - 1 = m
        /\ n - m \in 1..n /\ k \in 0..n /\ (n - m) - 1 = k
    BY <2>1
  <2>3. h[m] = g[n - m] /\ h[m + 1] = back[h[m]] /\ g[n - m] = step[g[k]] /\ g[k] \in R
    <3>1. h[m] = g[n - m]
      BY <2>2
    <3>2. h[m + 1] = back[h[(m + 1) - 1]] /\ g[n - m] = step[g[(n - m) - 1]]
      BY <2>2 DEF Iterates
    <3> QED BY <2>2, <3>1, <3>2
  <2> QED BY <2>3
<1> HIDE DEF S
<1>3. n \in S
  <2>1. S \in SUBSET Nat
    BY DEF S
  <2> QED BY <1>1, <1>2, <2>1, SetInduction
<1>4. n - n = 0
  OBVIOUS
<1> QED BY <1>3, <1>4 DEF S, Iterates

\* The weights of the two parts a rotation swaps.
LEMMA Powers ==
  ASSUME NEW w \in Widths, NEW n \in 0..w
  PROVE  2^n \in Nat \ {0} /\ 2^(w - n) \in Nat \ {0} /\ 2^n * 2^(w - n) = 2^w
<1> DEFINE Good(m) == 2^m \in Nat \ {0} /\ 2^(w - m) \in Nat \ {0} /\ 2^m * 2^(w - m) = 2^w
<1>1. CASE w = 8
  <2>1. Good(0) /\ Good(1) /\ Good(2) /\ Good(3) /\ Good(4) /\ Good(5) /\ Good(6) /\ Good(7) /\ Good(8)
    BY <1>1
  <2>2. n = 0 \/ n = 1 \/ n = 2 \/ n = 3 \/ n = 4 \/ n = 5 \/ n = 6 \/ n = 7 \/ n = 8
    BY <1>1
  <2> HIDE DEF Good
  <2>3. Good(n)
    BY <2>1, <2>2
  <2> QED BY <2>3 DEF Good
<1>2. CASE w = 16
  <2>1. /\ Good(0) /\ Good(1) /\ Good(2) /\ Good(3) /\ Good(4) /\ Good(5) /\ Good(6) /\ Good(7) /\ Good(8)
        /\ Good(9) /\ Good(10) /\ Good(11) /\ Good(12) /\ Good(13) /\ Good(14) /\ Good(15) /\ Good(16)
    BY <1>2
  <2>2. \/ n = 0 \/ n = 1 \/ n = 2 \/ n = 3 \/ n = 4 \/ n = 5 \/ n = 6 \/ n = 7 \/ n = 8
        \/ n = 9 \/ n = 10 \/ n = 11 \/ n = 12 \/ n = 13 \/ n = 14 \/ n = 15 \/ n = 16
    BY <1>2
  <2> HIDE DEF Good
  <2>3. Good(n)
    BY <2>1, <2>2
  <2> QED BY <2>3 DEF Good
<1> QED BY <1>1, <1>2 DEF Widths

\* Quotient and remainder are the only ones.
LEMMA Splits ==
  \A P, h, l \in Int : P > 0 /\ 0 <= l /\ l < P => (P * h + l) \div P = h /\ (P * h + l) % P = l
OBVIOUS

LEMMA Halved ==
  \A P \in Nat \ {0} : \A a \in Int : P * (a \div P) + (a % P) = a /\ 0 <= a % P /\ a % P < P
OBVIOUS

LEMMA Below ==
  \A P, Q \in Nat \ {0} : \A h, l \in Nat :
    /\ Q * h + l < P * Q => h < P
    /\ h < P /\ l < Q => Q * h + l < P * Q /\ Q * h + l \in Nat
OBVIOUS

LEMMA FitsAlready ==
  ASSUME NEW w \in Widths, NEW x \in Nat, x < 2^w
  PROVE  Fit(w, x) = x
BY DEF Fit, Widths

\* A rotation swaps the high part and the low one.
LEMMA TurnIs ==
  ASSUME NEW w \in Widths, NEW a \in Operand(w), NEW m \in 0..(w - 1), NEW h \in Nat, NEW l \in Nat,
         a = 2^(w - m) * h + l, l < 2^(w - m)
  PROVE  h < 2^m /\ Turn(w, a, m) = 2^m * l + h
<1> DEFINE P == 2^m
           Q == 2^(w - m)
<1>1. w \in Nat /\ m \in 0..w /\ m \in Nat /\ w - m \in Nat /\ w - m <= w /\ ~(m >= w)
      /\ (w - m >= w <=> m = 0)
  BY DEF Widths
<1>2. P \in Nat \ {0} /\ Q \in Nat \ {0} /\ P * Q = 2^w
  BY <1>1, Powers
<1>3. a \in Nat /\ a < 2^w
  BY DEF Operand, Widths
<1>4. Left(w, a, m) = (a % Q) * P /\ Right(w, a, w - m) = (IF m = 0 THEN 0 ELSE a \div Q)
  BY <1>1 DEF Left, Right, Fit
<1>p. m = 0 => P = 1
  OBVIOUS
<1>f. a = Q * h + l /\ l < Q
  OBVIOUS
<1> HIDE DEF P, Q
<1>5. h < P
  BY <1>2, <1>3, <1>f, Below
<1>6. a % Q = l /\ a \div Q = h
  BY <1>2, <1>f, Splits
<1>7. m = 0 => h = 0
  BY <1>5, <1>p
<1>8. Left(w, a, m) + Right(w, a, w - m) = P * l + h
  <2>1. l * P = P * l
    BY <1>2
  <2> QED BY <1>4, <1>6, <1>7, <2>1
<1>9. P * l + h \in Nat /\ P * l + h < 2^w
  <2>1. Q * P = 2^w
    BY <1>2
  <2> QED BY <1>2, <1>5, <1>f, <2>1, Below
<1> QED BY <1>5, <1>8, <1>9, FitsAlready DEF Turn, P

\* Rotating on by the opposite count swaps them back.
LEMMA TurnBack ==
  ASSUME NEW w \in Widths, NEW a \in Operand(w), NEW m \in 0..(w - 1)
  PROVE  Turn(w, Turn(w, a, m), (-m) % w) = a
<1> DEFINE Q == 2^(w - m)
           h == a \div Q
           l == a % Q
           b == Turn(w, a, m)
<1>1. w \in Nat /\ m \in Nat /\ m \in 0..w /\ w - m \in Nat
  BY DEF Widths
<1>2. a \in Nat /\ a < 2^w /\ Q \in Nat \ {0} /\ 2^m \in Nat \ {0} /\ 2^m * Q = 2^w
  <2>1. a \in Nat /\ a < 2^w
    BY DEF Operand, Widths
  <2> QED BY <1>1, <2>1, Powers
<1> HIDE DEF Q
<1>3. h \in Nat /\ l \in Nat /\ a = Q * h + l /\ l < Q
  <2>1. h \in Nat /\ l \in Nat
    BY <1>2
  <2> QED BY <1>2, <2>1, Halved
<1> HIDE DEF h, l
<1>4. h < 2^m /\ b = 2^m * l + h
  BY <1>3, TurnIs DEF Q
<1>5. b \in Operand(w)
  <2>1. Q * 2^m = 2^w
    BY <1>2
  <2>2. b \in Nat /\ b < 2^w
    BY <1>2, <1>3, <1>4, <2>1, Below
  <2> QED BY <1>1, <2>2 DEF Operand, Widths
<1> HIDE DEF b
<1>6. CASE m = 0
  <2>1. (-m) % w = 0 /\ 2^m = 1
    BY <1>6 DEF Widths
  <2>2. h = 0
    BY <1>3, <1>4, <2>1
  <2>3. a = l /\ b = l
    BY <1>2, <1>3, <1>4, <2>1, <2>2
  <2>4. Turn(w, a, (-m) % w) = b
    BY <1>6, <2>1 DEF b
  <2> QED BY <2>3, <2>4 DEF b
<1>7. CASE m # 0
  <2> DEFINE k == w - m
  <2>1. (-m) % w = k /\ k \in 0..(w - 1) /\ w - k = m
    BY <1>7 DEF Widths
  <2>2. b = 2^(w - k) * l + h /\ h < 2^(w - k)
    BY <1>4, <2>1
  <2> HIDE DEF k
  <2>3. Turn(w, b, k) = 2^k * h + l
    BY <1>3, <1>5, <2>1, <2>2, TurnIs
  <2>4. 2^k = Q
    BY DEF k, Q
  <2> QED BY <1>3, <2>1, <2>3, <2>4 DEF b
<1> QED BY <1>6, <1>7

LEMMA Opposite ==
  ASSUME NEW w \in Widths, NEW n \in 0..31
  PROVE  /\ n % w \in 0..(w - 1) /\ (-n) % w \in 0..(w - 1)
         /\ (-(n % w)) % w = (-n) % w /\ (-((-n) % w)) % w = n % w
BY DEF Widths

\* What a rotation has turned out, the opposite one turns back in.
LEMMA RotatesBack ==
  ASSUME NEW pair \in Rotations, NEW w \in Widths, NEW a \in Operand(w), NEW count \in Nat, NEW p \in Psw,
         NEW r \in Shift(pair[1], w, a, count, p), NEW q \in Shift(pair[2], w, r.dst, count, r.psw)
  PROVE  /\ q.dst = a
         /\ pair[1] \in {"rcl", "rcr"} => (q.psw.cy <=> p.cy)
<1> DEFINE n == count % 32
           start == [a |-> a, cy |-> p.cy]
           left == [t \in Pair(w) |-> RclOne(w, t)]
           right == [t \in Pair(w) |-> RcrOne(w, t)]
<1>1. n \in 0..31 /\ n \in Nat
  OBVIOUS
<1>2. r \in ShiftBy(pair[1], w, a, n, p) /\ q \in ShiftBy(pair[2], w, r.dst, n, r.psw)
  BY DEF Shift
<1>3. start \in Pair(w) /\ start.a = a /\ start.cy = p.cy
  BY DEF Pair, Psw
<1>4. /\ left \in [Pair(w) -> Pair(w)] /\ right \in [Pair(w) -> Pair(w)]
      /\ \A t \in Pair(w) : right[left[t]] = t
      /\ \A t \in Pair(w) : left[right[t]] = t
  <2>1. \A t \in Pair(w) : left[t] = RclOne(w, t) /\ right[t] = RcrOne(w, t)
    OBVIOUS
  <2> QED BY <2>1, OneTurn, OneBack
<1> HIDE DEF n, start, left, right
<1>c. ASSUME NEW step \in [Pair(w) -> Pair(w)], NEW back \in [Pair(w) -> Pair(w)],
             \A t \in Pair(w) : back[step[t]] = t,
             NEW g \in [0..n -> Pair(w)], Iterates(g, start, step, n),
             NEW h \in [0..n -> Pair(w)], Iterates(h, g[n], back, n)
      PROVE  h[n] = start
  BY <1>1, <1>3, <1>c, IterationsCancel
<1>5. \A t \in Pair(w) : t = [a |-> t.a, cy |-> t.cy]
  BY DEF Pair
<1>6. CASE pair = <<"rol", "ror">>
  <2>1. r \in Rol(w, a, n, p) /\ q \in Ror(w, r.dst, n, r.psw)
    BY <1>2, <1>6 DEF ShiftBy
  <2>2. r.dst = Turn(w, a, n % w) /\ r.dst \in Operand(w) /\ r.psw \in Psw
    BY <1>1, <2>1, RotateIs DEF Fine
  <2>3. q.dst = Turn(w, r.dst, (-n) % w)
    BY <1>1, <2>1, <2>2, RotateIs
  <2>4. Turn(w, Turn(w, a, n % w), (-(n % w)) % w) = a
    BY <1>1, Opposite, TurnBack
  <2>5. (-(n % w)) % w = (-n) % w
    BY <1>1, Opposite
  <2> QED BY <1>6, <2>2, <2>3, <2>4, <2>5
<1>7. CASE pair = <<"ror", "rol">>
  <2>1. r \in Ror(w, a, n, p) /\ q \in Rol(w, r.dst, n, r.psw)
    BY <1>2, <1>7 DEF ShiftBy
  <2>2. r.dst = Turn(w, a, (-n) % w) /\ r.dst \in Operand(w) /\ r.psw \in Psw
    BY <1>1, <2>1, RotateIs DEF Fine
  <2>3. q.dst = Turn(w, r.dst, n % w)
    BY <1>1, <2>1, <2>2, RotateIs
  <2>4. Turn(w, Turn(w, a, (-n) % w), (-((-n) % w)) % w) = a
    BY <1>1, Opposite, TurnBack
  <2>5. (-((-n) % w)) % w = n % w
    BY <1>1, Opposite
  <2> QED BY <1>7, <2>2, <2>3, <2>4, <2>5
<1>8. CASE pair = <<"rcl", "rcr">>
  <2>1. r \in Rcl(w, a, n, p) /\ q \in Rcr(w, r.dst, n, r.psw)
    BY <1>2, <1>8 DEF ShiftBy
  <2>a. \E g \in [0..n -> Pair(w)] : Iterates(g, start, left, n) /\ Rcl(w, a, n, p) = Turned(w, a, g[n], p)
    BY <1>1, RclIs DEF start, left
  <2>2. PICK g \in [0..n -> Pair(w)] : Iterates(g, start, left, n) /\ r \in Turned(w, a, g[n], p)
    BY <2>1, <2>a
  <2>3. g[n] \in Pair(w)
    BY <1>1, <2>2
  <2>4. r.dst = g[n].a /\ r.psw.cy = g[n].cy /\ r.dst \in Operand(w) /\ r.psw \in Psw
    BY <2>2, <2>3, TurnedIs DEF Fine
  <2>5. g[n] = [a |-> r.dst, cy |-> r.psw.cy]
    BY <1>5, <2>3, <2>4
  <2>b. \E h \in [0..n -> Pair(w)] :
            Iterates(h, [a |-> r.dst, cy |-> r.psw.cy], right, n) /\ Rcr(w, r.dst, n, r.psw) = Turned(w, r.dst, h[n], r.psw)
    BY <1>1, <2>4, RcrIs DEF right
  <2>6. PICK h \in [0..n -> Pair(w)] : Iterates(h, g[n], right, n) /\ q \in Turned(w, r.dst, h[n], r.psw)
    BY <2>1, <2>5, <2>b
  <2>7. h[n] = start
    BY <1>4, <2>2, <2>6, <1>c
  <2>8. q.dst = a /\ q.psw.cy = p.cy
    BY <1>3, <2>4, <2>6, <2>7, TurnedIs
  <2> QED BY <2>8
<1>9. CASE pair = <<"rcr", "rcl">>
  <2>1. r \in Rcr(w, a, n, p) /\ q \in Rcl(w, r.dst, n, r.psw)
    BY <1>2, <1>9 DEF ShiftBy
  <2>a. \E g \in [0..n -> Pair(w)] : Iterates(g, start, right, n) /\ Rcr(w, a, n, p) = Turned(w, a, g[n], p)
    BY <1>1, RcrIs DEF start, right
  <2>2. PICK g \in [0..n -> Pair(w)] : Iterates(g, start, right, n) /\ r \in Turned(w, a, g[n], p)
    BY <2>1, <2>a
  <2>3. g[n] \in Pair(w)
    BY <1>1, <2>2
  <2>4. r.dst = g[n].a /\ r.psw.cy = g[n].cy /\ r.dst \in Operand(w) /\ r.psw \in Psw
    BY <2>2, <2>3, TurnedIs DEF Fine
  <2>5. g[n] = [a |-> r.dst, cy |-> r.psw.cy]
    BY <1>5, <2>3, <2>4
  <2>b. \E h \in [0..n -> Pair(w)] :
            Iterates(h, [a |-> r.dst, cy |-> r.psw.cy], left, n) /\ Rcl(w, r.dst, n, r.psw) = Turned(w, r.dst, h[n], r.psw)
    BY <1>1, <2>4, RclIs DEF left
  <2>6. PICK h \in [0..n -> Pair(w)] : Iterates(h, g[n], left, n) /\ q \in Turned(w, r.dst, h[n], r.psw)
    BY <2>1, <2>5, <2>b
  <2>7. h[n] = start
    BY <1>4, <2>2, <2>6, <1>c
  <2>8. q.dst = a /\ q.psw.cy = p.cy
    BY <1>3, <2>4, <2>6, <2>7, TurnedIs
  <2> QED BY <2>8
<1> QED BY <1>6, <1>7, <1>8, <1>9 DEF Rotations

\* The first of two rotations by CL has been done.
Rotated ==
  \A r \in Rotations, on \in Parts :
    idiom = RotateBack(r[1], r[2], on) /\ pc = 1 =>
      \E t \in Shift(r[1], Width(on), Part(on, from.aw), Al(cw), from.psw) :
        aw = With(on, from.aw, t.dst) /\ psw = t.psw

LEMMA RotatedStep == TypeOK /\ Started /\ Rotated /\ [Next]_vars => Rotated'
<1>1. ASSUME Rotated, UNCHANGED vars PROVE Rotated'
  BY <1>1 DEF vars, Rotated
<1>2. ASSUME TypeOK, Started, Next PROVE Rotated'
  <2>1. idiom' = idiom /\ from' = from
    BY <1>2, Acts
  <2>2. ASSUME NEW pair \in Rotations, NEW on \in Parts,
               idiom = RotateBack(pair[1], pair[2], on), pc' = 1
        PROVE  /\ cw' = cw
               /\ \E t \in Shift(pair[1], Width(on), Part(on, from.aw), Al(cw), from.psw) :
                    aw' = With(on, from.aw, t.dst) /\ psw' = t.psw
    <3>1. pair[1] \in Shiftings /\ pair[2] \in Shiftings
      BY DEF Rotations, Shiftings
    <3>2. /\ pc \in {0, 1}
          /\ pc = 0 => Insn = I(pair[1], on, "cl")
          /\ pc = 1 => Insn = I(pair[2], on, "cl")
      BY <1>2, <2>2, InsnOf2 DEF RotateBack
    <3>3. pc' = pc + 1
      BY <1>2, <3>1, <3>2, ShiftStep
    <3>4. pc = 0 /\ Insn = I(pair[1], on, "cl")
      BY <2>2, <3>2, <3>3
    <3>5. aw = from.aw /\ psw = from.psw
      <4>1. idiom[1].op = pair[1]
        BY <2>2 DEF RotateBack, I
      <4>2. idiom[1].op \notin {"aam", "mul", "imul", "div", "idiv"}
        BY <3>1, <4>1 DEF Shiftings
      <4> QED BY <1>2, <3>4, <4>2, Unfaulted
    <3>6. Src = Al(cw)
      BY <3>4 DEF Src, I
    <3>7. /\ cw' = cw
          /\ \E t \in Shift(pair[1], Width(on), Part(on, aw), Src, psw) :
               psw' = t.psw /\ aw' = With(on, aw, t.dst)
      BY <1>2, <3>1, <3>4, ShiftStep
    <3> QED BY <3>5, <3>6, <3>7
  <2> QED BY <2>1, <2>2 DEF Rotated
<1> QED BY <1>1, <1>2

LEMMA AlwaysRotated == Spec => []Rotated
<1>1. Init => Rotated
  BY DEF Init, Rotated
<1> QED BY <1>1, Typed, AlwaysStarted, RotatedStep, PTL DEF Spec

BackWide ==
  \A on \in Parts, r \in Rotations :
    Ended(RotateBack(r[1], r[2], on)) =>
      /\ aw = from.aw
      /\ r[1] \in {"rcl", "rcr"} => psw.cy = from.psw.cy

\* A part of AW written and written back.
LEMMA PartBack ==
  ASSUME NEW x \in Operand(16), NEW on \in Parts, NEW y \in Operand(Width(on))
  PROVE  With(on, With(on, x, y), Part(on, x)) = x
<1> DEFINE z == With(on, x, y)
<1>1. /\ z \in Operand(16)
      /\ on = "al" => Ah(z) = Ah(x)
      /\ on = "ah" => Al(z) = Al(x)
  BY Parted
<1> HIDE DEF z
<1>2. With(on, z, Part(on, x)) = With(on, x, Part(on, x))
  BY <1>1 DEF With, Parts
<1> QED BY <1>2, PartIn DEF z

LEMMA BackStep == TypeOK /\ Rotated /\ BackWide /\ [Next]_vars => BackWide'
<1>1. ASSUME BackWide, UNCHANGED vars PROVE BackWide'
  BY <1>1 DEF vars, BackWide, Ended
<1>2. ASSUME TypeOK, Rotated, Next PROVE BackWide'
  <2>1. idiom' = idiom /\ from' = from
    BY <1>2, Acts
  <2>2. ASSUME NEW on \in Parts, NEW pair \in Rotations, Ended(RotateBack(pair[1], pair[2], on))'
        PROVE  /\ aw' = from.aw
               /\ pair[1] \in {"rcl", "rcr"} => psw'.cy = from.psw.cy
    <3>1. pair[1] \in Shiftings /\ pair[2] \in Shiftings
      BY DEF Rotations, Shiftings
    <3>0. idiom = RotateBack(pair[1], pair[2], on) /\ pc' = 2
      BY <2>1, <2>2 DEF Ended, RotateBack
    <3>2. /\ pc \in {0, 1}
          /\ pc = 0 => Insn = I(pair[1], on, "cl")
          /\ pc = 1 => Insn = I(pair[2], on, "cl")
      BY <1>2, <3>0, InsnOf2 DEF RotateBack
    <3>3. pc' = pc + 1
      BY <1>2, <3>1, <3>2, ShiftStep
    <3>4. pc = 1 /\ Insn = I(pair[2], on, "cl")
      BY <3>0, <3>2, <3>3
    <3> DEFINE w == Width(on)
               a == Part(on, from.aw)
               count == Al(cw)
    <3>5. PICK t \in Shift(pair[1], w, a, count, from.psw) :
            aw = With(on, from.aw, t.dst) /\ psw = t.psw
      BY <1>2, <3>0, <3>4 DEF Rotated
    <3>6. w \in Widths /\ a \in Operand(w) /\ count \in Nat /\ from.psw \in Psw /\ from.aw \in Operand(16)
      BY <1>2, TypeFacts, PartIn, WidthOf, WordParts, Ranges
    <3>7. t.dst \in Operand(w) /\ t.psw \in Psw
      BY <3>1, <3>5, <3>6, ShiftFine DEF Fine
    <3>8. Part(on, aw) = t.dst
      BY <3>5, <3>6, <3>7, Parted
    <3>9. Src = count
      BY <3>4 DEF Src, I
    <3>10. PICK q \in Shift(pair[2], w, Part(on, aw), Src, psw) :
             psw' = q.psw /\ aw' = With(on, aw, q.dst) /\ q.psw \in Psw
      BY <1>2, <3>1, <3>4, ShiftStep
    <3>11. q \in Shift(pair[2], w, t.dst, count, t.psw)
      BY <3>5, <3>8, <3>9, <3>10
    <3> HIDE DEF w, a, count
    <3>12. q.dst = a /\ (pair[1] \in {"rcl", "rcr"} => (q.psw.cy <=> from.psw.cy))
      BY <3>5, <3>6, <3>11, RotatesBack
    <3>13. aw' = from.aw
      BY <3>5, <3>6, <3>7, <3>10, <3>12, PartBack DEF a, w
    <3>14. psw'.cy \in BOOLEAN /\ from.psw.cy \in BOOLEAN
      BY <3>6, <3>10 DEF Psw
    <3> QED BY <3>10, <3>12, <3>13, <3>14
  <2> QED BY <2>1, <2>2 DEF BackWide
<1> QED BY <1>1, <1>2

LEMMA WideShiftsParts == WideShifts <=> NegWide /\ ShlWide /\ ShrWide /\ SarWide /\ BackWide
<1> DEFINE a == from.aw
           shl == aw = Fit(16, 2 * a) /\ psw.cy = (2 * a > 65535)
           shr == aw = a \div 2 /\ psw.cy = (a % 2 = 1)
           sar == Signed(16, aw) = Signed(16, a) \div 2 /\ psw.cy = (a % 2 = 1)
           neg == aw = Fit(16, -a)
           back == \A on \in Parts, r \in Rotations :
                     Ended(RotateBack(r[1], r[2], on)) =>
                       /\ aw = a
                       /\ r[1] \in {"rcl", "rcr"} => psw.cy = from.psw.cy
<1>1. WideShifts <=> /\ Ended(NegBytes) => neg
                     /\ Ended(ShlBytes) => shl
                     /\ Ended(ShrBytes) => shr
                     /\ Ended(SarBytes) => sar
                     /\ back
  BY DEF WideShifts
<1>2. (NegWide <=> (Ended(NegBytes) => neg)) /\ (ShlWide <=> (Ended(ShlBytes) => shl))
  BY DEF NegWide, ShlWide
<1>3. (ShrWide <=> (Ended(ShrBytes) => shr)) /\ (SarWide <=> (Ended(SarBytes) => sar))
  BY DEF ShrWide, SarWide
<1>4. BackWide <=> back
  BY DEF BackWide
<1> HIDE DEF neg, shl, shr, sar, back
<1> QED BY <1>1, <1>2, <1>3, <1>4

\* A word negated or shifted by its bytes is negated or shifted as a whole, with the
\* bit shifted out in CY; and a rotation by CL undoes the opposite one.
THEOREM WordsShifted == Spec => []WideShifts
<1>1. Init => NegWide /\ ShlWide /\ ShrWide /\ SarWide /\ BackWide
  <2> SUFFICES ASSUME Init PROVE NegWide /\ ShlWide /\ ShrWide /\ SarWide /\ BackWide
    OBVIOUS
  <2>1. idiom \in Idioms /\ pc = 0 /\ Len(idiom) # 0
    BY WellFormedIdioms DEF Init
  <2>2. \A seq : ~Ended(seq)
    BY <2>1 DEF Ended
  <2> QED BY <2>2 DEF NegWide, ShlWide, ShrWide, SarWide, BackWide
<1>2. Spec => []NegWide
  BY <1>1, Typed, AlwaysHalfShifted, NegWideStep, PTL DEF Spec
<1>3. Spec => []ShlWide
  BY <1>1, Typed, AlwaysHalfShifted, ShlWideStep, PTL DEF Spec
<1>4. Spec => [](ShrWide /\ SarWide)
  BY <1>1, Typed, AlwaysHalfShifted, ShrWideStep, PTL DEF Spec
<1>5. Spec => []BackWide
  BY <1>1, Typed, AlwaysRotated, BackStep, PTL DEF Spec
<1> QED BY <1>2, <1>3, <1>4, <1>5, WideShiftsParts, PTL

-----------------------------------------------------------------------------
(* Shifts by one more.                                                     *)

LEMMA Doubles ==
  ASSUME NEW w \in Widths, NEW m \in 0..(w - 1)
  PROVE  /\ 2^m \in Nat \ {0} /\ 2^(m + 1) = 2 * 2^m
         /\ 2^(w - 1 - m) \in Nat \ {0} /\ 2^(w - m) = 2 * 2^(w - 1 - m)
         /\ 2^m * 2^(w - 1 - m) = 2^(w - 1) /\ 2^(w - 1 - m) <= 2^(w - 1)
<1> DEFINE Good(k) ==
             /\ 2^k \in Nat \ {0} /\ 2^(k + 1) = 2 * 2^k
             /\ 2^(w - 1 - k) \in Nat \ {0} /\ 2^(w - k) = 2 * 2^(w - 1 - k)
             /\ 2^k * 2^(w - 1 - k) = 2^(w - 1) /\ 2^(w - 1 - k) <= 2^(w - 1)
<1>1. CASE w = 8
  <2>1. Good(0) /\ Good(1) /\ Good(2) /\ Good(3) /\ Good(4) /\ Good(5) /\ Good(6) /\ Good(7)
    BY <1>1
  <2>2. m = 0 \/ m = 1 \/ m = 2 \/ m = 3 \/ m = 4 \/ m = 5 \/ m = 6 \/ m = 7
    BY <1>1
  <2> HIDE DEF Good
  <2>3. Good(m)
    BY <2>1, <2>2
  <2> QED BY <2>3 DEF Good
<1>2. CASE w = 16
  <2>1. /\ Good(0) /\ Good(1) /\ Good(2) /\ Good(3) /\ Good(4) /\ Good(5) /\ Good(6) /\ Good(7)
        /\ Good(8) /\ Good(9) /\ Good(10) /\ Good(11) /\ Good(12) /\ Good(13) /\ Good(14) /\ Good(15)
    BY <1>2
  <2>2. \/ m = 0 \/ m = 1 \/ m = 2 \/ m = 3 \/ m = 4 \/ m = 5 \/ m = 6 \/ m = 7
        \/ m = 8 \/ m = 9 \/ m = 10 \/ m = 11 \/ m = 12 \/ m = 13 \/ m = 14 \/ m = 15
    BY <1>2
  <2> HIDE DEF Good
  <2>3. Good(m)
    BY <2>1, <2>2
  <2> QED BY <2>3 DEF Good
<1> QED BY <1>1, <1>2 DEF Widths

\* Half the range of an operand.
LEMMA TopBit == \A w \in Widths : 2^w = 2 * 2^(w - 1) /\ 2^(w - 1) \in Nat \ {0} /\ w \in Nat
<1> SUFFICES ASSUME NEW w \in Widths
             PROVE  2^w = 2 * 2^(w - 1) /\ 2^(w - 1) \in Nat \ {0} /\ w \in Nat
  OBVIOUS
<1>1. CASE w = 8
  BY <1>1
<1>2. CASE w = 16
  BY <1>2
<1> QED BY <1>1, <1>2 DEF Widths

LEMMA LowestBit == \A x \in Nat : x = 2 * (x \div 2) + (x % 2) /\ x \div 2 \in Nat /\ x % 2 \in {0, 1}
OBVIOUS

\* An operand apart: h above the bit e of weight T, l below it.
LEMMA Apart ==
  \A T \in Nat \ {0} : \A h, l \in Nat : \A e \in {0, 1} :
    l < T => /\ (T * (2 * h + e) + l) \div T = 2 * h + e
             /\ (T * (2 * h + e) + l) % T = l
             /\ T * (2 * h + e) + l = (2 * T) * h + (T * e + l)
             /\ T * e + l < 2 * T /\ T * e + l \in Nat
OBVIOUS

\* A bit, with what is above and below it.
LEMMA BitApart ==
  ASSUME NEW w \in Widths, NEW a \in Operand(w), NEW m \in 0..(w - 1)
  PROVE  \E h, l \in Nat : \E e \in {0, 1} :
           /\ a = 2^m * (2 * h + e) + l /\ l < 2^m /\ h < 2^(w - 1 - m)
           /\ a \div 2^m = 2 * h + e
           /\ Bit(a, m) <=> e = 1
<1> DEFINE T == 2^m
           P == 2^(w - 1 - m)
           x == a \div T
<1>1. a \in Nat /\ a < 2^w
  BY DEF Operand, Widths
<1>2. T \in Nat \ {0} /\ P \in Nat \ {0} /\ T * P = 2^(w - 1) /\ 2^w = 2 * 2^(w - 1)
  BY Doubles, TopBit
<1>b. Bit(a, m) <=> x % 2 = 1
  BY DEF Bit
<1> HIDE DEF T, P
<1>3. x \in Nat
  BY <1>1, <1>2
<1>4. a = T * x + (a % T) /\ a % T \in Nat /\ a % T < T
  <2>1. a % T \in Nat
    BY <1>1, <1>2
  <2> QED BY <1>1, <1>2, <2>1, Halved
<1>5. PICK h \in Nat, e \in {0, 1} : x = 2 * h + e /\ (x % 2 = 1 <=> e = 1)
  <2>1. x = 2 * (x \div 2) + (x % 2) /\ x \div 2 \in Nat /\ x % 2 \in {0, 1}
    BY <1>3, LowestBit
  <2> QED BY <2>1
<1>6. PICK l \in Nat : l = a % T
  BY <1>4
<1>7. a = T * (2 * h + e) + l /\ l < T
  BY <1>4, <1>5, <1>6
<1>8. h < P
  <2>1. a = (2 * T) * h + (T * e + l) /\ T * e + l \in Nat
    BY <1>2, <1>7, Apart
  <2>2. P * (2 * T) = 2^w /\ 2 * T \in Nat \ {0}
    BY <1>2
  <2> QED BY <1>1, <1>2, <2>1, <2>2, Below
<1> QED BY <1>5, <1>7, <1>8, <1>b DEF T, P

LEMMA Rearranged ==
  \A P, T \in Nat : \A h, l \in Nat : \A e \in {0, 1} :
    /\ P * (T * e + l) + h = (P * T) * e + (P * l + h)
    /\ P * (T * e + l) = (P * T) * e + P * l
    /\ (2 * P) * l + (2 * h + e) = 2 * (P * l + h) + e
    /\ (2 * P) * l = 2 * (P * l)
OBVIOUS

\* Turning by m + 1 bits is turning by m and then by one, and the bit that comes
\* out of the left end is the one at w - 1 - m.
LEMMA TurnOnce ==
  ASSUME NEW w \in Widths, NEW a \in Operand(w), NEW m \in 0..(w - 1)
  PROVE  /\ Turn(w, a, m) \in Operand(w)
         /\ Turn(w, Turn(w, a, m), 1) = Turn(w, a, (m + 1) % w)
         /\ Bit(Turn(w, a, m), w - 1) <=> Bit(a, w - 1 - m)
         /\ Left(w, Left(w, a, m), 1) = Left(w, a, m + 1)
         /\ Bit(Left(w, a, m), w - 1) <=> Bit(a, w - 1 - m)
<1> DEFINE k == w - 1 - m
           T == 2^k
           P == 2^m
           top == 2^(w - 1)
<1>1. /\ w \in Nat /\ m \in Nat /\ k \in 0..(w - 1) /\ w - 1 - k = m /\ w - m = k + 1
      /\ ~(m >= w) /\ ~(1 >= w) /\ 1 \in 0..(w - 1) /\ w - 1 \in Nat /\ 2^1 = 2
      /\ (m + 1 = w <=> k = 0) /\ m + 1 \in Nat /\ (m + 1 >= w <=> k = 0)
      /\ (k # 0 => m + 1 \in 0..(w - 1) /\ w - (m + 1) = k /\ (m + 1) % w = m + 1)
      /\ (k = 0 => (m + 1) % w = 0)
  BY DEF Widths
<1>2. /\ P \in Nat \ {0} /\ T \in Nat \ {0} /\ 2^(m + 1) = 2 * P /\ 2^(w - m) = 2 * T
      /\ P * T = top /\ top \in Nat \ {0} /\ 2^w = 2 * top
  BY Doubles, TopBit
<1>3. PICK h, l \in Nat, e \in {0, 1} :
        /\ a = T * (2 * h + e) + l /\ l < T /\ h < 2^(w - 1 - k)
        /\ a \div T = 2 * h + e
        /\ Bit(a, k) <=> e = 1
  BY <1>1, BitApart
<1>a. a \in Nat /\ a < 2^w
  BY DEF Operand, Widths
<1>4. h < P
  BY <1>1, <1>3
<1> HIDE DEF k
<1>0. k = 0 => T = 1
  <2>1. k = 0 => 2^k = 2^0
    OBVIOUS
  <2>2. 2^0 = 1
    OBVIOUS
  <2> QED BY <2>1, <2>2
<1> HIDE DEF T, P, top
<1>5. /\ a = (2 * T) * h + (T * e + l) /\ T * e + l < 2 * T /\ T * e + l \in Nat
      /\ a \div T = 2 * h + e /\ a % T = l
  <2>1. a = T * (2 * h + e) + l /\ l < T
    BY <1>3
  <2>0. T \in Nat \ {0} /\ l < T
    BY <1>2, <2>1
  <2>2. (T * (2 * h + e) + l) % T = l
    BY <2>0, Apart
  <2>3. T * (2 * h + e) + l = (2 * T) * h + (T * e + l)
    BY <2>0, Apart
  <2>4. T * e + l < 2 * T /\ T * e + l \in Nat
    BY <2>0, Apart
  <2> QED BY <1>3, <2>1, <2>2, <2>3, <2>4
<1>6. k = 0 => l = 0 /\ a = 2 * h + e
  BY <1>0, <1>3
<1>7. PICK y \in Nat : y = P * l + h /\ y < top
  <2>1. T * P = top
    BY <1>2
  <2> QED BY <1>2, <1>3, <1>4, <2>1, Below
<1>8. P * l \in Nat /\ P * l < top
  BY <1>2, <1>3, <1>7
<1>9. PICK z \in Nat : z = T * e + l
  BY <1>5
<1>10. Turn(w, a, m) = top * e + y
  <2>0. a = 2^(w - m) * h + z /\ z < 2^(w - m)
    BY <1>2, <1>5, <1>9
  <2>1. Turn(w, a, m) = 2^m * z + h
    BY <2>0, TurnIs
  <2>2. 2^m * z + h = P * (T * e + l) + h
    BY <1>9 DEF P
  <2> QED BY <1>2, <1>7, <2>1, <2>2, Rearranged
<1>11. PICK b \in Operand(w) : b = top * e + y
  <2>1. top * e + y \in Nat /\ top * e + y < 2 * top
    BY <1>2, <1>7
  <2> QED BY <1>1, <1>2, <2>1 DEF Operand, Widths
<1>12. Turn(w, b, 1) = 2 * y + e
  <2>0. PICK one \in 0..(w - 1) : one = 1
    BY <1>1
  <2>1. b = 2^(w - one) * e + y /\ y < 2^(w - one) /\ e \in Nat
    BY <1>7, <1>11, <2>0 DEF top
  <2>2. Turn(w, b, one) = 2^one * y + e
    BY <2>1, TurnIs
  <2> QED BY <1>1, <2>0, <2>2
<1>13. Turn(w, a, (m + 1) % w) = 2 * y + e
  <2>1. CASE k # 0
    <3>1. PICK x \in Nat : x = 2 * h + e
      BY <1>3
    <3>2. a = 2^(w - (m + 1)) * x + l /\ l < 2^(w - (m + 1))
      BY <1>1, <1>3, <2>1, <3>1 DEF T
    <3>3. Turn(w, a, m + 1) = 2^(m + 1) * l + x
      BY <1>1, <2>1, <3>2, TurnIs
    <3>4. Turn(w, a, m + 1) = (2 * P) * l + (2 * h + e)
      BY <1>2, <3>1, <3>3
    <3> QED BY <1>1, <1>2, <1>7, <2>1, <3>4, Rearranged
  <2>2. CASE k = 0
    <3>0. 0 \in 0..(w - 1) /\ w - 0 = w /\ 2^0 = 1
      BY <1>1
    <3>1. PICK none \in 0..(w - 1) : none = 0
      BY <3>0
    <3>a. PICK size : size = 2^w /\ size \in Nat
      BY <1>2
    <3>b. 2^(w - none) = size /\ 2^none = 1 /\ none \in Nat
      BY <3>0, <3>1, <3>a
    <3>c. size * none + a = a
      BY <1>a, <3>a, <3>1
    <3>2. a = 2^(w - none) * none + a /\ a < 2^(w - none)
      BY <1>a, <3>a, <3>b, <3>c
    <3>3. Turn(w, a, none) = 2^none * a + none
      BY <1>a, <3>b, <3>2, TurnIs
    <3>4. Turn(w, a, 0) = a
      BY <1>a, <3>1, <3>b, <3>3
    <3>5. y = h
      BY <1>2, <1>6, <1>7, <2>2
    <3> QED BY <1>1, <1>6, <2>2, <3>4, <3>5
  <2> QED BY <2>1, <2>2
<1>14. \A x \in Nat : x < top => (Bit(top * e + x, w - 1) <=> e = 1)
  <2> TAKE x \in Nat
  <2>1. ASSUME x < top PROVE (top * e + x) \div top = e
    BY <1>2, <2>1, Splits
  <2> QED BY <2>1 DEF Bit, top
<1>15. Left(w, a, m) = top * e + P * l
  <2>1. Left(w, a, m) = (a % 2^(w - m)) * 2^m
    BY <1>1 DEF Left, Fit
  <2>a. PICK D \in Nat \ {0} : D = 2 * T
    BY <1>2
  <2>b. a = D * h + z /\ z < D
    BY <1>5, <1>9, <2>a
  <2>c. a % D = z
    BY <2>b, Splits
  <2>2. a % (2 * T) = z
    BY <2>a, <2>c
  <2>3. Left(w, a, m) = z * P
    BY <1>2, <2>1, <2>2 DEF P
  <2>4. z * P = P * (T * e + l)
    BY <1>2, <1>9
  <2> QED BY <1>2, <2>3, <2>4, Rearranged
<1>16. PICK x \in Nat : x = P * l
  BY <1>8
<1>17. Left(w, top * e + x, 1) = 2 * x
  <2>1. Left(w, top * e + x, 1) = ((top * e + x) % top) * 2
    BY <1>1 DEF Left, Fit, top
  <2>2. (top * e + x) % top = x
    BY <1>2, <1>8, <1>16, Splits
  <2> QED BY <2>1, <2>2
<1>18. Left(w, a, m + 1) = 2 * x
  <2>1. CASE k # 0
    <3>1. Left(w, a, m + 1) = (a % T) * (2 * P)
      <4>1. w - (m + 1) = k /\ ~(m + 1 >= w)
        BY <1>1, <2>1
      <4> QED BY <1>2, <4>1 DEF Left, Fit, T
    <3> QED BY <1>2, <1>5, <1>16, <3>1
  <2>2. CASE k = 0
    <3>1. Left(w, a, m + 1) = 0
      BY <1>1, <2>2 DEF Left
    <3> QED BY <1>2, <1>6, <1>16, <2>2, <3>1
  <2> QED BY <2>1, <2>2
<1> QED BY <1>3, <1>7, <1>8, <1>10, <1>11, <1>12, <1>13, <1>14, <1>15, <1>16, <1>17, <1>18 DEF k

LEMMA SignIs ==
  ASSUME NEW w \in Widths, NEW x \in Operand(w)
  PROVE  /\ Negative(w, x) <=> x >= 2^(w - 1)
         /\ SignBits(w, x) = IF x >= 2^(w - 1) THEN 2 * 2^(w - 1) - 1 ELSE 0
<1>1. Negative(w, x) <=> x >= 2^(w - 1)
  <2>1. CASE w = 8
    BY <2>1, Byte, Ranges
  <2>2. CASE w = 16
    BY <2>2, Whole, Ranges
  <2> QED BY <2>1, <2>2 DEF Widths
<1>2. 2^w = 2 * 2^(w - 1)
  BY TopBit
<1> QED BY <1>1, <1>2 DEF SignBits

LEMMA RightByOne ==
  ASSUME NEW w \in Widths, NEW x \in Operand(w)
  PROVE  Right(w, x, 1) = x \div 2 /\ (Bit(x, 0) <=> x % 2 = 1) /\ x \in Nat
<1>1. x \in Nat /\ ~(1 >= w)
  BY DEF Operand, Widths
<1>2. Right(w, x, 1) = x \div 2
  BY <1>1 DEF Right
<1> QED BY <1>1, <1>2 DEF Bit

\* Shifting right by m + 1 bits is shifting by m and then by one, and the bit
\* that comes out of the right end is the one at m.
LEMMA RightOnce ==
  ASSUME NEW w \in Widths, NEW a \in Operand(w), NEW m \in 0..(w - 1)
  PROVE  /\ Right(w, Right(w, a, m), 1) = Right(w, a, m + 1)
         /\ Bit(Right(w, a, m), 0) <=> Bit(a, m)
<1> DEFINE T == 2^m
           x == Right(w, a, m)
<1>1. w \in Nat /\ m \in Nat /\ m \in 0..31 /\ ~(m >= w) /\ (m + 1 >= w <=> w - 1 - m = 0) /\ m + 1 \in Nat
  BY DEF Widths
<1>2. T \in Nat \ {0} /\ 2^(m + 1) = 2 * T
  BY Doubles
<1>3. PICK h, l \in Nat, e \in {0, 1} :
        /\ a = T * (2 * h + e) + l /\ l < T /\ h < 2^(w - 1 - m)
        /\ a \div T = 2 * h + e
        /\ Bit(a, m) <=> e = 1
  BY BitApart
<1>4. x \in Operand(w)
  BY <1>1, ShiftedRange
<1>5. x = 2 * h + e
  BY <1>1, <1>3 DEF Right
<1>6. Right(w, a, m + 1) = h
  <2>1. CASE m + 1 >= w
    <3>1. w - 1 - m = 0 /\ 2^0 = 1
      BY <1>1, <2>1
    <3>2. 2^(w - 1 - m) = 2^0
      BY <3>1
    <3> QED BY <1>3, <2>1, <3>1, <3>2 DEF Right
  <2>2. CASE ~(m + 1 >= w)
    <3>1. Right(w, a, m + 1) = a \div (2 * T)
      BY <1>2, <2>2 DEF Right
    <3> HIDE DEF T
    <3>2. T * (2 * h + e) + l = (2 * T) * h + (T * e + l)
      BY <1>2, <1>3, Apart
    <3>3. T * e + l < 2 * T /\ T * e + l \in Nat
      BY <1>2, <1>3, Apart
    <3>4. PICK z \in Nat, D \in Nat \ {0} : z = T * e + l /\ D = 2 * T
      BY <1>2, <3>3
    <3>5. a = D * h + z /\ z < D
      BY <1>3, <3>2, <3>3, <3>4
    <3>6. a \div D = h
      BY <3>5, Splits
    <3> QED BY <3>1, <3>4, <3>6
  <2> QED BY <2>1, <2>2
<1> HIDE DEF T, x
<1>7. Right(w, x, 1) = h /\ (Bit(x, 0) <=> e = 1)
  BY <1>3, <1>4, <1>5, RightByOne
<1> QED BY <1>3, <1>6, <1>7 DEF x

\* SAR by m + 1 bits is SAR by m and then by one.
LEMMA SarOnce ==
  ASSUME NEW w \in Widths, NEW a \in Operand(w), NEW m \in 0..(w - 1)
  PROVE  /\ SarDst(w, a, m) \in Operand(w)
         /\ SarDst(w, SarDst(w, a, m), 1) = IF m + 1 < w THEN SarDst(w, a, m + 1) ELSE SignBits(w, a)
         /\ Bit(SarDst(w, a, m), 0) <=> Bit(a, m)
<1> DEFINE T == 2^m
           P == 2^(w - 1 - m)
           top == 2^(w - 1)
           S == SignBits(w, a)
           d == SarDst(w, a, m)
<1>1. w \in Nat /\ m \in Nat /\ m \in 0..31 /\ ~(m >= w) /\ (~(m + 1 < w) <=> w - 1 - m = 0) /\ m + 1 \in Nat
      /\ w - 1 \in Nat /\ (m + 1 >= w <=> ~(m + 1 < w))
  BY DEF Widths
<1>2. /\ T \in Nat \ {0} /\ P \in Nat \ {0} /\ T * P = top /\ P <= top /\ top \in Nat \ {0}
      /\ 2^(m + 1) = 2 * T
  BY Doubles, TopBit
<1>3. PICK h, l \in Nat, e \in {0, 1} :
        /\ a = T * (2 * h + e) + l /\ l < T /\ h < P
        /\ a \div T = 2 * h + e
        /\ Bit(a, m) <=> e = 1
  BY BitApart
<1>4. d \in Operand(w) /\ S \in Operand(w)
  BY SarRange
<1>5. /\ Right(w, a, m) = 2 * h + e
      /\ Right(w, a, m + 1) = h
  <2>1. Right(w, a, m) = 2 * h + e
    BY <1>1, <1>3 DEF Right
  <2>2. Right(w, a, m) \in Operand(w)
    BY <1>1, ShiftedRange
  <2>3. Right(w, Right(w, a, m), 1) = (2 * h + e) \div 2
    BY <2>1, <2>2, RightByOne
  <2>4. Right(w, a, m + 1) = (2 * h + e) \div 2
    BY <2>3, RightOnce
  <2> QED BY <1>3, <2>1, <2>4
<1>6. S = IF a >= top THEN 2 * top - 1 ELSE 0
  BY SignIs
<1>7. SarDst(w, d, 1) = d \div 2 + (SignBits(w, d) - SignBits(w, d) \div 2)
  <2>1. SignBits(w, d) \in Operand(w)
    <3>1. 0 \in 0..(w - 1)
      BY <1>1
    <3> QED BY <1>4, <3>1, SarRange
  <2>2. Right(w, d, 1) = d \div 2 /\ Right(w, SignBits(w, d), 1) = SignBits(w, d) \div 2
    BY <1>4, <2>1, RightByOne
  <2> QED BY <2>2 DEF SarDst
<1>8. SignBits(w, d) = IF d >= top THEN 2 * top - 1 ELSE 0
  BY <1>4, SignIs
<1>9. d = Right(w, a, m) + (S - Right(w, S, m))
      /\ (m + 1 < w => SarDst(w, a, m + 1) = Right(w, a, m + 1) + (S - Right(w, S, m + 1)))
  BY DEF SarDst
<1>10. Bit(d, 0) <=> d % 2 = 1
  BY <1>4, RightByOne
<1>t. d \in Nat
  BY <1>4, RightByOne
<1>11. w - 1 - m = 0 => P = 1
  <2>1. w - 1 - m = 0 => 2^(w - 1 - m) = 2^0
    OBVIOUS
  <2>2. 2^0 = 1
    OBVIOUS
  <2> QED BY <2>1, <2>2
<1>12. PICK x \in Nat : x = 2 * h + e
  BY <1>3
<1>13. a = T * x + l /\ a \in Nat
  BY <1>3, <1>12 DEF Operand, Widths
<1>r. \A c : Right(w, c, m) = c \div T /\ (m + 1 < w => Right(w, c, m + 1) = c \div (2 * T))
  BY <1>1, <1>2 DEF Right
<1> HIDE DEF T, P, top, S, d
<1>14. CASE a < top
  <2>1. S = 0
    BY <1>2, <1>6, <1>13, <1>14
  <2>2. 0 \div T = 0 /\ 0 \div (2 * T) = 0
    BY <1>2
  <2>3. Right(w, S, m) = 0 /\ (m + 1 < w => Right(w, S, m + 1) = 0)
    BY <1>r, <2>1, <2>2
  <2>4. d = x
    BY <1>5, <1>9, <1>12, <2>1, <2>3
  <2>5. x < P
    <3>1. T * x + l < T * P
      BY <1>2, <1>13, <1>14
    <3>2. P * T = T * P
      BY <1>2
    <3> QED BY <1>2, <1>3, <3>1, <3>2, Below
  <2>6. SignBits(w, d) = 0
    BY <1>2, <1>8, <2>4, <2>5
  <2>7. SarDst(w, d, 1) = h /\ (Bit(d, 0) <=> e = 1)
    BY <1>3, <1>7, <1>10, <1>12, <2>4, <2>6
  <2>8. m + 1 < w => SarDst(w, a, m + 1) = h
    BY <1>5, <1>9, <2>1, <2>3
  <2>9. ~(m + 1 < w) => h = 0
    BY <1>1, <1>3, <1>11
  <2> QED BY <1>3, <1>4, <2>1, <2>7, <2>8, <2>9 DEF S, d
<1>15. CASE a >= top
  <2>1. S = 2 * top - 1
    BY <1>6, <1>15
  <2>2. S = T * (2 * (P - 1) + 1) + (T - 1)
    <3>1. T * (2 * (P - 1) + 1) + (T - 1) = 2 * (T * P) - 1
      BY <1>2
    <3> QED BY <1>2, <2>1, <3>1
  <2>3. PICK k \in Nat, r \in Nat, one \in {0, 1} : k = P - 1 /\ r = T - 1 /\ one = 1
    BY <1>2
  <2>4. S = T * (2 * k + one) + r /\ r < T
    BY <1>2, <2>2, <2>3
  <2>a. T \in Nat \ {0} /\ r < T
    BY <1>2, <2>4
  <2>b. PICK q \in Nat : q = 2 * k + one
    BY <2>3
  <2>5. S \div T = q
    <3>1. S = T * q + r
      BY <2>4, <2>b
    <3> QED BY <2>a, <3>1, Splits
  <2>6. T * (2 * k + one) + r = (2 * T) * k + (T * one + r)
    BY <2>a, Apart
  <2>7. T * one + r < 2 * T /\ T * one + r \in Nat
    BY <2>a, Apart
  <2>8. PICK z \in Nat, D \in Nat \ {0} : z = T * one + r /\ D = 2 * T
    BY <1>2, <2>7
  <2>9. S = D * k + z /\ z < D
    BY <2>4, <2>6, <2>7, <2>8
  <2>10. S \div D = k
    BY <2>9, Splits
  <2>11. Right(w, S, m) = 2 * P - 1 /\ (m + 1 < w => Right(w, S, m + 1) = P - 1)
    BY <1>r, <1>2, <2>3, <2>b, <2>5, <2>8, <2>10
  <2>12. d = x + (2 * top - 2 * P)
    BY <1>2, <1>5, <1>9, <1>12, <2>1, <2>11
  <2>13. x >= P
    <3>1. SUFFICES ASSUME x < P PROVE FALSE
      BY <1>2
    <3>2. T * x + l < P * T
      BY <1>2, <1>3, <3>1, Below
    <3>3. P * T = top
      BY <1>2
    <3> QED BY <1>2, <1>13, <1>15, <3>2, <3>3
  <2>14. d >= top
    BY <1>2, <2>12, <2>13
  <2>15. SignBits(w, d) = 2 * top - 1
    BY <1>8, <2>14
  <2>16. d \div 2 = h + (top - P) /\ d % 2 = e
    BY <1>2, <1>3, <1>12, <2>12
  <2>17. (2 * top - 1) \div 2 = top - 1
    BY <1>2
  <2>18. SarDst(w, d, 1) = h + (2 * top - P)
    BY <1>2, <1>7, <2>15, <2>16, <2>17
  <2>19. m + 1 < w => SarDst(w, a, m + 1) = h + (2 * top - P)
    BY <1>2, <1>5, <1>9, <2>1, <2>11
  <2>20. ~(m + 1 < w) => h = 0 /\ P = 1
    BY <1>1, <1>3, <1>11
  <2> QED BY <1>2, <1>3, <1>4, <1>10, <2>1, <2>16, <2>18, <2>19, <2>20 DEF S, d
<1> QED BY <1>2, <1>13, <1>14, <1>15

\* A rotation to the right by m bits brings the bit at m to the right end.
LEMMA TurnedOut ==
  ASSUME NEW w \in Widths, NEW a \in Operand(w), NEW m \in 1..(w - 1)
  PROVE  Bit(Turn(w, a, (-m) % w), 0) <=> Bit(a, m)
<1> DEFINE T == 2^m
           P == 2^(w - 1 - m)
           k == w - m
<1>1. w \in Nat /\ m \in Nat /\ m \in 0..(w - 1) /\ k \in 0..(w - 1) /\ w - k = m /\ (-m) % w = k
  BY DEF Widths
<1>2. T \in Nat \ {0} /\ P \in Nat \ {0} /\ 2^k = 2 * P
  BY <1>1, Doubles
<1>3. PICK h, l \in Nat, e \in {0, 1} :
        /\ a = T * (2 * h + e) + l /\ l < T /\ h < 2^(w - 1 - m)
        /\ a \div T = 2 * h + e
        /\ Bit(a, m) <=> e = 1
  BY <1>1, BitApart
<1>4. PICK x \in Nat : x = 2 * h + e
  BY <1>3
<1>5. a = 2^(w - k) * x + l /\ l < 2^(w - k)
  BY <1>1, <1>3, <1>4
<1> HIDE DEF k
<1>a. k \in 0..(w - 1)
  BY <1>1
<1>6. Turn(w, a, k) = 2^k * l + x
  BY <1>a, <1>5, TurnIs
<1> HIDE DEF T, P
<1>7. Turn(w, a, k) = 2 * (P * l + h) + e /\ P * l + h \in Nat
  <2>1. (2 * P) * l + (2 * h + e) = 2 * (P * l + h) + e
    BY <1>2, <1>3, Rearranged
  <2> QED BY <1>2, <1>3, <1>4, <1>6, <2>1
<1>8. PICK y \in Nat : y = P * l + h
  BY <1>7
<1>9. Bit(2 * y + e, 0) <=> e = 1
  <2>1. 2 * y + e \in Nat /\ (2 * y + e) % 2 = e /\ 2^0 = 1
    BY <1>3
  <2>2. (2 * y + e) \div 1 = 2 * y + e
    BY <2>1
  <2> QED BY <1>3, <2>1, <2>2 DEF Bit
<1> QED BY <1>1, <1>3, <1>7, <1>8, <1>9

\* Nothing is left of an operand that has been shifted by its width or more.
LEMMA ShiftedOut ==
  ASSUME NEW w \in Widths, NEW a \in Operand(w), NEW m \in 8..31, m >= w
  PROVE  /\ ~Bit(a, m)
         /\ \A k \in 0..(w - 1) : ~Bit(0, k)
         /\ Left(w, a, m) = 0 /\ Right(w, a, m) = 0
<1> DEFINE Good(j) == a < 65536 /\ (j < 16 => a < 256) => a \div 2^j = 0
<1>1. a \in Nat /\ a < 65536 /\ (m < 16 => a < 256)
  BY Ranges DEF Widths
<1>2. /\ Good(8) /\ Good(9) /\ Good(10) /\ Good(11) /\ Good(12) /\ Good(13) /\ Good(14) /\ Good(15)
      /\ Good(16) /\ Good(17) /\ Good(18) /\ Good(19) /\ Good(20) /\ Good(21) /\ Good(22) /\ Good(23)
      /\ Good(24) /\ Good(25) /\ Good(26) /\ Good(27) /\ Good(28) /\ Good(29) /\ Good(30) /\ Good(31)
  BY <1>1
<1>3. \/ m = 8 \/ m = 9 \/ m = 10 \/ m = 11 \/ m = 12 \/ m = 13 \/ m = 14 \/ m = 15
      \/ m = 16 \/ m = 17 \/ m = 18 \/ m = 19 \/ m = 20 \/ m = 21 \/ m = 22 \/ m = 23
      \/ m = 24 \/ m = 25 \/ m = 26 \/ m = 27 \/ m = 28 \/ m = 29 \/ m = 30 \/ m = 31
  OBVIOUS
<1> HIDE DEF Good
<1>4. Good(m)
  BY <1>2, <1>3
<1>5. a \div 2^m = 0
  BY <1>1, <1>4 DEF Good
<1>6. ~Bit(a, m)
  BY <1>5 DEF Bit
<1>7. \A k \in 0..(w - 1) : ~Bit(0, k)
  <2> TAKE k \in 0..(w - 1)
  <2>1. 2^k \in Nat \ {0}
    BY Doubles
  <2>2. 0 \div 2^k = 0
    BY <2>1
  <2>3. 0 % 2 = 0
    OBVIOUS
  <2>4. (0 \div 2^k) % 2 = 0
    BY <2>2, <2>3
  <2> QED BY <2>4 DEF Bit
<1> QED BY <1>6, <1>7 DEF Left, Right

-----------------------------------------------------------------------------
(* A shift by n is one by n - 1 and one more.                              *)

\* Two loops with the same step agree on the rounds both have.
LEMMA IterationsAgree ==
  ASSUME NEW R, NEW start \in R, NEW step \in [R -> R], NEW n \in Nat, NEW k \in Nat, k <= n,
         NEW g \in [0..n -> R], Iterates(g, start, step, n),
         NEW h \in [0..k -> R], Iterates(h, start, step, k)
  PROVE  h[k] = g[k]
<1> DEFINE S == {m \in Nat : m <= k => h[m] = g[m]}
<1>1. 0 \in S
  BY DEF Iterates
<1>2. ASSUME NEW m \in S PROVE m + 1 \in S
  <2>1. SUFFICES ASSUME m + 1 <= k PROVE h[m + 1] = g[m + 1]
    OBVIOUS
  <2>2. m <= k /\ m + 1 \in 1..n /\ m + 1 \in 1..k /\ (m + 1) - 1 = m
    BY <2>1
  <2>3. h[m + 1] = step[h[(m + 1) - 1]] /\ g[m + 1] = step[g[(m + 1) - 1]]
    BY <2>2 DEF Iterates
  <2> QED BY <2>2, <2>3
<1> HIDE DEF S
<1>3. k \in S
  <2>1. S \in SUBSET Nat
    BY DEF S
  <2> QED BY <1>1, <1>2, <2>1, SetInduction
<1> QED BY <1>3 DEF S

\* Every shift has a result.
LEMMA SomeResult ==
  ASSUME NEW op \in Shiftings, NEW w, NEW a, NEW n \in 1..31, NEW p
  PROVE  \E r : r \in ShiftBy(op, w, a, n, p)
<1>1. OutRight(a, n) = {Bit(a, n - 1)}
  BY DEF OutRight
<1>2. \E r : r \in Rol(w, a, n, p)
  BY DEF Rol
<1>3. \E r : r \in Ror(w, a, n, p)
  BY <1>1 DEF Ror
<1>4. \E r : r \in Rcl(w, a, n, p)
  BY DEF Rcl, Turned
<1>5. \E r : r \in Rcr(w, a, n, p)
  BY DEF Rcr, Turned
<1>6. \E r : r \in Shl(w, a, n, p)
  BY DEF Shl
<1>7. \E r : r \in Shr(w, a, n, p)
  BY <1>1 DEF Shr
<1>8. \E r : r \in Sal(w, a, n, p)
  BY <1>6 DEF Sal
<1>9. \E r : r \in Sar(w, a, n, p)
  BY <1>1 DEF Sar
<1> QED BY <1>2, <1>3, <1>4, <1>5, <1>6, <1>7, <1>8, <1>9 DEF ShiftBy, Shiftings

\* A shift by n bits has the result y, but for what ShiftsRepeat excepts.
Agree(op, w, n, x, y) ==
  /\ x.dst = y.dst
  /\ (op \in {"rol", "ror"} /\ n > w) \/ x.psw.cy = y.psw.cy
  /\ (op = "sar" /\ n >= w) \/ <<x.psw.s, x.psw.z, x.psw.p>> = <<y.psw.s, y.psw.z, y.psw.p>>

\* Equal results show equally in S, Z and P.
LEMMA SameReflection ==
  ASSUME NEW w, NEW x, NEW y, x.dst = y.dst, Reflects(x.psw, w, x.dst), Reflects(y.psw, w, y.dst)
  PROVE  <<x.psw.s, x.psw.z, x.psw.p>> = <<y.psw.s, y.psw.z, y.psw.p>>
BY DEF Reflects

LEMMA RolRepeats ==
  ASSUME NEW w \in Widths, NEW a \in Operand(w), NEW n \in 2..31, NEW p \in Psw,
         NEW x \in Rol(w, a, n, p), NEW b \in Rol(w, a, n - 1, p), NEW y \in Rol(w, b.dst, 1, b.psw)
  PROVE  Agree("rol", w, n, x, y)
<1> DEFINE m == n - 1
           k == m % w
<1>1. /\ m \in 0..31 /\ n \in 0..31 /\ 1 \in 0..31 /\ 1 % w = 1 /\ k \in 0..(w - 1) /\ (k + 1) % w = n % w
      /\ (n <= w => k = m /\ w - 1 - m = w - n) /\ 1 <= w /\ (n <= w \/ n > w)
  BY DEF Widths
<1> HIDE DEF m
<1>b. b \in Rol(w, a, m, p)
  BY DEF m
<1>2. b.dst = Turn(w, a, k) /\ b.psw.s = p.s /\ b.psw.z = p.z /\ b.psw.p = p.p /\ Fine(w, b)
  BY <1>1, <1>b, RotateIs
<1>3. b.dst \in Operand(w) /\ b.psw \in Psw
  BY <1>2 DEF Fine
<1>4. x.dst = Turn(w, a, n % w) /\ x.psw.cy = OutLeft(w, a, n)
      /\ x.psw.s = p.s /\ x.psw.z = p.z /\ x.psw.p = p.p
  BY <1>1, RotateIs
<1>5. y.dst = Turn(w, b.dst, 1) /\ y.psw.cy = OutLeft(w, b.dst, 1)
      /\ y.psw.s = b.psw.s /\ y.psw.z = b.psw.z /\ y.psw.p = b.psw.p
  BY <1>1, <1>3, RotateIs
<1> HIDE DEF k
<1>6. Turn(w, Turn(w, a, k), 1) = Turn(w, a, (k + 1) % w)
      /\ (Bit(Turn(w, a, k), w - 1) <=> Bit(a, w - 1 - k))
  BY <1>1, TurnOnce
<1>7. n <= w => x.psw.cy = y.psw.cy
  <2>1. SUFFICES ASSUME n <= w PROVE OutLeft(w, a, n) = OutLeft(w, b.dst, 1)
    BY <1>4, <1>5
  <2>2. OutLeft(w, a, n) <=> Bit(a, w - n)
    BY <2>1 DEF OutLeft
  <2>3. OutLeft(w, b.dst, 1) <=> Bit(b.dst, w - 1)
    BY <1>1 DEF OutLeft
  <2>4. Bit(b.dst, w - 1) <=> Bit(a, w - n)
    BY <1>1, <1>2, <1>6, <2>1
  <2>5. OutLeft(w, a, n) \in BOOLEAN /\ OutLeft(w, b.dst, 1) \in BOOLEAN
    BY DEF OutLeft, Bit
  <2> QED BY <2>2, <2>3, <2>4, <2>5
<1> QED BY <1>1, <1>2, <1>4, <1>5, <1>6, <1>7 DEF Agree

LEMMA RorRepeats ==
  ASSUME NEW w \in Widths, NEW a \in Operand(w), NEW n \in 2..31, NEW p \in Psw,
         NEW x \in Ror(w, a, n, p), NEW b \in Ror(w, a, n - 1, p), NEW y \in Ror(w, b.dst, 1, b.psw)
  PROVE  Agree("ror", w, n, x, y)
<1> DEFINE m == n - 1
           k == (-m) % w
           j == (-n) % w
<1>1. /\ m \in 0..31 /\ n \in 0..31 /\ 1 \in 0..31 /\ j \in 0..(w - 1) /\ (j + 1) % w = k
      /\ 1 \in 0..(w - 1) /\ k \in 0..(w - 1)
      /\ (n <= w => m \in 1..(w - 1)) /\ (n <= w \/ n > w)
  BY DEF Widths
<1>b. b \in Ror(w, a, m, p)
  OBVIOUS
<1> HIDE DEF m
<1>2. b.dst = Turn(w, a, k) /\ b.psw.s = p.s /\ b.psw.z = p.z /\ b.psw.p = p.p /\ Fine(w, b)
  BY <1>1, <1>b, RotateIs
<1>3. b.dst \in Operand(w) /\ b.psw \in Psw
  BY <1>2 DEF Fine
<1>4. x.dst = Turn(w, a, j) /\ x.psw.cy \in OutRight(a, n)
      /\ x.psw.s = p.s /\ x.psw.z = p.z /\ x.psw.p = p.p
  BY <1>1, RotateIs
<1>5. y.dst = Turn(w, b.dst, (-1) % w) /\ y.psw.cy \in OutRight(b.dst, 1)
      /\ y.psw.s = b.psw.s /\ y.psw.z = b.psw.z /\ y.psw.p = b.psw.p
  BY <1>1, <1>3, RotateIs
<1>6. OutRight(a, n) = {Bit(a, m)} /\ OutRight(b.dst, 1) = {Bit(b.dst, 0)}
  BY DEF OutRight, m
<1>7. y.dst = x.dst
  <2>1. j \in 0..(w - 1) /\ (j + 1) % w = k /\ 1 \in 0..(w - 1)
    BY <1>1
  <2> HIDE DEF j, k
  <2>2. Turn(w, Turn(w, a, j), 1) = Turn(w, a, k) /\ Turn(w, a, j) \in Operand(w)
    BY <2>1, TurnOnce
  <2>3. Turn(w, Turn(w, Turn(w, a, j), 1), (-1) % w) = Turn(w, a, j)
    BY <2>1, <2>2, TurnBack
  <2> QED BY <1>2, <1>4, <1>5, <2>2, <2>3
<1>8. n <= w => (Bit(b.dst, 0) <=> Bit(a, m))
  BY <1>1, <1>2, TurnedOut
<1>9. Bit(a, m) \in BOOLEAN /\ Bit(b.dst, 0) \in BOOLEAN
  BY DEF Bit
<1>10. n <= w => x.psw.cy = y.psw.cy
  BY <1>4, <1>5, <1>6, <1>8, <1>9
<1> QED BY <1>1, <1>2, <1>4, <1>5, <1>7, <1>10 DEF Agree

LEMMA RclRepeats ==
  ASSUME NEW w \in Widths, NEW a \in Operand(w), NEW n \in 2..31, NEW p \in Psw,
         NEW x \in Rcl(w, a, n, p), NEW b \in Rcl(w, a, n - 1, p), NEW y \in Rcl(w, b.dst, 1, b.psw)
  PROVE  Agree("rcl", w, n, x, y)
<1> DEFINE start == [a |-> a, cy |-> p.cy]
           step == [t \in Pair(w) |-> RclOne(w, t)]
           m == n - 1
<1>1. /\ start \in Pair(w) /\ step \in [Pair(w) -> Pair(w)]
      /\ \A t \in Pair(w) : step[t] = RclOne(w, t) /\ RclOne(w, t) \in Pair(w)
  BY OneTurn DEF Pair, Psw
<1>2. n \in Nat /\ m \in Nat /\ m <= n /\ n \in 1..n /\ n - 1 = m /\ m \in 0..n
  OBVIOUS
<1>b. b \in Rcl(w, a, m, p)
  OBVIOUS
<1>3. \E g \in [0..n -> Pair(w)] : Iterates(g, start, step, n) /\ Rcl(w, a, n, p) = Turned(w, a, g[n], p)
  BY <1>2, RclIs
<1>4. \E g \in [0..m -> Pair(w)] : Iterates(g, start, step, m) /\ Rcl(w, a, m, p) = Turned(w, a, g[m], p)
  BY <1>2, RclIs
<1> HIDE DEF start, step, m
<1>5. PICK g \in [0..n -> Pair(w)] : Iterates(g, start, step, n) /\ x \in Turned(w, a, g[n], p)
  BY <1>3
<1>6. PICK h \in [0..m -> Pair(w)] : Iterates(h, start, step, m) /\ b \in Turned(w, a, h[m], p)
  BY <1>4, <1>b
<1>7. h[m] = g[m]
  <2>1. start \in Pair(w) /\ step \in [Pair(w) -> Pair(w)]
    BY <1>1
  <2>2. n \in Nat /\ m \in Nat /\ m <= n
    BY <1>2
  <2>3. g \in [0..n -> Pair(w)] /\ Iterates(g, start, step, n)
    BY <1>5
  <2>4. h \in [0..m -> Pair(w)] /\ Iterates(h, start, step, m)
    BY <1>6
  <2> QED BY <2>1, <2>2, <2>3, <2>4, IterationsAgree
<1>8. g[n] = RclOne(w, g[m]) /\ g[m] \in Pair(w) /\ g[n] \in Pair(w)
  <2>1. g[n] = step[g[n - 1]]
    BY <1>2, <1>5 DEF Iterates
  <2>2. g[m] \in Pair(w)
    BY <1>2, <1>5
  <2> QED BY <1>1, <1>2, <2>1, <2>2
<1>9. b.dst = g[m].a /\ b.psw.cy = g[m].cy /\ b.psw.s = p.s /\ b.psw.z = p.z /\ b.psw.p = p.p
      /\ b.dst \in Operand(w) /\ b.psw \in Psw
  BY <1>6, <1>7, <1>8, TurnedIs DEF Fine
<1>10. g[m] = [a |-> b.dst, cy |-> b.psw.cy]
  BY <1>8, <1>9 DEF Pair
<1>11. y \in Turned(w, b.dst, g[n], b.psw)
  <2>1. Rcl(w, b.dst, 1, b.psw) = Turned(w, b.dst, RclOne(w, [a |-> b.dst, cy |-> b.psw.cy]), b.psw)
    BY <1>9, TurnsByOne
  <2> QED BY <1>8, <1>10, <2>1
<1>12. x.dst = g[n].a /\ x.psw.cy = g[n].cy /\ x.psw.s = p.s /\ x.psw.z = p.z /\ x.psw.p = p.p
  BY <1>5, <1>8, TurnedIs
<1>13. y.dst = g[n].a /\ y.psw.cy = g[n].cy /\ y.psw.s = b.psw.s /\ y.psw.z = b.psw.z /\ y.psw.p = b.psw.p
  BY <1>8, <1>9, <1>11, TurnedIs
<1> QED BY <1>9, <1>12, <1>13 DEF Agree

LEMMA RcrRepeats ==
  ASSUME NEW w \in Widths, NEW a \in Operand(w), NEW n \in 2..31, NEW p \in Psw,
         NEW x \in Rcr(w, a, n, p), NEW b \in Rcr(w, a, n - 1, p), NEW y \in Rcr(w, b.dst, 1, b.psw)
  PROVE  Agree("rcr", w, n, x, y)
<1> DEFINE start == [a |-> a, cy |-> p.cy]
           step == [t \in Pair(w) |-> RcrOne(w, t)]
           m == n - 1
<1>1. /\ start \in Pair(w) /\ step \in [Pair(w) -> Pair(w)]
      /\ \A t \in Pair(w) : step[t] = RcrOne(w, t) /\ RcrOne(w, t) \in Pair(w)
  BY OneTurn DEF Pair, Psw
<1>2. n \in Nat /\ m \in Nat /\ m <= n /\ n \in 1..n /\ n - 1 = m /\ m \in 0..n
  OBVIOUS
<1>b. b \in Rcr(w, a, m, p)
  OBVIOUS
<1>3. \E g \in [0..n -> Pair(w)] : Iterates(g, start, step, n) /\ Rcr(w, a, n, p) = Turned(w, a, g[n], p)
  BY <1>2, RcrIs
<1>4. \E g \in [0..m -> Pair(w)] : Iterates(g, start, step, m) /\ Rcr(w, a, m, p) = Turned(w, a, g[m], p)
  BY <1>2, RcrIs
<1> HIDE DEF start, step, m
<1>5. PICK g \in [0..n -> Pair(w)] : Iterates(g, start, step, n) /\ x \in Turned(w, a, g[n], p)
  BY <1>3
<1>6. PICK h \in [0..m -> Pair(w)] : Iterates(h, start, step, m) /\ b \in Turned(w, a, h[m], p)
  BY <1>4, <1>b
<1>7. h[m] = g[m]
  <2>1. start \in Pair(w) /\ step \in [Pair(w) -> Pair(w)]
    BY <1>1
  <2>2. n \in Nat /\ m \in Nat /\ m <= n
    BY <1>2
  <2>3. g \in [0..n -> Pair(w)] /\ Iterates(g, start, step, n)
    BY <1>5
  <2>4. h \in [0..m -> Pair(w)] /\ Iterates(h, start, step, m)
    BY <1>6
  <2> QED BY <2>1, <2>2, <2>3, <2>4, IterationsAgree
<1>8. g[n] = RcrOne(w, g[m]) /\ g[m] \in Pair(w) /\ g[n] \in Pair(w)
  <2>1. g[n] = step[g[n - 1]]
    BY <1>2, <1>5 DEF Iterates
  <2>2. g[m] \in Pair(w)
    BY <1>2, <1>5
  <2> QED BY <1>1, <1>2, <2>1, <2>2
<1>9. b.dst = g[m].a /\ b.psw.cy = g[m].cy /\ b.psw.s = p.s /\ b.psw.z = p.z /\ b.psw.p = p.p
      /\ b.dst \in Operand(w) /\ b.psw \in Psw
  BY <1>6, <1>7, <1>8, TurnedIs DEF Fine
<1>10. g[m] = [a |-> b.dst, cy |-> b.psw.cy]
  BY <1>8, <1>9 DEF Pair
<1>11. y \in Turned(w, b.dst, g[n], b.psw)
  <2>1. Rcr(w, b.dst, 1, b.psw) = Turned(w, b.dst, RcrOne(w, [a |-> b.dst, cy |-> b.psw.cy]), b.psw)
    BY <1>9, TurnsByOne
  <2> QED BY <1>8, <1>10, <2>1
<1>12. x.dst = g[n].a /\ x.psw.cy = g[n].cy /\ x.psw.s = p.s /\ x.psw.z = p.z /\ x.psw.p = p.p
  BY <1>5, <1>8, TurnedIs
<1>13. y.dst = g[n].a /\ y.psw.cy = g[n].cy /\ y.psw.s = b.psw.s /\ y.psw.z = b.psw.z /\ y.psw.p = b.psw.p
  BY <1>8, <1>9, <1>11, TurnedIs
<1> QED BY <1>9, <1>12, <1>13 DEF Agree

LEMMA ShlRepeats ==
  ASSUME NEW op \in {"shl", "sal"}, NEW w \in Widths, NEW a \in Operand(w), NEW n \in 2..31, NEW p \in Psw,
         NEW x \in ShiftBy(op, w, a, n, p), NEW b \in ShiftBy(op, w, a, n - 1, p),
         NEW y \in ShiftBy(op, w, b.dst, 1, b.psw)
  PROVE  Agree(op, w, n, x, y)
<1> DEFINE m == n - 1
<1>1. m \in 0..31 /\ n \in 0..31 /\ 1 \in 0..31 /\ m + 1 = n /\ 1 <= w /\ w - 1 \in 0..(w - 1) /\ w \in Nat
      /\ (m < w => m \in 0..(w - 1) /\ w - 1 - m = w - n /\ n <= w)
      /\ (~(m < w) => m >= w /\ m \in 8..31 /\ n \in 8..31 /\ n >= w /\ ~(n <= w))
  BY DEF Widths
<1>b. b \in ShiftBy(op, w, a, m, p)
  OBVIOUS
<1> HIDE DEF m
<1>2. \A c, k, q : ShiftBy(op, w, c, k, q) \subseteq Shl(w, c, k, q) \union Sal(w, c, k, q)
  BY DEF ShiftBy
<1>3. b.dst = Left(w, a, m) /\ Fine(w, b)
  <2>1. b \in Shl(w, a, m, p) \union Sal(w, a, m, p)
    BY <1>2, <1>b
  <2> QED BY <1>1, <2>1, ShiftIs
<1>4. b.dst \in Operand(w) /\ b.psw \in Psw
  BY <1>3 DEF Fine
<1>5. x.dst = Left(w, a, n) /\ x.psw.cy = OutLeft(w, a, n) /\ Reflects(x.psw, w, x.dst)
  <2>1. x \in Shl(w, a, n, p) \union Sal(w, a, n, p)
    BY <1>2
  <2> QED BY <1>1, <2>1, ShiftIs
<1>6. y.dst = Left(w, b.dst, 1) /\ y.psw.cy = OutLeft(w, b.dst, 1) /\ Reflects(y.psw, w, y.dst)
  <2>1. y \in Shl(w, b.dst, 1, b.psw) \union Sal(w, b.dst, 1, b.psw)
    BY <1>2
  <2> QED BY <1>1, <1>4, <2>1, ShiftIs
<1>7. Left(w, b.dst, 1) = Left(w, a, n) /\ (OutLeft(w, b.dst, 1) <=> OutLeft(w, a, n))
  <2>1. OutLeft(w, b.dst, 1) <=> Bit(b.dst, w - 1)
    BY <1>1 DEF OutLeft
  <2>2. CASE m < w
    <3>1. m \in 0..(w - 1)
      BY <1>1, <2>2
    <3>2. Left(w, Left(w, a, m), 1) = Left(w, a, m + 1) /\ (Bit(Left(w, a, m), w - 1) <=> Bit(a, w - 1 - m))
      BY <3>1, TurnOnce
    <3>3. OutLeft(w, a, n) <=> Bit(a, w - 1 - m)
      BY <1>1, <2>2 DEF OutLeft
    <3> QED BY <1>1, <1>3, <2>1, <3>2, <3>3
  <2>3. CASE ~(m < w)
    <3>1. Left(w, a, m) = 0 /\ Left(w, a, n) = 0 /\ ~Bit(0, w - 1)
      BY <1>1, <2>3, ShiftedOut
    <3>2. ~OutLeft(w, a, n)
      BY <1>1, <2>3 DEF OutLeft
    <3>3. Left(w, 0, 1) = 0
      <4>1. PICK Q \in Nat \ {0} : Q = 2^(w - 1)
        BY TopBit
      <4>2. 0 % Q = 0 /\ 0 * 2^1 = 0
        OBVIOUS
      <4> QED BY <4>1, <4>2 DEF Left, Fit
    <3> QED BY <1>3, <2>1, <3>1, <3>2, <3>3
  <2> QED BY <2>2, <2>3
<1>8. OutLeft(w, a, n) \in BOOLEAN /\ OutLeft(w, b.dst, 1) \in BOOLEAN
  BY DEF OutLeft, Bit
<1>9. x.dst = y.dst /\ x.psw.cy = y.psw.cy
  BY <1>5, <1>6, <1>7, <1>8
<1> QED BY <1>5, <1>6, <1>9, SameReflection DEF Agree

LEMMA ShrRepeats ==
  ASSUME NEW w \in Widths, NEW a \in Operand(w), NEW n \in 2..31, NEW p \in Psw,
         NEW x \in Shr(w, a, n, p), NEW b \in Shr(w, a, n - 1, p), NEW y \in Shr(w, b.dst, 1, b.psw)
  PROVE  Agree("shr", w, n, x, y)
<1> DEFINE m == n - 1
<1>1. m \in 0..31 /\ n \in 0..31 /\ 1 \in 0..31 /\ m + 1 = n /\ 0 \in 0..(w - 1)
      /\ (m < w => m \in 0..(w - 1))
      /\ (~(m < w) => m >= w /\ m \in 8..31 /\ n \in 8..31 /\ n >= w)
  BY DEF Widths
<1>b. b \in Shr(w, a, m, p)
  OBVIOUS
<1>c. OutRight(a, n) = {Bit(a, m)} /\ OutRight(b.dst, 1) = {Bit(b.dst, 0)}
  BY DEF OutRight
<1> HIDE DEF m
<1>3. b.dst = Right(w, a, m) /\ Fine(w, b)
  BY <1>1, <1>b, ShiftIs
<1>4. b.dst \in Operand(w) /\ b.psw \in Psw
  BY <1>3 DEF Fine
<1>5. x.dst = Right(w, a, n) /\ x.psw.cy = Bit(a, m) /\ Reflects(x.psw, w, x.dst)
  BY <1>1, <1>c, ShiftIs
<1>6. y.dst = Right(w, b.dst, 1) /\ y.psw.cy = Bit(b.dst, 0) /\ Reflects(y.psw, w, y.dst)
  BY <1>1, <1>c, <1>4, ShiftIs
<1>7. Right(w, b.dst, 1) = Right(w, a, n) /\ (Bit(b.dst, 0) <=> Bit(a, m))
  <2>1. CASE m < w
    BY <1>1, <1>3, <2>1, RightOnce
  <2>2. CASE ~(m < w)
    <3>1. Right(w, a, m) = 0 /\ Right(w, a, n) = 0 /\ ~Bit(0, 0) /\ ~Bit(a, m)
      BY <1>1, <2>2, ShiftedOut
    <3>2. Right(w, 0, 1) = 0
      BY DEF Right, Widths
    <3> QED BY <1>3, <3>1, <3>2
  <2> QED BY <2>1, <2>2
<1>8. Bit(a, m) \in BOOLEAN /\ Bit(b.dst, 0) \in BOOLEAN
  BY DEF Bit
<1>9. x.dst = y.dst /\ x.psw.cy = y.psw.cy
  BY <1>5, <1>6, <1>7, <1>8
<1> QED BY <1>5, <1>6, <1>9, SameReflection DEF Agree

\* What is left of an operand shifted out by SAR is its sign, and stays it.
LEMMA SignStays ==
  ASSUME NEW w \in Widths, NEW a \in Operand(w)
  PROVE  LET s == SignBits(w, a)
         IN  s \in Operand(w) /\ SarDst(w, s, 1) = s /\ (Bit(s, 0) <=> Negative(w, a))
<1> DEFINE s == SignBits(w, a)
           top == 2^(w - 1)
<1>1. 0 \in 0..(w - 1)
  BY DEF Widths
<1>2. s \in Operand(w)
  BY <1>1, SarRange
<1>3. top \in Nat \ {0} /\ 2 * top - 1 >= top
  BY TopBit
<1>4. /\ s = IF Negative(w, a) THEN 2 * top - 1 ELSE 0
      /\ SignBits(w, s) = IF s >= top THEN 2 * top - 1 ELSE 0
  BY <1>2, SignIs
<1>5. SignBits(w, s) = s
  BY <1>3, <1>4
<1>6. Right(w, s, 1) = s \div 2 /\ (Bit(s, 0) <=> s % 2 = 1) /\ s \in Nat
  BY <1>2, RightByOne
<1>7. SarDst(w, s, 1) = s \div 2 + (s - s \div 2)
  BY <1>5, <1>6 DEF SarDst
<1> HIDE DEF s, top
<1>8. s \div 2 + (s - s \div 2) = s
  BY <1>6
<1>9. s % 2 = 1 <=> Negative(w, a)
  BY <1>3, <1>4
<1> QED BY <1>2, <1>6, <1>7, <1>8, <1>9 DEF s

LEMMA SarRepeats ==
  ASSUME NEW w \in Widths, NEW a \in Operand(w), NEW n \in 2..31, NEW p \in Psw,
         NEW x \in Sar(w, a, n, p), NEW b \in Sar(w, a, n - 1, p), NEW y \in Sar(w, b.dst, 1, b.psw)
  PROVE  Agree("sar", w, n, x, y)
<1> DEFINE m == n - 1
           s == SignBits(w, a)
<1>1. m \in 0..31 /\ n \in 0..31 /\ 1 \in 0..31 /\ m + 1 = n /\ 1 < w /\ w - 1 \in 0..(w - 1)
      /\ (m < w => m \in 0..(w - 1))
      /\ (~(m < w) => m >= w /\ n >= w)
      /\ (n < w => m < w) /\ (~(n < w) => n >= w)
  BY DEF Widths
<1>b. b \in Sar(w, a, m, p)
  OBVIOUS
<1>c. OutRight(a, n) = {Bit(a, m)} /\ OutRight(b.dst, 1) = {Bit(b.dst, 0)}
  BY DEF OutRight
<1> HIDE DEF m
<1>2. Fine(w, b) /\ (m < w => b.dst = SarDst(w, a, m)) /\ (m >= w => b.dst = s)
  BY <1>1, <1>b, SarIs
<1>3. b.dst \in Operand(w) /\ b.psw \in Psw
  BY <1>2 DEF Fine
<1>4. /\ n < w => x.dst = SarDst(w, a, n) /\ x.psw.cy = Bit(a, m) /\ Reflects(x.psw, w, x.dst)
      /\ n >= w => x.dst = s /\ x.psw.cy = Negative(w, a)
  BY <1>1, <1>c, SarIs
<1>5. y.dst = SarDst(w, b.dst, 1) /\ y.psw.cy = Bit(b.dst, 0) /\ Reflects(y.psw, w, y.dst)
  BY <1>1, <1>c, <1>3, SarIs
<1> HIDE DEF s
<1>6. s \in Operand(w) /\ SarDst(w, s, 1) = s /\ (Bit(s, 0) <=> Negative(w, a))
  BY SignStays DEF s
<1>7. CASE n < w
  <2>1. SarDst(w, SarDst(w, a, m), 1) = SarDst(w, a, n) /\ (Bit(SarDst(w, a, m), 0) <=> Bit(a, m))
    BY <1>1, <1>7, SarOnce
  <2>2. Bit(a, m) \in BOOLEAN /\ Bit(b.dst, 0) \in BOOLEAN
    BY DEF Bit
  <2>3. x.dst = y.dst /\ x.psw.cy = y.psw.cy
    BY <1>1, <1>2, <1>4, <1>5, <1>7, <2>1, <2>2
  <2> QED BY <1>4, <1>5, <1>7, <2>3, SameReflection DEF Agree
<1>8. CASE ~(n < w)
  <2>1. SarDst(w, b.dst, 1) = s /\ (Bit(b.dst, 0) <=> Negative(w, a))
    <3>1. CASE m < w
      <4>1. m = w - 1
        BY <1>1, <1>8, <3>1 DEF Widths
      <4>2. SarDst(w, SarDst(w, a, m), 1) = s /\ (Bit(SarDst(w, a, m), 0) <=> Bit(a, m))
        BY <1>1, <1>8, <3>1, SarOnce DEF s
      <4> QED BY <1>2, <3>1, <4>1, <4>2 DEF Negative
    <3>2. CASE ~(m < w)
      BY <1>1, <1>2, <1>6, <3>2
    <3> QED BY <3>1, <3>2
  <2>2. Negative(w, a) \in BOOLEAN /\ Bit(b.dst, 0) \in BOOLEAN
    BY DEF Bit, Negative
  <2>3. x.dst = y.dst /\ x.psw.cy = y.psw.cy
    BY <1>1, <1>4, <1>5, <1>8, <2>1, <2>2
  <2> QED BY <1>1, <1>8, <2>3 DEF Agree
<1> QED BY <1>7, <1>8

LEMMA Repeated ==
  ASSUME NEW op \in Shiftings, NEW w \in Widths, NEW a \in Operand(w), NEW n \in 2..31, NEW p \in Psw,
         NEW x \in ShiftBy(op, w, a, n, p), NEW b \in ShiftBy(op, w, a, n - 1, p),
         NEW y \in ShiftBy(op, w, b.dst, 1, b.psw)
  PROVE  Agree(op, w, n, x, y)
<1>1. CASE op = "rol"
  BY <1>1, RolRepeats DEF ShiftBy
<1>2. CASE op = "ror"
  BY <1>2, RorRepeats DEF ShiftBy
<1>3. CASE op = "rcl"
  BY <1>3, RclRepeats DEF ShiftBy
<1>4. CASE op = "rcr"
  BY <1>4, RcrRepeats DEF ShiftBy
<1>5. CASE op \in {"shl", "sal"}
  BY <1>5, ShlRepeats
<1>6. CASE op = "shr"
  BY <1>6, ShrRepeats DEF ShiftBy
<1>7. CASE op = "sar"
  BY <1>7, SarRepeats DEF ShiftBy
<1> QED BY <1>1, <1>2, <1>3, <1>4, <1>5, <1>6, <1>7 DEF Shiftings

\* A result x with flags q is one that a shift by n - 1 and one more can give,
\* but for what ShiftsRepeat excepts.
Repeating(op, w, a, p, n, x, q) ==
  LET start == Result(a, p)
      Before == IF n = 1 THEN {start} ELSE Shift(op, w, start.dst, n - 1, start.psw)
  IN  \E b \in Before : \E r \in Shift(op, w, b.dst, 1, b.psw) :
        /\ x = r.dst
        /\ (op \in {"rol", "ror"} /\ n > w) \/ q.cy = r.psw.cy
        /\ (op = "sar" /\ n >= w) \/ <<q.s, q.z, q.p>> = <<r.psw.s, r.psw.z, r.psw.p>>

RepeatsOn(op, on) ==
  Ended(ShiftByCl(op, on)) /\ cw % 32 > 0
    => Repeating(op, Width(on), Part(on, from.aw), from.psw, cw % 32, Part(on, aw), psw)

LEMMA RepeatsParts == ShiftsRepeat <=> \A op \in Shiftings, on \in Parts : RepeatsOn(op, on)
BY DEF ShiftsRepeat, RepeatsOn, Repeating

\* A count in CL, taken modulo 32.
LEMMA ByCount ==
  ASSUME NEW op \in Shiftings, NEW w \in Widths, NEW a \in Operand(w), NEW p \in Psw,
         NEW count \in Nat, NEW n, n = count % 32, n > 0,
         NEW x \in Shift(op, w, a, count, p)
  PROVE  Repeating(op, w, a, p, n, x.dst, x.psw)
<1>0. Result(a, p).dst = a /\ Result(a, p).psw = p
  BY DEF Result
<1> SUFFICES \E b \in (IF n = 1 THEN {Result(a, p)} ELSE Shift(op, w, a, n - 1, p)) :
           \E r \in Shift(op, w, b.dst, 1, b.psw) : Agree(op, w, n, x, r)
  BY <1>0, Zenon DEF Repeating, Agree
<1>1. n \in 1..31 /\ 1 % 32 = 1
  OBVIOUS
<1>2. x \in ShiftBy(op, w, a, n, p)
  BY DEF Shift
<1>3. \A c, q : Shift(op, w, c, 1, q) = ShiftBy(op, w, c, 1, q)
  BY <1>1 DEF Shift
<1>4. CASE n = 1
  <2>2. x \in Shift(op, w, Result(a, p).dst, 1, Result(a, p).psw)
    BY <1>0, <1>2, <1>3, <1>4
  <2>3. Agree(op, w, n, x, x)
    BY DEF Agree
  <2> QED BY <1>4, <2>2, <2>3
<1>5. CASE n # 1
  <2>1. n \in 2..31 /\ n - 1 \in 1..31 /\ (n - 1) % 32 = n - 1 /\ 1 \in 1..31
    BY <1>1, <1>5
  <2>2. Shift(op, w, a, n - 1, p) = ShiftBy(op, w, a, n - 1, p)
    BY <2>1 DEF Shift
  <2>3. PICK b : b \in ShiftBy(op, w, a, n - 1, p)
    BY <2>1, SomeResult
  <2>4. PICK y : y \in ShiftBy(op, w, b.dst, 1, b.psw)
    BY <2>1, SomeResult
  <2>5. Agree(op, w, n, x, y)
    BY <1>2, <2>1, <2>3, <2>4, Repeated
  <2>6. y \in Shift(op, w, b.dst, 1, b.psw)
    BY <1>3, <2>4
  <2> QED BY <1>5, <2>2, <2>3, <2>5, <2>6
<1> QED BY <1>4, <1>5

LEMMA RepeatsStep ==
  TypeOK /\ Started /\ (\A op \in Shiftings, on \in Parts : RepeatsOn(op, on)) /\ [Next]_vars
    => (\A op \in Shiftings, on \in Parts : RepeatsOn(op, on))'
<1>1. ASSUME NEW op \in Shiftings, NEW on \in Parts, RepeatsOn(op, on), UNCHANGED vars
      PROVE  RepeatsOn(op, on)'
  BY <1>1 DEF vars, RepeatsOn, Ended
<1>2. ASSUME NEW op \in Shiftings, NEW on \in Parts, TypeOK, Started, Next PROVE RepeatsOn(op, on)'
  <2>1. idiom' = idiom /\ from' = from
    BY <1>2, Acts
  <2>2. SUFFICES ASSUME idiom = ShiftByCl(op, on), pc' = 1, cw' % 32 > 0
        PROVE  Repeating(op, Width(on), Part(on, from.aw), from.psw, cw' % 32, Part(on, aw'), psw')
    <3>1. Len(ShiftByCl(op, on)) = 1
      BY DEF ShiftByCl
    <3> QED BY <2>1, <3>1 DEF RepeatsOn, Ended
  <2>3. pc = 0 /\ Insn = I(op, on, "cl")
    <3>1. pc \in Nat /\ pc < 1
      BY <1>2, <2>2, Acts DEF TypeOK, Running, ShiftByCl
    <3>2. pc = 0
      BY <3>1
    <3> QED BY <2>2, <3>2 DEF Insn, ShiftByCl
  <2>4. aw = from.aw /\ psw = from.psw
    <3>1. idiom[1].op = op
      BY <2>2 DEF ShiftByCl, I
    <3>2. idiom[1].op \notin {"aam", "mul", "imul", "div", "idiv"}
      BY <3>1 DEF Shiftings
    <3> QED BY <1>2, <2>3, <3>2, Unfaulted
  <2> DEFINE w == Width(on)
             a == Part(on, from.aw)
             n == cw % 32
  <2>5. w \in Widths /\ a \in Operand(w) /\ from.psw \in Psw /\ Al(cw) \in Nat /\ Al(cw) % 32 = n
    <3>1. cw \in Nat
      BY <1>2, TypeFacts, Ranges
    <3>2. Al(cw) \in Nat /\ Al(cw) % 32 = n
      BY <3>1 DEF Al
    <3> QED BY <1>2, <3>2, TypeFacts, PartIn, WidthOf
  <2>6. Src = Al(cw)
    BY <2>3 DEF Src, I
  <2>7. /\ cw' = cw
        /\ \E r \in Shift(op, Width(on), Part(on, aw), Src, psw) : psw' = r.psw /\ Part(on, aw') = r.dst
    BY <1>2, <2>3, ShiftStep
  <2>8. PICK x \in Shift(op, w, a, Al(cw), from.psw) : psw' = x.psw /\ Part(on, aw') = x.dst
    BY <2>4, <2>6, <2>7
  <2>9. n > 0
    BY <2>2, <2>7
  <2> HIDE DEF w, a, n
  <2>10. Repeating(op, w, a, from.psw, n, x.dst, x.psw)
    BY <2>5, <2>8, <2>9, ByCount
  <2> QED BY <2>7, <2>8, <2>10 DEF w, a, n
<1> QED BY <1>1, <1>2

\* A shift by CL is as many shifts by one: what it leaves is what one by n - 1 and
\* one more leave, but for the flags ShiftsRepeat excepts.
THEOREM ShiftsRepeated == Spec => []ShiftsRepeat
<1>1. Init => \A op \in Shiftings, on \in Parts : RepeatsOn(op, on)
  <2> SUFFICES ASSUME Init PROVE \A op \in Shiftings, on \in Parts : RepeatsOn(op, on)
    OBVIOUS
  <2>1. idiom \in Idioms /\ pc = 0 /\ Len(idiom) # 0
    BY WellFormedIdioms DEF Init
  <2>2. \A seq : ~Ended(seq)
    BY <2>1 DEF Ended
  <2> QED BY <2>2, Zenon DEF RepeatsOn
<1>2. Spec => [](\A op \in Shiftings, on \in Parts : RepeatsOn(op, on))
  BY <1>1, Typed, AlwaysStarted, RepeatsStep, PTL DEF Spec
<1> QED BY <1>2, RepeatsParts, PTL
=============================================================================
