------------------------------- MODULE V30Alu -------------------------------
(***************************************************************************)
(* The V30MZ running the short sequences of arithmetic that programs are   *)
(* made of, in which an instruction relies on flags and registers the one  *)
(* before it has left (src/emu/cpu/new/exec.inc.c).                        *)
(*                                                                         *)
(* An instruction is an operation, the part of AW it is applied to -- AL,  *)
(* AH or all of it -- and its source: the same part of BW, CL or a number. *)
(* Decoding and memory operands are left out: they are in V30Exec.         *)
(***************************************************************************)
EXTENDS V30Shift, Sequences

CONSTANTS
  Words,      \* values of AW and BW to start from
  Counts      \* values of CW to start from

ASSUME AluAssumption == Words \subseteq Operand(16) /\ Counts \subseteq Operand(8)

I(op, on, by) == [op |-> op, on |-> on, by |-> by]

\* Arithmetic of two bytes, least significant first, beside a pointer's step.
AddBytes == <<I("add", "al", "bw"), I("inc", "cw", "zero"), I("adc", "ah", "bw")>>
SubBytes == <<I("sub", "al", "bw"), I("dec", "cw", "zero"), I("sbb", "ah", "bw")>>
CmpBytes == <<I("cmp", "al", "bw"), I("sbb", "ah", "bw")>>
NegBytes == <<I("neg", "ah", "zero"), I("neg", "al", "zero"), I("sbb", "ah", "zero")>>
ShlBytes == <<I("shl", "al", "one"), I("rcl", "ah", "one")>>
ShrBytes == <<I("shr", "ah", "one"), I("rcr", "al", "one")>>
SarBytes == <<I("sar", "ah", "one"), I("rcr", "al", "one")>>

\* A comparison for a jump.
Cmp(on) == <<I("cmp", on, "bw")>>
Test(op, on) == <<I(op, on, "bw")>>

\* A rotation and the one that undoes it; shifts by CL.
RotateBack(there, back, on) == <<I(there, on, "cl"), I(back, on, "cl")>>
ShiftByCl(op, on) == <<I(op, on, "cl")>>

\* Decimal digits, packed and not.
Decimal(op, adjust) == <<I(op, "al", "bw"), I(adjust, "aw", "zero")>>
Digits == <<I("aam", "aw", "bw"), I("aad", "aw", "bw")>>

\* Multiplication and the division that undoes it; division.
MulBack == <<I("mul", "aw", "bw"), I("div", "aw", "bw")>>
ImulBack == <<I("imul", "aw", "bw"), I("idiv", "aw", "bw")>>
DivBy(op) == <<I(op, "aw", "bw")>>

Parts == {"al", "ah", "aw"}
Tests == {"and", "or", "xor", "test"}
Rotations == {<<"rol", "ror">>, <<"ror", "rol">>, <<"rcl", "rcr">>, <<"rcr", "rcl">>}
Shiftings == {"rol", "ror", "rcl", "rcr", "shl", "sal", "shr", "sar"}
Adjusts == {<<"add", "daa">>, <<"sub", "das">>, <<"add", "aaa">>, <<"sub", "aas">>}

Idioms ==
  {AddBytes, SubBytes, CmpBytes, NegBytes, ShlBytes, ShrBytes, SarBytes, Digits, MulBack, ImulBack}
    \union {Cmp(on) : on \in Parts}
    \union {Test(op, on) : op \in Tests, on \in Parts}
    \union {RotateBack(r[1], r[2], on) : r \in Rotations, on \in Parts}
    \union {ShiftByCl(op, on) : op \in Shiftings, on \in Parts}
    \union {Decimal(a[1], a[2]) : a \in Adjusts}
    \union {DivBy(op) : op \in {"div", "idiv"}}

Uses(idiom, by) == \E i \in DOMAIN idiom : idiom[i].by = by

-----------------------------------------------------------------------------

VARIABLES
  idiom,      \* the instructions
  pc,         \* how many of them have been executed
  aw, bw, cw, \* the registers
  psw,        \* the flags
  faulted,    \* a division has faulted
  from        \* history: AW and the flags at the beginning

vars == <<idiom, pc, aw, bw, cw, psw, faulted, from>>

Flags(b) == [cy |-> b, p |-> b, ac |-> b, z |-> b, s |-> b, v |-> b]

Init ==
  /\ idiom \in Idioms
  /\ pc = 0
  /\ aw \in Words
  /\ bw \in IF Uses(idiom, "bw") THEN Words ELSE {0}
  /\ cw \in IF Uses(idiom, "cl") THEN Counts ELSE {0}
  /\ psw \in {Flags(b) : b \in IF Uses(idiom, "cl") THEN BOOLEAN ELSE {TRUE}}
  /\ faulted = FALSE
  /\ from = [aw |-> aw, psw |-> psw]

\* The parts of a register.
Width(on) == IF on \in {"al", "ah"} THEN 8 ELSE 16
Part(on, x) == CASE on = "al" -> Al(x) [] on = "ah" -> Ah(x) [] OTHER -> x
With(on, x, y) == CASE on = "al" -> Aw(Ah(x), y) [] on = "ah" -> Aw(y, Al(x)) [] OTHER -> y

Running == pc < Len(idiom)
Insn == idiom[pc + 1]
W == Width(Insn.on)
Dst == Part(Insn.on, aw)
Src == CASE Insn.by = "bw" -> Part(Insn.on, bw)
         [] Insn.by = "cl" -> Al(cw)
         [] Insn.by = "one" -> 1
         [] Insn.by = "zero" -> 0

\* The instruction has the result r, in the part it is applied to.
Set(r) ==
  /\ aw' = With(Insn.on, aw, r.dst)
  /\ psw' = r.psw
  /\ pc' = pc + 1
  /\ UNCHANGED <<idiom, bw, cw, faulted, from>>

ExecAdd ==
  /\ Running /\ Insn.op \in {"add", "adc"}
  /\ Set(Add(W, Dst, Src, Insn.op = "adc", psw))

ExecSub ==
  /\ Running /\ Insn.op \in {"sub", "sbb"}
  /\ Set(Sub(W, Dst, Src, Insn.op = "sbb", psw))

ExecCmp ==
  /\ Running /\ Insn.op = "cmp"
  /\ Set(Result(Dst, Sub(W, Dst, Src, FALSE, psw).psw))

ExecIncDec ==
  /\ Running /\ Insn.op \in {"inc", "dec"}
  /\ LET r == IF Insn.op = "inc" THEN Inc(16, cw, psw) ELSE Dec(16, cw, psw)
     IN  cw' = r.dst /\ psw' = r.psw
  /\ pc' = pc + 1
  /\ UNCHANGED <<idiom, aw, bw, faulted, from>>

ExecNeg ==
  /\ Running /\ Insn.op = "neg"
  /\ Set(Neg(W, Dst, psw))

ExecLogic ==
  /\ Running /\ Insn.op \in {"and", "or", "xor"}
  /\ Set(CASE Insn.op = "and" -> Logic(W, BitAnd(W, Dst, Src), psw)
           [] Insn.op = "or"  -> Logic(W, BitOr(W, Dst, Src), psw)
           [] Insn.op = "xor" -> Logic(W, BitXor(W, Dst, Src), psw))

ExecTest ==
  /\ Running /\ Insn.op = "test"
  /\ Set(Result(Dst, Logic(W, BitAnd(W, Dst, Src), psw).psw))

ExecShift ==
  /\ Running /\ Insn.op \in Shiftings
  /\ \E r \in Shift(Insn.op, W, Dst, Src, psw) : Set(r)

ExecAdjust ==
  /\ Running /\ Insn.op \in {"daa", "das", "aaa", "aas"}
  /\ Set(IF Insn.op \in {"daa", "das"}
         THEN DaaDas(Insn.op = "das", aw, psw)
         ELSE AaaAas(Insn.op = "aas", aw, psw))

ExecAad ==
  /\ Running /\ Insn.op = "aad"
  /\ Set(Aad(aw, Al(Src), psw))

ExecMul ==
  /\ Running /\ Insn.op \in {"mul", "imul"}
  /\ Set(IF Insn.op = "mul" THEN Mul(aw, Al(Src), psw) ELSE Imul(aw, Al(Src), psw))

Quotients ==
  CASE Insn.op = "aam"  -> IF Al(Src) = 0 THEN {} ELSE {Aam(aw, Al(Src), psw)}
    [] Insn.op = "div"  -> Div(aw, Al(Src), psw)
    [] Insn.op = "idiv" -> Idiv(aw, Al(Src), psw)

ExecDiv ==
  /\ Running /\ Insn.op \in {"aam", "div", "idiv"}
  /\ \E r \in Quotients : Set(r)

\* cpue_fault, before the registers are written: the BIOS knows no such call, so
\* that it sets the carry flag and returns 1 in AW, and the division is retried.
DivFault ==
  /\ Running /\ Insn.op \in {"aam", "div", "idiv"}
  /\ Quotients = {}
  /\ aw' = 1
  /\ psw' = [psw EXCEPT !.cy = TRUE]
  /\ faulted' = TRUE
  /\ UNCHANGED <<idiom, pc, bw, cw, from>>

Next ==
  \/ ExecAdd \/ ExecSub \/ ExecCmp \/ ExecIncDec \/ ExecNeg
  \/ ExecLogic \/ ExecTest \/ ExecShift \/ ExecAdjust
  \/ ExecAad \/ ExecMul \/ ExecDiv \/ DivFault

Spec == Init /\ [][Next]_vars

-----------------------------------------------------------------------------

TypeOK ==
  /\ idiom \in Idioms /\ pc \in 0..Len(idiom)
  /\ {aw, bw, cw} \subseteq Operand(16)
  /\ psw \in Psw
  /\ faulted \in BOOLEAN
  /\ from \in [aw : Operand(16), psw : Psw]

\* What an operand with a sign can be.
SignedOperand(w) == -2^(w - 1)..(2^(w - 1) - 1)

Ended(seq) == idiom = seq /\ pc = Len(seq)

\* Two bytes are added and subtracted as a word is: the carry goes from one byte
\* to the next, past INC and DEC, and the overflow flag is the word's, except
\* that it is the opposite of it when a carry meets a source byte of 7Fh.
WideSums ==
  LET word == IF idiom = AddBytes THEN from.aw + bw ELSE from.aw - bw
      signed == IF idiom = AddBytes THEN Signed(16, from.aw) + Signed(16, bw)
                                    ELSE Signed(16, from.aw) - Signed(16, bw)
      carried == IF idiom = AddBytes THEN Al(from.aw) + Al(bw) > 255 ELSE Al(from.aw) < Al(bw)
  IN  Ended(AddBytes) \/ Ended(SubBytes) =>
        /\ aw = Fit(16, word)
        /\ psw.cy = (word \notin Operand(16))
        /\ psw.s = Negative(16, aw)
        /\ (psw.v # (carried /\ Ah(bw) = 127)) = (signed \notin SignedOperand(16))

\* After CMP every conditional jump decides as its name says: above and below
\* on the unsigned operands, less and greater on the signed ones.
CmpJumps ==
  \A on \in Parts :
    LET a == Part(on, aw)
        b == Part(on, bw)
        sa == Signed(Width(on), a)
        sb == Signed(Width(on), b)
        j == Jumps(psw)
    IN  Ended(Cmp(on)) =>
          /\ j.jc = (a < b) /\ j.jnc = (a >= b) /\ j.jcz = (a <= b) /\ j.jncz = (a > b)
          /\ j.jl = (sa < sb) /\ j.jnl = (sa >= sb) /\ j.jle = (sa <= sb) /\ j.jnle = (sa > sb)
          /\ j.jz = (a = b) /\ j.jnz = (a # b)

\* After CMP of the low bytes and SBB of the high ones they decide on the words,
\* but for less and not less when a borrow meets a source byte of 7Fh.
WideCompare ==
  Ended(CmpBytes) =>
    LET borrow == Al(from.aw) < Al(bw)
        less == Signed(16, from.aw) < Signed(16, bw)
    IN  /\ Jumps(psw).jc = (from.aw < bw)
        /\ (Jumps(psw).jl # less) = (borrow /\ Ah(bw) = 127)

\* After a logical operation they compare its result with 0.
TestJumps ==
  \A op \in Tests, on \in Parts :
    LET a == Part(on, from.aw)
        b == Part(on, bw)
        w == Width(on)
        x == CASE op = "or" -> BitOr(w, a, b) [] op = "xor" -> BitXor(w, a, b) [] OTHER -> BitAnd(w, a, b)
        signed == Signed(w, x)
        j == Jumps(psw)
    IN  Ended(Test(op, on)) =>
          /\ Part(on, aw) = (IF op = "test" THEN a ELSE x)
          /\ j.jl = (signed < 0) /\ j.jle = (signed <= 0) /\ j.jnle = (signed > 0)
          /\ j.jz = (x = 0) /\ ~j.jc /\ ~j.jo

\* An addition or subtraction of packed digits is adjusted to the packed digits
\* of the sum or difference and its carry, one of single digits carries into AH,
\* and AAD undoes AAM.
Decimals ==
  LET packed(x) == x % 16 <= 9 /\ x \div 16 <= 9
      value(x) == 10 * (x \div 16) + (x % 16)
      a == Al(from.aw)
      b == Al(bw)
      al == Al(aw)
      c == AsInt(psw.cy)
  IN  /\ packed(a) /\ packed(b) =>
           /\ Ended(Decimal("add", "daa")) =>
                packed(al) /\ value(al) + 100 * c = value(a) + value(b)
           /\ Ended(Decimal("sub", "das")) =>
                packed(al) /\ value(al) - 100 * c = value(a) - value(b)
      /\ a <= 9 /\ b <= 9 =>
           /\ Ended(Decimal("add", "aaa")) =>
                al <= 9 /\ al + 10 * c = a + b /\ Ah(aw) = (Ah(from.aw) + c) % 256
           /\ Ended(Decimal("sub", "aas")) =>
                al <= 9 /\ al - 10 * c = a - b /\ Ah(aw) = (Ah(from.aw) - c) % 256
      /\ Ended(Digits) => aw = a

\* A word is negated and shifted by one through its bytes, and a rotation by any
\* count is undone by the opposite one by the same count.
WideShifts ==
  LET a == from.aw
  IN  /\ Ended(NegBytes) => aw = Fit(16, -a)
      /\ Ended(ShlBytes) => aw = Fit(16, 2 * a) /\ psw.cy = (2 * a > 65535)
      /\ Ended(ShrBytes) => aw = a \div 2 /\ psw.cy = (a % 2 = 1)
      /\ Ended(SarBytes) => Signed(16, aw) = Signed(16, a) \div 2 /\ psw.cy = (a % 2 = 1)
      /\ \A on \in Parts, r \in Rotations :
           Ended(RotateBack(r[1], r[2], on)) =>
             /\ aw = a
             /\ r[1] \in {"rcl", "rcr"} => psw.cy = from.psw.cy

\* A shift or rotation by CL, masked to five bits, does what one by one bit less
\* and then one by one bit do, to the operand, to S, Z and P and to the carry.
\* SAR by the width or more is the exception for S, Z and P, and ROL and ROR by
\* more than it for the carry.
ShiftsRepeat ==
  \A op \in Shiftings, on \in Parts :
    LET w == Width(on)
        n == cw % 32
        start == Result(Part(on, from.aw), from.psw)
        Before == IF n = 1 THEN {start} ELSE Shift(op, w, start.dst, n - 1, start.psw)
    IN  Ended(ShiftByCl(op, on)) /\ n > 0 =>
          \E b \in Before : \E r \in Shift(op, w, b.dst, 1, b.psw) :
            /\ Part(on, aw) = r.dst
            /\ (op \in {"rol", "ror"} /\ n > w) \/ psw.cy = r.psw.cy
            /\ (op = "sar" /\ n >= w) \/ <<psw.s, psw.z, psw.p>> = <<r.psw.s, r.psw.z, r.psw.p>>

\* A division gives quotient and remainder exactly, faults exactly when the
\* quotient does not fit (of IDIV: not even with its sign changed), and undoes
\* the multiplication.  After a fault the program goes on with the quotient and
\* the remainder of 1, and of a division by 0 it never gets rid.
Divisions ==
  LET b == Al(bw)
      x == Signed(16, from.aw)
      y == Signed(8, b)
      Abs(i) == IF i < 0 THEN -i ELSE i
      dividend == IF faulted THEN 1 ELSE from.aw
      rest == Signed(8, Ah(aw))
      Over == pc = Len(idiom)
  IN  /\ idiom \in {MulBack, ImulBack, DivBy("div"), DivBy("idiv"), Digits} /\ b = 0 => ~Over
      /\ faulted =>
           CASE idiom \in {MulBack, Digits} -> b = 0
             [] idiom = ImulBack -> b = 0 \/ Al(from.aw) = 128
             [] idiom = DivBy("div") -> from.aw >= 256 * b
             [] idiom = DivBy("idiv") -> Abs(x) >= 128 * Abs(y)
      /\ Over /\ ~faulted /\ idiom \in {MulBack, ImulBack} => aw = Al(from.aw)
      /\ Over /\ idiom = DivBy("div") => Al(aw) * b + Ah(aw) = dividend /\ Ah(aw) < b
      /\ Over /\ idiom = DivBy("idiv") =>
           /\ Signed(8, Al(aw)) * y + rest = Signed(16, dividend)
           /\ Abs(rest) < Abs(y) /\ (rest = 0 \/ (rest < 0) = Negative(16, dividend))
=============================================================================
