------------------------------- MODULE V30Isa -------------------------------
(***************************************************************************)
(* What an instruction of the V30MZ does to the machine s it starts on:    *)
(* the abstract specification of V30Exec.                                  *)
(*                                                                         *)
(* The bytes of an instruction are at fixed positions -- opcode, ModR/M,   *)
(* displacement, immediate -- and its operands are places: a register, a   *)
(* segment register or a piece of memory.  The places, and the values read *)
(* from them, are those of s: an instruction assigns to all of its places  *)
(* at once, and nothing else changes.                                      *)
(***************************************************************************)
EXTENDS V30Mem, Sequences, SequencesExt

At(s, i) == Byte(s, SegAddr(s, CS, s.ip + i))
AtWord(s, i) == Peek(s, 16, SegAddr(s, CS, s.ip + i))

-----------------------------------------------------------------------------
(* The format of an instruction.                                           *)

HasModrm(op) ==
  \/ op < \h40 /\ op % 8 < 4
  \/ op \in {\h62, \h69, \h6B} \union \h80..\h8F
  \/ op \in {\hC0, \hC1} \union \hC4..\hC7 \union \hD0..\hD3 \union {\hF6, \hF7, \hFE, \hFF}

DispLen(mod, rm) == CASE mod = 1 -> 1 [] mod = 2 \/ (mod = 0 /\ rm = 6) -> 2 [] OTHER -> 0

\* n is the operation of a group.
ImmLen(op, n) ==
  CASE (op < \h40 /\ op % 8 = 5) \/ op \in {\h68, \h69, \h81, \hA9, \hC2, \hC7, \hCA, \hE8, \hE9} -> 2
    [] op \in \hA0..\hA3 \union \hB8..\hBF \/ (op = \hF7 /\ n = 0) -> 2
    [] (op < \h40 /\ op % 8 = 4) \/ op \in {\h6A, \h6B, \h80, \h82, \h83, \hA8} -> 1
    [] op \in \h70..\h7F \union \hB0..\hB7 \union {\hC0, \hC1, \hC6, \hCD, \hD4, \hD5} -> 1
    [] op \in \hE0..\hE7 \union {\hEB} \/ (op = \hF6 /\ n = 0) -> 1
    [] op = \hC8 -> 3
    [] op \in {\h9A, \hEA} -> 4
    [] OTHER -> 0

\* The registers an address is the sum of.
Bases == <<{BW, IX}, {BW, IY}, {BP, IX}, {BP, IY}, {IX}, {IY}, {BP}, {BW}>>

Decode(s) ==
  LET op == At(s, 0)
      m == At(s, 1)
      mod == m \div 64
      reg == (m \div 8) % 8
      rm == m % 8
      w == IF op % 2 = 1 \/ op \in {\h62, \h8C, \h8E, \hC4} THEN 16 ELSE 8
      disp == DispLen(mod, rm)
      imm == IF HasModrm(op) THEN 2 + disp ELSE 1
      base == IF mod = 0 /\ rm = 6 THEN {} ELSE Bases[rm + 1]
  IN  [op |-> op, mod |-> mod, reg |-> reg, rm |-> rm, w |-> w,
       imm |-> imm, next |-> Fit(16, s.ip + imm + ImmLen(op, reg)),
       seg |-> IF ~s.pfx_reset /\ s.segpfx # None THEN s.segpfx ELSE IF BP \in base THEN SS ELSE DS,
       off |-> Fit(16, MapThenSumSet(LAMBDA r : s.reg[r], base) +
                 CASE disp = 0 -> 0 [] disp = 1 -> Signed(8, At(s, 2)) [] disp = 2 -> AtWord(s, 2))]

-----------------------------------------------------------------------------
(* Places, and assignments to them.                                        *)

InReg(w, i) == <<"reg", w, i>>
InSeg(i) == <<"sreg", 16, i>>
InMem(w, a) == <<"mem", w, a>>

\* Bytes 0 to 3 are the low halves of AW, CW, DW and BW, 4 to 7 their high ones.
Half(i) == 256^(i \div 4)

Value(s, p) ==
  CASE p[1] = "reg" /\ p[2] = 16 -> s.reg[p[3]]
    [] p[1] = "reg" /\ p[2] = 8 -> (s.reg[p[3] % 4] \div Half(p[3])) % 256
    [] p[1] = "sreg" -> s.sreg[p[3]]
    [] p[1] = "mem" -> Peek(s, p[2], p[3])

Set(s, p, v) ==
  CASE p[1] = "reg" /\ p[2] = 16 -> [s EXCEPT !.reg[p[3]] = v]
    [] p[1] = "reg" /\ p[2] = 8 -> [s EXCEPT !.reg[p[3] % 4] = @ + (v - Value(s, p)) * Half(p[3])]
    [] p[1] = "sreg" -> [s EXCEPT !.sreg[p[3]] = v]
    [] p[1] = "mem" -> Poke(s, p[2], p[3], v)

\* The operands that ModR/M names, and the one after offset n.
RmAt(s, d, n) == IF d.mod = 3 THEN InReg(d.w, d.rm) ELSE InMem(d.w, SegAddr(s, d.seg, d.off + n))
Rm(s, d) == RmAt(s, d, 0)
RegOp(d) == InReg(d.w, d.reg)
Acc(d) == InReg(d.w, AW)

\* Of a byte or word, and of a byte widened to a word.
ImmOf(s, d) == Peek(s, d.w, SegAddr(s, CS, s.ip + d.imm))
ImmWiden(s, d) == Fit(16, Signed(8, At(s, d.imm)))

\* The address in an instruction, in DS unless overridden.
Direct(s, d) ==
  LET seg == IF ~s.pfx_reset /\ s.segpfx # None THEN s.segpfx ELSE DS
  IN  InMem(d.w, SegAddr(s, seg, AtWord(s, 1)))

StackTop(s) == InMem(16, SegAddr(s, SS, s.reg[SP]))
Below(s, n) == Fit(16, s.reg[SP] - 2 * n)

\* An effect: the assignments, one after the other where places overlap, with
\* the values of s; the flags and the next instruction.
Effect(writes, psw, ip) == [writes |-> writes, psw |-> psw, ip |-> ip]
Done(s, e) ==
  LET m == FoldLeft(LAMBDA t, x : Set(t, x[1], x[2]), s, e.writes)
  IN  [m EXCEPT !.psw = e.psw, !.ip = e.ip]

\* n words are pushed, the first at the higher address.
Pushes(s, words) ==
  [k \in 1..Len(words) |-> <<InMem(16, SegAddr(s, SS, Below(s, k))), words[k]>>]
    \o << <<InReg(16, SP), Below(s, Len(words))>> >>

-----------------------------------------------------------------------------
(* Moves: the flags and the flow of control are left alone.                *)

MoveOps ==
  \h50..\h5F \union \h86..\h8F \union \h91..\h97 \union \hA0..\hA3 \union \hB0..\hBF
    \union \hC4..\hC7 \union {\h06, \h07, \h0E, \h16, \h17, \h1E, \h1F, \h68, \h6A}

Moved(s, d) ==
  LET op == d.op
      seg == (op \div 8) % 4
      Popped(p) == << <<InReg(16, SP), Below(s, -1)>>, <<p, Value(s, StackTop(s))>> >>
      Swapped(p, q) == << <<p, Value(s, q)>>, <<q, Value(s, p)>> >>
  IN  CASE op \in {\h88, \h89} -> << <<Rm(s, d), Value(s, RegOp(d))>> >>
        [] op \in {\h8A, \h8B} -> << <<RegOp(d), Value(s, Rm(s, d))>> >>
        [] op = \h8C -> << <<Rm(s, d), s.sreg[d.reg % 4]>> >>
        [] op = \h8D -> << <<RegOp(d), d.off>> >>
        [] op = \h8E -> << <<InSeg(d.reg % 4), Value(s, Rm(s, d))>> >>
        [] op \in {\hC6, \hC7} -> << <<Rm(s, d), ImmOf(s, d)>> >>
        [] op \in \hB0..\hB7 -> << <<InReg(8, op % 8), At(s, 1)>> >>
        [] op \in \hB8..\hBF -> << <<InReg(16, op % 8), AtWord(s, 1)>> >>
        [] op \in {\hA0, \hA1} -> << <<Acc(d), Value(s, Direct(s, d))>> >>
        [] op \in {\hA2, \hA3} -> << <<Direct(s, d), Value(s, Acc(d))>> >>
        [] op \in {\h86, \h87} -> Swapped(Rm(s, d), RegOp(d))
        [] op \in \h91..\h97 -> Swapped(InReg(16, AW), InReg(16, op % 8))
        [] op \in {\hC4, \hC5} ->
             << <<RegOp(d), Value(s, Rm(s, d))>>,
                <<InSeg(IF op = \hC4 THEN ES ELSE DS), Value(s, RmAt(s, d, 2))>> >>
        [] op \in \h50..\h57 -> Pushes(s, <<s.reg[op % 8]>>)
        [] op \in {\h06, \h0E, \h16, \h1E} -> Pushes(s, <<s.sreg[seg]>>)
        [] op = \h68 -> Pushes(s, <<AtWord(s, 1)>>)
        [] op = \h6A -> Pushes(s, <<ImmWiden(s, d)>>)
        [] op \in \h58..\h5F -> Popped(InReg(16, op % 8))
        [] op \in {\h07, \h17, \h1F} -> Popped(InSeg(seg))
        [] op = \h8F -> Popped(Rm(s, d))

-----------------------------------------------------------------------------
(* Arithmetic, and its faults.                                             *)

Binary(d) == d.op < \h40 /\ d.op % 8 < 6
Group(d, ops, ns) == d.op \in ops /\ d.reg \in ns

\* Two operands, of which the first is the destination.
Operands(s, d) ==
  LET form == d.op % 8
      m == <<Rm(s, d), Value(s, Rm(s, d))>>
      r == <<RegOp(d), Value(s, RegOp(d))>>
  IN  CASE (d.op < \h40 /\ form < 2) \/ d.op \in {\h84, \h85} -> m \o <<r[2]>>
        [] d.op < \h40 /\ form \in {2, 3} -> r \o <<m[2]>>
        [] (d.op < \h40 /\ form \in {4, 5}) \/ d.op \in {\hA8, \hA9} ->
             <<Acc(d), Value(s, Acc(d)), ImmOf(s, d)>>
        [] d.op \in {\h82, \h83} -> m \o <<Fit(d.w, ImmWiden(s, d))>>
        [] OTHER -> m \o <<ImmOf(s, d)>>

ShiftOps == {\hC0, \hC1} \union \hD0..\hD3
Count(s, d) ==
  CASE d.op < \hD0 -> At(s, d.imm) [] d.op \in {\hD0, \hD1} -> 1 [] OTHER -> Al(s.reg[CW])

ComputeOps(d) ==
  \/ Binary(d) \/ d.op \in \h80..\h85 \union {\hA8, \hA9, \h69, \h6B} \union ShiftOps
  \/ Group(d, {\hF6, \hF7}, 0..7 \ {1}) \/ Group(d, {\hFE, \hFF}, {0, 1})

\* What is assigned, and the flags: none if the instruction faults.
Computed(s, d) ==
  LET o == Operands(s, d)
      v == Value(s, Rm(s, d))
      aw == s.reg[AW]
      dw == s.reg[DW]
      One(p, r) == [writes |-> << <<p, r.dst>> >>, psw |-> r.psw]
      Only(r) == [writes |-> << >>, psw |-> r.psw]
      Two(r) == [writes |-> << <<InReg(16, AW), r.lo>>, <<InReg(16, DW), r.hi>> >>, psw |-> r.psw]
      k == IF d.op < \h40 THEN d.op \div 8 ELSE d.reg
      alu == Alu(k, d.w, o[2], o[3], s.psw)
      Whole(r) == One(InReg(16, AW), r)
  IN  CASE Binary(d) \/ d.op \in \h80..\h83 -> {IF k = 7 THEN Only(alu) ELSE One(o[1], alu)}
        [] d.op \in {\h84, \h85, \hA8, \hA9} \/ Group(d, {\hF6, \hF7}, {0}) ->
             {Only(Alu(4, d.w, o[2], o[3], s.psw))}
        [] d.op \in {\h69, \h6B} ->
             {One(RegOp(d), ImulFit(v, IF d.op = \h69 THEN ImmOf(s, d) ELSE ImmWiden(s, d), s.psw))}
        [] d.op \in ShiftOps ->
             {One(Rm(s, d), r) : r \in Shift(ShiftName[d.reg + 1], d.w, v, Count(s, d), s.psw)}
        [] Group(d, {\hF6, \hF7}, {2}) -> {One(Rm(s, d), Result(Fit(d.w, -v - 1), s.psw))}
        [] Group(d, {\hF6, \hF7}, {3}) -> {One(Rm(s, d), Neg(d.w, v, s.psw))}
        [] Group(d, {\hF6}, {4}) -> {Whole(Mul(aw, v, s.psw))}
        [] Group(d, {\hF6}, {5}) -> {Whole(Imul(aw, v, s.psw))}
        [] Group(d, {\hF6}, {6}) -> {Whole(r) : r \in Div(aw, v, s.psw)}
        [] Group(d, {\hF6}, {7}) -> {Whole(r) : r \in Idiv(aw, v, s.psw)}
        [] Group(d, {\hF7}, {4}) -> {Two(MulWord(aw, v, s.psw))}
        [] Group(d, {\hF7}, {5}) -> {Two(ImulWord(aw, v, s.psw))}
        [] Group(d, {\hF7}, {6}) -> {Two(r) : r \in DivWord(dw, aw, v, s.psw)}
        [] Group(d, {\hF7}, {7}) -> {Two(r) : r \in IdivWord(dw, aw, v, s.psw)}
        [] Group(d, {\hFE, \hFF}, {0}) -> {One(Rm(s, d), Inc(d.w, v, s.psw))}
        [] Group(d, {\hFE, \hFF}, {1}) -> {One(Rm(s, d), Dec(d.w, v, s.psw))}

\* A fault is a call of the BIOS, which fails with the carry flag set; then the
\* program is at the first byte of the faulting instruction, prefixes included.
Faulted(s) ==
  Effect(<< <<InReg(16, AW), 1>> >>, [s.psw EXCEPT !.cy = TRUE],
         IF s.was_prefix THEN s.fault_ip ELSE s.ip)

-----------------------------------------------------------------------------
(* Transfers of control.                                                   *)

TransferOps(d) ==
  \/ d.op \in \h70..\h7F \union \hE0..\hE3 \union \hE8..\hEB \union {\h9A, \hC2, \hC3, \hCA, \hCB}
  \/ Group(d, {\hFF}, 2..6)

Transferred(s, d) ==
  LET by == Fit(16, d.next + ImmWiden(s, d))
      cw == Fit(16, s.reg[CW] - 1)
      v == Value(s, Rm(s, d))
      If(cond) == IF cond THEN by ELSE d.next
      Counting(cond) == Effect(<< <<InReg(16, CW), cw>> >>, s.psw, If(cond /\ cw # 0))
      To(writes, ip) == Effect(writes, s.psw, ip)
      InCs(seg) == << <<InSeg(CS), seg>> >>
      far == <<s.sreg[CS], d.next>>
      Upto(n) == << <<InReg(16, SP), Fit(16, Below(s, -n) + IF d.op % 2 = 0 THEN AtWord(s, 1) ELSE 0)>> >>
      Popped(n) == Value(s, InMem(16, SegAddr(s, SS, Below(s, -n))))
  IN  CASE d.op \in \h70..\h7F -> To(<< >>, If(Jumps(s.psw)[Conditions[d.op - \h6F]]))
        [] d.op = \hE0 -> Counting(~s.psw.z)
        [] d.op = \hE1 -> Counting(s.psw.z)
        [] d.op = \hE2 -> Counting(TRUE)
        [] d.op = \hE3 -> To(<< >>, If(s.reg[CW] = 0))
        [] d.op = \hEB -> To(<< >>, by)
        [] d.op = \hE9 -> To(<< >>, Fit(16, d.next + AtWord(s, 1)))
        [] d.op = \hE8 -> To(Pushes(s, <<d.next>>), Fit(16, d.next + AtWord(s, 1)))
        [] d.op = \hEA -> To(InCs(AtWord(s, 3)), AtWord(s, 1))
        [] d.op = \h9A -> To(Pushes(s, far) \o InCs(AtWord(s, 3)), AtWord(s, 1))
        [] d.op \in {\hC2, \hC3} -> To(Upto(1), Popped(0))
        [] d.op \in {\hCA, \hCB} -> To(Upto(2) \o InCs(Popped(1)), Popped(0))
        [] d.reg = 2 -> To(Pushes(s, <<d.next>>), v)
        [] d.reg = 3 -> To(Pushes(s, far) \o InCs(Value(s, RmAt(s, d, 2))), v)
        [] d.reg = 4 -> To(<< >>, v)
        [] d.reg = 5 -> To(InCs(Value(s, RmAt(s, d, 2))), v)
        [] d.reg = 6 -> To(Pushes(s, <<v>>), d.next)

-----------------------------------------------------------------------------

\* What an instruction of one of these kinds may do to s.
Effects(s, d) ==
  CASE d.op \in MoveOps -> {Effect(Moved(s, d), s.psw, d.next)}
    [] TransferOps(d) -> {Transferred(s, d)}
    [] ComputeOps(d) ->
         IF Computed(s, d) = {} THEN {Faulted(s)}
         ELSE {Effect(e.writes, e.psw, d.next) : e \in Computed(s, d)}
    [] OTHER -> {}

\* Encodings the V30MZ gives no meaning to: an address or a far one in a
\* register, and the coprocessor's instructions, of which the source steps over
\* the ModR/M byte alone.  Opcode 82h is the one that the source gives another
\* carry flag than its twin 80h when its immediate is negative.
Undefined(s, d) ==
  \/ d.mod = 3 /\ (d.op \in {\h8D, \hC4, \hC5, \h62} \/ Group(d, {\hFF}, {3, 5}))
  \/ d.op \in \hD8..\hDF
  \/ d.op = \h82 /\ At(s, d.imm) >= 128
  \/ Group(d, {\hFE}, 2..7) \/ Group(d, {\hFF}, {7}) \/ Group(d, {\hF6, \hF7}, {1})

\* Instructions whose operands are implied: only their length is of interest.
Implied(d) == d.op \notin {\hF2, \hF3, \hCF}
Continuations(s, d) == IF d.op = \hD4 /\ At(s, 1) = 0 THEN {Faulted(s).ip} ELSE {d.next}

Visible(s) == [reg |-> s.reg, sreg |-> s.sreg, ip |-> s.ip, psw |-> s.psw, mem |-> s.mem]

Implements(s, t) ==
  LET d == Decode(s)
      effects == Effects(s, d)
  IN  \/ Undefined(s, d)
      \/ effects # {} /\ \E e \in effects : Visible(t) = Visible(Done(s, e))
      \/ effects = {} /\ (Implied(d) => t.ip \in Continuations(s, d))
===============================================================================
