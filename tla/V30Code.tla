------------------------------- MODULE V30Code -------------------------------
(***************************************************************************)
(* The bytes of a program as the instruction decoder of the V30MZ sees     *)
(* them (src/emu/cpu/new): an override, named by its segment register; a   *)
(* repeat prefix; or an operation, whose operands are left out.  The code  *)
(* segment is a ring, because IP is a uint16: the byte at an offset is what*)
(* cpu_fetch8 delivers when IP is that offset (at the last one IP wraps    *)
(* first, and it reads the byte below the segment).                        *)
(***************************************************************************)
EXTENDS Integers

CONSTANTS
  Segs,       \* the segment registers, each also the byte that overrides with it
  CodeSize,   \* bytes of the code segment
  MaxCount,   \* bound: the largest repeat count in CW
  MaxPfx      \* bytes cpue_rep_pfxs fetches after a repeat prefix

ASSUME CodeAssumption ==
  /\ CodeSize \in Nat \ {0}
  /\ MaxCount \in Nat \ {0}
  /\ MaxPfx \in 1..CodeSize
  /\ Segs \intersect {"rep", "movs", "scas", "div", "load", "exit"} = {}

Offset == 0..(CodeSize - 1)
Count == 0..MaxCount

Rep == {"rep"}                        \* REPNZ and REPZ
Block == {"movs", "scas"}             \* the block operations
Compare == {"scas"}                   \* those that set the zero flag
Oper == Block \union {"div", "load", "exit"}   \* "load": any that may set CW
Prefix == Segs \union Rep
Byte == Prefix \union Oper

Default == "default"                  \* no override: segpfx is -1

At(ip, n) == (ip + n) % CodeSize

\* Slip: the loop tests the count after its body.
TimesOnce(op, count) == IF count > 0 THEN 1..count ELSE {1}

\* How often a block operation runs when it is repeated with count in CW: a
\* comparison may end it early, but not before it has run.
Times(op, count) == IF op \in Compare /\ count > 0 THEN 1..count ELSE {count}

\* What an instruction did: the operation, the override it ran under and how
\* often it ran.
Done == [op : Oper \union {"none", "fault"}, seg : Segs \union {Default}, times : Count]
Did(op, seg, times) == [op |-> op, seg |-> seg, times |-> times]
==============================================================================
