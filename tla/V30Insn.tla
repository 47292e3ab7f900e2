------------------------------- MODULE V30Insn -------------------------------
(***************************************************************************)
(* The instructions of the V30MZ as a program sees them, one step each,    *)
(* without the decoder that takes a step for every prefix                  *)
(* (src/emu/cpu/new).  An instruction is a string of prefixes and the      *)
(* operation after it.  It runs under the last override in the string, and *)
(* a block operation is repeated if the last repeat prefix is close enough *)
(* to it.  An operation that faults has no effect, and the program resumes *)
(* at the instruction's first byte.                                        *)
(*                                                                         *)
(* There is one exception to that: after an instruction repeated under an  *)
(* override that follows the repeat prefix, a fault of the next one        *)
(* resumes where a fault of the repeated one would have.                   *)
(***************************************************************************)
EXTENDS V30Code

VARIABLES
  code,       \* the code segment
  ip,         \* the first byte of the next instruction
  cw,         \* the repeat count
  resume,     \* where the program resumes if the next instruction faults
  done,       \* what the last instruction did
  live        \* the program has not exited

insnVars == <<code, ip, cw, resume, done, live>>

\* The instruction at ip has n prefixes.
Prefixed(n) ==
  /\ \A i \in 0..(n - 1) : code[At(ip, i)] \in Prefix
  /\ code[At(ip, n)] \in Oper

\* Prefix i is the last of those in the set S among the first n.
LastOf(S, n, i) ==
  /\ i \in 0..(n - 1)
  /\ code[At(ip, i)] \in S
  /\ \A j \in (i + 1)..(n - 1) : code[At(ip, j)] \notin S

InForce(n, seg) ==
  \/ \E i \in Offset : LastOf(Segs, n, i) /\ seg = code[At(ip, i)]
  \/ seg = Default /\ \A i \in 0..(n - 1) : code[At(ip, i)] \notin Segs

\* The operation is repeated, with `inner` overrides after the repeat prefix.
Repeated(n, inner) ==
  /\ code[At(ip, n)] \in Block
  /\ inner \in 0..(MaxPfx - 1)
  /\ LastOf(Rep, n, n - 1 - inner)

-----------------------------------------------------------------------------

InsnInit ==
  /\ code \in [Offset -> Byte]
  /\ ip = 0
  /\ cw \in Count
  /\ resume = 0
  /\ done = Did("none", Default, 0)
  /\ live = TRUE

\* The instruction of n prefixes ran `times` times under the override seg.
Ran(n, seg, times) ==
  /\ ip' = At(ip, n + 1)
  /\ done' = Did(code[At(ip, n)], seg, times)
  /\ UNCHANGED code

RepeatInsn(n, seg) ==
  \E inner \in Offset, k \in Times(code[At(ip, n)], cw) :
    /\ Repeated(n, inner)
    /\ Ran(n, seg, k)
    /\ cw' = cw - k
    /\ resume' = IF inner > 0 THEN resume ELSE ip'
    /\ UNCHANGED live

PlainInsn(n, seg) ==
  /\ \A inner \in Offset : ~Repeated(n, inner)
  /\ Ran(n, seg, 1)
  /\ cw' \in IF code[At(ip, n)] = "load" THEN Count ELSE {cw}
  /\ resume' = ip'
  /\ live' = (code[At(ip, n)] # "exit")

FaultInsn(n) ==
  /\ code[At(ip, n)] = "div"
  /\ ip' = resume
  /\ resume' = ip'
  /\ done' = Did("fault", Default, 0)
  /\ UNCHANGED <<code, cw, live>>

Insn(n) ==
  /\ live
  /\ Prefixed(n)
  /\ FaultInsn(n) \/ \E seg \in Segs \union {Default} :
                       InForce(n, seg) /\ (RepeatInsn(n, seg) \/ PlainInsn(n, seg))

InsnNext == \E n \in Offset : Insn(n)

InsnSpec == InsnInit /\ [][InsnNext]_insnVars
==============================================================================
