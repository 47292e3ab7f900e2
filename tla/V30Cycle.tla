------------------------------ MODULE V30Cycle ------------------------------
(***************************************************************************)
(* The instruction cycle of the V30MZ: cpu_update and cpu_cycle of         *)
(* src/emu/cpu/new/v30mz.c, the prefixes, the repeated block operations    *)
(* and the faults of exec.inc.c, and main()'s loop around them.  One call  *)
(* of cpu_cycle is one step: it executes one byte, except that a repeat    *)
(* prefix fetches the overrides and the block operation after it itself.   *)
(*                                                                         *)
(* Every interrupt has a handler of the BIOS, which returns to the cycle;  *)
(* no interrupt is ever requested from outside, so that irq and            *)
(* irq_disable have no effect.  LOCK and HLT are operations like others.   *)
(***************************************************************************)
EXTENDS V30Code

VARIABLES
  code,       \* the code segment
  ip, cw,     \* the registers
  segpfx,     \* the override in force, or Default
  pfx_reset,  \* it ends with this instruction
  was_prefix, \* the last cycle executed a prefix
  fault_ip,   \* where a fault resumes the program
  bus_owned,  \* someone has asked the CPU to stop
  running,    \* main()'s loop goes on
  pc,         \* where main() is: "run" or "returned"
  first,      \* history: the first byte of the instruction in progress
  done        \* history: what the last instruction did

cpuVars == <<code, ip, cw, segpfx, pfx_reset, was_prefix, fault_ip>>
vars == <<cpuVars, bus_owned, running, pc, first, done>>

Init ==
  /\ code \in [Offset -> Byte]
  /\ ip = 0
  /\ cw \in Count
  /\ segpfx = Default
  /\ pfx_reset = TRUE
  /\ was_prefix = FALSE
  /\ fault_ip = 0
  /\ bus_owned = 0
  /\ running = TRUE
  /\ pc = "run"
  /\ first = 0
  /\ done = Did("none", Default, 0)

-----------------------------------------------------------------------------
(* The beginning of cpu_cycle.                                             *)

\* cpu_update has not been asked to stop.
Cycling == pc = "run" /\ bus_owned = 0

InForce == IF pfx_reset THEN Default ELSE segpfx

\* Slip: a prefix moves it as well.
FaultIpAlways == ip

FaultIp == IF was_prefix THEN fault_ip ELSE ip

\* The cycle executed a prefix, and the instruction goes on at byte next.
InPrefix(next, seg) ==
  /\ ip' = next
  /\ segpfx' = seg
  /\ pfx_reset' = FALSE
  /\ was_prefix' = TRUE
  /\ fault_ip' = FaultIp
  /\ UNCHANGED <<code, cw, bus_owned, running, pc, first, done>>

\* The cycle finished an instruction, and the next one is at byte next.
Finished(next, seg, did) ==
  /\ ip' = next
  /\ first' = next
  /\ segpfx' = seg
  /\ pfx_reset' = TRUE
  /\ fault_ip' = FaultIp
  /\ done' = did
  /\ UNCHANGED <<code, pc>>

-----------------------------------------------------------------------------

\* cpue_i_segpfx.
Override ==
  /\ Cycling
  /\ code[ip] \in Segs
  /\ InPrefix(At(ip, 1), code[ip])

\* Any operation that is not repeated.
Plain ==
  /\ Cycling
  /\ code[ip] \in Oper \ {"exit"}
  /\ Finished(At(ip, 1), InForce, Did(code[ip], InForce, 1))
  /\ was_prefix' = FALSE
  /\ cw' \in IF code[ip] = "load" THEN Count ELSE {cw}
  /\ UNCHANGED <<bus_owned, running>>

\* cpue_fault: the handler returns to the byte at fault_ip.
Fault ==
  /\ Cycling
  /\ code[ip] = "div"
  /\ Finished(FaultIp, InForce, Did("fault", Default, 0))
  /\ was_prefix' = FALSE
  /\ UNCHANGED <<cw, bus_owned, running>>

\* INT 21h with AH=4Ch: prv_int21_4Cxx.
ExitCall ==
  /\ Cycling
  /\ code[ip] = "exit"
  /\ Finished(At(ip, 1), InForce, Did("exit", InForce, 1))
  /\ was_prefix' = FALSE
  /\ running' = FALSE
  /\ bus_owned' = bus_owned + 1
  /\ UNCHANGED cw

-----------------------------------------------------------------------------
(* cpue_i_rep and cpue_rep_pfxs.                                           *)

\* n overrides follow the repeat prefix, or the first MaxPfx bytes are.
Inner(n) ==
  /\ n \in 0..MaxPfx
  /\ \A i \in 1..n : code[At(ip, i)] \in Segs
  /\ n < MaxPfx => code[At(ip, n + 1)] \notin Segs

\* The override in force after them.
InnerSeg(n) == IF n > 0 THEN code[At(ip, n)] ELSE InForce

\* The byte cpue_rep_pfxs returns is a block operation.
Valid(n) == n < MaxPfx /\ code[At(ip, n + 1)] \in Block

\* Slip: the decoder goes back to the repeat prefix.
RepInvalidStuck(n) ==
  /\ Cycling
  /\ code[ip] \in Rep
  /\ Inner(n) /\ ~Valid(n)
  /\ InPrefix(At(ip, n), InnerSeg(n))

\* The last byte fetched is executed as if no repeat prefix had been there.
RepInvalid(n) ==
  /\ Cycling
  /\ code[ip] \in Rep
  /\ Inner(n) /\ ~Valid(n)
  /\ InPrefix(At(ip, IF n < MaxPfx THEN n + 1 ELSE n), InnerSeg(n))

\* was_prefix stays as the overrides have left it.
RepBlock(n) ==
  /\ Cycling
  /\ code[ip] \in Rep
  /\ Inner(n) /\ Valid(n)
  /\ LET op == code[At(ip, n + 1)] IN
     \E k \in Times(op, cw) :
       /\ cw' = cw - k
       /\ Finished(At(ip, n + 2), InnerSeg(n), Did(op, InnerSeg(n), k))
  /\ was_prefix' = (n > 0)
  /\ UNCHANGED <<bus_owned, running>>

-----------------------------------------------------------------------------

\* cpu_update has returned, and main() leaves its loop.
Return ==
  /\ pc = "run"
  /\ bus_owned > 0
  /\ ~running
  /\ pc' = "returned"
  /\ UNCHANGED <<cpuVars, bus_owned, running, first, done>>

Cycle ==
  \/ Override
  \/ Plain
  \/ Fault
  \/ ExitCall
  \/ \E n \in 0..MaxPfx : RepInvalid(n) \/ RepBlock(n)

Next == Cycle \/ Return

\* The emulator has one thread, and nothing in it waits.
Spec == Init /\ [][Next]_vars /\ WF_vars(Next)

-----------------------------------------------------------------------------

TypeOK ==
  /\ code \in [Offset -> Byte]
  /\ {ip, fault_ip, first} \subseteq Offset
  /\ cw \in Count
  /\ segpfx \in Segs \union {Default}
  /\ {pfx_reset, was_prefix, running} \subseteq BOOLEAN
  /\ bus_owned \in {0, 1}
  /\ pc \in {"run", "returned"}
  /\ done \in Done

Insns == INSTANCE V30Insn WITH
  ip <- first,
  resume <- IF was_prefix THEN fault_ip ELSE ip,
  live <- running

\* However an instruction's prefixes are ordered, dropped or too many, the
\* cycles it takes do together what V30Insn says of it in one step.
ImplementsInsn == Insns!InsnSpec

\* The program is not a ring of prefixes.
Bounded == \E a \in Offset : code[a] \in Oper

\* In the middle of an instruction, the decoder has just passed prefixes of it,
\* and nothing but them, and holds the last override among them.  All that
\* cpue_rep_pfxs, which reads ahead, may leave of the bytes it gives back is an
\* override that the next cycle will meet again.
PrefixesPending ==
  (Bounded /\ ~pfx_reset) =>
    \E n \in 1..(CodeSize - 1) :
      /\ ip = At(first, n)
      /\ \A i \in 0..(n - 1) : code[At(first, i)] \in Prefix
      /\ Insns!InForce(n, segpfx) \/ segpfx = code[ip]

\* No string of prefixes holds the decoder up: it always comes to the end of an
\* instruction, with main() still calling it or not.
Completes == Bounded => []<>pfx_reset
==============================================================================
