------------------------------- MODULE V30Regs -------------------------------
(***************************************************************************)
(* The registers of the V30MZ that its stack instructions save and restore *)
(* (src/emu/cpu/new/v30mz.h).                                              *)
(***************************************************************************)
EXTENDS V30Psw

CONSTANTS
  Values,     \* the words a program pushes and keeps in local variables
  Files,      \* what the program's computing makes of registers and flags
  Targets,    \* where it calls procedures: offsets
  Code,       \* its code segments
  MaxLocals,  \* bound: the local words of a frame
  MaxArgs     \* bound: the arguments a procedure removes when it returns

Gpr == {"aw", "cw", "dw", "bw", "ix", "iy"}
Regs == [Gpr -> Word]

ASSUME RegsAssumption ==
  /\ Values \subseteq Word
  /\ Files \subseteq [regs : Regs, psw : SUBSET Flag]
  /\ Targets \subseteq Word /\ Code \subseteq Word
  /\ MaxLocals \in Nat /\ MaxArgs \in Nat
==============================================================================
