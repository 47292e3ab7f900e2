------------------------------- MODULE V30Psw -------------------------------
(***************************************************************************)
(* The flags of the V30MZ and the word they are pushed and popped as       *)
(* (src/emu/cpu/new/v30mz.c).  A state of the flags is the set of those    *)
(* that are TRUE.                                                          *)
(***************************************************************************)
EXTENDS Integers

Word == 0..(2^16 - 1)

\* PSW as the set of the flags that are TRUE, and the bits of the flags word.
PswBit ==
  [cy |-> 1, p |-> 4, ac |-> 16, z |-> 64, s |-> 128,
   brk |-> 256, ie |-> 512, dir |-> 1024, v |-> 2048, md |-> 32768]
Flag == DOMAIN PswBit

\* cpu_get_psw and cpu_set_psw.
GetPsw(psw) ==
  LET bit(f) == IF f \in psw THEN PswBit[f] ELSE 0
  IN  bit("cy") + bit("p") + bit("ac") + bit("z") + bit("s")
        + bit("brk") + bit("ie") + bit("dir") + bit("v") + bit("md") + 28674
SetPsw(w) == { f \in Flag : (w \div PswBit[f]) % 2 = 1 }
=============================================================================
