------------------------------ MODULE FileCall ------------------------------
(***************************************************************************)
(* The vocabulary of the file calls of INT 21h (AH=3Ch..40h, 42h, AX=4300h *)
(* and 4400h): the handles, the host's files and what a call returns.      *)
(***************************************************************************)
EXTENDS Integers

CONSTANTS
  MaxFiles,   \* handles there are
  Files,      \* files of the host, as the program's names resolve to them
  MaxSize,    \* bound: no file grows, and no position moves, beyond this
  MaxCount    \* bound: the most bytes a call transfers

ASSUME FileAssumption ==
  /\ MaxFiles \in Nat /\ MaxFiles > 3
  /\ MaxSize \in Nat
  /\ MaxCount \in Nat

Handle == 0..(MaxFiles - 1)
Std == {0, 1, 2}              \* standard input, output and error
AnyHandle == 0..MaxFiles      \* MaxFiles stands for every number too large

Extent == 0..MaxSize          \* sizes of files and positions in them
Count == 0..MaxCount          \* bytes to transfer
Absent == -1                  \* in place of the size of a file there is not

\* What fopen was asked for: to read; to write an empty file; to write an
\* empty file and read it.
FMode == {"rb", "wb", "wb+"}

\* The error code in AX if the carry is set, the handle the call named, and
\* the handle, count or position it returned (0 if it returns none).
Answer ==
  [err : {"none", "no_handles", "not_found", "invalid"},
   handle : AnyHandle,
   val : Nat]
=============================================================================
