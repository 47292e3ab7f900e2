------------------------------- MODULE MemCall -------------------------------
(***************************************************************************)
(* The calls a program makes on conventional memory (INT 21h AH=48h, 49h   *)
(* and 4Ah) and what comes back: the prototypes of src/emu/bios/mem.h.     *)
(***************************************************************************)
EXTENDS Integers

CONSTANT Total    \* paragraphs of the arena, and the number of uint16 values

Para == 0..(Total - 1)        \* uint16 para
Size == 0..(Total - 1)        \* uint16 size

NoReq == [op |-> "none", size |-> 0, para |-> 0]
AllocReq(n) == [op |-> "alloc", size |-> n, para |-> 0]
FreeReq(p) == [op |-> "free", size |-> 0, para |-> p]
ResizeReq(n, p) == [op |-> "resize", size |-> n, para |-> p]

Calls ==
  { AllocReq(n) : n \in Size }
    \union { FreeReq(p) : p \in Para }
    \union { ResizeReq(n, p) : n \in Size, p \in Para }

Request == [op : {"none", "alloc", "free", "resize"}, size : Size, para : Para]

\* DOSERR_NONE, DOSERR_OUT_OF_MEMORY or DOSERR_MBA_INVALID, and the *ptr out
\* parameter, which only a successful allocation sets.
Reply == [err : {"none", "oom", "mba"}, ptr : Para]
=============================================================================
