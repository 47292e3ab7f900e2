------------------------------- MODULE DosHeap -------------------------------
(***************************************************************************)
(* What the conventional-memory calls of dosexec (INT 21h AH=48h, 49h and  *)
(* 4Ah) promise to the program that makes them, without the node list that *)
(* implements them (src/emu/bios/mem.c).  The heap is a set of blocks that *)
(* never share a paragraph; a call may touch only the block it names, and  *)
(* a call that is refused touches nothing.                                 *)
(*                                                                         *)
(* A request for no paragraphs succeeds in the code, so a handle may name  *)
(* an empty block.  Nothing keeps an empty handle apart from a block that  *)
(* starts at the same paragraph, and the promise says no more than that.   *)
(***************************************************************************)
EXTENDS MemCall

CONSTANT Internal    \* paragraphs bios_init takes before any program runs

VARIABLES
  live,       \* the non-empty blocks that are allocated
  empty,      \* the paragraphs some empty allocated block has as its handle
  req,        \* the call in progress
  ret         \* what the last call to return left in the registers

heapVars == <<live, empty, req, ret>>

-----------------------------------------------------------------------------

Apart(a, b) == a.para + a.size <= b.para \/ b.para + b.size <= a.para

\* A block of n paragraphs at p joins the allocated blocks `others`, the
\* handles of empty blocks being `empties`.
Place(p, n, others, empties) ==
  \/ /\ n = 0
     /\ live' = others
     /\ empty' = empties \union {p}
  \/ LET b == [para |-> p, size |-> n] IN
     /\ n > 0
     /\ p + n <= Total
     /\ \A o \in others : Apart(b, o)
     /\ live' = others \union {b}
     /\ empty' = empties

Known(p) == p \in empty \/ \E b \in live : b.para = p

\* The call returns with error code e, and with paragraph p in the result.
Return(e, p) ==
  /\ ret' = [err |-> e, ptr |-> p]
  /\ req' = NoReq

Refuse(e) == Return(e, ret.ptr) /\ UNCHANGED <<live, empty>>

-----------------------------------------------------------------------------

HeapInit ==
  /\ live = {}
  /\ empty = {}
  /\ req = AllocReq(Internal)
  /\ ret = [err |-> "none", ptr |-> 0]

HeapCall ==
  /\ req = NoReq
  /\ req' \in Calls
  /\ UNCHANGED <<live, empty, ret>>

HeapAlloc ==
  /\ req.op = "alloc"
  /\ \/ \E p \in Para : Place(p, req.size, live, empty) /\ Return("none", p)
     \/ Refuse("oom")

HeapFree ==
  /\ req.op = "free"
  /\ \/ /\ \E b \in live : b.para = req.para /\ live' = live \ {b}
        /\ empty' = empty
        /\ Return("none", ret.ptr)
     \/ /\ req.para \in empty
        /\ live' = live
        /\ empty' \in {empty, empty \ {req.para}}
        /\ Return("none", ret.ptr)
     \/ ~Known(req.para) /\ Refuse("mba")

HeapResize ==
  /\ req.op = "resize"
  /\ \/ /\ \E b \in live :
             b.para = req.para /\ Place(req.para, req.size, live \ {b}, empty)
        /\ Return("none", ret.ptr)
     \/ /\ req.para \in empty
        /\ \E rest \in {empty, empty \ {req.para}} :
             Place(req.para, req.size, live, rest)
        /\ Return("none", ret.ptr)
     \/ Known(req.para) /\ Refuse("oom")
     \/ ~Known(req.para) /\ Refuse("mba")

\* The emulator shuts down: nothing is allocated any more.
HeapShutdown ==
  /\ req = NoReq
  /\ live' = {}
  /\ empty' = {}
  /\ UNCHANGED <<req, ret>>

HeapNext == HeapCall \/ HeapAlloc \/ HeapFree \/ HeapResize \/ HeapShutdown

HeapSpec == HeapInit /\ [][HeapNext]_heapVars
=============================================================================
