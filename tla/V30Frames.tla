------------------------------ MODULE V30Frames ------------------------------
(***************************************************************************)
(* What the stack instructions of the V30MZ (src/emu/cpu/new/exec.inc.c)   *)
(* promise to a program that uses them in pairs: a stack of items, without *)
(* addresses.  What is popped is what was pushed; a procedure returns to   *)
(* where it was called and removes its arguments; LEAVE drops what the     *)
(* frame holds, whatever it is, and gives the frame before back to BP; and *)
(* nothing but a store to it changes a local variable.                     *)
(***************************************************************************)
EXTENDS V30Regs, Sequences, SequencesExt

VARIABLES
  stack,      \* the items, the last pushed at the end
  frame,      \* the item BP points to, or 0
  regs, psw, cs, ip

frameVars == <<stack, frame, regs, psw, cs, ip>>

Item(kind, val) == [kind |-> kind, val |-> val]
TopIs(kind) == stack # << >> /\ Last(stack).kind = kind
TopVal == Last(stack).val
Dropped(n) == SubSeq(stack, 1, Len(stack) - n)

\* The n items under the topmost one are words: the arguments of a procedure.
Args(n) ==
  /\ n < Len(stack)
  /\ \A i \in 1..n : stack[Len(stack) - i].kind = "word"

-----------------------------------------------------------------------------

FramesInit ==
  /\ stack = << >>
  /\ frame = 0
  /\ \E f \in Files : regs = f.regs /\ psw = f.psw
  /\ cs \in Code /\ ip \in Targets

Compute ==
  /\ \E f \in Files : regs' = f.regs /\ psw' = f.psw
  /\ UNCHANGED <<stack, frame, cs, ip>>

PushWord ==
  /\ \E v \in Values : stack' = Append(stack, Item("word", v))
  /\ UNCHANGED <<frame, regs, psw, cs, ip>>

PopWord ==
  /\ TopIs("word")
  /\ regs' = [regs EXCEPT !.aw = TopVal]
  /\ stack' = Dropped(1)
  /\ UNCHANGED <<frame, psw, cs, ip>>

PushFlags ==
  /\ stack' = Append(stack, Item("flags", psw))
  /\ UNCHANGED <<frame, regs, psw, cs, ip>>

PopFlags ==
  /\ TopIs("flags")
  /\ psw' = TopVal
  /\ stack' = Dropped(1)
  /\ UNCHANGED <<frame, regs, cs, ip>>

PushAll ==
  /\ stack' = Append(stack, Item("all", [regs |-> regs, frame |-> frame]))
  /\ UNCHANGED <<frame, regs, psw, cs, ip>>

PopAll ==
  /\ TopIs("all")
  /\ regs' = TopVal.regs
  /\ frame' = TopVal.frame
  /\ stack' = Dropped(1)
  /\ UNCHANGED <<psw, cs, ip>>

Call ==
  /\ stack' = Append(stack, Item("near", ip))
  /\ ip' \in Targets
  /\ UNCHANGED <<frame, regs, psw, cs>>

CallFar ==
  /\ stack' = Append(stack, Item("far", [cs |-> cs, ip |-> ip]))
  /\ ip' \in Targets /\ cs' \in Code
  /\ UNCHANGED <<frame, regs, psw>>

Return(n) ==
  /\ TopIs("near") /\ Args(n)
  /\ ip' = TopVal
  /\ stack' = Dropped(n + 1)
  /\ UNCHANGED <<frame, regs, psw, cs>>

ReturnFar(n) ==
  /\ TopIs("far") /\ Args(n)
  /\ ip' = TopVal.ip /\ cs' = TopVal.cs
  /\ stack' = Dropped(n + 1)
  /\ UNCHANGED <<frame, regs, psw>>

\* A handler called like an interrupt, by PUSHF and a far CALL, returns.
ReturnInt ==
  /\ TopIs("far") /\ Len(stack) > 1 /\ stack[Len(stack) - 1].kind = "flags"
  /\ ip' = TopVal.ip /\ cs' = TopVal.cs
  /\ psw' = stack[Len(stack) - 1].val
  /\ stack' = Dropped(2)
  /\ UNCHANGED <<frame, regs>>

\* The local variables are not initialised.
EnterFrame ==
  /\ Len(stack') = Len(stack) + 1 /\ IsPrefix(stack, stack')
  /\ LET locals == Last(stack').val.locals
     IN  /\ Last(stack') = Item("frame", [outer |-> frame, locals |-> locals])
         /\ locals \in Seq(Word) /\ Len(locals) <= MaxLocals
  /\ frame' = Len(stack')
  /\ UNCHANGED <<regs, psw, cs, ip>>

\* The frame is that of the procedure in progress.
LeaveFrame ==
  /\ frame > 0
  /\ \A i \in (frame + 1)..Len(stack) : stack[i].kind \notin {"near", "far"}
  /\ frame' = stack[frame].val.outer
  /\ stack' = SubSeq(stack, 1, frame - 1)
  /\ UNCHANGED <<regs, psw, cs, ip>>

Store(k) ==
  /\ frame > 0
  /\ k \in DOMAIN stack[frame].val.locals
  /\ \E v \in Values : stack' = [stack EXCEPT ![frame].val.locals[k] = v]
  /\ UNCHANGED <<frame, regs, psw, cs, ip>>

FramesNext ==
  \/ Compute \/ PushWord \/ PopWord \/ PushFlags \/ PopFlags \/ PushAll \/ PopAll
  \/ Call \/ CallFar \/ ReturnInt \/ EnterFrame \/ LeaveFrame
  \/ \E n \in 0..MaxArgs : Return(n) \/ ReturnFar(n)
  \/ \E k \in 1..MaxLocals : Store(k)

FramesSpec == FramesInit /\ [][FramesNext]_frameVars
==============================================================================
