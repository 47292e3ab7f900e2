------------------------------- MODULE V30Stack -------------------------------
(***************************************************************************)
(* The stack of the V30MZ in memory: cpu_push, cpu_pop and the             *)
(* instructions built on them (src/emu/cpu/new: mem.inc.c, exec.inc.c),    *)
(* under a program that uses them in pairs.  An interrupt never pushes     *)
(* anything, because the BIOS has a handler for each.                      *)
(*                                                                         *)
(* Offsets count words: SP is even, as compilers keep it.  A push stores   *)
(* at SS:SP for a uint16 SP; a pop reads at SP - 2 for the SP it has just  *)
(* advanced, an int in C that may be -2: here, the offset -1.              *)
(*                                                                         *)
(* A word outside the stack, below SP, is kept as 0: only ENTER brings one *)
(* back, as a local variable nobody has initialised.                       *)
(***************************************************************************)
EXTENDS V30Regs, Sequences, SequencesExt

CONSTANTS
  SegSize,    \* the words of a segment
  Starts,     \* SS and SP when the program starts
  MaxItems,   \* bound: the items on the stack
  Levels      \* the nesting levels a program's ENTER names

Offset == 0..(SegSize - 1)

ASSUME StackAssumption ==
  /\ SegSize \in Nat /\ SegSize > 2 /\ SegSize <= 2^15
  /\ Starts \subseteq [ss : Word, sp : Offset]
  /\ \A s \in Starts : s.sp = 0 => s.ss = 0
  /\ MaxItems \in Nat /\ Levels \subseteq 0..31

VARIABLES
  ss, sp, bp,
  regs, psw, cs, ip,
  mem,        \* the words of the stack segment, and the one below it
  crashed,    \* a pop has read outside the emulator's memory
  shape,      \* history: the items the program has on the stack
  top         \* history: SP at the start

regVars == <<regs, psw, cs, ip>>
vars == <<ss, sp, bp, regVars, mem, crashed, shape, top>>

At(o) == o % SegSize

\* Bound: the words on the stack.  SP never comes back to 0.
Room == (IF top = 0 THEN SegSize ELSE top) - 1

-----------------------------------------------------------------------------
(* The program's discipline: what it may do with the items it has pushed.  *)

\* The words on the stack, and an item pushed onto them.
Depth == IF shape = << >> THEN 0 ELSE Last(shape).under + Last(shape).size
Item(kind, size, locals) ==
  [kind |-> kind, size |-> size, locals |-> locals, under |-> Depth]
Frame(n, level) == Item("frame", 1 + n + level, n)

\* The offset of the k-th word of item i.
Cell(i, k) == At(top - shape[i].under - k)

Fits(it) == Len(shape) < MaxItems /\ Depth + it.size <= Room

TopIs(kind) == shape # << >> /\ Last(shape).kind = kind
Dropped(n) == SubSeq(shape, 1, Len(shape) - n)

Args(n) ==
  /\ n < Len(shape)
  /\ \A i \in 1..n : shape[Len(shape) - i].kind = "word"

Handler == TopIs("far") /\ Len(shape) > 1 /\ shape[Len(shape) - 1].kind = "flags"

\* The frame whose saved BP is at offset o.
FrameAt(o) ==
  LET at == { i \in DOMAIN shape : shape[i].kind = "frame" /\ Cell(i, 1) = o }
  IN  IF at = {} THEN 0 ELSE CHOOSE i \in at : TRUE

\* BP points to a frame of the procedure in progress.
CanLeave ==
  /\ FrameAt(bp) > 0
  /\ \A i \in (FrameAt(bp) + 1)..Len(shape) : shape[i].kind \notin {"near", "far"}

-----------------------------------------------------------------------------

Init ==
  /\ \E s \in Starts : ss = s.ss /\ sp = s.sp /\ top = s.sp
  /\ bp = 0
  /\ \E f \in Files : regs = f.regs /\ psw = f.psw
  /\ cs \in Code /\ ip \in Targets
  /\ mem = [o \in Offset \union {-1} |-> 0]
  /\ crashed = FALSE
  /\ shape = << >>

\* What is kept of memory: the words on the stack that SP is then the top of.
Kept(m, s) == [o \in DOMAIN m |-> IF o >= 0 /\ At(o - s) < At(top - s) THEN m[o] ELSE 0]

\* cpu_push of each of the words ws, from s on.
Pushed(m, s, ws) ==
  [o \in DOMAIN m |-> IF o >= 0 /\ At(s - o) \in DOMAIN ws THEN ws[At(s - o)] ELSE m[o]]

Push(it, ws) ==
  /\ ~crashed /\ Fits(it)
  /\ mem' = Pushed(mem, sp, ws)
  /\ sp' = At(sp - Len(ws))
  /\ shape' = Append(shape, it)
  /\ UNCHANGED <<ss, top, crashed>>

\* The k-th word cpu_pop returns, from s on.
Popped(s, k) == mem[At(s + k) - 1]

\* With SS 0, a read below the segment is outside the emulator's memory.
Overruns(s, n) == ss = 0 /\ \E k \in 1..n : At(s + k) = 0

\* n words are popped and `items` items dropped; SP is then s.
Pop(n, items, s) ==
  /\ ~crashed /\ ~Overruns(sp, n)
  /\ sp' = s
  /\ mem' = Kept(mem, s)
  /\ shape' = Dropped(items)
  /\ UNCHANGED <<ss, top, crashed>>

-----------------------------------------------------------------------------

\* Instructions that leave the stack alone.
Compute ==
  /\ ~crashed
  /\ \E f \in Files : regs' = f.regs /\ psw' = f.psw
  /\ UNCHANGED <<ss, sp, bp, cs, ip, mem, crashed, shape, top>>

PushWord ==
  /\ \E v \in Values : Push(Item("word", 1, 0), <<v>>)
  /\ UNCHANGED <<bp, regVars>>

PopWord ==
  /\ TopIs("word") /\ Pop(1, 1, At(sp + 1))
  /\ regs' = [regs EXCEPT !.aw = Popped(sp, 1)]
  /\ UNCHANGED <<bp, psw, cs, ip>>

PushFlags ==
  /\ Push(Item("flags", 1, 0), <<GetPsw(psw)>>)
  /\ UNCHANGED <<bp, regVars>>

PopFlags ==
  /\ TopIs("flags") /\ Pop(1, 1, At(sp + 1))
  /\ psw' = SetPsw(Popped(sp, 1))
  /\ UNCHANGED <<bp, regs, cs, ip>>

PushAll ==
  /\ Push(Item("all", 8, 0), <<regs.aw, regs.cw, regs.dw, regs.bw, sp, bp, regs.ix, regs.iy>>)
  /\ UNCHANGED <<bp, regVars>>

\* SP is popped into a local variable first.
PopAll ==
  /\ TopIs("all") /\ Pop(8, 1, Popped(sp, 4))
  /\ regs' = [iy |-> Popped(sp, 1), ix |-> Popped(sp, 2), bw |-> Popped(sp, 5),
              dw |-> Popped(sp, 6), cw |-> Popped(sp, 7), aw |-> Popped(sp, 8)]
  /\ bp' = Popped(sp, 3)
  /\ UNCHANGED <<psw, cs, ip>>

-----------------------------------------------------------------------------

Call ==
  /\ Push(Item("near", 1, 0), <<ip>>)
  /\ ip' \in Targets
  /\ UNCHANGED <<bp, regs, psw, cs>>

\* Slip: IP is pushed before CS.
CallFarSwapped ==
  /\ Push(Item("far", 2, 0), <<ip, cs>>)
  /\ ip' \in Targets /\ cs' \in Code
  /\ UNCHANGED <<bp, regs, psw>>

CallFar ==
  /\ Push(Item("far", 2, 0), <<cs, ip>>)
  /\ ip' \in Targets /\ cs' \in Code
  /\ UNCHANGED <<bp, regs, psw>>

Return(n) ==
  /\ TopIs("near") /\ Args(n) /\ Pop(1, n + 1, At(sp + 1 + n))
  /\ ip' = Popped(sp, 1)
  /\ UNCHANGED <<bp, regs, psw, cs>>

\* Slip: the arguments are left on the stack.
ReturnFarKeeps(n) ==
  /\ TopIs("far") /\ Args(n) /\ Pop(2, n + 1, At(sp + 2))
  /\ ip' = Popped(sp, 1) /\ cs' = Popped(sp, 2)
  /\ UNCHANGED <<bp, regs, psw>>

ReturnFar(n) ==
  /\ TopIs("far") /\ Args(n) /\ Pop(2, n + 1, At(sp + 2 + n))
  /\ ip' = Popped(sp, 1) /\ cs' = Popped(sp, 2)
  /\ UNCHANGED <<bp, regs, psw>>

\* IRET.
ReturnInt ==
  /\ Handler /\ Pop(3, 2, At(sp + 3))
  /\ ip' = Popped(sp, 1) /\ cs' = Popped(sp, 2) /\ psw' = SetPsw(Popped(sp, 3))
  /\ UNCHANGED <<bp, regs>>

-----------------------------------------------------------------------------

\* What ENTER pushes after the n local words: copies of the words under the new
\* BP, and the new BP.  A word that is under BP only since this ENTER has pushed
\* it is itself a copy, of the word n above it.
Display(m, b, n, level) ==
  LET copied(i) == m[b - (IF n = 0 THEN i ELSE 1 + ((i - 1) % n))]
  IN  [i \in 1..level |-> IF i = level THEN b ELSE copied(i)]

Enter(n, level) ==
  LET b == At(sp - 1)
      saved == Pushed(mem, sp, <<bp>>)
  IN  /\ ~crashed /\ Fits(Frame(n, level))
      /\ bp' = b
      /\ mem' = Pushed(saved, At(b - n), Display(saved, b, n, level))
      /\ sp' = At(b - n - level)
      /\ shape' = Append(shape, Frame(n, level))
      /\ UNCHANGED <<ss, top, crashed, regVars>>

\* Slip: SP is not set back to the frame.
LeaveInPlace ==
  /\ ~crashed /\ CanLeave /\ ~Overruns(bp, 1)
  /\ bp' = Popped(sp, 1)
  /\ sp' = At(sp + 1) /\ mem' = Kept(mem, At(sp + 1))
  /\ shape' = SubSeq(shape, 1, FrameAt(bp) - 1)
  /\ UNCHANGED <<ss, top, regVars, crashed>>

Leave ==
  /\ ~crashed /\ CanLeave /\ ~Overruns(bp, 1)
  /\ bp' = Popped(bp, 1)
  /\ sp' = At(bp + 1) /\ mem' = Kept(mem, At(bp + 1))
  /\ shape' = SubSeq(shape, 1, FrameAt(bp) - 1)
  /\ UNCHANGED <<ss, top, regVars, crashed>>

\* The program assigns to local variable k of its frame.
Store(k) ==
  /\ ~crashed
  /\ FrameAt(bp) > 0 /\ k <= shape[FrameAt(bp)].locals
  /\ \E v \in Values : mem' = [mem EXCEPT ![At(bp - k)] = v]
  /\ UNCHANGED <<ss, sp, bp, regVars, crashed, shape, top>>

-----------------------------------------------------------------------------

\* What the program may pop next: from where, and how many words.
Pops ==
  (IF shape # << >> /\ ~TopIs("frame") THEN {<<sp, Last(shape).size>>} ELSE {})
    \union (IF Handler THEN {<<sp, 3>>} ELSE {})
    \union (IF CanLeave THEN {<<bp, 1>>} ELSE {})

PopCrash ==
  /\ ~crashed
  /\ \E p \in Pops : Overruns(p[1], p[2])
  /\ crashed' = TRUE
  /\ UNCHANGED <<ss, sp, bp, regVars, mem, shape, top>>

Next ==
  \/ Compute \/ PushWord \/ PopWord \/ PushFlags \/ PopFlags \/ PushAll \/ PopAll
  \/ Call \/ CallFar \/ ReturnInt \/ Leave \/ PopCrash
  \/ \E n \in 0..MaxArgs : Return(n) \/ ReturnFar(n)
  \/ \E n \in 0..MaxLocals, level \in Levels : Enter(n, level)
  \/ \E k \in 1..MaxLocals : Store(k)

Spec == Init /\ [][Next]_vars

-----------------------------------------------------------------------------

TypeOK ==
  /\ [ss |-> ss, sp |-> top] \in Starts
  /\ {sp, bp} \subseteq Offset
  /\ regs \in Regs /\ psw \in SUBSET Flag
  /\ cs \in Code /\ ip \in Targets
  /\ mem \in [Offset \union {-1} -> Word]
  /\ crashed \in BOOLEAN
  /\ Len(shape) <= MaxItems

\* SP has moved by exactly the words of the items on the stack: no call, frame
\* or return, however nested, leaves a word too many or takes one too much.
Balanced == sp = At(top - Depth) /\ Depth <= Room

Val(i) ==
  LET word(k) == mem[Cell(i, k)]
  IN  CASE shape[i].kind \in {"word", "near"} -> word(1)
        [] shape[i].kind = "flags" -> SetPsw(word(1))
        [] shape[i].kind = "far" -> [cs |-> word(1), ip |-> word(2)]
        [] shape[i].kind = "all" ->
             [regs |-> [aw |-> word(1), cw |-> word(2), dw |-> word(3), bw |-> word(4),
                        ix |-> word(7), iy |-> word(8)],
              frame |-> FrameAt(word(6))]
        [] shape[i].kind = "frame" ->
             [outer |-> FrameAt(word(1)),
              locals |-> [k \in 1..shape[i].locals |-> word(k + 1)]]

Stack == [i \in 1..Len(shape) |-> [kind |-> shape[i].kind, val |-> Val(i)]]

Frames == INSTANCE V30Frames WITH stack <- Stack, frame <- FrameAt(bp)

\* The words in memory are a stack: what a program pops, returns to or finds in
\* its local variables is what it has pushed, come from or stored there, over
\* any procedures and frames in between.
ImplementsFrames == Frames!FramesSpec

\* The README offers to run DOS programs, COM programs among them: the first
\* word one pushes can be popped.
NoCrash == ~crashed
==============================================================================
