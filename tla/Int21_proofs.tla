----------------------------- MODULE Int21_proofs -----------------------------
(***************************************************************************)
(* Proofs about the BIOS as a program sees it, for every program, arena    *)
(* and file table: the types, that carry and AX tell a program which       *)
(* blocks and handles it has (ViewAgrees), and that a call that writes     *)
(* text shows that text (TextShown).                                       *)
(*                                                                         *)
(* Between two instructions of the program its view is behind: the call    *)
(* has been served, and the program has not looked at the answer yet.  The *)
(* invariant says at each point of a call what the program will conclude   *)
(* from what the registers hold, or from what the allocator will put into  *)
(* them.  What the allocator and the file table do is taken from their own *)
(* proofs: DosMemHeap_proofs is instantiated with the allocator's pc, and  *)
(* DosFiles_proofs with the file table's and with counts of any size.      *)
(*                                                                         *)
(* TextShown rests on what the scan of a text and the string reader have   *)
(* reached after n bytes.  Both are recursive functions of the model;      *)
(* SetInduction and Folded, induction over sets of numbers, take the place *)
(* of induction over n.                                                    *)
(***************************************************************************)
EXTENDS Int21, TLAPS, WellFoundedInduction

MemP == INSTANCE DosMemHeap_proofs WITH pc <- mem
FilP == INSTANCE DosFiles_proofs WITH pc <- fil, MaxCount <- 2^32

-----------------------------------------------------------------------------
(* The actions of Int21's instances are those the proofs are about.        *)

LEMMA Assumed == MemP!MemAssumption /\ FilP!FileAssumption /\ FilP!StreamAssumption
BY Int21Assumption
   DEF MemP!MemAssumption, FilP!FileAssumption, FilP!StreamAssumption

LEMMA SameMemInit == Mem!Init => MemP!Init
BY DEF Mem!Init, MemP!Init, Mem!AllocReq, MemP!AllocReq

LEMMA SameReturn == \A e, p : Mem!Return(e, p) => MemP!Return(e, p)
BY DEF Mem!Return, MemP!Return, Mem!NoReq, MemP!NoReq

LEMMA SameCall == \A r : Mem!Call(r) => MemP!Call(r)
BY DEF Mem!Call, MemP!Call

LEMMA SameCondense == Mem!Condense => MemP!Condense
<1>1. Mem!CondenseMerge => MemP!CondenseMerge
  BY DEF Mem!CondenseMerge, MemP!CondenseMerge, Mem!Mergeable, MemP!Mergeable,
         Mem!Merge, MemP!Merge, Mem!RemoveAt, MemP!RemoveAt
<1>2. Mem!CondenseAdvance => MemP!CondenseAdvance
  BY DEF Mem!CondenseAdvance, MemP!CondenseAdvance, Mem!Mergeable, MemP!Mergeable
<1>3. Mem!CondenseDone => MemP!CondenseDone
  BY DEF Mem!CondenseDone, MemP!CondenseDone
<1> QED BY <1>1, <1>2, <1>3 DEF Mem!Condense, MemP!Condense

LEMMA SameAllocFit == \A i : Mem!AllocFit(i) => MemP!AllocFit(i)
BY SameReturn
   DEF Mem!AllocFit, MemP!AllocFit, Mem!FirstFit, MemP!FirstFit, Mem!Fits, MemP!Fits,
       Mem!Split, MemP!Split, Mem!Take, MemP!Take, Mem!InsertAt, MemP!InsertAt

LEMMA SameFound == \A i : Mem!Found(i) => MemP!Found(i)
BY DEF Mem!Found, MemP!Found, Mem!Has, MemP!Has

LEMMA SameResize == \A i : Mem!Resize(i) => MemP!Resize(i)
<1> SUFFICES ASSUME NEW i, Mem!Resize(i) PROVE MemP!Resize(i)
  OBVIOUS
<1>1. Mem!Resizing(i) => MemP!Resizing(i)
  BY SameFound DEF Mem!Resizing, MemP!Resizing
<1>2. Mem!ResizeCrash(i) => MemP!ResizeCrash(i)
  BY <1>1 DEF Mem!ResizeCrash, MemP!ResizeCrash, Mem!Wanted, MemP!Wanted
<1>3. Mem!ResizeNoRoom(i) => MemP!ResizeNoRoom(i)
  BY <1>1, SameReturn
     DEF Mem!ResizeNoRoom, MemP!ResizeNoRoom, Mem!Wanted, MemP!Wanted, Mem!HasRoom, MemP!HasRoom
<1>4. Mem!ResizeGrow(i) => MemP!ResizeGrow(i)
  BY <1>1, SameReturn
     DEF Mem!ResizeGrow, MemP!ResizeGrow, Mem!Wanted, MemP!Wanted, Mem!HasRoom, MemP!HasRoom,
         Mem!Grow, MemP!Grow
<1>5. Mem!ResizeShrink(i) => MemP!ResizeShrink(i)
  BY <1>1, SameReturn DEF Mem!ResizeShrink, MemP!ResizeShrink, Mem!Wanted, MemP!Wanted
<1> QED BY <1>2, <1>3, <1>4, <1>5 DEF Mem!Resize, MemP!Resize

LEMMA SameStep == Mem!Step => MemP!Step
<1>1. Mem!AllocFail => MemP!AllocFail
  BY SameReturn DEF Mem!AllocFail, MemP!AllocFail, Mem!Fits, MemP!Fits
<1>2. Mem!NotFound => MemP!NotFound
  BY SameReturn DEF Mem!NotFound, MemP!NotFound, Mem!Has, MemP!Has
<1>3. \A i : Mem!Free(i) => MemP!Free(i)
  BY SameReturn, SameFound DEF Mem!Free, MemP!Free, Mem!Drop, MemP!Drop
<1> QED BY <1>1, <1>2, <1>3, SameCondense, SameAllocFit, SameResize DEF Mem!Step, MemP!Step

LEMMA SameLive == \A s : Mem!Live(s) = MemP!Live(s)
BY DEF Mem!Live, MemP!Live

LEMMA MemTyped == MemP!IInv => Mem!TypeOK
BY DEF MemP!IInv, MemP!TypeOK, Mem!TypeOK, MemP!Node, Mem!Node, MemP!Request, Mem!Request,
       MemP!Reply, Mem!Reply, MemP!NoReq, Mem!NoReq, MemP!Para, Mem!Para, MemP!Size, Mem!Size

-----------------------------------------------------------------------------
(* The same for the file table, and what each call answers.                *)

LEMMA SameFilInit == Fil!Init => FilP!Init
BY DEF Fil!Init, FilP!Init, Fil!Handle, FilP!Handle, Fil!NoFile, FilP!NoFile,
       Fil!Closed, FilP!Closed, Fil!Extent, FilP!Extent, Fil!Absent, FilP!Absent

LEMMA SameHeld == Fil!Held = FilP!Held
BY DEF Fil!Held, FilP!Held, Fil!Handle, FilP!Handle

LEMMA FilTyped == FilP!IInv => Fil!TypeOK
BY DEF FilP!IInv, FilP!TypeOK, Fil!TypeOK, Fil!Handle, FilP!Handle, Fil!NoFile, FilP!NoFile,
       Fil!Sentinel, FilP!Sentinel, Fil!Closed, FilP!Closed, Fil!Open, FilP!Open,
       Fil!FMode, FilP!FMode, Fil!Extent, FilP!Extent, Fil!Absent, FilP!Absent,
       Fil!Answer, FilP!Answer, Fil!AnyHandle, FilP!AnyHandle

\* The answer of a call that says v, or says e and fails.
Said(e, v) == answer'.err = e /\ answer'.val = v /\ fil' = fil

LEMMA SameFilReturn ==
  \A e, h, v : Fil!Return(e, h, v) => FilP!Return(e, h, v) /\ Said(e, v)
BY DEF Fil!Return, FilP!Return, Said

LEMMA SameHandles ==
  \A h : /\ Fil!Bad(h) = FilP!Bad(h)
         /\ Fil!IsStd(h) = FilP!IsStd(h)
         /\ Fil!IsFile(h) = FilP!IsFile(h)
BY DEF Fil!Bad, FilP!Bad, Fil!IsStd, FilP!IsStd, Fil!IsFile, FilP!IsFile,
       Fil!Handle, FilP!Handle, Fil!NoFile, FilP!NoFile, Fil!Sentinel, FilP!Sentinel

\* The calls that change nothing.
LEMMA QuietCalls ==
  ASSUME NEW h \in 0..MaxFiles, NEW n \in Uint16
  PROVE  /\ Fil!Invalid(h) => FilP!Next /\ Said("invalid", 0) /\ table' = table
         /\ Fil!ReadStd(h) => FilP!Next /\ Said("none", 0) /\ table' = table
         /\ Fil!Ioctl(h) => FilP!Next /\ Said("none", 0) /\ table' = table
         /\ Fil!WriteStd(h, n) =>
              FilP!Next /\ (Said("none", 0) \/ Said("none", n)) /\ table' = table
<1>0. h \in FilP!AnyHandle /\ n \in FilP!Count
  <2>1. n \in FilP!Count
    BY DEF FilP!Count, Uint16
  <2> QED BY <2>1 DEF FilP!AnyHandle
<1>1. ASSUME FilP!HandleCall(h) PROVE FilP!Next
  BY <1>0, <1>1 DEF FilP!Next
<1>2. Fil!Invalid(h) => FilP!Invalid(h) /\ Said("invalid", 0) /\ table' = table
  BY SameFilReturn, SameHandles DEF Fil!Invalid, FilP!Invalid
<1>3. Fil!ReadStd(h) => FilP!ReadStd(h) /\ Said("none", 0) /\ table' = table
  BY SameFilReturn, SameHandles DEF Fil!ReadStd, FilP!ReadStd
<1>4. Fil!Ioctl(h) => FilP!Ioctl(h) /\ Said("none", 0) /\ table' = table
  BY SameFilReturn DEF Fil!Ioctl, FilP!Ioctl
<1>5. Fil!WriteStd(h, n) =>
        FilP!WriteStd(h, n) /\ (Said("none", 0) \/ Said("none", n)) /\ table' = table
  BY SameFilReturn, SameHandles DEF Fil!WriteStd, FilP!WriteStd
<1>6. FilP!WriteStd(h, n) => FilP!HandleCall(h)
  BY <1>0 DEF FilP!HandleCall
<1> QED BY <1>1, <1>2, <1>3, <1>4, <1>5, <1>6 DEF FilP!HandleCall

\* A handle closed is held no longer.
LEMMA CloseCall ==
  ASSUME FilP!IInv, NEW h \in 0..MaxFiles, Fil!Close(h)
  PROVE  FilP!Next /\ Said("none", 0) /\ FilP!Held' = FilP!Held \ {h}
<1>0. h \in FilP!AnyHandle
  BY DEF FilP!AnyHandle
<1>1. FilP!Close(h) /\ Said("none", 0)
  BY SameFilReturn, SameHandles
     DEF Fil!Close, FilP!Close, Fil!Closed, FilP!Closed, Fil!NoFile, FilP!NoFile
<1>2. FilP!Next
  BY <1>0, <1>1 DEF FilP!Next, FilP!HandleCall
<1>3. table' = [table EXCEPT ![h] = FilP!NoFile] /\ DOMAIN table = FilP!Handle
      /\ h \in FilP!Handle
  BY <1>1 DEF FilP!Close, FilP!IsFile, FilP!IInv, FilP!TypeOK
<1>4. FilP!NoFile \notin Streams
  BY Assumed DEF FilP!StreamAssumption, FilP!NoFile
<1>5. \A g \in FilP!Handle : table'[g] = IF g = h THEN FilP!NoFile ELSE table[g]
  BY <1>3
<1>6. FilP!Held' = FilP!Held \ {h}
  BY <1>3, <1>4, <1>5 DEF FilP!Held
<1> QED BY <1>1, <1>2, <1>6

\* A handle opened was not held before.
LEMMA OpenedHeld ==
  ASSUME FilP!IInv, NEW f \in Files, NEW m, Fil!Opened(f, m)
  PROVE  /\ FilP!Opened(f, m)
         /\ \E i \in 0..(MaxFiles - 1) :
              Said("none", i) /\ FilP!Held' = FilP!Held \union {i}
<1>1. PICK i \in Fil!Handle, s \in Streams :
        /\ Fil!FirstFree(i) /\ Fil!Fopen(f, m, s)
        /\ table' = [table EXCEPT ![i] = s]
        /\ Fil!Return("none", 0, i)
  BY DEF Fil!Opened
<1>2. i \in FilP!Handle /\ FilP!FirstFree(i) /\ FilP!Fopen(f, m, s)
      /\ FilP!Return("none", 0, i) /\ Said("none", i)
  BY <1>1, SameFilReturn
     DEF Fil!Handle, FilP!Handle, Fil!FirstFree, FilP!FirstFree, Fil!Fopen, FilP!Fopen,
         Fil!NoFile, FilP!NoFile, Fil!Closed, FilP!Closed, Fil!Absent, FilP!Absent
<1>3. fil = "running"
  BY DEF Fil!Opened
<1>4. FilP!Opened(f, m)
  BY <1>1, <1>2, <1>3 DEF FilP!Opened
<1>5. DOMAIN table = FilP!Handle
  BY DEF FilP!IInv, FilP!TypeOK
<1>6. \A g \in FilP!Handle : table'[g] = IF g = i THEN s ELSE table[g]
  BY <1>1, <1>2, <1>5
<1>7. FilP!Held' = FilP!Held \union {i}
  BY <1>2, <1>6 DEF FilP!Held
<1> QED BY <1>2, <1>4, <1>7 DEF FilP!Handle

\* The calls on a name: refused, or a new handle.
LEMMA RefusedNames ==
  /\ Fil!NoHandles => FilP!Next /\ Said("no_handles", 0) /\ table' = table
  /\ Fil!NotFound => FilP!Next /\ Said("not_found", 0) /\ table' = table
<1>1. Fil!Full = FilP!Full
  BY DEF Fil!Full, FilP!Full, Fil!Handle, FilP!Handle, Fil!NoFile, FilP!NoFile
<1>2. Fil!NoHandles => FilP!NoHandles /\ Said("no_handles", 0) /\ table' = table
  BY <1>1, SameFilReturn DEF Fil!NoHandles, FilP!NoHandles
<1>3. Fil!NotFound => FilP!NotFound /\ Said("not_found", 0) /\ table' = table
  BY <1>1, SameFilReturn DEF Fil!NotFound, FilP!NotFound
<1>4. FilP!NoHandles \/ FilP!NotFound => FilP!Next
  BY DEF FilP!Next
<1> QED BY <1>2, <1>3, <1>4

LEMMA NameCalls ==
  ASSUME FilP!IInv, NEW f \in Files
  PROVE  /\ Fil!GetAttr(f) =>
              FilP!Next /\ (Said("none", 0) \/ Said("not_found", 0)) /\ table' = table
         /\ Fil!Creat(f) =>
              /\ FilP!Next
              /\ \E i \in 0..(MaxFiles - 1) :
                   Said("none", i) /\ FilP!Held' = FilP!Held \union {i}
         /\ \A mode \in 0..7 : Fil!OpenCall(f, mode) =>
              /\ FilP!Next
              /\ \E i \in 0..(MaxFiles - 1) :
                   Said("none", i) /\ FilP!Held' = FilP!Held \union {i}
<1>1. Fil!GetAttr(f) =>
        FilP!GetAttr(f) /\ (Said("none", 0) \/ Said("not_found", 0)) /\ table' = table
  BY SameFilReturn DEF Fil!GetAttr, FilP!GetAttr, Fil!Absent, FilP!Absent
<1>2. Fil!Creat(f) => Fil!Opened(f, FilP!CreateMode)
  BY DEF Fil!Creat, Fil!CreateMode, FilP!CreateMode
<1>3. \A mode : Fil!OpenCall(f, mode) => Fil!Opened(f, FilP!OpenMode(mode))
  BY DEF Fil!OpenCall, Fil!OpenMode, FilP!OpenMode
<1>4. FilP!NameCall(f) => FilP!Next
  BY DEF FilP!Next
<1>5. FilP!Opened(f, FilP!CreateMode) => FilP!Next
  BY <1>4 DEF FilP!NameCall, FilP!Creat
<1>6. \A mode \in 0..7 : FilP!Opened(f, FilP!OpenMode(mode)) => FilP!Next
  BY <1>4 DEF FilP!NameCall, FilP!OpenCall
<1>7. FilP!GetAttr(f) => FilP!Next
  BY <1>4 DEF FilP!NameCall
<1> QED BY <1>1, <1>2, <1>3, <1>5, <1>6, <1>7, OpenedHeld

LEMMA SameMoved ==
  ASSUME NEW h, NEW p, NEW op, NEW n
  PROVE  Fil!Moved(h, p, op, n) => FilP!Moved(h, p, op, n) /\ table' = table
BY DEF Fil!Moved, FilP!Moved

\* The calls that move bytes: at most as many as were asked for.
LEMMA TransferCalls ==
  ASSUME FilP!IInv, NEW h \in 0..MaxFiles, NEW n \in Uint16, NEW op \in {"read", "write"},
         Fil!Read(h, n) \/ Fil!Write(h, n) \/ Fil!TurnedTransfer(h, op, n)
  PROVE  FilP!Next /\ (\E v \in 0..n : Said("none", v)) /\ table' = table
<1>0. n \in FilP!Count /\ n \in Nat
  BY DEF FilP!Count, Uint16
<1>1. FilP!HandleCall(h) => FilP!Next
  BY DEF FilP!Next, FilP!AnyHandle
<1>2. Fil!IsFile(h) /\ FilP!IsFile(h)
  BY SameHandles DEF Fil!Read, Fil!Write, Fil!TurnedTransfer
<1> DEFINE s == stream[table[h]]
           size == disk[s.file]
<1>3. size \in Int /\ s.pos \in Int
  <2>1. size \in FilP!Extent /\ s.pos \in FilP!Extent
    BY <1>2, Assumed, FilP!FileFacts
  <2> QED BY <2>1 DEF FilP!Extent
<1>4. CASE Fil!Read(h, n)
  <2> DEFINE rest == Fil!Greatest(0, size - s.pos)
             got == IF s.mode = "wb" THEN 0 ELSE Fil!Least(n, rest)
  <2>1. FilP!Read(h, n)
    BY <1>4, SameFilReturn, SameHandles, SameMoved
       DEF Fil!Read, FilP!Read, Fil!Turned, FilP!Turned, Fil!Greatest, FilP!Greatest,
           Fil!Least, FilP!Least
  <2>2. Said("none", got) /\ table' = table
    BY <1>4, SameFilReturn, SameMoved DEF Fil!Read
  <2>3. got \in 0..n
    <3>1. rest \in Nat
      BY <1>3 DEF Fil!Greatest
    <3> HIDE DEF rest
    <3>2. Fil!Least(n, rest) \in 0..n
      BY <1>0, <3>1 DEF Fil!Least
    <3> QED BY <1>0, <3>2
  <2> HIDE DEF got
  <2> QED BY <1>0, <1>1, <2>1, <2>2, <2>3 DEF FilP!HandleCall
<1>5. CASE Fil!Write(h, n)
  <2>1. FilP!Write(h, n)
    BY <1>5, SameFilReturn, SameHandles, SameMoved
       DEF Fil!Write, FilP!Write, Fil!Turned, FilP!Turned, Fil!Greatest, FilP!Greatest,
           Fil!Least, FilP!Least
  <2>2. PICK put \in IF s.mode = "rb" THEN {0} ELSE 0..Fil!Least(n, MaxSize - s.pos) :
          Said("none", put) /\ table' = table
    BY <1>5, SameFilReturn, SameMoved DEF Fil!Write
  <2>3. put \in 0..n
    <3>1. MaxSize - s.pos \in Int
      BY <1>3, Assumed DEF FilP!FileAssumption
    <3>2. Fil!Least(n, MaxSize - s.pos) <= n /\ Fil!Least(n, MaxSize - s.pos) \in Int
      BY <1>0, <3>1 DEF Fil!Least
    <3>3. put = 0 \/ put \in 0..Fil!Least(n, MaxSize - s.pos)
      BY <2>2
    <3> QED BY <1>0, <3>2, <3>3
  <2> QED BY <1>0, <1>1, <2>1, <2>2, <2>3 DEF FilP!HandleCall
<1>6. CASE Fil!TurnedTransfer(h, op, n)
  <2>1. FilP!TurnedTransfer(h, op, n) /\ (\E v \in 0..n : Said("none", v)) /\ table' = table
    BY <1>6, SameFilReturn, SameHandles, SameMoved
       DEF Fil!TurnedTransfer, FilP!TurnedTransfer, Fil!Turned, FilP!Turned,
           Fil!Extent, FilP!Extent
  <2> QED BY <1>0, <1>1, <2>1 DEF FilP!HandleCall
<1> QED BY <1>4, <1>5, <1>6

\* A seek answers with a position in the range of positions.
LEMMA SeekCall ==
  ASSUME FilP!IInv, NEW h \in 0..MaxFiles, NEW d \in (-(2^32))..(2^32), NEW origin \in Nat,
         Fil!Seek(h, d, origin)
  PROVE  FilP!Next /\ (\E v \in 0..MaxSize : Said("none", v)) /\ table' = table
<1> DEFINE from == IF origin \in 0..2 THEN origin ELSE 3
           s == stream[table[h]]
           t == Fil!Target(h, d, origin)
           ok == origin \in 0..2 /\ t >= 0
           p == IF ok THEN t ELSE s.pos
<1>1. Fil!IsFile(h) /\ FilP!IsFile(h)
  BY SameHandles DEF Fil!Seek
<1>2. /\ p <= MaxSize /\ Fil!Moved(h, p, IF ok THEN "none" ELSE s.last, disk[s.file])
      /\ Fil!Return("none", h, p) /\ fil = "running"
  BY DEF Fil!Seek
<1>3. /\ disk[s.file] \in 0..MaxSize /\ s.pos \in 0..MaxSize
      /\ MaxSize \in Nat /\ d \in Int
  <2>1. disk[s.file] \in FilP!Extent /\ s.pos \in FilP!Extent
    BY <1>1, Assumed, FilP!FileFacts
  <2> QED BY <2>1, Assumed DEF FilP!Extent, FilP!FileAssumption
<1>4. p \in 0..MaxSize
  <2>1. t \in Int
    BY <1>3 DEF Fil!Target
  <2> HIDE DEF t
  <2> QED BY <1>2, <1>3, <2>1
<1>5. FilP!Seek(h, d, from)
  <2>1. CASE origin \in 0..2
    <3>1. from = origin /\ FilP!Target(h, d, from) = t
      BY <2>1 DEF Fil!Target, FilP!Target
    <3>2. /\ FilP!Moved(h, p, IF ok THEN "none" ELSE s.last, disk[s.file])
          /\ FilP!Return("none", h, p)
      BY <1>2, SameMoved, SameFilReturn
    <3> HIDE DEF t
    <3> QED BY <1>1, <1>2, <2>1, <3>1, <3>2 DEF FilP!Seek
  <2>2. CASE origin \notin 0..2
    <3>1. from = 3 /\ from \notin 0..2 /\ p = s.pos /\ ~ok
      BY <2>2
    <3>2. s.pos <= MaxSize /\ FilP!Moved(h, s.pos, s.last, disk[s.file])
          /\ FilP!Return("none", h, s.pos)
      BY <1>2, <3>1, SameMoved, SameFilReturn
    <3> HIDE DEF from
    <3> QED BY <1>1, <1>2, <3>1, <3>2 DEF FilP!Seek
  <2> QED BY <2>1, <2>2
<1>6. h \in FilP!AnyHandle /\ d \in FilP!Offset /\ from \in 0..3
  BY DEF FilP!AnyHandle, FilP!Offset
<1>7. FilP!Next
  BY <1>5, <1>6 DEF FilP!Next, FilP!HandleCall
<1>8. Said("none", p) /\ table' = table
  BY <1>2, SameMoved, SameFilReturn
<1> HIDE DEF p
<1> QED BY <1>4, <1>7, <1>8

\* The two calls that stop the emulator.
LEMMA StopCalls ==
  ASSUME NEW h \in 0..MaxFiles
  PROVE  /\ Fil!StdCrash(h) => FilP!Next /\ fil' = "crashed" /\ table' = table
         /\ Fil!Exit => FilP!Next /\ fil' = "exited" /\ table' = table
<1>1. Fil!StdCrash(h) => FilP!StdCrash(h) /\ fil' = "crashed" /\ table' = table
  BY SameHandles DEF Fil!StdCrash, FilP!StdCrash
<1>2. Fil!Exit => FilP!Exit /\ fil' = "exited" /\ table' = table
  BY DEF Fil!Exit, FilP!Exit
<1>3. h \in FilP!AnyHandle
  BY DEF FilP!AnyHandle
<1> QED BY <1>1, <1>2, <1>3 DEF FilP!Next, FilP!HandleCall

-----------------------------------------------------------------------------
(* The invariant.                                                          *)

MemoryCalls == {\h48, \h49, \h4A}
TableCalls == {\h3C, \h3D, \h3E}      \* those that change what is held

\* What the program has once it concludes that what it asked is done, with the
\* paragraph p, or the handle h, in AX.
BlocksAfter(a, p) ==
  CASE Calls(a, {\h48}) -> view.blocks \union {[para |-> p, size |-> a.bw]}
    [] Calls(a, {\h49}) -> Without(view.blocks, a.es)
    [] Calls(a, {\h4A}) -> Without(view.blocks, a.es) \union {[para |-> a.es, size |-> a.bw]}
    [] OTHER -> view.blocks

FilesAfter(a, h) ==
  CASE Calls(a, {\h3C, \h3D}) -> view.files \union {h}
    [] Calls(a, {\h3E}) -> view.files \ {a.bw}
    [] OTHER -> view.files

\* The registers and the string reader keep to their types.
Typed ==
  /\ reg \in Register /\ asked \in Register /\ cf \in BOOLEAN
  /\ pc \in {"boot", "user", "dispatch", "read", "memory", "iret", "crashed", "exited"}
  /\ prog \in DOMAIN Programs /\ text \in Programs[prog].texts
  /\ \E f, b : view = [files |-> f, blocks |-> b]

Buffered ==
  /\ buf \in Seq(0..255) /\ room \in Nat /\ Len(buf) < room
  /\ ptr \in 0..(SegSize - 1)

\* Who is at work, and on what: the allocator only when it was asked, on what
\* the program asked.
AtWork ==
  /\ mem # "idle" => pc \in {"boot", "memory", "crashed"}
  /\ (pc = "crashed") <=> (mem = "crashed" \/ fil = "crashed")
  /\ (pc = "exited") <=> (fil = "exited")
  /\ pc \in {"dispatch", "read", "memory"} => reg = asked /\ asked \in Programs[prog].asks
  /\ pc = "memory" => Calls(reg, MemoryCalls) /\ (mem # "idle" => req = MemReq)
  /\ mem # "finished" /\ MemP!Empty(nodes) = {}

BlocksKnown ==
  /\ pc \in {"user", "dispatch", "read"} \/ (pc = "memory" /\ mem # "idle") =>
       MemP!Live(nodes) = view.blocks
  /\ pc = "memory" /\ mem = "idle" =>
       MemP!Live(nodes) = IF ret.err = "none" THEN BlocksAfter(asked, ret.ptr) ELSE view.blocks
  /\ pc = "iret" => MemP!Live(nodes) = IF cf THEN view.blocks ELSE BlocksAfter(asked, reg.aw)

FilesKnown ==
  /\ pc \in {"boot", "user", "dispatch", "read", "memory"} => FilP!Held = view.files
  /\ pc = "iret" => FilP!Held = IF cf THEN view.files ELSE FilesAfter(asked, reg.aw)

\* bios_init's allocation finds the arena as one free node.
Booting ==
  pc = "boot" =>
    IF mem = "idle" THEN MemP!Live(nodes) = {[para |-> ret.ptr, size |-> Internal]}
    ELSE /\ mem \in {"condense", "search"} /\ req = MemP!AllocReq(Internal)
         /\ nodes = << [para |-> 0, size |-> Total, in_use |-> FALSE] >>

IInv ==
  /\ Typed /\ Buffered /\ AtWork
  /\ MemP!IInv /\ FilP!IInv
  /\ BlocksKnown /\ FilesKnown /\ Booting

-----------------------------------------------------------------------------
(* Registers and answers.                                                  *)

\* A register that is set to a uint16 leaves the registers registers.
LEMMA SetRegister ==
  ASSUME NEW r \in Register, NEW v \in Uint16
  PROVE  /\ [r EXCEPT !.aw = v] \in Register /\ [r EXCEPT !.aw = v].aw = v
         /\ [r EXCEPT !.bw = v] \in Register
         /\ [r EXCEPT !.cw = v] \in Register
         /\ [r EXCEPT !.dw = v] \in Register
<1>1. [r EXCEPT !.aw = v] \in Register /\ [r EXCEPT !.aw = v].aw = v
  BY DEF Register
<1>2. [r EXCEPT !.bw = v] \in Register
  BY DEF Register
<1>3. [r EXCEPT !.cw = v] \in Register
  BY DEF Register
<1>4. [r EXCEPT !.dw = v] \in Register
  BY DEF Register
<1> QED BY <1>1, <1>2, <1>3, <1>4

LEMMA RegisterFields ==
  ASSUME NEW r \in Register
  PROVE  /\ r.aw \in Uint16 /\ r.bw \in Uint16 /\ r.cw \in Uint16
         /\ r.dw \in Uint16 /\ r.es \in Uint16
         /\ Ah(r) \in 0..255 /\ Al(r) \in 0..255
<1>1. r.aw \in Uint16 /\ r.bw \in Uint16 /\ r.cw \in Uint16 /\ r.dw \in Uint16 /\ r.es \in Uint16
  BY DEF Register
<1>2. \A v \in Uint16 : v \div 256 \in 0..255 /\ v % 256 \in 0..255
  BY DEF Uint16
<1> QED BY <1>1, <1>2 DEF Ah, Al

LEMMA Words == \A v : v \in Uint16 <=> v \in Nat /\ v < \h10000
BY SMT DEF Uint16

LEMMA SmallWords == \A v \in 0..255 : v \in Uint16
BY DEF Uint16

\* bios_ret, whatever it is called with.
LEMMA RetSets ==
  ASSUME NEW e \in {"none", "bad_func", "not_found", "no_handles", "invalid", "oom", "mba"},
         NEW r, reg \in Register, e = "none" => r \in Register, Ret(e, r)
  PROVE  /\ pc' = "iret" /\ reg' \in Register /\ cf' \in BOOLEAN
         /\ cf' <=> e # "none"
         /\ e = "none" => reg' = r
<1>1. DosErr[e] \in 0..255
  BY DEF DosErr
<1>2. DosErr[e] \in Uint16
  BY <1>1, SmallWords
<1>3. [reg EXCEPT !.aw = DosErr[e]] \in Register
  BY <1>2, SetRegister
<1> QED BY <1>3 DEF Ret

\* What a program concludes is what BlocksAfter and FilesAfter say.
LEMMA Concludes ==
  ASSUME \E f, b : view = [files |-> f, blocks |-> b], NEW a \in Register
  PROVE  Concluded(a) = [files |-> FilesAfter(a, reg.aw), blocks |-> BlocksAfter(a, reg.aw)]
<1>1. PICK f, b : view = [files |-> f, blocks |-> b]
  OBVIOUS
<1>2. view.files = f /\ view.blocks = b
  BY <1>1
<1>3. \A x : /\ [view EXCEPT !.files = x] = [files |-> x, blocks |-> b]
             /\ [view EXCEPT !.blocks = x] = [files |-> f, blocks |-> x]
  BY <1>1
<1>4. Ah(a) \in 0..255
  BY RegisterFields
<1>5. CASE Calls(a, {\h3C, \h3D})
  BY <1>2, <1>3, <1>4, <1>5 DEF Concluded, BlocksAfter, FilesAfter, Calls
<1>6. CASE Calls(a, {\h3E})
  BY <1>2, <1>3, <1>4, <1>6 DEF Concluded, BlocksAfter, FilesAfter, Calls
<1>7. CASE Calls(a, {\h48})
  BY <1>2, <1>3, <1>4, <1>7 DEF Concluded, BlocksAfter, FilesAfter, Calls
<1>8. CASE Calls(a, {\h49})
  BY <1>2, <1>3, <1>4, <1>8 DEF Concluded, BlocksAfter, FilesAfter, Calls
<1>9. CASE Calls(a, {\h4A})
  BY <1>2, <1>3, <1>4, <1>9 DEF Concluded, BlocksAfter, FilesAfter, Calls
<1>10. CASE ~Calls(a, {\h3C, \h3D, \h3E, \h48, \h49, \h4A})
  BY <1>1, <1>2, <1>10 DEF Concluded, BlocksAfter, FilesAfter, Calls
<1> QED BY <1>5, <1>6, <1>7, <1>8, <1>9, <1>10 DEF Calls

\* A call of another kind changes neither.
LEMMA NothingConcluded ==
  ASSUME NEW a, NEW x
  PROVE  /\ ~Calls(a, MemoryCalls) => BlocksAfter(a, x) = view.blocks
         /\ ~Calls(a, TableCalls) => FilesAfter(a, x) = view.files
BY DEF BlocksAfter, FilesAfter, Calls, MemoryCalls, TableCalls

-----------------------------------------------------------------------------
(* What the allocator and the file table do keeps their own invariants.    *)

LEMMA MemKeeps ==
  ASSUME MemP!IInv,
         MemP!Step \/ (\E r \in MemP!Calls : MemP!Call(r)) \/ UNCHANGED memVars
  PROVE  MemP!IInv'
<1>1. [MemP!Next]_(MemP!vars)
  BY DEF MemP!Next, MemP!vars, memVars
<1> QED BY <1>1, Assumed, MemP!NextIInv

LEMMA FilKeeps ==
  ASSUME FilP!IInv, FilP!Next \/ UNCHANGED filVars
  PROVE  FilP!IInv'
<1>1. [FilP!Next]_(FilP!vars)
  BY DEF FilP!vars, filVars
<1> QED BY <1>1, Assumed, FilP!NextIInv

\* A call that is answered at once, with the registers and the carry flag as
\* its handler leaves them: the allocator was not asked, and whatever became of
\* the handles is what the program will conclude.
LEMMA Served ==
  ASSUME IInv, pc \in {"dispatch", "read"}, pc' = "iret",
         UNCHANGED <<memVars, userVars>>, FilP!Next \/ UNCHANGED filVars, fil' = fil,
         reg' \in Register, cf' \in BOOLEAN,
         UNCHANGED readVars \/ FreeBuf,
         cf' \/ ~Calls(asked, MemoryCalls),
         FilP!Held' = IF cf' THEN view.files ELSE FilesAfter(asked, reg'.aw)
  PROVE  IInv'
<1>1. Typed'
  BY DEF IInv, Typed, userVars
<1>2. Buffered'
  <2>1. CASE UNCHANGED readVars
    BY <2>1 DEF IInv, Buffered, readVars
  <2>2. CASE FreeBuf
    <3>1. FirstRoom \in Nat \ {0} /\ 0 \in 0..(SegSize - 1)
      BY Int21Assumption
    <3>2. << >> \in Seq(0..255) /\ Len(<< >>) = 0
      OBVIOUS
    <3> QED BY <2>2, <3>1, <3>2 DEF Buffered, FreeBuf
  <2> QED BY <2>1, <2>2
<1>3. AtWork'
  BY DEF IInv, AtWork, memVars, userVars
<1>4. MemP!IInv' /\ FilP!IInv'
  BY MemKeeps, FilKeeps DEF IInv
<1>5. BlocksKnown'
  <2>1. MemP!Live(nodes)' = view'.blocks
    BY DEF IInv, BlocksKnown, memVars, userVars
  <2>2. ~cf' => BlocksAfter(asked, reg.aw)' = view'.blocks
    BY DEF BlocksAfter, Calls, MemoryCalls, userVars
  <2> QED BY <2>1, <2>2 DEF BlocksKnown
<1>6. FilesKnown'
  <2>1. FilesAfter(asked, reg.aw)' = FilesAfter(asked, reg'.aw)
    BY DEF FilesAfter, userVars
  <2> QED BY <2>1 DEF FilesKnown, userVars
<1>7. Booting'
  BY DEF Booting
<1> QED BY <1>1, <1>2, <1>3, <1>4, <1>5, <1>6, <1>7 DEF IInv

\* The same for a call that leaves the file table's slots alone.
LEMMA ServedQuietly ==
  ASSUME IInv, pc \in {"dispatch", "read"}, pc' = "iret",
         UNCHANGED <<memVars, userVars>>, FilP!Next \/ UNCHANGED filVars, fil' = fil,
         table' = table, reg' \in Register, cf' \in BOOLEAN,
         UNCHANGED readVars \/ FreeBuf,
         cf' \/ ~Calls(asked, MemoryCalls \union TableCalls)
  PROVE  IInv'
<1>1. FilP!Held' = view.files
  BY DEF IInv, FilesKnown, FilP!Held
<1>2. ~cf' => ~Calls(asked, MemoryCalls) /\ ~Calls(asked, TableCalls)
  BY DEF Calls
<1>3. ~cf' => FilesAfter(asked, reg'.aw) = view.files
  BY <1>2, NothingConcluded
<1> QED BY <1>1, <1>2, <1>3, Served

-----------------------------------------------------------------------------
(* The calls that are answered at once.                                    *)

\* A handler works on the registers the program loaded.
LEMMA Handled ==
  ASSUME IInv, pc \in {"dispatch", "read", "memory"}
  PROVE  /\ reg = asked /\ reg \in Register /\ asked \in Programs[prog].asks
         /\ prog \in DOMAIN Programs /\ cf \in BOOLEAN
         /\ FilP!IInv /\ FilP!Held = view.files
BY DEF IInv, Typed, AtWork, FilesKnown

LEMMA OtherCalls ==
  ASSUME NEW a,
         Calls(a, {\h02, \h09, \h25, \h2A, \h2C, \h30, \h35, \h3B, \h3F, \h40, \h42, \h43, \h44})
  PROVE  ~Calls(a, MemoryCalls \union TableCalls)
<1>1. Ah(a) \in {\h02, \h09, \h25, \h2A, \h2C, \h30, \h35, \h3B, \h3F, \h40, \h42, \h43, \h44}
  BY DEF Calls
<1>2. Ah(a) \notin MemoryCalls \union TableCalls
  BY <1>1 DEF MemoryCalls, TableCalls
<1> QED BY <1>2 DEF Calls

LEMMA FallbackKeeps == ASSUME IInv, Fallback PROVE IInv'
<1>1. reg \in Register /\ pc = "dispatch"
  BY Handled DEF Fallback
<1>2. pc' = "iret" /\ reg' \in Register /\ cf' = TRUE
  BY <1>1, RetSets DEF Fallback
<1> QED BY <1>1, <1>2, ServedQuietly DEF Fallback, filVars

LEMMA PlainCallsKeep ==
  ASSUME IInv, WriteChar \/ GetDate \/ GetTime \/ GetVersion \/ Vectors
  PROVE  IInv'
<1>1. /\ pc = "dispatch" /\ pc' = "iret" /\ cf' = cf
      /\ UNCHANGED <<memVars, filVars, readVars, userVars>>
      /\ Calls(reg, {\h02, \h25, \h2A, \h2C, \h30, \h35})
  BY DEF WriteChar, GetDate, GetTime, GetVersion, Vectors, Handling, Leave, Calls
<1>2. reg = asked /\ reg \in Register /\ cf \in BOOLEAN
  BY <1>1, Handled
<1>3. reg' \in Register
  <2>1. reg.dw % 256 \in Uint16 /\ 0 \in Uint16 /\ 5 \in Uint16 /\ 0..6 \subseteq Uint16
    <3>1. reg.dw \in Nat
      BY <1>2, RegisterFields, Words
    <3>2. reg.dw % 256 \in 0..255
      BY <3>1
    <3> QED BY <3>2, SmallWords
  <2>2. Clock \subseteq Uint16
    BY Int21Assumption
  <2>3. CASE WriteChar
    <3> DEFINE dl == reg.dw % 256
    <3>1. reg' = [reg EXCEPT !.aw = dl]
      BY <2>3 DEF WriteChar, Leave
    <3>2. dl \in Uint16
      BY <2>1
    <3> HIDE DEF dl
    <3> QED BY <1>2, <3>1, <3>2, SetRegister
  <2>4. CASE GetDate
    <3>1. PICK day \in 0..6, year \in Clock, date \in Clock :
            reg' = [reg EXCEPT !.aw = day, !.cw = year, !.dw = date]
      BY <2>4 DEF GetDate, Leave
    <3>2. day \in Uint16 /\ year \in Uint16 /\ date \in Uint16
      BY <2>1, <2>2
    <3> QED BY <1>2, <3>1, <3>2 DEF Register
  <2>5. CASE GetTime
    <3>1. PICK time \in Clock, seconds \in Clock :
            reg' = [reg EXCEPT !.cw = time, !.dw = seconds]
      BY <2>5 DEF GetTime, Leave
    <3>2. time \in Uint16 /\ seconds \in Uint16
      BY <2>2
    <3> QED BY <1>2, <3>1, <3>2 DEF Register
  <2>6. CASE GetVersion
    <3> DEFINE r == [reg EXCEPT !.bw = 0]
    <3>1. reg' = [r EXCEPT !.aw = 5]
      BY <2>6 DEF GetVersion, Leave
    <3>2. r \in Register
      BY <1>2, <2>1, SetRegister
    <3> HIDE DEF r
    <3> QED BY <2>1, <3>1, <3>2, SetRegister
  <2>7. CASE Vectors
    BY <1>2, <2>7 DEF Vectors, Leave
  <2> QED BY <2>3, <2>4, <2>5, <2>6, <2>7
<1>4. Calls(asked, {\h02, \h09, \h25, \h2A, \h2C, \h30, \h35, \h3B, \h3F, \h40, \h42, \h43, \h44})
  BY <1>1, <1>2 DEF Calls
<1>5. ~Calls(asked, MemoryCalls \union TableCalls)
  BY <1>4, OtherCalls
<1> QED BY <1>1, <1>2, <1>3, <1>5, ServedQuietly DEF filVars

LEMMA WriteStringKeeps == ASSUME IInv, WriteString PROVE IInv'
<1>1. pc = "read" /\ pc' = "iret" /\ cf' = cf /\ Calls(reg, {\h09})
  BY DEF WriteString, HasRead, Leave
<1>2. reg = asked /\ reg \in Register /\ cf \in BOOLEAN
  BY <1>1, Handled
<1>3. reg' \in Register
  <2>1. Dollar \in Uint16
    BY DEF Dollar, Uint16
  <2> QED BY <1>2, <2>1, SetRegister DEF WriteString, Leave
<1>4. ~Calls(asked, MemoryCalls \union TableCalls)
  <2>1. Calls(asked, {\h02, \h09, \h25, \h2A, \h2C, \h30, \h35, \h3B, \h3F, \h40, \h42, \h43, \h44})
    BY <1>1, <1>2 DEF Calls
  <2> QED BY <2>1, OtherCalls
<1> QED BY <1>1, <1>2, <1>3, <1>4, ServedQuietly DEF WriteString, filVars

LEMMA ChangeDirKeeps == ASSUME IInv, ChangeDir PROVE IInv'
<1>1. pc = "read" /\ Calls(reg, {\h3B})
  BY DEF ChangeDir, HasRead
<1>2. reg = asked /\ reg \in Register
  BY <1>1, Handled
<1>3. pc' = "iret" /\ reg' \in Register /\ cf' \in BOOLEAN
  BY <1>2, RetSets DEF ChangeDir
<1>4. ~Calls(asked, MemoryCalls \union TableCalls)
  <2>1. Calls(asked, {\h02, \h09, \h25, \h2A, \h2C, \h30, \h35, \h3B, \h3F, \h40, \h42, \h43, \h44})
    BY <1>1, <1>2 DEF Calls
  <2> QED BY <2>1, OtherCalls
<1> QED BY <1>1, <1>3, <1>4, ServedQuietly DEF ChangeDir, filVars

-----------------------------------------------------------------------------
(* The file calls.                                                         *)

LEMMA NamedHandle ==
  ASSUME reg \in Register
  PROVE  Named \in 0..MaxFiles /\ (Named # MaxFiles => Named = reg.bw)
<1>1. reg.bw \in Nat
  BY RegisterFields, Words
<1>2. MaxFiles \in Nat
  BY Assumed DEF FilP!FileAssumption
<1>3. reg.bw < MaxFiles => reg.bw \in 0..MaxFiles
  BY <1>1, <1>2
<1> QED BY <1>2, <1>3 DEF Named

\* An int32 is one of the offsets DosFiles_proofs allows.
LEMMA Int32 ==
  ASSUME NEW cw \in Uint16, NEW dw \in Uint16
  PROVE  Offset(cw, dw) \in (-(2^32))..(2^32)
<1> DEFINE Signed(w) == IF w >= \h8000 THEN w - \h10000 ELSE w
<1>1. \A w \in Nat : w < \h10000 =>
        Signed(w) \in Int /\ Signed(w) >= -\h8000 /\ Signed(w) < \h8000
  BY SMT
<1>2. \A v \in Int, w \in Nat : v >= -\h8000 /\ v < \h8000 /\ w < \h10000 =>
        LET n == v * \h10000 + w IN n \in Int /\ n >= -(2^32) /\ n <= 2^32
  BY SMT
<1>3. /\ cw \in Nat /\ cw < \h10000
      /\ dw \in Nat /\ dw < \h10000
  BY Words
<1> DEFINE n == Signed(cw) * \h10000 + dw
<1>4. Offset(cw, dw) = n
  BY DEF Offset
<1> HIDE DEF Signed
<1>5. n \in Int /\ n >= -(2^32) /\ n <= 2^32
  BY <1>1, <1>2, <1>3, SMT
<1> HIDE DEF n
<1>6. n \in (-(2^32))..(2^32)
  BY <1>5, SMT
<1> QED BY <1>4, <1>6

\* The two words of a file position are uint16s.
LEMMA PositionWords ==
  ASSUME NEW v \in 0..MaxSize
  PROVE  v % \h10000 \in Uint16 /\ v \div \h10000 \in Uint16
<1>1. MaxSize \in Nat /\ MaxSize \div \h10000 < \h10000
  BY Int21Assumption, SMT
<1>2. \A n, m \in Nat : n <= m /\ m \div \h10000 < \h10000 =>
        /\ n % \h10000 \in Nat /\ n % \h10000 < \h10000
        /\ n \div \h10000 \in Nat /\ n \div \h10000 < \h10000
  BY SMT
<1>3. v \in Nat /\ v <= MaxSize
  BY <1>1, SMT
<1> QED BY <1>1, <1>2, <1>3, Words

\* A call on a handle or a name that leaves the slots of the table alone.
LEMMA FileCallKeeps ==
  ASSUME IInv, pc \in {"dispatch", "read"}, FilP!Next, table' = table,
         NEW e \in {"none", "not_found", "no_handles", "invalid"}, NEW v, Said(e, v),
         NEW r, e = "none" => r \in Register, Ret(answer'.err, r),
         UNCHANGED readVars \/ FreeBuf, UNCHANGED <<memVars, userVars>>,
         e # "none" \/ ~Calls(reg, MemoryCalls \union TableCalls)
  PROVE  IInv'
<1>1. reg = asked /\ reg \in Register
  BY Handled
<1>2. Ret(e, r) /\ fil' = fil
  BY DEF Said
<1>3. pc' = "iret" /\ reg' \in Register /\ cf' \in BOOLEAN /\ (cf' <=> e # "none")
  BY <1>1, <1>2, RetSets
<1> QED BY <1>1, <1>2, <1>3, ServedQuietly

LEMMA FileAttrKeeps == ASSUME IInv, FileAttr PROVE IInv'
<1>1. pc = "read" /\ Calls(reg, {\h43})
  BY DEF FileAttr, HasRead
<1>2. reg = asked /\ reg \in Register /\ FilP!IInv
  BY <1>1, Handled
<1>3. PICK f \in Files : Fil!GetAttr(f)
  BY DEF FileAttr
<1>4. PICK e \in {"none", "not_found"} : FilP!Next /\ Said(e, 0) /\ table' = table
  BY <1>2, <1>3, NameCalls
<1>5. [reg EXCEPT !.aw = 0, !.cw = 0] \in Register
  <2>1. 0 \in Uint16
    BY DEF Uint16
  <2> QED BY <1>2, <2>1 DEF Register
<1>6. ~Calls(reg, MemoryCalls \union TableCalls)
  <2>1. Calls(reg, {\h02, \h09, \h25, \h2A, \h2C, \h30, \h35, \h3B, \h3F, \h40, \h42, \h43, \h44})
    BY <1>1 DEF Calls
  <2> QED BY <2>1, OtherCalls
<1>7. Ret(answer'.err, [reg EXCEPT !.aw = 0, !.cw = 0]) /\ FreeBuf
      /\ UNCHANGED <<memVars, userVars>>
  BY DEF FileAttr
<1> QED BY <1>1, <1>4, <1>5, <1>6, <1>7, FileCallKeeps

\* AH=3Fh, 40h, 42h and 44h.
LEMMA HandleCallsKeep ==
  ASSUME IInv, ReadFile \/ WriteFile \/ SeekFile \/ DeviceInfo
  PROVE  IInv'
<1>1. /\ pc = "dispatch" /\ Calls(reg, {\h3F, \h40, \h42, \h44})
      /\ UNCHANGED readVars /\ UNCHANGED <<memVars, userVars>>
  BY DEF ReadFile, WriteFile, SeekFile, DeviceInfo, Handling, Calls
<1>2. reg = asked /\ reg \in Register /\ FilP!IInv
  BY <1>1, Handled
<1>3. Named \in 0..MaxFiles /\ reg.cw \in Uint16 /\ reg.dw \in Uint16 /\ Al(reg) \in Nat
      /\ 0 \in Uint16
  <2>1. Al(reg) \in 0..255
    BY <1>2, RegisterFields
  <2> QED BY <1>2, <2>1, NamedHandle, RegisterFields DEF Uint16
<1>4. ~Calls(reg, MemoryCalls \union TableCalls)
  <2>1. Calls(reg, {\h02, \h09, \h25, \h2A, \h2C, \h30, \h35, \h3B, \h3F, \h40, \h42, \h43, \h44})
    BY <1>1 DEF Calls
  <2> QED BY <2>1, OtherCalls
<1>5. ASSUME NEW v \in 0..reg.cw PROVE Aw(v) \in Register
  <2>1. v \in Uint16
    BY <1>3 DEF Uint16
  <2> QED BY <1>2, <2>1, SetRegister DEF Aw
<1>6. ASSUME ReadFile \/ WriteFile PROVE IInv'
  <2>1. Ret(answer'.err, Aw(answer'.val))
    BY <1>6 DEF ReadFile, WriteFile
  <2>2. PICK e \in {"none", "invalid"}, v \in 0..reg.cw :
          FilP!Next /\ Said(e, v) /\ table' = table
    <3>1. \/ Fil!Invalid(Named) \/ Fil!ReadStd(Named) \/ Fil!WriteStd(Named, reg.cw)
          \/ Fil!Read(Named, reg.cw) \/ Fil!Write(Named, reg.cw)
          \/ \E op \in {"read", "write"} : Fil!TurnedTransfer(Named, op, reg.cw)
      BY <1>6 DEF ReadFile, WriteFile
    <3>2. 0 \in 0..reg.cw /\ reg.cw \in 0..reg.cw
      BY <1>3 DEF Uint16
    <3>3. CASE \/ Fil!Invalid(Named) \/ Fil!ReadStd(Named) \/ Fil!WriteStd(Named, reg.cw)
      BY <1>3, <3>2, <3>3, QuietCalls
    <3>4. CASE \/ Fil!Read(Named, reg.cw) \/ Fil!Write(Named, reg.cw)
               \/ \E op \in {"read", "write"} : Fil!TurnedTransfer(Named, op, reg.cw)
      BY <1>2, <1>3, <3>4, TransferCalls
    <3> QED BY <3>1, <3>3, <3>4
  <2>3. answer'.val = v
    BY <2>2 DEF Said
  <2>4. Ret(answer'.err, Aw(v)) /\ Aw(v) \in Register
    BY <1>5, <2>1, <2>3
  <2> QED BY <1>1, <1>4, <2>2, <2>4, FileCallKeeps
<1>7. CASE SeekFile
  <2> DEFINE R(v) == [reg EXCEPT !.aw = v % \h10000, !.dw = v \div \h10000]
  <2>1. Ret(answer'.err, R(answer'.val))
    BY <1>7 DEF SeekFile
  <2>2. Offset(reg.cw, reg.dw) \in (-(2^32))..(2^32)
    BY <1>3, Int32
  <2>3. PICK e \in {"none", "invalid"}, v \in 0..MaxSize :
          FilP!Next /\ Said(e, v) /\ table' = table
    <3>1. 0 \in 0..MaxSize
      BY Int21Assumption
    <3>2. CASE Fil!Invalid(Named)
      BY <1>3, <3>1, <3>2, QuietCalls
    <3>3. CASE Fil!Seek(Named, Offset(reg.cw, reg.dw), Al(reg))
      BY <1>2, <1>3, <2>2, <3>3, SeekCall
    <3> QED BY <1>7, <3>2, <3>3 DEF SeekFile
  <2>4. R(v) \in Register
    <3> DEFINE low == v % \h10000
               high == v \div \h10000
    <3>1. low \in Uint16 /\ high \in Uint16
      BY PositionWords
    <3>2. R(v) = [reg EXCEPT !.aw = low, !.dw = high]
      OBVIOUS
    <3> HIDE DEF low, high, R
    <3>3. [reg EXCEPT !.aw = low, !.dw = high] \in Register
      BY <1>2, <3>1 DEF Register
    <3> QED BY <3>2, <3>3
  <2>5. answer'.val = v
    BY <2>3 DEF Said
  <2>6. Ret(answer'.err, R(v))
    BY <2>1, <2>5
  <2> HIDE DEF R
  <2> QED BY <1>1, <1>4, <2>3, <2>4, <2>6, FileCallKeeps
<1>8. CASE DeviceInfo
  <2>1. FilP!Next /\ Said("none", 0) /\ table' = table
    BY <1>3, <1>8, QuietCalls DEF DeviceInfo
  <2>2. Ret(answer'.err, [reg EXCEPT !.dw = 0]) /\ [reg EXCEPT !.dw = 0] \in Register
    BY <1>2, <1>3, <1>8, <2>1, SetRegister DEF DeviceInfo, Said
  <2> QED BY <1>1, <1>4, <2>1, <2>2, FileCallKeeps
<1> QED BY <1>6, <1>7, <1>8

\* A call on a name that found no handle or no file tells so; one that opened a
\* file has put the handle into AX.
LEMMA CreateOrOpenKeeps == ASSUME IInv, CreateOrOpen PROVE IInv'
<1>1. /\ pc = "read" /\ Calls(reg, {\h3C, \h3D})
      /\ Ret(answer'.err, Aw(answer'.val))
      /\ FreeBuf /\ UNCHANGED <<memVars, userVars>>
  BY DEF CreateOrOpen, HasRead
<1>2. reg = asked /\ reg \in Register /\ FilP!IInv /\ FilP!Held = view.files
  BY <1>1, Handled
<1>3. ASSUME NEW v, Said("none", v) PROVE Ret("none", Aw(v)) /\ fil' = fil
  BY <1>1, <1>3 DEF Said
<1>4. CASE Fil!NoHandles \/ Fil!NotFound
  <2>1. PICK e \in {"no_handles", "not_found"} : FilP!Next /\ Said(e, 0) /\ table' = table
    BY <1>4, RefusedNames
  <2> QED BY <1>1, <2>1, FileCallKeeps
<1>5. ASSUME NEW f \in Files, Fil!Creat(f) \/ Fil!OpenCall(f, Al(reg) % 8)
      PROVE  IInv'
  <2>1. Al(reg) % 8 \in 0..7
    <3>1. Al(reg) \in Nat
      BY <1>2, RegisterFields
    <3> QED BY <3>1
  <2>2. PICK i \in 0..(MaxFiles - 1) :
          FilP!Next /\ Said("none", i) /\ FilP!Held' = FilP!Held \union {i}
    BY <1>2, <1>5, <2>1, NameCalls
  <2>3. Ret("none", Aw(i)) /\ fil' = fil
    BY <1>3, <2>2
  <2>4. Aw(i) \in Register /\ Aw(i).aw = i
    <3>1. MaxFiles \in Nat /\ MaxFiles < \h10000
      BY Int21Assumption, SMT
    <3>2. i \in Nat /\ i < \h10000
      BY <3>1, SMT
    <3>3. i \in Uint16
      BY <3>2, Words
    <3> QED BY <1>2, <3>3, SetRegister DEF Aw
  <2>5. pc' = "iret" /\ reg' \in Register /\ cf' = FALSE /\ reg'.aw = i
    BY <1>2, <2>3, <2>4, RetSets DEF Ret
  <2>6. FilP!Held' = FilesAfter(asked, reg'.aw)
    BY <1>1, <1>2, <2>2, <2>5 DEF FilesAfter, Calls
  <2>7. ~Calls(asked, MemoryCalls)
    BY <1>1, <1>2 DEF Calls, MemoryCalls
  <2> QED BY <1>1, <2>2, <2>3, <2>5, <2>6, <2>7, Served
<1> QED BY <1>4, <1>5 DEF CreateOrOpen

LEMMA CloseFileKeeps == ASSUME IInv, CloseFile PROVE IInv'
<1>1. /\ pc = "dispatch" /\ Calls(reg, {\h3E})
      /\ Ret(answer'.err, reg)
      /\ UNCHANGED readVars /\ UNCHANGED <<memVars, userVars>>
  BY DEF CloseFile, Handling
<1>2. /\ reg = asked /\ reg \in Register /\ FilP!IInv /\ FilP!Held = view.files
      /\ Named \in 0..MaxFiles
  BY <1>1, Handled, NamedHandle
<1>3. CASE Fil!Invalid(Named)
  <2>1. 0 \in Uint16
    BY Words
  <2>2. FilP!Next /\ Said("invalid", 0) /\ table' = table
    BY <1>2, <1>3, <2>1, QuietCalls
  <2> QED BY <1>1, <2>2, FileCallKeeps
<1>4. CASE Fil!Close(Named)
  <2>1. FilP!Next /\ Said("none", 0) /\ FilP!Held' = FilP!Held \ {Named}
    BY <1>2, <1>4, CloseCall
  <2>2. Ret("none", reg) /\ fil' = fil
    BY <1>1, <2>1 DEF Said
  <2>3. pc' = "iret" /\ reg' \in Register /\ cf' = FALSE
    BY <1>2, <2>2, RetSets DEF Ret
  <2>4. Named = asked.bw
    <3>1. Named \in 0..(MaxFiles - 1) /\ MaxFiles \in Nat
      BY <1>4, Assumed DEF Fil!Close, Fil!IsFile, Fil!Handle, FilP!FileAssumption
    <3>2. Named # MaxFiles
      BY <3>1
    <3> QED BY <1>2, <3>2, NamedHandle
  <2>5. FilP!Held' = FilesAfter(asked, reg'.aw)
    BY <1>1, <1>2, <2>1, <2>4 DEF FilesAfter, Calls
  <2>6. ~Calls(asked, MemoryCalls)
    BY <1>1, <1>2 DEF Calls, MemoryCalls
  <2> QED BY <1>1, <2>1, <2>2, <2>3, <2>5, <2>6, Served
<1> QED BY <1>3, <1>4 DEF CloseFile

-----------------------------------------------------------------------------
(* The string reader, and the calls that stop the emulator.                *)

LEMMA TextIsBytes ==
  ASSUME IInv
  PROVE  \A i \in 0..(SegSize - 1) : text[i] \in 0..255
<1>1. text \in [0..(SegSize - 1) -> 0..255]
  BY ProgramAssumption DEF IInv, Typed
<1> QED BY <1>1

\* A step of the string reader leaves everything but the reader alone.
LEMMA ReaderKeeps ==
  ASSUME IInv, pc \in {"dispatch", "read"}, pc' = "read",
         UNCHANGED <<memVars, filVars, userVars, reg, cf>>, Buffered'
  PROVE  IInv'
<1>1. Typed'
  BY DEF IInv, Typed, userVars
<1>2. AtWork'
  BY DEF IInv, AtWork, memVars, filVars, userVars
<1>3. MemP!IInv' /\ FilP!IInv'
  BY MemKeeps, FilKeeps DEF IInv
<1>4. BlocksKnown'
  <2>1. MemP!Live(nodes)' = view'.blocks
    BY DEF IInv, BlocksKnown, memVars, userVars
  <2> QED BY <2>1 DEF BlocksKnown
<1>5. FilesKnown'
  <2>1. FilP!Held' = view'.files
    BY DEF IInv, FilesKnown, FilP!Held, filVars, userVars
  <2> QED BY <2>1 DEF FilesKnown
<1>6. Booting'
  BY DEF Booting
<1> QED BY <1>1, <1>2, <1>3, <1>4, <1>5, <1>6 DEF IInv

LEMMA ReadStartKeeps == ASSUME IInv, ReadStart PROVE IInv'
<1>1. reg \in Register
  BY Handled DEF ReadStart
<1>2. reg.dw % SegSize \in 0..(SegSize - 1)
  <2>1. reg.dw \in Nat
    BY <1>1, RegisterFields, Words
  <2>2. SegSize \in Nat \ {0}
    BY Int21Assumption
  <2> QED BY <2>1, <2>2
<1>3. FirstRoom \in Nat \ {0}
  BY Int21Assumption
<1>4. << >> \in Seq(0..255) /\ Len(<< >>) = 0
  OBVIOUS
<1>5. Buffered'
  BY <1>2, <1>3, <1>4 DEF Buffered, ReadStart
<1> QED BY <1>5, ReaderKeeps DEF ReadStart

\* The buffer is always longer than what is in it.
LEMMA ReadByteKeeps == ASSUME IInv, ReadByte PROVE IInv'
<1>1. /\ buf \in Seq(0..255) /\ Len(buf) \in Nat /\ room \in Nat /\ Len(buf) < room
      /\ ptr \in 0..(SegSize - 1)
  BY DEF IInv, Buffered
<1>2. Here \in 0..255
  BY <1>1, TextIsBytes DEF Here
<1>3. ptr' \in 0..(SegSize - 1)
  <2>1. SegSize \in Nat \ {0}
    BY Int21Assumption
  <2>2. ptr + 1 \in Nat
    BY <1>1
  <2> QED BY <2>1, <2>2 DEF ReadByte
<1>4. buf' \in Seq(0..255) /\ Len(buf') \in Nat /\ Len(buf') <= Len(buf) + 1
  <2>1. Append(buf, Here) \in Seq(0..255) /\ Len(Append(buf, Here)) = Len(buf) + 1
    BY <1>1, <1>2
  <2>2. CASE buf' = buf
    BY <1>1, <2>2
  <2>3. CASE buf' = Append(buf, Here)
    BY <1>1, <2>1, <2>3
  <2>4. buf' = buf \/ buf' = Append(buf, Here)
    BY DEF ReadByte
  <2> QED BY <2>2, <2>3, <2>4
<1>5. room' \in Nat /\ Len(buf') < room'
  <2>1. room' = IF Len(buf') = room THEN 2 * room ELSE room
    BY DEF ReadByte
  <2> QED BY <1>1, <1>4, <2>1
<1>6. Buffered'
  BY <1>3, <1>4, <1>5 DEF Buffered
<1> QED BY <1>6, ReaderKeeps DEF ReadByte

\* The emulator stops: nobody concludes anything any more.
LEMMA StopsKeep ==
  ASSUME IInv, StdCrash \/ Exit
  PROVE  IInv'
<1>1. /\ pc = "dispatch" /\ pc' \in {"crashed", "exited"}
      /\ UNCHANGED <<memVars, readVars, userVars, reg, cf>>
  BY DEF StdCrash, Exit, Handling
<1>2. /\ FilP!Next /\ fil' \in {"crashed", "exited"}
      /\ pc' = "crashed" <=> fil' = "crashed"
  <2>1. Named \in 0..MaxFiles
    BY <1>1, Handled, NamedHandle
  <2>2. CASE StdCrash
    BY <2>1, <2>2, StopCalls DEF StdCrash
  <2>3. CASE Exit
    BY <2>1, <2>3, StopCalls DEF Exit
  <2> QED BY <2>2, <2>3
<1>3. Typed'
  BY <1>1 DEF IInv, Typed, userVars
<1>4. Buffered'
  BY <1>1 DEF IInv, Buffered, readVars
<1>5. AtWork'
  <2>1. mem = "idle"
    BY <1>1 DEF IInv, AtWork
  <2> QED BY <1>1, <1>2, <2>1 DEF IInv, AtWork, memVars
<1>6. MemP!IInv' /\ FilP!IInv'
  BY <1>1, <1>2, MemKeeps, FilKeeps DEF IInv
<1>7. BlocksKnown' /\ FilesKnown' /\ Booting'
  BY <1>1 DEF BlocksKnown, FilesKnown, Booting
<1> QED BY <1>3, <1>4, <1>5, <1>6, <1>7 DEF IInv

-----------------------------------------------------------------------------
(* The memory calls.                                                       *)

\* The request is one of those the allocator's proofs speak of, and for at
\* least a paragraph.
LEMMA Requests ==
  ASSUME NEW r \in Programs[prog].asks, prog \in DOMAIN Programs, reg = r,
         Calls(r, MemoryCalls)
  PROVE  MemReq \in MemP!Calls /\ (MemReq.op # "free" => MemReq.size > 0)
<1>1. r \in Register
  BY ProgramAssumption
<1>2. r.bw \in Nat /\ r.es \in Nat /\ Total \in Nat
  BY <1>1, RegisterFields, Words, Assumed DEF MemP!MemAssumption
<1>3. Ah(r) \in MemoryCalls
  BY DEF Calls
<1>4. CASE Ah(r) = \h48
  <2>1. Calls(r, {\h48, \h4A})
    BY <1>4 DEF Calls
  <2>2. r.bw \in 1..(Total - 1)
    BY <2>1, ProgramAssumption
  <2>3. MemReq = MemP!AllocReq(r.bw) /\ MemReq.op = "alloc" /\ MemReq.size = r.bw
    BY <1>4 DEF MemReq, Mem!AllocReq, MemP!AllocReq
  <2>4. r.bw \in MemP!Size /\ r.bw > 0
    BY <1>2, <2>2 DEF MemP!Size
  <2> QED BY <2>3, <2>4 DEF MemP!Calls
<1>5. CASE Ah(r) = \h49
  <2>1. Calls(r, {\h49, \h4A})
    BY <1>5 DEF Calls
  <2>2. r.es < Total
    BY <2>1, ProgramAssumption
  <2>3. MemReq = MemP!FreeReq(r.es) /\ MemReq.op = "free"
    BY <1>5 DEF MemReq, Mem!FreeReq, MemP!FreeReq
  <2>4. r.es \in MemP!Para
    BY <1>2, <2>2 DEF MemP!Para
  <2> QED BY <2>3, <2>4 DEF MemP!Calls
<1>6. CASE Ah(r) = \h4A
  <2>1. Calls(r, {\h48, \h4A}) /\ Calls(r, {\h49, \h4A})
    BY <1>6 DEF Calls
  <2>2. r.bw \in 1..(Total - 1) /\ r.es < Total
    BY <2>1, ProgramAssumption
  <2>3. MemReq = MemP!ResizeReq(r.bw, r.es) /\ MemReq.size = r.bw
    BY <1>6 DEF MemReq, Mem!ResizeReq, MemP!ResizeReq
  <2>4. r.bw \in MemP!Size /\ r.bw > 0 /\ r.es \in MemP!Para
    BY <1>2, <2>2 DEF MemP!Size, MemP!Para
  <2> QED BY <2>3, <2>4 DEF MemP!Calls
<1> QED BY <1>3, <1>4, <1>5, <1>6 DEF MemoryCalls

\* What the allocator's proofs say of the blocks after a request, the program
\* concludes of the call that made it.
LEMMA AfterTheCall ==
  ASSUME reg = asked, Calls(reg, MemoryCalls), NEW p, NEW live, live = view.blocks
  PROVE  MemP!After(MemReq, p, live) = BlocksAfter(asked, p)
<1>1. Ah(reg) \in MemoryCalls
  BY DEF Calls
<1>2. \A q : MemP!Others(live, q) = Without(view.blocks, q)
  BY DEF MemP!Others, Without
<1>3. CASE Ah(reg) = \h48
  BY <1>3 DEF MemP!After, MemReq, Mem!AllocReq, BlocksAfter, Calls
<1>4. CASE Ah(reg) = \h49
  BY <1>2, <1>4 DEF MemP!After, MemReq, Mem!FreeReq, BlocksAfter, Calls
<1>5. CASE Ah(reg) = \h4A
  BY <1>2, <1>5 DEF MemP!After, MemReq, Mem!ResizeReq, BlocksAfter, Calls
<1> QED BY <1>1, <1>3, <1>4, <1>5 DEF MemoryCalls

LEMMA MemCallKeeps == ASSUME IInv, MemCall PROVE IInv'
<1>1. /\ pc = "dispatch" /\ pc' = "memory" /\ Calls(reg, MemoryCalls)
      /\ Mem!Call(MemReq)
      /\ UNCHANGED <<filVars, readVars, userVars, reg, cf>>
  BY DEF MemCall, Handling, MemoryCalls
<1>2. /\ reg = asked /\ asked \in Programs[prog].asks /\ prog \in DOMAIN Programs
  BY <1>1, Handled
<1>3. MemReq \in MemP!Calls
  BY <1>1, <1>2, Requests
<1>4. MemP!Call(MemReq)
  BY <1>1, SameCall
<1>5. req' = MemReq /\ mem' \in {"find", "condense"} /\ nodes' = nodes
  BY <1>1 DEF Mem!Call
<1>6. Typed'
  BY <1>1 DEF IInv, Typed, userVars
<1>7. Buffered'
  BY <1>1 DEF IInv, Buffered, readVars
<1>8. AtWork'
  <2>1. MemReq' = MemReq
    BY <1>1 DEF MemReq
  <2>2. Calls(reg, MemoryCalls)'
    BY <1>1 DEF Calls, MemoryCalls
  <2>3. fil' = fil /\ fil \notin {"crashed", "exited"}
    BY <1>1 DEF IInv, AtWork, filVars
  <2>4. MemP!Empty(nodes)' = {}
    BY <1>5 DEF IInv, AtWork
  <2> QED BY <1>1, <1>2, <1>5, <2>1, <2>2, <2>3, <2>4 DEF AtWork, userVars
<1>9. MemP!IInv' /\ FilP!IInv'
  BY <1>1, <1>3, <1>4, MemKeeps, FilKeeps DEF IInv
<1>10. BlocksKnown'
  <2>1. MemP!Live(nodes)' = view'.blocks
    BY <1>1, <1>5 DEF IInv, BlocksKnown, userVars
  <2> QED BY <1>1, <1>5, <2>1 DEF BlocksKnown
<1>11. FilesKnown'
  <2>1. FilP!Held' = view'.files
    BY <1>1 DEF IInv, FilesKnown, FilP!Held, filVars, userVars
  <2> QED BY <1>1, <2>1 DEF FilesKnown
<1>12. Booting'
  BY <1>1 DEF Booting
<1> QED BY <1>6, <1>7, <1>8, <1>9, <1>10, <1>11, <1>12 DEF IInv

\* A step of the allocator on behalf of a program changes no block but by
\* returning, and then the blocks are what the program will conclude.
LEMMA MemStepKeeps == ASSUME IInv, MemStep PROVE IInv'
<1>1. /\ pc = "memory" /\ Mem!Step /\ MemP!Step
      /\ pc' = IF mem' = "crashed" THEN "crashed" ELSE pc
      /\ UNCHANGED <<filVars, readVars, userVars, reg, cf>>
  BY SameStep DEF MemStep
<1>2. /\ reg = asked /\ asked \in Programs[prog].asks /\ prog \in DOMAIN Programs
  BY <1>1, Handled
<1>3. MemP!IInv /\ MemP!IInv' /\ FilP!IInv /\ FilP!IInv'
  BY <1>1, MemKeeps, FilKeeps DEF IInv
<1>4. mem \in {"condense", "search", "find"}
  BY <1>1 DEF MemP!Step, MemP!Condense, MemP!CondenseMerge, MemP!CondenseAdvance,
              MemP!CondenseDone, MemP!AllocFail, MemP!NotFound, MemP!AllocFit, MemP!Free,
              MemP!Resize, MemP!ResizeCrash, MemP!ResizeNoRoom, MemP!ResizeGrow,
              MemP!ResizeShrink, MemP!Resizing
<1>5. Calls(reg, MemoryCalls) /\ req = MemReq /\ MemP!Empty(nodes) = {}
  BY <1>1, <1>4 DEF IInv, AtWork
<1>6. MemP!Empty(nodes') = {} /\ MemP!Tells
  <2>1. req.op # "free" => req.size > 0
    BY <1>2, <1>5, Requests
  <2> QED BY <1>1, <1>3, <1>5, <2>1, Assumed, MemP!StepTells
<1>7. MemP!Live(nodes) = view.blocks
  BY <1>1, <1>4 DEF IInv, BlocksKnown
<1>8. /\ mem' = "idle" => MemP!Live(nodes') = IF ret'.err = "none"
                                               THEN BlocksAfter(asked, ret'.ptr)
                                               ELSE view.blocks
      /\ mem' # "idle" => MemP!Live(nodes') = view.blocks /\ req' = req /\ mem' # "finished"
  <2>1. MemP!After(req, ret'.ptr, MemP!Live(nodes)) = BlocksAfter(asked, ret'.ptr)
    BY <1>2, <1>5, <1>7, AfterTheCall
  <2> QED BY <1>6, <1>7, <2>1 DEF MemP!Tells
<1>9. Typed'
  BY <1>1 DEF IInv, Typed, userVars
<1>10. Buffered'
  BY <1>1 DEF IInv, Buffered, readVars
<1>11. AtWork'
  <2>1. MemReq' = MemReq
    BY <1>1 DEF MemReq
  <2>2. Calls(reg, MemoryCalls)'
    BY <1>1, <1>5 DEF Calls, MemoryCalls
  <2>3. fil' = fil /\ fil \notin {"crashed", "exited"}
    BY <1>1 DEF IInv, AtWork, filVars
  <2>4. MemP!Empty(nodes)' = {}
    BY <1>6
  <2>5. mem' # "finished"
    BY <1>8
  <2> QED BY <1>1, <1>2, <1>5, <1>8, <2>1, <2>2, <2>3, <2>4, <2>5 DEF AtWork, userVars
<1>12. BlocksKnown'
  <2>1. BlocksAfter(asked, ret.ptr)' = BlocksAfter(asked, ret'.ptr)
    BY <1>1 DEF BlocksAfter, userVars
  <2>2. view' = view
    BY <1>1 DEF userVars
  <2> QED BY <1>1, <1>8, <2>1, <2>2 DEF BlocksKnown
<1>13. FilesKnown'
  <2>1. FilP!Held' = view'.files
    BY <1>1 DEF IInv, FilesKnown, FilP!Held, filVars, userVars
  <2> QED BY <1>1, <2>1 DEF FilesKnown
<1>14. Booting'
  BY <1>1 DEF Booting
<1> QED BY <1>3, <1>9, <1>10, <1>11, <1>12, <1>13, <1>14 DEF IInv

\* Only an allocation has anything to tell in AX.
LEMMA MemRetKeeps == ASSUME IInv, MemRet PROVE IInv'
<1> DEFINE r == IF Ah(reg) = \h48 THEN Aw(ret.ptr) ELSE reg
<1>1. /\ pc = "memory" /\ mem = "idle" /\ Ret(ret.err, r)
      /\ UNCHANGED <<memVars, filVars, readVars, userVars>>
  BY DEF MemRet
<1>2. reg = asked /\ reg \in Register /\ FilP!Held = view.files
  BY <1>1, Handled
<1>3. Calls(reg, MemoryCalls)
  BY <1>1 DEF IInv, AtWork
<1>4. ret.err \in {"none", "oom", "mba"} /\ ret.ptr \in MemP!Para
  <2>1. ret \in MemP!Reply
    BY DEF IInv, MemP!IInv, MemP!TypeOK
  <2> QED BY <2>1 DEF MemP!Reply
<1>5. ret.ptr \in Uint16
  <2>1. Total \in Nat /\ Total <= \h10000
    BY Int21Assumption, SMT
  <2>2. ret.ptr \in Nat /\ ret.ptr < \h10000
    BY <1>4, <2>1, SMT DEF MemP!Para
  <2> QED BY <2>2, Words
<1>6. r \in Register /\ (Ah(reg) = \h48 => r.aw = ret.ptr)
  <2>1. Aw(ret.ptr) \in Register /\ Aw(ret.ptr).aw = ret.ptr
    BY <1>2, <1>5, SetRegister DEF Aw
  <2> QED BY <1>2, <2>1
<1> HIDE DEF r
<1>7. /\ pc' = "iret" /\ reg' \in Register /\ cf' \in BOOLEAN
      /\ cf' <=> ret.err # "none"
      /\ ret.err = "none" => reg' = r
  BY <1>1, <1>2, <1>4, <1>6, RetSets
<1>8. Typed'
  BY <1>1, <1>7 DEF IInv, Typed, userVars
<1>9. Buffered'
  BY <1>1 DEF IInv, Buffered, readVars
<1>10. AtWork'
  BY <1>1, <1>7 DEF IInv, AtWork, memVars, filVars
<1>11. MemP!IInv' /\ FilP!IInv'
  BY <1>1, MemKeeps, FilKeeps DEF IInv
<1>12. BlocksKnown'
  <2>1. MemP!Live(nodes)' = MemP!Live(nodes)
    BY <1>1 DEF memVars
  <2>2. MemP!Live(nodes) = IF ret.err = "none" THEN BlocksAfter(asked, ret.ptr) ELSE view.blocks
    BY <1>1 DEF IInv, BlocksKnown
  <2>3. ret.err = "none" => BlocksAfter(asked, ret.ptr) = BlocksAfter(asked, reg'.aw)
    <3>1. CASE Ah(reg) = \h48
      BY <1>6, <1>7, <3>1
    <3>2. CASE Ah(reg) # \h48
      BY <1>2, <1>3, <3>2 DEF BlocksAfter, Calls, MemoryCalls
    <3> QED BY <3>1, <3>2
  <2>4. BlocksAfter(asked, reg.aw)' = BlocksAfter(asked, reg'.aw) /\ view' = view
    BY <1>1 DEF BlocksAfter, userVars
  <2> QED BY <1>7, <2>1, <2>2, <2>3, <2>4 DEF BlocksKnown
<1>13. FilesKnown'
  <2>1. FilP!Held' = view.files /\ view' = view
    BY <1>1, <1>2 DEF FilP!Held, filVars, userVars
  <2>2. FilesAfter(asked, reg.aw)' = view.files
    BY <1>1, <1>2, <1>3 DEF FilesAfter, Calls, MemoryCalls, userVars
  <2> QED BY <1>7, <2>1, <2>2 DEF FilesKnown
<1>14. Booting'
  BY <1>7 DEF Booting
<1> QED BY <1>8, <1>9, <1>10, <1>11, <1>12, <1>13, <1>14 DEF IInv

-----------------------------------------------------------------------------
(* The start, and the program itself.                                      *)

\* bios_init's allocation takes the first node of an arena that has one: it
\* cannot fail, and its block is all there is.
LEMMA BootStep ==
  ASSUME IInv, pc = "boot", mem # "idle", Mem!Step
  PROVE  /\ MemP!IInv' /\ MemP!Empty(nodes') = {}
         /\ \/ mem' = "search" /\ UNCHANGED <<nodes, req>>
            \/ mem' = "idle" /\ MemP!Live(nodes') = {[para |-> ret'.ptr, size |-> Internal]}
<1> DEFINE n == [para |-> 0, size |-> Total, in_use |-> FALSE]
<1>1. /\ mem \in {"condense", "search"} /\ req = MemP!AllocReq(Internal) /\ nodes = <<n>>
  BY DEF IInv, Booting
<1>2. MemP!Step /\ MemP!IInv /\ MemP!IInv' /\ MemP!Empty(nodes) = {}
  BY SameStep, MemKeeps DEF IInv, AtWork
<1>3. /\ Len(nodes) = 1 /\ DOMAIN nodes = {1}
      /\ nodes[1].in_use = FALSE /\ nodes[1].size = Total
  BY <1>1
<1>4. /\ req.op = "alloc" /\ req.size = Internal
      /\ Internal \in Nat /\ Total \in Nat /\ 0 < Internal /\ Internal <= Total
  BY <1>1, Assumed DEF MemP!AllocReq, MemP!MemAssumption
<1>5. /\ ~MemP!CondenseMerge /\ ~MemP!CondenseAdvance
  <2>1. mem = "condense" => cur = 1
    BY <1>2, <1>3 DEF MemP!IInv, MemP!TypeOK
  <2> QED BY <1>3, <2>1 DEF MemP!CondenseMerge, MemP!CondenseAdvance
<1>6. ~MemP!AllocFail
  BY <1>3, <1>4 DEF MemP!AllocFail, MemP!Fits
<1>7. ~MemP!NotFound /\ \A i : ~MemP!Free(i) /\ ~MemP!Resize(i)
  BY <1>1 DEF MemP!NotFound, MemP!Free, MemP!Resize, MemP!ResizeCrash, MemP!ResizeNoRoom,
              MemP!ResizeGrow, MemP!ResizeShrink, MemP!Resizing
<1>8. CASE MemP!CondenseDone
  BY <1>2, <1>4, <1>8 DEF MemP!CondenseDone
<1>9. ASSUME NEW i \in DOMAIN nodes, MemP!AllocFit(i)
      PROVE  /\ MemP!Empty(nodes') = {} /\ mem' = "idle"
             /\ MemP!Live(nodes') = {[para |-> ret'.ptr, size |-> Internal]}
  <2>1. MemP!Empty(nodes') = {} /\ MemP!Tells
    BY <1>2, <1>4, Assumed, MemP!StepTells
  <2>2. mem' = "idle" /\ ret'.err = "none"
    BY <1>9 DEF MemP!AllocFit, MemP!Return
  <2>3. MemP!Live(nodes) = {}
    BY <1>3 DEF MemP!Live
  <2>4. MemP!Live(nodes') = MemP!After(req, ret'.ptr, {})
    BY <2>1, <2>2, <2>3 DEF MemP!Tells
  <2>5. MemP!After(req, ret'.ptr, {}) = {[para |-> ret'.ptr, size |-> Internal]}
    BY <1>4 DEF MemP!After
  <2> QED BY <2>1, <2>2, <2>4, <2>5
<1> QED BY <1>2, <1>5, <1>6, <1>7, <1>8, <1>9 DEF MemP!Step, MemP!Condense

LEMMA BootKeeps == ASSUME IInv, Boot PROVE IInv'
<1>1. pc = "boot" /\ UNCHANGED <<filVars, readVars, reg, cf, shown, asked, prog, text>>
  BY DEF Boot
<1>2. Buffered'
  BY <1>1 DEF IInv, Buffered, readVars
<1>3. FilP!IInv' /\ FilP!Held' = view.files /\ fil' = fil /\ fil \notin {"crashed", "exited"}
  BY <1>1, FilKeeps DEF IInv, FilesKnown, FilP!Held, filVars, AtWork
<1>4. PICK f, b : view = [files |-> f, blocks |-> b]
  BY DEF IInv, Typed
<1>5. CASE mem = "idle"
  <2> DEFINE own == {[para |-> ret.ptr, size |-> Internal]}
  <2>1. pc' = "user" /\ UNCHANGED memVars /\ view' = [view EXCEPT !.blocks = own]
    BY <1>5 DEF Boot
  <2>2. MemP!Live(nodes) = own
    BY <1>1, <1>5 DEF IInv, Booting
  <2> HIDE DEF own
  <2>3. view' = [files |-> f, blocks |-> own] /\ view'.blocks = own /\ view'.files = view.files
    BY <1>4, <2>1
  <2>4. Typed'
    BY <1>1, <2>1, <2>3 DEF IInv, Typed
  <2>5. AtWork'
    BY <1>1, <1>3, <1>5, <2>1 DEF IInv, AtWork, memVars
  <2>6. MemP!IInv'
    BY <2>1, MemKeeps DEF IInv
  <2>7. BlocksKnown'
    BY <2>1, <2>2, <2>3 DEF BlocksKnown, memVars
  <2>8. FilesKnown'
    BY <1>3, <2>1, <2>3 DEF FilesKnown
  <2>9. Booting'
    BY <2>1 DEF Booting
  <2> QED BY <1>2, <1>3, <2>4, <2>5, <2>6, <2>7, <2>8, <2>9 DEF IInv
<1>6. CASE mem # "idle"
  <2>1. Mem!Step /\ pc' = pc /\ view' = view
    BY <1>6 DEF Boot
  <2>2. /\ MemP!IInv' /\ MemP!Empty(nodes') = {}
        /\ \/ mem' = "search" /\ UNCHANGED <<nodes, req>>
           \/ mem' = "idle" /\ MemP!Live(nodes') = {[para |-> ret'.ptr, size |-> Internal]}
    BY <1>1, <1>6, <2>1, BootStep
  <2>3. Typed'
    BY <1>1, <2>1 DEF IInv, Typed
  <2>4. AtWork'
    BY <1>1, <1>3, <2>1, <2>2 DEF AtWork
  <2>5. BlocksKnown'
    BY <1>1, <2>1 DEF BlocksKnown
  <2>6. FilesKnown'
    BY <1>1, <1>3, <2>1 DEF FilesKnown
  <2>7. Booting'
    BY <1>1, <1>6, <2>2 DEF IInv, Booting
  <2> QED BY <1>2, <1>3, <2>2, <2>3, <2>4, <2>5, <2>6, <2>7 DEF IInv
<1> QED BY <1>5, <1>6

LEMMA InterruptKeeps ==
  ASSUME IInv, NEW r \in Programs[prog].asks, NEW c \in BOOLEAN, Interrupt(r, c)
  PROVE  IInv'
<1>1. /\ pc = "user" /\ pc' = "dispatch" /\ reg' = r /\ cf' = c /\ asked' = r
      /\ UNCHANGED <<memVars, filVars, readVars, view, prog, text>>
  BY DEF Interrupt
<1>2. Typed'
  <2>1. r \in Register
    BY ProgramAssumption DEF IInv, Typed
  <2> QED BY <1>1, <2>1 DEF IInv, Typed
<1>3. Buffered'
  BY <1>1 DEF IInv, Buffered, readVars
<1>4. AtWork'
  BY <1>1 DEF IInv, AtWork, memVars, filVars
<1>5. MemP!IInv' /\ FilP!IInv'
  BY <1>1, MemKeeps, FilKeeps DEF IInv
<1>6. BlocksKnown'
  <2>1. MemP!Live(nodes)' = view'.blocks
    BY <1>1 DEF IInv, BlocksKnown, memVars
  <2> QED BY <1>1, <2>1 DEF BlocksKnown
<1>7. FilesKnown'
  <2>1. FilP!Held' = view'.files
    BY <1>1 DEF IInv, FilesKnown, FilP!Held, filVars
  <2> QED BY <1>1, <2>1 DEF FilesKnown
<1>8. Booting'
  BY <1>1 DEF Booting
<1> QED BY <1>2, <1>3, <1>4, <1>5, <1>6, <1>7, <1>8 DEF IInv

\* What the program concludes is so.
LEMMA ResumeKeeps == ASSUME IInv, Resume PROVE IInv'
<1>1. /\ pc = "iret" /\ pc' = "user" /\ reg' = Idle /\ cf' = FALSE /\ asked' = Idle
      /\ view' = IF cf THEN view ELSE Concluded(asked)
      /\ UNCHANGED <<memVars, filVars, readVars, prog, text>>
  BY DEF Resume
<1>2. Idle \in Register
  <2>1. 0 \in Uint16
    BY Words
  <2> QED BY <2>1 DEF Idle, Register
<1>3. /\ \E f, b : view' = [files |-> f, blocks |-> b]
      /\ view'.files = IF cf THEN view.files ELSE FilesAfter(asked, reg.aw)
      /\ view'.blocks = IF cf THEN view.blocks ELSE BlocksAfter(asked, reg.aw)
  <2>1. (\E f, b : view = [files |-> f, blocks |-> b]) /\ asked \in Register
    BY DEF IInv, Typed
  <2>2. CASE cf
    BY <1>1, <2>1, <2>2
  <2>3. CASE ~cf
    <3>1. view' = [files |-> FilesAfter(asked, reg.aw), blocks |-> BlocksAfter(asked, reg.aw)]
      BY <1>1, <2>1, <2>3, Concludes
    <3> QED BY <2>3, <3>1
  <2> QED BY <2>2, <2>3
<1>4. Typed'
  BY <1>1, <1>2, <1>3 DEF IInv, Typed
<1>5. Buffered'
  BY <1>1 DEF IInv, Buffered, readVars
<1>6. AtWork'
  BY <1>1 DEF IInv, AtWork, memVars, filVars
<1>7. MemP!IInv' /\ FilP!IInv'
  BY <1>1, MemKeeps, FilKeeps DEF IInv
<1>8. BlocksKnown'
  <2>1. MemP!Live(nodes)' = view'.blocks
    BY <1>1, <1>3 DEF IInv, BlocksKnown, memVars
  <2> QED BY <1>1, <2>1 DEF BlocksKnown
<1>9. FilesKnown'
  <2>1. FilP!Held' = view'.files
    BY <1>1, <1>3 DEF IInv, FilesKnown, FilP!Held, filVars
  <2> QED BY <1>1, <2>1 DEF FilesKnown
<1>10. Booting'
  BY <1>1 DEF Booting
<1> QED BY <1>4, <1>5, <1>6, <1>7, <1>8, <1>9, <1>10 DEF IInv

-----------------------------------------------------------------------------
(* The theorems.                                                           *)

\* The BIOS starts with the whole arena free and no file open.
THEOREM InitIInv == Init => IInv
<1> SUFFICES ASSUME Init PROVE IInv
  OBVIOUS
<1>1. /\ Mem!Init /\ Fil!Init /\ MemP!Init /\ FilP!Init
      /\ pc = "boot" /\ reg = Idle /\ cf = FALSE /\ asked = Idle
      /\ buf = << >> /\ ptr = 0 /\ room = FirstRoom
      /\ view = [files |-> {}, blocks |-> {}]
      /\ prog \in DOMAIN Programs /\ text \in Programs[prog].texts
  BY SameMemInit, SameFilInit DEF Init
<1>2. Typed
  <2>1. 0 \in Uint16
    BY Words
  <2>2. Idle \in Register
    BY <2>1 DEF Idle, Register
  <2> QED BY <1>1, <2>2 DEF Typed
<1>3. Buffered
  <2>1. FirstRoom \in Nat \ {0} /\ 0 \in 0..(SegSize - 1)
    BY Int21Assumption
  <2>2. << >> \in Seq(0..255) /\ Len(<< >>) = 0
    OBVIOUS
  <2> QED BY <1>1, <2>1, <2>2 DEF Buffered
<1>4. /\ nodes = << [para |-> 0, size |-> Total, in_use |-> FALSE] >>
      /\ mem = "condense" /\ req = MemP!AllocReq(Internal)
  BY <1>1 DEF MemP!Init
<1>5. AtWork
  <2>1. MemP!Empty(nodes) = {}
    BY <1>4 DEF MemP!Empty
  <2>2. fil = "running"
    BY <1>1 DEF FilP!Init
  <2> QED BY <1>1, <1>4, <2>1, <2>2 DEF AtWork
<1>6. MemP!IInv /\ FilP!IInv
  BY <1>1, Assumed, MemP!InitIInv, FilP!InitIInv
<1>7. BlocksKnown /\ Booting
  BY <1>1, <1>4 DEF BlocksKnown, Booting
<1>8. FilesKnown
  <2>1. FilP!Held = {}
    BY <1>1, Assumed DEF FilP!Init, FilP!Held, FilP!Handle, FilP!NoFile, FilP!StreamAssumption
  <2> QED BY <1>1, <2>1 DEF FilesKnown
<1> QED BY <1>2, <1>3, <1>5, <1>6, <1>7, <1>8 DEF IInv

\* Each step of the program, of a handler, of the string reader, of the
\* allocator and of bios_init keeps the invariant.
THEOREM NextIInv == IInv /\ [Next]_vars => IInv'
<1> SUFFICES ASSUME IInv, [Next]_vars PROVE IInv'
  OBVIOUS
<1>1. CASE Boot
  BY <1>1, BootKeeps
<1>2. CASE Answers
  <2>1. CASE Fallback
    BY <2>1, FallbackKeeps
  <2>2. CASE WriteChar \/ GetDate \/ GetTime \/ GetVersion \/ Vectors
    BY <2>2, PlainCallsKeep
  <2>3. CASE ReadStart
    BY <2>3, ReadStartKeeps
  <2>4. CASE ReadByte
    BY <2>4, ReadByteKeeps
  <2>5. CASE WriteString
    BY <2>5, WriteStringKeeps
  <2>6. CASE ChangeDir
    BY <2>6, ChangeDirKeeps
  <2>7. CASE CreateOrOpen
    BY <2>7, CreateOrOpenKeeps
  <2>8. CASE FileAttr
    BY <2>8, FileAttrKeeps
  <2>9. CASE CloseFile
    BY <2>9, CloseFileKeeps
  <2>10. CASE ReadFile \/ WriteFile \/ SeekFile \/ DeviceInfo
    BY <2>10, HandleCallsKeep
  <2>11. CASE StdCrash \/ Exit
    BY <2>11, StopsKeep
  <2>12. CASE MemCall
    BY <2>12, MemCallKeeps
  <2>13. CASE MemStep
    BY <2>13, MemStepKeeps
  <2>14. CASE MemRet
    BY <2>14, MemRetKeeps
  <2> QED BY <1>2, <2>1, <2>2, <2>3, <2>4, <2>5, <2>6, <2>7, <2>8, <2>9, <2>10, <2>11,
             <2>12, <2>13, <2>14 DEF Answers
<1>3. CASE Resume
  BY <1>3, ResumeKeeps
<1>4. ASSUME NEW r \in Programs[prog].asks, NEW c \in BOOLEAN, Interrupt(r, c)
      PROVE  IInv'
  BY <1>4, InterruptKeeps
<1>5. CASE UNCHANGED vars
  <2>1. UNCHANGED <<memVars, filVars, readVars, userVars, reg, cf, pc>>
    BY <1>5 DEF vars
  <2>2. Typed' /\ Buffered'
    BY <2>1 DEF IInv, Typed, Buffered, readVars, userVars
  <2>3. AtWork'
    BY <2>1 DEF IInv, AtWork, MemReq, memVars, filVars, userVars
  <2>4. MemP!IInv' /\ FilP!IInv'
    BY <2>1, MemKeeps, FilKeeps DEF IInv
  <2>5. BlocksKnown'
    BY <2>1 DEF IInv, BlocksKnown, BlocksAfter, memVars, userVars
  <2>6. FilesKnown'
    BY <2>1 DEF IInv, FilesKnown, FilesAfter, FilP!Held, filVars, userVars
  <2>7. Booting'
    BY <2>1 DEF IInv, Booting, memVars
  <2> QED BY <2>2, <2>3, <2>4, <2>5, <2>6, <2>7 DEF IInv
<1> QED BY <1>1, <1>2, <1>3, <1>4, <1>5 DEF Next, Serve

\* The invariant holds throughout, whatever the program asks in whatever order.
THEOREM Invariance == Spec => []IInv
BY InitIInv, NextIInv, PTL DEF Spec

\* Registers stay uint16s whatever the allocator, the file table and the host's
\* clock put into them, the string reader stays within its buffer, and the
\* allocator is at work only when it was asked.
THEOREM TypeCorrect == Spec => []TypeOK
<1>1. IInv => TypeOK
  <2> SUFFICES ASSUME IInv PROVE TypeOK
    OBVIOUS
  <2>1. Mem!TypeOK /\ Fil!TypeOK
    BY MemTyped, FilTyped DEF IInv
  <2> QED BY <2>1 DEF IInv, Typed, Buffered, AtWork, TypeOK
<1> QED BY <1>1, Invariance, PTL

\* Carry and AX alone tell any program that asks for no empty blocks
\* (ProgramAssumption), through any sequence of calls, exactly which handles
\* have a file and which blocks it owns.
THEOREM ViewAlwaysAgrees == Spec => []ViewAgrees
<1>1. IInv => ViewAgrees
  BY SameLive, SameHeld DEF IInv, BlocksKnown, FilesKnown, ViewAgrees
<1> QED BY <1>1, Invariance, PTL

-----------------------------------------------------------------------------
(* Sets of numbers, and functions that fold over a sequence.               *)

\* Every set of numbers has a least one.
LEMMA Least ==
  ASSUME NEW T \in SUBSET Nat, T # {}
  PROVE  \E x \in T : \A y \in T : x <= y
<1> DEFINE R == OpToRel(<, Nat)
<1>1. IsWellFoundedOn(R, Nat)
  BY NatLessThanWellFounded
<1>2. \A x, y \in Nat : x < y => <<x, y>> \in R
  BY DEF OpToRel
<1> HIDE DEF R
<1>3. PICK x \in T : \A y \in T : <<y, x>> \notin R
  BY <1>1, WFMin
<1>4. \A y \in T : x <= y
  <2> SUFFICES ASSUME NEW y \in T PROVE ~(y < x)
    OBVIOUS
  <2> QED BY <1>2, <1>3
<1> QED BY <1>3, <1>4

\* Min gives it, and it is the only one.
LEMMA MinIs ==
  ASSUME NEW T \in SUBSET Nat, NEW x \in T, \A y \in T : x <= y
  PROVE  Min(T) = x
<1>1. \A z \in T : (\A y \in T : z <= y) => z = x
  <2> SUFFICES ASSUME NEW z \in T, \A y \in T : z <= y PROVE z = x
    OBVIOUS
  <2>1. z <= x /\ x <= z /\ x \in Nat /\ z \in Nat
    OBVIOUS
  <2> QED BY <2>1
<1> QED BY <1>1 DEF Min

\* Induction, for sets of numbers.
LEMMA SetInduction ==
  ASSUME NEW S \in SUBSET Nat, 0 \in S, \A n \in S : n + 1 \in S
  PROVE  S = Nat
<1> SUFFICES ASSUME Nat \ S # {} PROVE FALSE
  OBVIOUS
<1>1. PICK x \in Nat \ S : \A y \in Nat \ S : x <= y
  BY Least
<1>2. x # 0 /\ x - 1 \in Nat /\ x - 1 \in S
  BY <1>1
<1> QED BY <1>1, <1>2

\* f has what a loop over 1..n has made of base.
Folds(f, base, step, n) == f[0] = base /\ \A i \in 1..n : f[i] = step[<<f[i - 1], i>>]

\* There is such a function for every step of the loop.
LEMMA Folded ==
  ASSUME NEW R, NEW base \in R, NEW n \in Nat, NEW step \in [R \X (1..n) -> R]
  PROVE  \E f \in [0..n -> R] : Folds(f, base, step, n)
<1> DEFINE S == {m \in Nat : m <= n => \E f \in [0..m -> R] : Folds(f, base, step, m)}
<1>1. 0 \in S
  <2> DEFINE f == [i \in 0..0 |-> base]
  <2>1. f \in [0..0 -> R] /\ Folds(f, base, step, 0)
    BY DEF Folds
  <2> QED BY <2>1
<1>2. ASSUME NEW m \in S PROVE m + 1 \in S
  <2>0. SUFFICES ASSUME m + 1 <= n PROVE \E f \in [0..(m + 1) -> R] : Folds(f, base, step, m + 1)
    OBVIOUS
  <2>1. PICK g \in [0..m -> R] : Folds(g, base, step, m)
    BY <2>0
  <2>2. /\ m \in 0..m /\ m + 1 \in 1..n /\ g[m] \in R
        /\ step[<<g[m], m + 1>>] \in R
    BY <2>0
  <2> DEFINE f == [i \in 0..(m + 1) |-> IF i = m + 1 THEN step[<<g[m], m + 1>>] ELSE g[i]]
  <2>3. f \in [0..(m + 1) -> R]
    BY <2>2
  <2>4. /\ \A i \in 0..m : f[i] = g[i]
        /\ f[m + 1] = step[<<g[m], m + 1>>]
    BY <2>2
  <2> HIDE DEF f
  <2>5. Folds(f, base, step, m + 1)
    <3>1. f[0] = base
      BY <2>1, <2>4 DEF Folds
    <3>2. ASSUME NEW i \in 1..(m + 1) PROVE f[i] = step[<<f[i - 1], i>>]
      <4>1. CASE i = m + 1
        <5>1. i - 1 = m
          BY <4>1
        <5> QED BY <2>2, <2>4, <4>1, <5>1
      <4>2. CASE i # m + 1
        <5>1. i \in 1..m /\ i - 1 \in 0..m /\ i \in 0..m
          BY <4>2
        <5>2. f[i] = g[i] /\ f[i - 1] = g[i - 1]
          BY <2>4, <5>1
        <5> QED BY <2>1, <5>1, <5>2 DEF Folds
      <4> QED BY <4>1, <4>2
    <3> QED BY <3>1, <3>2 DEF Folds
  <2> QED BY <2>3, <2>5
<1> HIDE DEF S
<1>3. n \in S
  <2>1. S \in SUBSET Nat
    BY DEF S
  <2> QED BY <1>1, <1>2, <2>1, SetInduction
<1> QED BY <1>3 DEF S

-----------------------------------------------------------------------------
(* Printing.                                                               *)

\* How far a scan has come.
Progress == [len : Nat, lead : BOOLEAN, stop : BOOLEAN]

\* A state of the scan.
At(n, l, s) == [len |-> n, lead |-> l, stop |-> s]

LEMMA AtWith ==
  ASSUME NEW n, NEW l, NEW s
  PROVE  /\ At(n, l, s).len = n /\ At(n, l, s).lead = l /\ At(n, l, s).stop = s
         /\ \A v : [At(n, l, s) EXCEPT !.len = v] = At(v, l, s)
         /\ \A v : [At(n, l, s) EXCEPT !.lead = v] = At(n, v, s)
         /\ \A v : [At(n, l, s) EXCEPT !.stop = v] = At(n, l, v)
<1>1. \A v : [At(n, l, s) EXCEPT !.len = v] = At(v, l, s)
  BY DEF At
<1>2. \A v : [At(n, l, s) EXCEPT !.lead = v] = At(n, v, s)
  BY DEF At
<1>3. \A v : [At(n, l, s) EXCEPT !.stop = v] = At(n, l, v)
  BY DEF At
<1>4. At(n, l, s).len = n /\ At(n, l, s).lead = l /\ At(n, l, s).stop = s
  BY Zenon DEF At
<1> QED BY <1>1, <1>2, <1>3, <1>4

\* The scan of one byte more.
LEMMA ScanIs ==
  ASSUME NEW n \in Nat, NEW l \in BOOLEAN, NEW s \in BOOLEAN, NEW b
  PROVE  \/ ~s /\ l /\ IsTrail(b) /\ Scan(At(n, l, s), b) = At(n + 2, FALSE, s)
         \/ ~s /\ ~l /\ IsLead(b) /\ Scan(At(n, l, s), b) = At(n, TRUE, s)
         \/ ~s /\ ~l /\ IsSingle(b) /\ Scan(At(n, l, s), b) = At(n + 1, l, s)
         \/ (s \/ (IF l THEN ~IsTrail(b) ELSE ~IsLead(b) /\ ~IsSingle(b)))
            /\ Scan(At(n, l, s), b) = At(n, l, TRUE)
<1> DEFINE c == At(n, l, s)
<1>1. /\ c.len = n /\ (c.lead <=> l) /\ (c.stop <=> s)
      /\ \A v : [c EXCEPT !.len = v] = At(v, l, s)
      /\ \A v : [c EXCEPT !.lead = v] = At(n, v, s)
      /\ \A v : [c EXCEPT !.stop = v] = At(n, l, v)
  BY AtWith
<1>2. \A v : [At(n + 2, l, s) EXCEPT !.lead = v] = At(n + 2, v, s)
  BY AtWith
<1> HIDE DEF c
<1>3. [c EXCEPT !.len = @ + 2, !.lead = FALSE] = At(n + 2, FALSE, s)
  <2>1. [c EXCEPT !.len = n + 2] = At(n + 2, l, s)
    BY <1>1
  <2>2. [[c EXCEPT !.len = n + 2] EXCEPT !.lead = FALSE] = At(n + 2, FALSE, s)
    BY <1>2, <2>1, Zenon
  <2> QED BY <1>1, <2>2, Zenon
<1>4. [c EXCEPT !.stop = TRUE] = At(n, l, TRUE)
  BY <1>1, Zenon
<1>5. [c EXCEPT !.lead = TRUE] = At(n, TRUE, s)
  BY <1>1, Zenon
<1>6. [c EXCEPT !.len = @ + 1] = At(n + 1, l, s)
  BY <1>1, Zenon
<1>7. ~(IsLead(b) /\ IsSingle(b))
  BY DEF IsLead, IsSingle
<1>8. ~s /\ l /\ IsTrail(b) => Scan(c, b) = At(n + 2, FALSE, s)
  BY <1>1, <1>3, Zenon DEF Scan
<1>9. ~s /\ ~l /\ IsLead(b) => Scan(c, b) = At(n, TRUE, s)
  BY <1>1, <1>5, <1>7, Zenon DEF Scan
<1>10. ~s /\ ~l /\ IsSingle(b) => Scan(c, b) = At(n + 1, l, s)
  BY <1>1, <1>6, <1>7, Zenon DEF Scan
<1>11. s \/ (IF l THEN ~IsTrail(b) ELSE ~IsLead(b) /\ ~IsSingle(b)) => Scan(c, b) = At(n, l, TRUE)
  BY <1>1, <1>4, Zenon DEF Scan
<1> QED BY <1>8, <1>9, <1>10, <1>11, Zenon DEF c

\* The whole buffer, and its beginnings.
LEMMA Beginnings ==
  ASSUME NEW S, NEW s \in Seq(S), NEW k \in 0..Len(s)
  PROVE  /\ SubSeq(s, 1, k) \in Seq(S) /\ Len(SubSeq(s, 1, k)) = k
         /\ \A i \in 1..k : SubSeq(s, 1, k)[i] = s[i]
         /\ IsPrefix(SubSeq(s, 1, k), s)
         /\ SubSeq(s, 1, Len(s)) = s
<1>1. SubSeq(s, 1, k) \in Seq(S) /\ Len(SubSeq(s, 1, k)) = k
  OBVIOUS
<1>2. \A i \in 1..k : SubSeq(s, 1, k)[i] = s[i]
  OBVIOUS
<1>3. SubSeq(s, 1, Len(s)) = s
  OBVIOUS
<1>4. SubSeq(SubSeq(s, 1, k), 1, k) = SubSeq(s, 1, k)
  OBVIOUS
<1> QED BY <1>1, <1>2, <1>3, <1>4 DEF IsPrefix

\* strlen stops at the first NUL or at the end.
LEMMA CStringIs ==
  ASSUME NEW s \in Seq(0..255)
  PROVE  \E k \in 0..Len(s) : /\ CString(s) = SubSeq(s, 1, k)
                              /\ (\A i \in 1..Len(s) : s[i] # Nul) => k = Len(s)
<1> DEFINE T == {i \in DOMAIN s : s[i] = Nul} \union {Len(s) + 1}
<1>1. /\ Len(s) \in Nat /\ DOMAIN s = 1..Len(s)
      /\ T \in SUBSET Nat /\ T # {} /\ Len(s) + 1 \in T
      /\ \A i \in T : i \in 1..(Len(s) + 1)
      /\ (\A i \in 1..Len(s) : s[i] # Nul) => \A i \in T : i = Len(s) + 1
  OBVIOUS
<1>2. CString(s) = SubSeq(s, 1, Min(T) - 1)
  BY DEF CString
<1> HIDE DEF T
<1>3. PICK x \in T : \A y \in T : x <= y
  BY <1>1, Least
<1>4. Min(T) = x
  BY <1>1, <1>3, MinIs
<1>5. x - 1 \in 0..Len(s)
  BY <1>1, <1>3
<1>6. CString(s) = SubSeq(s, 1, x - 1)
  BY <1>2, <1>4
<1>7. (\A i \in 1..Len(s) : s[i] # Nul) => x - 1 = Len(s)
  BY <1>1
<1> QED BY <1>5, <1>6, <1>7

\* The states of the scan of s up to each byte.
Scanned(f, s) ==
  /\ f \in [0..Len(s) -> Progress]
  /\ f[0] = At(0, FALSE, FALSE)
  /\ \A n \in 1..Len(s) : f[n] = Scan(f[n - 1], s[n])

LEMMA ScanTyped ==
  ASSUME NEW c \in Progress, NEW b, NEW d, d = Scan(c, b)
  PROVE  /\ d \in Progress
         /\ d.len + (IF d.lead THEN 1 ELSE 0) <= c.len + (IF c.lead THEN 1 ELSE 0) + 1
<1>1. PICK n \in Nat, l \in BOOLEAN, s \in BOOLEAN : c = At(n, l, s)
  BY DEF Progress, At
<1>2. \A m, k, t : At(m, k, t).len = m /\ (At(m, k, t).lead <=> k)
  BY AtWith
<1>3. \A m \in Nat, k \in BOOLEAN, t \in BOOLEAN : At(m, k, t) \in Progress
  BY DEF Progress, At
<1>4. \/ l /\ d = At(n + 2, FALSE, s)
      \/ ~l /\ d = At(n, TRUE, s)
      \/ ~l /\ d = At(n + 1, l, s)
      \/ d = At(n, l, TRUE)
  BY <1>1, ScanIs
<1>5. n + 2 \in Nat /\ n + 1 \in Nat /\ c.len = n /\ (c.lead <=> l)
  BY <1>1, <1>2
<1>6. d \in Progress
  BY <1>3, <1>4, <1>5
<1>7. \/ l /\ d.len = n + 2 /\ ~d.lead
      \/ ~l /\ d.len = n
      \/ ~l /\ d.len = n + 1 /\ ~d.lead
      \/ d.len = n /\ (d.lead <=> l)
  <2>1. /\ At(n + 2, FALSE, s).len = n + 2 /\ ~At(n + 2, FALSE, s).lead
        /\ At(n, TRUE, s).len = n
        /\ At(n + 1, l, s).len = n + 1 /\ (At(n + 1, l, s).lead <=> l)
        /\ At(n, l, TRUE).len = n /\ (At(n, l, TRUE).lead <=> l)
    BY <1>2
  <2> QED BY <1>4, <2>1
<1> QED BY <1>5, <1>6, <1>7

\* What is printed is what the scan has gone over.
LEMMA PrintedIs ==
  ASSUME NEW s \in Seq(0..255)
  PROVE  \E f : Scanned(f, CString(s)) /\ Printed(s) = SubSeq(s, 1, f[Len(CString(s))].len)
<1> DEFINE str == CString(s)
           R == Progress \X (1..Len(str))
           step == [x \in R |-> Scan(x[1], str[x[2]])]
           First == At(0, FALSE, FALSE)
           c[n \in 0..Len(str)] == IF n = 0 THEN [len |-> 0, lead |-> FALSE, stop |-> FALSE]
                                   ELSE Scan(c[n - 1], str[n])
<1>1. Printed(s) = SubSeq(s, 1, c[Len(str)].len)
  BY DEF Printed
<1>2. Len(str) \in Nat
  BY CStringIs, Beginnings
<1>3. step \in [R -> Progress]
  <2>1. \A x \in R : x[1] \in Progress
    OBVIOUS
  <2>2. \A x \in R : Scan(x[1], str[x[2]]) \in Progress
    BY <2>1, ScanTyped
  <2> QED BY <2>2
<1>4. First \in Progress
  BY DEF Progress, At
<1>5. \A d \in Progress, n \in 1..Len(str) : step[<<d, n>>] = Scan(d, str[n])
  OBVIOUS
<1> HIDE DEF step, First
<1>6. PICK f \in [0..Len(str) -> Progress] : Folds(f, First, step, Len(str))
  BY <1>2, <1>3, <1>4, Folded
<1>7. /\ f[0] = First
      /\ \A n \in 1..Len(str) : f[n] = Scan(f[n - 1], str[n])
  <2>1. ASSUME NEW n \in 1..Len(str) PROVE f[n] = Scan(f[n - 1], str[n])
    <3>1. n - 1 \in 0..Len(str)
      BY <1>2
    <3>2. f[n - 1] \in Progress
      BY <3>1
    <3> QED BY <1>5, <1>6, <3>2 DEF Folds
  <2> QED BY <1>6, <2>1 DEF Folds
<1> DEFINE G(g) == [n \in 0..Len(str) |-> IF n = 0 THEN [len |-> 0, lead |-> FALSE, stop |-> FALSE]
                                          ELSE Scan(g[n - 1], str[n])]
<1>8. f = G(f)
  <2>1. \A n \in 0..Len(str) : n = 0 \/ n \in 1..Len(str)
    BY <1>2
  <2> QED BY <1>7, <2>1 DEF First, At
<1>9. c = CHOOSE g : g = G(g)
  OBVIOUS
<1>10. c = G(c)
  BY <1>8, <1>9
<1> HIDE DEF c
<1>11. /\ c[0] = At(0, FALSE, FALSE)
       /\ \A n \in 1..Len(str) : c[n] = Scan(c[n - 1], str[n])
  <2>1. 0 \in 0..Len(str) /\ \A n \in 1..Len(str) : n \in 0..Len(str) /\ n # 0
    BY <1>2
  <2>2. c[0] = [len |-> 0, lead |-> FALSE, stop |-> FALSE]
    BY <1>10, <2>1, Zenon
  <2>3. \A n \in 1..Len(str) : c[n] = Scan(c[n - 1], str[n])
    BY <1>10, <2>1, Zenon
  <2> QED BY <2>2, <2>3, Zenon DEF At
<1> DEFINE S == {n \in Nat : n <= Len(str) => c[n] \in Progress}
<1>12. S = Nat
  <2>1. 0 \in S
    BY <1>4, <1>11 DEF First
  <2>2. ASSUME NEW n \in S PROVE n + 1 \in S
    <3> SUFFICES ASSUME n + 1 <= Len(str) PROVE c[n + 1] \in Progress
      OBVIOUS
    <3>1. n + 1 \in 1..Len(str) /\ (n + 1) - 1 = n /\ n <= Len(str)
      BY <1>2
    <3>2. c[n + 1] = Scan(c[n], str[n + 1]) /\ c[n] \in Progress
      BY <1>11, <3>1
    <3> QED BY <3>2, ScanTyped
  <2> HIDE DEF S
  <2>3. S \in SUBSET Nat
    BY DEF S
  <2> QED BY <2>1, <2>2, <2>3, SetInduction
<1>13. c \in [0..Len(str) -> Progress]
  <2>1. \A n \in 0..Len(str) : c[n] \in Progress
    BY <1>2, <1>12
  <2> QED BY <1>10, <2>1
<1>14. Scanned(c, str)
  BY <1>11, <1>13 DEF Scanned
<1> QED BY <1>1, <1>14

\* The scan never goes over more than there is.
LEMMA ScanWithin ==
  ASSUME NEW s, Len(s) \in Nat, NEW f, Scanned(f, s)
  PROVE  f[Len(s)].len \in 0..Len(s)
<1> DEFINE S == {n \in Nat : n <= Len(s) => f[n].len + (IF f[n].lead THEN 1 ELSE 0) <= n}
<1>1. 0 \in S
  <2>1. f[0].len = 0 /\ ~f[0].lead
    BY AtWith DEF Scanned
  <2> QED BY <2>1
<1>2. ASSUME NEW n \in S PROVE n + 1 \in S
  <2> SUFFICES ASSUME n + 1 <= Len(s)
               PROVE  f[n + 1].len + (IF f[n + 1].lead THEN 1 ELSE 0) <= n + 1
    OBVIOUS
  <2>1. n + 1 \in 1..Len(s) /\ (n + 1) - 1 = n /\ n \in 0..Len(s) /\ n + 1 \in 0..Len(s)
    OBVIOUS
  <2>2. f[n + 1] = Scan(f[n], s[n + 1]) /\ f[n] \in Progress /\ f[n + 1] \in Progress
    BY <2>1 DEF Scanned
  <2>3. f[n + 1].len + (IF f[n + 1].lead THEN 1 ELSE 0)
          <= f[n].len + (IF f[n].lead THEN 1 ELSE 0) + 1
    BY <2>2, ScanTyped
  <2>4. f[n].len + (IF f[n].lead THEN 1 ELSE 0) <= n
    BY <2>1
  <2>5. f[n].len \in Nat /\ f[n + 1].len \in Nat
    BY <2>2 DEF Progress
  <2> QED BY <2>3, <2>4, <2>5
<1> HIDE DEF S
<1>3. Len(s) \in S
  <2>1. S \in SUBSET Nat
    BY DEF S
  <2> QED BY <1>1, <1>2, <2>1, SetInduction
<1>4. f[Len(s)] \in Progress
  BY DEF Scanned
<1>5. f[Len(s)].len \in Nat
  BY <1>4 DEF Progress
<1> QED BY <1>3, <1>5 DEF S

\* Between two characters of a text comes a byte that is a character, or the
\* two bytes of one.
\* A byte that is a character begins none, and NUL is no part of any.
LEMMA Apart == /\ \A b : ~(IsLead(b) /\ IsSingle(b))
               /\ ~IsSingle(Nul) /\ ~IsLead(Nul) /\ ~IsTrail(Nul)
<1>1. \A b : ~(IsLead(b) /\ IsSingle(b))
  BY DEF IsLead, IsSingle
<1> QED BY <1>1 DEF IsLead, IsSingle, IsTrail, Nul

\* A character is one byte or two.
LEMMA CharIs ==
  ASSUME NEW t, IsChar(t)
  PROVE  \/ Len(t) = 1 /\ IsSingle(t[1])
         \/ Len(t) = 2 /\ IsLead(t[1]) /\ IsTrail(t[2])
<1>1. CASE Len(t) = 1
  BY <1>1 DEF IsChar
<1>2. CASE Len(t) = 2
  BY <1>2 DEF IsChar
<1>3. CASE Len(t) # 1 /\ Len(t) # 2
  BY <1>3 DEF IsChar
<1> QED BY <1>1, <1>2, <1>3

LEMMA NextChar ==
  ASSUME NEW s \in Seq(0..255), NEW cuts \in SUBSET (0..Len(s)), {0, Len(s)} \subseteq cuts,
         \A i, j \in cuts :
           i < j /\ (\A k \in cuts : k <= i \/ k >= j) => IsChar(SubSeq(s, i + 1, j)),
         NEW i \in cuts, i < Len(s)
  PROVE  \/ i + 1 \in cuts /\ IsSingle(s[i + 1])
         \/ /\ i + 1 \notin cuts /\ i + 2 \in cuts /\ i + 2 <= Len(s)
            /\ IsLead(s[i + 1]) /\ IsTrail(s[i + 2])
<1> DEFINE T == {k \in cuts : k > i}
<1>1. Len(s) \in Nat /\ i \in Nat /\ T \in SUBSET Nat /\ Len(s) \in T
  <2>1. Len(s) \in cuts /\ Len(s) \in Nat /\ cuts \in SUBSET Nat
    OBVIOUS
  <2> QED BY <2>1
<1>2. PICK j \in T : \A k \in T : j <= k
  BY <1>1, Least
<1>3. /\ j \in cuts /\ i < j /\ j \in Nat /\ j <= Len(s)
      /\ \A k \in cuts : k <= i \/ k >= j
  BY <1>1, <1>2
<1>4. PICK t : t = SubSeq(s, i + 1, j)
  OBVIOUS
<1>5. IsChar(t)
  BY <1>3, <1>4
<1>6. Len(t) = j - i /\ \A k \in 1..(j - i) : t[k] = s[i + k]
  BY <1>1, <1>3, <1>4
<1>7. CASE Len(t) = 1 /\ IsSingle(t[1])
  <2>1. j = i + 1 /\ 1 \in 1..(j - i)
    <3>1. j - i = 1
      BY <1>6, <1>7
    <3> QED BY <1>1, <1>3, <3>1
  <2> QED BY <1>3, <1>6, <1>7, <2>1
<1>8. CASE Len(t) = 2 /\ IsLead(t[1]) /\ IsTrail(t[2])
  <2>1. j = i + 2 /\ 1 \in 1..(j - i) /\ 2 \in 1..(j - i)
    <3>1. j - i = 2
      BY <1>6, <1>8
    <3> QED BY <1>1, <1>3, <3>1
  <2>2. i + 1 \notin cuts
    BY <1>1, <1>3, <2>1
  <2> QED BY <1>3, <1>6, <1>8, <2>1, <2>2
<1> QED BY <1>5, <1>7, <1>8, CharIs

\* Every place in a text is between two characters, or within one of two bytes.
LEMMA Places ==
  ASSUME NEW s \in Seq(0..255), NEW cuts \in SUBSET (0..Len(s)), {0, Len(s)} \subseteq cuts,
         \A i, j \in cuts :
           i < j /\ (\A k \in cuts : k <= i \/ k >= j) => IsChar(SubSeq(s, i + 1, j)),
         NEW n \in 0..Len(s), n \notin cuts
  PROVE  n - 1 \in cuts /\ n >= 1 /\ n < Len(s)
<1> DEFINE S == {m \in Nat : m <= Len(s) /\ m \notin cuts => m >= 1 /\ m - 1 \in cuts /\ m < Len(s)}
<1>1. Len(s) \in Nat
  OBVIOUS
<1>2. 0 \in S
  OBVIOUS
<1>3. ASSUME NEW m \in S PROVE m + 1 \in S
  <2>0. SUFFICES ASSUME m + 1 <= Len(s), m + 1 \notin cuts
                 PROVE m + 1 >= 1 /\ (m + 1) - 1 \in cuts /\ m + 1 < Len(s)
    OBVIOUS
  <2>1. (m + 1) - 1 = m /\ m < Len(s) /\ m + 1 < Len(s)
    BY <1>1, <2>0
  <2>2. m \in cuts
    <3> SUFFICES ASSUME m \notin cuts PROVE FALSE
      OBVIOUS
    <3>1. m - 1 \in cuts /\ m >= 1 /\ m - 1 < Len(s) /\ (m - 1) + 1 = m /\ (m - 1) + 2 = m + 1
      BY <2>1
    <3>2. \/ (m - 1) + 1 \in cuts
          \/ (m - 1) + 2 \in cuts
      BY <3>1, NextChar
    <3> QED BY <2>0, <3>1, <3>2
  <2> QED BY <2>1, <2>2
<1> HIDE DEF S
<1>4. n \in S
  <2>1. S \in SUBSET Nat
    BY DEF S
  <2>2. S = Nat
    BY <1>2, <1>3, <2>1, SetInduction
  <2> QED BY <2>2
<1> QED BY <1>4 DEF S

\* No byte of a text is NUL, and the scan goes over all of it.
LEMMA TextScanned ==
  ASSUME NEW s \in Seq(0..255), IsText(s)
  PROVE  /\ \A n \in 1..Len(s) : s[n] # Nul
         /\ \A f : Scanned(f, s) => f[Len(s)].len = Len(s)
<1>1. PICK cuts \in SUBSET (0..Len(s)) :
        /\ {0, Len(s)} \subseteq cuts
        /\ \A i, j \in cuts :
             i < j /\ (\A k \in cuts : k <= i \/ k >= j) => IsChar(SubSeq(s, i + 1, j))
  BY DEF IsText
<1>2. Len(s) \in Nat /\ 0 \in cuts /\ Len(s) \in cuts
  BY <1>1
<1>3. \A i \in cuts : i < Len(s) =>
        \/ i + 1 \in cuts /\ IsSingle(s[i + 1])
        \/ /\ i + 1 \notin cuts /\ i + 2 \in cuts /\ i + 2 <= Len(s)
           /\ IsLead(s[i + 1]) /\ IsTrail(s[i + 2])
  BY <1>1, NextChar
<1>4. \A n \in 0..Len(s) : n \notin cuts => n - 1 \in cuts /\ n >= 1 /\ n < Len(s)
  BY <1>1, Places
<1>5. \A b : IsSingle(b) \/ IsLead(b) \/ IsTrail(b) => b # Nul
  BY Apart
<1>6. ASSUME NEW n \in 0..(Len(s) - 1)
      PROVE  \/ n \in cuts /\ n + 1 \in cuts /\ IsSingle(s[n + 1])
             \/ n \in cuts /\ n + 1 \notin cuts /\ IsLead(s[n + 1])
             \/ n \notin cuts /\ n + 1 \in cuts /\ IsTrail(s[n + 1])
  <2>1. n \in Nat /\ n < Len(s) /\ n \in 0..Len(s)
    BY <1>2
  <2>2. CASE n \in cuts
    BY <1>3, <2>1, <2>2
  <2>3. CASE n \notin cuts
    <3>1. n - 1 \in cuts /\ n - 1 < Len(s) /\ (n - 1) + 1 = n /\ (n - 1) + 2 = n + 1
      BY <1>4, <2>1, <2>3
    <3>2. \/ (n - 1) + 1 \in cuts
          \/ (n - 1) + 2 \in cuts /\ IsTrail(s[(n - 1) + 2])
      BY <1>3, <3>1
    <3> QED BY <2>3, <3>1, <3>2
  <2> QED BY <2>2, <2>3
<1>7. ASSUME NEW n \in 1..Len(s) PROVE s[n] # Nul
  <2>1. n - 1 \in 0..(Len(s) - 1) /\ (n - 1) + 1 = n
    BY <1>2
  <2>2. IsSingle(s[(n - 1) + 1]) \/ IsLead(s[(n - 1) + 1]) \/ IsTrail(s[(n - 1) + 1])
    BY <1>6, <2>1
  <2> QED BY <1>5, <2>1, <2>2
<1>8. ASSUME NEW f, Scanned(f, s) PROVE f[Len(s)].len = Len(s)
  <2> DEFINE S == {n \in Nat : n <= Len(s) => f[n] = IF n \in cuts THEN At(n, FALSE, FALSE)
                                                     ELSE At(n - 1, TRUE, FALSE)}
  <2>1. 0 \in S
    BY <1>2, <1>8 DEF Scanned
  <2>2. ASSUME NEW n \in S PROVE n + 1 \in S
    <3>00. n + 1 \in Nat
      OBVIOUS
    <3>0. SUFFICES ASSUME n + 1 <= Len(s)
                   PROVE  f[n + 1] = IF n + 1 \in cuts THEN At(n + 1, FALSE, FALSE)
                                     ELSE At((n + 1) - 1, TRUE, FALSE)
      BY <3>00
    <3>1. /\ n \in 0..(Len(s) - 1) /\ n + 1 \in 1..Len(s) /\ (n + 1) - 1 = n /\ n \in 0..Len(s)
          /\ n \in Nat /\ n <= Len(s) /\ n + 1 \in Nat
      BY <1>2, <3>0
    <3>2. f[n + 1] = Scan(f[n], s[n + 1])
      BY <1>8, <3>1 DEF Scanned
    <3>3. f[n] = IF n \in cuts THEN At(n, FALSE, FALSE) ELSE At(n - 1, TRUE, FALSE)
      BY <3>1
    <3>4. ~(IsLead(s[n + 1]) /\ IsSingle(s[n + 1]))
      BY Apart
    <3>5. CASE n \in cuts /\ n + 1 \in cuts /\ IsSingle(s[n + 1])
      <4>1. Scan(At(n, FALSE, FALSE), s[n + 1]) = At(n + 1, FALSE, FALSE)
        BY <3>1, <3>4, <3>5, ScanIs
      <4> QED BY <3>2, <3>3, <3>5, <4>1
    <3>6. CASE n \in cuts /\ n + 1 \notin cuts /\ IsLead(s[n + 1])
      <4>1. Scan(At(n, FALSE, FALSE), s[n + 1]) = At(n, TRUE, FALSE)
        BY <3>1, <3>4, <3>6, ScanIs
      <4> QED BY <3>1, <3>2, <3>3, <3>6, <4>1
    <3>7. CASE n \notin cuts /\ n + 1 \in cuts /\ IsTrail(s[n + 1])
      <4>1. n - 1 \in Nat /\ (n - 1) + 2 = n + 1
        BY <1>4, <3>1, <3>7
      <4>2. Scan(At(n - 1, TRUE, FALSE), s[n + 1]) = At((n - 1) + 2, FALSE, FALSE)
        BY <3>7, <4>1, ScanIs
      <4> QED BY <3>2, <3>3, <3>7, <4>1, <4>2
    <3> QED BY <1>6, <3>1, <3>5, <3>6, <3>7
  <2> HIDE DEF S
  <2>3. S = Nat
    <3>1. S \in SUBSET Nat
      BY DEF S
    <3> QED BY <2>1, <2>2, <3>1, SetInduction
  <2>4. f[Len(s)] = At(Len(s), FALSE, FALSE)
    <3>1. Len(s) \in S
      BY <1>2, <2>3
    <3>2. Len(s) <= Len(s)
      BY <1>2
    <3> QED BY <1>2, <3>1, <3>2, Zenon DEF S
  <2>5. At(Len(s), FALSE, FALSE).len = Len(s)
    <3>1. \A m, k, t : At(m, k, t).len = m
      BY AtWith
    <3> QED BY <3>1, Zenon
  <2> QED BY <2>4, <2>5
<1> QED BY <1>7, <1>8

\* print_stdout shows the first bytes of a buffer, and a text as a whole.
LEMMA Prints ==
  ASSUME NEW s \in Seq(0..255)
  PROVE  IsPrefix(Printed(s), s) /\ (IsText(s) => Printed(s) = s)
<1>1. PICK k \in 0..Len(s) : /\ CString(s) = SubSeq(s, 1, k)
                             /\ (\A i \in 1..Len(s) : s[i] # Nul) => k = Len(s)
  BY CStringIs
<1>2. CString(s) \in Seq(0..255) /\ Len(CString(s)) = k /\ k \in Nat
  <2>1. SubSeq(s, 1, k) \in Seq(0..255) /\ Len(SubSeq(s, 1, k)) = k
    BY Beginnings
  <2> QED BY <1>1, <2>1
<1>3. PICK f : Scanned(f, CString(s)) /\ Printed(s) = SubSeq(s, 1, f[k].len)
  BY <1>2, PrintedIs
<1>4. f[k].len \in 0..k
  BY <1>2, <1>3, ScanWithin
<1>5. f[k].len \in 0..Len(s)
  BY <1>1, <1>4
<1>6. IsPrefix(Printed(s), s)
  BY <1>3, <1>5, Beginnings
<1>7. ASSUME IsText(s) PROVE Printed(s) = s
  <2>1. k = Len(s)
    BY <1>1, <1>7, TextScanned
  <2>2. 0 \in 0..Len(s) /\ CString(s) = s
    BY <1>1, <2>1, Beginnings
  <2>3. f[k].len = Len(s)
    BY <1>3, <1>7, <2>1, <2>2, TextScanned
  <2> QED BY <1>3, <2>2, <2>3, Beginnings
<1> QED BY <1>6, <1>7

-----------------------------------------------------------------------------
(* Offsets into a segment.                                                 *)

\* A number is what it leaves and a multiple.
LEMMA Leaves ==
  ASSUME NEW k \in Nat \ {0}, NEW p \in Int, NEW r \in 0..(k - 1)
  PROVE  (k * p + r) % k = r
<1> DEFINE x == k * p + r
<1>1. x \in Int
  OBVIOUS
<1>2. x = k * (x \div k) + (x % k) /\ x % k \in 0..(k - 1) /\ x \div k \in Int
  BY <1>1
<1>3. PICK q \in Int, s \in 0..(k - 1) : q = x \div k /\ s = x % k
  BY <1>2
<1>4. k * p + r = k * q + s
  BY <1>2, <1>3
<1> HIDE DEF x
<1>5. ~(q < p)
  <2> SUFFICES ASSUME q + 1 <= p PROVE FALSE
    OBVIOUS
  <2>1. p - q - 1 \in Nat
    OBVIOUS
  <2>2. k * (p - q - 1) >= 0
    BY <2>1
  <2>3. k * (p - q - 1) = k * p - k * q - k
    OBVIOUS
  <2>4. k * p \in Int /\ k * q \in Int
    OBVIOUS
  <2> QED BY <1>4, <2>2, <2>3, <2>4
<1>6. ~(p < q)
  <2> SUFFICES ASSUME p + 1 <= q PROVE FALSE
    OBVIOUS
  <2>1. q - p - 1 \in Nat
    OBVIOUS
  <2>2. k * (q - p - 1) >= 0
    BY <2>1
  <2>3. k * (q - p - 1) = k * q - k * p - k
    OBVIOUS
  <2>4. k * p \in Int /\ k * q \in Int
    OBVIOUS
  <2> QED BY <1>4, <2>2, <2>3, <2>4
<1>7. p = q
  BY <1>5, <1>6
<1>8. r = s
  BY <1>4, <1>7
<1> QED BY <1>3, <1>8 DEF x

\* An offset may wrap before as well as after n is added.
LEMMA Wraps ==
  ASSUME NEW k \in Nat \ {0}, NEW a \in Nat, NEW n \in Nat
  PROVE  (a + (n % k)) % k = (a + n) % k
<1>1. n = k * (n \div k) + (n % k) /\ n \div k \in Int /\ n % k \in 0..(k - 1)
  OBVIOUS
<1>2. PICK q \in Int, s \in 0..(k - 1) : q = n \div k /\ s = n % k
  BY <1>1
<1>3. n = k * q + s
  BY <1>1, <1>2
<1>4. /\ a + s = k * ((a + s) \div k) + ((a + s) % k)
      /\ (a + s) \div k \in Int /\ (a + s) % k \in 0..(k - 1)
  OBVIOUS
<1>5. PICK p \in Int, r \in 0..(k - 1) : p = (a + s) \div k /\ r = (a + s) % k
  BY <1>4
<1>6. a + s = k * p + r
  BY <1>4, <1>5
<1>7. a + n = k * (p + q) + r
  <2>1. k * (p + q) = k * p + k * q /\ k * p \in Int /\ k * q \in Int
    OBVIOUS
  <2> QED BY <1>3, <1>6, <2>1
<1>8. (k * (p + q) + r) % k = r
  BY Leaves
<1> QED BY <1>2, <1>5, <1>7, <1>8

-----------------------------------------------------------------------------
(* The string without its NULs.                                            *)

LEMMA BytesAre ==
  ASSUME text \in [0..(SegSize - 1) -> 0..255], SegSize \in Nat \ {0},
         NEW dw \in Nat, NEW n \in Nat
  PROVE  /\ Bytes(dw, n) \in Seq(0..255) /\ Len(Bytes(dw, n)) = n
         /\ \A i \in 1..n : Bytes(dw, n)[i] = text[(dw + i - 1) % SegSize]
<1>1. \A i \in 1..n : (dw + i - 1) % SegSize \in 0..(SegSize - 1)
  <2> SUFFICES ASSUME NEW i \in 1..n PROVE (dw + i - 1) % SegSize \in 0..(SegSize - 1)
    OBVIOUS
  <2>1. dw + i - 1 \in Nat
    OBVIOUS
  <2> QED BY <2>1
<1>2. Bytes(dw, n) \in [1..n -> 0..255]
  BY <1>1 DEF Bytes
<1>3. Bytes(dw, n) \in Seq(0..255) /\ Len(Bytes(dw, n)) = n
  BY <1>2
<1> QED BY <1>3 DEF Bytes

\* One byte more of a buffer, without its NULs.
More(u, b) == IF b = Nul THEN u ELSE Append(u, b)

LEMMA MoreBytes ==
  ASSUME NEW B, NEW u \in Seq(B), NEW b \in B
  PROVE  More(u, b) \in Seq(B) /\ Len(More(u, b)) <= Len(u) + 1
<1>1. Append(u, b) \in Seq(B) /\ Len(Append(u, b)) = Len(u) + 1
  OBVIOUS
<1>2. CASE b = Nul
  BY <1>2 DEF More
<1>3. CASE b # Nul
  BY <1>1, <1>3 DEF More
<1> QED BY <1>2, <1>3

LEMMA WithoutNulIs ==
  ASSUME NEW s \in Seq(0..255)
  PROVE  \E f \in [0..Len(s) -> Seq(0..255)] :
           /\ f[0] = << >>
           /\ \A n \in 1..Len(s) : f[n] = More(f[n - 1], s[n])
           /\ WithoutNul(s) = f[Len(s)]
<1> DEFINE B == 0..255
           R == Seq(B) \X (1..Len(s))
           step == [x \in R |-> More(x[1], s[x[2]])]
           c[n \in 0..Len(s)] == IF n = 0 THEN << >>
                                 ELSE IF s[n] = Nul THEN c[n - 1] ELSE Append(c[n - 1], s[n])
           G(g) == [n \in 0..Len(s) |-> IF n = 0 THEN << >>
                                 ELSE IF s[n] = Nul THEN g[n - 1] ELSE Append(g[n - 1], s[n])]
<1>1. WithoutNul(s) = c[Len(s)]
  BY DEF WithoutNul
<1> HIDE DEF B
<1>2. Len(s) \in Nat /\ \A n \in 1..Len(s) : s[n] \in B
  <2>1. s \in Seq(B)
    BY DEF B
  <2>2. s \in [1..Len(s) -> B] /\ Len(s) \in Nat
    BY <2>1
  <2> QED BY <2>2
<1>3. \A u \in Seq(B), b \in B : More(u, b) \in Seq(B)
  BY MoreBytes
<1>4. step \in [R -> Seq(B)]
  <2>1. \A x \in R : x[1] \in Seq(B) /\ x[2] \in 1..Len(s)
    OBVIOUS
  <2>2. \A x \in R : More(x[1], s[x[2]]) \in Seq(B)
    BY <1>2, <1>3, <2>1
  <2> QED BY <2>2
<1>5. \A u \in Seq(B), n \in 1..Len(s) : step[<<u, n>>] = More(u, s[n])
  OBVIOUS
<1>6. << >> \in Seq(B)
  OBVIOUS
<1> HIDE DEF step
<1>7. PICK f \in [0..Len(s) -> Seq(B)] : Folds(f, << >>, step, Len(s))
  BY <1>2, <1>4, <1>6, Folded
<1>8. f[0] = << >> /\ \A n \in 1..Len(s) : f[n] = More(f[n - 1], s[n])
  <2>1. ASSUME NEW n \in 1..Len(s) PROVE f[n] = More(f[n - 1], s[n])
    <3>1. n - 1 \in 0..Len(s)
      BY <1>2
    <3>2. f[n - 1] \in Seq(B)
      BY <3>1
    <3> QED BY <1>5, <1>7, <3>2 DEF Folds
  <2> QED BY <1>7, <2>1 DEF Folds
<1>9. f = G(f)
  <2>1. \A n \in 0..Len(s) : n = 0 \/ n \in 1..Len(s)
    BY <1>2
  <2> QED BY <1>8, <2>1 DEF More
<1>10. c = CHOOSE g : g = G(g)
  OBVIOUS
<1>11. c = G(c)
  BY <1>9, <1>10
<1> HIDE DEF c
<1>12. /\ c[0] = << >>
       /\ \A n \in 1..Len(s) : c[n] = More(c[n - 1], s[n])
  <2>1. 0 \in 0..Len(s) /\ \A n \in 1..Len(s) : n \in 0..Len(s) /\ n # 0
    BY <1>2
  <2>2. c[0] = << >>
    BY <1>11, <2>1, Zenon
  <2>3. \A n \in 1..Len(s) : c[n] = More(c[n - 1], s[n])
    BY <1>11, <2>1, Zenon DEF More
  <2> QED BY <2>2, <2>3
<1> DEFINE S == {n \in Nat : n <= Len(s) => c[n] \in Seq(B)}
<1>13. S = Nat
  <2>1. 0 \in S
    BY <1>6, <1>12
  <2>2. ASSUME NEW n \in S PROVE n + 1 \in S
    <3> SUFFICES ASSUME n + 1 <= Len(s) PROVE c[n + 1] \in Seq(B)
      OBVIOUS
    <3>1. n + 1 \in 1..Len(s) /\ (n + 1) - 1 = n /\ n <= Len(s)
      BY <1>2
    <3>2. c[n + 1] = More(c[n], s[n + 1]) /\ c[n] \in Seq(B) /\ s[n + 1] \in B
      BY <1>2, <1>12, <3>1
    <3> QED BY <1>3, <3>2
  <2> HIDE DEF S
  <2>3. S \in SUBSET Nat
    BY DEF S
  <2> QED BY <2>1, <2>2, <2>3, SetInduction
<1>14. c \in [0..Len(s) -> Seq(B)]
  <2>1. \A n \in 0..Len(s) : c[n] \in Seq(B)
    BY <1>2, <1>13
  <2> QED BY <1>11, <2>1
<1> QED BY <1>1, <1>12, <1>14 DEF B

\* One byte more of the buffer is that byte more of the string, if it is no NUL.
LEMMA WithoutNulMore ==
  ASSUME NEW s \in Seq(0..255), NEW u \in Seq(0..255), Len(u) = Len(s) + 1,
         \A i \in 1..Len(s) : u[i] = s[i]
  PROVE  /\ WithoutNul(u) = More(WithoutNul(s), u[Len(u)])
         /\ Len(WithoutNul(s)) <= Len(s) /\ WithoutNul(s) \in Seq(0..255)
<1>1. PICK f \in [0..Len(s) -> Seq(0..255)] :
           /\ f[0] = << >>
           /\ \A n \in 1..Len(s) : f[n] = More(f[n - 1], s[n])
           /\ WithoutNul(s) = f[Len(s)]
  BY WithoutNulIs
<1>2. PICK g \in [0..Len(u) -> Seq(0..255)] :
           /\ g[0] = << >>
           /\ \A n \in 1..Len(u) : g[n] = More(g[n - 1], u[n])
           /\ WithoutNul(u) = g[Len(u)]
  BY WithoutNulIs
<1>3. Len(s) \in Nat /\ Len(u) \in 1..Len(u) /\ Len(u) - 1 = Len(s)
  OBVIOUS
<1> DEFINE S == {n \in Nat : n <= Len(s) => g[n] = f[n] /\ Len(f[n]) <= n}
<1>4. S = Nat
  <2>1. 0 \in S
    BY <1>1, <1>2
  <2>2. ASSUME NEW n \in S PROVE n + 1 \in S
    <3> SUFFICES ASSUME n + 1 <= Len(s) PROVE g[n + 1] = f[n + 1] /\ Len(f[n + 1]) <= n + 1
      OBVIOUS
    <3>1. n + 1 \in 1..Len(s) /\ n + 1 \in 1..Len(u) /\ (n + 1) - 1 = n /\ n <= Len(s)
          /\ n \in 0..Len(s)
      BY <1>3
    <3>2. f[n + 1] = More(f[n], s[n + 1]) /\ g[n + 1] = More(g[n], u[n + 1])
      BY <1>1, <1>2, <3>1
    <3>3. u[n + 1] = s[n + 1] /\ g[n] = f[n] /\ Len(f[n]) <= n /\ f[n] \in Seq(0..255)
          /\ s[n + 1] \in 0..255
      BY <3>1
    <3>4. Len(More(f[n], s[n + 1])) <= n + 1
      <4>1. PICK B : B = 0..255
        OBVIOUS
      <4>2. f[n] \in Seq(B) /\ s[n + 1] \in B
        BY <3>3, <4>1
      <4>3. More(f[n], s[n + 1]) \in Seq(B) /\ Len(More(f[n], s[n + 1])) <= Len(f[n]) + 1
        BY <4>2, MoreBytes
      <4>4. Len(f[n]) \in Nat /\ Len(More(f[n], s[n + 1])) \in Nat
        BY <4>2, <4>3
      <4> QED BY <3>3, <4>3, <4>4
    <3> QED BY <3>2, <3>3, <3>4
  <2> HIDE DEF S
  <2>3. S \in SUBSET Nat
    BY DEF S
  <2> QED BY <2>1, <2>2, <2>3, SetInduction
<1>5. g[Len(s)] = f[Len(s)] /\ Len(f[Len(s)]) <= Len(s)
  <2>1. Len(s) \in S
    BY <1>3, <1>4
  <2> QED BY <1>3, <2>1
<1>6. g[Len(u)] = More(g[Len(s)], u[Len(u)])
  BY <1>2, <1>3
<1>7. f[Len(s)] \in Seq(0..255)
  <2>1. Len(s) \in 0..Len(s)
    BY <1>3
  <2> QED BY <2>1
<1> QED BY <1>1, <1>2, <1>5, <1>6, <1>7

-----------------------------------------------------------------------------
(* What a call shows.                                                      *)

\* The first three handles are the standard ones, in this order.
Standing == table[0] = "stdin" /\ table[1] = "stdout" /\ table[2] = "stderr"

\* The string reader has gone over n bytes, none of which ends the string.
Passed(n) ==
  /\ ptr = (reg.dw + n) % SegSize
  /\ \A i \in 0..(n - 1) : text[(reg.dw + i) % SegSize] # Terminator(reg)
  /\ n <= SegSize => buf = WithoutNul(Bytes(reg.dw, n))

Reading == pc = "read" => \E n \in Nat : Passed(n)

\* Nothing is shown before the call is answered.
Silent == pc \in {"dispatch", "read", "memory"} => shown = << >>

SInv == Standing /\ Reading /\ Silent /\ TextShown

\* What is shown of a text is its beginning, and all of it if it is a text.
Shows(t, s) == IsPrefix(t, s) /\ (IsText(s) => t = s)

\* The calls that show nothing.
LEMMA NothingWritten ==
  ASSUME NEW a, ~Calls(a, {\h02, \h09}), Calls(a, {\h40}) => a.bw \notin {1, 2}
  PROVE  Written(a) = << >> /\ Shows(<< >>, Written(a))
<1>1. ~Calls(a, {\h02}) /\ ~Calls(a, {\h09})
  BY DEF Calls
<1>2. Written(a) = << >>
  BY <1>1, Zenon DEF Written
<1>3. IsPrefix(<< >>, << >>)
  <2>1. Len(<< >>) = 0
    OBVIOUS
  <2> QED BY <2>1 DEF IsPrefix
<1> QED BY <1>2, <1>3 DEF Shows

LEMMA SameWritten == ASSUME UNCHANGED userVars PROVE Written(asked)' = Written(asked)
BY DEF Written, Bytes, userVars

\* A call that has shown nothing, and had nothing to show.
LEMMA SilentCall ==
  ASSUME IInv, SInv, pc \in {"dispatch", "read", "memory"}, pc' = "iret",
         shown' = shown, UNCHANGED userVars,
         ~Calls(reg, {\h02, \h09}), Calls(reg, {\h40}) => reg.bw \notin {1, 2}
  PROVE  Reading' /\ Silent' /\ TextShown'
<1>1. shown' = << >> /\ reg = asked
  BY Handled DEF SInv, Silent
<1>2. Shows(<< >>, Written(asked))
  BY <1>1, NothingWritten
<1>3. TextShown'
  BY <1>1, <1>2, SameWritten DEF TextShown, Shows
<1> QED BY <1>3 DEF Reading, Silent

\* The text of a program is bytes, and its registers are numbers.
LEMMA TextTyped ==
  ASSUME IInv
  PROVE  /\ text \in [0..(SegSize - 1) -> 0..255] /\ SegSize \in Nat \ {0}
         /\ pc \in {"dispatch", "read", "memory"} =>
              reg.dw \in Nat /\ reg.cw \in Nat /\ reg.bw \in Nat
<1>1. text \in [0..(SegSize - 1) -> 0..255]
  BY ProgramAssumption DEF IInv, Typed
<1>2. pc \in {"dispatch", "read", "memory"} => reg.dw \in Nat /\ reg.cw \in Nat /\ reg.bw \in Nat
  BY Handled, RegisterFields, Words
<1> QED BY <1>1, <1>2, Int21Assumption

LEMMA ReadStartShows == ASSUME IInv, SInv, ReadStart PROVE Reading' /\ Silent' /\ TextShown'
<1>1. /\ pc = "dispatch" /\ pc' = "read" /\ reg' = reg /\ text' = text /\ shown' = shown
      /\ buf' = << >> /\ ptr' = reg.dw % SegSize
  BY DEF ReadStart, userVars
<1>2. reg.dw \in Nat /\ SegSize \in Nat \ {0} /\ text \in [0..(SegSize - 1) -> 0..255]
  BY <1>1, TextTyped
<1>3. Passed(0)'
  <2>1. 0..(0 - 1) = {} /\ reg.dw + 0 = reg.dw
    BY <1>2
  <2>2. Bytes(reg.dw, 0) = << >>
    <3>1. Bytes(reg.dw, 0) \in Seq(0..255) /\ Len(Bytes(reg.dw, 0)) = 0
      BY <1>2, BytesAre
    <3> QED BY <3>1
  <2>3. WithoutNul(<< >>) = << >>
    <3>1. << >> \in Seq(0..255) /\ Len(<< >>) = 0
      OBVIOUS
    <3> QED BY <3>1, WithoutNulIs
  <2>4. Bytes(reg.dw, 0)' = Bytes(reg.dw, 0)
    BY <1>1 DEF Bytes
  <2> QED BY <1>1, <2>1, <2>2, <2>3, <2>4 DEF Passed
<1>4. Reading'
  BY <1>3 DEF Reading
<1> QED BY <1>1, <1>4 DEF SInv, Silent, TextShown

\* One byte more is one byte of the segment more.
LEMMA ReadByteShows == ASSUME IInv, SInv, ReadByte PROVE Reading' /\ Silent' /\ TextShown'
<1>1. /\ pc = "read" /\ pc' = "read" /\ reg' = reg /\ text' = text /\ shown' = shown
      /\ Here # Terminator(reg) /\ ptr' = (ptr + 1) % SegSize
      /\ buf' = IF Here = Nul \/ Len(buf) = SegSize THEN buf ELSE Append(buf, Here)
  BY DEF ReadByte, userVars
<1>2. reg.dw \in Nat /\ SegSize \in Nat \ {0} /\ text \in [0..(SegSize - 1) -> 0..255]
  BY <1>1, TextTyped
<1>3. PICK n \in Nat : Passed(n)
  BY <1>1 DEF SInv, Reading
<1>4. PICK d \in Nat : d = reg.dw
  BY <1>2
<1>5. ptr = (d + n) % SegSize
  BY <1>3, <1>4 DEF Passed
<1>6. ptr' = (d + (n + 1)) % SegSize
  <2>1. (1 + ((d + n) % SegSize)) % SegSize = (1 + (d + n)) % SegSize
    <3>1. 1 \in Nat /\ d + n \in Nat
      OBVIOUS
    <3> QED BY <1>2, <3>1, Wraps
  <2>2. 1 + (d + n) = d + (n + 1) /\ 1 + ptr = ptr + 1
    <3>1. ptr \in Int
      BY DEF IInv, Buffered
    <3> QED BY <3>1
  <2> QED BY <1>1, <1>5, <2>1, <2>2
<1>7. \A i \in 0..n : text[(d + i) % SegSize] # Terminator(reg)
  <2>1. \A i \in 0..n : i = n \/ i \in 0..(n - 1)
    OBVIOUS
  <2> QED BY <1>1, <1>3, <1>4, <1>5, <2>1 DEF Passed, Here
<1>8. ASSUME n + 1 <= SegSize PROVE buf' = WithoutNul(Bytes(d, n + 1))
  <2>1. buf = WithoutNul(Bytes(d, n)) /\ n < SegSize
    BY <1>2, <1>3, <1>4, <1>8 DEF Passed
  <2> DEFINE s == Bytes(d, n)
             u == Bytes(d, n + 1)
  <2>2. /\ s \in Seq(0..255) /\ Len(s) = n
        /\ u \in Seq(0..255) /\ Len(u) = n + 1
        /\ \A i \in 1..n : s[i] = text[(d + i - 1) % SegSize]
        /\ \A i \in 1..(n + 1) : u[i] = text[(d + i - 1) % SegSize]
    <3>1. PICK m \in Nat : m = n + 1
      OBVIOUS
    <3>2. /\ s \in Seq(0..255) /\ Len(s) = n
          /\ \A i \in 1..n : s[i] = text[(d + i - 1) % SegSize]
      BY <1>2, BytesAre
    <3>3. /\ u \in Seq(0..255) /\ Len(u) = n + 1
          /\ \A i \in 1..(n + 1) : u[i] = text[(d + i - 1) % SegSize]
      <4>1. /\ Bytes(d, m) \in Seq(0..255) /\ Len(Bytes(d, m)) = m
            /\ \A i \in 1..m : Bytes(d, m)[i] = text[(d + i - 1) % SegSize]
        BY <1>2, BytesAre
      <4> QED BY <3>1, <4>1
    <3> QED BY <3>2, <3>3
  <2>3. u[n + 1] = Here
    <3>1. d + (n + 1) - 1 = d + n /\ n + 1 \in 1..(n + 1)
      OBVIOUS
    <3> QED BY <1>5, <2>2, <3>1 DEF Here
  <2>4. \A i \in 1..n : u[i] = s[i]
    BY <2>2
  <2> HIDE DEF s, u
  <2>5. WithoutNul(u) = More(WithoutNul(s), u[n + 1]) /\ Len(WithoutNul(s)) <= n
        /\ WithoutNul(s) \in Seq(0..255)
    BY <2>2, <2>4, WithoutNulMore
  <2>6. buf = WithoutNul(s)
    BY <2>1 DEF s
  <2>7. Len(buf) # SegSize
    BY <1>2, <2>1, <2>5, <2>6
  <2>8. buf' = More(buf, Here)
    BY <1>1, <2>7 DEF More
  <2> QED BY <2>3, <2>5, <2>6, <2>8 DEF u
<1>9. Passed(n + 1)'
  <2>1. Bytes(d, n + 1)' = Bytes(d, n + 1) /\ Terminator(reg)' = Terminator(reg)
    BY <1>1 DEF Bytes, Terminator, Calls
  <2>2. (n + 1) - 1 = n
    OBVIOUS
  <2> QED BY <1>1, <1>4, <1>6, <1>7, <1>8, <2>1, <2>2 DEF Passed
<1>10. Reading'
  <2>1. n + 1 \in Nat
    OBVIOUS
  <2> QED BY <1>9, <2>1 DEF Reading
<1> QED BY <1>1, <1>10 DEF SInv, Silent, TextShown

\* A call that has shown the text s, which is what was written.
LEMMA TextCall ==
  ASSUME NEW s \in Seq(0..255), pc' = "iret", UNCHANGED userVars,
         shown' = Printed(s), Written(asked) = s
  PROVE  Reading' /\ Silent' /\ TextShown'
<1>1. Shows(Printed(s), s)
  BY Prints DEF Shows
<1>2. TextShown'
  BY <1>1, SameWritten DEF TextShown, Shows
<1> QED BY <1>2 DEF Reading, Silent

LEMMA WriteCharShows == ASSUME IInv, SInv, WriteChar PROVE Reading' /\ Silent' /\ TextShown'
<1>1. /\ pc = "dispatch" /\ Calls(reg, {\h02}) /\ pc' = "iret" /\ UNCHANGED userVars
      /\ shown' = Printed(<<reg.dw % 256>>)
  BY DEF WriteChar, Handling, Leave
<1>2. reg = asked /\ reg.dw \in Nat
  BY <1>1, Handled, TextTyped
<1>3. Written(asked) = <<reg.dw % 256>>
  <2>1. ~Calls(asked, {\h09}) /\ ~Calls(asked, {\h40})
    BY <1>1, <1>2 DEF Calls
  <2> QED BY <1>1, <1>2, <2>1 DEF Written
<1>4. reg.dw % 256 \in 0..255
  BY <1>2
<1>5. <<reg.dw % 256>> \in Seq(0..255)
  BY <1>4
<1> QED BY <1>1, <1>3, <1>5, TextCall

\* The reader stops at the first "$" from DX on, wherever the offset wraps.
LEMMA WriteStringShows == ASSUME IInv, SInv, WriteString PROVE Reading' /\ Silent' /\ TextShown'
<1>1. /\ pc = "read" /\ Here = Terminator(reg) /\ Calls(reg, {\h09})
      /\ pc' = "iret" /\ UNCHANGED userVars /\ shown' = Printed(buf)
  BY DEF WriteString, HasRead, Leave
<1>2. /\ reg = asked /\ reg.dw \in Nat /\ SegSize \in Nat \ {0}
      /\ text \in [0..(SegSize - 1) -> 0..255]
  BY <1>1, Handled, TextTyped
<1>3. PICK n \in Nat : Passed(n)
  BY <1>1 DEF SInv, Reading
<1>4. PICK d \in Nat : d = reg.dw
  BY <1>2
<1>5. /\ Terminator(reg) = Dollar /\ text[(d + n) % SegSize] = Dollar
      /\ \A i \in 0..(n - 1) : text[(d + i) % SegSize] # Dollar
      /\ n <= SegSize => buf = WithoutNul(Bytes(d, n))
  BY <1>1, <1>3, <1>4 DEF Passed, Here, Terminator
<1>6. n < SegSize
  <2> SUFFICES ASSUME SegSize <= n PROVE FALSE
    BY <1>2
  <2>1. PICK i : i = n % SegSize
    OBVIOUS
  <2>2. i \in 0..(SegSize - 1)
    BY <1>2, <2>1
  <2>3. i \in 0..(n - 1)
    BY <1>2, <2>2
  <2>4. (d + i) % SegSize = (d + n) % SegSize
    BY <1>2, <2>1, Wraps
  <2> QED BY <1>5, <2>3, <2>4
<1> DEFINE T == {m \in 0..(SegSize - 1) : text[(asked.dw + m) % SegSize] = Dollar}
<1>7. Min(T) = n
  <2>1. T \in SUBSET Nat
    BY <1>2
  <2>2. n \in T
    BY <1>2, <1>4, <1>5, <1>6
  <2>3. \A m \in T : n <= m
    <3> SUFFICES ASSUME NEW m \in T, m < n PROVE FALSE
      BY <2>1
    <3>1. m \in 0..(n - 1) /\ text[(d + m) % SegSize] = Dollar
      BY <1>2, <1>4
    <3> QED BY <1>5, <3>1
  <2> HIDE DEF T
  <2> QED BY <2>1, <2>2, <2>3, MinIs
<1>8. Written(asked) = WithoutNul(Bytes(d, n))
  <2>1. Written(asked) = WithoutNul(Bytes(asked.dw, Min(T)))
    <3>1. Calls(asked, {\h09}) /\ ~Calls(asked, {\h02}) /\ ~Calls(asked, {\h40})
      BY <1>1, <1>2 DEF Calls
    <3> QED BY <3>1, Zenon DEF Written
  <2> HIDE DEF T
  <2> QED BY <1>2, <1>4, <1>7, <2>1
<1>9. buf = Written(asked)
  BY <1>2, <1>5, <1>6, <1>8
<1>10. buf \in Seq(0..255)
  BY DEF IInv, Buffered
<1> QED BY <1>1, <1>9, <1>10, TextCall

\* Only the handles 1 and 2 print, and all that is written to them.
LEMMA WriteFileShows == ASSUME IInv, SInv, WriteFile PROVE Reading' /\ Silent' /\ TextShown'
<1>1. /\ pc = "dispatch" /\ Calls(reg, {\h40}) /\ UNCHANGED userVars
      /\ Ret(answer'.err, Aw(answer'.val))
      /\ shown' = IF ~Fil!Bad(Named) /\ table[Named] \in {"stdout", "stderr"}
                  THEN Printed(Bytes(reg.dw, reg.cw)) ELSE shown
  BY DEF WriteFile, Handling
<1>2. /\ reg = asked /\ reg \in Register /\ reg.dw \in Nat /\ reg.cw \in Nat /\ reg.bw \in Nat
      /\ SegSize \in Nat \ {0} /\ text \in [0..(SegSize - 1) -> 0..255] /\ FilP!StdHeld
  BY <1>1, Handled, TextTyped DEF FilP!IInv
<1>3. /\ MaxFiles \in Nat /\ MaxFiles > 3
      /\ Named \in 0..MaxFiles /\ (Named # MaxFiles => Named = reg.bw)
  BY <1>2, NamedHandle, Int21Assumption
<1>4. pc' = "iret"
  BY <1>1 DEF Ret
<1>5. CASE reg.bw \in {1, 2}
  <2>1. Named = reg.bw
    BY <1>3, <1>5 DEF Named
  <2>2. table[Named] \in {"stdout", "stderr"}
    BY <1>5, <2>1 DEF SInv, Standing
  <2>3. ~Fil!Bad(Named)
    <3>1. Named \in Fil!Handle
      BY <1>3, <1>5, <2>1 DEF Fil!Handle
    <3> QED BY <2>2, <3>1 DEF Fil!Bad, Fil!NoFile
  <2>4. shown' = Printed(Bytes(reg.dw, reg.cw))
    BY <1>1, <2>2, <2>3
  <2>5. Bytes(reg.dw, reg.cw) \in Seq(0..255)
    BY <1>2, BytesAre
  <2>6. Written(asked) = Bytes(reg.dw, reg.cw)
    <3>1. ~Calls(asked, {\h09}) /\ ~Calls(asked, {\h02})
      BY <1>1, <1>2 DEF Calls
    <3> QED BY <1>1, <1>2, <1>5, <3>1, Zenon DEF Written
  <2> QED BY <1>1, <1>4, <2>4, <2>5, <2>6, TextCall
<1>6. CASE reg.bw \notin {1, 2}
  <2>1. shown' = shown
    <3> SUFFICES ASSUME ~Fil!Bad(Named), table[Named] \in {"stdout", "stderr"} PROVE FALSE
      BY <1>1
    <3>1. Named \in 0..(MaxFiles - 1)
      BY DEF Fil!Bad, Fil!Handle
    <3>2. Named = reg.bw
      BY <1>3, <3>1
    <3>3. Named \in FilP!Std
      BY <1>2, <3>1 DEF FilP!StdHeld, FilP!Handle, FilP!Sentinel
    <3>4. Named = 0
      BY <1>6, <3>2, <3>3 DEF FilP!Std
    <3> QED BY <3>4 DEF SInv, Standing
  <2>2. ~Calls(reg, {\h02, \h09})
    BY <1>1 DEF Calls
  <2> QED BY <1>1, <1>4, <1>6, <2>1, <2>2, SilentCall
<1> QED BY <1>5, <1>6

\* A handle is opened where none is and closed where a file is: the standard
\* ones stay.
LEMMA SlotStays ==
  ASSUME IInv, SInv, NEW i \in 0..(MaxFiles - 1), NEW s, table' = [table EXCEPT ![i] = s],
         table[i] \notin {"stdin", "stdout", "stderr"}
  PROVE  Standing'
<1>1. i \notin {0, 1, 2}
  BY DEF SInv, Standing
<1>2. DOMAIN table = 0..(MaxFiles - 1)
  BY DEF IInv, FilP!IInv, FilP!TypeOK, FilP!Handle
<1>3. {0, 1, 2} \subseteq 0..(MaxFiles - 1)
  BY Int21Assumption
<1> QED BY <1>1, <1>2, <1>3 DEF SInv, Standing

LEMMA SameTable == ASSUME SInv, table' = table PROVE Standing'
BY DEF SInv, Standing

LEMMA CreateOrOpenShows ==
  ASSUME IInv, SInv, CreateOrOpen
  PROVE  SInv'
<1>1. /\ pc = "read" /\ Calls(reg, {\h3C, \h3D}) /\ Ret(answer'.err, Aw(answer'.val))
      /\ UNCHANGED userVars /\ shown' = shown
  BY DEF CreateOrOpen, HasRead
<1>2. pc' = "iret"
  BY <1>1 DEF Ret
<1>3. Reading' /\ Silent' /\ TextShown'
  <2>1. ~Calls(reg, {\h02, \h09}) /\ ~Calls(reg, {\h40})
    BY <1>1 DEF Calls
  <2> QED BY <1>1, <1>2, <2>1, SilentCall
<1>4. CASE Fil!NoHandles \/ Fil!NotFound
  BY <1>3, <1>4, RefusedNames, SameTable DEF SInv
<1>5. ASSUME NEW f \in Files, NEW m, Fil!Opened(f, m) PROVE SInv'
  <2>1. PICK i \in Fil!Handle, s \in Streams :
          Fil!FirstFree(i) /\ table' = [table EXCEPT ![i] = s]
    BY <1>5 DEF Fil!Opened
  <2>2. i \in 0..(MaxFiles - 1) /\ table[i] = "NULL"
    BY <2>1 DEF Fil!FirstFree, Fil!NoFile, Fil!Handle
  <2>3. Standing'
    BY <2>1, <2>2, SlotStays
  <2> QED BY <1>3, <2>3 DEF SInv
<1> QED BY <1>4, <1>5 DEF CreateOrOpen, Fil!Creat, Fil!OpenCall

LEMMA CloseFileShows ==
  ASSUME IInv, SInv, CloseFile
  PROVE  SInv'
<1>1. /\ pc = "dispatch" /\ Calls(reg, {\h3E}) /\ Ret(answer'.err, reg)
      /\ UNCHANGED userVars /\ shown' = shown
  BY DEF CloseFile, Handling
<1>2. pc' = "iret"
  BY <1>1 DEF Ret
<1>3. Reading' /\ Silent' /\ TextShown'
  <2>1. ~Calls(reg, {\h02, \h09}) /\ ~Calls(reg, {\h40})
    BY <1>1 DEF Calls
  <2> QED BY <1>1, <1>2, <2>1, SilentCall
<1>4. CASE Fil!Invalid(Named)
  BY <1>3, <1>4, SameTable DEF SInv, Fil!Invalid
<1>5. CASE Fil!Close(Named)
  <2>1. /\ Named \in 0..(MaxFiles - 1) /\ table[Named] \in Streams
        /\ table' = [table EXCEPT ![Named] = Fil!NoFile]
    BY <1>5 DEF Fil!Close, Fil!IsFile, Fil!Handle
  <2>2. table[Named] \notin {"stdin", "stdout", "stderr"}
    BY <2>1, Int21Assumption
  <2>3. Standing'
    BY <2>1, <2>2, SlotStays
  <2> QED BY <1>3, <2>3 DEF SInv
<1> QED BY <1>4, <1>5 DEF CloseFile

\* The other file calls leave the table alone.
LEMMA TableStays ==
  ASSUME IInv, FileAttr \/ ReadFile \/ WriteFile \/ SeekFile \/ DeviceInfo \/ StdCrash \/ Exit
  PROVE  table' = table
<1>1. pc \in {"dispatch", "read"}
  BY DEF FileAttr, ReadFile, WriteFile, SeekFile, DeviceInfo, StdCrash, Exit, HasRead, Handling
<1>2. reg \in Register /\ FilP!IInv
  BY <1>1, Handled
<1>3. /\ Named \in 0..MaxFiles /\ reg.cw \in Uint16 /\ reg.dw \in Uint16
      /\ Al(reg) \in Nat /\ 0 \in Uint16
  <2>1. Al(reg) \in 0..255
    BY <1>2, RegisterFields
  <2> QED BY <1>2, <2>1, NamedHandle, RegisterFields DEF Uint16
<1>4. CASE FileAttr
  BY <1>2, <1>4, NameCalls DEF FileAttr
<1>5. CASE ReadFile \/ WriteFile
  <2>1. CASE \/ Fil!Invalid(Named) \/ Fil!ReadStd(Named) \/ Fil!WriteStd(Named, reg.cw)
    BY <1>3, <2>1, QuietCalls
  <2>2. CASE \/ Fil!Read(Named, reg.cw) \/ Fil!Write(Named, reg.cw)
             \/ \E op \in {"read", "write"} : Fil!TurnedTransfer(Named, op, reg.cw)
    BY <1>2, <1>3, <2>2, TransferCalls
  <2> QED BY <1>5, <2>1, <2>2 DEF ReadFile, WriteFile
<1>6. CASE SeekFile
  <2>1. Offset(reg.cw, reg.dw) \in (-(2^32))..(2^32)
    BY <1>3, Int32
  <2>2. CASE Fil!Invalid(Named)
    BY <1>3, <2>2, QuietCalls
  <2>3. CASE Fil!Seek(Named, Offset(reg.cw, reg.dw), Al(reg))
    BY <1>2, <1>3, <2>1, <2>3, SeekCall
  <2> QED BY <1>6, <2>2, <2>3 DEF SeekFile
<1>7. CASE DeviceInfo
  BY <1>3, <1>7, QuietCalls DEF DeviceInfo
<1>8. CASE StdCrash \/ Exit
  BY <1>3, <1>8, StopCalls DEF StdCrash, Exit
<1> QED BY <1>4, <1>5, <1>6, <1>7, <1>8

\* The calls that print nothing: those that fail, and those about other things.
LEMMA OthersShow ==
  ASSUME IInv, SInv,
         \/ Fallback \/ GetDate \/ GetTime \/ GetVersion \/ Vectors
         \/ ChangeDir \/ FileAttr \/ ReadFile \/ SeekFile \/ DeviceInfo \/ MemRet
  PROVE  Reading' /\ Silent' /\ TextShown'
<1>1. /\ pc \in {"dispatch", "read", "memory"} /\ pc' = "iret" /\ shown' = shown
      /\ UNCHANGED userVars
  <2>1. CASE Fallback
    BY <2>1 DEF Fallback, Ret
  <2>2. CASE GetDate \/ GetTime \/ GetVersion \/ Vectors
    BY <2>2 DEF GetDate, GetTime, GetVersion, Vectors, Leave, Handling
  <2>3. CASE ChangeDir
    BY <2>3 DEF ChangeDir, HasRead, Ret
  <2>4. CASE FileAttr
    BY <2>4 DEF FileAttr, HasRead, Ret
  <2>5. CASE ReadFile \/ SeekFile \/ DeviceInfo
    BY <2>5 DEF ReadFile, SeekFile, DeviceInfo, Handling, Ret
  <2>6. CASE MemRet
    BY <2>6 DEF MemRet, Ret
  <2> QED BY <2>1, <2>2, <2>3, <2>4, <2>5, <2>6
<1>2. ~Calls(reg, {\h02, \h09, \h40})
  <2>1. CASE Fallback
    <3>1. ~Calls(reg, AnySub) /\ {\h02, \h09, \h40} \subseteq AnySub
      BY <2>1 DEF Fallback, HasHandler, AnySub
    <3> QED BY <3>1 DEF Calls
  <2>2. CASE GetDate \/ GetTime \/ GetVersion \/ Vectors
    <3>1. Handling({\h2A}) \/ Handling({\h2C}) \/ Handling({\h30}) \/ Handling({\h25, \h35})
      BY <2>2 DEF GetDate, GetTime, GetVersion, Vectors
    <3> QED BY <3>1 DEF Handling, Calls
  <2>3. CASE ReadFile \/ SeekFile \/ DeviceInfo
    <3>1. Handling({\h3F}) \/ Handling({\h42}) \/ Handling({\h44})
      BY <2>3 DEF ReadFile, SeekFile, DeviceInfo
    <3> QED BY <3>1 DEF Handling, Calls
  <2>4. CASE ChangeDir \/ FileAttr
    BY <2>4 DEF ChangeDir, FileAttr, HasRead, Calls
  <2>5. CASE MemRet
    BY <2>5 DEF MemRet, IInv, AtWork, MemoryCalls, Calls
  <2> QED BY <2>1, <2>2, <2>3, <2>4, <2>5
<1>3. ~Calls(reg, {\h02, \h09}) /\ ~Calls(reg, {\h40})
  BY <1>2 DEF Calls
<1> QED BY <1>1, <1>3, SilentCall

\* Everything else leaves what is shown, or begins anew.
LEMMA QuietShows ==
  ASSUME SInv,
         \/ Boot \/ StdCrash \/ Exit \/ MemCall \/ MemStep \/ Resume
         \/ \E r \in Programs[prog].asks, c \in BOOLEAN : Interrupt(r, c)
  PROVE  Reading' /\ Silent' /\ TextShown'
<1>1. CASE Boot
  BY <1>1 DEF Boot, SInv, Reading, Silent, TextShown
<1>2. CASE StdCrash \/ Exit
  BY <1>2 DEF StdCrash, Exit, Reading, Silent, TextShown
<1>3. CASE MemCall \/ MemStep
  BY <1>3 DEF MemCall, MemStep, Handling, SInv, Reading, Silent, TextShown
<1>4. CASE Resume
  BY <1>4 DEF Resume, Reading, Silent, TextShown
<1>5. ASSUME NEW r \in Programs[prog].asks, NEW c \in BOOLEAN, Interrupt(r, c)
      PROVE  Reading' /\ Silent' /\ TextShown'
  BY <1>5 DEF Interrupt, Reading, Silent, TextShown
<1> QED BY <1>1, <1>2, <1>3, <1>4, <1>5

\* The standard handles are there from the start, and each step keeps SInv.
LEMMA InitSInv == Init => SInv
<1> SUFFICES ASSUME Init PROVE SInv
  OBVIOUS
<1>1. pc = "boot" /\ Fil!Init
  BY DEF Init
<1>2. Standing
  <2>1. {0, 1, 2} \subseteq Fil!Handle
    BY Int21Assumption DEF Fil!Handle
  <2> QED BY <1>1, <2>1 DEF Fil!Init, Standing
<1> QED BY <1>1, <1>2 DEF SInv, Reading, Silent, TextShown

LEMMA NextSInv == IInv /\ SInv /\ [Next]_vars => SInv'
<1> SUFFICES ASSUME IInv, SInv, [Next]_vars PROVE SInv'
  OBVIOUS
<1>1. CASE Boot
  <2>1. table' = table
    BY <1>1 DEF Boot, filVars
  <2> QED BY <1>1, <2>1, QuietShows, SameTable DEF SInv
<1>2. CASE Answers
  <2>1. CASE Fallback \/ GetDate \/ GetTime \/ GetVersion \/ Vectors \/ ChangeDir \/ MemRet
    <3>1. table' = table
      BY <2>1 DEF Fallback, GetDate, GetTime, GetVersion, Vectors, ChangeDir, MemRet, filVars
    <3> QED BY <2>1, <3>1, OthersShow, SameTable DEF SInv
  <2>2. CASE FileAttr \/ ReadFile \/ SeekFile \/ DeviceInfo
    BY <2>2, TableStays, OthersShow, SameTable DEF SInv
  <2>3. CASE WriteFile
    BY <2>3, TableStays, WriteFileShows, SameTable DEF SInv
  <2>4. CASE StdCrash \/ Exit
    BY <2>4, TableStays, QuietShows, SameTable DEF SInv
  <2>5. CASE MemCall \/ MemStep
    <3>1. table' = table
      BY <2>5 DEF MemCall, MemStep, filVars
    <3> QED BY <2>5, <3>1, QuietShows, SameTable DEF SInv
  <2>6. CASE WriteChar
    <3>1. table' = table
      BY <2>6 DEF WriteChar, filVars
    <3> QED BY <2>6, <3>1, WriteCharShows, SameTable DEF SInv
  <2>7. CASE WriteString
    <3>1. table' = table
      BY <2>7 DEF WriteString, filVars
    <3> QED BY <2>7, <3>1, WriteStringShows, SameTable DEF SInv
  <2>8. CASE ReadStart
    <3>1. table' = table
      BY <2>8 DEF ReadStart, filVars
    <3> QED BY <2>8, <3>1, ReadStartShows, SameTable DEF SInv
  <2>9. CASE ReadByte
    <3>1. table' = table
      BY <2>9 DEF ReadByte, filVars
    <3> QED BY <2>9, <3>1, ReadByteShows, SameTable DEF SInv
  <2>10. CASE CreateOrOpen
    BY <2>10, CreateOrOpenShows
  <2>11. CASE CloseFile
    BY <2>11, CloseFileShows
  <2> QED BY <1>2, <2>1, <2>2, <2>3, <2>4, <2>5, <2>6, <2>7, <2>8, <2>9, <2>10, <2>11 DEF Answers
<1>3. CASE Resume
  <2>1. table' = table
    BY <1>3 DEF Resume, filVars
  <2> QED BY <1>3, <2>1, QuietShows, SameTable DEF SInv
<1>4. ASSUME NEW r \in Programs[prog].asks, NEW c \in BOOLEAN, Interrupt(r, c)
      PROVE  SInv'
  <2>1. table' = table
    BY <1>4 DEF Interrupt, filVars
  <2> QED BY <1>4, <2>1, QuietShows, SameTable DEF SInv
<1>5. CASE UNCHANGED vars
  <2>1. UNCHANGED <<filVars, readVars, userVars, reg, pc, shown>>
    BY <1>5 DEF vars
  <2>2. Standing' /\ Silent'
    BY <2>1 DEF SInv, Standing, Silent, filVars
  <2>3. Reading'
    BY <2>1 DEF SInv, Reading, Passed, Bytes, Terminator, Calls, readVars, userVars
  <2>4. TextShown'
    BY <2>1, SameWritten DEF SInv, TextShown
  <2> QED BY <2>2, <2>3, <2>4 DEF SInv
<1> QED BY <1>1, <1>2, <1>3, <1>4, <1>5 DEF Next, Serve

-----------------------------------------------------------------------------

\* Whatever the segment holds and however the string wraps in it, a call that
\* writes text (AH=02h, 09h, 40h) shows the beginning of that text, and all of
\* it when it is made of whole characters of code page 932.
THEOREM TextAlwaysShown == Spec => []TextShown
<1>1. SInv => TextShown
  BY DEF SInv
<1> QED BY <1>1, InitSInv, NextSInv, Invariance, PTL DEF Spec

=============================================================================
