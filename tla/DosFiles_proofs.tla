--------------------------- MODULE DosFiles_proofs ---------------------------
(***************************************************************************)
(* Proofs about the file calls, for any number of handles, streams and     *)
(* files and every sequence of calls.                                      *)
(*                                                                         *)
(* StreamsHeld is inductive given the types.  The promise of DosHandles    *)
(* needs two more facts: that the file of an open stream is there          *)
(* (Present), for a write must not create what no open created; and that   *)
(* the sentinels are where they were at the start and nowhere else         *)
(* (StdHeld), for the table is full when every other handle is open.       *)
(***************************************************************************)
EXTENDS DosFiles, TLAPS

Present == \A s \in Streams : stream[s] # Closed => disk[stream[s].file] \in Extent

StdHeld == \A h \in Handle : table[h] \in Sentinel <=> h \in Std

IInv == TypeOK /\ StreamsHeld /\ Present /\ StdHeld

-----------------------------------------------------------------------------

\* An open stream is not a closed one, and its fields are what they should be.
LEMMA OpenFields ==
  ASSUME NEW o \in Open
  PROVE  /\ o # Closed
         /\ o.file \in Files /\ o.mode \in FMode /\ o.pos \in Extent
         /\ o.last \in {"none", "read", "write"}
<1>1. o.pos \in Extent /\ o.file \in Files /\ o.mode \in FMode /\ o.last \in {"none", "read", "write"}
  BY DEF Open
<1>2. DOMAIN o = {"file", "mode", "pos", "last"} /\ DOMAIN Closed = {"file"}
  BY DEF Open, Closed
<1>3. o # Closed
  BY <1>2
<1> QED BY <1>1, <1>3

\* A handle with a stream is a handle, and its stream is open.
LEMMA FileFacts ==
  ASSUME IInv, NEW h, IsFile(h)
  PROVE  /\ h \in Handle /\ table[h] \in Streams
         /\ stream[table[h]] \in Open /\ stream[table[h]] # Closed
         /\ stream[table[h]].file \in Files
         /\ stream[table[h]].mode \in FMode
         /\ stream[table[h]].pos \in Extent
         /\ disk[stream[table[h]].file] \in Extent
<1>1. /\ h \in Handle /\ table[h] \in Streams /\ stream[table[h]] # Closed
      /\ stream[table[h]] \in Open
  BY DEF IsFile, IInv, StreamsHeld, TypeOK
<1> QED BY <1>1, OpenFields DEF IInv, Present

\* The handles of the table have an answer of their own.
LEMMA AnswerType ==
  ASSUME NEW e \in {"none", "no_handles", "not_found", "invalid"}, NEW h \in AnyHandle,
         NEW v \in Nat, Return(e, h, v), TypeOK
  PROVE  answer' \in Answer /\ pc' \in {"running", "crashed", "exited"}
BY DEF Return, Answer, TypeOK

\* Moving a stream keeps the invariant.
LEMMA MovedKeeps ==
  ASSUME IInv, NEW h, IsFile(h), NEW p \in Extent,
         NEW op \in {"none", "read", "write"}, NEW n \in Extent,
         Moved(h, p, op, n)
  PROVE  /\ table' = table
         /\ stream' \in [Streams -> {Closed} \union Open]
         /\ disk' \in [Files -> Extent \union {Absent}]
         /\ StreamsHeld' /\ Present' /\ StdHeld'
<1> DEFINE s == table[h]
           o == [stream[s] EXCEPT !.pos = p, !.last = op]
           f == stream[s].file
<1>0. /\ s \in Streams /\ stream[s] \in Open /\ f \in Files /\ stream[s] # Closed
  BY FileFacts
<1>1. o \in Open /\ o # Closed /\ o.file = f
  <2>1. o \in Open /\ o.file = f
    BY <1>0 DEF Open
  <2> QED BY <2>1, OpenFields
<1>2. table' = table
  BY DEF Moved
<1>3. stream' = [stream EXCEPT ![s] = o]
  <2>1. stream \in [Streams -> {Closed} \union Open]
    BY DEF IInv, TypeOK
  <2> QED BY <1>0, <2>1 DEF Moved
<1>4. disk' = [disk EXCEPT ![f] = n] /\ disk \in [Files -> Extent \union {Absent}]
  BY DEF Moved, IInv, TypeOK
<1> HIDE DEF o
<1>5. stream' \in [Streams -> {Closed} \union Open]
  BY <1>0, <1>1, <1>3 DEF IInv, TypeOK
<1>6. disk' \in [Files -> Extent \union {Absent}]
  BY <1>4
<1>7. \A t \in Streams : /\ (stream'[t] = Closed) <=> (stream[t] = Closed)
                         /\ stream[t] # Closed => stream'[t].file = stream[t].file
  BY <1>0, <1>1, <1>3 DEF IInv, TypeOK
<1>8. StreamsHeld'
  BY <1>2, <1>7 DEF IInv, StreamsHeld
<1>9. Present'
  <2> SUFFICES ASSUME NEW t \in Streams, stream'[t] # Closed
               PROVE  disk'[stream'[t].file] \in Extent
    BY DEF Present
  <2>1. stream[t] # Closed /\ stream'[t].file = stream[t].file
    BY <1>7
  <2>2. stream[t].file \in Files /\ disk[stream[t].file] \in Extent
    BY <2>1, OpenFields DEF IInv, TypeOK, Present
  <2> QED BY <1>4, <2>1, <2>2
<1>10. StdHeld'
  BY <1>2 DEF IInv, StdHeld
<1> QED BY <1>2, <1>5, <1>6, <1>8, <1>9, <1>10

THEOREM InitIInv == Init => IInv
<1> SUFFICES ASSUME Init PROVE IInv
  OBVIOUS
<1>1. \A h \in Handle : table[h] \in {NoFile} \union Sentinel
  BY DEF Init, Handle, NoFile, Sentinel
<1>2. table \in [Handle -> {NoFile} \union Sentinel \union Streams]
  BY <1>1 DEF Init
<1>3. answer \in Answer
  BY FileAssumption DEF Init, Answer, AnyHandle
<1>4. TypeOK
  BY <1>2, <1>3 DEF Init, TypeOK
<1>5. \A h \in Handle : table[h] \notin Streams
  BY <1>1, StreamAssumption DEF NoFile, Sentinel
<1>6. \A s \in Streams : stream[s] = Closed
  BY DEF Init
<1>7. StdHeld
  BY DEF Init, StdHeld, Handle, Std, Sentinel, NoFile
<1> QED BY <1>4, <1>5, <1>6, <1>7 DEF IInv, StreamsHeld, Present

\* A call that touches neither the table nor a stream nor a file.
LEMMA QuietKeeps ==
  ASSUME IInv, UNCHANGED <<table, stream, disk>>,
         answer' \in Answer, pc' \in {"running", "crashed", "exited"}
  PROVE  IInv'
<1>1. TypeOK'
  BY DEF IInv, TypeOK
<1>2. StreamsHeld' /\ Present' /\ StdHeld'
  BY DEF IInv, StreamsHeld, Present, StdHeld
<1> QED BY <1>1, <1>2 DEF IInv

\* A successful open.
LEMMA OpenedKeeps ==
  ASSUME IInv, NEW f \in Files, NEW m \in FMode, NEW i \in Handle, NEW s \in Streams,
         FirstFree(i), Fopen(f, m, s), table' = [table EXCEPT ![i] = s]
  PROVE  /\ table' \in [Handle -> {NoFile} \union Sentinel \union Streams]
         /\ stream' \in [Streams -> {Closed} \union Open]
         /\ disk' \in [Files -> Extent \union {Absent}]
         /\ StreamsHeld' /\ Present' /\ StdHeld'
<1> DEFINE o == [file |-> f, mode |-> m, pos |-> 0, last |-> "none"]
<1>0. /\ table \in [Handle -> {NoFile} \union Sentinel \union Streams]
      /\ stream \in [Streams -> {Closed} \union Open]
      /\ disk \in [Files -> Extent \union {Absent}]
      /\ stream[s] = Closed /\ table[i] = NoFile
      /\ stream' = [stream EXCEPT ![s] = o]
  BY DEF IInv, TypeOK, Fopen, FirstFree
<1>1. 0 \in Extent
  BY FileAssumption DEF Extent
<1>2. o \in Open /\ o # Closed /\ o.file = f
  <2>1. o \in Open /\ o.file = f
    BY <1>1 DEF Open
  <2> QED BY <2>1, OpenFields
<1> HIDE DEF o
<1>3. table' \in [Handle -> {NoFile} \union Sentinel \union Streams]
  BY <1>0
<1>4. stream' \in [Streams -> {Closed} \union Open]
  BY <1>0, <1>2
<1>5. /\ disk' \in [Files -> Extent \union {Absent}]
      /\ disk'[f] \in Extent
      /\ \A g \in Files : disk[g] \in Extent => disk'[g] \in Extent
  <2>1. CASE m = "rb"
    BY <1>0, <2>1 DEF Fopen
  <2>2. CASE m # "rb"
    <3>1. disk' = [disk EXCEPT ![f] = 0]
      BY <2>2 DEF Fopen
    <3> QED BY <1>0, <1>1, <3>1
  <2> QED BY <2>1, <2>2
\* No slot held the stream that fopen gave: it was closed.
<1>6. \A h \in Handle : table[h] # s
  BY <1>0 DEF IInv, StreamsHeld
<1>7. \A h \in Handle : table'[h] = IF h = i THEN s ELSE table[h]
  BY <1>0
<1>8. \A t \in Streams : stream'[t] = IF t = s THEN o ELSE stream[t]
  BY <1>0
<1>9. StreamsHeld'
  <2>1. ASSUME NEW h \in Handle, table'[h] \in Streams
        PROVE  stream'[table'[h]] # Closed
    BY <1>2, <1>6, <1>7, <1>8, <2>1 DEF IInv, StreamsHeld
  <2>2. ASSUME NEW t \in Streams, stream'[t] # Closed
        PROVE  \E h \in Handle : table'[h] = t
    <3>1. CASE t = s
      BY <1>7, <3>1
    <3>2. CASE t # s
      <4>1. PICK h \in Handle : table[h] = t
        BY <1>8, <2>2, <3>2 DEF IInv, StreamsHeld
      <4>2. h # i
        BY <1>0, <4>1, StreamAssumption DEF NoFile
      <4> QED BY <1>7, <4>1, <4>2
    <3> QED BY <3>1, <3>2
  <2>3. ASSUME NEW g \in Handle, NEW h \in Handle, g # h, table'[g] \in Streams
        PROVE  table'[g] # table'[h]
    BY <1>6, <1>7, <2>3 DEF IInv, StreamsHeld
  <2> QED BY <2>1, <2>2, <2>3 DEF StreamsHeld
<1>10. Present'
  <2> SUFFICES ASSUME NEW t \in Streams, stream'[t] # Closed
               PROVE  disk'[stream'[t].file] \in Extent
    BY DEF Present
  <2>1. CASE t = s
    BY <1>2, <1>5, <1>8, <2>1
  <2>2. CASE t # s
    <3>1. stream'[t] = stream[t] /\ stream[t] # Closed
      BY <1>8, <2>2
    <3>2. stream[t].file \in Files /\ disk[stream[t].file] \in Extent
      BY <1>0, <3>1, OpenFields DEF IInv, Present
    <3> QED BY <1>5, <3>1, <3>2
  <2> QED BY <2>1, <2>2
<1>11. StdHeld'
  <2>1. s \notin Sentinel /\ NoFile \notin Sentinel
    BY StreamAssumption DEF Sentinel, NoFile
  <2> QED BY <1>0, <1>7, <2>1 DEF IInv, StdHeld
<1> QED BY <1>3, <1>4, <1>5, <1>9, <1>10, <1>11

\* A successful close.
LEMMA CloseKeeps ==
  ASSUME IInv, NEW h, Close(h)
  PROVE  /\ table' \in [Handle -> {NoFile} \union Sentinel \union Streams]
         /\ stream' \in [Streams -> {Closed} \union Open]
         /\ StreamsHeld' /\ Present' /\ StdHeld'
<1> DEFINE s == table[h]
<1>0. /\ h \in Handle /\ s \in Streams /\ IsFile(h)
      /\ table \in [Handle -> {NoFile} \union Sentinel \union Streams]
      /\ stream \in [Streams -> {Closed} \union Open]
      /\ stream' = [stream EXCEPT ![s] = Closed]
      /\ table' = [table EXCEPT ![h] = NoFile]
      /\ disk' = disk
  BY FileFacts DEF Close, IInv, TypeOK
<1> HIDE DEF s
<1>1. /\ table' \in [Handle -> {NoFile} \union Sentinel \union Streams]
      /\ stream' \in [Streams -> {Closed} \union Open]
  BY <1>0
<1>2. \A g \in Handle : g # h => table[g] # s
  BY <1>0 DEF IInv, StreamsHeld, s
<1>3. \A g \in Handle : table'[g] = IF g = h THEN NoFile ELSE table[g]
  BY <1>0
<1>4. \A t \in Streams : stream'[t] = IF t = s THEN Closed ELSE stream[t]
  BY <1>0
<1>5. NoFile \notin Streams
  BY StreamAssumption DEF NoFile
<1>6. StreamsHeld'
  <2>1. ASSUME NEW g \in Handle, table'[g] \in Streams
        PROVE  stream'[table'[g]] # Closed
    <3>1. g # h /\ table'[g] = table[g] /\ table[g] # s
      BY <1>2, <1>3, <1>5, <2>1
    <3> QED BY <1>4, <2>1, <3>1 DEF IInv, StreamsHeld
  <2>2. ASSUME NEW t \in Streams, stream'[t] # Closed
        PROVE  \E g \in Handle : table'[g] = t
    <3>1. t # s /\ stream[t] # Closed
      BY <1>4, <2>2
    <3>2. PICK g \in Handle : table[g] = t
      BY <3>1 DEF IInv, StreamsHeld
    <3>3. g # h
      BY <3>1, <3>2 DEF s
    <3> QED BY <1>3, <3>2, <3>3
  <2>3. ASSUME NEW g \in Handle, NEW k \in Handle, g # k, table'[g] \in Streams
        PROVE  table'[g] # table'[k]
    BY <1>3, <1>5, <2>3 DEF IInv, StreamsHeld
  <2> QED BY <2>1, <2>2, <2>3 DEF StreamsHeld
<1>7. Present'
  BY <1>0, <1>4 DEF IInv, Present
<1>8. StdHeld'
  <2>1. s \notin Sentinel /\ NoFile \notin Sentinel
    BY <1>0, StreamAssumption DEF Sentinel, NoFile
  <2> QED BY <1>3, <2>1 DEF IInv, StdHeld, s
<1> QED BY <1>1, <1>6, <1>7, <1>8

-----------------------------------------------------------------------------
(* The calls that move a stream.                                           *)

\* What a read, a write or a seek on handle h has in common: the stream moves
\* to p, its file comes to have n bytes, and the answer is v.
Moves(h, p, op, n, v) ==
  /\ IsFile(h)
  /\ Moved(h, p, op, n)
  /\ Return("none", h, v)
  /\ n >= disk[stream[table[h]].file]
  /\ stream[table[h]].mode = "rb" => n = disk[stream[table[h]].file]

MoveCall(h) ==
  \E p \in Extent, op \in {"none", "read", "write"}, n \in Extent, v \in Extent \union Count :
    Moves(h, p, op, n, v)

LEMMA ReadMoves ==
  ASSUME IInv, NEW h, NEW count \in Count, Read(h, count)
  PROVE  MoveCall(h)
<1> DEFINE s == stream[table[h]]
           size == disk[s.file]
           pos == s.pos
           rest == Greatest(0, size - pos)
           got == IF s.mode = "wb" THEN 0 ELSE Least(count, rest)
<1>0. IsFile(h) /\ Moved(h, pos + got, "read", size) /\ Return("none", h, got)
  BY DEF Read
<1>1. size \in Extent /\ pos \in Extent
  BY <1>0, FileFacts
<1> HIDE DEF size, pos
<1>2. got \in Extent /\ pos + got \in Extent
  <2>1. size \in Nat /\ pos \in Nat /\ size <= MaxSize /\ pos <= MaxSize
        /\ count \in Nat /\ MaxSize \in Nat
    BY <1>1, FileAssumption DEF Extent, Count
  <2>2. rest \in Nat /\ pos + rest <= MaxSize /\ rest <= MaxSize
    BY <2>1 DEF Greatest
  <2> HIDE DEF rest
  <2>3. got \in Nat /\ got <= rest
    BY <2>1, <2>2 DEF Least
  <2> HIDE DEF got
  <2> QED BY <2>1, <2>2, <2>3 DEF Extent
<1> HIDE DEF got
<1>3. size >= size
  BY <1>1 DEF Extent
<1>4. Moves(h, pos + got, "read", size, got)
  BY <1>0, <1>3 DEF Moves, size
<1> QED BY <1>1, <1>2, <1>4 DEF MoveCall

LEMMA WriteMoves ==
  ASSUME IInv, NEW h, NEW count \in Count, Write(h, count)
  PROVE  MoveCall(h)
<1> DEFINE s == stream[table[h]]
           size == disk[s.file]
           pos == s.pos
<1>0. IsFile(h) /\ size \in Extent /\ pos \in Extent
  <2>1. IsFile(h)
    BY DEF Write
  <2> QED BY <2>1, FileFacts
<1>1. PICK put \in IF s.mode = "rb" THEN {0} ELSE 0..Least(count, MaxSize - pos) :
        /\ Moved(h, pos + put, "write", IF put = 0 THEN size ELSE Greatest(size, pos + put))
        /\ Return("none", h, put)
  BY DEF Write
<1>2. s.mode = "rb" => put = 0
  BY <1>1
<1> DEFINE n == IF put = 0 THEN size ELSE Greatest(size, pos + put)
<1>3. put \in Extent /\ pos + put \in Extent
  <2> HIDE DEF size, pos
  <2>1. pos \in Nat /\ pos <= MaxSize /\ count \in Nat /\ MaxSize \in Nat
    BY <1>0, FileAssumption DEF Extent, Count
  <2>2. CASE s.mode = "rb"
    BY <1>1, <2>1, <2>2 DEF Extent
  <2>3. CASE s.mode # "rb"
    <3>1. put \in 0..Least(count, MaxSize - pos)
      BY <1>1, <2>3
    <3> HIDE DEF s
    <3>2. put \in Nat /\ put <= MaxSize - pos
      BY <2>1, <3>1 DEF Least
    <3> QED BY <2>1, <3>2 DEF Extent
  <2> QED BY <2>2, <2>3
<1> HIDE DEF size, pos
<1>4. n \in Extent /\ n >= size /\ (put = 0 => n = size)
  BY <1>0, <1>3, FileAssumption DEF Greatest, Extent
<1>5. Moved(h, pos + put, "write", n) /\ Return("none", h, put)
  BY <1>1
<1> HIDE DEF n
<1>6. Moves(h, pos + put, "write", n, put)
  BY <1>0, <1>2, <1>4, <1>5 DEF Moves, size
<1> QED BY <1>3, <1>4, <1>6 DEF MoveCall

LEMMA TurnedMoves ==
  ASSUME IInv, NEW h, NEW op \in {"read", "write"}, NEW count \in Count,
         TurnedTransfer(h, op, count)
  PROVE  MoveCall(h)
<1> DEFINE size == disk[stream[table[h]].file]
<1>0. IsFile(h) /\ stream[table[h]].mode = "wb+" /\ size \in Extent
  <2>1. IsFile(h) /\ stream[table[h]].mode = "wb+"
    BY DEF TurnedTransfer, Turned
  <2> QED BY <2>1, FileFacts
<1>1. PICK n \in 0..count, p \in Extent, to \in size..MaxSize :
        Moved(h, p, op, to) /\ Return("none", h, n)
  BY DEF TurnedTransfer
<1>2. n \in Count /\ to \in Extent /\ to >= size
  <2> HIDE DEF size
  <2> QED BY <1>0, <1>1, FileAssumption DEF Count, Extent
<1>3. Moves(h, p, op, to, n)
  BY <1>0, <1>1, <1>2 DEF Moves
<1> QED BY <1>1, <1>2, <1>3 DEF MoveCall

LEMMA SeekMoves ==
  ASSUME IInv, NEW h, NEW offset \in Offset, NEW origin \in 0..3, Seek(h, offset, origin)
  PROVE  MoveCall(h)
<1> DEFINE s == stream[table[h]]
           size == disk[s.file]
           t == Target(h, offset, origin)
           ok == origin \in 0..2 /\ t >= 0
           p == IF ok THEN t ELSE s.pos
           op == IF ok THEN "none" ELSE s.last
<1>0. IsFile(h) /\ p <= MaxSize /\ Moved(h, p, op, size) /\ Return("none", h, p)
  BY DEF Seek
<1>1. size \in Extent /\ s.pos \in Extent /\ s \in Open
  BY <1>0, FileFacts
<1>2. s.last \in {"none", "read", "write"}
  BY <1>1, OpenFields
<1>3. t \in Int
  <2>1. size \in Int /\ s.pos \in Int /\ offset \in Int
    BY <1>1, FileAssumption DEF Extent, Offset
  <2> QED BY <2>1 DEF Target
<1> HIDE DEF t
<1>4. p \in Extent
  <2>1. CASE ok
    BY <1>0, <1>3, <2>1, FileAssumption DEF Extent
  <2>2. CASE ~ok
    BY <1>1, <2>2
  <2> QED BY <2>1, <2>2
<1>5. op \in {"none", "read", "write"}
  BY <1>2
<1>6. size >= size
  BY <1>1 DEF Extent
<1> HIDE DEF p, op
<1>7. Moves(h, p, op, size, p)
  BY <1>0, <1>6 DEF Moves
<1> QED BY <1>1, <1>4, <1>5, <1>7 DEF MoveCall

-----------------------------------------------------------------------------
(* The invariant.                                                          *)

\* A move keeps the invariant.
LEMMA MoveCallKeeps ==
  ASSUME IInv, NEW h, MoveCall(h)
  PROVE  IInv'
<1>1. PICK p \in Extent, op \in {"none", "read", "write"}, n \in Extent,
           v \in Extent \union Count : Moves(h, p, op, n, v)
  BY DEF MoveCall
<1>2. /\ table' = table
      /\ stream' \in [Streams -> {Closed} \union Open]
      /\ disk' \in [Files -> Extent \union {Absent}]
      /\ StreamsHeld' /\ Present' /\ StdHeld'
  BY <1>1, MovedKeeps DEF Moves
<1>3. h \in AnyHandle /\ v \in Nat
  BY <1>1, FileFacts, FileAssumption DEF Moves, Handle, AnyHandle, Extent, Count
<1>4. Return("none", h, v)
  BY <1>1 DEF Moves
<1>5. answer' \in Answer /\ pc' \in {"running", "crashed", "exited"}
  BY <1>3, <1>4, AnswerType DEF IInv
<1> QED BY <1>2, <1>5 DEF IInv, TypeOK

\* The answers of the calls that move nothing.
LEMMA QuietAnswers ==
  ASSUME IInv,
         NEW e \in {"none", "no_handles", "not_found", "invalid"},
         NEW h \in AnyHandle, NEW v \in Nat,
         Return(e, h, v), UNCHANGED <<table, stream, disk>>
  PROVE  IInv'
BY AnswerType, QuietKeeps DEF IInv

THEOREM NextIInv == IInv /\ [Next]_vars => IInv'
<1> SUFFICES ASSUME IInv, [Next]_vars PROVE IInv'
  OBVIOUS
<1>t. 0 \in Nat /\ 0 \in AnyHandle /\ MaxFiles \in AnyHandle
      /\ \A n \in Count : n \in Nat
  BY FileAssumption DEF AnyHandle, Count
<1>1. CASE NoHandles
  BY <1>1, <1>t, QuietAnswers DEF NoHandles
<1>2. CASE NotFound
  BY <1>2, <1>t, QuietAnswers DEF NotFound
<1>3. CASE Exit
  <2>1. answer' \in Answer /\ pc' \in {"running", "crashed", "exited"}
    BY <1>3 DEF Exit, IInv, TypeOK
  <2> QED BY <1>3, <2>1, QuietKeeps DEF Exit
<1>4. ASSUME NEW f \in Files, NEW m \in FMode, Opened(f, m) PROVE IInv'
  <2>1. PICK i \in Handle, s \in Streams :
          /\ FirstFree(i) /\ Fopen(f, m, s) /\ table' = [table EXCEPT ![i] = s]
          /\ Return("none", 0, i)
    BY <1>4 DEF Opened
  <2>2. /\ table' \in [Handle -> {NoFile} \union Sentinel \union Streams]
        /\ stream' \in [Streams -> {Closed} \union Open]
        /\ disk' \in [Files -> Extent \union {Absent}]
        /\ StreamsHeld' /\ Present' /\ StdHeld'
    BY <2>1, OpenedKeeps
  <2>3. i \in Nat
    BY FileAssumption DEF Handle
  <2>4. answer' \in Answer /\ pc' \in {"running", "crashed", "exited"}
    BY <1>t, <2>1, <2>3, AnswerType DEF IInv
  <2> QED BY <2>2, <2>4 DEF IInv, TypeOK
<1>5. ASSUME NEW f \in Files, NameCall(f) PROVE IInv'
  <2>1. CreateMode \in FMode /\ \A mode \in 0..7 : OpenMode(mode) \in FMode
    BY DEF CreateMode, OpenMode, FMode
  <2>2. CASE Creat(f)
    BY <1>4, <2>1, <2>2 DEF Creat
  <2>3. CASE GetAttr(f)
    BY <1>t, <2>3, QuietAnswers DEF GetAttr
  <2>4. ASSUME NEW mode \in 0..7, OpenCall(f, mode) PROVE IInv'
    BY <1>4, <2>1, <2>4 DEF OpenCall
  <2> QED BY <1>5, <2>2, <2>3, <2>4 DEF NameCall
<1>6. ASSUME NEW h \in AnyHandle, HandleCall(h) PROVE IInv'
  <2>1. CASE Invalid(h)
    BY <1>t, <2>1, QuietAnswers DEF Invalid
  <2>2. CASE Close(h)
    <3>1. Return("none", h, 0) /\ disk' = disk
      BY <2>2 DEF Close
    <3>2. answer' \in Answer /\ pc' \in {"running", "crashed", "exited"}
      BY <1>t, <3>1, AnswerType DEF IInv
    <3> QED BY <2>2, <3>1, <3>2, CloseKeeps DEF IInv, TypeOK
  <2>3. CASE StdCrash(h)
    <3>1. answer' \in Answer /\ pc' \in {"running", "crashed", "exited"}
      BY <2>3 DEF StdCrash, IInv, TypeOK
    <3> QED BY <2>3, <3>1, QuietKeeps DEF StdCrash
  <2>4. CASE ReadStd(h)
    BY <1>t, <2>4, QuietAnswers DEF ReadStd
  <2>5. CASE Ioctl(h)
    BY <1>t, <2>5, QuietAnswers DEF Ioctl
  <2>6. ASSUME NEW n \in Count, WriteStd(h, n) PROVE IInv'
    <3> DEFINE v == IF table[h] = "stdin" THEN 0 ELSE n
    <3>1. v \in Nat
      BY <1>t
    <3>2. Return("none", h, v) /\ UNCHANGED <<table, stream, disk>>
      BY <2>6 DEF WriteStd
    <3> HIDE DEF v
    <3> QED BY <3>1, <3>2, QuietAnswers
  <2>7. ASSUME NEW n \in Count, Read(h, n) \/ Write(h, n) PROVE IInv'
    BY <2>7, ReadMoves, WriteMoves, MoveCallKeeps
  <2>8. ASSUME NEW op \in {"read", "write"}, NEW n \in Count, TurnedTransfer(h, op, n)
        PROVE  IInv'
    BY <2>8, TurnedMoves, MoveCallKeeps
  <2>9. ASSUME NEW d \in Offset, NEW origin \in 0..3, Seek(h, d, origin) PROVE IInv'
    BY <2>9, SeekMoves, MoveCallKeeps
  <2> QED BY <1>6, <2>1, <2>2, <2>3, <2>4, <2>5, <2>6, <2>7, <2>8, <2>9 DEF HandleCall
<1>7. CASE UNCHANGED vars
  BY <1>7, QuietKeeps DEF vars, IInv, TypeOK
<1> QED BY <1>1, <1>2, <1>3, <1>5, <1>6, <1>7 DEF Next

THEOREM Invariance == Spec => []IInv
BY InitIInv, NextIInv, PTL DEF Spec

\* Every slot of the table, stream and position keeps to its type.
THEOREM TypeCorrect == Spec => []TypeOK
<1>1. IInv => TypeOK
  BY DEF IInv
<1> QED BY <1>1, Invariance, PTL

\* No handle is ever lost, dangling or shared, whatever is opened and closed.
THEOREM NoStreamLost == Spec => []StreamsHeld
<1>1. IInv => StreamsHeld
  BY DEF IInv
<1> QED BY <1>1, Invariance, PTL

-----------------------------------------------------------------------------
(* The promise of DosHandles.                                              *)

\* DosHandles and DosFiles speak of the same sets.
LEMMA SameSets ==
  /\ Handles!Extent = Extent /\ Handles!Count = Count /\ Handles!FMode = FMode
  /\ Handles!Handle = Handle /\ Handles!Std = Std /\ Handles!AnyHandle = AnyHandle
  /\ Handles!Absent = Absent
BY DEF Handles!Extent, Extent, Handles!Count, Count, Handles!FMode, FMode,
       Handles!Handle, Handle, Handles!Std, Std, Handles!AnyHandle, AnyHandle,
       Handles!Absent, Absent

\* What a program sees of the table.
LEMMA OpensFacts ==
  ASSUME IInv
  PROVE  /\ DOMAIN Opens = Held
         /\ Held \subseteq Handle /\ Handle \subseteq AnyHandle
         /\ \A h \in AnyHandle : h \in Held <=> IsFile(h)
         /\ \A h \in Held : h \notin Std /\ Opens[h] = Visible(stream[table[h]])
         /\ \A h \in AnyHandle \ (Std \union Held) : Bad(h)
         /\ \A h \in AnyHandle : Bad(h) => h \notin Std \union Held
<1>1. Handle \subseteq AnyHandle /\ Std \subseteq Handle
  BY FileAssumption DEF Handle, AnyHandle, Std
<1>2. Held \subseteq Handle /\ DOMAIN Opens = Held
  BY DEF Held, Opens
<1>3. \A h \in AnyHandle : h \in Held <=> IsFile(h)
  BY <1>1 DEF Held, IsFile
<1>4. Streams \intersect Sentinel = {} /\ NoFile \notin Streams \union Sentinel
  BY StreamAssumption DEF Sentinel, NoFile
<1>5. \A h \in Held : h \notin Std /\ Opens[h] = Visible(stream[table[h]])
  BY <1>4 DEF Held, Opens, IInv, StdHeld
<1>6. \A h \in AnyHandle \ (Std \union Held) : Bad(h)
  BY DEF Held, Bad, IInv, TypeOK, StdHeld
<1>7. \A h \in AnyHandle : Bad(h) => h \notin Std \union Held
  BY <1>1, <1>4 DEF Held, Bad, IInv, StdHeld
<1> QED BY <1>1, <1>2, <1>3, <1>5, <1>6, <1>7

\* A move is a move of the handle that was named, and of no other.
LEMMA MoveRefines ==
  ASSUME IInv, NEW h \in AnyHandle, MoveCall(h), pc = "running"
  PROVE  Handles!HandlesMove
<1>1. PICK p \in Extent, op \in {"none", "read", "write"}, n \in Extent,
           v \in Extent \union Count : Moves(h, p, op, n, v)
  BY DEF MoveCall
<1> DEFINE s == table[h]
           f == stream[s].file
<1>2. /\ h \in Held /\ s \in Streams /\ stream[s] \in Open /\ table' = table
      /\ stream' = [stream EXCEPT ![s].pos = p, ![s].last = op]
      /\ disk' = [disk EXCEPT ![f] = n] /\ disk \in [Files -> Extent \union {Absent}]
      /\ stream \in [Streams -> {Closed} \union Open]
      /\ f \in Files
  BY <1>1, FileFacts, OpensFacts DEF Moves, Moved, IInv, TypeOK
<1>3. Held' = Held
  BY <1>2 DEF Held
<1>4. \A k \in Held : Visible(stream'[table[k]]) =
        IF k = h THEN [Visible(stream[s]) EXCEPT !.pos = p] ELSE Visible(stream[table[k]])
  <2> SUFFICES ASSUME NEW k \in Held
               PROVE  Visible(stream'[table[k]]) =
                        IF k = h THEN [Visible(stream[s]) EXCEPT !.pos = p]
                        ELSE Visible(stream[table[k]])
    OBVIOUS
  <2>1. CASE k = h
    <3>1. /\ stream'[s].file = stream[s].file /\ stream'[s].mode = stream[s].mode
          /\ stream'[s].pos = p
      BY <1>2 DEF Open
    <3> QED BY <2>1, <3>1 DEF Visible
  <2>2. CASE k # h
    <3>1. table[k] # s /\ table[k] \in Streams
      BY <1>2, <2>2 DEF Held, IInv, StreamsHeld
    <3>2. stream'[table[k]] = stream[table[k]]
      BY <1>2, <3>1
    <3> QED BY <2>2, <3>2
  <2> QED BY <2>1, <2>2
<1>5. Opens' = [Opens EXCEPT ![h].pos = p]
  <2>1. Opens' = [k \in Held |-> Visible(stream'[table[k]])]
    BY <1>2, <1>3 DEF Opens
  <2> QED BY <1>2, <1>4, <2>1 DEF Opens
<1>6. Opens[h].mode = stream[s].mode /\ Opens[h].file = f
  BY <1>2 DEF Opens, Visible
<1>7. stream[s].mode = "rb" => disk' = disk
  BY <1>1, <1>2 DEF Moves
<1>8. n >= disk[f]
  BY <1>1 DEF Moves
<1>9. Handles!Reply("none", h, v)
  BY <1>1 DEF Moves, Return, Handles!Reply
<1>10. h \in DOMAIN Opens
  BY <1>2, OpensFacts
<1>11. IF Opens[h].mode = "rb"
       THEN UNCHANGED disk
       ELSE \E k \in Extent :
              /\ k >= disk[Opens[h].file]
              /\ disk' = [disk EXCEPT ![Opens[h].file] = k]
  BY <1>2, <1>6, <1>7, <1>8
<1>12. p \in Extent /\ v \in Extent \union Count
  BY <1>1
<1> QED BY <1>5, <1>9, <1>10, <1>11, <1>12, SameSets DEF Handles!HandlesMove

\* An open makes one handle more, that was not open and is not standard.
LEMMA OpenRefines ==
  ASSUME IInv, NEW f \in Files, NEW m \in FMode, Opened(f, m)
  PROVE  Handles!HandlesOpen
<1>1. PICK i \in Handle, s \in Streams :
        /\ FirstFree(i) /\ Fopen(f, m, s) /\ table' = [table EXCEPT ![i] = s]
        /\ Return("none", 0, i) /\ pc = "running"
  BY DEF Opened
<1> DEFINE o == [file |-> f, mode |-> m, pos |-> 0, last |-> "none"]
<1>2. /\ stream' = [stream EXCEPT ![s] = o] /\ stream[s] = Closed /\ table[i] = NoFile
      /\ table \in [Handle -> {NoFile} \union Sentinel \union Streams]
      /\ stream \in [Streams -> {Closed} \union Open]
      /\ s \notin Sentinel /\ NoFile \notin Sentinel \union Streams
  BY <1>1, StreamAssumption DEF Fopen, FirstFree, IInv, TypeOK, Sentinel, NoFile
<1>3. i \notin Std \union Held
  BY <1>2 DEF Held, IInv, StdHeld
<1>4. Held' = Held \union {i}
  BY <1>1, <1>2 DEF Held
<1>5. \A k \in Held : table'[k] = table[k] /\ stream'[table[k]] = stream[table[k]]
  <2> SUFFICES ASSUME NEW k \in Held
               PROVE  table'[k] = table[k] /\ stream'[table[k]] = stream[table[k]]
    OBVIOUS
  <2>1. k \in Handle /\ table[k] \in Streams /\ stream[table[k]] # Closed
    BY DEF Held, IInv, StreamsHeld
  <2>2. k # i /\ table[k] # s
    BY <1>2, <1>3, <2>1
  <2> HIDE DEF o
  <2> QED BY <1>1, <1>2, <2>1, <2>2
<1>6. Visible(stream'[table'[i]]) = [file |-> f, mode |-> m, pos |-> 0]
  <2>1. table'[i] = s /\ stream'[s] = o
    BY <1>1, <1>2
  <2> QED BY <2>1 DEF Visible
<1>7. Opens' = [k \in DOMAIN Opens \union {i} |->
                  IF k = i THEN [file |-> f, mode |-> m, pos |-> 0] ELSE Opens[k]]
  <2>1. Opens' = [k \in Held \union {i} |-> Visible(stream'[table'[k]])]
    BY <1>4 DEF Opens
  <2>2. \A k \in Held \union {i} : Visible(stream'[table'[k]]) =
          IF k = i THEN [file |-> f, mode |-> m, pos |-> 0] ELSE Opens[k]
    BY <1>5, <1>6 DEF Opens
  <2>3. DOMAIN Opens = Held
    BY DEF Opens
  <2> QED BY <2>1, <2>2, <2>3
<1>8. /\ m = "rb" => disk[f] # Absent
      /\ disk' = IF m = "rb" THEN disk ELSE [disk EXCEPT ![f] = 0]
  BY <1>1 DEF Fopen
<1>9. Handles!Reply("none", 0, i)
  BY <1>1 DEF Return, Handles!Reply
<1>10. i \in Handle \ (Std \union DOMAIN Opens)
  BY <1>3 DEF Opens
<1> HIDE DEF o
<1> QED BY <1>7, <1>8, <1>9, <1>10, SameSets DEF Handles!HandlesOpen

LEMMA CloseRefines ==
  ASSUME IInv, NEW h, Close(h)
  PROVE  Handles!HandlesClose
<1>1. /\ IsFile(h) /\ h \in Handle /\ table[h] \in Streams
      /\ table' = [table EXCEPT ![h] = NoFile]
      /\ stream' = [stream EXCEPT ![table[h]] = Closed]
      /\ disk' = disk /\ Return("none", h, 0) /\ pc = "running"
      /\ table \in [Handle -> {NoFile} \union Sentinel \union Streams]
      /\ stream \in [Streams -> {Closed} \union Open]
      /\ NoFile \notin Streams
  BY FileFacts, StreamAssumption DEF Close, IInv, TypeOK, NoFile
<1>2. Held' = Held \ {h} /\ h \in Held
  BY <1>1 DEF Held
<1>3. \A k \in Held \ {h} : table'[k] = table[k] /\ stream'[table[k]] = stream[table[k]]
  BY <1>1 DEF Held, IInv, StreamsHeld
<1>4. Opens' = [k \in DOMAIN Opens \ {h} |-> Opens[k]]
  <2>1. Opens' = [k \in Held \ {h} |-> Visible(stream'[table'[k]])]
    BY <1>2 DEF Opens
  <2>2. \A k \in Held \ {h} : Visible(stream'[table'[k]]) = Opens[k]
    BY <1>3 DEF Opens
  <2>3. DOMAIN Opens = Held
    BY DEF Opens
  <2> QED BY <2>1, <2>2, <2>3
<1>5. Handles!Reply("none", h, 0)
  BY <1>1 DEF Return, Handles!Reply
<1>6. h \in DOMAIN Opens
  BY <1>2 DEF Opens
<1> QED BY <1>1, <1>4, <1>5, <1>6 DEF Handles!HandlesClose

\* A call that changes nothing but the answer.
LEMMA QuietRefines ==
  ASSUME IInv, UNCHANGED <<table, stream, disk>>, pc = "running",
         NEW e, NEW h \in AnyHandle, NEW v, Return(e, h, v)
  PROVE  /\ Opens' = Opens /\ Handles!Reply(e, h, v)
         /\ e = "none" /\ ~IsFile(h) /\ v \in Count => Handles!HandlesQuery
<1>1. Opens' = Opens
  BY DEF Opens, Held
<1>2. Handles!Reply(e, h, v)
  BY DEF Return, Handles!Reply
<1>3. ASSUME e = "none", ~IsFile(h), v \in Count PROVE Handles!HandlesQuery
  <2>1. h \in AnyHandle \ DOMAIN Opens
    BY <1>3, OpensFacts
  <2> QED BY <1>1, <1>2, <1>3, <2>1, SameSets DEF Handles!HandlesQuery
<1> QED BY <1>1, <1>2, <1>3

\* AX=4400h on an open handle moves it to where it is.
LEMMA IoctlMoves ==
  ASSUME IInv, NEW h, IsFile(h), Ioctl(h)
  PROVE  MoveCall(h)
<1> DEFINE s == table[h]
           o == stream[s]
           size == disk[o.file]
<1>1. /\ s \in Streams /\ o \in Open /\ o.pos \in Extent /\ size \in Extent
      /\ o.file \in Files
      /\ stream \in [Streams -> {Closed} \union Open]
      /\ disk \in [Files -> Extent \union {Absent}]
  BY FileFacts DEF IInv, TypeOK
<1>2. o.last \in {"none", "read", "write"}
  BY <1>1, OpenFields
<1>3. [o EXCEPT !.pos = o.pos, !.last = o.last] = o
  BY <1>1 DEF Open
<1>4. [stream EXCEPT ![s].pos = o.pos, ![s].last = o.last] = stream
  <2>1. [stream EXCEPT ![s].pos = o.pos, ![s].last = o.last]
          = [stream EXCEPT ![s] = [o EXCEPT !.pos = o.pos, !.last = o.last]]
    BY <1>1
  <2> HIDE DEF o, s
  <2>2. [stream EXCEPT ![s] = o] = stream
    BY <1>1 DEF o
  <2> QED BY <1>3, <2>1, <2>2 DEF o
<1>5. [disk EXCEPT ![o.file] = size] = disk
  BY <1>1
<1>6. Moved(h, o.pos, o.last, size)
  BY <1>4, <1>5 DEF Ioctl, Moved
<1>7. size >= size /\ 0 \in Extent
  BY <1>1, FileAssumption DEF Extent
<1>8. Return("none", h, 0)
  BY DEF Ioctl
<1>9. Moves(h, o.pos, o.last, size, 0)
  BY <1>6, <1>7, <1>8 DEF Moves
<1> HIDE DEF o, size
<1> QED BY <1>1, <1>2, <1>7, <1>9 DEF MoveCall

LEMMA StepRefines ==
  ASSUME IInv, [Next]_vars
  PROVE  [Handles!HandlesNext]_(Handles!handleVars)
<1> USE DEF Handles!HandlesNext
<1>t. 0 \in AnyHandle /\ MaxFiles \in AnyHandle /\ 0 \in Count /\ ~IsFile(MaxFiles)
  BY FileAssumption DEF AnyHandle, Count, IsFile, Handle
<1>0. ~IsFile(0)
  BY OpensFacts, <1>t DEF Std
<1>1. CASE NoHandles
  <2>1. Opens' = Opens /\ Handles!Reply("no_handles", 0, 0)
    BY <1>1, <1>t, QuietRefines DEF NoHandles
  <2>2. Held = Handle \ Std
    BY <1>1, OpensFacts DEF NoHandles, Full, Held, IInv, TypeOK, StdHeld
  <2>3. DOMAIN Opens = Handle \ Std
    BY <2>2, OpensFacts
  <2>4. Handles!HandlesRefuse
    BY <1>1, <2>1, <2>3, SameSets DEF NoHandles, Handles!HandlesRefuse
  <2> QED BY <2>4
<1>2. CASE NotFound
  <2>1. Opens' = Opens /\ Handles!Reply("not_found", 0, 0)
    BY <1>2, <1>t, QuietRefines DEF NotFound
  <2>2. Handles!HandlesRefuse
    BY <1>2, <2>1 DEF NotFound, Handles!HandlesRefuse
  <2> QED BY <2>2
<1>3. ASSUME UNCHANGED <<table, stream, disk, answer>>, pc' # "running"
      PROVE  Handles!HandlesStop
  <2>1. Opens' = Opens
    BY <1>3 DEF Opens, Held
  <2> QED BY <1>3, <2>1 DEF Handles!HandlesStop
<1>4. CASE Exit
  BY <1>3, <1>4 DEF Exit
<1>5. ASSUME NEW f \in Files, NameCall(f) PROVE Handles!HandlesNext
  <2>1. CreateMode \in FMode /\ \A mode \in 0..7 : OpenMode(mode) \in FMode
    BY DEF CreateMode, OpenMode, FMode
  <2>2. CASE Creat(f)
    BY <2>1, <2>2, OpenRefines DEF Creat
  <2>3. CASE GetAttr(f)
    <3>1. CASE Return("none", MaxFiles, 0)
      <4>1. Handles!HandlesQuery
        BY <1>t, <2>3, <3>1, QuietRefines DEF GetAttr
      <4> QED BY <4>1
    <3>2. CASE Return("not_found", 0, 0)
      <4>1. Opens' = Opens /\ Handles!Reply("not_found", 0, 0)
        BY <1>t, <2>3, <3>2, QuietRefines DEF GetAttr
      <4>2. Handles!HandlesRefuse
        BY <2>3, <4>1 DEF GetAttr, Handles!HandlesRefuse
      <4> QED BY <4>2
    <3> QED BY <2>3, <3>1, <3>2 DEF GetAttr
  <2>4. ASSUME NEW mode \in 0..7, OpenCall(f, mode) PROVE Handles!HandlesNext
    BY <2>1, <2>4, OpenRefines DEF OpenCall
  <2> QED BY <1>5, <2>2, <2>3, <2>4 DEF NameCall
<1>6. ASSUME NEW h \in AnyHandle, HandleCall(h) PROVE Handles!HandlesNext
  <2>m. ASSUME MoveCall(h), pc = "running" PROVE Handles!HandlesNext
    BY <2>m, MoveRefines
  <2>n. IsStd(h) => ~IsFile(h)
    BY StreamAssumption DEF IsStd, IsFile, Sentinel
  <2>1. CASE Invalid(h)
    <3>1. Opens' = Opens /\ Handles!Reply("invalid", h, 0)
      BY <2>1, QuietRefines DEF Invalid
    <3>2. h \in AnyHandle \ (Std \union DOMAIN Opens)
      BY <2>1, OpensFacts DEF Invalid
    <3>3. Handles!HandlesRefuse
      BY <2>1, <3>1, <3>2, SameSets DEF Invalid, Handles!HandlesRefuse
    <3> QED BY <3>3
  <2>2. CASE Close(h)
    BY <2>2, CloseRefines
  <2>3. CASE StdCrash(h)
    BY <1>3, <2>3 DEF StdCrash
  <2>4. CASE ReadStd(h)
    <3>1. Handles!HandlesQuery
      BY <1>t, <2>4, <2>n, QuietRefines DEF ReadStd
    <3> QED BY <3>1
  <2>5. CASE Ioctl(h)
    <3>1. CASE IsFile(h)
      BY <2>5, <2>m, <3>1, IoctlMoves DEF Ioctl
    <3>2. CASE ~IsFile(h)
      <4>1. Handles!HandlesQuery
        BY <1>t, <2>5, <3>2, QuietRefines DEF Ioctl
      <4> QED BY <4>1
    <3> QED BY <3>1, <3>2
  <2>6. ASSUME NEW n \in Count, WriteStd(h, n) PROVE Handles!HandlesNext
    <3> DEFINE v == IF table[h] = "stdin" THEN 0 ELSE n
    <3>1. v \in Count
      BY <1>t
    <3>2. /\ Return("none", h, v) /\ UNCHANGED <<table, stream, disk>>
          /\ pc = "running" /\ ~IsFile(h)
      BY <2>6, <2>n DEF WriteStd
    <3> HIDE DEF v
    <3>3. Handles!HandlesQuery
      BY <3>1, <3>2, QuietRefines
    <3> QED BY <3>3
  <2>7. ASSUME NEW n \in Count, Read(h, n) PROVE Handles!HandlesNext
    BY <2>7, <2>m, ReadMoves DEF Read
  <2>8. ASSUME NEW n \in Count, Write(h, n) PROVE Handles!HandlesNext
    BY <2>8, <2>m, WriteMoves DEF Write
  <2>9. ASSUME NEW op \in {"read", "write"}, NEW n \in Count, TurnedTransfer(h, op, n)
        PROVE  Handles!HandlesNext
    BY <2>9, <2>m, TurnedMoves DEF TurnedTransfer
  <2>10. ASSUME NEW d \in Offset, NEW origin \in 0..3, Seek(h, d, origin)
         PROVE  Handles!HandlesNext
    BY <2>10, <2>m, SeekMoves DEF Seek
  <2> QED BY <1>6, <2>1, <2>2, <2>3, <2>4, <2>5, <2>6, <2>7, <2>8, <2>9, <2>10 DEF HandleCall
<1>7. CASE UNCHANGED vars
  BY <1>7 DEF vars, Handles!handleVars, Opens, Held
<1> QED BY <1>1, <1>2, <1>4, <1>5, <1>6, <1>7 DEF Next

LEMMA InitRefines == Init => Handles!HandlesInit
<1> SUFFICES ASSUME Init PROVE Handles!HandlesInit
  OBVIOUS
<1>1. IInv
  BY InitIInv
<1>2. Held = {}
  BY StreamAssumption DEF Init, Held, Handle, NoFile
<1>3. Opens = [h \in {} |-> 0]
  BY <1>2 DEF Opens
<1> QED BY <1>3, SameSets DEF Init, Handles!HandlesInit

\* The file calls keep the promise of DosHandles: handles are fresh, their
\* own, and refused when closed, and a refused call changes nothing.
THEOREM Refinement == Spec => ImplementsHandles
<1>1. IInv /\ [Next]_vars => [Handles!HandlesNext]_(Handles!handleVars)
  BY StepRefines
<1> QED BY <1>1, InitRefines, Invariance, PTL DEF Spec, ImplementsHandles, Handles!HandlesSpec
=============================================================================
