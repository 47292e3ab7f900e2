------------------------------ MODULE DosFiles ------------------------------
(***************************************************************************)
(* The file calls of INT 21h in src/emu/bios/bios_int21h.c: the table      *)
(* s_open_files, its three sentinels for the standard handles, and the C   *)
(* streams behind the other handles.  A handler runs to its end before the *)
(* program continues, so a call is one action.                             *)
(*                                                                         *)
(* The C library is external and modelled from how the handlers use it:    *)
(* fopen may fail for any reason of the host's, a write may be cut short,  *)
(* and a stream's address may be used again once the stream is closed.  Of *)
(* a file only its size is kept.  A read that follows a write on the same  *)
(* stream, or the other way round, without a seek between them is          *)
(* undefined in C: any count, position and longer file may result.         *)
(***************************************************************************)
EXTENDS FileCall

CONSTANT Streams    \* the FILE pointers fopen can return

ASSUME StreamAssumption == Streams \intersect {"NULL", "stdin", "stdout", "stderr"} = {}

VARIABLES
  table,      \* s_open_files
  stream,     \* the state of each FILE, Closed if it is not open
  disk,       \* the size of each file of the host, or Absent
  pc,         \* "running", "crashed" or "exited"
  answer      \* what the last call returned

vars == <<table, stream, disk, pc, answer>>

NoFile == "NULL"
Sentinel == {"stdin", "stdout", "stderr"}     \* (FILE*)1, (FILE*)2, (FILE*)3

Closed == [file |-> "none"]
Open == [file : Files, mode : FMode, pos : Extent, last : {"none", "read", "write"}]

Least(a, b) == IF a < b THEN a ELSE b
Greatest(a, b) == IF a < b THEN b ELSE a

Init ==
  /\ table = [h \in Handle |-> CASE h = 0 -> "stdin"
                                 [] h = 1 -> "stdout"
                                 [] h = 2 -> "stderr"
                                 [] OTHER -> NoFile]
  /\ stream = [s \in Streams |-> Closed]
  /\ disk \in [Files -> Extent \union {Absent}]
  /\ pc = "running"
  /\ answer = [err |-> "none", handle |-> 0, val |-> 0]

\* bios_ret, and the registers the handler sets after it.
Return(e, h, v) ==
  /\ answer' = [err |-> e, handle |-> h, val |-> v]
  /\ UNCHANGED pc

-----------------------------------------------------------------------------
(* AH=3Ch and AH=3Dh: create, and open with one of eight modes.            *)

FirstFree(i) == table[i] = NoFile /\ \A j \in 0..(i - 1) : table[j] # NoFile

Full == \A i \in Handle : table[i] # NoFile

CreateMode == "wb"
OpenMode(mode) == IF mode \in {1, 2} THEN "wb+" ELSE "rb"

\* Slip: the host is asked first, and has emptied the file by then.
NoHandlesLate ==
  /\ pc = "running"
  /\ Full
  /\ Return("no_handles", 0, 0)
  /\ \E f \in Files : disk' = [disk EXCEPT ![f] = 0]
  /\ UNCHANGED <<table, stream>>

\* The table is searched before the host is asked for the file.
NoHandles ==
  /\ pc = "running"
  /\ Full
  /\ Return("no_handles", 0, 0)
  /\ UNCHANGED <<table, stream, disk>>

NotFound ==
  /\ pc = "running"
  /\ ~Full
  /\ Return("not_found", 0, 0)
  /\ UNCHANGED <<table, stream, disk>>

\* fopen gives a stream on file f.
Fopen(f, m, s) ==
  /\ stream[s] = Closed
  /\ m = "rb" => disk[f] # Absent
  /\ stream' = [stream EXCEPT ![s] = [file |-> f, mode |-> m, pos |-> 0, last |-> "none"]]
  /\ disk' = IF m = "rb" THEN disk ELSE [disk EXCEPT ![f] = 0]

Opened(f, m) ==
  /\ pc = "running"
  /\ \E i \in Handle, s \in Streams :
       /\ FirstFree(i)
       /\ Fopen(f, m, s)
       /\ table' = [table EXCEPT ![i] = s]
       /\ Return("none", 0, i)

Creat(f) == Opened(f, CreateMode)

OpenCall(f, mode) == Opened(f, OpenMode(mode))

-----------------------------------------------------------------------------
(* The calls that name a handle.                                           *)

Bad(h) == h \in Handle => table[h] = NoFile

\* AH=3Eh, 3Fh, 40h and 42h refuse a handle that is not open.
Invalid(h) ==
  /\ pc = "running"
  /\ Bad(h)
  /\ Return("invalid", h, 0)
  /\ UNCHANGED <<table, stream, disk>>

IsStd(h) == h \in Handle /\ table[h] \in Sentinel
IsFile(h) == h \in Handle /\ table[h] \in Streams

\* Slip: the table keeps the stream that was closed.
CloseKeepsSlot(h) ==
  /\ pc = "running"
  /\ IsFile(h)
  /\ stream' = [stream EXCEPT ![table[h]] = Closed]
  /\ Return("none", h, 0)
  /\ UNCHANGED <<table, disk>>

\* AH=3Eh.
Close(h) ==
  /\ pc = "running"
  /\ IsFile(h)
  /\ stream' = [stream EXCEPT ![table[h]] = Closed]
  /\ table' = [table EXCEPT ![h] = NoFile]
  /\ Return("none", h, 0)
  /\ UNCHANGED disk

\* AH=3Eh and AH=42h pass a sentinel to fclose and fseek as if it were a
\* stream's address.
StdCrash(h) ==
  /\ pc = "running"
  /\ IsStd(h)
  /\ pc' = "crashed"
  /\ UNCHANGED <<table, stream, disk, answer>>

\* AH=3Fh and AH=40h on a sentinel: nothing is read, and what is written is
\* printed as a string whatever its length.
ReadStd(h) ==
  /\ pc = "running"
  /\ IsStd(h)
  /\ Return("none", h, 0)
  /\ UNCHANGED <<table, stream, disk>>

WriteStd(h, count) ==
  /\ pc = "running"
  /\ IsStd(h)
  /\ Return("none", h, IF table[h] = "stdin" THEN 0 ELSE count)
  /\ UNCHANGED <<table, stream, disk>>

\* The stream of handle h is at position p after operation op, and its file
\* has n bytes.
Moved(h, p, op, n) ==
  /\ stream' = [stream EXCEPT ![table[h]].pos = p, ![table[h]].last = op]
  /\ disk' = [disk EXCEPT ![stream[table[h]].file] = n]
  /\ UNCHANGED table

\* The stream was opened for both, and the last operation was the other one.
Turned(h, op) ==
  /\ stream[table[h]].mode = "wb+"
  /\ stream[table[h]].last \notin {"none", op}

\* AH=3Fh: nothing comes from a stream that can only be written.
Read(h, count) ==
  /\ pc = "running"
  /\ IsFile(h)
  /\ ~Turned(h, "read")
  /\ LET s == stream[table[h]]
         rest == Greatest(0, disk[s.file] - s.pos)
         got == IF s.mode = "wb" THEN 0 ELSE Least(count, rest)
     IN  /\ Moved(h, s.pos + got, "read", disk[s.file])
         /\ Return("none", h, got)

\* AH=40h: nothing goes to a stream that can only be read.
Write(h, count) ==
  /\ pc = "running"
  /\ IsFile(h)
  /\ ~Turned(h, "write")
  /\ LET s == stream[table[h]] IN
     \E put \in IF s.mode = "rb" THEN {0} ELSE 0..Least(count, MaxSize - s.pos) :
       /\ Moved(h, s.pos + put, "write",
                IF put = 0 THEN disk[s.file] ELSE Greatest(disk[s.file], s.pos + put))
       /\ Return("none", h, put)

TurnedTransfer(h, op, count) ==
  /\ pc = "running"
  /\ IsFile(h)
  /\ Turned(h, op)
  /\ LET size == disk[stream[table[h]].file] IN
     \E n \in 0..count, p \in Extent, to \in size..MaxSize :
       /\ Moved(h, p, op, to)
       /\ Return("none", h, n)

\* Where fseek goes: from the start, from the position or from the end.
Target(h, offset, origin) ==
  LET s == stream[table[h]] IN
  offset + (CASE origin = 0 -> 0
              [] origin = 1 -> s.pos
              [] OTHER -> disk[s.file])

\* Slip: the position is taken to be where fseek was asked to go.
SeekUnchecked(h, offset, origin) ==
  /\ pc = "running"
  /\ IsFile(h)
  /\ LET t == Target(h, offset, origin)
     IN  /\ t <= MaxSize
         /\ Moved(h, t, "none", disk[stream[table[h]].file])
         /\ Return("none", h, Greatest(0, t))

\* AH=42h answers with the position, whether fseek could move it or not.
Seek(h, offset, origin) ==
  /\ pc = "running"
  /\ IsFile(h)
  /\ LET s == stream[table[h]]
         t == Target(h, offset, origin)
         ok == origin \in 0..2 /\ t >= 0
         p == IF ok THEN t ELSE s.pos
     IN  /\ p <= MaxSize
         /\ Moved(h, p, IF ok THEN "none" ELSE s.last, disk[s.file])
         /\ Return("none", h, p)

\* AX=4300h opens the file to see that it is there, and closes it again.
GetAttr(f) ==
  /\ pc = "running"
  /\ \/ disk[f] # Absent /\ Return("none", MaxFiles, 0)
     \/ Return("not_found", 0, 0)
  /\ UNCHANGED <<table, stream, disk>>

\* AX=4400h answers for any handle, open or not.
Ioctl(h) ==
  /\ pc = "running"
  /\ Return("none", h, 0)
  /\ UNCHANGED <<table, stream, disk>>

\* AH=4Ch leaves the files to the C library's exit.
Exit ==
  /\ pc = "running"
  /\ pc' = "exited"
  /\ UNCHANGED <<table, stream, disk, answer>>

-----------------------------------------------------------------------------

Offset == (-MaxCount)..MaxCount

HandleCall(h) ==
  \/ Invalid(h) \/ Close(h) \/ StdCrash(h) \/ ReadStd(h) \/ Ioctl(h)
  \/ \E n \in Count : WriteStd(h, n) \/ Read(h, n) \/ Write(h, n)
  \/ \E op \in {"read", "write"}, n \in Count : TurnedTransfer(h, op, n)
  \/ \E d \in Offset, origin \in 0..3 : Seek(h, d, origin)

NameCall(f) == Creat(f) \/ GetAttr(f) \/ \E mode \in 0..7 : OpenCall(f, mode)

Next ==
  \/ NoHandles \/ NotFound \/ Exit
  \/ \E f \in Files : NameCall(f)
  \/ \E h \in AnyHandle : HandleCall(h)

Spec == Init /\ [][Next]_vars

-----------------------------------------------------------------------------

TypeOK ==
  /\ table \in [Handle -> {NoFile} \union Sentinel \union Streams]
  /\ stream \in [Streams -> {Closed} \union Open]
  /\ disk \in [Files -> Extent \union {Absent}]
  /\ pc \in {"running", "crashed", "exited"}
  /\ answer \in Answer

\* However calls opened, closed and failed, the table holds every open stream
\* in exactly one place and no stream that was closed: no handle is lost, none
\* reaches a FILE that fclose has freed, and no two share one.
StreamsHeld ==
  /\ \A h \in Handle : table[h] \in Streams => stream[table[h]] # Closed
  /\ \A s \in Streams : stream[s] # Closed => \E h \in Handle : table[h] = s
  /\ \A g, h \in Handle : g # h /\ table[g] \in Streams => table[g] # table[h]

\* The handles that have a stream, and what a program knows of them.
Held == { h \in Handle : table[h] \in Streams }

Visible(s) == [file |-> s.file, mode |-> s.mode, pos |-> s.pos]

Opens == [h \in Held |-> Visible(stream[table[h]])]

Handles == INSTANCE DosHandles WITH open <- Opens, up <- (pc = "running")

\* The calls keep the promise of DosHandles.
ImplementsHandles == Handles!HandlesSpec

\* The README lists AH=3Eh and AH=42h among the supported routines: neither
\* takes the emulator down.
NoCrash == pc # "crashed"

\* The dispatch table calls AH=3Dh "Open existing file": it leaves the host's
\* files what they are.
OpenKeepsFiles ==
  [][\A f \in Files, mode \in 0..7 : OpenCall(f, mode) => UNCHANGED disk]_vars
=============================================================================
