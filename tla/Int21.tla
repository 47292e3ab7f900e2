------------------------------- MODULE Int21 -------------------------------
(***************************************************************************)
(* The BIOS as a program sees it: the hooked interrupts of src/emu/bios/   *)
(* bios.c, the dispatch by AH and AL of bios_int21h.c, the registers each  *)
(* handler reads and sets and the carry flag, over the allocator of DosMem *)
(* and the file table of DosFiles.                                         *)
(*                                                                         *)
(* The program knows of its blocks and handles what the carry flag and AX  *)
(* told it: `view`.  It loads any registers of its repertoire, with any    *)
(* carry flag, interrupts, and looks at the answer.                        *)
(*                                                                         *)
(* Bytes that calls transfer to and from files are left out (DosFiles); of *)
(* the data segment `text` keeps a part the program does not change.       *)
(***************************************************************************)
EXTENDS DosText

CONSTANTS
  Total, Internal, MaxNodes,                      \* see DosMem
  MaxFiles, Files, MaxSize, MaxCount, Streams,    \* see DosFiles
  SegSize,      \* bytes of a segment: 0x10000
  FirstRoom,    \* bytes of the string reader's first buffer: 0x80
  Clock,        \* bound: the words the host's clock gives for a date or time
  Programs      \* by name: what a program may ask, its text, the host's files

Uint16 == 0..(2^16 - 1)

ASSUME Int21Assumption ==
  /\ FirstRoom \in Nat \ {0} /\ SegSize \in Nat \ {0}
  /\ Total \in Nat /\ Total <= 2^16
  /\ Internal \in 1..(Total - 1)
  /\ MaxNodes \in Nat
  /\ MaxFiles \in Nat /\ MaxFiles > 3 /\ MaxFiles < 2^16
  /\ MaxSize \in Nat /\ MaxSize \div 2^16 < 2^16      \* ftell's answer fits DW:AW
  /\ Streams \intersect {"NULL", "stdin", "stdout", "stderr"} = {}
  /\ Clock \subseteq Uint16

VARIABLES
  nodes, mem, cur, req, ret,              \* DosMem; mem is its pc
  table, stream, disk, fil, answer,       \* DosFiles; fil is its pc
  reg, cf,      \* the registers and the carry flag
  pc,           \* who runs: the program, a part of the BIOS, or nobody
  buf, ptr, room,     \* the string reader: bytes read, next offset, malloc'ed
  shown,        \* what the call printed
  asked,        \* what the program remembers having asked
  view,         \* the handles and blocks it concludes that it has
  prog, text    \* the program, and the bytes of its data segment

memVars == <<nodes, mem, cur, req, ret>>
filVars == <<table, stream, disk, fil, answer>>
readVars == <<buf, ptr, room>>
userVars == <<asked, view, prog, text>>
vars == <<memVars, filVars, readVars, userVars, reg, cf, pc, shown>>

Mem == INSTANCE DosMem WITH pc <- mem
Fil == INSTANCE DosFiles WITH pc <- fil

Idle == [int |-> 0, aw |-> 0, bw |-> 0, cw |-> 0, dw |-> 0, es |-> 0]

Register == [int : 0..255, aw : Uint16, bw : Uint16, cw : Uint16, dw : Uint16, es : Uint16]

Ah(r) == r.aw \div 256
Al(r) == r.aw % 256
Calls(r, ahs) == r.int = \h21 /\ Ah(r) \in ahs

\* A program asks with any registers.  Sizes and paragraphs are those of DosMem,
\* which has as many uint16 values as paragraphs.  A program that asks for empty
\* blocks cannot tell which of the blocks with one handle a call is about.
ASSUME ProgramAssumption ==
  \A p \in DOMAIN Programs :
    /\ Programs[p].asks \subseteq Register
    /\ \A r \in Programs[p].asks :
         /\ Calls(r, {\h48, \h4A}) => r.bw \in 1..(Total - 1)
         /\ Calls(r, {\h49, \h4A}) => r.es < Total
    /\ Programs[p].texts \subseteq [0..(SegSize - 1) -> 0..255]

\* An int32 in CW and DW.
Offset(cw, dw) == (IF cw >= \h8000 THEN cw - \h10000 ELSE cw) * \h10000 + dw

-----------------------------------------------------------------------------
(* bios_init: the allocation of the internal segment, then the vectors.    *)

Init ==
  /\ Mem!Init /\ Fil!Init
  /\ pc = "boot"
  /\ reg = Idle /\ cf = FALSE
  /\ buf = << >> /\ ptr = 0 /\ room = FirstRoom
  /\ shown = << >>
  /\ asked = Idle
  /\ view = [files |-> {}, blocks |-> {}]
  /\ prog \in DOMAIN Programs
  /\ text \in Programs[prog].texts
  /\ disk \in Programs[prog].disks

Boot ==
  /\ pc = "boot"
  /\ IF mem = "idle"
     THEN /\ pc' = "user"
          /\ view' = [view EXCEPT !.blocks = {[para |-> ret.ptr, size |-> Internal]}]
          /\ UNCHANGED memVars
     ELSE Mem!Step /\ UNCHANGED <<pc, view>>
  /\ UNCHANGED <<filVars, readVars, reg, cf, shown, asked, prog, text>>

\* The bounds of DosMem and DosFiles on what is asked of them.
Bounded(r) ==
  /\ Calls(r, {\h48}) => Len(nodes) < MaxNodes
  /\ Calls(r, {\h42}) /\ Fil!IsFile(r.bw)
       => Fil!Target(r.bw, Offset(r.cw, r.dw), Al(r)) <= MaxSize

\* The program runs into an interrupt.
Interrupt(r, c) ==
  /\ pc = "user"
  /\ Bounded(r)
  /\ pc' = "dispatch"
  /\ reg' = r /\ cf' = c
  /\ asked' = r
  /\ shown' = << >>
  /\ UNCHANGED <<memVars, filVars, readVars, view, prog, text>>

-----------------------------------------------------------------------------
(* bios_ret, and the ways a handler comes to its end.                      *)

DosErr == [none |-> 0, bad_func |-> 1, not_found |-> 2, no_handles |-> 4,
           invalid |-> 6, oom |-> 8, mba |-> 9]

\* Slip: a success leaves the carry flag.
RetKeepsCarry(e, r) ==
  /\ pc' = "iret"
  /\ cf' = IF e = "none" THEN cf ELSE TRUE
  /\ reg' = IF e = "none" THEN r ELSE [reg EXCEPT !.aw = DosErr[e]]

\* bios_ret(e), after which a successful call has the registers r.
Ret(e, r) ==
  /\ pc' = "iret"
  /\ cf' = (e # "none")
  /\ reg' = IF e = "none" THEN r ELSE [reg EXCEPT !.aw = DosErr[e]]

\* A handler that does without bios_ret.
Leave(r) == pc' = "iret" /\ reg' = r /\ UNCHANGED cf

Handling(ahs) == pc = "dispatch" /\ Calls(reg, ahs)

\* The calls with a handler for every AL, and those with one for AL = 0.
AnySub == {\h02, \h09, \h25, \h2A, \h2C, \h30, \h35, \h3B, \h3C, \h3D, \h3E, \h3F,
           \h40, \h42, \h48, \h49, \h4A, \h4C}
SubZero == {\h43, \h44}

HasHandler(r) == Calls(r, AnySub) \/ (Calls(r, SubZero) /\ Al(r) = 0)

\* int_handler_fallback: an unknown call, or any other interrupt.
Fallback ==
  /\ pc = "dispatch"
  /\ ~HasHandler(reg)
  /\ Ret("bad_func", reg)
  /\ UNCHANGED <<memVars, filVars, readVars, userVars, shown>>

-----------------------------------------------------------------------------
(* The calls that keep no state: AH=02h, 25h, 2Ah, 2Ch, 30h and 35h.       *)

WriteChar ==
  /\ Handling({\h02})
  /\ shown' = Printed(<<reg.dw % 256>>)
  /\ Leave([reg EXCEPT !.aw = reg.dw % 256])
  /\ UNCHANGED <<memVars, filVars, readVars, userVars>>

GetDate ==
  /\ Handling({\h2A})
  /\ \E day \in 0..6, year, date \in Clock :
       Leave([reg EXCEPT !.aw = day, !.cw = year, !.dw = date])
  /\ UNCHANGED <<memVars, filVars, readVars, userVars, shown>>

GetTime ==
  /\ Handling({\h2C})
  /\ \E time, seconds \in Clock : Leave([reg EXCEPT !.cw = time, !.dw = seconds])
  /\ UNCHANGED <<memVars, filVars, readVars, userVars, shown>>

GetVersion ==
  /\ Handling({\h30})
  /\ Leave([reg EXCEPT !.bw = 0, !.aw = 5])
  /\ UNCHANGED <<memVars, filVars, readVars, userVars, shown>>

\* The vectors are neither set nor given.
Vectors ==
  /\ Handling({\h25, \h35})
  /\ Leave(reg)
  /\ UNCHANGED <<memVars, filVars, readVars, userVars, shown>>

-----------------------------------------------------------------------------
(* prv_bios_read_str, on behalf of AH=09h, 3Bh, 3Ch, 3Dh and AX=4300h.     *)

Reads(r) ==
  \/ Calls(r, {\h09, \h3B, \h3C, \h3D})
  \/ Calls(r, {\h43}) /\ Al(r) = 0

Terminator(r) == IF Calls(r, {\h09}) THEN Dollar ELSE Nul

\* The search for a free handle comes first, but changes nothing.
ReadStart ==
  /\ pc = "dispatch"
  /\ Reads(reg)
  /\ pc' = "read"
  /\ buf' = << >> /\ ptr' = reg.dw % SegSize /\ room' = FirstRoom
  /\ UNCHANGED <<memVars, filVars, userVars, reg, cf, shown>>

Here == text[ptr]

\* Slips: a NUL that is skipped is looked at again; NULs are kept; the buffer
\* grows once it has overflowed.
ReadByteStuck ==
  /\ pc = "read"
  /\ Here # Terminator(reg)
  /\ ptr' = IF Here = Nul THEN ptr ELSE (ptr + 1) % SegSize
  /\ buf' = IF Here = Nul \/ Len(buf) = SegSize THEN buf ELSE Append(buf, Here)
  /\ room' = IF Len(buf') = room THEN 2 * room ELSE room
  /\ UNCHANGED <<memVars, filVars, userVars, reg, cf, pc, shown>>

ReadByteKeepsNul ==
  /\ pc = "read"
  /\ Here # Terminator(reg)
  /\ ptr' = (ptr + 1) % SegSize
  /\ buf' = IF Len(buf) = SegSize THEN buf ELSE Append(buf, Here)
  /\ room' = IF Len(buf') = room THEN 2 * room ELSE room
  /\ UNCHANGED <<memVars, filVars, userVars, reg, cf, pc, shown>>

ReadByteGrowsLate ==
  /\ pc = "read"
  /\ Here # Terminator(reg)
  /\ ptr' = (ptr + 1) % SegSize
  /\ buf' = IF Here = Nul \/ Len(buf) = SegSize THEN buf ELSE Append(buf, Here)
  /\ room' = IF Len(buf') > room THEN 2 * room ELSE room
  /\ UNCHANGED <<memVars, filVars, userVars, reg, cf, pc, shown>>

\* The offset wraps.  A string that has no end is read for ever; the model
\* keeps as much of it as a segment holds.
ReadByte ==
  /\ pc = "read"
  /\ Here # Terminator(reg)
  /\ ptr' = (ptr + 1) % SegSize
  /\ buf' = IF Here = Nul \/ Len(buf) = SegSize THEN buf ELSE Append(buf, Here)
  /\ room' = IF Len(buf') = room THEN 2 * room ELSE room
  /\ UNCHANGED <<memVars, filVars, userVars, reg, cf, pc, shown>>

\* The string is complete: the handler of the call goes on with it.
HasRead(ahs) == pc = "read" /\ Here = Terminator(reg) /\ Calls(reg, ahs)

\* The reader is idle again (AX=4300h leaves its buffer to the host's leaks).
FreeBuf == buf' = << >> /\ ptr' = 0 /\ room' = FirstRoom

WriteString ==
  /\ HasRead({\h09})
  /\ shown' = Printed(buf)
  /\ Leave([reg EXCEPT !.aw = Dollar])
  /\ FreeBuf
  /\ UNCHANGED <<memVars, filVars, userVars>>

\* The host's chdir may refuse.
ChangeDir ==
  /\ HasRead({\h3B})
  /\ \E e \in {"none", "bad_func"} : Ret(e, reg)
  /\ FreeBuf
  /\ UNCHANGED <<memVars, filVars, userVars, shown>>

-----------------------------------------------------------------------------
(* The file calls: DosFiles does the work, and the registers tell.         *)

Aw(v) == [reg EXCEPT !.aw = v]

\* The handle in BW; MaxFiles stands for every number too large (FileCall).
Named == IF reg.bw < MaxFiles THEN reg.bw ELSE MaxFiles

CreateOrOpen ==
  /\ HasRead({\h3C, \h3D})
  /\ \/ Fil!NoHandles
     \/ Fil!NotFound
     \/ \E f \in Files : IF Ah(reg) = \h3C THEN Fil!Creat(f) ELSE Fil!OpenCall(f, Al(reg) % 8)
  /\ Ret(answer'.err, Aw(answer'.val))
  /\ FreeBuf
  /\ UNCHANGED <<memVars, userVars, shown>>

\* The name may be one of a file the host does not have.
FileAttr ==
  /\ HasRead({\h43})
  /\ \E f \in Files : Fil!GetAttr(f)
  /\ Ret(answer'.err, [reg EXCEPT !.aw = 0, !.cw = 0])
  /\ FreeBuf
  /\ UNCHANGED <<memVars, userVars, shown>>

CloseFile ==
  /\ Handling({\h3E})
  /\ Fil!Invalid(Named) \/ Fil!Close(Named)
  /\ Ret(answer'.err, reg)
  /\ UNCHANGED <<memVars, readVars, userVars, shown>>

\* The len bytes of the data segment from offset dw on.
Bytes(dw, len) == [i \in 1..len |-> text[(dw + i - 1) % SegSize]]

ReadFile ==
  /\ Handling({\h3F})
  /\ \/ Fil!Invalid(Named) \/ Fil!ReadStd(Named) \/ Fil!Read(Named, reg.cw)
     \/ Fil!TurnedTransfer(Named, "read", reg.cw)
  /\ Ret(answer'.err, Aw(answer'.val))
  /\ UNCHANGED <<memVars, readVars, userVars, shown>>

WriteFile ==
  /\ Handling({\h40})
  /\ \/ Fil!Invalid(Named) \/ Fil!WriteStd(Named, reg.cw) \/ Fil!Write(Named, reg.cw)
     \/ Fil!TurnedTransfer(Named, "write", reg.cw)
  /\ shown' = IF ~Fil!Bad(Named) /\ table[Named] \in {"stdout", "stderr"}
              THEN Printed(Bytes(reg.dw, reg.cw)) ELSE shown
  /\ Ret(answer'.err, Aw(answer'.val))
  /\ UNCHANGED <<memVars, readVars, userVars>>

SeekFile ==
  /\ Handling({\h42})
  /\ Fil!Invalid(Named) \/ Fil!Seek(Named, Offset(reg.cw, reg.dw), Al(reg))
  /\ Ret(answer'.err, [reg EXCEPT !.aw = answer'.val % \h10000, !.dw = answer'.val \div \h10000])
  /\ UNCHANGED <<memVars, readVars, userVars, shown>>

\* Closing or seeking a standard handle passes a sentinel to the C library.
StdCrash ==
  /\ Handling({\h3E, \h42})
  /\ Fil!StdCrash(Named)
  /\ pc' = "crashed"
  /\ UNCHANGED <<memVars, readVars, userVars, reg, cf, shown>>

DeviceInfo ==
  /\ Handling({\h44})
  /\ Al(reg) = 0
  /\ Fil!Ioctl(Named)
  /\ Ret("none", [reg EXCEPT !.dw = 0])
  /\ UNCHANGED <<memVars, readVars, userVars, shown>>

\* AH=4Ch: main() leaves its loop.
Exit ==
  /\ Handling({\h4C})
  /\ Fil!Exit
  /\ pc' = "exited"
  /\ UNCHANGED <<memVars, readVars, userVars, reg, cf, shown>>

-----------------------------------------------------------------------------
(* The memory calls: DosMem takes its own steps, then bios_ret is called.  *)

MemReq ==
  CASE Ah(reg) = \h48 -> Mem!AllocReq(reg.bw)
    [] Ah(reg) = \h49 -> Mem!FreeReq(reg.es)
    [] Ah(reg) = \h4A -> Mem!ResizeReq(reg.bw, reg.es)

MemCall ==
  /\ Handling({\h48, \h49, \h4A})
  /\ Mem!Call(MemReq)
  /\ pc' = "memory"
  /\ UNCHANGED <<filVars, readVars, userVars, reg, cf, shown>>

MemStep ==
  /\ pc = "memory"
  /\ Mem!Step
  /\ pc' = IF mem' = "crashed" THEN "crashed" ELSE pc
  /\ UNCHANGED <<filVars, readVars, userVars, reg, cf, shown>>

MemRet ==
  /\ pc = "memory"
  /\ mem = "idle"
  /\ Ret(ret.err, IF Ah(reg) = \h48 THEN Aw(ret.ptr) ELSE reg)
  /\ UNCHANGED <<memVars, filVars, readVars, userVars, shown>>

-----------------------------------------------------------------------------
(* The program is running again.                                           *)

Without(blocks, p) == {b \in blocks : b.para # p}

\* What a program that asked a and finds no carry concludes.
Concluded(a) ==
  CASE Calls(a, {\h3C, \h3D}) -> [view EXCEPT !.files = @ \union {reg.aw}]
    [] Calls(a, {\h3E}) -> [view EXCEPT !.files = @ \ {a.bw}]
    [] Calls(a, {\h48}) -> [view EXCEPT !.blocks = @ \union {[para |-> reg.aw, size |-> a.bw]}]
    [] Calls(a, {\h49}) -> [view EXCEPT !.blocks = Without(@, a.es)]
    [] Calls(a, {\h4A}) ->
         [view EXCEPT !.blocks = Without(@, a.es) \union {[para |-> a.es, size |-> a.bw]}]
    [] OTHER -> view

\* All the program keeps of the answer is its view.
Resume ==
  /\ pc = "iret"
  /\ pc' = "user"
  /\ view' = IF cf THEN view ELSE Concluded(asked)
  /\ reg' = Idle /\ cf' = FALSE /\ asked' = Idle
  /\ shown' = << >>
  /\ UNCHANGED <<memVars, filVars, readVars, prog, text>>

Answers ==
  \/ Fallback \/ WriteChar \/ GetDate \/ GetTime \/ GetVersion \/ Vectors
  \/ ReadStart \/ ReadByte \/ WriteString \/ ChangeDir
  \/ CreateOrOpen \/ FileAttr \/ CloseFile \/ ReadFile \/ WriteFile \/ SeekFile \/ StdCrash
  \/ DeviceInfo \/ Exit
  \/ MemCall \/ MemStep \/ MemRet

Serve == Boot \/ Answers \/ Resume

Next == Serve \/ (\E r \in Programs[prog].asks, c \in BOOLEAN : Interrupt(r, c))

Spec == Init /\ [][Next]_vars

\* One thread runs the emulator; the program need not call again.
FairSpec == Spec /\ WF_vars(Serve)

-----------------------------------------------------------------------------

\* Every register is a uint16, the string reader stays within its buffer, the
\* NUL at the end included, and the allocator is at work only when asked.
TypeOK ==
  /\ Mem!TypeOK /\ Fil!TypeOK
  /\ reg \in Register /\ asked \in Register
  /\ cf \in BOOLEAN
  /\ pc \in {"boot", "user", "dispatch", "read", "memory", "iret", "crashed", "exited"}
  /\ Len(buf) < room
  /\ ptr \in 0..(SegSize - 1)
  /\ mem # "idle" => pc \in {"boot", "memory", "crashed"}
  /\ (pc = "crashed") = (mem = "crashed" \/ fil = "crashed")
  /\ (pc = "exited") = (fil = "exited")

\* Through all calls, whatever the flags were before them and whatever failed,
\* carry and AX alone tell the program exactly which handles have a file and
\* which blocks it owns: no call succeeds behind its back, none it takes for
\* done has failed, and no handle or paragraph in AX is an error code.
ViewAgrees ==
  pc = "user" => /\ view.files = Fil!Held
                 /\ view.blocks = Mem!Live(nodes)

\* The text of the call a: the character in DL, the string up to its "$"
\* without the NULs, or cw bytes; the offset wraps.
Written(a) ==
  CASE Calls(a, {\h02}) -> <<a.dw % 256>>
    [] Calls(a, {\h09}) ->
         LET n == Min({n \in 0..(SegSize - 1) : text[(a.dw + n) % SegSize] = Dollar})
         IN  WithoutNul(Bytes(a.dw, n))
    [] Calls(a, {\h40}) /\ a.bw \in {1, 2} -> Bytes(a.dw, a.cw)
    [] OTHER -> << >>

\* A call that writes text shows the characters of that text and no others:
\* all of them when it is made of whole characters, the first ones otherwise.
\* "$" ends a string wherever it stands, and never within a character.
TextShown ==
  pc = "iret" => /\ IsPrefix(shown, Written(asked))
                 /\ IsText(Written(asked)) => shown = Written(asked)

\* The call of the program is of a kind that ends: if it reads a string, the
\* string has an end somewhere in the segment.
Ends == Reads(asked) => \E i \in DOMAIN text : text[i] = Terminator(asked)

\* Every call comes to its end, however the string wraps around its segment,
\* unless the string has none.
CallReturns ==
  (pc \in {"boot", "dispatch", "read", "memory", "iret"} /\ Ends)
    ~> (pc \in {"user", "crashed", "exited"})
=============================================================================
