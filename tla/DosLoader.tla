------------------------------ MODULE DosLoader ------------------------------
(***************************************************************************)
(* From main() to the first instruction of the program and on to its exit: *)
(* src/intf/main.c, the loaders of src/emu/loader and bios_init, on top of *)
(* the allocator of DosMem.  A stage runs until it asks for memory; the    *)
(* allocator then takes its own steps and the next stage reads the answer. *)
(*                                                                         *)
(* Of the bytes written only the writer is kept: mem says of each address  *)
(* which byte of the image it holds, or that a relocation, a PSP field or  *)
(* the program's arguments were written there last.  Addresses past the    *)
(* arena are kept too, because nothing in the code stops a write to them.  *)
(*                                                                         *)
(* Segments and offsets are uint16, of which there are Total.              *)
(***************************************************************************)
EXTENDS DosMem, FiniteSetsExt

CONSTANTS
  ParaSize,   \* bytes of a paragraph: 16
  BlockSize,  \* bytes of a block of an MZ file: 0x200
  PspSize,    \* bytes of the PSP: 0x100
  ArgsAt,     \* where the arguments begin in it: 0x81
  PspFields,  \* what of it is filled in: 0..3, 5, 0xA..0x15, 0x2C, 0x2D, 0x50..0x52, 0x80
  Hack,       \* bytes every MZ program is given on top: 0x1000
  Programs,   \* what the program's name may stand for
  ArgLens     \* lengths of the arguments, each with its leading space

ASSUME LoaderAssumption ==
  /\ ParaSize \in Nat \ {0} /\ BlockSize \in Nat /\ Hack \in Nat \ {0}
  /\ PspSize \in 0..(Total - 1) /\ PspSize % ParaSize = 0
  /\ ArgsAt \in 1..(PspSize - 1)
  /\ PspFields \subseteq 0..(ArgsAt - 1)
  /\ ArgsAt - 1 \in PspFields        \* the length of the arguments
  /\ Internal * ParaSize = Total      \* 0x1000 paragraphs are a segment
  /\ Internal + 2 < Total             \* and the BIOS and the environment not all
  /\ ArgLens \subseteq Nat

\* The fields of an MZ header and of its relocation entries are uint16.
ASSUME ProgramAssumption ==
  \A p \in Programs :
    /\ p.kind \in {"missing", "com", "mz"}
    /\ p.kind = "com" => p.len \in Nat
    /\ p.kind = "mz" =>
         /\ {p.blocks, p.last, p.header, p.extra} \subseteq Para
         /\ {p.entry.cs, p.entry.ip, p.entry.ss, p.entry.sp} \subseteq Para
         /\ \A r \in p.relocs : r.segment \in Para /\ r.offset \in Para

VARIABLES
  stage,      \* how far main() has come
  prg,        \* the program file, as far as it has been read
  arglen,     \* length of the arguments
  dos,        \* the DosExecState, and the ending address put in the PSP
  mem,        \* who wrote each byte of memory last
  cpu         \* the registers a loader sets

loadVars == <<stage, prg, arglen, dos, mem, cpu>>
allVars == <<vars, loadVars>>

\* A file that does not open, a COM file of len bytes, and an MZ file with the
\* header fields that matter; relocs are its relocation entries, entry the
\* registers it wants to start with, its segments relative to the image.
Missing == [kind |-> "missing"]
ComFile(len) == [kind |-> "com", len |-> len]
MzFile(blocks, last, header, extra, relocs, entry) ==
  [kind |-> "mz", blocks |-> blocks, last |-> last, header |-> header,
   extra |-> extra, relocs |-> relocs, entry |-> entry]

MzFiles == { p \in Programs : p.kind = "mz" }

Flat(seg, ptr) == seg * ParaSize + (ptr % Total)
Paras(bytes) == (bytes + ParaSize - 1) \div ParaSize

Arena == 0..(Total * ParaSize - 1)
Address == 0..(2 * Total * ParaSize - 1)

NoPsp == Total - 1      \* pspseg before a loader has set it: 0xFFFF

\* Writers other than the image, whose byte i is written as i.
Nobody == -1
Psp == -2
Args == -3
Reloc == -4

-----------------------------------------------------------------------------

LoaderInit ==
  /\ Init
  /\ stage = "bios"
  /\ prg \in Programs
  /\ arglen \in ArgLens
  /\ dos = [envseg |-> 0, codeseg |-> 0, pspseg |-> 0, codelen |-> 0, ending |-> 0]
  /\ mem = [a \in Address |-> Nobody]
  /\ cpu = [cs |-> Total - 1, ip |-> 0, ss |-> 0, sp |-> 0, ds |-> 0, es |-> 0]

\* The stage has the answer to its last request for memory.
At(s) == stage = s /\ pc = "idle"
Granted(s) == At(s) /\ ret.err = "none"

\* Slip: the size is taken as it is.
AskWhole(paras) == Call(AllocReq(paras))

\* bios_mem_alloc takes a uint16.
Ask(paras) == Call(AllocReq(paras % Total))

\* bios_init has its segment; prv_build_env, whose environment is empty, asks
\* for one paragraph.
BiosInit ==
  /\ Granted("bios")
  /\ Ask(Paras(1))
  /\ stage' = "env"
  /\ UNCHANGED <<prg, arglen, dos, mem, cpu>>

NoFile ==
  /\ Granted("env")
  /\ prg.kind = "missing"
  /\ stage' = "failed"
  /\ UNCHANGED <<vars, prg, arglen, dos, mem, cpu>>

\* Slip: no room for the PSP.
ComParasBare(len) == Paras(len)

\* The paragraphs a COM file takes, with its PSP.
ComParas(len) == Paras(len + PspSize)

OpenCom ==
  /\ Granted("env")
  /\ prg.kind = "com"
  /\ Ask(ComParas(prg.len))
  /\ dos' = [dos EXCEPT !.envseg = ret.ptr, !.pspseg = NoPsp, !.codelen = prg.len]
  /\ stage' = "com"
  /\ UNCHANGED <<prg, arglen, mem, cpu>>

\* The header's idea of the image's size: a size_t that wraps when negative.
ExeSize(p) ==
  p.blocks * BlockSize - (IF p.last = 0 THEN 0 ELSE BlockSize - p.last)
    - p.header * ParaSize

MzLen(p) == ExeSize(p) + p.extra * ParaSize + PspSize + Hack

\* In a file of less than two bytes the magic number and the header are what
\* the stack holds.
OpenMz ==
  /\ Granted("env")
  /\ \/ prg.kind = "mz" /\ prg' = prg
     \/ prg.kind = "com" /\ prg.len < 2 /\ prg' \in MzFiles
  /\ Ask(Paras(MzLen(prg')))
  /\ dos' = [dos EXCEPT !.envseg = ret.ptr, !.pspseg = NoPsp, !.codelen = MzLen(prg')]
  /\ stage' = "mz"
  /\ UNCHANGED <<arglen, mem, cpu>>

-----------------------------------------------------------------------------

\* Slip: the file is loaded over its own PSP.
ComAtZero(seg, i) == Flat(seg, i)

\* Where byte i of a COM file goes: the offset is a uint16.
ComAt(seg, i) == Flat(seg, PspSize + i)

\* Slip: a COM file is taken to need no PSP.
LoadComNoPsp ==
  /\ Granted("com")
  /\ LET seg == ret.ptr
         into(a) == { i \in 0..(prg.len - 1) : ComAt(seg, i) = a }
     IN  /\ mem' = [a \in Address |-> IF into(a) = {} THEN mem[a] ELSE Max(into(a))]
         /\ dos' = [dos EXCEPT !.codeseg = seg]
  /\ stage' = "psp"
  /\ UNCHANGED <<vars, prg, arglen, cpu>>

LoadCom ==
  /\ Granted("com")
  /\ LET seg == ret.ptr
         into(a) == { i \in 0..(prg.len - 1) : ComAt(seg, i) = a }
     IN  /\ mem' = [a \in Address |-> IF into(a) = {} THEN mem[a] ELSE Max(into(a))]
         /\ dos' = [dos EXCEPT !.codeseg = seg, !.pspseg = seg]
  /\ stage' = "psp"
  /\ UNCHANGED <<vars, prg, arglen, cpu>>

\* The two bytes of memory a relocation entry changes.
Patched(seg, r) == LET a == Flat((seg + r.segment) % Total, r.offset) IN {a, a + 1}

\* Writes past the arena's end are undefined: they may take the emulator down.
LoadMz ==
  /\ Granted("mz")
  /\ ExeSize(prg) >= 0
  /\ LET seg == (ret.ptr + PspSize \div ParaSize) % Total
         image == Flat(seg, 0)..(Flat(seg, 0) + ExeSize(prg) - 1)
         patched == UNION { Patched(seg, r) : r \in prg.relocs }
     IN  /\ mem' = [a \in Address |-> IF a \in patched THEN Reloc
                                      ELSE IF a \in image THEN a - Flat(seg, 0)
                                      ELSE mem[a]]
         /\ dos' = [dos EXCEPT !.codeseg = seg, !.pspseg = ret.ptr, !.codelen = @ - PspSize]
         /\ cpu' = [cpu EXCEPT !.ss = (seg + prg.entry.ss) % Total, !.sp = prg.entry.sp,
                               !.cs = (seg + prg.entry.cs) % Total, !.ip = prg.entry.ip]
         /\ \/ stage' = "psp"
            \/ ~((image \union patched) \subseteq Arena) /\ stage' = "crashed"
  /\ UNCHANGED <<vars, prg, arglen>>

\* The copying loop counts up to a wrapped size_t.
LoadMzForever ==
  /\ Granted("mz")
  /\ ExeSize(prg) < 0
  /\ stage' = "crashed"
  /\ UNCHANGED <<vars, prg, arglen, dos, mem, cpu>>

\* prv_build_env, load_com and load_mz give up without memory.
NoMemory ==
  /\ \E s \in {"env", "com", "mz"} : At(s) /\ ret.err # "none"
  /\ stage' = "failed"
  /\ UNCHANGED <<vars, prg, arglen, dos, mem, cpu>>

-----------------------------------------------------------------------------

\* Slip: the arguments begin where their length is kept.
ArgAtCount(seg, k) == Flat(seg, ArgsAt - 1 + k)

\* Where byte k of the arguments goes; byte arglen is the carriage return.
ArgAt(seg, k) == Flat(seg, ArgsAt + k)

\* loader() allocates no PSP: PspNotSentinel.  Only the fields are written: the
\* bytes between them keep what is there.  The arguments, of any length, may come
\* back to the PSP's first bytes; their length is written last.
BuildPsp ==
  /\ stage = "psp"
  /\ LET args == { ArgAt(dos.pspseg, k) : k \in 0..arglen } \ {Flat(dos.pspseg, ArgsAt - 1)}
         fields == { Flat(dos.pspseg, k) : k \in PspFields }
     IN  mem' = [a \in Address |-> IF a \in args THEN Args
                                   ELSE IF a \in fields THEN Psp ELSE mem[a]]
  /\ dos' = [dos EXCEPT !.ending = (dos.codeseg + Paras(dos.codelen) + 1) % Total]
  /\ stage' = "start"
  /\ UNCHANGED <<vars, prg, arglen, cpu>>

\* Slip: the stack segment is the program's.
StartComOwnStack ==
  /\ stage = "start"
  /\ prg.kind = "com"
  /\ cpu' = [cpu EXCEPT !.cs = dos.codeseg, !.ip = PspSize, !.ds = dos.pspseg,
                        !.es = dos.pspseg, !.ss = dos.codeseg]
  /\ stage' = "running"
  /\ UNCHANGED <<vars, prg, arglen, dos, mem>>

StartCom ==
  /\ stage = "start"
  /\ prg.kind = "com"
  /\ cpu' = [cpu EXCEPT !.cs = dos.codeseg, !.ip = PspSize, !.ds = dos.pspseg, !.es = dos.pspseg]
  /\ stage' = "running"
  /\ UNCHANGED <<vars, prg, arglen, dos, mem>>

StartMz ==
  /\ stage = "start"
  /\ prg.kind = "mz"
  /\ cpu' = [cpu EXCEPT !.ds = dos.pspseg, !.es = dos.pspseg]
  /\ stage' = "running"
  /\ UNCHANGED <<vars, prg, arglen, dos, mem>>

\* AH=4Ch: main() leaves its loop and shuts the emulator down.
Exit ==
  /\ stage = "running"
  /\ Finish
  /\ stage' = "returned"
  /\ UNCHANGED <<prg, arglen, dos, mem, cpu>>

Load ==
  \/ BiosInit \/ NoFile \/ OpenCom \/ OpenMz \/ NoMemory
  \/ LoadCom \/ LoadMz \/ LoadMzForever \/ BuildPsp \/ StartCom \/ StartMz

Serve == Step /\ UNCHANGED loadVars

LoaderNext == Load \/ Serve \/ Exit

LoaderSpec == LoaderInit /\ [][LoaderNext]_allVars /\ WF_allVars(Load \/ Serve)

-----------------------------------------------------------------------------

LoaderTypeOK ==
  /\ TypeOK
  /\ stage \in {"bios", "env", "com", "mz", "psp", "start", "running",
                "failed", "crashed", "returned"}
  /\ prg \in Programs
  /\ arglen \in ArgLens
  /\ dos.envseg \in Para /\ dos.codeseg \in Para /\ dos.pspseg \in Para
  /\ dos.codelen \in Int /\ dos.ending \in Para
  /\ DOMAIN mem = Address
  /\ \A r \in DOMAIN cpu : cpu[r] \in Para

Started == stage = "running"

\* The arguments and their carriage return end before the PSP does.
ArgsFit == ArgsAt + arglen < PspSize

\* The program's size in paragraphs is a uint16, and its image no more than a
\* segment if it is a COM file.
Wanted16 == IF prg.kind = "com" THEN ComParas(prg.len) ELSE Paras(MzLen(prg))
SizeFits == Wanted16 < Total /\ (prg.kind = "com" => prg.len + PspSize <= Total)

Image == IF prg.kind = "com" THEN prg.len ELSE ExeSize(prg)
Relocs == IF prg.kind = "com" THEN {} ELSE UNION { Patched(dos.codeseg, r) : r \in prg.relocs }

\* The byte of the file that runs first: a segment before the image wraps.
EntryAt == IF prg.kind = "com" THEN 0
           ELSE Flat(prg.entry.cs, prg.entry.ip) % (Total * ParaSize)

\* When the program starts, CS:IP is at the byte of its file where it wants to
\* start, and around it lies the rest of its image, changed by nothing but a
\* relocation: neither the PSP, which is built later, nor the arguments have
\* overwritten it.
ImageIntact ==
  Started /\ ArgsFit /\ SizeFits /\ EntryAt < Image =>
    \A i \in 0..(Image - 1) :
      LET a == Flat(cpu.cs, cpu.ip) - EntryAt + i
      IN  mem[a] = IF a \in Relocs THEN Reloc ELSE i

\* Whatever was loaded, and however a COM file wrapped in its segment or a
\* relocation strayed, the fields of the PSP and the arguments are what
\* prv_build_psp wrote, unless the arguments are so long that they wrap in their
\* segment themselves.  The rest of the PSP is never cleared: it is as mem_init
\* left it when the file fits, but for a relocation; a COM file that wraps leaves
\* its tail there.
PspIntact ==
  Started /\ ArgsAt + arglen < Total =>
    /\ \A k \in PspFields : mem[Flat(cpu.ds, k)] = Psp
    /\ \A k \in 0..arglen : mem[Flat(cpu.ds, ArgsAt + k)] = Args
    /\ SizeFits =>
         \A k \in 0..(PspSize - 1) \ (PspFields \union ArgsAt..(ArgsAt + arglen)) :
           LET a == Flat(cpu.ds, k) IN mem[a] = IF a \in Relocs THEN Reloc ELSE Nobody

Bytes(i) == (nodes[i].para * ParaSize)..((nodes[i].para + nodes[i].size) * ParaSize - 1)

\* The loader writes only to the block it allocated for the program: image,
\* PSP and arguments together are never longer than what was asked for.
Contained ==
  Started /\ ArgsFit /\ SizeFits =>
    \E i \in DOMAIN nodes :
      /\ nodes[i].in_use /\ nodes[i].para = dos.pspseg
      /\ { a \in Address : mem[a] # Nobody } \subseteq Bytes(i) \union Relocs

\* The memory the header of an MZ file asks for, without the PSP, has room for
\* the stack that the header sets up.
AsksForStack ==
  Flat(prg.entry.ss, prg.entry.sp) <= ExeSize(prg) + prg.extra * ParaSize

\* A COM program is started without a stack of its own, at the top of segment
\* 0: that segment is the one the BIOS keeps, so that pushing overwrites
\* neither the program, nor the environment, nor memory it may be given.  The
\* stack of an MZ program, if the file asks for enough memory, lies from SS:0
\* to SS:SP in the program's own block, behind the PSP.
StackApart ==
  Started =>
    \A i \in DOMAIN nodes :
      /\ prg.kind = "com" =>
           \A k \in 0..(Total - 1) :
             Flat(cpu.ss, cpu.sp + k) \in Bytes(i) =>
               nodes[i].in_use /\ nodes[i].para \notin {dos.envseg, dos.pspseg}
      /\ prg.kind = "mz" /\ SizeFits /\ AsksForStack /\ nodes[i].para = dos.pspseg =>
           \A k \in 0..(cpu.sp - 1) :
             /\ Flat(cpu.ss, k) \in Bytes(i)
             /\ Flat(cpu.ss, k) >= Flat(dos.pspseg, 0) + PspSize

\* Both loaders leave a PSP of their own in pspseg, and never at the paragraph
\* 0xFFFF by which loader() tells that one is missing: the PSP is always the
\* head of the program's block, and loader() allocates none.
PspNotSentinel == stage = "psp" => dos.pspseg # NoPsp

\* Loading ends, in a program that runs or in main() giving up: the loader and
\* the allocator never wait for each other.
LoadEnds == <>(stage \in {"running", "returned", "failed", "crashed"})

=============================================================================
