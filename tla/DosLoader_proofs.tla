--------------------------- MODULE DosLoader_proofs ---------------------------
(***************************************************************************)
(* Proofs about the start of a program, for every size of the arena, of a  *)
(* paragraph and of the PSP, every program file and every length of the    *)
(* arguments.                                                              *)
(*                                                                         *)
(* What the loader is sure of is not said by its code: that memory is      *)
(* empty when it starts.  The BIOS has taken the first segment, the        *)
(* environment one paragraph behind it, and no block has been freed yet,   *)
(* so that each allocation finds one free node, the last of the list       *)
(* (ListInv).  The program's block therefore begins at Home, whatever the  *)
(* file asks for, and where the image, the PSP and the stack lie follows.  *)
(***************************************************************************)
EXTENDS DosLoader, DosMem_proofs

-----------------------------------------------------------------------------
(* Arithmetic.                                                             *)

LEMMA Sizes ==
  /\ Total \in Nat /\ Internal \in Nat /\ Internal > 0 /\ Internal + 2 < Total
  /\ ParaSize \in Nat /\ ParaSize > 0 /\ BlockSize \in Nat /\ Hack \in Nat /\ Hack > 0
  /\ PspSize \in Nat /\ PspSize < Total
  /\ ArgsAt \in Nat /\ 0 < ArgsAt /\ ArgsAt < PspSize
  /\ Internal * ParaSize = Total
  /\ Para = 0..(Total - 1) /\ 0 \in Para
BY MemAssumption, LoaderAssumption DEF Para

\* A uint16 keeps the values it can hold.
LEMMA Wrap ==
  ASSUME NEW x \in Int
  PROVE  /\ x % Total \in Para
         /\ x \in Para => x % Total = x
<1>1. Total \in Nat /\ Total > 0 /\ Para = 0..(Total - 1)
  BY Sizes
<1>2. x % Total \in 0..(Total - 1)
  BY <1>1
<1>3. ASSUME x \in 0..(Total - 1)
      PROVE  x % Total = x
  BY <1>1, <1>3
<1> QED BY <1>1, <1>2, <1>3

\* Paragraphs and bytes.
LEMMA Scale ==
  ASSUME NEW x \in Int, NEW y \in Int
  PROVE  /\ x * ParaSize \in Int
         /\ (x + y) * ParaSize = x * ParaSize + y * ParaSize
         /\ (x - y) * ParaSize = x * ParaSize - y * ParaSize
         /\ x <= y => x * ParaSize <= y * ParaSize
         /\ x < y => x * ParaSize + ParaSize <= y * ParaSize
         /\ x * ParaSize < y * ParaSize => x < y
         /\ 0 * ParaSize = 0 /\ 1 * ParaSize = ParaSize
<1>1. ParaSize \in Nat /\ ParaSize > 0
  BY Sizes
<1>2. /\ x * ParaSize \in Int
      /\ (x + y) * ParaSize = x * ParaSize + y * ParaSize
      /\ (x - y) * ParaSize = x * ParaSize - y * ParaSize
  BY <1>1
<1>3. ASSUME NEW a \in Int, NEW b \in Int, a <= b
      PROVE  a * ParaSize <= b * ParaSize
  <2>1. b * ParaSize = a * ParaSize + (b - a) * ParaSize
    BY <1>1
  <2>2. (b - a) * ParaSize >= 0
    BY <1>1, <1>3
  <2> QED BY <1>1, <2>1, <2>2
<1>4. ASSUME x < y
      PROVE  x * ParaSize + ParaSize <= y * ParaSize
  <2>1. (x + 1) * ParaSize <= y * ParaSize
    BY <1>3, <1>4
  <2>2. (x + 1) * ParaSize = x * ParaSize + ParaSize
    BY <1>1
  <2> QED BY <2>1, <2>2
<1>5. ASSUME x * ParaSize < y * ParaSize
      PROVE  x < y
  <2> SUFFICES ASSUME y <= x PROVE FALSE
    OBVIOUS
  <2>1. y * ParaSize <= x * ParaSize /\ y * ParaSize \in Int
    BY <1>1, <1>3
  <2> QED BY <1>2, <1>5, <2>1
<1>6. 0 * ParaSize = 0 /\ 1 * ParaSize = ParaSize
  BY <1>1
<1> QED BY <1>2, <1>3, <1>4, <1>5, <1>6

\* SIZE2PARA rounds up.
LEMMA ParasCover ==
  ASSUME NEW b \in Int
  PROVE  /\ Paras(b) \in Int
         /\ b <= Paras(b) * ParaSize
         /\ b >= 0 => Paras(b) \in Nat
<1> DEFINE x == b + ParaSize - 1
           q == x \div ParaSize
           r == x % ParaSize
<1>1. ParaSize \in Nat /\ ParaSize > 0 /\ x \in Int /\ Paras(b) = q
  BY Sizes DEF Paras
<1> HIDE DEF x
<1>2. q \in Int /\ r \in 0..(ParaSize - 1)
  BY <1>1
<1>3. x = ParaSize * q + r
  BY <1>1
<1> HIDE DEF q, r
<1>4. ParaSize * q = q * ParaSize /\ q * ParaSize \in Int
  BY <1>1, <1>2
<1>5. b <= q * ParaSize
  BY <1>1, <1>2, <1>3, <1>4 DEF x
<1>6. ASSUME b >= 0, q < 0
      PROVE  FALSE
  <2>1. q * ParaSize + ParaSize <= 0 * ParaSize
    BY <1>2, <1>6, Scale
  <2> QED BY <1>1, <1>4, <1>5, <1>6, <2>1, Scale
<1> QED BY <1>1, <1>2, <1>5, <1>6

LEMMA ModOnce ==
  ASSUME NEW m \in Nat, m > 0, NEW x \in Nat, x < 2 * m
  PROVE  x % m = IF x < m THEN x ELSE x - m
<1> DEFINE q == x \div m
           r == x % m
<1>1. q \in Int /\ r \in 0..(m - 1)
  OBVIOUS
<1>2. x = m * q + r
  OBVIOUS
<1> HIDE DEF q, r
<1>3. q = 0 \/ q = 1
  <2>1. ASSUME q < 0 PROVE FALSE
    <3>1. m * q = m * (q + 1) - m
      BY <1>1
    <3>2. m * (q + 1) <= 0
      BY <1>1, <2>1
    <3> QED BY <1>1, <1>2, <3>1, <3>2
  <2>2. ASSUME q > 1 PROVE FALSE
    <3>1. m * q = m * (q - 2) + 2 * m
      BY <1>1
    <3>2. m * (q - 2) >= 0
      BY <1>1, <2>2
    <3> QED BY <1>1, <1>2, <3>1, <3>2
  <2> QED BY <1>1, <2>1, <2>2
<1>4. m * 0 = 0 /\ m * 1 = m
  OBVIOUS
<1>5. CASE q = 0
  BY <1>1, <1>2, <1>4, <1>5 DEF r
<1>6. CASE q = 1
  BY <1>1, <1>2, <1>4, <1>6 DEF r
<1> QED BY <1>3, <1>5, <1>6

-----------------------------------------------------------------------------
(* The list of nodes while nothing has been freed.                         *)

Block(p, n) == [para |-> p, size |-> n, in_use |-> TRUE]
Gap(p, n) == [para |-> p, size |-> n, in_use |-> FALSE]

\* The call for n paragraphs is in progress.
Busy(n) == pc \in {"condense", "search"} /\ req = AllocReq(n)

\* The last of the k nodes is free, from paragraph p to the arena's end, and is
\* the only one.
LastGap(k, p) ==
  /\ Len(nodes) = k
  /\ nodes[k] = Gap(p, Total - p)
  /\ \A j \in 1..(k - 1) : nodes[j].in_use

LEMMA BlockFields ==
  ASSUME NEW b \in Node, NEW p, NEW n, b.para = p, b.size = n, b.in_use
  PROVE  b = Block(p, n)
BY DEF Block, Node

\* n paragraphs are taken from the beginning of the last node.
LEMMA TakenFromGap ==
  ASSUME NEW k \in Nat, k > 0, NEW p \in Para, NEW n \in Size, IInv, LastGap(k, p),
         n <= Total - p,
         nodes' = IF n < nodes[k].size THEN Split(nodes, k, n) ELSE Take(nodes, k)
  PROVE  /\ \A j \in 1..(k - 1) : nodes'[j] = nodes[j]
         /\ nodes'[k] = Block(p, n)
         /\ Len(nodes') = IF n < Total - p THEN k + 1 ELSE k
         /\ n < Total - p => nodes'[k+1] = Gap(p + n, Total - p - n)
<1>1. /\ nodes \in Seq(Node) /\ Len(nodes) = k /\ k \in 1..Len(nodes)
      /\ nodes[k] \in Node /\ nodes[k] = Gap(p, Total - p)
      /\ p \in Nat /\ n \in Nat /\ Total \in Nat /\ p < Total /\ n \in 0..Total
  BY StateFacts, Sizes DEF LastGap, Size
<1>2. nodes[k].para = p /\ nodes[k].size = Total - p
  BY <1>1 DEF Gap
<1>3. ASSUME n < Total - p
      PROVE  /\ \A j \in 1..(k - 1) : nodes'[j] = nodes[j]
             /\ nodes'[k] = Block(p, n) /\ Len(nodes') = k + 1
             /\ nodes'[k+1] = Gap(p + n, Total - p - n)
  <2> DEFINE b == [[nodes[k] EXCEPT !.size = n] EXCEPT !.in_use = TRUE]
             t == [nodes EXCEPT ![k] = b]
             e == [para |-> (nodes[k].para + n) % Total,
                   size |-> nodes[k].size - n, in_use |-> FALSE]
  <2>a. b \in Node /\ b.para = p /\ b.size = n /\ b.in_use
    BY <1>1, <1>2 DEF Node
  <2>1. b = Block(p, n)
    <3> HIDE DEF b
    <3> QED BY <2>a, BlockFields
  <2>2. p + n \in Para /\ Total - p - n \in 0..Total /\ p + n \in Int
    BY <1>1, <1>3, Sizes
  <2>b. (p + n) % Total = p + n
    BY <2>2, Wrap
  <2>3. e = Gap(p + n, Total - p - n)
    BY <1>2, <2>b DEF Gap
  <2>c. e \in Node
    BY <2>2, <2>3 DEF Gap, Node
  <2>4. /\ t \in Seq(Node) /\ Len(t) = k
        /\ \A j \in 1..k : t[j] = IF j = k THEN b ELSE nodes[j]
    <3> HIDE DEF b
    <3> QED BY <1>1, <2>a, ExceptSeq
  <2>5. nodes' = InsertAt(t, k + 1, e)
    BY <1>1, <1>2, <1>3 DEF Split
  <2> HIDE DEF b, t, e
  <2>6. k + 1 \in 1..(Len(t) + 1)
    BY <1>1, <2>4
  <2>7. /\ Len(nodes') = k + 1
        /\ \A j \in 1..(k + 1) :
             nodes'[j] = IF j < k + 1 THEN t[j] ELSE IF j = k + 1 THEN e ELSE t[j-1]
    <3>1. /\ Len(InsertAt(t, k + 1, e)) = Len(t) + 1
          /\ \A j \in 1..(Len(t) + 1) :
               InsertAt(t, k + 1, e)[j] = IF j < k + 1 THEN t[j]
                                          ELSE IF j = k + 1 THEN e ELSE t[j-1]
      BY <2>c, <2>4, <2>6, InsertAtProperties
    <3> QED BY <2>4, <2>5, <3>1
  <2>8. ASSUME NEW j \in 1..(k - 1)
        PROVE  nodes'[j] = nodes[j]
    <3>1. j \in 1..k /\ j \in 1..(k + 1) /\ j < k + 1 /\ j # k
      BY <1>1
    <3>2. nodes'[j] = t[j]
      BY <2>7, <3>1
    <3>3. t[j] = nodes[j]
      BY <2>4, <3>1
    <3> QED BY <3>2, <3>3
  <2>9. nodes'[k] = b /\ nodes'[k+1] = e
    BY <2>4, <2>7
  <2> QED BY <2>1, <2>3, <2>7, <2>8, <2>9
<1>4. ASSUME ~(n < Total - p)
      PROVE  /\ \A j \in 1..(k - 1) : nodes'[j] = nodes[j]
             /\ nodes'[k] = Block(p, n) /\ Len(nodes') = k
  <2> DEFINE b == [nodes[k] EXCEPT !.in_use = TRUE]
  <2>1. n = Total - p
    BY <1>1, <1>4
  <2>a. b \in Node /\ b.para = p /\ b.size = n /\ b.in_use
    BY <1>1, <1>2, <2>1 DEF Node
  <2>2. b = Block(p, n)
    <3> HIDE DEF b
    <3> QED BY <2>a, BlockFields
  <2>3. nodes' = [nodes EXCEPT ![k] = b]
    BY <1>2, <1>4 DEF Take
  <2> HIDE DEF b
  <2>4. Len(nodes') = k /\ \A j \in 1..k : nodes'[j] = IF j = k THEN b ELSE nodes[j]
    BY <1>1, <2>a, <2>3, ExceptSeq
  <2> QED BY <2>2, <2>4
<1> QED BY <1>3, <1>4

\* Condensing finds nothing to merge, and the search finds the gap, or nothing.
LEMMA GapStep ==
  ASSUME NEW k \in Nat, k > 0, NEW p \in Para, NEW n \in Size, IInv, LastGap(k, p),
         Busy(n), Step
  PROVE  \/ nodes' = nodes /\ Busy(n)'
         \/ nodes' = nodes /\ pc' = "idle" /\ ret'.err = "oom" /\ n > Total - p
         \/ /\ n <= Total - p
            /\ pc' = "idle" /\ ret' = [err |-> "none", ptr |-> p]
            /\ \A j \in 1..(k - 1) : nodes'[j] = nodes[j]
            /\ nodes'[k] = Block(p, n)
            /\ Len(nodes') = IF n < Total - p THEN k + 1 ELSE k
            /\ n < Total - p => nodes'[k+1] = Gap(p + n, Total - p - n)
<1>1. /\ DOMAIN nodes = 1..Len(nodes) /\ Len(nodes) = k /\ k \in DOMAIN nodes
      /\ nodes[k].para = p /\ nodes[k].size = Total - p /\ ~nodes[k].in_use
      /\ \A j \in 1..(k - 1) : nodes[j].in_use
      /\ req.op = "alloc" /\ req.size = n /\ pc # "find"
  BY StateFacts DEF LastGap, Gap, Busy, AllocReq
<1>2. CASE CondenseMerge
  <2>1. cur \in 1..(k - 1) /\ ~nodes[cur].in_use
    BY <1>1, <1>2 DEF CondenseMerge, Mergeable, IInv, TypeOK
  <2> QED BY <1>1, <2>1
<1>3. CASE CondenseAdvance
  BY <1>3 DEF CondenseAdvance, Busy
<1>4. CASE CondenseDone
  BY <1>1, <1>4 DEF CondenseDone, Busy
<1>5. CASE AllocFail
  <2>1. nodes' = nodes /\ pc' = "idle" /\ ret' = [err |-> "oom", ptr |-> ret.ptr]
    BY <1>5 DEF AllocFail, Return
  <2>2. ~(n <= Total - p)
    BY <1>1, <1>5 DEF AllocFail, Fits
  <2> QED BY <2>1, <2>2, Sizes DEF Size
<1>6. ASSUME NEW i \in DOMAIN nodes, AllocFit(i)
      PROVE  /\ n <= Total - p
             /\ nodes' = IF n < nodes[k].size THEN Split(nodes, k, n) ELSE Take(nodes, k)
             /\ pc' = "idle" /\ ret' = [err |-> "none", ptr |-> p]
  <2>1. ~nodes[i].in_use /\ n <= nodes[i].size
    BY <1>1, <1>6 DEF AllocFit, FirstFit, Fits
  <2>2. i = k
    BY <1>1, <2>1
  <2> QED BY <1>1, <1>6, <2>1, <2>2 DEF AllocFit, Return
<1>7. ~NotFound /\ \A i \in DOMAIN nodes : ~Free(i) /\ ~Resize(i)
  BY <1>1 DEF NotFound, Free, Resize, ResizeCrash, ResizeNoRoom, ResizeGrow,
              ResizeShrink, Resizing
<1>8. ASSUME NEW i \in DOMAIN nodes, AllocFit(i)
      PROVE  /\ n <= Total - p
             /\ pc' = "idle" /\ ret' = [err |-> "none", ptr |-> p]
             /\ \A j \in 1..(k - 1) : nodes'[j] = nodes[j]
             /\ nodes'[k] = Block(p, n)
             /\ Len(nodes') = IF n < Total - p THEN k + 1 ELSE k
             /\ n < Total - p => nodes'[k+1] = Gap(p + n, Total - p - n)
  <2>1. /\ n <= Total - p
        /\ nodes' = IF n < nodes[k].size THEN Split(nodes, k, n) ELSE Take(nodes, k)
        /\ pc' = "idle" /\ ret' = [err |-> "none", ptr |-> p]
    BY <1>6, <1>8
  <2> QED BY <2>1, TakenFromGap
<1> QED BY <1>2, <1>3, <1>4, <1>5, <1>7, <1>8 DEF Step, Condense

-----------------------------------------------------------------------------
(* The inductive invariant.                                                *)

\* Where a program's block is, and the paragraphs that are left for it.
Home == Internal + 1
Room == Total - Home

FreshList == Len(nodes) = 1 /\ nodes[1] = Gap(0, Total)

BiosList ==
  /\ Len(nodes) = 2
  /\ nodes[1] = Block(0, Internal)
  /\ nodes[2] = Gap(Internal, Total - Internal)

EnvList ==
  /\ Len(nodes) = 3
  /\ nodes[1] = Block(0, Internal)
  /\ nodes[2] = Block(Internal, 1)
  /\ nodes[3] = Gap(Home, Room)

ProgramList(n) ==
  /\ n <= Room
  /\ Len(nodes) = IF n < Room THEN 4 ELSE 3
  /\ nodes[1] = Block(0, Internal)
  /\ nodes[2] = Block(Internal, 1)
  /\ nodes[3] = Block(Home, n)
  /\ n < Room => nodes[4] = Gap(Home + n, Room - n)

Answered(p) == pc = "idle" /\ ret = [err |-> "none", ptr |-> p]

\* What bios_mem_alloc is asked for on the program's behalf, and where the
\* image goes.
Asked == Wanted16 % Total
Code == IF prg.kind = "com" THEN Home ELSE (Home + PspSize \div ParaSize) % Total

ListInv ==
  /\ stage = "bios" => (Busy(Internal) /\ FreshList) \/ (Answered(0) /\ BiosList)
  /\ stage = "env" => (Busy(1) /\ BiosList) \/ (Answered(Internal) /\ EnvList)
  /\ stage \in {"com", "mz"} =>
       /\ prg.kind = stage /\ dos.envseg = Internal
       /\ \/ Busy(Asked) /\ EnvList
          \/ pc = "idle" /\ EnvList /\ ret.err = "oom"
          \/ Answered(Home) /\ ProgramList(Asked)
  /\ stage \in {"psp", "start", "running"} =>
       /\ prg.kind \in {"com", "mz"}
       /\ prg.kind = "mz" => ExeSize(prg) >= 0
       /\ dos.envseg = Internal /\ dos.pspseg = Home /\ dos.codeseg = Code
       /\ pc = "idle" /\ ProgramList(Asked)

\* What the loader of the program's kind has written at an address.
Into(a) == { i \in 0..(prg.len - 1) : ComAt(Home, i) = a }
Patches == UNION { Patched(Code, r) : r \in prg.relocs }

Loaded(a) ==
  IF prg.kind = "com" THEN IF Into(a) = {} THEN Nobody ELSE Max(Into(a))
  ELSE IF a \in Patches THEN Reloc
  ELSE IF a \in Flat(Code, 0)..(Flat(Code, 0) + ExeSize(prg) - 1) THEN a - Flat(Code, 0)
  ELSE Nobody

ArgBytes == { ArgAt(Home, k) : k \in 0..arglen } \ {Flat(Home, ArgsAt - 1)}
PspBytes == { Flat(Home, k) : k \in PspFields }

MemInv ==
  /\ stage \in {"bios", "env", "com", "mz"} => mem = [a \in Address |-> Nobody]
  /\ stage = "psp" => mem = [a \in Address |-> Loaded(a)]
  /\ stage \in {"start", "running"} =>
       mem = [a \in Address |-> IF a \in ArgBytes THEN Args
                                ELSE IF a \in PspBytes THEN Psp ELSE Loaded(a)]

CpuInv ==
  /\ stage \in {"bios", "env", "com", "mz"} => cpu.ss = 0 /\ cpu.sp = 0
  /\ stage \in {"psp", "start", "running"} =>
       /\ prg.kind = "com" => cpu.ss = 0 /\ cpu.sp = 0
       /\ prg.kind = "mz" =>
            /\ cpu.ss = (Code + prg.entry.ss) % Total /\ cpu.sp = prg.entry.sp
            /\ cpu.cs = (Code + prg.entry.cs) % Total /\ cpu.ip = prg.entry.ip
  /\ stage = "running" =>
       /\ cpu.ds = Home
       /\ prg.kind = "com" => cpu.cs = Home /\ cpu.ip = PspSize

\* LoaderTypeOK, with the fields of the two records.
Types ==
  /\ stage \in {"bios", "env", "com", "mz", "psp", "start", "running",
                "failed", "crashed", "returned"}
  /\ prg \in Programs
  /\ arglen \in ArgLens
  /\ dos \in [envseg : Para, codeseg : Para, pspseg : Para, codelen : Int, ending : Para]
  /\ DOMAIN mem = Address
  /\ cpu \in [cs : Para, ip : Para, ss : Para, sp : Para, ds : Para, es : Para]

LoaderIInv == IInv /\ Types /\ ListInv /\ MemInv /\ CpuInv

-----------------------------------------------------------------------------
(* The allocator's steps.                                                  *)

\* The sizes in the header of a program file.
LEMMA ProgramSizes ==
  ASSUME NEW p \in Programs
  PROVE  /\ p.kind = "com" => p.len \in Nat /\ ComParas(p.len) \in Int
         /\ p.kind = "mz" =>
              /\ ExeSize(p) \in Int /\ MzLen(p) \in Int /\ Paras(MzLen(p)) \in Int
              /\ p.extra \in Nat /\ p.extra * ParaSize \in Nat
              /\ MzLen(p) = ExeSize(p) + p.extra * ParaSize + PspSize + Hack
              /\ {p.entry.cs, p.entry.ip, p.entry.ss, p.entry.sp} \subseteq Para
<1>1. CASE p.kind = "com"
  <2>1. p.len \in Nat
    BY <1>1, ProgramAssumption
  <2>2. p.len + PspSize \in Int
    BY <2>1, Sizes
  <2>3. ComParas(p.len) \in Int
    BY <2>2, ParasCover DEF ComParas
  <2> QED BY <1>1, <2>1, <2>3
<1>2. CASE p.kind = "mz"
  <2>1. /\ p.blocks \in Nat /\ p.last \in Nat /\ p.header \in Nat /\ p.extra \in Nat
        /\ {p.entry.cs, p.entry.ip, p.entry.ss, p.entry.sp} \subseteq Para
    BY <1>2, ProgramAssumption, Sizes
  <2>a. ASSUME NEW x \in Nat, NEW y \in Nat
        PROVE  x * y \in Nat
    OBVIOUS
  <2>2. /\ p.blocks * BlockSize \in Nat /\ p.header * ParaSize \in Nat
        /\ p.extra * ParaSize \in Nat
    BY <2>1, <2>a, Sizes
  <2>b. (IF p.last = 0 THEN 0 ELSE BlockSize - p.last) \in Int
    BY <2>1, Sizes
  <2>c. ASSUME NEW x \in Int, NEW y \in Int, NEW z \in Int
        PROVE  x - y - z \in Int
    OBVIOUS
  <2>d. p.blocks * BlockSize \in Int /\ p.header * ParaSize \in Int
    BY <2>2
  <2>3. ExeSize(p) \in Int
    BY <2>b, <2>c, <2>d, Zenon DEF ExeSize
  <2>4. MzLen(p) \in Int
    BY <2>2, <2>3, Sizes DEF MzLen
  <2> QED BY <1>2, <2>1, <2>2, <2>3, <2>4, ParasCover DEF MzLen
<1> QED BY <1>1, <1>2

LEMMA OneParagraph == Paras(1) = 1 /\ 1 % Total = 1
<1>1. ParaSize \in Nat /\ ParaSize > 0 /\ 1 \in Para
  BY Sizes
<1>2. Paras(1) = ParaSize \div ParaSize
  BY <1>1 DEF Paras
<1>3. ParaSize \div ParaSize = 1
  BY <1>1
<1> QED BY <1>1, <1>2, <1>3, Wrap

\* The list the allocator meets.
LEMMA Gaps ==
  /\ FreshList => LastGap(1, 0)
  /\ BiosList => LastGap(2, Internal)
  /\ EnvList => LastGap(3, Home)
<1>1. FreshList => LastGap(1, 0)
  BY Sizes DEF FreshList, LastGap
<1>2. BiosList => LastGap(2, Internal)
  <2>1. \A j \in 1..(2 - 1) : j = 1
    OBVIOUS
  <2> QED BY <2>1 DEF BiosList, LastGap, Block
<1>3. EnvList => LastGap(3, Home)
  <2>1. \A j \in 1..(3 - 1) : j = 1 \/ j = 2
    OBVIOUS
  <2> QED BY <2>1 DEF EnvList, LastGap, Block, Room
<1> QED BY <1>1, <1>2, <1>3

LEMMA StepIsBusy ==
  ASSUME Step
  PROVE  pc \in {"condense", "search", "find"}
BY DEF Step, Condense, CondenseMerge, CondenseAdvance, CondenseDone, AllocFail, NotFound,
       AllocFit, Free, Resize, ResizeCrash, ResizeNoRoom, ResizeGrow, ResizeShrink, Resizing

\* While a call is in progress the stage is one that has asked for memory.
LEMMA ServeList ==
  ASSUME LoaderIInv, Serve
  PROVE  ListInv'
<1>1. /\ IInv /\ ListInv /\ Step /\ pc # "idle"
      /\ UNCHANGED <<stage, prg, arglen, dos, mem, cpu>>
      /\ stage \in {"bios", "env", "com", "mz", "psp", "start", "running",
                    "failed", "crashed", "returned"}
  BY StepIsBusy DEF LoaderIInv, Types, Serve, loadVars
<1>2. CASE stage = "bios"
  <2>1. Busy(Internal) /\ LastGap(1, 0) /\ FreshList
    BY <1>1, <1>2, Gaps DEF ListInv, Answered
  <2>2. 0 \in Para /\ Internal \in Size /\ Internal < Total - 0 /\ 1 \in Nat /\ 1 > 0
        /\ \A j \in 1..(1 - 1) : FALSE
    BY Sizes DEF Size
  <2>3. \/ nodes' = nodes /\ Busy(Internal)'
        \/ /\ pc' = "idle" /\ ret' = [err |-> "none", ptr |-> 0]
           /\ nodes'[1] = Block(0, Internal)
           /\ Len(nodes') = 1 + 1
           /\ nodes'[1+1] = Gap(0 + Internal, Total - 0 - Internal)
    <3>1. \/ nodes' = nodes /\ Busy(Internal)'
          \/ nodes' = nodes /\ pc' = "idle" /\ ret'.err = "oom" /\ Internal > Total - 0
          \/ /\ Internal <= Total - 0
             /\ pc' = "idle" /\ ret' = [err |-> "none", ptr |-> 0]
             /\ \A j \in 1..(1 - 1) : nodes'[j] = nodes[j]
             /\ nodes'[1] = Block(0, Internal)
             /\ Len(nodes') = IF Internal < Total - 0 THEN 1 + 1 ELSE 1
             /\ Internal < Total - 0 => nodes'[1+1] = Gap(0 + Internal, Total - 0 - Internal)
      BY <1>1, <2>1, <2>2, GapStep
    <3>2. ~(Internal > Total - 0)
      BY Sizes
    <3> QED BY <2>2, <3>1, <3>2
  <2>4. CASE nodes' = nodes /\ Busy(Internal)'
    BY <1>1, <1>2, <2>1, <2>4 DEF ListInv, FreshList
  <2>5. CASE /\ pc' = "idle" /\ ret' = [err |-> "none", ptr |-> 0]
             /\ nodes'[1] = Block(0, Internal)
             /\ Len(nodes') = 1 + 1
             /\ nodes'[1+1] = Gap(0 + Internal, Total - 0 - Internal)
    <3>1. 0 + Internal = Internal /\ Total - 0 - Internal = Total - Internal /\ 1 + 1 = 2
      BY Sizes
    <3>2. Answered(0)' /\ BiosList'
      BY <2>5, <3>1 DEF Answered, BiosList
    <3> QED BY <1>1, <1>2, <3>2 DEF ListInv
  <2> QED BY <2>3, <2>4, <2>5
<1>3. CASE stage = "env"
  <2>1. Busy(1) /\ LastGap(2, Internal) /\ BiosList
    BY <1>1, <1>3, Gaps DEF ListInv, Answered
  <2>2. Internal \in Para /\ 1 \in Size /\ 1 < Total - Internal /\ 2 \in Nat /\ 2 > 0
        /\ 1 \in 1..(2 - 1) /\ ~(1 > Total - Internal)
    BY Sizes DEF Size
  <2>3. \/ nodes' = nodes /\ Busy(1)'
        \/ /\ pc' = "idle" /\ ret' = [err |-> "none", ptr |-> Internal]
           /\ nodes'[1] = nodes[1]
           /\ nodes'[2] = Block(Internal, 1)
           /\ Len(nodes') = 2 + 1
           /\ nodes'[2+1] = Gap(Internal + 1, Total - Internal - 1)
    BY <1>1, <2>1, <2>2, GapStep
  <2>4. CASE nodes' = nodes /\ Busy(1)'
    BY <1>1, <1>3, <2>1, <2>4 DEF ListInv, BiosList
  <2>5. CASE /\ pc' = "idle" /\ ret' = [err |-> "none", ptr |-> Internal]
             /\ nodes'[1] = nodes[1]
             /\ nodes'[2] = Block(Internal, 1)
             /\ Len(nodes') = 2 + 1
             /\ nodes'[2+1] = Gap(Internal + 1, Total - Internal - 1)
    <3>1. Total - Internal - 1 = Total - (Internal + 1) /\ 2 + 1 = 3
      BY Sizes
    <3>2. Answered(Internal)' /\ EnvList'
      BY <2>1, <2>5, <3>1 DEF Answered, BiosList, EnvList, Home, Room
    <3> QED BY <1>1, <1>3, <3>2 DEF ListInv
  <2> QED BY <2>3, <2>4, <2>5
<1>4. CASE stage \in {"com", "mz"}
  <2>1. Busy(Asked) /\ LastGap(3, Home) /\ EnvList
        /\ prg.kind = stage /\ dos.envseg = Internal
    BY <1>1, <1>4, Gaps DEF ListInv, Answered
  <2>2. Asked \in Size
    <3>1. Wanted16 \in Int
      BY <1>4, <2>1, ProgramSizes DEF LoaderIInv, Types, Wanted16
    <3> QED BY <3>1, Wrap DEF Asked, Size, Para
  <2>3. Home \in Para /\ 3 \in Nat /\ 3 > 0 /\ 1 \in 1..(3 - 1) /\ 2 \in 1..(3 - 1)
        /\ Room = Total - Home
    BY Sizes DEF Home, Room
  <2>4. Asked' = Asked
    BY <1>1 DEF Asked, Wanted16
  <2>n. PICK n \in Size : n = Asked
    BY <2>2
  <2>b. Busy(n)
    BY <2>1, <2>n
  <2>5. \/ nodes' = nodes /\ Busy(n)'
        \/ nodes' = nodes /\ pc' = "idle" /\ ret'.err = "oom"
        \/ /\ n <= Total - Home
           /\ pc' = "idle" /\ ret' = [err |-> "none", ptr |-> Home]
           /\ \A j \in 1..(3 - 1) : nodes'[j] = nodes[j]
           /\ nodes'[3] = Block(Home, n)
           /\ Len(nodes') = IF n < Total - Home THEN 3 + 1 ELSE 3
           /\ n < Total - Home => nodes'[3+1] = Gap(Home + n, Total - Home - n)
    BY <1>1, <2>1, <2>b, <2>3, GapStep
  <2>6. CASE nodes' = nodes /\ Busy(n)'
    <3>1. EnvList' /\ Busy(Asked)'
      BY <2>1, <2>4, <2>6, <2>n DEF EnvList
    <3> QED BY <1>1, <1>4, <2>1, <3>1 DEF ListInv
  <2>7. CASE nodes' = nodes /\ pc' = "idle" /\ ret'.err = "oom"
    <3>1. EnvList'
      BY <2>1, <2>7 DEF EnvList
    <3> QED BY <1>1, <1>4, <2>1, <2>7, <3>1 DEF ListInv
  <2>8. CASE /\ n <= Total - Home
             /\ pc' = "idle" /\ ret' = [err |-> "none", ptr |-> Home]
             /\ \A j \in 1..(3 - 1) : nodes'[j] = nodes[j]
             /\ nodes'[3] = Block(Home, n)
             /\ Len(nodes') = IF n < Total - Home THEN 3 + 1 ELSE 3
             /\ n < Total - Home => nodes'[3+1] = Gap(Home + n, Total - Home - n)
    <3>1. 3 + 1 = 4 /\ nodes'[1] = nodes[1] /\ nodes'[2] = nodes[2]
      BY <2>3, <2>8
    <3>2. ProgramList(n)'
      <4>1. /\ nodes'[1] = Block(0, Internal) /\ nodes'[2] = Block(Internal, 1)
            /\ nodes'[3] = Block(Home, n)
        BY <2>1, <2>8, <3>1 DEF EnvList
      <4>2. /\ n <= Room
            /\ Len(nodes') = IF n < Room THEN 4 ELSE 3
            /\ n < Room => nodes'[4] = Gap(Home + n, Room - n)
        BY <2>3, <2>8, <3>1
      <4> QED BY <4>1, <4>2 DEF ProgramList
    <3>3. ProgramList(Asked)' /\ Answered(Home)'
      BY <2>4, <2>8, <2>n, <3>2 DEF Answered
    <3> QED BY <1>1, <1>4, <2>1, <3>3 DEF ListInv
  <2> QED BY <2>5, <2>6, <2>7, <2>8
<1>5. CASE stage \in {"psp", "start", "running"}
  BY <1>1, <1>5 DEF ListInv
<1>6. CASE stage \in {"failed", "crashed", "returned"}
  BY <1>1, <1>6 DEF ListInv
<1> QED BY <1>1, <1>2, <1>3, <1>4, <1>5, <1>6

-----------------------------------------------------------------------------
(* The loader's steps.                                                     *)

\* A request leaves the list alone and starts the allocator.
LEMMA AskBusy ==
  ASSUME NEW x \in Int, Ask(x)
  PROVE  /\ Next /\ pc = "idle" /\ nodes' = nodes
         /\ pc' = "condense" /\ req' = AllocReq(x % Total)
<1>1. x % Total \in Size
  BY Wrap DEF Size, Para
<1>2. AllocReq(x % Total) \in Calls
  BY <1>1 DEF Calls
<1> QED BY <1>2 DEF Ask, Call, Next, AllocReq

\* Every step of the loader is one of the allocator, or none.
LEMMA AllocatorStep ==
  ASSUME LoaderIInv, [LoaderNext]_allVars
  PROVE  IInv'
<1>1. CASE BiosInit
  BY <1>1, OneParagraph, AskBusy, NextIInv DEF BiosInit, LoaderIInv
<1>2. CASE OpenCom
  <2>1. ComParas(prg.len) \in Int
    BY <1>2, ProgramSizes DEF OpenCom, LoaderIInv, Types
  <2> QED BY <1>2, <2>1, AskBusy, NextIInv DEF OpenCom, LoaderIInv
<1>3. CASE OpenMz
  <2>1. prg' \in Programs /\ prg'.kind = "mz"
    BY <1>3 DEF OpenMz, LoaderIInv, Types, MzFiles
  <2>2. PICK p \in Programs : p = prg' /\ p.kind = "mz"
    BY <2>1
  <2>3. Paras(MzLen(p)) \in Int
    BY <2>2, ProgramSizes
  <2>4. Ask(Paras(MzLen(p)))
    BY <1>3, <2>2 DEF OpenMz
  <2> QED BY <2>3, <2>4, AskBusy, NextIInv DEF LoaderIInv
<1>4. CASE Exit
  BY <1>4, NextIInv DEF Exit, Next, LoaderIInv
<1>5. CASE Serve
  BY <1>5, NextIInv DEF Serve, Next, LoaderIInv
<1>6. ASSUME UNCHANGED vars
      PROVE  IInv'
  BY <1>6, NextIInv DEF LoaderIInv
<1>7. CASE NoFile \/ NoMemory \/ LoadCom \/ LoadMz \/ LoadMzForever \/ BuildPsp
           \/ StartCom \/ StartMz \/ UNCHANGED allVars
  <2>1. UNCHANGED vars
    BY <1>7 DEF NoFile, NoMemory, LoadCom, LoadMz, LoadMzForever, BuildPsp, StartCom,
                StartMz, allVars
  <2> QED BY <1>6, <2>1
<1> QED BY <1>1, <1>2, <1>3, <1>4, <1>5, <1>7 DEF LoaderNext, Load

\* The record dos with some of its fields replaced.
LEMMA TypesStep ==
  ASSUME LoaderIInv, [LoaderNext]_allVars
  PROVE  Types'
<1> USE DEF Types
<1>1. /\ Types /\ ret.ptr \in Para /\ NoPsp \in Para /\ PspSize \in Para
      /\ PspSize \div ParaSize \in Int
      /\ \A x \in Int : x % Total \in Para
      /\ \A x \in Para : x \in Int
  <2>1. Types /\ ret.ptr \in Para
    BY StateFacts DEF LoaderIInv
  <2>2. NoPsp \in Para /\ PspSize \in Para /\ \A x \in Para : x \in Int
    BY Sizes DEF NoPsp
  <2>3. PspSize \div ParaSize \in Int
    BY Sizes
  <2>4. \A x \in Int : x % Total \in Para
    BY Wrap
  <2> QED BY <2>1, <2>2, <2>3, <2>4
<1>2. CASE BiosInit
  BY <1>1, <1>2 DEF BiosInit
<1>3. CASE NoFile
  BY <1>1, <1>3 DEF NoFile
<1>4. CASE OpenCom
  <2>1. prg.len \in Int
    BY <1>1, <1>4, ProgramSizes DEF OpenCom
  <2> QED BY <1>1, <1>4, <2>1 DEF OpenCom
<1>5. CASE OpenMz
  <2>1. prg' \in Programs /\ prg'.kind = "mz"
    BY <1>1, <1>5 DEF OpenMz, MzFiles
  <2>2. MzLen(prg') \in Int
    <3>1. \A p \in Programs : p.kind = "mz" => MzLen(p) \in Int
      BY ProgramSizes
    <3> QED BY <2>1, <3>1
  <2> QED BY <1>1, <1>5, <2>1, <2>2 DEF OpenMz
<1>6. CASE NoMemory
  BY <1>1, <1>6 DEF NoMemory
<1>7. CASE LoadCom
  BY <1>1, <1>7 DEF LoadCom, Granted, At
<1>8. CASE LoadMz
  <2>1. /\ prg.entry.ss \in Para /\ prg.entry.sp \in Para
        /\ prg.entry.cs \in Para /\ prg.entry.ip \in Para
    BY <1>1, <1>8, ProgramSizes DEF LoadMz, Granted, At, LoaderIInv, ListInv
  <2> DEFINE seg == (ret.ptr + PspSize \div ParaSize) % Total
  <2>2. seg \in Para
    BY <1>1
  <2>3. (seg + prg.entry.ss) % Total \in Para /\ (seg + prg.entry.cs) % Total \in Para
    <3> HIDE DEF seg
    <3> QED BY <1>1, <2>1, <2>2
  <2>4. dos' = [dos EXCEPT !.codeseg = seg, !.pspseg = ret.ptr, !.codelen = @ - PspSize]
    BY <1>8 DEF LoadMz
  <2>5. cpu' = [cpu EXCEPT !.ss = (seg + prg.entry.ss) % Total, !.sp = prg.entry.sp,
                           !.cs = (seg + prg.entry.cs) % Total, !.ip = prg.entry.ip]
    BY <1>8 DEF LoadMz
  <2>6. dos.codelen - PspSize \in Int
    BY <1>1
  <2>7. /\ stage' \in {"psp", "crashed"} /\ UNCHANGED <<prg, arglen>>
        /\ DOMAIN mem' = Address
    BY <1>8 DEF LoadMz
  <2> HIDE DEF seg
  <2>8. dos' \in [envseg : Para, codeseg : Para, pspseg : Para, codelen : Int, ending : Para]
    BY <1>1, <2>2, <2>4, <2>6
  <2>9. cpu' \in [cs : Para, ip : Para, ss : Para, sp : Para, ds : Para, es : Para]
    BY <1>1, <2>1, <2>3, <2>5
  <2> QED BY <1>1, <2>7, <2>8, <2>9
<1>9. CASE LoadMzForever
  BY <1>1, <1>9 DEF LoadMzForever
<1>10. CASE BuildPsp
  <2>1. dos.codeseg \in Int /\ Paras(dos.codelen) \in Int
    BY <1>1, ParasCover
  <2>2. (dos.codeseg + Paras(dos.codelen) + 1) % Total \in Para
    BY <1>1, <2>1
  <2>3. dos' \in [envseg : Para, codeseg : Para, pspseg : Para, codelen : Int, ending : Para]
    BY <1>1, <1>10, <2>2 DEF BuildPsp
  <2> QED BY <1>1, <1>10, <2>3 DEF BuildPsp
<1>11. CASE StartCom
  BY <1>1, <1>11 DEF StartCom
<1>12. CASE StartMz
  BY <1>1, <1>12 DEF StartMz
<1>13. CASE Exit
  BY <1>1, <1>13 DEF Exit
<1>14. CASE Serve \/ UNCHANGED allVars
  BY <1>1, <1>14 DEF Serve, allVars, loadVars
<1> QED BY <1>2, <1>3, <1>4, <1>5, <1>6, <1>7, <1>8, <1>9, <1>10, <1>11, <1>12, <1>13,
           <1>14 DEF LoaderNext, Load

LEMMA ListStep ==
  ASSUME LoaderIInv, [LoaderNext]_allVars
  PROVE  ListInv'
<1>1. Types /\ ListInv
  BY DEF LoaderIInv
<1>2. CASE BiosInit
  <2>1. BiosList /\ Ask(1) /\ stage' = "env"
    BY <1>1, <1>2, OneParagraph DEF BiosInit, Granted, At, ListInv, Busy
  <2>2. nodes' = nodes /\ pc' = "condense" /\ req' = AllocReq(1)
    BY <2>1, OneParagraph, AskBusy
  <2>3. Busy(1)' /\ BiosList'
    BY <2>1, <2>2 DEF Busy, BiosList
  <2> QED BY <2>1, <2>3 DEF ListInv
<1>3. ASSUME NEW p \in Programs, p = prg', Granted("env"), stage' = p.kind,
             p.kind \in {"com", "mz"}, dos'.envseg = ret.ptr,
             Ask(IF p.kind = "com" THEN ComParas(p.len) ELSE Paras(MzLen(p)))
      PROVE  ListInv'
  <2>1. EnvList /\ ret.ptr = Internal
    BY <1>1, <1>3 DEF Granted, At, ListInv, Busy, Answered
  <2> DEFINE x == IF p.kind = "com" THEN ComParas(p.len) ELSE Paras(MzLen(p))
  <2>2. x \in Int /\ Wanted16' = x
    BY <1>3, ProgramSizes DEF Wanted16
  <2>3. Ask(x)
    BY <1>3
  <2> HIDE DEF x
  <2>4. nodes' = nodes /\ pc' = "condense" /\ req' = AllocReq(x % Total)
    BY <2>2, <2>3, AskBusy
  <2>5. EnvList' /\ Busy(Asked)'
    BY <2>1, <2>2, <2>4 DEF EnvList, Busy, Asked
  <2> QED BY <1>3, <2>1, <2>5 DEF ListInv
<1>4. CASE OpenCom
  <2>1. /\ prg' = prg /\ prg \in Programs /\ prg.kind = "com" /\ Granted("env")
        /\ stage' = "com" /\ Ask(ComParas(prg.len))
        /\ dos' = [dos EXCEPT !.envseg = ret.ptr, !.pspseg = NoPsp, !.codelen = prg.len]
    BY <1>1, <1>4 DEF OpenCom, Types
  <2>2. dos'.envseg = ret.ptr
    BY <1>1, <2>1 DEF Types
  <2>3. PICK p \in Programs : p = prg
    BY <2>1
  <2> QED BY <1>3, <2>1, <2>2, <2>3
<1>5. CASE OpenMz
  <2>1. prg' \in Programs /\ prg'.kind = "mz"
    BY <1>1, <1>5 DEF OpenMz, Types, MzFiles
  <2>2. PICK p \in Programs : p = prg' /\ p.kind = "mz"
    BY <2>1
  <2>3. /\ Granted("env") /\ stage' = "mz" /\ Ask(Paras(MzLen(p)))
        /\ dos' = [dos EXCEPT !.envseg = ret.ptr, !.pspseg = NoPsp, !.codelen = MzLen(p)]
    BY <1>5, <2>2 DEF OpenMz
  <2>4. dos'.envseg = ret.ptr
    BY <1>1, <2>3 DEF Types
  <2> QED BY <1>3, <2>2, <2>3, <2>4
<1>6. CASE NoFile \/ NoMemory \/ LoadMzForever \/ Exit
  <2>1. stage' \in {"failed", "crashed", "returned"}
    BY <1>6 DEF NoFile, NoMemory, LoadMzForever, Exit
  <2> QED BY <2>1 DEF ListInv
<1>a. (\E s \in {"com", "mz"} : Granted(s)) =>
        /\ prg.kind = stage /\ dos.envseg = Internal /\ ret.ptr = Home
        /\ pc = "idle" /\ ProgramList(Asked)
  BY <1>1 DEF Granted, At, ListInv, Busy, Answered
<1>b. ASSUME UNCHANGED <<vars, prg>>, ProgramList(Asked), pc = "idle"
      PROVE  ProgramList(Asked)' /\ pc' = "idle" /\ Code' = Code
  BY <1>b DEF vars, ProgramList, Asked, Wanted16, Code
<1>7. CASE LoadCom
  <2>1. /\ UNCHANGED <<vars, prg>> /\ stage = "com" /\ stage' = "psp" /\ Granted("com")
        /\ dos' = [dos EXCEPT !.codeseg = ret.ptr, !.pspseg = ret.ptr]
    BY <1>7 DEF LoadCom, Granted, At
  <2>2. dos'.envseg = dos.envseg /\ dos'.codeseg = ret.ptr /\ dos'.pspseg = ret.ptr
    BY <1>1, <2>1 DEF Types
  <2> QED BY <1>a, <1>b, <2>1, <2>2 DEF ListInv, Code
<1>8. CASE LoadMz
  <2>1. /\ UNCHANGED <<vars, prg>> /\ stage = "mz" /\ stage' \in {"psp", "crashed"}
        /\ Granted("mz") /\ ExeSize(prg) >= 0
        /\ dos' = [dos EXCEPT !.codeseg = (ret.ptr + PspSize \div ParaSize) % Total,
                              !.pspseg = ret.ptr, !.codelen = @ - PspSize]
    BY <1>8 DEF LoadMz, Granted, At
  <2>2. /\ dos'.envseg = dos.envseg /\ dos'.pspseg = ret.ptr
        /\ dos'.codeseg = (ret.ptr + PspSize \div ParaSize) % Total
    BY <1>1, <2>1 DEF Types
  <2>3. ExeSize(prg)' >= 0
    BY <2>1 DEF ExeSize
  <2> QED BY <1>a, <1>b, <2>1, <2>2, <2>3 DEF ListInv, Code
<1>9. CASE BuildPsp \/ StartCom \/ StartMz
  <2>1. /\ UNCHANGED <<vars, prg>> /\ stage \in {"psp", "start"}
        /\ stage' \in {"start", "running"}
        /\ UNCHANGED dos \/ dos' = [dos EXCEPT !.ending =
                                      (dos.codeseg + Paras(dos.codelen) + 1) % Total]
    BY <1>9 DEF BuildPsp, StartCom, StartMz
  <2>2. UNCHANGED <<dos.envseg, dos.codeseg, dos.pspseg>>
    BY <1>1, <2>1 DEF Types
  <2>3. ExeSize(prg)' = ExeSize(prg)
    BY <2>1 DEF ExeSize
  <2>4. /\ prg.kind \in {"com", "mz"}
        /\ prg.kind = "mz" => ExeSize(prg) >= 0
        /\ dos.envseg = Internal /\ dos.pspseg = Home /\ dos.codeseg = Code
        /\ pc = "idle" /\ ProgramList(Asked)
    BY <1>1, <2>1 DEF ListInv
  <2> QED BY <1>b, <2>1, <2>2, <2>3, <2>4 DEF ListInv
<1>10. CASE Serve
  BY <1>10, ServeList
<1>11. CASE UNCHANGED allVars
  BY <1>1, <1>11 DEF allVars, vars, loadVars, ListInv, Busy, Answered, FreshList, BiosList,
     EnvList, ProgramList, Asked, Wanted16, Code
<1> QED BY <1>2, <1>4, <1>5, <1>6, <1>7, <1>8, <1>9, <1>10, <1>11 DEF LoaderNext, Load

\* The loaders find memory as nobody has written it, and the PSP is built over
\* what they leave.
LEMMA MemStep ==
  ASSUME LoaderIInv, [LoaderNext]_allVars
  PROVE  MemInv'
<1>1. Types /\ ListInv /\ MemInv
  BY DEF LoaderIInv
<1>2. CASE BiosInit \/ OpenCom \/ OpenMz
  <2>1. UNCHANGED mem /\ stage \in {"bios", "env"} /\ stage' \in {"env", "com", "mz"}
    BY <1>2 DEF BiosInit, OpenCom, OpenMz, Granted, At
  <2> QED BY <1>1, <2>1 DEF MemInv
<1>3. CASE NoFile \/ NoMemory \/ LoadMzForever \/ Exit
  <2>1. stage' \in {"failed", "crashed", "returned"}
    BY <1>3 DEF NoFile, NoMemory, LoadMzForever, Exit
  <2> QED BY <2>1 DEF MemInv
<1>a. (\E s \in {"com", "mz"} : Granted(s)) =>
        /\ prg.kind = stage /\ ret.ptr = Home
        /\ mem = [a \in Address |-> Nobody]
  BY <1>1 DEF Granted, At, ListInv, MemInv, Busy, Answered
<1>4. CASE LoadCom
  <2>1. /\ stage' = "psp" /\ prg' = prg /\ prg.kind = "com"
        /\ mem' = [a \in Address |-> IF Into(a) = {} THEN mem[a] ELSE Max(Into(a))]
        /\ mem = [a \in Address |-> Nobody]
    BY <1>4, <1>a DEF LoadCom, Granted, At, Into
  <2>2. \A a \in Address : mem[a] = Nobody
    BY <2>1
  <2>3. mem' = [a \in Address |-> IF Into(a) = {} THEN Nobody ELSE Max(Into(a))]
    BY <2>1, <2>2, Zenon
  <2>4. \A a : Into(a)' = Into(a)
    BY <2>1 DEF Into
  <2>5. mem' = [a \in Address |-> Loaded(a)']
    BY <2>1, <2>3, <2>4, Zenon DEF Loaded
  <2> QED BY <2>1, <2>5 DEF MemInv
<1>5. CASE LoadMz
  <2>1. /\ stage' \in {"psp", "crashed"} /\ prg' = prg /\ prg.kind = "mz"
        /\ mem' = [a \in Address |->
                     IF a \in Patches THEN Reloc
                     ELSE IF a \in Flat(Code, 0)..(Flat(Code, 0) + ExeSize(prg) - 1)
                          THEN a - Flat(Code, 0)
                     ELSE mem[a]]
        /\ mem = [a \in Address |-> Nobody]
    <3>1. prg.kind = "mz" /\ ret.ptr = Home
      BY <1>5, <1>a DEF LoadMz, Granted, At
    <3>2. (ret.ptr + PspSize \div ParaSize) % Total = Code
      BY <3>1 DEF Code
    <3> QED BY <1>5, <1>a, <3>1, <3>2 DEF LoadMz, Granted, At, Patches
  <2>2. \A a \in Address : mem[a] = Nobody
    BY <2>1
  <2>3. Patches' = Patches /\ Code' = Code /\ ExeSize(prg)' = ExeSize(prg)
    BY <2>1 DEF Patches, Code, ExeSize
  <2>4. \A a \in Address : Loaded(a)' =
            IF a \in Patches THEN Reloc
            ELSE IF a \in Flat(Code, 0)..(Flat(Code, 0) + ExeSize(prg) - 1)
                 THEN a - Flat(Code, 0)
            ELSE mem[a]
    BY <2>1, <2>2, <2>3, Zenon DEF Loaded
  <2>5. mem' = [a \in Address |-> Loaded(a)']
    BY <2>1, <2>4, Zenon
  <2> QED BY <2>1, <2>5 DEF MemInv
<1>6. CASE BuildPsp
  <2>1. /\ stage = "psp" /\ stage' = "start" /\ UNCHANGED <<prg, arglen>>
        /\ dos.pspseg = Home
        /\ mem = [a \in Address |-> Loaded(a)]
    BY <1>1, <1>6 DEF BuildPsp, ListInv, MemInv
  <2>2. mem' = [a \in Address |-> IF a \in ArgBytes THEN Args
                                  ELSE IF a \in PspBytes THEN Psp ELSE mem[a]]
    BY <1>6, <2>1 DEF BuildPsp, ArgBytes, PspBytes
  <2>3. \A a : Loaded(a)' = Loaded(a)
    BY <2>1 DEF Loaded, Into, Patches, Code, ExeSize
  <2>4. ArgBytes' = ArgBytes
    BY <2>1 DEF ArgBytes
  <2>5. mem' = [a \in Address |-> IF a \in ArgBytes THEN Args
                                  ELSE IF a \in PspBytes THEN Psp ELSE Loaded(a)]
    BY <2>1, <2>2
  <2>6. mem' = [a \in Address |-> IF a \in ArgBytes' THEN Args
                                  ELSE IF a \in PspBytes THEN Psp ELSE Loaded(a)']
    BY <2>3, <2>4, <2>5, Zenon
  <2> QED BY <2>1, <2>6, Zenon DEF MemInv, PspBytes
<1>7. CASE StartCom \/ StartMz
  <2>1. stage = "start" /\ stage' = "running" /\ UNCHANGED <<prg, arglen, mem>>
    BY <1>7 DEF StartCom, StartMz
  <2>2. \A a : Loaded(a)' = Loaded(a)
    BY <2>1 DEF Loaded, Into, Patches, Code, ExeSize
  <2>3. ArgBytes' = ArgBytes
    BY <2>1 DEF ArgBytes
  <2>4. mem' = [a \in Address |-> IF a \in ArgBytes THEN Args
                                  ELSE IF a \in PspBytes THEN Psp ELSE Loaded(a)]
    BY <1>1, <2>1 DEF MemInv
  <2>5. mem' = [a \in Address |-> IF a \in ArgBytes' THEN Args
                                  ELSE IF a \in PspBytes THEN Psp ELSE Loaded(a)']
    BY <2>2, <2>3, <2>4, Zenon
  <2> QED BY <2>1, <2>5, Zenon DEF MemInv, PspBytes
<1>8. CASE Serve \/ UNCHANGED allVars
  <2>1. UNCHANGED <<stage, prg, arglen, mem>>
    BY <1>8 DEF Serve, allVars, loadVars
  <2>2. \A a : Loaded(a)' = Loaded(a)
    BY <2>1 DEF Loaded, Into, Patches, Code, ExeSize
  <2>3. ArgBytes' = ArgBytes
    BY <2>1 DEF ArgBytes
  <2>4. stage' = "psp" => mem' = [a \in Address |-> Loaded(a)']
    <3>1. stage' = "psp" => mem' = [a \in Address |-> Loaded(a)]
      BY <1>1, <2>1 DEF MemInv
    <3> QED BY <2>2, <3>1, Zenon
  <2>5. stage' \in {"start", "running"} =>
          mem' = [a \in Address |-> IF a \in ArgBytes' THEN Args
                                    ELSE IF a \in PspBytes THEN Psp ELSE Loaded(a)']
    <3>1. stage' \in {"start", "running"} =>
            mem' = [a \in Address |-> IF a \in ArgBytes THEN Args
                                      ELSE IF a \in PspBytes THEN Psp ELSE Loaded(a)]
      BY <1>1, <2>1 DEF MemInv
    <3> QED BY <2>2, <2>3, <3>1, Zenon
  <2>6. stage' \in {"bios", "env", "com", "mz"} => mem' = [a \in Address |-> Nobody]
    BY <1>1, <2>1 DEF MemInv
  <2> QED BY <2>4, <2>5, <2>6, Zenon DEF MemInv, PspBytes
<1> QED BY <1>2, <1>3, <1>4, <1>5, <1>6, <1>7, <1>8 DEF LoaderNext, Load

LEMMA CpuStep ==
  ASSUME LoaderIInv, [LoaderNext]_allVars
  PROVE  CpuInv'
<1>1. Types /\ ListInv /\ CpuInv
  BY DEF LoaderIInv
<1>2. CASE BiosInit \/ OpenCom \/ OpenMz
  <2>1. UNCHANGED cpu /\ stage \in {"bios", "env"} /\ stage' \in {"env", "com", "mz"}
    BY <1>2 DEF BiosInit, OpenCom, OpenMz, Granted, At
  <2> QED BY <1>1, <2>1 DEF CpuInv
<1>3. CASE NoFile \/ NoMemory \/ LoadMzForever \/ Exit
  <2>1. stage' \in {"failed", "crashed", "returned"}
    BY <1>3 DEF NoFile, NoMemory, LoadMzForever, Exit
  <2> QED BY <2>1 DEF CpuInv
<1>a. (\E s \in {"com", "mz"} : Granted(s)) => prg.kind = stage /\ ret.ptr = Home
  BY <1>1 DEF Granted, At, ListInv, Busy, Answered
<1>4. CASE LoadCom
  <2>1. /\ stage = "com" /\ stage' = "psp" /\ UNCHANGED <<prg, cpu>> /\ prg.kind = "com"
    BY <1>4, <1>a DEF LoadCom, Granted, At
  <2> QED BY <1>1, <2>1 DEF CpuInv
<1>5. CASE LoadMz
  <2>1. stage = "mz" /\ stage' \in {"psp", "crashed"} /\ prg' = prg /\ prg.kind = "mz"
        /\ ret.ptr = Home
    BY <1>5, <1>a DEF LoadMz, Granted, At
  <2>2. (ret.ptr + PspSize \div ParaSize) % Total = Code /\ Code' = Code
    BY <2>1 DEF Code
  <2>3. cpu' = [cpu EXCEPT !.ss = (Code + prg.entry.ss) % Total, !.sp = prg.entry.sp,
                           !.cs = (Code + prg.entry.cs) % Total, !.ip = prg.entry.ip]
    BY <1>5, <2>2 DEF LoadMz
  <2> HIDE DEF Code
  <2>4. /\ cpu'.ss = (Code + prg.entry.ss) % Total /\ cpu'.sp = prg.entry.sp
        /\ cpu'.cs = (Code + prg.entry.cs) % Total /\ cpu'.ip = prg.entry.ip
    BY <1>1, <2>3 DEF Types
  <2> QED BY <2>1, <2>2, <2>4 DEF CpuInv
<1>6. CASE BuildPsp \/ Serve \/ UNCHANGED allVars
  <2>1. UNCHANGED <<prg, cpu>> /\ (stage' = stage \/ (stage = "psp" /\ stage' = "start"))
    <3>1. CASE BuildPsp
      BY <3>1 DEF BuildPsp
    <3>2. CASE Serve \/ UNCHANGED allVars
      BY <3>2 DEF Serve, allVars, loadVars
    <3> QED BY <1>6, <3>1, <3>2
  <2>2. Code' = Code
    BY <2>1 DEF Code
  <2> QED BY <1>1, <2>1, <2>2 DEF CpuInv
<1>7. CASE StartCom
  <2>1. /\ stage = "start" /\ stage' = "running" /\ prg' = prg /\ prg.kind = "com"
        /\ dos.pspseg = Home /\ dos.codeseg = Home
        /\ cpu' = [cpu EXCEPT !.cs = dos.codeseg, !.ip = PspSize,
                              !.ds = dos.pspseg, !.es = dos.pspseg]
    BY <1>1, <1>7 DEF StartCom, ListInv, Code
  <2>2. /\ cpu'.ss = cpu.ss /\ cpu'.sp = cpu.sp
        /\ cpu'.cs = Home /\ cpu'.ip = PspSize /\ cpu'.ds = Home
    BY <1>1, <2>1 DEF Types
  <2> QED BY <1>1, <2>1, <2>2 DEF CpuInv
<1>8. CASE StartMz
  <2>1. /\ stage = "start" /\ stage' = "running" /\ prg' = prg /\ prg.kind = "mz"
        /\ dos.pspseg = Home
        /\ cpu' = [cpu EXCEPT !.ds = dos.pspseg, !.es = dos.pspseg]
    BY <1>1, <1>8 DEF StartMz, ListInv
  <2>2. Code' = Code
    BY <2>1 DEF Code
  <2>3. cpu'.ds = Home /\ UNCHANGED <<cpu.ss, cpu.sp, cpu.cs, cpu.ip>>
    BY <1>1, <2>1 DEF Types
  <2> QED BY <1>1, <2>1, <2>2, <2>3 DEF CpuInv
<1> QED BY <1>2, <1>3, <1>4, <1>5, <1>6, <1>7, <1>8 DEF LoaderNext, Load

LEMMA LoaderInvariantInit ==
  ASSUME LoaderInit
  PROVE  LoaderIInv
<1>1. Init /\ IInv
  BY InitIInv DEF LoaderInit
<1>2. Types
  BY Sizes DEF LoaderInit, Types
<1>3. ListInv
  <2>1. nodes = <<Gap(0, Total)>> /\ Busy(Internal) /\ stage = "bios"
    BY <1>1 DEF LoaderInit, Init, Gap, Busy
  <2>2. FreshList
    BY <2>1 DEF FreshList
  <2> QED BY <2>1, <2>2 DEF ListInv
<1>4. MemInv /\ CpuInv
  BY DEF LoaderInit, MemInv, CpuInv
<1> QED BY <1>1, <1>2, <1>3, <1>4 DEF LoaderIInv

\* The inductive invariant holds throughout.
THEOREM LoaderInvariance == LoaderSpec => []LoaderIInv
<1>1. LoaderInit => LoaderIInv
  BY LoaderInvariantInit
<1>2. LoaderIInv /\ [LoaderNext]_allVars => LoaderIInv'
  BY AllocatorStep, TypesStep, ListStep, MemStep, CpuStep DEF LoaderIInv
<1> QED BY <1>1, <1>2, PTL DEF LoaderSpec

-----------------------------------------------------------------------------
(* The results.                                                            *)

\* Whatever the file and the arguments are, the loader's records and the
\* registers it sets keep to uint16, and the allocator to its own types.
THEOREM LoaderTypeCorrect == LoaderSpec => []LoaderTypeOK
<1>1. LoaderIInv => LoaderTypeOK
  BY DEF LoaderIInv, IInv, Types, LoaderTypeOK
<1> QED BY <1>1, LoaderInvariance, PTL

\* load_com and load_mz never leave the paragraph 0xFFFF in pspseg, by which
\* loader() tells that they have set none.
THEOREM PspNeverSentinel == LoaderSpec => []PspNotSentinel
<1>1. LoaderIInv => PspNotSentinel
  BY Sizes DEF LoaderIInv, ListInv, PspNotSentinel, NoPsp, Home
<1> QED BY <1>1, LoaderInvariance, PTL

\* The program's segment begins at Home, and its offsets do not wrap.
LEMMA HomeFlat ==
  ASSUME NEW x \in Para
  PROVE  /\ Flat(Home, x) = Home * ParaSize + x
         /\ Flat(Home, x) \in Address
         /\ Home * ParaSize \in Nat
<1> DEFINE h == Home * ParaSize
           t == Total * ParaSize
           d == 2 * Total * ParaSize
<1>1. /\ Home \in Int /\ Home < Total /\ 0 <= Home /\ x \in Nat /\ x < Total
      /\ ParaSize \in Nat /\ ParaSize > 0 /\ Total \in Nat
  BY Sizes DEF Home
<1>2. Flat(Home, x) = h + x
  BY Wrap DEF Flat, Para
<1>3. /\ h \in Int /\ h >= 0 /\ t \in Int /\ h + ParaSize <= t
  <2>1. h \in Int /\ 0 * ParaSize <= h /\ 0 * ParaSize = 0
    BY <1>1, Scale
  <2>2. t \in Int /\ h + ParaSize <= t
    BY <1>1, Scale
  <2> QED BY <2>1, <2>2
<1>4. t >= Total
  <2>1. t = Total + Total * (ParaSize - 1)
    BY <1>1
  <2>2. Total * (ParaSize - 1) >= 0
    BY <1>1
  <2> QED BY <1>1, <2>1, <2>2
<1>5. d = t + t /\ Address = 0..(d - 1)
  BY <1>1 DEF Address
<1> HIDE DEF h, t, d
<1>6. h + x \in 0..(d - 1)
  BY <1>1, <1>3, <1>4, <1>5
<1>7. Flat(Home, x) \in Address
  BY <1>2, <1>5, <1>6, Zenon
<1>8. h \in Nat
  BY <1>3
<1> QED BY <1>2, <1>7, <1>8 DEF h

\* Where the program's block lies when its size in paragraphs is a uint16.
LEMMA ProgramBlock ==
  ASSUME LoaderIInv, stage = "running"
  PROVE  /\ DOMAIN nodes = 1..Len(nodes) /\ 3 \in DOMAIN nodes
         /\ nodes[1] = Block(0, Internal) /\ nodes[2] = Block(Internal, 1)
         /\ nodes[3] = Block(Home, Asked)
         /\ \A i \in DOMAIN nodes : i \in {1, 2, 3, 4}
         /\ 4 \in DOMAIN nodes => nodes[4] = Gap(Home + Asked, Room - Asked)
         /\ Asked \in Nat /\ Asked <= Room
         /\ Bytes(3) = (Home * ParaSize)..((Home + Asked) * ParaSize - 1)
         /\ (Home + Asked) * ParaSize = Home * ParaSize + Asked * ParaSize
         /\ Home * ParaSize + Asked * ParaSize <= Total * ParaSize
         /\ {Home * ParaSize, Asked * ParaSize, Total * ParaSize} \subseteq Int
         /\ SizeFits => Asked * ParaSize >=
              (IF prg.kind = "com" THEN prg.len + PspSize ELSE MzLen(prg))
<1>1. /\ ProgramList(Asked) /\ prg.kind \in {"com", "mz"} /\ prg \in Programs
      /\ prg.kind = "mz" => ExeSize(prg) >= 0
      /\ DOMAIN nodes = 1..Len(nodes)
  BY StateFacts DEF LoaderIInv, ListInv, Types
<1>2. Wanted16 \in Int
  BY <1>1, ProgramSizes DEF Wanted16
<1>3. Asked \in Para /\ Asked \in Nat
  <2>1. Asked \in Para
    BY <1>2, Wrap DEF Asked
  <2> QED BY <2>1, Sizes
<1>4. Home \in Int /\ Total \in Int /\ Home + Asked \in Int /\ Home + Asked <= Total
  BY <1>1, <1>3, Sizes DEF ProgramList, Home, Room
<1>5. /\ (Home + Asked) * ParaSize = Home * ParaSize + Asked * ParaSize
      /\ (Home + Asked) * ParaSize <= Total * ParaSize
      /\ {Home * ParaSize, Asked * ParaSize, Total * ParaSize} \subseteq Int
  <2>1. Asked \in Int
    BY <1>3
  <2>2. (Home + Asked) * ParaSize = Home * ParaSize + Asked * ParaSize
    BY <1>4, <2>1, Scale
  <2>3. (Home + Asked) * ParaSize <= Total * ParaSize
    BY <1>4, Scale
  <2> QED BY <1>4, <2>1, <2>2, <2>3, Scale
<1>6. nodes[3].para = Home /\ nodes[3].size = Asked
  BY <1>1 DEF ProgramList, Block
<1>7. Bytes(3) = (Home * ParaSize)..((Home + Asked) * ParaSize - 1)
  BY <1>6 DEF Bytes
<1>8. ASSUME SizeFits
      PROVE  Asked * ParaSize >= (IF prg.kind = "com" THEN prg.len + PspSize ELSE MzLen(prg))
  <2> DEFINE b == IF prg.kind = "com" THEN prg.len + PspSize ELSE MzLen(prg)
  <2>1. b \in Int /\ b >= 0 /\ Wanted16 = Paras(b)
    <3>1. CASE prg.kind = "com"
      <4>1. prg.len \in Nat
        BY <1>1, <3>1, ProgramSizes
      <4>2. b = prg.len + PspSize
        BY <3>1
      <4>3. Wanted16 = Paras(b)
        BY <3>1, <4>2 DEF Wanted16, ComParas
      <4> QED BY <4>1, <4>2, <4>3, Sizes
    <3>2. CASE prg.kind = "mz"
      <4>1. /\ ExeSize(prg) \in Int /\ ExeSize(prg) >= 0 /\ prg.extra * ParaSize \in Nat
            /\ MzLen(prg) = ExeSize(prg) + prg.extra * ParaSize + PspSize + Hack
        BY <1>1, <3>2, ProgramSizes
      <4>2. b = MzLen(prg)
        BY <3>2
      <4>3. Wanted16 = Paras(b)
        BY <3>2, <4>2 DEF Wanted16
      <4>4. MzLen(prg) \in Nat
        <5> DEFINE x == ExeSize(prg)    y == prg.extra * ParaSize
        <5>1. x \in Nat /\ y \in Nat /\ MzLen(prg) = x + y + PspSize + Hack
          BY <4>1
        <5> HIDE DEF x, y
        <5> QED BY <5>1, Sizes
      <4> QED BY <4>2, <4>3, <4>4
    <3> QED BY <1>1, <3>1, <3>2
  <2> HIDE DEF b
  <2>2. Wanted16 \in Para
    BY <1>8, <2>1, ParasCover, Sizes DEF SizeFits
  <2>3. Asked = Paras(b)
    BY <1>2, <2>1, <2>2, Wrap DEF Asked
  <2>4. b <= Paras(b) * ParaSize
    BY <2>1, ParasCover
  <2>5. b <= Asked * ParaSize /\ Asked * ParaSize \in Int
    BY <1>5, <2>3, <2>4
  <2>6. Asked * ParaSize >= b
    BY <2>1, <2>5
  <2> QED BY <2>6 DEF b
<1>9. \A i \in DOMAIN nodes : i \in {1, 2, 3, 4}
  BY <1>1, <1>3, Sizes DEF ProgramList, Home, Room
<1>10. 3 \in DOMAIN nodes
  BY <1>1, <1>3, Sizes DEF ProgramList, Home, Room
<1>11. 4 \in DOMAIN nodes => nodes[4] = Gap(Home + Asked, Room - Asked)
  BY <1>1, <1>3, Sizes DEF ProgramList, Home, Room
<1> QED BY <1>1, <1>3, <1>5, <1>7, <1>8, <1>9, <1>10, <1>11 DEF ProgramList

\* Where the image of an MZ file lies in it, behind the PSP.
LEMMA MzBlock ==
  ASSUME LoaderIInv, stage = "running", SizeFits, prg.kind = "mz"
  PROVE  /\ Code \in Para /\ Code = Home + PspSize \div ParaSize
         /\ Code * ParaSize = Home * ParaSize + PspSize
         /\ Code * ParaSize + ExeSize(prg) + prg.extra * ParaSize
              < (Home + Asked) * ParaSize
         /\ ExeSize(prg) \in Nat /\ prg.extra * ParaSize \in Nat
         /\ Code * ParaSize \in Nat /\ (Home + Asked) * ParaSize \in Int
<1> DEFINE q == PspSize \div ParaSize
<1>1. /\ prg \in Programs /\ ExeSize(prg) \in Nat /\ prg.extra * ParaSize \in Nat
      /\ MzLen(prg) = ExeSize(prg) + prg.extra * ParaSize + PspSize + Hack
      /\ dos.codeseg = Code
  BY ProgramSizes DEF LoaderIInv, ListInv, Types
<1>2. q \in Int /\ q * ParaSize = PspSize
  <2>1. PspSize \in Nat /\ ParaSize \in Nat /\ ParaSize > 0 /\ PspSize % ParaSize = 0
    BY Sizes, LoaderAssumption
  <2>2. q \in Int /\ PspSize = ParaSize * q + (PspSize % ParaSize)
    BY <2>1
  <2> HIDE DEF q
  <2>3. ParaSize * q = q * ParaSize /\ q * ParaSize \in Int
    BY <2>1, <2>2
  <2> QED BY <2>1, <2>2, <2>3
<1> HIDE DEF q
<1>3. /\ Home \in Int /\ Home + q \in Int
      /\ (Home + q) * ParaSize = Home * ParaSize + PspSize
  BY <1>2, Sizes, Scale DEF Home
<1> DEFINE h == Home * ParaSize
           a == Asked * ParaSize
           t == Total * ParaSize
           x == ExeSize(prg)
           y == prg.extra * ParaSize
<1>4. /\ h \in Int /\ a \in Int /\ t \in Int /\ h + a <= t /\ a >= MzLen(prg)
      /\ (Home + Asked) * ParaSize = h + a
  BY ProgramBlock
<1>5. h >= 0
  BY HomeFlat, Sizes
<1>6. x \in Nat /\ y \in Nat /\ MzLen(prg) = x + y + PspSize + Hack
  BY <1>1
<1> HIDE DEF h, a, t, x, y
<1>7. h + PspSize + x + y < h + a /\ h + PspSize < t /\ h + PspSize \in Nat
  BY <1>4, <1>5, <1>6, Sizes
<1>8. Home + q < Total
  <2>1. (Home + q) * ParaSize < Total * ParaSize
    BY <1>3, <1>7 DEF h, t
  <2> QED BY <1>3, <2>1, Scale, Sizes
<1>9. Home + q >= 0
  <2> SUFFICES ASSUME Home + q < 0 PROVE FALSE
    BY <1>3
  <2>1. (Home + q) * ParaSize + ParaSize <= 0 * ParaSize /\ 0 * ParaSize = 0
    BY <1>3, Scale
  <2> QED BY <1>3, <1>7, <2>1, Sizes DEF h
<1>10. Home + q \in Para /\ Code = Home + q
  <2>1. Home + q \in Para
    BY <1>3, <1>8, <1>9, Sizes
  <2> QED BY <1>3, <2>1, Wrap DEF Code, q
<1>11. Code * ParaSize = h + PspSize
  BY <1>3, <1>10 DEF h
<1> QED BY <1>4, <1>6, <1>7, <1>10, <1>11 DEF h, a, x, y, q

\* The top of segment 0, where a COM program's stack is, belongs to the BIOS;
\* the stack of an MZ program whose header asks for enough memory is behind the
\* PSP in the program's block (start_com, start_mz, bios_init).
THEOREM StackAlwaysApart == LoaderSpec => []StackApart
<1>1. ASSUME LoaderIInv
      PROVE  StackApart
  <2> SUFFICES ASSUME stage = "running", NEW i \in DOMAIN nodes
               PROVE  /\ prg.kind = "com" =>
                           \A k \in 0..(Total - 1) :
                             Flat(cpu.ss, cpu.sp + k) \in Bytes(i) =>
                               nodes[i].in_use /\ nodes[i].para \notin {dos.envseg, dos.pspseg}
                      /\ prg.kind = "mz" /\ SizeFits /\ AsksForStack
                           /\ nodes[i].para = dos.pspseg =>
                           \A k \in 0..(cpu.sp - 1) :
                             /\ Flat(cpu.ss, k) \in Bytes(i)
                             /\ Flat(cpu.ss, k) >= Flat(dos.pspseg, 0) + PspSize
    BY DEF StackApart, Started
  <2>1. /\ dos.envseg = Internal /\ dos.pspseg = Home /\ Home = Internal + 1
        /\ Asked \in Nat /\ i \in {1, 2, 3, 4}
        /\ nodes[1] = Block(0, Internal) /\ nodes[2] = Block(Internal, 1)
        /\ nodes[3] = Block(Home, Asked)
        /\ i = 4 => nodes[4] = Gap(Home + Asked, Room - Asked)
    BY <1>1, ProgramBlock DEF LoaderIInv, ListInv, Home
  <2>2. /\ nodes[i].para \in Int /\ (i # 1 => nodes[i].para >= Internal)
        /\ i = 1 => nodes[1].in_use /\ nodes[1].para = 0
        /\ nodes[2].para = Internal /\ nodes[3].para = Home
        /\ i = 4 => nodes[4].para = Home + Asked
    BY <2>1, Sizes DEF Block, Gap
  <2>3. ASSUME prg.kind = "com", NEW k \in 0..(Total - 1),
               Flat(cpu.ss, cpu.sp + k) \in Bytes(i)
        PROVE  nodes[i].in_use /\ nodes[i].para \notin {dos.envseg, dos.pspseg}
    <3>1. Flat(cpu.ss, cpu.sp + k) = k
      <4>1. cpu.ss = 0 /\ cpu.sp = 0
        BY <1>1, <2>3 DEF LoaderIInv, CpuInv
      <4>2. k % Total = k /\ 0 + k = k
        <5>1. k \in Para /\ k \in Int
          BY Sizes
        <5> QED BY <5>1, Wrap
      <4>3. 0 * ParaSize = 0
        BY Sizes
      <4> QED BY <4>1, <4>2, <4>3 DEF Flat
    <3>2. i = 1
      <4> SUFFICES ASSUME i # 1 PROVE FALSE
        OBVIOUS
      <4>1. Internal * ParaSize <= nodes[i].para * ParaSize
            /\ nodes[i].para * ParaSize \in Int
        <5>1. Internal \in Int /\ nodes[i].para \in Int /\ Internal <= nodes[i].para
          BY <2>2, Sizes
        <5> QED BY <5>1, Scale
      <4>2. nodes[i].para * ParaSize <= k
        BY <2>3, <3>1, <4>1 DEF Bytes
      <4> QED BY <4>1, <4>2, Sizes
    <3> QED BY <2>1, <2>2, <3>2, Sizes
  <2>4. ASSUME prg.kind = "mz", SizeFits, AsksForStack, nodes[i].para = dos.pspseg,
               NEW k \in 0..(cpu.sp - 1)
        PROVE  /\ Flat(cpu.ss, k) \in Bytes(i)
               /\ Flat(cpu.ss, k) >= Flat(dos.pspseg, 0) + PspSize
    <3> DEFINE ess == prg.entry.ss
               esp == prg.entry.sp
               c == Code * ParaSize
               e == ess * ParaSize
               x == ExeSize(prg)
               y == prg.extra * ParaSize
               b == (Home + Asked) * ParaSize
               t == Total * ParaSize
    <3>1. /\ ess \in Para /\ esp \in Para
          /\ cpu.ss = (Code + ess) % Total /\ cpu.sp = esp
      BY <1>1, <2>4, ProgramSizes DEF LoaderIInv, Types, CpuInv
    <3>2. /\ Code \in Para /\ c = Home * ParaSize + PspSize /\ c \in Nat
          /\ c + x + y < b /\ x \in Nat /\ y \in Nat /\ b \in Int
      BY <1>1, <2>4, MzBlock
    <3>3. b <= t /\ t \in Int /\ Bytes(3) = (Home * ParaSize)..(b - 1)
      BY <1>1, ProgramBlock
    <3>4. i = 3
      <4>1. Asked # 0
        <5>1. ASSUME Asked = 0 PROVE b = Home * ParaSize
          BY <1>1, <5>1, ProgramBlock, Sizes DEF Home
        <5> HIDE DEF c, x, y, b
        <5> QED BY <3>2, <5>1, HomeFlat, Sizes
      <4> QED BY <2>1, <2>2, <2>4, <4>1, Sizes
    <3>5. /\ Code \in Int /\ ess \in Int /\ esp \in Int /\ k \in Nat /\ k < esp
          /\ esp < Total /\ k \in Para /\ Code + ess \in Int
      <4>1. Code \in Int /\ ess \in Int /\ esp \in Nat /\ esp < Total
        <5>1. Code \in Para /\ ess \in Para /\ esp \in Para
          BY <3>1, <3>2
        <5> HIDE DEF ess, esp
        <5> QED BY <5>1, Sizes
      <4>2. k \in 0..(esp - 1)
        BY <3>1
      <4> HIDE DEF ess, esp
      <4> QED BY <4>1, <4>2, Sizes
    <3>6. e + esp <= x + y /\ e \in Nat
      <4>1. esp % Total = esp
        BY <3>1, <3>5, Wrap
      <4>2. e \in Nat
        BY <3>1, Sizes
      <4> QED BY <2>4, <4>1, <4>2 DEF AsksForStack, Flat
    <3>7. (Code + ess) * ParaSize = c + e
      BY <3>5, Scale
    <3> HIDE DEF ess, esp, c, e, x, y, b, t
    <3>8. c + e + k < b /\ c + e < t
      <4>1. /\ c \in Nat /\ x \in Nat /\ y \in Nat /\ e \in Nat /\ k \in Nat /\ esp \in Int
            /\ b \in Int /\ t \in Int
        BY <3>2, <3>3, <3>5, <3>6
      <4>2. c + x + y < b /\ b <= t /\ e + esp <= x + y /\ k < esp
        BY <3>2, <3>3, <3>5, <3>6
      <4> QED BY <4>1, <4>2
    <3>9. Code + ess < Total
      BY <3>5, <3>7, <3>8, Scale, Sizes DEF t
    <3>10. cpu.ss = Code + ess
      <4>1. Code + ess \in Para
        BY <3>1, <3>2, <3>9, Sizes
      <4> QED BY <3>1, <3>5, <4>1, Wrap
    <3>11. Flat(cpu.ss, k) = c + e + k
      <4>1. k % Total = k
        BY <3>5, Wrap
      <4> QED BY <3>7, <3>10, <4>1 DEF Flat
    <3>12. Flat(dos.pspseg, 0) = Home * ParaSize /\ Home * ParaSize \in Nat
      BY <2>1, HomeFlat, Sizes
    <3>13. c + e + k \in (Home * ParaSize)..(b - 1) /\ c + e + k >= Home * ParaSize + PspSize
      <4> DEFINE h == Home * ParaSize
      <4>1. h \in Nat /\ c = h + PspSize /\ c + e + k < b /\ b \in Int /\ e \in Nat /\ k \in Nat
        BY <3>2, <3>5, <3>6, <3>8, <3>12
      <4> HIDE DEF h
      <4>2. c + e + k \in h..(b - 1) /\ c + e + k >= h + PspSize
        BY <4>1, Sizes
      <4> QED BY <4>2 DEF h
    <3> QED BY <3>3, <3>4, <3>11, <3>12, <3>13
  <2> QED BY <2>3, <2>4
<1> QED BY <1>1, LoaderInvariance, PTL

\* The PSP and the arguments that fit in it are the first bytes of the block.
LEMMA PspBlock ==
  ASSUME LoaderIInv, ArgsFit, NEW a \in ArgBytes \union PspBytes
  PROVE  /\ a \in Int /\ Home * ParaSize \in Int
         /\ Home * ParaSize <= a /\ a < Home * ParaSize + PspSize
<1>1. /\ arglen \in Nat /\ ArgsAt \in Nat /\ ArgsAt + arglen < PspSize /\ 0 < ArgsAt
      /\ ArgsAt < PspSize /\ PspSize < Total /\ PspSize \in Nat
  BY Sizes, LoaderAssumption DEF LoaderIInv, Types, ArgsFit
<1>2. ASSUME NEW x \in 0..(PspSize - 1), a = Flat(Home, x)
      PROVE  /\ a \in Int /\ Home * ParaSize \in Int
             /\ Home * ParaSize <= a /\ a < Home * ParaSize + PspSize
  <2> DEFINE h == Home * ParaSize
  <2>1. h \in Nat /\ a = h + x /\ x \in Nat /\ x < PspSize
    BY <1>1, <1>2, HomeFlat, Sizes
  <2> HIDE DEF h
  <2>2. a \in Int /\ h \in Int /\ h <= a /\ a < h + PspSize
    BY <1>1, <2>1
  <2> QED BY <2>2 DEF h
<1>3. CASE a \in ArgBytes
  <2>1. PICK k \in 0..arglen : a = Flat(Home, ArgsAt + k)
    BY <1>3 DEF ArgBytes, ArgAt
  <2>2. ArgsAt + k \in 0..(PspSize - 1)
    BY <1>1
  <2> QED BY <1>2, <2>1, <2>2
<1>4. CASE a \in PspBytes
  <2>1. PICK k \in PspFields : a = Flat(Home, k)
    BY <1>4 DEF PspBytes
  <2>2. k \in 0..(PspSize - 1)
    BY <1>1, LoaderAssumption
  <2> QED BY <1>2, <2>1, <2>2
<1> QED BY <1>3, <1>4

\* A COM file that fits in its segment is loaded behind the PSP, in order.
LEMMA ComBlock ==
  ASSUME LoaderIInv, SizeFits, prg.kind = "com"
  PROVE  /\ prg.len \in Nat
         /\ \A i \in 0..(prg.len - 1) :
              ComAt(Home, i) = Home * ParaSize + PspSize + i
         /\ \A i \in 0..(prg.len - 1) :
              /\ Home * ParaSize + PspSize + i \in Address
              /\ Loaded(Home * ParaSize + PspSize + i) = i
         /\ \A a \in Address : Loaded(a) # Nobody =>
              \E i \in 0..(prg.len - 1) : a = Home * ParaSize + PspSize + i
<1> DEFINE h == Home * ParaSize
<1>1. /\ prg.len \in Nat /\ PspSize \in Nat /\ PspSize < Total /\ Total \in Nat
      /\ prg.len + PspSize <= Total /\ h \in Nat
  BY ProgramSizes, Sizes, HomeFlat DEF LoaderIInv, Types, SizeFits
<1>2. ASSUME NEW i \in 0..(prg.len - 1)
      PROVE  ComAt(Home, i) = h + PspSize + i /\ ComAt(Home, i) \in Address
  <2>1. PspSize + i \in Para
    BY <1>1, Sizes
  <2>2. /\ Flat(Home, PspSize + i) = h + (PspSize + i)
        /\ Flat(Home, PspSize + i) \in Address
    BY <2>1, HomeFlat
  <2> HIDE DEF h
  <2>3. h + (PspSize + i) = h + PspSize + i
    BY <1>1
  <2> QED BY <2>2, <2>3 DEF ComAt
<1>3. ASSUME NEW i \in 0..(prg.len - 1)
      PROVE  Into(h + PspSize + i) = {i}
  <2>1. ASSUME NEW j \in 0..(prg.len - 1), ComAt(Home, j) = h + PspSize + i
        PROVE  j = i
    <3>1. h + PspSize + j = h + PspSize + i
      BY <1>2, <2>1
    <3> HIDE DEF h
    <3> QED BY <1>1, <3>1
  <2> HIDE DEF h
  <2> QED BY <1>2, <2>1 DEF Into
<1>4. ASSUME NEW i \in 0..(prg.len - 1)
      PROVE  Loaded(h + PspSize + i) = i
  <2>1. Max({i}) = i
    <3>1. i \in {i} /\ \A y \in {i} : i >= y
      BY <1>1
    <3>2. Max({i}) \in {i}
      BY <3>1 DEF Max
    <3> QED BY <3>2
  <2> HIDE DEF h
  <2>2. Into(h + PspSize + i) # {}
    BY <1>3
  <2> QED BY <1>3, <2>1, <2>2 DEF Loaded
<1>5. ASSUME NEW a \in Address, Loaded(a) # Nobody
      PROVE  \E i \in 0..(prg.len - 1) : a = h + PspSize + i
  <2>1. PICK i \in 0..(prg.len - 1) : ComAt(Home, i) = a
    BY <1>5 DEF Loaded, Into
  <2> QED BY <1>2, <2>1
<1> QED BY <1>1, <1>2, <1>4, <1>5

\* Of the PSP's bytes a file that fits has written none, but by a relocation.
LEMMA PspUnloaded ==
  ASSUME LoaderIInv, stage = "running", SizeFits, NEW k \in 0..(PspSize - 1)
  PROVE  Loaded(Flat(Home, k)) = IF Flat(Home, k) \in Relocs THEN Reloc ELSE Nobody
<1> DEFINE h == Home * ParaSize
           a == Flat(Home, k)
<1>1. /\ a = h + k /\ a \in Address /\ h \in Nat /\ k \in Nat /\ k < PspSize
      /\ PspSize \in Nat
  <2>1. k \in Para /\ k \in Nat /\ k < PspSize /\ PspSize \in Nat
    BY Sizes
  <2> QED BY <2>1, HomeFlat
<1>2. prg.kind \in {"com", "mz"} /\ dos.codeseg = Code
  BY DEF LoaderIInv, ListInv
<1> HIDE DEF a
<1>3. CASE prg.kind = "com"
  <2>1. Relocs = {}
    BY <1>3 DEF Relocs
  <2>2. ASSUME Loaded(a) # Nobody PROVE FALSE
    <3>1. PICK i \in 0..(prg.len - 1) : a = h + PspSize + i
      BY <1>1, <1>3, <2>2, ComBlock
    <3>2. prg.len \in Nat
      BY <1>3, ComBlock
    <3> HIDE DEF h
    <3> QED BY <1>1, <3>1, <3>2
  <2> QED BY <2>1, <2>2 DEF a
<1>4. CASE prg.kind = "mz"
  <2>1. Relocs = Patches /\ prg.kind # "com"
    BY <1>2, <1>4 DEF Relocs, Patches
  <2> DEFINE c == Code * ParaSize
             x == ExeSize(prg)
  <2>2. c = h + PspSize /\ c \in Nat /\ x \in Nat
    BY <1>4, MzBlock
  <2>3. Flat(Code, 0) = c
    <3>1. 0 % Total = 0 /\ c + 0 = c
      BY <2>2, Sizes
    <3> QED BY <3>1 DEF Flat
  <2>4. a \notin Flat(Code, 0)..(Flat(Code, 0) + x - 1)
    <3> HIDE DEF h, c, x
    <3> QED BY <1>1, <2>2, <2>3
  <2>5. Loaded(a) = IF a \in Patches THEN Reloc ELSE Nobody
    BY <2>1, <2>4 DEF Loaded
  <2> QED BY <2>1, <2>5 DEF a
<1> QED BY <1>2, <1>3, <1>4

\* Nothing the image, a relocation or the arguments have written is left in the
\* fields of the PSP a program is started with, nor anything but its arguments
\* where they belong, unless they wrap; and the bytes between are those that
\* mem_init cleared, a stray relocation apart, if the file fits (prv_build_psp).
THEOREM PspAlwaysIntact == LoaderSpec => []PspIntact
<1>1. ASSUME LoaderIInv
      PROVE  PspIntact
  <2> DEFINE Between == 0..(PspSize - 1) \ (PspFields \union ArgsAt..(ArgsAt + arglen))
  <2> SUFFICES ASSUME stage = "running", ArgsAt + arglen < Total
               PROVE  /\ \A k \in PspFields : mem[Flat(cpu.ds, k)] = Psp
                      /\ \A k \in 0..arglen : mem[Flat(cpu.ds, ArgsAt + k)] = Args
                      /\ SizeFits => \A k \in Between :
                           mem[Flat(cpu.ds, k)] =
                             IF Flat(cpu.ds, k) \in Relocs THEN Reloc ELSE Nobody
    BY DEF PspIntact, Started
  <2>1. /\ cpu.ds = Home
        /\ \A a \in Address : mem[a] = IF a \in ArgBytes THEN Args
                                       ELSE IF a \in PspBytes THEN Psp ELSE Loaded(a)
    BY <1>1 DEF LoaderIInv, MemInv, CpuInv
  <2>2. /\ arglen \in Nat /\ ArgsAt \in Nat /\ ArgsAt > 0 /\ ArgsAt < Total
        /\ PspSize \in Nat /\ PspSize < Total
        /\ PspFields \subseteq 0..(ArgsAt - 1) /\ PspFields \subseteq Para
    BY <1>1, Sizes, LoaderAssumption DEF LoaderIInv, Types
  <2>3. ASSUME NEW x \in Para, NEW y \in Para, Flat(Home, x) = Flat(Home, y)
        PROVE  x = y
    BY <2>3, HomeFlat, Sizes
  <2>4. ASSUME NEW k \in Para, k \notin ArgsAt..(ArgsAt + arglen)
        PROVE  Flat(Home, k) \notin ArgBytes
    <3>1. ASSUME NEW j \in 0..arglen, Flat(Home, k) = ArgAt(Home, j)
          PROVE  FALSE
      <4>1. ArgsAt + j \in Para /\ ArgsAt + j # k
        BY <2>2, <2>4, Sizes
      <4> QED BY <2>3, <3>1, <4>1 DEF ArgAt
    <3> QED BY <3>1 DEF ArgBytes
  <2>5. ASSUME NEW k \in PspFields
        PROVE  mem[Flat(Home, k)] = Psp
    <3>1. k \in Para /\ k \notin ArgsAt..(ArgsAt + arglen)
      BY <2>2
    <3>2. Flat(Home, k) \notin ArgBytes /\ Flat(Home, k) \in PspBytes
      BY <2>4, <3>1 DEF PspBytes
    <3> QED BY <2>1, <3>1, <3>2, HomeFlat
  <2>6. ASSUME NEW k \in 0..arglen
        PROVE  mem[Flat(Home, ArgsAt + k)] = Args
    <3>1. ArgsAt + k \in Para /\ ArgsAt - 1 \in Para /\ ArgsAt + k # ArgsAt - 1
      BY <2>2, Sizes
    <3>2. Flat(Home, ArgsAt + k) # Flat(Home, ArgsAt - 1)
      BY <2>3, <3>1
    <3>3. Flat(Home, ArgsAt + k) \in ArgBytes
      BY <3>2 DEF ArgBytes, ArgAt
    <3> QED BY <2>1, <3>1, <3>3, HomeFlat
  <2>7. ASSUME SizeFits, NEW k \in Between
        PROVE  mem[Flat(Home, k)] =
                 IF Flat(Home, k) \in Relocs THEN Reloc ELSE Nobody
    <3>1. k \in Para /\ k \in 0..(PspSize - 1)
      BY <2>2, Sizes
    <3>2. Flat(Home, k) \notin PspBytes
      <4> SUFFICES ASSUME NEW j \in PspFields, Flat(Home, k) = Flat(Home, j)
                   PROVE  FALSE
        BY DEF PspBytes
      <4> QED BY <2>2, <2>3, <3>1
    <3>3. mem[Flat(Home, k)] = Loaded(Flat(Home, k))
      BY <2>1, <2>4, <3>1, <3>2, HomeFlat
    <3> QED BY <1>1, <2>7, <3>1, <3>3, PspUnloaded
  <2> QED BY <2>1, <2>5, <2>6, <2>7
<1> QED BY <1>1, LoaderInvariance, PTL

\* The loader writes nowhere but in the program's block, the relocations of an
\* MZ file apart (load_com, load_mz, prv_build_psp).
THEOREM LoaderContained == LoaderSpec => []Contained
<1>1. ASSUME LoaderIInv
      PROVE  Contained
  <2> SUFFICES ASSUME stage = "running", ArgsFit, SizeFits
               PROVE  \E i \in DOMAIN nodes :
                        /\ nodes[i].in_use /\ nodes[i].para = dos.pspseg
                        /\ { a \in Address : mem[a] # Nobody } \subseteq Bytes(i) \union Relocs
    BY DEF Contained, Started
  <2>1. /\ dos.pspseg = Home /\ dos.codeseg = Code /\ prg.kind \in {"com", "mz"}
        /\ \A a \in Address : mem[a] = IF a \in ArgBytes THEN Args
                                       ELSE IF a \in PspBytes THEN Psp ELSE Loaded(a)
    BY <1>1 DEF LoaderIInv, ListInv, MemInv
  <2> DEFINE h == Home * ParaSize
             s == Asked * ParaSize
  <2>2. /\ 3 \in DOMAIN nodes /\ nodes[3].in_use /\ nodes[3].para = Home
        /\ Bytes(3) = h..(h + s - 1) /\ h \in Int /\ s \in Int
        /\ s >= (IF prg.kind = "com" THEN prg.len + PspSize ELSE MzLen(prg))
    BY <1>1, ProgramBlock DEF Block
  <2>3. s >= PspSize /\ PspSize \in Nat
    <3>1. CASE prg.kind = "com"
      <4>1. prg.len \in Nat /\ s >= prg.len + PspSize
        BY <1>1, <2>2, <3>1, ComBlock
      <4> HIDE DEF s
      <4> QED BY <2>2, <4>1, Sizes
    <3>2. CASE prg.kind = "mz"
      <4> DEFINE x == ExeSize(prg)
                 y == prg.extra * ParaSize
      <4>1. x \in Nat /\ y \in Nat /\ s >= x + y + PspSize + Hack
        BY <1>1, <2>2, <3>2, MzBlock, ProgramSizes DEF LoaderIInv, Types
      <4> HIDE DEF s, x, y
      <4> QED BY <2>2, <4>1, Sizes
    <3> QED BY <2>1, <3>1, <3>2
  <2>4. ASSUME NEW a \in Address, a \in ArgBytes \union PspBytes
        PROVE  a \in Bytes(3)
    <3>1. a \in Int /\ h <= a /\ a < h + PspSize
      BY <1>1, <2>4, PspBlock
    <3> HIDE DEF h, s
    <3>2. a \in h..(h + s - 1)
      BY <2>2, <2>3, <3>1
    <3> QED BY <2>2, <3>2
  <2>5. ASSUME NEW a \in Address, Loaded(a) # Nobody
        PROVE  a \in Bytes(3) \union Relocs
    <3>1. CASE prg.kind = "com"
      <4>1. PICK i \in 0..(prg.len - 1) : a = h + PspSize + i
        BY <1>1, <2>5, <3>1, ComBlock
      <4>2. prg.len \in Nat /\ s >= prg.len + PspSize
        BY <1>1, <2>2, <3>1, ComBlock
      <4> HIDE DEF h, s
      <4>3. a \in h..(h + s - 1)
        BY <2>2, <2>3, <4>1, <4>2
      <4> QED BY <2>2, <4>3
    <3>2. CASE prg.kind = "mz"
      <4>1. CASE a \in Patches
        <5>1. prg.kind # "com"
          BY <3>2
        <5>2. Relocs = Patches
          BY <2>1, <5>1 DEF Relocs, Patches
        <5> QED BY <4>1, <5>2
      <4>2. CASE a \notin Patches
        <5> DEFINE c == Code * ParaSize
                   x == ExeSize(prg)
                   y == prg.extra * ParaSize
        <5>1. /\ c = h + PspSize /\ c + x + y < (Home + Asked) * ParaSize
              /\ x \in Nat /\ y \in Nat /\ c \in Nat
          BY <1>1, <3>2, MzBlock
        <5>2. Flat(Code, 0) = c
          <6>1. 0 % Total = 0
            BY Sizes
          <6>2. c + 0 = c
            BY <5>1
          <6> QED BY <6>1, <6>2 DEF Flat
        <5>3. a \in c..(c + x - 1)
          BY <2>5, <3>2, <4>2, <5>2 DEF Loaded
        <5>4. (Home + Asked) * ParaSize = h + s
          BY <1>1, ProgramBlock
        <5> HIDE DEF h, s, c, x, y
        <5>5. h \in Int /\ s \in Int /\ PspSize \in Nat
          BY <2>2, Sizes
        <5>6. c + x + y < h + s /\ a \in Int /\ c <= a /\ a <= c + x - 1
          BY <5>1, <5>3, <5>4
        <5>7. a \in h..(h + s - 1)
          BY <5>1, <5>5, <5>6
        <5> QED BY <2>2, <5>7
      <4> QED BY <4>1, <4>2
    <3> QED BY <2>1, <3>1, <3>2
  <2>6. { a \in Address : mem[a] # Nobody } \subseteq Bytes(3) \union Relocs
    BY <2>1, <2>4, <2>5
  <2> QED BY <2>1, <2>2, <2>6
<1> QED BY <1>1, LoaderInvariance, PTL

\* The image of an MZ file, where no relocation has changed it.
LEMMA MzImage ==
  ASSUME LoaderIInv, stage = "running", SizeFits, prg.kind = "mz",
         NEW i \in 0..(ExeSize(prg) - 1)
  PROVE  /\ Code * ParaSize + i \in Address
         /\ Code * ParaSize + i >= Home * ParaSize + PspSize
         /\ Loaded(Code * ParaSize + i) =
              IF Code * ParaSize + i \in Patches THEN Reloc ELSE i
<1> DEFINE c == Code * ParaSize
           h == Home * ParaSize
           x == ExeSize(prg)
           y == prg.extra * ParaSize
           t == Total * ParaSize
           d == 2 * Total * ParaSize
<1>1. /\ c = h + PspSize /\ c + x + y < (Home + Asked) * ParaSize
      /\ x \in Nat /\ y \in Nat /\ c \in Nat
  BY MzBlock
<1>2. (Home + Asked) * ParaSize <= t /\ t \in Int /\ (Home + Asked) * ParaSize \in Int
  BY ProgramBlock, MzBlock
<1>3. Flat(Code, 0) = c
  <2>1. 0 % Total = 0 /\ c + 0 = c
    BY <1>1, Sizes
  <2> QED BY <2>1 DEF Flat
<1>4. d = t + t /\ Address = 0..(d - 1)
  BY Sizes DEF Address
<1>5. h \in Nat
  BY HomeFlat, Sizes
<1>6. i \in 0..(x - 1)
  OBVIOUS
<1> HIDE DEF c, h, x, y, t, d
<1>7. c + i \in 0..(d - 1) /\ c + i >= h + PspSize /\ c + i \in c..(c + x - 1) /\ (c + i) - c = i
  BY <1>1, <1>2, <1>4, <1>5, <1>6, Sizes
<1>8. Loaded(c + i) = IF c + i \in Patches THEN Reloc ELSE i
  <2>1. prg.kind # "com"
    OBVIOUS
  <2>2. c + i \in Flat(Code, 0)..(Flat(Code, 0) + ExeSize(prg) - 1)
    BY <1>3, <1>7 DEF x
  <2>3. CASE c + i \in Patches
    BY <2>1, <2>3 DEF Loaded
  <2>4. CASE c + i \notin Patches
    <3>1. Loaded(c + i) = (c + i) - Flat(Code, 0)
      BY <2>1, <2>2, <2>4 DEF Loaded
    <3> QED BY <1>3, <1>7, <2>4, <3>1
  <2> QED BY <2>3, <2>4
<1> QED BY <1>4, <1>7, <1>8 DEF c, h

\* CS:IP of an MZ program is in its image at the entry point its header names.
LEMMA MzEntry ==
  ASSUME LoaderIInv, stage = "running", SizeFits, prg.kind = "mz", EntryAt < ExeSize(prg)
  PROVE  Flat(cpu.cs, cpu.ip) - EntryAt = Code * ParaSize
<1> DEFINE ecs == prg.entry.cs
           eip == prg.entry.ip
           p == ecs * ParaSize
           e == p + eip
           c == Code * ParaSize
           h == Home * ParaSize
           x == ExeSize(prg)
           y == prg.extra * ParaSize
           t == Total * ParaSize
<1>1. /\ ecs \in Para /\ eip \in Para
      /\ cpu.cs = (Code + ecs) % Total /\ cpu.ip = eip
  BY ProgramSizes DEF LoaderIInv, Types, CpuInv
<1>2. /\ c = h + PspSize /\ c + x + y < (Home + Asked) * ParaSize
      /\ x \in Nat /\ y \in Nat /\ c \in Nat /\ Code \in Para
  BY MzBlock
<1>3. (Home + Asked) * ParaSize <= t /\ t \in Int /\ (Home + Asked) * ParaSize \in Int
  BY ProgramBlock, MzBlock
<1>4. /\ ecs \in Nat /\ eip \in Nat /\ Code \in Nat /\ Total \in Nat
      /\ ecs < Total /\ eip < Total /\ Code < Total /\ eip % Total = eip
  <2>1. ecs \in 0..(Total - 1) /\ eip \in 0..(Total - 1) /\ Code \in 0..(Total - 1)
    BY <1>1, <1>2, Sizes
  <2>2. eip % Total = eip
    BY <1>1, <2>1, Wrap
  <2> HIDE DEF ecs, eip
  <2> QED BY <2>1, <2>2, Sizes
<1>5. Total < h /\ h \in Int
  <2>1. Internal \in Int /\ Home \in Int /\ Internal < Home
    BY Sizes DEF Home
  <2>2. Internal * ParaSize + ParaSize <= h /\ h \in Int
    BY <2>1, Scale
  <2> HIDE DEF h
  <2> QED BY <2>2, Sizes
<1>6. p \in Int /\ p >= 0 /\ p + ParaSize <= t
  <2> HIDE DEF ecs
  <2>1. ecs \in Int /\ 0 <= ecs /\ ecs < Total /\ Total \in Int
    BY <1>4
  <2>2. 0 * ParaSize <= p /\ 0 * ParaSize = 0
    BY <2>1, Scale
  <2>3. p \in Int /\ p + ParaSize <= t
    BY <2>1, Scale
  <2> QED BY <2>2, <2>3
<1>7. EntryAt = e % t
  <2>1. prg.kind # "com"
    OBVIOUS
  <2> QED BY <1>4, <2>1 DEF EntryAt, Flat
<1>8. (Code + ecs) * ParaSize = c + p
  <2> HIDE DEF ecs
  <2> QED BY <1>4, Scale
<1>9. EntryAt < x
  OBVIOUS
<1>10. ASSUME Code + ecs < Total
       PROVE  Flat(cpu.cs, cpu.ip) - EntryAt = c
  <2>1. c + p + ParaSize <= t
    <3> HIDE DEF ecs, c, p
    <3>1. Code + ecs \in Int /\ (Code + ecs) * ParaSize + ParaSize <= Total * ParaSize
      BY <1>4, <1>10, Scale
    <3> QED BY <1>8, <3>1 DEF t
  <2>2. (Code + ecs) % Total = Code + ecs
    <3> HIDE DEF ecs
    <3>1. Code + ecs \in Para /\ Code + ecs \in Int
      BY <1>4, <1>10, Sizes
    <3> QED BY <3>1, Wrap
  <2>3. Flat(cpu.cs, cpu.ip) = (c + p) + eip
    BY <1>1, <1>4, <1>8, <2>2 DEF Flat
  <2> HIDE DEF ecs, eip, p, c, h, x, y, t
  <2>4. e \in Nat /\ e < t /\ t \in Nat /\ t > 0 /\ e < 2 * t
    BY <1>2, <1>3, <1>4, <1>5, <1>6, <2>1, Sizes
  <2> HIDE DEF e
  <2>5. e % t = e
    BY <2>4, ModOnce
  <2> QED BY <1>2, <1>4, <1>6, <1>7, <2>3, <2>5 DEF e
<1>11. ASSUME ~(Code + ecs < Total)
       PROVE  Flat(cpu.cs, cpu.ip) - EntryAt = c
  <2>1. t <= c + p
    <3> HIDE DEF ecs, c, p
    <3>1. Code + ecs \in Int /\ Total * ParaSize <= (Code + ecs) * ParaSize
      BY <1>4, <1>11, Scale
    <3> QED BY <1>8, <3>1 DEF t
  <2>2. (Code + ecs) % Total = (Code + ecs) - Total
    <3> HIDE DEF ecs
    <3> DEFINE z == Code + ecs
    <3>1. z \in Nat /\ z < 2 * Total /\ Total > 0 /\ Total \in Nat /\ ~(z < Total)
      BY <1>4, <1>11, Sizes
    <3> HIDE DEF z
    <3>2. z % Total = z - Total
      BY <3>1, ModOnce
    <3> QED BY <3>2 DEF z
  <2>3. ((Code + ecs) - Total) * ParaSize = (c + p) - t
    <3> HIDE DEF ecs, c, p
    <3> DEFINE z == Code + ecs
    <3>1. z \in Int /\ Total \in Int /\ z * ParaSize = c + p
      BY <1>4, <1>8
    <3> HIDE DEF z
    <3>2. (z - Total) * ParaSize = z * ParaSize - Total * ParaSize
      BY <3>1, Scale
    <3>3. (z - Total) * ParaSize = (c + p) - t
      BY <3>1, <3>2 DEF t
    <3> QED BY <3>3 DEF z
  <2>4. Flat(cpu.cs, cpu.ip) = ((c + p) - t) + eip
    BY <1>1, <1>4, <2>2, <2>3 DEF Flat
  <2> HIDE DEF ecs, eip, p, c, h, x, y, t
  <2>5. e \in Nat /\ t \in Nat /\ t > 0 /\ e < 2 * t
    BY <1>2, <1>3, <1>4, <1>5, <1>6, Sizes
  <2>6. e % t = IF e < t THEN e ELSE e - t
    <3> HIDE DEF e
    <3> QED BY <2>5, ModOnce
  <2>7. ~(e < t)
    <3> SUFFICES ASSUME e < t PROVE FALSE
      OBVIOUS
    <3>1. p + eip < x
      BY <1>7, <1>9, <2>6
    <3> QED BY <1>2, <1>3, <1>4, <1>6, <2>1, <3>1
  <2>8. EntryAt = (p + eip) - t
    <3>1. EntryAt = e - t
      BY <1>7, <2>6, <2>7, Zenon
    <3> QED BY <3>1 DEF e
  <2> QED BY <1>2, <1>3, <1>4, <1>6, <2>4, <2>8
<1> QED BY <1>10, <1>11

\* Nothing but a relocation has changed a byte of the program between its file
\* and its first instruction, which is where the file wants it (load_com,
\* load_mz, start_com, start_mz).
THEOREM ImageAlwaysIntact == LoaderSpec => []ImageIntact
<1>1. ASSUME LoaderIInv
      PROVE  ImageIntact
  <2> SUFFICES ASSUME stage = "running", ArgsFit, SizeFits, EntryAt < Image,
                      NEW i \in 0..(Image - 1)
               PROVE  mem[Flat(cpu.cs, cpu.ip) - EntryAt + i] =
                        IF Flat(cpu.cs, cpu.ip) - EntryAt + i \in Relocs THEN Reloc ELSE i
    BY DEF ImageIntact, Started
  <2>1. /\ dos.codeseg = Code /\ prg.kind \in {"com", "mz"}
        /\ \A a \in Address : mem[a] = IF a \in ArgBytes THEN Args
                                       ELSE IF a \in PspBytes THEN Psp ELSE Loaded(a)
    BY <1>1 DEF LoaderIInv, ListInv, MemInv
  <2>2. ASSUME NEW a \in Address, a \in Int, a >= Home * ParaSize + PspSize
        PROVE  mem[a] = Loaded(a)
    <3>1. a \notin ArgBytes \union PspBytes
      <4> DEFINE h == Home * ParaSize
      <4> SUFFICES ASSUME a \in ArgBytes \union PspBytes PROVE FALSE
        OBVIOUS
      <4>1. h \in Int /\ h <= a /\ a < h + PspSize
        BY <1>1, PspBlock
      <4>2. a >= h + PspSize
        BY <2>2
      <4> HIDE DEF h
      <4> QED BY <2>2, <4>1, <4>2, Sizes
    <3> QED BY <2>1, <3>1
  <2>3. CASE prg.kind = "com"
    <3> DEFINE h == Home * ParaSize
    <3>1. Image = prg.len /\ EntryAt = 0 /\ Relocs = {}
      BY <2>3 DEF Image, EntryAt, Relocs
    <3>2. i \in 0..(prg.len - 1) /\ prg.len \in Nat
      BY <1>1, <2>3, <3>1, ComBlock
    <3>3. h + PspSize + i \in Address /\ Loaded(h + PspSize + i) = i
      BY <1>1, <2>3, <3>2, ComBlock
    <3>4. Flat(cpu.cs, cpu.ip) = h + PspSize /\ h \in Nat
      <4>1. cpu.cs = Home /\ cpu.ip = PspSize
        BY <1>1, <2>3 DEF LoaderIInv, CpuInv
      <4>2. PspSize \in Para
        BY Sizes
      <4> QED BY <4>1, <4>2, HomeFlat
    <3> HIDE DEF h
    <3>5. /\ Flat(cpu.cs, cpu.ip) - EntryAt + i = h + PspSize + i
          /\ h + PspSize + i \in Int /\ h + PspSize + i >= h + PspSize
      BY <3>1, <3>2, <3>4, Sizes
    <3>6. mem[h + PspSize + i] = i
      BY <2>2, <3>3, <3>5 DEF h
    <3> QED BY <3>1, <3>5, <3>6
  <2>4. CASE prg.kind = "mz"
    <3> DEFINE c == Code * ParaSize
    <3>1. prg.kind # "com"
      BY <2>4
    <3>2. Image = ExeSize(prg) /\ Relocs = Patches
      BY <2>1, <3>1 DEF Image, Relocs, Patches
    <3>3. Flat(cpu.cs, cpu.ip) - EntryAt = c
      BY <1>1, <2>4, <3>2, MzEntry
    <3>4. i \in 0..(ExeSize(prg) - 1)
      BY <3>2
    <3>5. /\ c + i \in Address /\ c + i >= Home * ParaSize + PspSize
          /\ Loaded(c + i) = IF c + i \in Patches THEN Reloc ELSE i
      BY <1>1, <2>4, <3>4, MzImage
    <3>6. c + i \in Int
      <4>1. c \in Nat /\ ExeSize(prg) \in Nat
        BY <1>1, <2>4, MzBlock
      <4> HIDE DEF c
      <4> QED BY <3>4, <4>1
    <3> HIDE DEF c
    <3>7. mem[c + i] = Loaded(c + i)
      BY <2>2, <3>5, <3>6
    <3> QED BY <3>2, <3>3, <3>5, <3>7
  <2> QED BY <2>1, <2>3, <2>4
<1> QED BY <1>1, LoaderInvariance, PTL
=============================================================================
