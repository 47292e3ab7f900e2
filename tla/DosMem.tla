------------------------------- MODULE DosMem -------------------------------
(***************************************************************************)
(* The conventional-memory allocator of src/emu/bios/mem.c: a linked list  *)
(* of nodes in address order, condensed one pair at a time at the start of *)
(* AH=48h and AH=4Ah, searched first-fit by an allocation and by handle by *)
(* the other two calls.  The list is the sequence `nodes`; the back links  *)
(* are never read by the code and are left out.                            *)
(*                                                                         *)
(* Para is uint16 and the arena has exactly as many paragraphs as there    *)
(* are uint16 values, so a node's paragraph wraps to 0 at the arena's end. *)
(* Sizes are size_t and do not wrap.                                       *)
(***************************************************************************)
EXTENDS MemCall, Sequences, SequencesExt

CONSTANTS
  Internal,   \* paragraphs bios_init allocates before any program runs
  MaxNodes    \* bound: an allocation is requested only below this many nodes

ASSUME MemAssumption ==
  /\ Total \in Nat
  /\ Internal \in 1..(Total - 1)
  /\ MaxNodes \in Nat

VARIABLES
  nodes,      \* the list s_nodes
  pc,         \* where the call in progress is
  cur,        \* position of the condensing loop in the list, 1 outside it
  req,        \* the call in progress
  ret         \* the error code and *ptr of the last call to return

vars == <<nodes, pc, cur, req, ret>>

Node == [para : Para, size : 0..Total, in_use : BOOLEAN]

\* The blocks in use of a list, and the handles of those that are empty.
Live(s) ==
  { [para |-> s[i].para, size |-> s[i].size] :
      i \in { k \in DOMAIN s : s[k].in_use /\ s[k].size > 0 } }

Empty(s) ==
  { s[i].para : i \in { k \in DOMAIN s : s[k].in_use /\ s[k].size = 0 } }

Heap == INSTANCE DosHeap WITH live <- Live(nodes), empty <- Empty(nodes)

-----------------------------------------------------------------------------

Init ==
  /\ nodes = << [para |-> 0, size |-> Total, in_use |-> FALSE] >>
  /\ req = AllocReq(Internal)
  /\ pc = "condense"
  /\ cur = 1
  /\ ret = [err |-> "none", ptr |-> 0]

\* The handlers return one of the three codes; only an allocation sets *ptr.
Return(e, p) ==
  /\ ret' = [err |-> e, ptr |-> p]
  /\ req' = NoReq
  /\ pc' = "idle"
  /\ UNCHANGED cur

-----------------------------------------------------------------------------
(* A call arrives, with any size and any paragraph in the registers.       *)

Call(r) ==
  /\ pc = "idle"
  /\ r.op = "alloc" => Len(nodes) < MaxNodes
  /\ req' = r
  /\ pc' = IF r.op = "free" THEN "find" ELSE "condense"
  /\ UNCHANGED <<nodes, cur, ret>>

-----------------------------------------------------------------------------
(* prv_condense_list: list is nodes[cur], next is nodes[cur + 1].          *)

Mergeable(i) ==
  /\ ~nodes[i].in_use
  /\ ~nodes[i+1].in_use
  /\ nodes[i].para + nodes[i].size = nodes[i+1].para

\* Nodes i and i + 1 of the list s become one.
Merge(s, i) == RemoveAt([s EXCEPT ![i].size = @ + s[i+1].size], i + 1)

\* Slip: the loop goes on past the merged node.
CondenseMergeSkips ==
  /\ pc = "condense"
  /\ cur < Len(nodes)
  /\ Mergeable(cur)
  /\ nodes' = Merge(nodes, cur)
  /\ cur' = IF cur < Len(nodes) - 1 THEN cur + 1 ELSE cur
  /\ UNCHANGED <<pc, req, ret>>

\* The loop looks at the merged node again.
CondenseMerge ==
  /\ pc = "condense"
  /\ cur < Len(nodes)
  /\ Mergeable(cur)
  /\ nodes' = Merge(nodes, cur)
  /\ UNCHANGED <<pc, cur, req, ret>>

\* Slip: the loop does not step over a block in use.
CondenseAdvanceStuck ==
  /\ pc = "condense"
  /\ cur < Len(nodes)
  /\ ~Mergeable(cur)
  /\ cur' = IF nodes[cur].in_use THEN cur ELSE cur + 1
  /\ UNCHANGED <<nodes, pc, req, ret>>

CondenseAdvance ==
  /\ pc = "condense"
  /\ cur < Len(nodes)
  /\ ~Mergeable(cur)
  /\ cur' = cur + 1
  /\ UNCHANGED <<nodes, pc, req, ret>>

CondenseDone ==
  /\ pc = "condense"
  /\ cur = Len(nodes)
  /\ pc' = IF req.op = "alloc" THEN "search" ELSE "find"
  /\ cur' = 1
  /\ UNCHANGED <<nodes, req, ret>>

-----------------------------------------------------------------------------
(* bios_mem_alloc after the condensing: first fit.                         *)

Fits(i) == ~nodes[i].in_use /\ req.size <= nodes[i].size

FirstFit(i) == i \in DOMAIN nodes /\ Fits(i) /\ \A j \in 1..(i - 1) : ~Fits(j)

\* prv_alloc on a node of exactly the size asked for.
Take(s, i) == [s EXCEPT ![i].in_use = TRUE]

\* prv_alloc on a larger node: the rest becomes a free node after it.
Split(s, i, n) ==
  InsertAt([s EXCEPT ![i].size = n, ![i].in_use = TRUE], i + 1,
           [para |-> (s[i].para + n) % Total,
            size |-> s[i].size - n,
            in_use |-> FALSE])

AllocFit(i) ==
  /\ pc = "search"
  /\ FirstFit(i)
  /\ nodes' = IF req.size < nodes[i].size THEN Split(nodes, i, req.size) ELSE Take(nodes, i)
  /\ Return("none", nodes[i].para)

AllocFail ==
  /\ pc = "search"
  /\ \A i \in DOMAIN nodes : ~Fits(i)
  /\ UNCHANGED nodes
  /\ Return("oom", ret.ptr)

-----------------------------------------------------------------------------
(* prv_find_node_by_para, and what free and resize do with the node.       *)

\* Slip: a free node is found as well.
HasAny(i) == nodes[i].para = req.para

Has(i) == nodes[i].in_use /\ nodes[i].para = req.para

Found(i) == i \in DOMAIN nodes /\ Has(i) /\ \A j \in 1..(i - 1) : ~Has(j)

NotFound ==
  /\ pc = "find"
  /\ \A i \in DOMAIN nodes : ~Has(i)
  /\ UNCHANGED nodes
  /\ Return("mba", ret.ptr)

\* Node i of the list s is in use no longer.
Drop(s, i) == [s EXCEPT ![i].in_use = FALSE]

Free(i) ==
  /\ pc = "find"
  /\ req.op = "free"
  /\ Found(i)
  /\ nodes' = Drop(nodes, i)
  /\ Return("none", ret.ptr)

Resizing(i) == pc = "find" /\ req.op = "resize" /\ Found(i)

Wanted(i) == req.size - nodes[i].size      \* size_diff

\* Slips: the next node stays where it is, keeps its size, or does not wrap.
GrowNextStays(s, i, n) ==
  [s EXCEPT ![i].size = n, ![i+1].size = @ - (n - s[i].size)]

GrowNextKeeps(s, i, n) ==
  [s EXCEPT ![i].size = n, ![i+1].para = (@ + (n - s[i].size)) % Total]

GrowNoWrap(s, i, n) ==
  [s EXCEPT ![i].size = n,
            ![i+1].size = @ - (n - s[i].size),
            ![i+1].para = @ + (n - s[i].size)]

\* Node i of the list s grows to n paragraphs, taking the first ones of the
\* node after it, whose uint16 paragraph may wrap.
Grow(s, i, n) ==
  [s EXCEPT ![i].size = n,
            ![i+1].size = @ - (n - s[i].size),
            ![i+1].para = (@ + (n - s[i].size)) % Total]

HasRoom(i) == ~nodes[i+1].in_use /\ Wanted(i) <= nodes[i+1].size

\* Growing the last node of the list reads list->next->in_use through NULL.
ResizeCrash(i) ==
  /\ Resizing(i)
  /\ Wanted(i) > 0
  /\ i = Len(nodes)
  /\ pc' = "crashed"
  /\ UNCHANGED <<nodes, cur, req, ret>>

ResizeNoRoom(i) ==
  /\ Resizing(i)
  /\ Wanted(i) > 0
  /\ i < Len(nodes)
  /\ ~HasRoom(i)
  /\ UNCHANGED nodes
  /\ Return("oom", ret.ptr)

ResizeGrow(i) ==
  /\ Resizing(i)
  /\ Wanted(i) > 0
  /\ i < Len(nodes)
  /\ HasRoom(i)
  /\ nodes' = Grow(nodes, i, req.size)
  /\ Return("none", ret.ptr)

\* The paragraphs given back by a shrink join no node.
ResizeShrink(i) ==
  /\ Resizing(i)
  /\ Wanted(i) <= 0
  /\ nodes' = [nodes EXCEPT ![i].size = req.size]
  /\ Return("none", ret.ptr)

-----------------------------------------------------------------------------

\* bios_mem_finish frees every node when the emulator shuts down.
Finish ==
  /\ pc = "idle"
  /\ nodes' = << >>
  /\ pc' = "finished"
  /\ UNCHANGED <<cur, req, ret>>

Condense == CondenseMerge \/ CondenseAdvance \/ CondenseDone

Resize(i) == ResizeCrash(i) \/ ResizeNoRoom(i) \/ ResizeGrow(i) \/ ResizeShrink(i)

\* The steps the allocator takes by itself once it has been called.
Step ==
  \/ Condense
  \/ AllocFail
  \/ NotFound
  \/ \E i \in DOMAIN nodes : AllocFit(i) \/ Free(i) \/ Resize(i)

Next == Step \/ (\E r \in Calls : Call(r)) \/ Finish

Spec == Init /\ [][Next]_vars

\* The emulator's thread never stops inside a handler; the program it runs
\* need not call again.
FairSpec == Spec /\ WF_vars(Step)

-----------------------------------------------------------------------------

\* Every variable keeps to the values its C type can hold, the list is empty
\* only after bios_mem_finish, and the loop's position is in the list.
TypeOK ==
  /\ nodes \in Seq(Node)
  /\ pc \in {"idle", "condense", "search", "find", "crashed", "finished"}
  /\ cur \in Nat
  /\ req \in Request
  /\ ret \in Reply
  /\ pc # "finished" => Len(nodes) > 0
  /\ IF pc = "condense" THEN cur \in 1..Len(nodes) ELSE cur = 1
  /\ pc \in {"idle", "finished"} => req = NoReq
  /\ pc = "condense" => req.op \in {"alloc", "resize"}
  /\ pc = "search" => req.op = "alloc"
  /\ pc = "find" => req.op \in {"free", "resize"}
  /\ pc = "crashed" => req.op = "resize"

Cells(i) == nodes[i].para .. (nodes[i].para + nodes[i].size - 1)

\* No paragraph of the arena belongs to two nodes of the list, allocated or
\* free, and none lies beyond the arena's end: whatever calls the program
\* makes, and however often nodes were split, merged, grown, shrunk or wrapped,
\* two blocks handed out never share memory.
NoOverlap ==
  /\ \A i \in DOMAIN nodes : Cells(i) \subseteq Para
  /\ \A i, j \in DOMAIN nodes : i # j => Cells(i) \intersect Cells(j) = {}

FreeCells == UNION { Cells(i) : i \in { k \in DOMAIN nodes : ~nodes[k].in_use } }

\* n free paragraphs from p on, with no empty block's handle among them.
FreeRun(p, n) ==
  /\ n > 0
  /\ p..(p + n - 1) \subseteq FreeCells
  /\ \A i \in DOMAIN nodes : nodes[i].in_use => nodes[i].para \notin (p + 1)..(p + n - 1)

\* bios_mem_alloc answers "out of memory" only if no run of free paragraphs is
\* long enough, however the free nodes that make up the run came about.
OomOnlyWhenFull ==
  [][AllocFail => \A p \in Para : ~FreeRun(p, req.size)]_vars

TotalSize == FoldFunction(LAMBDA n, sum : n.size + sum, 0, nodes)

\* Only a shrink loses paragraphs: splitting, merging, growing and freeing
\* leave the paragraphs in the list what they were, so a program that never
\* shrinks a block can always get back everything it freed.
SizesConserved ==
  [][ \/ TotalSize' = TotalSize
      \/ \E i \in DOMAIN nodes : Resizing(i) /\ Wanted(i) < 0
      \/ pc' = "finished" ]_vars

\* The allocator keeps the promise of DosHeap.
ImplementsHeap == Heap!HeapSpec

\* Every call returns, or dies on the last node of the list: the condensing
\* loop cannot go on for ever although a merge leaves it where it is.
CallReturns == req # NoReq ~> (pc \in {"idle", "crashed"})

\* The README lists AH=4Ah among the supported routines: no call may take the
\* emulator down.
NoCrash == pc # "crashed"
=============================================================================
