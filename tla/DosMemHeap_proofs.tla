-------------------------- MODULE DosMemHeap_proofs --------------------------
(***************************************************************************)
(* The allocator implements DosHeap: mapped to the set of its blocks in    *)
(* use, every step of the node list is a step of the abstract heap or      *)
(* changes nothing the heap shows.  The invariant of DosMem_proofs is what *)
(* makes the blocks of the set disjoint and a block's place in the list    *)
(* its only place.                                                         *)
(***************************************************************************)
EXTENDS DosMem_proofs

\* The block a node stands for.
BlockOf(nd) == [para |-> nd.para, size |-> nd.size]

-----------------------------------------------------------------------------
(* How the blocks in use of a list change with the list.                   *)

\* Node i of s is the place of the block b in Live(s), or of the handle p in
\* Empty(s).
LivePos(s, i, b) == s[i].in_use /\ s[i].size > 0 /\ b = BlockOf(s[i])
EmptyPos(s, i, p) == s[i].in_use /\ s[i].size = 0 /\ p = s[i].para

LEMMA LiveMembers ==
  ASSUME NEW s \in Seq(Node)
  PROVE  /\ \A b : b \in Live(s) <=> \E i \in 1..Len(s) : LivePos(s, i, b)
         /\ \A p : p \in Empty(s) <=> \E i \in 1..Len(s) : EmptyPos(s, i, p)
<1>1. DOMAIN s = 1..Len(s)
  BY LenProperties
<1> QED BY <1>1 DEF Live, Empty, BlockOf, LivePos, EmptyPos

\* Two lists with the same nodes in use have the same blocks.
LEMMA SameInUse ==
  ASSUME NEW s \in Seq(Node), NEW t \in Seq(Node),
         \A i \in 1..Len(s) : s[i].in_use => \E j \in 1..Len(t) : t[j] = s[i],
         \A j \in 1..Len(t) : t[j].in_use => \E i \in 1..Len(s) : s[i] = t[j]
  PROVE  Live(t) = Live(s) /\ Empty(t) = Empty(s)
<1>1. ASSUME NEW b PROVE b \in Live(t) <=> b \in Live(s)
  <2>1. ASSUME NEW i \in 1..Len(s), LivePos(s, i, b)
        PROVE  \E j \in 1..Len(t) : LivePos(t, j, b)
    BY <2>1 DEF LivePos
  <2>2. ASSUME NEW j \in 1..Len(t), LivePos(t, j, b)
        PROVE  \E i \in 1..Len(s) : LivePos(s, i, b)
    BY <2>2 DEF LivePos
  <2> QED BY <2>1, <2>2, LiveMembers
<1>2. ASSUME NEW p PROVE p \in Empty(t) <=> p \in Empty(s)
  <2>1. ASSUME NEW i \in 1..Len(s), EmptyPos(s, i, p)
        PROVE  \E j \in 1..Len(t) : EmptyPos(t, j, p)
    BY <2>1 DEF EmptyPos
  <2>2. ASSUME NEW j \in 1..Len(t), EmptyPos(t, j, p)
        PROVE  \E i \in 1..Len(s) : EmptyPos(s, i, p)
    BY <2>2 DEF EmptyPos
  <2> QED BY <2>1, <2>2, LiveMembers
<1> QED BY <1>1, <1>2

\* A list that has the nodes in use of s and one more at position c.
LEMMA OneMore ==
  ASSUME NEW s \in Seq(Node), NEW t \in Seq(Node), NEW c \in 1..Len(t),
         t[c].in_use,
         \A i \in 1..Len(s) : s[i].in_use => \E j \in 1..Len(t) : j # c /\ t[j] = s[i],
         \A j \in 1..Len(t) : t[j].in_use /\ j # c => \E i \in 1..Len(s) : s[i] = t[j]
  PROVE  /\ t[c].size > 0 => /\ Live(t) = Live(s) \union {BlockOf(t[c])}
                             /\ Empty(t) = Empty(s)
         /\ t[c].size = 0 => /\ Live(t) = Live(s)
                             /\ Empty(t) = Empty(s) \union {t[c].para}
<1>1. ASSUME NEW b
      PROVE  b \in Live(t) <=> b \in Live(s) \/ LivePos(t, c, b)
  <2>1. ASSUME NEW i \in 1..Len(s), LivePos(s, i, b)
        PROVE  \E j \in 1..Len(t) : LivePos(t, j, b)
    BY <2>1 DEF LivePos
  <2>2. ASSUME NEW j \in 1..Len(t), LivePos(t, j, b), j # c
        PROVE  \E i \in 1..Len(s) : LivePos(s, i, b)
    BY <2>2 DEF LivePos
  <2> QED BY <2>1, <2>2, LiveMembers
<1>2. ASSUME NEW p
      PROVE  p \in Empty(t) <=> p \in Empty(s) \/ EmptyPos(t, c, p)
  <2>1. ASSUME NEW i \in 1..Len(s), EmptyPos(s, i, p)
        PROVE  \E j \in 1..Len(t) : EmptyPos(t, j, p)
    BY <2>1 DEF EmptyPos
  <2>2. ASSUME NEW j \in 1..Len(t), EmptyPos(t, j, p), j # c
        PROVE  \E i \in 1..Len(s) : EmptyPos(s, i, p)
    BY <2>2 DEF EmptyPos
  <2> QED BY <2>1, <2>2, LiveMembers
<1>3. t[c].size \in Nat
  BY NodeFields
<1>4. ASSUME t[c].size > 0
      PROVE  Live(t) = Live(s) \union {BlockOf(t[c])} /\ Empty(t) = Empty(s)
  <2>1. t[c].size # 0
    BY <1>3, <1>4
  <2>2. \A b : b \in Live(t) <=> b \in Live(s) \/ b = BlockOf(t[c])
    BY <1>1, <1>4 DEF LivePos
  <2>3. \A p : p \in Empty(t) <=> p \in Empty(s)
    BY <1>2, <2>1 DEF EmptyPos
  <2> QED BY <2>2, <2>3
<1>5. ASSUME t[c].size = 0
      PROVE  Live(t) = Live(s) /\ Empty(t) = Empty(s) \union {t[c].para}
  <2>1. ~(t[c].size > 0)
    BY <1>5
  <2>2. \A b : b \in Live(t) <=> b \in Live(s)
    BY <1>1, <2>1 DEF LivePos
  <2>3. \A p : p \in Empty(t) <=> p \in Empty(s) \/ p = t[c].para
    BY <1>2, <1>5 DEF EmptyPos
  <2> QED BY <2>2, <2>3
<1> QED BY <1>4, <1>5

\* In a sound list two non-empty nodes lie apart.
LEMMA NodesApart ==
  ASSUME NEW s, Sound(s), NEW i \in 1..Len(s), NEW j \in 1..Len(s), i # j,
         s[i].size > 0, s[j].size > 0
  PROVE  \/ s[i].para + s[i].size <= s[j].para
         \/ s[j].para + s[j].size <= s[i].para
<1>1. Len(s) \in Nat /\ i \in Nat /\ j \in Nat
  BY LenProperties DEF Sound
<1>2. CASE i < j
  <2>1. ~Spent(s, j)
    BY <1>1 DEF Spent
  <2> QED BY <1>2, <2>1 DEF Sound, Ordered
<1>3. CASE j < i
  <2>1. ~Spent(s, i)
    BY <1>1 DEF Spent
  <2> QED BY <1>3, <2>1 DEF Sound, Ordered
<1> QED BY <1>1, <1>2, <1>3

\* The node at c is the only one in use for its block.
LEMMA BlockIsUnique ==
  ASSUME NEW s, Sound(s), NEW c \in 1..Len(s), NEW j \in 1..Len(s), j # c,
         s[c].size > 0, BlockOf(s[j]) = BlockOf(s[c])
  PROVE  FALSE
<1>1. s[j].para = s[c].para /\ s[j].size = s[c].size
  BY DEF BlockOf
<1>2. s[c].para \in Nat /\ s[c].size \in Nat
  BY NodeFields DEF Sound
<1>3. s[c].para + s[c].size <= s[c].para
  BY <1>1, NodesApart
<1> QED BY <1>2, <1>3

\* What taking the node in use at c out of use does to the blocks.
LEMMA OneLess ==
  ASSUME NEW s, Sound(s), NEW c \in 1..Len(s), s[c].in_use
  PROVE  /\ Drop(s, c) \in Seq(Node) /\ Len(Drop(s, c)) = Len(s)
         /\ ~Drop(s, c)[c].in_use
         /\ \A j \in 1..Len(s) : j # c => Drop(s, c)[j] = s[j]
         /\ s[c].size > 0 => /\ Live(Drop(s, c)) = Live(s) \ {BlockOf(s[c])}
                             /\ BlockOf(s[c]) \in Live(s)
                             /\ Empty(Drop(s, c)) = Empty(s)
         /\ s[c].size = 0 => /\ Live(Drop(s, c)) = Live(s)
                             /\ s[c].para \in Empty(s)
                             /\ Empty(Drop(s, c)) \in {Empty(s), Empty(s) \ {s[c].para}}
<1> DEFINE u == Drop(s, c)
           m == [s[c] EXCEPT !.in_use = FALSE]
<1>0. s \in Seq(Node) /\ s[c] \in Node /\ s[c].size \in Nat
  BY NodeFields DEF Sound
<1>1. m \in Node /\ ~m.in_use
  BY <1>0 DEF Node
<1>2. u = [s EXCEPT ![c] = m]
  BY DEF Drop
<1> HIDE DEF m, u
<1>3. /\ u \in Seq(Node) /\ Len(u) = Len(s)
      /\ \A j \in 1..Len(s) : u[j] = IF j = c THEN m ELSE s[j]
  BY <1>0, <1>1, <1>2, ExceptSeq
<1>4. /\ ~u[c].in_use
      /\ \A j \in 1..Len(s) : j # c => u[j] = s[j]
  BY <1>1, <1>3
<1>a. \A b : b \in Live(s) <=> \E i \in 1..Len(s) : LivePos(s, i, b)
  BY <1>0, LiveMembers
<1>b. \A b : b \in Live(u) <=> \E i \in 1..Len(s) : LivePos(u, i, b)
  BY <1>3, LiveMembers
<1>c. \A p : p \in Empty(s) <=> \E i \in 1..Len(s) : EmptyPos(s, i, p)
  BY <1>0, LiveMembers
<1>d. \A p : p \in Empty(u) <=> \E i \in 1..Len(s) : EmptyPos(u, i, p)
  BY <1>3, LiveMembers
<1>5. ASSUME s[c].size > 0
      PROVE  /\ Live(u) = Live(s) \ {BlockOf(s[c])}
             /\ BlockOf(s[c]) \in Live(s)
             /\ Empty(u) = Empty(s)
  <2>1. BlockOf(s[c]) \in Live(s)
    BY <1>5, <1>a DEF LivePos
  <2>2. ASSUME NEW b, NEW j \in 1..Len(s)
        PROVE  LivePos(u, j, b) <=> LivePos(s, j, b) /\ b # BlockOf(s[c])
    <3>1. CASE j = c
      BY <1>4, <3>1 DEF LivePos
    <3>2. CASE j # c
      <4>1. BlockOf(s[j]) # BlockOf(s[c])
        BY <1>5, <3>2, BlockIsUnique
      <4> QED BY <1>4, <3>2, <4>1 DEF LivePos
    <3> QED BY <3>1, <3>2
  <2>3. ASSUME NEW p, NEW j \in 1..Len(s)
        PROVE  EmptyPos(u, j, p) <=> EmptyPos(s, j, p)
    <3>1. s[c].size # 0
      BY <1>0, <1>5
    <3> QED BY <1>4, <3>1 DEF EmptyPos
  <2>4. \A b : b \in Live(u) <=> b \in Live(s) /\ b # BlockOf(s[c])
    BY <1>a, <1>b, <2>2
  <2>5. \A p : p \in Empty(u) <=> p \in Empty(s)
    BY <1>c, <1>d, <2>3
  <2> QED BY <2>1, <2>4, <2>5
<1>6. ASSUME s[c].size = 0
      PROVE  /\ Live(u) = Live(s)
             /\ s[c].para \in Empty(s)
             /\ Empty(u) \in {Empty(s), Empty(s) \ {s[c].para}}
  <2>1. s[c].para \in Empty(s)
    BY <1>6, <1>c DEF EmptyPos
  <2>2. ASSUME NEW b, NEW j \in 1..Len(s)
        PROVE  LivePos(u, j, b) <=> LivePos(s, j, b)
    <3>1. ~(s[c].size > 0)
      BY <1>6
    <3> QED BY <1>4, <3>1 DEF LivePos
  <2>3. ASSUME NEW p, p # s[c].para, NEW j \in 1..Len(s)
        PROVE  EmptyPos(u, j, p) <=> EmptyPos(s, j, p)
    BY <1>4, <2>3 DEF EmptyPos
  <2>4. \A b : b \in Live(u) <=> b \in Live(s)
    BY <1>a, <1>b, <2>2
  <2>5. \A p : p # s[c].para => (p \in Empty(u) <=> p \in Empty(s))
    BY <1>c, <1>d, <2>3
  <2>6. CASE s[c].para \in Empty(u)
    <3>1. Empty(u) = Empty(s)
      BY <2>1, <2>5, <2>6
    <3> QED BY <2>1, <2>4, <3>1
  <2>7. CASE s[c].para \notin Empty(u)
    <3>1. Empty(u) = Empty(s) \ {s[c].para}
      BY <2>1, <2>5, <2>7
    <3> QED BY <2>1, <2>4, <3>1
  <2> QED BY <2>6, <2>7
<1> QED BY <1>3, <1>4, <1>5, <1>6 DEF u

\* Merging two free nodes leaves the blocks in use what they were.
LEMMA MergeBlocks ==
  ASSUME NEW s, Sound(s), NEW c \in 1..Len(s), c < Len(s),
         s[c].para + s[c].size = s[c+1].para, ~s[c].in_use, ~s[c+1].in_use
  PROVE  Live(Merge(s, c)) = Live(s) /\ Empty(Merge(s, c)) = Empty(s)
<1> DEFINE t == Merge(s, c)
<1>1. /\ Sound(t) /\ Len(t) = Len(s) - 1
      /\ \A k \in 1..(c - 1) : t[k] = s[k]
      /\ ~t[c].in_use
      /\ \A k \in (c + 1)..Len(t) : t[k] = s[k+1]
  BY MergeSound
<1> HIDE DEF t
<1>2. /\ s \in Seq(Node) /\ t \in Seq(Node)
      /\ Len(s) \in Nat /\ c \in Nat
  BY <1>1, LenProperties DEF Sound
<1>3. ASSUME NEW i \in 1..Len(s), s[i].in_use
      PROVE  \E j \in 1..Len(t) : t[j] = s[i]
  <2>1. CASE i < c
    <3>1. i \in 1..(c - 1) /\ i \in 1..Len(t)
      BY <1>1, <1>2, <2>1
    <3> QED BY <1>1, <3>1
  <2>2. CASE i > c + 1
    <3>1. i - 1 \in (c + 1)..Len(t) /\ i - 1 \in 1..Len(t) /\ (i - 1) + 1 = i
      BY <1>1, <1>2, <2>2
    <3>2. t[i-1] = s[i]
      BY <1>1, <3>1
    <3> QED BY <3>1, <3>2
  <2> QED BY <1>2, <1>3, <2>1, <2>2
<1>4. ASSUME NEW j \in 1..Len(t), t[j].in_use
      PROVE  \E i \in 1..Len(s) : s[i] = t[j]
  <2>1. CASE j < c
    <3>1. j \in 1..(c - 1) /\ j \in 1..Len(s)
      BY <1>1, <1>2, <2>1
    <3> QED BY <1>1, <3>1
  <2>2. CASE j > c
    <3>1. j \in (c + 1)..Len(t) /\ j + 1 \in 1..Len(s)
      BY <1>1, <1>2, <2>2
    <3> QED BY <1>1, <3>1
  <2> QED BY <1>1, <1>2, <1>4, <2>1, <2>2
<1>5. Live(t) = Live(s) /\ Empty(t) = Empty(s)
  BY <1>2, <1>3, <1>4, SameInUse
<1> QED BY <1>5 DEF t

-----------------------------------------------------------------------------
(* From the list to the actions of DosHeap.                                *)

\* The node at c of the new list is a block DosHeap may place among the blocks
\* of s.
LEMMA PlaceOne ==
  ASSUME NEW s \in Seq(Node), Sound(nodes'), NEW c \in 1..Len(nodes'),
         nodes'[c].in_use,
         \A i \in 1..Len(s) : s[i].in_use =>
            \E j \in 1..Len(nodes') : j # c /\ nodes'[j] = s[i],
         \A j \in 1..Len(nodes') : nodes'[j].in_use /\ j # c =>
            \E i \in 1..Len(s) : s[i] = nodes'[j]
  PROVE  Heap!Place(nodes'[c].para, nodes'[c].size, Live(s), Empty(s))
<1> DEFINE t == nodes'
<1>0. t \in Seq(Node) /\ t[c].size \in Nat /\ t[c].para \in Nat
  BY NodeFields DEF Sound
<1>1. /\ t[c].size > 0 => /\ Live(t) = Live(s) \union {BlockOf(t[c])}
                          /\ Empty(t) = Empty(s)
      /\ t[c].size = 0 => /\ Live(t) = Live(s)
                          /\ Empty(t) = Empty(s) \union {t[c].para}
  BY <1>0, OneMore
<1>2. ASSUME t[c].size > 0, NEW o \in Live(s)
      PROVE  Heap!Apart(BlockOf(t[c]), o)
  <2>1. PICK i \in 1..Len(s) : LivePos(s, i, o)
    BY LiveMembers
  <2>2. PICK j \in 1..Len(t) : j # c /\ t[j] = s[i]
    BY <2>1 DEF LivePos
  <2>3. t[j].size > 0 /\ o = BlockOf(t[j])
    BY <2>1, <2>2 DEF LivePos
  <2>4. \/ t[c].para + t[c].size <= t[j].para
        \/ t[j].para + t[j].size <= t[c].para
    BY <1>2, <2>2, <2>3, NodesApart
  <2> HIDE DEF t
  <2> QED BY <2>3, <2>4 DEF Heap!Apart, BlockOf
<1>3. t[c].para + t[c].size <= Total
  BY DEF Sound, Bounded
<1>4. CASE t[c].size > 0
  <2> HIDE DEF t
  <2>1. [para |-> t[c].para, size |-> t[c].size] = BlockOf(t[c])
    BY DEF BlockOf
  <2> USE DEF t
  <2>2. Live(nodes') = Live(s) \union {BlockOf(nodes'[c])} /\ Empty(nodes') = Empty(s)
    BY <1>1, <1>4
  <2> QED BY <1>2, <1>3, <1>4, <2>1, <2>2 DEF Heap!Place
<1>5. CASE t[c].size = 0
  BY <1>1, <1>5 DEF Heap!Place
<1> QED BY <1>0, <1>4, <1>5

\* The node found for the request is a block or a handle DosHeap knows.
LEMMA FoundIsKnown ==
  ASSUME IInv, NEW i \in DOMAIN nodes, Found(i)
  PROVE  /\ i \in 1..Len(nodes) /\ nodes[i].in_use /\ nodes[i].para = req.para
         /\ nodes[i].size \in Nat
         /\ nodes[i].size > 0 => /\ BlockOf(nodes[i]) \in Live(nodes)
                                 /\ BlockOf(nodes[i]).para = req.para
         /\ nodes[i].size = 0 => req.para \in Empty(nodes)
<1>1. i \in 1..Len(nodes) /\ nodes \in Seq(Node) /\ nodes[i].size \in Nat
  BY StateFacts, NodeFields
<1>2. nodes[i].in_use /\ nodes[i].para = req.para
  BY DEF Found, Has
<1>3. nodes[i].size > 0 => LivePos(nodes, i, BlockOf(nodes[i]))
  BY <1>2 DEF LivePos
<1>4. nodes[i].size = 0 => EmptyPos(nodes, i, req.para)
  BY <1>2 DEF EmptyPos
<1>5. BlockOf(nodes[i]).para = nodes[i].para
  BY DEF BlockOf
<1> QED BY <1>1, <1>2, <1>3, <1>4, <1>5, LiveMembers

\* A resize that puts the node found back with its new size is DosHeap's.
LEMMA ResizeRefines ==
  ASSUME IInv, Sound(nodes'), NEW i \in DOMAIN nodes, Resizing(i),
         Return("none", ret.ptr),
         Len(nodes') = Len(nodes),
         nodes'[i].in_use, nodes'[i].para = nodes[i].para, nodes'[i].size = req.size,
         \A j \in 1..Len(nodes) :
           j # i => \/ nodes'[j] = nodes[j]
                    \/ ~nodes'[j].in_use /\ ~nodes[j].in_use
  PROVE  Heap!HeapResize
<1> DEFINE u == Drop(nodes, i)
<1>0. /\ i \in 1..Len(nodes) /\ nodes[i].in_use /\ nodes[i].para = req.para
      /\ nodes[i].size \in Nat
      /\ nodes[i].size > 0 => /\ BlockOf(nodes[i]) \in Live(nodes)
                              /\ BlockOf(nodes[i]).para = req.para
      /\ nodes[i].size = 0 => req.para \in Empty(nodes)
  BY FoundIsKnown DEF Resizing
<1>1. /\ u \in Seq(Node) /\ Len(u) = Len(nodes)
      /\ ~u[i].in_use
      /\ \A j \in 1..Len(nodes) : j # i => u[j] = nodes[j]
      /\ nodes[i].size > 0 => /\ Live(u) = Live(nodes) \ {BlockOf(nodes[i])}
                              /\ Empty(u) = Empty(nodes)
      /\ nodes[i].size = 0 => /\ Live(u) = Live(nodes)
                              /\ Empty(u) \in {Empty(nodes), Empty(nodes) \ {nodes[i].para}}
  BY <1>0, OneLess DEF IInv
<1> HIDE DEF u
<1>2. Heap!Place(req.para, req.size, Live(u), Empty(u))
  <2>1. ASSUME NEW k \in 1..Len(u), u[k].in_use
        PROVE  \E j \in 1..Len(nodes') : j # i /\ nodes'[j] = u[k]
    <3>1. k # i /\ u[k] = nodes[k] /\ k \in 1..Len(nodes')
      BY <1>1, <2>1
    <3>2. nodes'[k] = u[k]
      BY <1>1, <2>1, <3>1
    <3> QED BY <3>1, <3>2
  <2>2. ASSUME NEW j \in 1..Len(nodes'), nodes'[j].in_use, j # i
        PROVE  \E k \in 1..Len(u) : u[k] = nodes'[j]
    BY <1>1, <2>2
  <2>3. Heap!Place(nodes'[i].para, nodes'[i].size, Live(u), Empty(u))
    BY <1>0, <1>1, <2>1, <2>2, PlaceOne
  <2> QED BY <1>0, <2>3
<1>3. Heap!Return("none", ret.ptr) /\ req.op = "resize"
  BY DEF Return, Heap!Return, NoReq, Heap!NoReq, Resizing
<1>4. CASE nodes[i].size > 0
  <2>1. Heap!Place(req.para, req.size, Live(nodes) \ {BlockOf(nodes[i])}, Empty(nodes))
    BY <1>1, <1>2, <1>4
  <2> QED BY <1>0, <1>3, <1>4, <2>1 DEF Heap!HeapResize
<1>5. CASE nodes[i].size = 0
  <2>1. Empty(u) \in {Empty(nodes), Empty(nodes) \ {req.para}} /\ Live(u) = Live(nodes)
    BY <1>0, <1>1, <1>5
  <2> QED BY <1>0, <1>2, <1>3, <1>5, <2>1 DEF Heap!HeapResize
<1> QED BY <1>0, <1>4, <1>5

\* Every step of the list is a step of the heap, or changes nothing it shows.
THEOREM StepRefines == IInv /\ IInv' /\ [Next]_vars => [Heap!HeapNext]_(Heap!heapVars)
<1> SUFFICES ASSUME IInv, IInv', [Next]_vars
             PROVE  [Heap!HeapNext]_(Heap!heapVars)
  OBVIOUS
<1>s. /\ nodes \in Seq(Node) /\ DOMAIN nodes = 1..Len(nodes)
      /\ Len(nodes) \in Nat
      /\ req.size \in Size /\ req.size \in Nat
      /\ ret.ptr \in Para
      /\ Sound(nodes')
  BY StateFacts DEF IInv
<1>r. ASSUME NEW e, NEW p, Return(e, p) PROVE Heap!Return(e, p)
  BY <1>r DEF Return, Heap!Return, NoReq, Heap!NoReq
<1>1. ASSUME NEW r \in Calls, Call(r) PROVE Heap!HeapCall
  <2>1. nodes' = nodes /\ ret' = ret /\ req' = r /\ req = NoReq
    BY <1>1 DEF Call, IInv, TypeOK
  <2>2. r \in Heap!Calls /\ req = Heap!NoReq
    BY <2>1 DEF Calls, Heap!Calls, NoReq, Heap!NoReq, AllocReq, Heap!AllocReq,
                FreeReq, Heap!FreeReq, ResizeReq, Heap!ResizeReq,
                Size, Heap!Size, Para, Heap!Para
  <2> QED BY <2>1, <2>2 DEF Heap!HeapCall
<1>2. CASE Condense
  <2>1. Live(nodes') = Live(nodes) /\ Empty(nodes') = Empty(nodes)
    <3>1. CASE CondenseMerge
      <4>1. /\ cur \in 1..Len(nodes) /\ cur < Len(nodes)
            /\ nodes[cur].para + nodes[cur].size = nodes[cur+1].para
            /\ ~nodes[cur].in_use /\ ~nodes[cur+1].in_use
            /\ nodes' = Merge(nodes, cur)
        BY <3>1 DEF CondenseMerge, Mergeable, IInv, TypeOK
      <4> QED BY <4>1, MergeBlocks DEF IInv
    <3>2. CASE CondenseAdvance \/ CondenseDone
      BY <3>2 DEF CondenseAdvance, CondenseDone
    <3> QED BY <1>2, <3>1, <3>2 DEF Condense
  <2>2. req' = req /\ ret' = ret
    BY <1>2 DEF Condense, CondenseMerge, CondenseAdvance, CondenseDone
  <2> QED BY <2>1, <2>2 DEF Heap!heapVars
<1>3. ASSUME NEW i \in DOMAIN nodes, AllocFit(i) PROVE Heap!HeapAlloc
  <2>0. /\ i \in 1..Len(nodes) /\ i \in Nat /\ nodes[i] \in Node
        /\ nodes[i].para \in Para /\ nodes[i].size \in Nat
        /\ ~nodes[i].in_use /\ req.size <= nodes[i].size
        /\ Return("none", nodes[i].para) /\ req.op = "alloc"
    BY <1>3, <1>s, StateFacts, NodeFields
       DEF AllocFit, FirstFit, Fits, Node, IInv, TypeOK
  <2>1. /\ i \in 1..Len(nodes') /\ nodes'[i].in_use
        /\ nodes'[i].para = nodes[i].para /\ nodes'[i].size = req.size
        /\ \A k \in 1..Len(nodes) : nodes[k].in_use =>
             \E j \in 1..Len(nodes') : j # i /\ nodes'[j] = nodes[k]
        /\ \A j \in 1..Len(nodes') : nodes'[j].in_use /\ j # i =>
             \E k \in 1..Len(nodes) : nodes[k] = nodes'[j]
    <3>1. CASE req.size < nodes[i].size
      <4>0. Sound(nodes) /\ i \in 1..Len(nodes) /\ req.size \in Size
        BY <1>s, <2>0 DEF IInv
      <4>1. /\ Len(Split(nodes, i, req.size)) = Len(nodes) + 1
            /\ \A k \in 1..(i - 1) : Split(nodes, i, req.size)[k] = nodes[k]
            /\ Split(nodes, i, req.size)[i].para = nodes[i].para
            /\ Split(nodes, i, req.size)[i].size = req.size
            /\ Split(nodes, i, req.size)[i].in_use
            /\ ~Split(nodes, i, req.size)[i+1].in_use
            /\ \A k \in (i + 2)..Len(Split(nodes, i, req.size)) :
                 Split(nodes, i, req.size)[k] = nodes[k-1]
        BY <3>1, <4>0, SplitSound
      <4> DEFINE t == nodes'
      <4>2. /\ Len(t) = Len(nodes) + 1
            /\ \A k \in 1..(i - 1) : t[k] = nodes[k]
            /\ t[i].para = nodes[i].para
            /\ t[i].size = req.size
            /\ t[i].in_use
            /\ ~t[i+1].in_use
            /\ \A k \in (i + 2)..Len(t) : t[k] = nodes[k-1]
        <5>1. nodes' = Split(nodes, i, req.size)
          BY <1>3, <3>1 DEF AllocFit
        <5> QED BY <4>1, <5>1
      <4> HIDE DEF t
      <4>3. ASSUME NEW k \in 1..Len(nodes), nodes[k].in_use
            PROVE  \E j \in 1..Len(t) : j # i /\ t[j] = nodes[k]
        <5>1. CASE k < i
          <6>1. k \in 1..(i - 1) /\ k \in 1..Len(t) /\ k # i
            BY <1>s, <2>0, <4>2, <5>1
          <6> QED BY <4>2, <6>1
        <5>2. CASE k > i
          <6>1. k + 1 \in (i + 2)..Len(t) /\ k + 1 \in 1..Len(t) /\ k + 1 # i
                /\ (k + 1) - 1 = k
            BY <1>s, <2>0, <4>2, <5>2
          <6>2. t[k+1] = nodes[k]
            BY <4>2, <6>1
          <6> QED BY <6>1, <6>2
        <5> QED BY <1>s, <2>0, <4>3, <5>1, <5>2
      <4>4. ASSUME NEW j \in 1..Len(t), t[j].in_use, j # i
            PROVE  \E k \in 1..Len(nodes) : nodes[k] = t[j]
        <5>1. CASE j < i
          <6>1. j \in 1..(i - 1) /\ j \in 1..Len(nodes)
            BY <1>s, <2>0, <4>2, <5>1
          <6> QED BY <4>2, <6>1
        <5>2. CASE j > i + 1
          <6>1. j \in (i + 2)..Len(t) /\ j - 1 \in 1..Len(nodes)
            BY <1>s, <2>0, <4>2, <5>2
          <6> QED BY <4>2, <6>1
        <5>3. j # i + 1
          BY <4>2, <4>4
        <5> QED BY <1>s, <2>0, <4>2, <4>4, <5>1, <5>2, <5>3
      <4>5. i \in 1..Len(t)
        BY <1>s, <2>0, <4>2
      <4> QED BY <4>2, <4>3, <4>4, <4>5 DEF t
    <3>2. CASE ~(req.size < nodes[i].size)
      <4> DEFINE m == [nodes[i] EXCEPT !.in_use = TRUE]
      <4>1. nodes' = [nodes EXCEPT ![i] = m]
        BY <1>3, <3>2 DEF AllocFit, Take
      <4>2. m \in Node /\ m.in_use /\ m.para = nodes[i].para /\ m.size = nodes[i].size
        BY <2>0 DEF Node
      <4> HIDE DEF m
      <4>3. /\ Len(nodes') = Len(nodes)
            /\ \A j \in 1..Len(nodes) : nodes'[j] = IF j = i THEN m ELSE nodes[j]
        BY <1>s, <2>0, <4>1, <4>2, ExceptSeq
      <4>4. req.size = nodes[i].size
        BY <1>s, <2>0, <3>2
      <4>5. nodes'[i] = m
        BY <2>0, <4>3
      <4>6. \A k \in 1..Len(nodes) : nodes[k].in_use => k # i /\ nodes'[k] = nodes[k]
        BY <2>0, <4>3
      <4>7. \A j \in 1..Len(nodes) : j # i => nodes'[j] = nodes[j]
        BY <4>3
      <4> QED BY <2>0, <4>2, <4>3, <4>4, <4>5, <4>6, <4>7
    <3> QED BY <3>1, <3>2
  <2>2. Heap!Place(nodes'[i].para, nodes'[i].size, Live(nodes), Empty(nodes))
    BY <1>s, <2>1, PlaceOne
  <2>3. Heap!Place(nodes[i].para, req.size, Live(nodes), Empty(nodes))
    BY <2>1, <2>2
  <2>4. nodes[i].para \in Heap!Para /\ Heap!Return("none", nodes[i].para)
    BY <1>r, <2>0 DEF Para, Heap!Para
  <2> QED BY <2>0, <2>3, <2>4 DEF Heap!HeapAlloc
<1>4. CASE AllocFail
  <2>1. nodes' = nodes /\ Heap!Return("oom", ret.ptr) /\ req.op = "alloc"
    BY <1>4, <1>r DEF AllocFail, IInv, TypeOK
  <2> QED BY <2>1 DEF Heap!HeapNext, Heap!HeapAlloc, Heap!Refuse
<1>5. CASE NotFound
  <2>1. nodes' = nodes /\ Heap!Return("mba", ret.ptr) /\ req.op \in {"free", "resize"}
    BY <1>5, <1>r DEF NotFound, IInv, TypeOK
  <2>2. \A i \in 1..Len(nodes) : ~(nodes[i].in_use /\ nodes[i].para = req.para)
    BY <1>5, <1>s DEF NotFound, Has
  <2>3. req.para \notin Empty(nodes)
    BY <1>s, <2>2, LiveMembers DEF EmptyPos
  <2>4. ASSUME NEW b \in Live(nodes) PROVE b.para # req.para
    <3>1. PICK i \in 1..Len(nodes) : LivePos(nodes, i, b)
      BY <1>s, LiveMembers
    <3> QED BY <2>2, <3>1 DEF LivePos, BlockOf
  <2>5. ~Heap!Known(req.para)
    BY <2>3, <2>4 DEF Heap!Known
  <2> QED BY <2>1, <2>5 DEF Heap!HeapNext, Heap!HeapFree, Heap!HeapResize, Heap!Refuse
<1>6. ASSUME NEW i \in DOMAIN nodes, Free(i) PROVE Heap!HeapFree
  <2>1. /\ Found(i) /\ nodes' = Drop(nodes, i) /\ req.op = "free"
        /\ Heap!Return("none", ret.ptr)
    BY <1>6, <1>r DEF Free
  <2>2. /\ i \in 1..Len(nodes) /\ nodes[i].in_use /\ nodes[i].para = req.para
        /\ nodes[i].size \in Nat
        /\ nodes[i].size > 0 => /\ BlockOf(nodes[i]) \in Live(nodes)
                                /\ BlockOf(nodes[i]).para = req.para
        /\ nodes[i].size = 0 => req.para \in Empty(nodes)
    BY <2>1, FoundIsKnown
  <2>3. /\ nodes[i].size > 0 => /\ Live(nodes') = Live(nodes) \ {BlockOf(nodes[i])}
                                /\ Empty(nodes') = Empty(nodes)
        /\ nodes[i].size = 0 => /\ Live(nodes') = Live(nodes)
                                /\ Empty(nodes') \in {Empty(nodes), Empty(nodes) \ {nodes[i].para}}
    BY <2>1, <2>2, OneLess DEF IInv
  <2>4. CASE nodes[i].size > 0
    BY <2>1, <2>2, <2>3, <2>4 DEF Heap!HeapFree
  <2>5. CASE nodes[i].size = 0
    BY <2>1, <2>2, <2>3, <2>5 DEF Heap!HeapFree
  <2> QED BY <2>2, <2>4, <2>5
<1>7. ASSUME NEW i \in DOMAIN nodes, ResizeCrash(i) PROVE UNCHANGED Heap!heapVars
  BY <1>7 DEF ResizeCrash, Heap!heapVars
<1>8. ASSUME NEW i \in DOMAIN nodes, ResizeNoRoom(i) PROVE Heap!HeapResize
  <2>1. /\ Found(i) /\ nodes' = nodes /\ Heap!Return("oom", ret.ptr) /\ req.op = "resize"
    BY <1>8, <1>r DEF ResizeNoRoom, Resizing
  <2>2. Heap!Known(req.para)
    BY <2>1, FoundIsKnown DEF Heap!Known
  <2> QED BY <2>1, <2>2 DEF Heap!HeapResize, Heap!Refuse
<1>9. ASSUME NEW i \in DOMAIN nodes, ResizeGrow(i) PROVE Heap!HeapResize
  <2>0. /\ Resizing(i) /\ Found(i) /\ Return("none", ret.ptr)
        /\ nodes' = Grow(nodes, i, req.size) /\ i < Len(nodes)
        /\ ~nodes[i+1].in_use
    BY <1>9 DEF ResizeGrow, Resizing, HasRoom
  <2>1. /\ i \in 1..Len(nodes) /\ nodes[i].in_use /\ nodes[i] \in Node
        /\ nodes[i].size \in Nat /\ i + 1 \in 1..Len(nodes) /\ nodes[i+1].size \in Nat
    BY <1>s, <2>0, FoundIsKnown, NodeFields
  <2>2. req.size > nodes[i].size /\ req.size - nodes[i].size <= nodes[i+1].size
    BY <1>9, <1>s, <2>1 DEF ResizeGrow, Wanted, HasRoom
  <2>3. /\ Len(nodes') = Len(nodes)
        /\ nodes'[i] = [nodes[i] EXCEPT !.size = req.size]
        /\ ~nodes'[i+1].in_use
        /\ \A k \in 1..Len(nodes) : k # i /\ k # i + 1 => nodes'[k] = nodes[k]
    <3>1. Sound(nodes) /\ i \in 1..Len(nodes) /\ i < Len(nodes) /\ req.size \in Size
      BY <1>s, <2>0, <2>1 DEF IInv
    <3>2. /\ Len(Grow(nodes, i, req.size)) = Len(nodes)
          /\ Grow(nodes, i, req.size)[i] = [nodes[i] EXCEPT !.size = req.size]
          /\ Grow(nodes, i, req.size)[i+1].in_use = nodes[i+1].in_use
          /\ \A k \in 1..Len(nodes) :
               k # i /\ k # i + 1 => Grow(nodes, i, req.size)[k] = nodes[k]
      BY <2>2, <3>1, GrowSound
    <3> QED BY <2>0, <3>2
  <2>4. /\ nodes'[i].in_use /\ nodes'[i].para = nodes[i].para
        /\ nodes'[i].size = req.size
    BY <2>1, <2>3 DEF Node
  <2>5. \A j \in 1..Len(nodes) :
          j # i => \/ nodes'[j] = nodes[j]
                   \/ ~nodes'[j].in_use /\ ~nodes[j].in_use
    BY <2>0, <2>3
  <2> QED BY <1>s, <2>0, <2>3, <2>4, <2>5, ResizeRefines
<1>10. ASSUME NEW i \in DOMAIN nodes, ResizeShrink(i) PROVE Heap!HeapResize
  <2> DEFINE m == [nodes[i] EXCEPT !.size = req.size]
  <2>0. /\ Resizing(i) /\ Found(i) /\ Return("none", ret.ptr)
        /\ nodes' = [nodes EXCEPT ![i] = m]
    BY <1>10 DEF ResizeShrink, Resizing
  <2>1. i \in 1..Len(nodes) /\ nodes[i].in_use /\ nodes[i] \in Node
    BY <1>s, <2>0, FoundIsKnown, NodeFields
  <2>2. m \in Node /\ m.in_use /\ m.para = nodes[i].para /\ m.size = req.size
    <3>1. req.size \in 0..Total
      BY <1>s, MemAssumption DEF Size
    <3> QED BY <2>1, <3>1 DEF Node
  <2> HIDE DEF m
  <2>3. /\ Len(nodes') = Len(nodes)
        /\ \A j \in 1..Len(nodes) : nodes'[j] = IF j = i THEN m ELSE nodes[j]
    BY <1>s, <2>0, <2>1, <2>2, ExceptSeq
  <2>4. nodes'[i] = m /\ \A j \in 1..Len(nodes) : j # i => nodes'[j] = nodes[j]
    BY <2>1, <2>3
  <2> QED BY <1>s, <2>0, <2>2, <2>3, <2>4, ResizeRefines
<1>11. CASE Finish
  <2>1. nodes' = << >> /\ req' = req /\ ret' = ret /\ req = NoReq
    BY <1>11 DEF Finish, IInv, TypeOK
  <2>2. Live(nodes') = {} /\ Empty(nodes') = {}
    BY <2>1 DEF Live, Empty
  <2> QED BY <2>1, <2>2 DEF Heap!HeapNext, Heap!HeapShutdown, NoReq, Heap!NoReq
<1>12. CASE UNCHANGED vars
  BY <1>12 DEF vars, Heap!heapVars
<1> QED BY <1>1, <1>2, <1>3, <1>4, <1>5, <1>6, <1>7, <1>8, <1>9, <1>10, <1>11, <1>12
        DEF Next, Step, Resize, Heap!HeapNext

\* The allocator keeps the promise of DosHeap: every behaviour of the node list
\* is a behaviour of the heap of disjoint blocks.
THEOREM Refinement == Spec => ImplementsHeap
<1>1. Init => Heap!HeapInit
  <2> SUFFICES ASSUME Init PROVE Heap!HeapInit
    OBVIOUS
  <2>1. DOMAIN nodes = {1} /\ nodes[1].in_use = FALSE
    BY DEF Init
  <2>2. Live(nodes) = {} /\ Empty(nodes) = {}
    BY <2>1 DEF Live, Empty
  <2> QED BY <2>2 DEF Init, Heap!HeapInit, AllocReq, Heap!AllocReq
<1> QED BY <1>1, StepRefines, Invariance, PTL DEF Spec, ImplementsHeap, Heap!HeapSpec

-----------------------------------------------------------------------------
(* What the answer tells a program that asks for no empty blocks.          *)

\* The block of a handle is the only one with it.
LEMMA HandleIsUnique ==
  ASSUME NEW s, Sound(s), NEW a \in Live(s), NEW b \in Live(s), a.para = b.para
  PROVE  a = b
<1>0. s \in Seq(Node)
  BY DEF Sound
<1>1. PICK i \in 1..Len(s) : LivePos(s, i, a)
  BY <1>0, LiveMembers
<1>2. PICK j \in 1..Len(s) : LivePos(s, j, b)
  BY <1>0, LiveMembers
<1>3. s[i].para = s[j].para /\ s[i].size > 0 /\ s[j].size > 0
  BY <1>1, <1>2 DEF LivePos, BlockOf
<1>4. /\ s[i].para \in Nat /\ s[i].size \in Nat
      /\ s[j].para \in Nat /\ s[j].size \in Nat
  BY <1>0, NodeFields
<1>5. i = j
  <2> SUFFICES ASSUME i # j PROVE FALSE
    OBVIOUS
  <2>1. \/ s[i].para + s[i].size <= s[j].para
        \/ s[j].para + s[j].size <= s[i].para
    BY <1>3, NodesApart
  <2> QED BY <1>3, <1>4, <2>1
<1> QED BY <1>1, <1>2, <1>5 DEF LivePos

Others(live, p) == {b \in live : b.para # p}

\* The blocks there are once a call that asked r has returned p.
After(r, p, live) ==
  CASE r.op = "alloc" -> live \union {[para |-> p, size |-> r.size]}
    [] r.op = "free" -> Others(live, r.para)
    [] r.op = "resize" -> Others(live, r.para) \union {[para |-> r.para, size |-> r.size]}

Tells ==
  IF pc' = "idle"
  THEN Live(nodes') = IF ret'.err = "none" THEN After(req, ret'.ptr, Live(nodes))
                      ELSE Live(nodes)
  ELSE Live(nodes') = Live(nodes) /\ req' = req /\ pc' # "finished"

\* A step of a call changes no block until it returns, and what it returns
\* says what it did.
LEMMA StepTells ==
  ASSUME IInv, IInv', Step, Empty(nodes) = {}, req.op # "free" => req.size > 0
  PROVE  Empty(nodes') = {} /\ Tells
<1> DEFINE live == Live(nodes)
<1>1. [Heap!HeapNext]_(Heap!heapVars)
  BY StepRefines DEF Next
<1>2. /\ req # NoReq /\ req.op \in {"alloc", "free", "resize"} /\ req.size \in Nat
      /\ pc \notin {"idle", "finished"}
  <2>1. pc \in {"condense", "search", "find"}
    BY DEF Step, Condense, CondenseMerge, CondenseAdvance, CondenseDone, AllocFail, NotFound,
           AllocFit, Free, Resize, ResizeCrash, ResizeNoRoom, ResizeGrow, ResizeShrink, Resizing
  <2>2. req.op \in {"alloc", "free", "resize"} /\ req.size \in Nat
    BY <2>1, StateFacts DEF IInv, TypeOK
  <2> QED BY <2>1, <2>2 DEF NoReq
<1>3. pc' # "finished"
  BY <1>2 DEF Step, Condense, CondenseMerge, CondenseAdvance, CondenseDone, AllocFail, NotFound,
              AllocFit, Free, Resize, ResizeCrash, ResizeNoRoom, ResizeGrow, ResizeShrink, Return
<1>4. (pc' = "idle") <=> (req' = NoReq)
  <2>1. pc' = "idle" => req' = NoReq
    BY DEF IInv, TypeOK
  <2>2. req' = NoReq => pc' = "idle"
    BY <1>3 DEF IInv, TypeOK, NoReq
  <2> QED BY <2>1, <2>2
<1>5. CASE UNCHANGED Heap!heapVars
  <2>1. Live(nodes') = live /\ Empty(nodes') = {} /\ req' = req
    BY <1>5 DEF Heap!heapVars
  <2> QED BY <1>2, <1>3, <1>4, <2>1 DEF Tells
<1>6. ASSUME Heap!Return("none", ret'.ptr), Live(nodes') = After(req, ret'.ptr, live),
             Empty(nodes') = {}
      PROVE  Empty(nodes') = {} /\ Tells
  <2>1. ret'.err = "none" /\ req' = NoReq
    BY <1>6 DEF Heap!Return, Heap!NoReq, NoReq
  <2> QED BY <1>4, <1>6, <2>1 DEF Tells
<1>7. ASSUME NEW e \in {"oom", "mba"}, Heap!Refuse(e)
      PROVE  Empty(nodes') = {} /\ Tells
  <2>1. ret'.err # "none" /\ req' = NoReq /\ Live(nodes') = live /\ Empty(nodes') = {}
    BY <1>7 DEF Heap!Refuse, Heap!Return, Heap!NoReq, NoReq
  <2> QED BY <1>4, <2>1 DEF Tells
<1>8. ASSUME NEW b \in live, b.para = req.para
      PROVE  live \ {b} = Others(live, req.para)
  <2>1. \A a \in live : a.para = req.para <=> a = b
    BY <1>8, HandleIsUnique DEF IInv
  <2> HIDE DEF live
  <2> QED BY <2>1 DEF Others
<1>9. ASSUME NEW p, NEW others, req.size > 0, Heap!Place(p, req.size, others, Empty(nodes))
      PROVE  /\ Live(nodes') = others \union {[para |-> p, size |-> req.size]}
             /\ Empty(nodes') = {}
  BY <1>2, <1>9 DEF Heap!Place
<1>10. CASE Heap!HeapAlloc
  <2>1. req.op = "alloc"
    BY <1>10 DEF Heap!HeapAlloc
  <2>2. ASSUME NEW p, Heap!Place(p, req.size, live, Empty(nodes)), Heap!Return("none", p)
        PROVE  Empty(nodes') = {} /\ Tells
    <3>1. ret'.ptr = p
      BY <2>2 DEF Heap!Return
    <3>2. Live(nodes') = After(req, ret'.ptr, live) /\ Empty(nodes') = {}
      BY <1>9, <2>1, <2>2, <3>1 DEF After
    <3> QED BY <1>6, <2>2, <3>1, <3>2
  <2> QED BY <1>7, <1>10, <2>2 DEF Heap!HeapAlloc
<1>11. ASSUME Heap!Return("none", ret.ptr)
       PROVE  Heap!Return("none", ret'.ptr)
  <2>1. ret'.ptr = ret.ptr
    BY <1>11 DEF Heap!Return
  <2> QED BY <1>11, <2>1
<1>12. CASE Heap!HeapFree
  <2>1. req.op = "free"
    BY <1>12 DEF Heap!HeapFree
  <2>2. ASSUME NEW b \in live, b.para = req.para, Live(nodes') = live \ {b},
               Empty(nodes') = Empty(nodes), Heap!Return("none", ret.ptr)
        PROVE  Empty(nodes') = {} /\ Tells
    <3>1. Live(nodes') = After(req, ret'.ptr, live)
      BY <1>8, <2>1, <2>2 DEF After
    <3> QED BY <1>6, <1>11, <2>2, <3>1
  <2> QED BY <1>7, <1>12, <2>2 DEF Heap!HeapFree
<1>13. CASE Heap!HeapResize
  <2>1. req.op = "resize"
    BY <1>13 DEF Heap!HeapResize
  <2>2. ASSUME NEW b \in live, b.para = req.para,
               Heap!Place(req.para, req.size, live \ {b}, Empty(nodes)),
               Heap!Return("none", ret.ptr)
        PROVE  Empty(nodes') = {} /\ Tells
    <3>1. Live(nodes') = After(req, ret'.ptr, live) /\ Empty(nodes') = {}
      BY <1>8, <1>9, <2>1, <2>2 DEF After
    <3> QED BY <1>6, <1>11, <2>2, <3>1
  <2> QED BY <1>7, <1>13, <2>2 DEF Heap!HeapResize
<1>14. ~Heap!HeapCall /\ ~Heap!HeapShutdown
  BY <1>2 DEF Heap!HeapCall, Heap!HeapShutdown, Heap!NoReq, NoReq
<1> QED BY <1>1, <1>5, <1>10, <1>12, <1>13, <1>14 DEF Heap!HeapNext

=============================================================================
