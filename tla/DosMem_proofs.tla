---------------------------- MODULE DosMem_proofs ----------------------------
(***************************************************************************)
(* Proofs about the memory allocator, for every size of the arena and      *)
(* every sequence of calls.                                                *)
(*                                                                         *)
(* NoOverlap is not inductive: an allocation could split a node whose end  *)
(* runs past the paragraph at which the next node starts.  The list is in  *)
(* fact in address order, except that growing a block over the whole rest  *)
(* of the arena leaves an empty node whose uint16 paragraph has wrapped to *)
(* 0.  Such nodes can only be at the tail of the list (Spent), and order   *)
(* up to a spent tail is what every step preserves.                        *)
(***************************************************************************)
EXTENDS DosMem, SequenceTheorems, TLAPS

\* From j on the list s has only empty nodes, wrapped to paragraph 0.
Spent(s, j) == \A k \in 1..Len(s) : k >= j => s[k].para = 0 /\ s[k].size = 0

\* No node runs past the arena's end.
Bounded(s) == \A i \in 1..Len(s) : s[i].para + s[i].size <= Total

\* A node ends before any later node starts, up to a spent tail.
Ordered(s) ==
  \A i, j \in 1..Len(s) :
    i < j => s[i].para + s[i].size <= s[j].para \/ Spent(s, j)

Sound(s) == s \in Seq(Node) /\ Bounded(s) /\ Ordered(s)

IInv == TypeOK /\ Sound(nodes)

-----------------------------------------------------------------------------
(* What the list operations return.                                        *)

\* InsertAt puts e at position i and moves the rest up by one.
LEMMA InsertAtProperties ==
  ASSUME NEW S, NEW s \in Seq(S), NEW e \in S, NEW i \in 1..(Len(s) + 1)
  PROVE  /\ InsertAt(s, i, e) \in Seq(S)
         /\ Len(InsertAt(s, i, e)) = Len(s) + 1
         /\ \A k \in 1..(Len(s) + 1) :
              InsertAt(s, i, e)[k] = IF k < i THEN s[k]
                                     ELSE IF k = i THEN e ELSE s[k-1]
<1> DEFINE a == SubSeq(s, 1, i - 1)
           b == SubSeq(s, i, Len(s))
<1>0. Len(s) \in Nat /\ \A k \in 1..Len(s) : s[k] \in S
  BY LenProperties, ElementOfSeq
<1>1. /\ a \in Seq(S)
      /\ Len(a) = i - 1
      /\ \A k \in 1..(i - 1) : a[k] = s[k]
  <2>1. \A k \in 1..(i - 1) : s[k] \in S
    BY <1>0
  <2>2. /\ a \in Seq(S)
        /\ Len(a) = IF 1 <= i - 1 THEN i - 1 - 1 + 1 ELSE 0
        /\ \A k \in 1..(i - 1 - 1 + 1) : a[k] = s[1 + k - 1]
    BY <1>0, <2>1, SubSeqProperties
  <2> QED BY <1>0, <2>2
<1>2. /\ b \in Seq(S)
      /\ Len(b) = Len(s) - i + 1
      /\ \A k \in 1..(Len(s) - i + 1) : b[k] = s[i + k - 1]
  <2>1. \A k \in i..Len(s) : s[k] \in S
    BY <1>0
  <2>2. /\ b \in Seq(S)
        /\ Len(b) = IF i <= Len(s) THEN Len(s) - i + 1 ELSE 0
        /\ \A k \in 1..(Len(s) - i + 1) : b[k] = s[i + k - 1]
    BY <1>0, <2>1, SubSeqProperties
  <2> QED BY <1>0, <2>2
<1> HIDE DEF a, b
<1>3. <<e>> \in Seq(S) /\ Len(<<e>>) = 1 /\ <<e>>[1] = e
  OBVIOUS
<1>4. /\ a \o <<e>> \in Seq(S)
      /\ Len(a \o <<e>>) = i
      /\ \A k \in 1..i : (a \o <<e>>)[k] = IF k < i THEN s[k] ELSE e
  <2>1. /\ a \o <<e>> \in Seq(S)
        /\ Len(a \o <<e>>) = Len(a) + 1
        /\ \A k \in 1..(Len(a) + 1) :
             (a \o <<e>>)[k] = IF k <= Len(a) THEN a[k] ELSE <<e>>[k - Len(a)]
    BY <1>1, <1>3, ConcatProperties
  <2> QED BY <1>0, <1>1, <1>3, <2>1
<1> DEFINE c == a \o <<e>>
           d == c \o b
<1>5. InsertAt(s, i, e) = d
  BY DEF InsertAt, a, b
<1>6. c \in Seq(S) /\ Len(c) = i /\ \A k \in 1..i : c[k] = IF k < i THEN s[k] ELSE e
  BY <1>4
<1> HIDE DEF c
<1>7. /\ d \in Seq(S)
      /\ Len(d) = Len(c) + Len(b)
      /\ \A k \in 1..(Len(c) + Len(b)) : d[k] = IF k <= Len(c) THEN c[k] ELSE b[k - Len(c)]
  BY <1>2, <1>6, ConcatProperties
<1> HIDE DEF d
<1>8. /\ Len(d) = Len(s) + 1
      /\ \A k \in 1..(Len(s) + 1) : d[k] = IF k <= i THEN c[k] ELSE b[k - i]
  BY <1>0, <1>2, <1>6, <1>7
<1>9. ASSUME NEW k \in 1..(Len(s) + 1)
      PROVE  d[k] = IF k < i THEN s[k] ELSE IF k = i THEN e ELSE s[k-1]
  <2>1. CASE k <= i
    BY <1>0, <1>6, <1>8, <2>1
  <2>2. CASE k > i
    BY <1>0, <1>2, <1>8, <2>2
  <2> QED BY <1>0, <2>1, <2>2
<1> QED BY <1>5, <1>7, <1>8, <1>9

\* RemoveAt drops position i and moves the rest down by one.
LEMMA RemoveAtProperties ==
  ASSUME NEW S, NEW s \in Seq(S), NEW i \in 1..Len(s)
  PROVE  /\ RemoveAt(s, i) \in Seq(S)
         /\ Len(RemoveAt(s, i)) = Len(s) - 1
         /\ \A k \in 1..(Len(s) - 1) :
              RemoveAt(s, i)[k] = IF k < i THEN s[k] ELSE s[k+1]
<1> DEFINE a == SubSeq(s, 1, i - 1)
           b == SubSeq(s, i + 1, Len(s))
<1>0. Len(s) \in Nat /\ \A k \in 1..Len(s) : s[k] \in S
  BY LenProperties, ElementOfSeq
<1>1. /\ a \in Seq(S)
      /\ Len(a) = i - 1
      /\ \A k \in 1..(i - 1) : a[k] = s[k]
  <2>1. \A k \in 1..(i - 1) : s[k] \in S
    BY <1>0
  <2>2. /\ a \in Seq(S)
        /\ Len(a) = IF 1 <= i - 1 THEN i - 1 - 1 + 1 ELSE 0
        /\ \A k \in 1..(i - 1 - 1 + 1) : a[k] = s[1 + k - 1]
    BY <1>0, <2>1, SubSeqProperties
  <2> QED BY <1>0, <2>2
<1>2. /\ b \in Seq(S)
      /\ Len(b) = Len(s) - i
      /\ \A k \in 1..(Len(s) - i) : b[k] = s[i + k]
  <2>1. \A k \in (i + 1)..Len(s) : s[k] \in S
    BY <1>0
  <2>2. /\ b \in Seq(S)
        /\ Len(b) = IF i + 1 <= Len(s) THEN Len(s) - (i + 1) + 1 ELSE 0
        /\ \A k \in 1..(Len(s) - (i + 1) + 1) : b[k] = s[(i + 1) + k - 1]
    BY <1>0, <2>1, SubSeqProperties
  <2> QED BY <1>0, <2>2
<1> HIDE DEF a, b
<1> DEFINE d == a \o b
<1>3. RemoveAt(s, i) = d
  BY DEF RemoveAt, a, b
<1>4. /\ d \in Seq(S)
      /\ Len(d) = Len(a) + Len(b)
      /\ \A k \in 1..(Len(a) + Len(b)) : d[k] = IF k <= Len(a) THEN a[k] ELSE b[k - Len(a)]
  BY <1>1, <1>2, ConcatProperties
<1> HIDE DEF d
<1>5. /\ Len(d) = Len(s) - 1
      /\ \A k \in 1..(Len(s) - 1) : d[k] = IF k < i THEN a[k] ELSE b[k - (i - 1)]
  <2>1. Len(a) + Len(b) = Len(s) - 1
    BY <1>0, <1>1, <1>2
  <2>2. \A k \in 1..(Len(s) - 1) : k <= Len(a) <=> k < i
    BY <1>0, <1>1
  <2>3. \A k \in 1..(Len(s) - 1) : d[k] = IF k <= Len(a) THEN a[k] ELSE b[k - Len(a)]
    BY <1>4, <2>1
  <2> QED BY <1>1, <1>4, <2>1, <2>2, <2>3
<1>6. ASSUME NEW k \in 1..(Len(s) - 1)
      PROVE  d[k] = IF k < i THEN s[k] ELSE s[k+1]
  <2>1. CASE k < i
    BY <1>0, <1>1, <1>5, <2>1
  <2>2. CASE k >= i
    BY <1>0, <1>2, <1>5, <2>2
  <2> QED BY <1>0, <2>1, <2>2
<1> QED BY <1>3, <1>4, <1>5, <1>6

-----------------------------------------------------------------------------
(* Each of the changes the allocator makes to the list keeps it sound.     *)

\* A node of a list is a record whose fields are numbers and a Boolean.
LEMMA NodeFields ==
  ASSUME NEW s \in Seq(Node), NEW i \in 1..Len(s)
  PROVE  /\ s[i] \in Node
         /\ s[i].para \in Nat /\ s[i].para < Total
         /\ s[i].size \in Nat
         /\ s[i].in_use \in BOOLEAN
         /\ Len(s) \in Nat
<1>1. s[i] \in Node /\ Len(s) \in Nat
  BY ElementOfSeq, LenProperties
<1> QED BY <1>1, MemAssumption DEF Node, Para

\* CondenseMerge.
LEMMA MergeSound ==
  ASSUME NEW s, Sound(s), NEW c \in 1..Len(s), c < Len(s),
         s[c].para + s[c].size = s[c+1].para
  PROVE  /\ Sound(Merge(s, c)) /\ Len(Merge(s, c)) = Len(s) - 1
         /\ \A k \in 1..(c - 1) : Merge(s, c)[k] = s[k]
         /\ Merge(s, c)[c].in_use = s[c].in_use /\ Merge(s, c)[c].para = s[c].para
         /\ \A k \in (c + 1)..Len(Merge(s, c)) : Merge(s, c)[k] = s[k+1]
<1> DEFINE t == Merge(s, c)
           m == [s[c] EXCEPT !.size = @ + s[c+1].size]
           r == [s EXCEPT ![c] = m]
<1>0. /\ s \in Seq(Node) /\ Len(s) \in Nat /\ c + 1 \in 1..Len(s) /\ c \in Nat
      /\ \A k \in 1..Len(s) :
           /\ s[k] \in Node
           /\ s[k].para \in Nat /\ s[k].para < Total
           /\ s[k].size \in Nat
           /\ s[k].para + s[k].size <= Total
  BY LenProperties, NodeFields DEF Sound, Bounded
<1>s. /\ s[c].size + s[c+1].size \in 0..Total
      /\ s[c].para + (s[c].size + s[c+1].size) <= Total
      /\ s[c].para + (s[c].size + s[c+1].size) = s[c+1].para + s[c+1].size
  <2> DEFINE p == s[c].para    q == s[c+1].para
             x == s[c].size    y == s[c+1].size
  <2>1. /\ p \in Nat /\ q \in Nat /\ x \in Nat /\ y \in Nat
        /\ p + x = q /\ q + y <= Total
    BY <1>0
  <2> HIDE DEF p, q, x, y
  <2>2. x + y \in 0..Total
    BY <2>1, MemAssumption
  <2>3. p + (x + y) = q + y
    BY <2>1
  <2> QED BY <2>1, <2>2, <2>3 DEF p, q, x, y
<1>1. /\ m \in Node /\ m.para = s[c].para /\ m.size = s[c].size + s[c+1].size
      /\ m.in_use = s[c].in_use
  <2>1. s[c] \in Node
    BY <1>0
  <2> QED BY <1>s, <2>1 DEF Node
<1> HIDE DEF m
<1>2. /\ r \in Seq(Node)
      /\ Len(r) = Len(s)
      /\ \A j \in 1..Len(s) : r[j] = IF j = c THEN m ELSE s[j]
  BY <1>0, <1>1, ExceptSeq
<1>3. t = RemoveAt(r, c + 1)
  BY DEF m, Merge
<1> HIDE DEF r, t
<1>4. /\ t \in Seq(Node)
      /\ Len(t) = Len(s) - 1
      /\ \A k \in 1..(Len(s) - 1) : t[k] = IF k < c + 1 THEN r[k] ELSE r[k+1]
  <2>1. c + 1 \in 1..Len(r)
    BY <1>0, <1>2
  <2>2. /\ RemoveAt(r, c + 1) \in Seq(Node)
        /\ Len(RemoveAt(r, c + 1)) = Len(r) - 1
        /\ \A k \in 1..(Len(r) - 1) :
             RemoveAt(r, c + 1)[k] = IF k < c + 1 THEN r[k] ELSE r[k+1]
    BY <1>2, <2>1, RemoveAtProperties
  <2> QED BY <1>2, <1>3, <2>2
<1>5. /\ \A k \in 1..(c - 1) : t[k] = s[k]
      /\ t[c] = m
      /\ \A k \in (c + 1)..Len(t) : t[k] = s[k+1]
  <2>1. ASSUME NEW k \in 1..(c - 1) PROVE t[k] = s[k]
    <3>1. /\ k \in 1..(Len(s) - 1) /\ k \in 1..Len(s)
          /\ k < c + 1 /\ k # c
      BY <1>0
    <3>2. t[k] = r[k]
      BY <1>4, <3>1
    <3> QED BY <1>2, <3>1, <3>2
  <2>2. t[c] = m
    <3>1. c \in 1..(Len(s) - 1) /\ c \in 1..Len(s) /\ c < c + 1
      BY <1>0
    <3>2. t[c] = r[c]
      BY <1>4, <3>1
    <3> QED BY <1>2, <3>1, <3>2
  <2>3. ASSUME NEW k \in (c + 1)..Len(t) PROVE t[k] = s[k+1]
    <3>1. /\ k \in Nat /\ k \in 1..(Len(s) - 1) /\ k + 1 \in 1..Len(s)
          /\ ~(k < c + 1) /\ k + 1 # c
      BY <1>0, <1>4
    <3>2. t[k] = r[k+1]
      BY <1>4, <3>1
    <3> QED BY <1>2, <3>1, <3>2
  <2> QED BY <2>1, <2>2, <2>3
<1>6. Bounded(t)
  <2> SUFFICES ASSUME NEW k \in 1..Len(t)
               PROVE  t[k].para + t[k].size <= Total
    BY DEF Bounded
  <2>1. CASE k = c
    BY <1>1, <1>5, <1>s, <2>1
  <2>2. CASE k < c
    <3>1. k \in 1..(c - 1) /\ k \in 1..Len(s)
      BY <1>0, <1>4, <2>2
    <3> QED BY <1>0, <1>5, <3>1
  <2>3. CASE k > c
    <3>1. k \in (c + 1)..Len(t) /\ k + 1 \in 1..Len(s)
      BY <1>0, <1>4, <2>3
    <3> QED BY <1>0, <1>5, <3>1
  <2> QED BY <1>0, <1>4, <2>1, <2>2, <2>3
<1>7. Ordered(t)
  <2> SUFFICES ASSUME NEW i \in 1..Len(t), NEW j \in 1..Len(t), i < j, ~Spent(t, j)
               PROVE  t[i].para + t[i].size <= t[j].para
    BY DEF Ordered
  <2> DEFINE jj == IF j <= c THEN j ELSE j + 1
             ii == IF i < c THEN i ELSE i + 1
  <2>1. /\ jj \in 1..Len(s) /\ ii \in 1..Len(s) /\ ii < jj
        /\ i \in Nat /\ j \in Nat
    BY <1>0, <1>4
  <2>2. ~Spent(s, jj)
    <3> SUFFICES ASSUME Spent(s, jj), NEW k \in 1..Len(t), k >= j
                 PROVE  t[k].para = 0 /\ t[k].size = 0
      BY DEF Spent
    <3>1. \A l \in 1..Len(s) : l >= jj => s[l].para = 0 /\ s[l].size = 0
      BY DEF Spent
    <3>2. CASE k = c
      <4>1. c >= jj /\ c + 1 >= jj
        BY <1>0, <2>1, <3>2
      <4>2. /\ s[c].para = 0 /\ s[c].size = 0
            /\ s[c+1].para = 0 /\ s[c+1].size = 0
        BY <1>0, <3>1, <4>1
      <4> QED BY <1>1, <1>5, <3>2, <4>2
    <3>3. CASE k < c
      <4>1. k \in 1..(c - 1) /\ k \in 1..Len(s) /\ k >= jj
        BY <1>0, <1>4, <2>1, <3>3
      <4> QED BY <1>5, <3>1, <4>1
    <3>4. CASE k > c
      <4>1. k \in (c + 1)..Len(t) /\ k + 1 \in 1..Len(s) /\ k + 1 >= jj
        BY <1>0, <1>4, <2>1, <3>4
      <4> QED BY <1>5, <3>1, <4>1
    <3> QED BY <1>0, <1>4, <3>2, <3>3, <3>4
  <2>3. t[j].para = s[jj].para
    <3>1. CASE j = c
      BY <1>1, <1>5, <3>1
    <3>2. CASE j < c
      <4>1. j \in 1..(c - 1) /\ jj = j
        BY <1>0, <2>1, <3>2
      <4> QED BY <1>5, <4>1
    <3>3. CASE j > c
      <4>1. j \in (c + 1)..Len(t) /\ jj = j + 1
        BY <1>0, <2>1, <3>3
      <4> QED BY <1>5, <4>1
    <3> QED BY <1>0, <2>1, <3>1, <3>2, <3>3
  <2>4. t[i].para + t[i].size = s[ii].para + s[ii].size
    <3>1. CASE i = c
      <4>1. ii = c + 1
        BY <1>0, <3>1
      <4> QED BY <1>1, <1>5, <1>s, <3>1, <4>1
    <3>2. CASE i < c
      <4>1. i \in 1..(c - 1) /\ ii = i
        BY <1>0, <2>1, <3>2
      <4> QED BY <1>5, <4>1
    <3>3. CASE i > c
      <4>1. i \in (c + 1)..Len(t) /\ ii = i + 1
        BY <1>0, <2>1, <3>3
      <4> QED BY <1>5, <4>1
    <3> QED BY <1>0, <2>1, <3>1, <3>2, <3>3
  <2> HIDE DEF ii, jj
  <2> QED BY <2>1, <2>2, <2>3, <2>4 DEF Sound, Ordered
<1> QED BY <1>1, <1>4, <1>5, <1>6, <1>7 DEF Sound, t

\* prv_alloc that leaves a rest: the rest is a free node after the block.
LEMMA SplitSound ==
  ASSUME NEW s, Sound(s), NEW c \in 1..Len(s), NEW n \in Size, n < s[c].size
  PROVE  /\ Sound(Split(s, c, n)) /\ Len(Split(s, c, n)) = Len(s) + 1
         /\ \A k \in 1..(c - 1) : Split(s, c, n)[k] = s[k]
         /\ Split(s, c, n)[c].para = s[c].para
         /\ Split(s, c, n)[c].size = n
         /\ Split(s, c, n)[c].in_use
         /\ ~Split(s, c, n)[c+1].in_use
         /\ \A k \in (c + 2)..Len(Split(s, c, n)) : Split(s, c, n)[k] = s[k-1]
<1> DEFINE t == Split(s, c, n)
           m == [s[c] EXCEPT !.size = n, !.in_use = TRUE]
           r == [s EXCEPT ![c].size = n, ![c].in_use = TRUE]
           e == [para |-> (s[c].para + n) % Total,
                 size |-> s[c].size - n,
                 in_use |-> FALSE]
<1>0. /\ s \in Seq(Node) /\ Len(s) \in Nat /\ c \in Nat /\ n \in Nat
      /\ \A k \in 1..Len(s) :
           /\ s[k] \in Node
           /\ s[k].para \in Nat /\ s[k].para < Total
           /\ s[k].size \in Nat
           /\ s[k].para + s[k].size <= Total
  BY LenProperties, NodeFields, MemAssumption DEF Sound, Bounded, Size
<1>s. /\ s[c].para + n \in Para /\ s[c].para + n \in Nat /\ s[c].para + n <= Total
      /\ s[c].para + n <= s[c].para + s[c].size
      /\ s[c].size - n \in 0..Total
      /\ (s[c].para + n) + (s[c].size - n) = s[c].para + s[c].size
      /\ s[c].para + s[c].size \in Nat /\ s[c].para + s[c].size <= Total
  <2> DEFINE p == s[c].para    x == s[c].size
  <2>1. p \in Nat /\ x \in Nat /\ n \in Nat /\ n < x /\ p + x <= Total
    BY <1>0
  <2> HIDE DEF p, x
  <2>2. p + n \in Para
    BY <2>1, MemAssumption DEF Para
  <2>3. p + n \in Nat /\ p + n <= Total /\ p + n <= p + x /\ p + x \in Nat
    BY <2>1, MemAssumption
  <2>4. x - n \in 0..Total /\ (p + n) + (x - n) = p + x
    BY <2>1, MemAssumption
  <2> QED BY <2>1, <2>2, <2>3, <2>4 DEF p, x
<1>1. /\ m \in Node /\ m.para = s[c].para /\ m.size = n
      /\ m.in_use
  <2>1. s[c] \in Node /\ n \in 0..Total
    BY <1>0, MemAssumption
  <2> QED BY <2>1 DEF Node
<1>2. e \in Node /\ e.para = s[c].para + n /\ e.size = s[c].size - n
  <2>1. \A k \in Para : k % Total = k
    BY MemAssumption DEF Para
  <2>2. (s[c].para + n) % Total = s[c].para + n
    BY <1>s, <2>1
  <2> QED BY <1>s, <2>2 DEF Node
<1>e. ~e.in_use
  OBVIOUS
<1>3. r = [s EXCEPT ![c] = m]
  <2>1. DOMAIN s = 1..Len(s)
    BY <1>0, LenProperties
  <2> QED BY <1>0, <2>1
<1>4. t = InsertAt(r, c + 1, e)
  BY DEF Split
<1> HIDE DEF m, r, e, t
<1>5. /\ r \in Seq(Node)
      /\ Len(r) = Len(s)
      /\ \A j \in 1..Len(s) : r[j] = IF j = c THEN m ELSE s[j]
  BY <1>0, <1>1, <1>3, ExceptSeq
<1>6. /\ t \in Seq(Node)
      /\ Len(t) = Len(s) + 1
      /\ \A k \in 1..(Len(s) + 1) : t[k] = IF k < c + 1 THEN r[k]
                                          ELSE IF k = c + 1 THEN e ELSE r[k-1]
  <2>1. c + 1 \in 1..(Len(r) + 1)
    BY <1>0, <1>5
  <2>2. /\ InsertAt(r, c + 1, e) \in Seq(Node)
        /\ Len(InsertAt(r, c + 1, e)) = Len(r) + 1
        /\ \A k \in 1..(Len(r) + 1) :
             InsertAt(r, c + 1, e)[k] = IF k < c + 1 THEN r[k]
                                        ELSE IF k = c + 1 THEN e ELSE r[k-1]
    BY <1>2, <1>5, <2>1, InsertAtProperties
  <2> QED BY <1>4, <1>5, <2>2
<1>7. /\ \A k \in 1..(c - 1) : t[k] = s[k]
      /\ t[c] = m
      /\ t[c+1] = e
      /\ \A k \in (c + 2)..Len(t) : t[k] = s[k-1]
  <2>1. ASSUME NEW k \in 1..(c - 1) PROVE t[k] = s[k]
    <3>1. /\ k \in 1..(Len(s) + 1) /\ k \in 1..Len(s)
          /\ k < c + 1 /\ k # c
      BY <1>0
    <3>2. t[k] = r[k]
      BY <1>6, <3>1
    <3> QED BY <1>5, <3>1, <3>2
  <2>2. t[c] = m
    <3>1. c \in 1..(Len(s) + 1) /\ c \in 1..Len(s) /\ c < c + 1
      BY <1>0
    <3>2. t[c] = r[c]
      BY <1>6, <3>1
    <3> QED BY <1>5, <3>1, <3>2
  <2>3. t[c+1] = e
    <3>1. c + 1 \in 1..(Len(s) + 1) /\ ~(c + 1 < c + 1)
      BY <1>0
    <3> QED BY <1>6, <3>1
  <2>4. ASSUME NEW k \in (c + 2)..Len(t) PROVE t[k] = s[k-1]
    <3>1. /\ k \in 1..(Len(s) + 1) /\ k - 1 \in 1..Len(s)
          /\ ~(k < c + 1) /\ k # c + 1 /\ k - 1 # c
      BY <1>0, <1>6
    <3>2. t[k] = r[k-1]
      BY <1>6, <3>1
    <3> QED BY <1>5, <3>1, <3>2
  <2> QED BY <2>1, <2>2, <2>3, <2>4
<1>8. Bounded(t)
  <2> SUFFICES ASSUME NEW k \in 1..Len(t)
               PROVE  t[k].para + t[k].size <= Total
    BY DEF Bounded
  <2>1. CASE k = c
    BY <1>1, <1>7, <1>s, <2>1
  <2>2. CASE k = c + 1
    BY <1>2, <1>7, <1>s, <2>2
  <2>3. CASE k < c
    <3>1. k \in 1..(c - 1) /\ k \in 1..Len(s)
      BY <1>0, <1>6, <2>3
    <3> QED BY <1>0, <1>7, <3>1
  <2>4. CASE k > c + 1
    <3>1. k \in (c + 2)..Len(t) /\ k - 1 \in 1..Len(s)
      BY <1>0, <1>6, <2>4
    <3> QED BY <1>0, <1>7, <3>1
  <2> QED BY <1>0, <1>6, <2>1, <2>2, <2>3, <2>4
<1>9. Ordered(t)
  <2> SUFFICES ASSUME NEW i \in 1..Len(t), NEW j \in 1..Len(t), i < j, ~Spent(t, j)
               PROVE  t[i].para + t[i].size <= t[j].para
    BY DEF Ordered
  <2> DEFINE jj == IF j <= c THEN j ELSE j - 1
             ii == IF i <= c THEN i ELSE i - 1
  <2>1. /\ jj \in 1..Len(s) /\ ii \in 1..Len(s)
        /\ i \in Nat /\ j \in Nat
    BY <1>0, <1>6
  <2>5. s[ii].para + s[ii].size \in Nat /\ s[jj].para \in Nat
    <3> HIDE DEF ii, jj
    <3>1. s[ii].para \in Nat /\ s[ii].size \in Nat /\ s[jj].para \in Nat
      BY <1>0, <2>1
    <3>2. \A a, b \in Nat : a + b \in Nat
      OBVIOUS
    <3> QED BY <3>1, <3>2
  <2>2. CASE i = c /\ j = c + 1
    BY <1>0, <1>1, <1>2, <1>7, <2>2
  <2>3. CASE ~(i = c /\ j = c + 1)
    <3>1. ii < jj
      BY <1>0, <2>1, <2>3
    <3>2. ~Spent(s, jj)
      <4>1. CASE jj <= c
        <5>1. s[c].size # 0
          BY <1>0
        <5> QED BY <4>1, <5>1 DEF Spent
      <4>2. CASE jj > c
        <5> SUFFICES ASSUME Spent(s, jj), NEW k \in 1..Len(t), k >= j
                     PROVE  t[k].para = 0 /\ t[k].size = 0
          BY DEF Spent
        <5>1. /\ k \in (c + 2)..Len(t) /\ k - 1 \in 1..Len(s) /\ k - 1 >= jj
          BY <1>0, <1>6, <2>1, <4>2
        <5>2. s[k-1].para = 0 /\ s[k-1].size = 0
          BY <5>1 DEF Spent
        <5> QED BY <1>7, <5>1, <5>2
      <4> QED BY <1>0, <2>1, <4>1, <4>2
    <3>3. t[j].para \in Nat /\ s[jj].para <= t[j].para
      <4>1. CASE j < c
        <5>1. j \in 1..(c - 1) /\ jj = j
          BY <1>0, <2>1, <4>1
        <5> QED BY <1>0, <1>7, <2>1, <5>1
      <4>2. CASE j = c
        <5>1. jj = c
          BY <1>0, <4>2
        <5> QED BY <1>0, <1>1, <1>7, <4>2, <5>1
      <4>3. CASE j = c + 1
        <5>1. jj = c
          BY <1>0, <4>3
        <5> QED BY <1>0, <1>2, <1>7, <4>3, <5>1
      <4>4. CASE j > c + 1
        <5>1. j \in (c + 2)..Len(t) /\ jj = j - 1
          BY <1>0, <2>1, <4>4
        <5> QED BY <1>0, <1>7, <2>1, <5>1
      <4> QED BY <1>0, <2>1, <4>1, <4>2, <4>3, <4>4
    <3>4. /\ t[i].para + t[i].size \in Nat
          /\ t[i].para + t[i].size <= s[ii].para + s[ii].size
      <4>e. \A a, b : a = b /\ b \in Nat => a \in Nat /\ a <= b
        OBVIOUS
      <4>1. CASE i < c
        <5>1. i \in 1..(c - 1) /\ ii = i
          BY <1>0, <2>1, <4>1
        <5>2. t[i] = s[ii]
          BY <1>7, <5>1
        <5> QED BY <2>5, <4>e, <5>2
      <4>2. CASE i = c
        <5>1. ii = c
          BY <1>0, <4>2
        <5> QED BY <1>1, <1>7, <1>s, <4>2, <5>1
      <4>3. CASE i = c + 1
        <5>1. ii = c
          BY <1>0, <4>3
        <5>2. t[i].para + t[i].size = s[c].para + s[c].size
          BY <1>2, <1>7, <1>s, <4>3
        <5> QED BY <1>s, <4>e, <5>1, <5>2
      <4>4. CASE i > c + 1
        <5>1. i \in (c + 2)..Len(t) /\ ii = i - 1
          BY <1>0, <2>1, <4>4
        <5>2. t[i] = s[ii]
          BY <1>7, <5>1
        <5> QED BY <2>5, <4>e, <5>2
      <4> QED BY <1>0, <2>1, <4>1, <4>2, <4>3, <4>4
    <3> HIDE DEF ii, jj
    <3>5. s[ii].para + s[ii].size <= s[jj].para
      BY <2>1, <3>1, <3>2 DEF Sound, Ordered
    <3> QED BY <2>5, <3>3, <3>4, <3>5
  <2> QED BY <2>2, <2>3
<1> QED BY <1>1, <1>e, <1>6, <1>7, <1>8, <1>9 DEF Sound, t

\* prv_alloc on a node of the right size, bios_mem_free and a shrink: a node
\* that stays where it is and does not become longer leaves the list sound.
LEMMA ShorterSound ==
  ASSUME NEW s, Sound(s), NEW c \in 1..Len(s), NEW m \in Node,
         m.para = s[c].para, m.size <= s[c].size
  PROVE  /\ Sound([s EXCEPT ![c] = m])
         /\ Len([s EXCEPT ![c] = m]) = Len(s)
<1> DEFINE t == [s EXCEPT ![c] = m]
<1>0. /\ s \in Seq(Node) /\ Len(s) \in Nat
      /\ m.size \in Nat
      /\ \A k \in 1..Len(s) :
           /\ s[k].para \in Nat
           /\ s[k].size \in Nat
           /\ s[k].para + s[k].size <= Total
  <2>1. s \in Seq(Node) /\ Len(s) \in Nat
    BY LenProperties DEF Sound
  <2>2. m.size \in Nat
    BY MemAssumption DEF Node
  <2> QED BY <2>1, <2>2, NodeFields DEF Sound, Bounded
<1>1. /\ t \in Seq(Node)
      /\ Len(t) = Len(s)
      /\ \A j \in 1..Len(s) : t[j] = IF j = c THEN m ELSE s[j]
  BY <1>0, ExceptSeq
<1> HIDE DEF t
<1>2. \A k \in 1..Len(s) :
        /\ t[k].para = s[k].para
        /\ t[k].size \in Nat
        /\ t[k].size <= s[k].size
  BY <1>0, <1>1
<1>3. Bounded(t)
  BY <1>0, <1>1, <1>2, MemAssumption DEF Bounded
<1>4. Ordered(t)
  <2> SUFFICES ASSUME NEW i \in 1..Len(s), NEW j \in 1..Len(s), i < j, ~Spent(t, j)
               PROVE  t[i].para + t[i].size <= t[j].para
    BY <1>1 DEF Ordered
  <2>1. ~Spent(s, j)
    BY <1>0, <1>1, <1>2 DEF Spent
  <2>2. s[i].para + s[i].size <= s[j].para
    BY <2>1 DEF Sound, Ordered
  <2>3. /\ t[i].para = s[i].para /\ t[j].para = s[j].para
        /\ t[i].size \in Nat /\ t[i].size <= s[i].size
    BY <1>2
  <2>4. s[i].para \in Nat /\ s[i].size \in Nat /\ s[j].para \in Nat
    BY <1>0
  <2> QED BY <2>2, <2>3, <2>4
<1> QED BY <1>1, <1>3, <1>4 DEF Sound, t

\* ResizeGrow: only the node after the block can wrap, and then nothing but
\* spent nodes comes after it.
LEMMA GrowSound ==
  ASSUME NEW s, Sound(s), NEW c \in 1..Len(s), c < Len(s), NEW n \in Size,
         n > s[c].size, n - s[c].size <= s[c+1].size
  PROVE  /\ Sound(Grow(s, c, n)) /\ Len(Grow(s, c, n)) = Len(s)
         /\ Grow(s, c, n)[c] = [s[c] EXCEPT !.size = n]
         /\ Grow(s, c, n)[c+1].in_use = s[c+1].in_use
         /\ \A k \in 1..Len(s) : k # c /\ k # c + 1 => Grow(s, c, n)[k] = s[k]
<1> DEFINE t == Grow(s, c, n)
           d == n - s[c].size
           m == [s[c] EXCEPT !.size = n]
           e == [s[c+1] EXCEPT !.size = @ - d, !.para = (@ + d) % Total]
           r == [s EXCEPT ![c] = m]
<1>0. /\ s \in Seq(Node) /\ Len(s) \in Nat /\ c \in Nat /\ n \in Nat
      /\ c + 1 \in 1..Len(s)
      /\ \A k \in 1..Len(s) :
           /\ s[k] \in Node
           /\ s[k].para \in Nat /\ s[k].para < Total
           /\ s[k].size \in Nat
           /\ s[k].para + s[k].size <= Total
  BY LenProperties, NodeFields, MemAssumption DEF Sound, Bounded, Size
<1>c. /\ s[c] \in Node /\ s[c+1] \in Node
      /\ s[c].para \in Nat /\ s[c].size \in Nat
      /\ s[c].para + s[c].size <= Total
      /\ s[c+1].para \in Nat /\ s[c+1].size \in Nat
      /\ s[c+1].para < Total
      /\ s[c+1].para + s[c+1].size <= Total
      /\ n \in Nat /\ Total \in Nat
  BY <1>0, MemAssumption
<1>1. /\ d \in Nat /\ d > 0 /\ d <= s[c+1].size
      /\ s[c].para + n = s[c].para + s[c].size + d
  <2> DEFINE x == s[c].size    y == s[c+1].size    p == s[c].para
  <2>1. x \in Nat /\ y \in Nat /\ p \in Nat /\ n > x /\ n - x <= y /\ n \in Nat
    BY <1>c
  <2> HIDE DEF x, y, p
  <2>2. n - x \in Nat /\ n - x > 0 /\ n - x <= y
    BY <2>1
  <2>3. p + n = p + x + (n - x)
    BY <2>1
  <2> QED BY <2>2, <2>3 DEF x, y, p
<1>2. m \in Node /\ m.para = s[c].para /\ m.size = n
  <2>1. s[c] \in Node /\ n \in 0..Total
    BY <1>0, MemAssumption DEF Size
  <2> QED BY <2>1 DEF Node
<1>3. /\ e \in Node
      /\ e.para = (s[c+1].para + d) % Total
      /\ e.size = s[c+1].size - d
      /\ e.in_use = s[c+1].in_use
  <2> HIDE DEF d
  <2>1. (s[c+1].para + d) % Total \in Para
    <3>1. s[c+1].para + d \in Nat
      BY <1>1, <1>c
    <3> QED BY <3>1, MemAssumption DEF Para
  <2> DEFINE q == s[c+1].para    y == s[c+1].size
  <2>2. q \in Nat /\ y \in Nat /\ d \in Nat /\ d <= y /\ q + y <= Total
    BY <1>1, <1>c
  <2>3. y - d \in 0..Total
    <3> HIDE DEF q, y
    <3> QED BY <2>2, MemAssumption
  <2> QED BY <1>c, <2>1, <2>3 DEF Node
<1>4. t = [r EXCEPT ![c+1] = e]
  <2>1. DOMAIN s = 1..Len(s)
    BY <1>0, LenProperties
  <2> QED BY <1>0, <2>1 DEF Grow
<1> HIDE DEF m, e
<1>5. /\ r \in Seq(Node)
      /\ Len(r) = Len(s)
      /\ \A j \in 1..Len(s) : r[j] = IF j = c THEN m ELSE s[j]
  BY <1>0, <1>2, ExceptSeq
<1> HIDE DEF t, r, d
<1>6. /\ t \in Seq(Node)
      /\ Len(t) = Len(s)
      /\ \A j \in 1..Len(s) : t[j] = IF j = c + 1 THEN e ELSE r[j]
  BY <1>0, <1>3, <1>4, <1>5, ExceptSeq
<1>7. /\ t[c] = m
      /\ t[c+1] = e
      /\ \A k \in 1..Len(s) : k # c /\ k # c + 1 => t[k] = s[k]
  <2>1. c \in 1..Len(s) /\ c + 1 \in 1..Len(s) /\ c # c + 1
    BY <1>0
  <2>2. t[c] = r[c] /\ t[c+1] = e
    BY <1>6, <2>1
  <2>3. r[c] = m
    BY <1>5, <2>1
  <2>4. ASSUME NEW k \in 1..Len(s), k # c, k # c + 1 PROVE t[k] = s[k]
    BY <1>5, <1>6, <2>4
  <2> QED BY <2>2, <2>3, <2>4
<1>8. /\ s[c].para + s[c].size <= s[c+1].para
      /\ s[c].para + n <= s[c+1].para + d
      /\ s[c].para + n <= s[c+1].para + s[c+1].size
      /\ s[c].para + n <= Total
      /\ s[c].para + n \in Nat /\ s[c+1].para + s[c+1].size \in Nat
  <2>1. ~Spent(s, c + 1)
    <3>1. s[c+1].size # 0
      BY <1>1, <1>c
    <3>2. c + 1 \in 1..Len(s) /\ c + 1 >= c + 1
      BY <1>0
    <3> QED BY <3>1, <3>2 DEF Spent
  <2>2. s[c].para + s[c].size <= s[c+1].para
    BY <1>0, <2>1 DEF Sound, Ordered
  <2> DEFINE p == s[c].para    q == s[c+1].para
             x == s[c].size    y == s[c+1].size
  <2>3. /\ p \in Nat /\ q \in Nat /\ x \in Nat /\ y \in Nat /\ d \in Nat /\ n \in Nat
        /\ p + x <= q /\ d <= y /\ p + n = p + x + d /\ q + y <= Total /\ Total \in Nat
    BY <1>1, <1>c, <2>2
  <2> HIDE DEF p, q, x, y
  <2>4. p + n \in Nat /\ q + y \in Nat /\ q + d \in Nat
    <3>1. p \in Nat /\ q \in Nat /\ y \in Nat /\ d \in Nat /\ n \in Nat
      BY <2>3
    <3> QED BY <3>1
  <2>5. p + n <= q + d
    BY <2>3
  <2>6. q + d <= q + y
    BY <2>3
  <2>7. p + n <= q + y /\ p + n <= Total
    BY <2>3, <2>4, <2>5, <2>6
  <2> QED BY <2>2, <2>4, <2>5, <2>7 DEF p, q, x, y
\* Either the node after the block has not wrapped, or it is empty now.
<1>9. \/ e.para = s[c+1].para + d /\ s[c+1].para + d < Total
      \/ s[c+1].para + s[c+1].size = Total /\ e.para = 0 /\ e.size = 0
  <2> DEFINE q == s[c+1].para    y == s[c+1].size
  <2>0. q \in Nat /\ y \in Nat /\ d \in Nat /\ d <= y /\ q + y <= Total
    BY <1>1, <1>c
  <2>1. q + d <= Total /\ q + d \in Nat /\ (q + d = Total => y = d /\ q + y = Total)
    <3> HIDE DEF q, y
    <3> QED BY <2>0, MemAssumption
  <2>2. CASE s[c+1].para + d < Total
    <3>1. \A k \in Nat : k < Total => k % Total = k
      BY MemAssumption
    <3> QED BY <1>3, <2>1, <2>2, <3>1
  <2>3. CASE s[c+1].para + d = Total
    <3>1. Total % Total = 0
      BY MemAssumption
    <3>2. e.para = 0
      BY <1>3, <2>3, <3>1
    <3>3. \A k \in Nat : k - k = 0
      OBVIOUS
    <3>4. e.size = 0 /\ s[c+1].para + s[c+1].size = Total
      BY <1>3, <2>0, <2>1, <2>3, <3>3
    <3> QED BY <3>2, <3>4
  <2>4. \A a, b \in Nat : a <= b => a < b \/ a = b
    OBVIOUS
  <2> QED BY <2>1, <2>2, <2>3, <2>4, MemAssumption
<1>b. (s[c+1].para + d) + (s[c+1].size - d) = s[c+1].para + s[c+1].size
  <2> DEFINE q == s[c+1].para    y == s[c+1].size
  <2>1. q \in Nat /\ y \in Nat /\ d \in Nat
    BY <1>1, <1>c
  <2> HIDE DEF q, y
  <2>2. (q + d) + (y - d) = q + y
    BY <2>1
  <2> QED BY <2>2 DEF q, y
<1>10. Bounded(t)
  <2> SUFFICES ASSUME NEW k \in 1..Len(s)
               PROVE  t[k].para + t[k].size <= Total
    BY <1>6 DEF Bounded
  <2>1. CASE k = c
    BY <1>2, <1>7, <1>8, <2>1
  <2>2. CASE k = c + 1
    <3>1. (s[c+1].para + d) + (s[c+1].size - d) <= Total
      BY <1>b, <1>c
    <3> QED BY <1>3, <1>7, <1>9, <2>2, <3>1, MemAssumption
  <2>3. CASE k # c /\ k # c + 1
    BY <1>0, <1>7, <2>3
  <2> QED BY <2>1, <2>2, <2>3
<1>11. Ordered(t)
  <2> SUFFICES ASSUME NEW i \in 1..Len(s), NEW j \in 1..Len(s), i < j, ~Spent(t, j)
               PROVE  t[i].para + t[i].size <= t[j].para
    BY <1>6 DEF Ordered
  <2>0. i \in Nat /\ j \in Nat
    BY <1>0
  \* The nodes after a wrapped one were spent before.
  <2>1. ASSUME e.para = 0, e.size = 0, s[c+1].para + s[c+1].size = Total
        PROVE  Spent(t, c + 1)
    <3> SUFFICES ASSUME NEW k \in 1..Len(s), k >= c + 1
                 PROVE  t[k].para = 0 /\ t[k].size = 0
      BY <1>6 DEF Spent
    <3>1. CASE k = c + 1
      BY <1>7, <2>1, <3>1
    <3>2. CASE k # c + 1
      <4>1. k \in Nat /\ k # c /\ c + 1 < k /\ t[k] = s[k]
        BY <1>0, <1>7, <3>2
      <4>2. ~(s[c+1].para + s[c+1].size <= s[k].para)
        BY <1>0, <2>1, MemAssumption
      <4>3. Spent(s, k)
        BY <1>0, <4>1, <4>2 DEF Sound, Ordered
      <4>4. s[k].para = 0 /\ s[k].size = 0
        BY <4>1, <4>3 DEF Spent
      <4> QED BY <4>1, <4>4
    <3> QED BY <3>1, <3>2
  <2>2. CASE j > c + 1
    <3>1. \A k \in 1..Len(s) : k >= j => t[k] = s[k]
      BY <1>0, <1>7, <2>0, <2>2
    <3>2. ~Spent(s, j)
      BY <1>6, <3>1 DEF Spent
    <3>3. /\ s[i].para + s[i].size <= s[j].para
          /\ s[c+1].para + s[c+1].size <= s[j].para
      BY <1>0, <2>0, <2>2, <3>2 DEF Sound, Ordered
    <3>4. t[j] = s[j]
      BY <2>0, <3>1
    <3>5. ~(e.para = 0 /\ e.size = 0 /\ s[c+1].para + s[c+1].size = Total)
      BY <1>0, <3>3, MemAssumption
    <3>6. CASE i = c
      <4>1. s[c].para + n <= s[j].para
        <5> DEFINE x == s[c].para + n    y == s[c+1].para + s[c+1].size
                   z == s[j].para
        <5>1. x \in Nat /\ y \in Nat /\ z \in Nat
          <6>1. z \in Nat
            BY <1>0
          <6>2. x \in Nat /\ y \in Nat
            BY <1>8
          <6> QED BY <6>1, <6>2
        <5>2. x <= y /\ y <= z
          BY <1>8, <3>3
        <5> HIDE DEF x, y, z
        <5>3. x <= z
          BY <5>1, <5>2
        <5> QED BY <5>3 DEF x, z
      <4> QED BY <1>2, <1>7, <3>4, <3>6, <4>1
    <3>7. CASE i = c + 1
      <4>1. (s[c+1].para + d) + (s[c+1].size - d) <= s[j].para
        BY <1>b, <3>3
      <4> QED BY <1>3, <1>7, <1>9, <3>4, <3>5, <3>7, <4>1
    <3>8. CASE i # c /\ i # c + 1
      BY <1>7, <3>3, <3>4, <3>8
    <3> QED BY <3>6, <3>7, <3>8
  <2>3. CASE j = c + 1
    <3>1. e.para = s[c+1].para + d
      BY <1>9, <2>1, <2>3
    <3>2. ~Spent(s, c + 1)
      BY <1>0, <1>1 DEF Spent
    <3>3. s[i].para + s[i].size <= s[c+1].para
      BY <1>0, <2>3, <3>2 DEF Sound, Ordered
    <3>4. CASE i = c
      BY <1>2, <1>7, <1>8, <2>3, <3>1, <3>4
    <3>5. CASE i # c
      <4>1. t[i] = s[i]
        BY <1>7, <2>0, <2>3, <3>5
      <4>2. s[i].para + s[i].size <= s[c+1].para + d
        <5>1. s[i].para + s[i].size \in Nat
          BY <1>0
        <5> QED BY <1>1, <1>c, <3>3, <5>1
      <4> QED BY <1>7, <2>3, <3>1, <4>1, <4>2
    <3> QED BY <3>4, <3>5
  <2>4. CASE j <= c
    <3>1. ~Spent(s, j)
      BY <1>0, <1>1, <2>0, <2>4 DEF Spent
    <3>2. s[i].para + s[i].size <= s[j].para
      BY <3>1 DEF Sound, Ordered
    <3>3. t[i] = s[i]
      <4>1. i # c /\ i # c + 1
        BY <1>0, <2>0, <2>4
      <4> QED BY <1>7, <4>1
    <3>4. t[j].para = s[j].para
      <4>1. CASE j = c
        BY <1>2, <1>7, <4>1
      <4>2. CASE j # c
        <5>1. j # c + 1
          BY <1>0, <2>0, <2>4
        <5> QED BY <1>7, <4>2, <5>1
      <4> QED BY <4>1, <4>2
    <3> QED BY <3>2, <3>3, <3>4
  <2> QED BY <1>0, <2>0, <2>2, <2>3, <2>4
<1> QED BY <1>3, <1>6, <1>7, <1>10, <1>11 DEF Sound, t, m

-----------------------------------------------------------------------------
(* The invariant.                                                          *)

\* What is known of the list and of the call wherever the allocator is.
LEMMA StateFacts ==
  ASSUME IInv
  PROVE  /\ nodes \in Seq(Node) /\ DOMAIN nodes = 1..Len(nodes)
         /\ Len(nodes) \in Nat
         /\ req.size \in Size /\ req.size \in Nat
         /\ ret.ptr \in Para
         /\ \A i \in 1..Len(nodes) : nodes[i] \in Node
BY LenProperties, ElementOfSeq, MemAssumption DEF IInv, TypeOK, Request, Reply, Size

\* A call carries values the registers can hold.
LEMMA CallsAreRequests ==
  ASSUME NEW r \in Calls
  PROVE  r \in Request /\ r # NoReq /\ r.op \in {"alloc", "free", "resize"}
<1>1. 0 \in Size /\ 0 \in Para
  BY MemAssumption DEF Size, Para
<1>2. CASE \E n \in Size : r = AllocReq(n)
  BY <1>1, <1>2 DEF AllocReq, NoReq, Request
<1>3. CASE \E p \in Para : r = FreeReq(p)
  BY <1>1, <1>3 DEF FreeReq, NoReq, Request
<1>4. CASE \E n \in Size, p \in Para : r = ResizeReq(n, p)
  BY <1>4 DEF ResizeReq, NoReq, Request
<1> QED BY <1>2, <1>3, <1>4 DEF Calls

\* Returning to the caller keeps the types, given that the list does.
LEMMA ReturnTypeOK ==
  ASSUME NEW e \in {"none", "oom", "mba"}, NEW p \in Para,
         Return(e, p), IInv, nodes' \in Seq(Node), Len(nodes') > 0,
         pc # "condense"
  PROVE  TypeOK'
<1>1. ret' \in Reply
  BY DEF Return, Reply
<1>2. req' \in Request /\ req' = NoReq
  BY MemAssumption DEF Return, Request, NoReq, Size, Para
<1> QED BY <1>1, <1>2 DEF Return, IInv, TypeOK

THEOREM InitIInv == Init => IInv
<1> SUFFICES ASSUME Init PROVE IInv
  OBVIOUS
<1> DEFINE n == [para |-> 0, size |-> Total, in_use |-> FALSE]
<1>1. n \in Node /\ n.para + n.size <= Total
  BY MemAssumption DEF Node, Para
<1>2. nodes = <<n>>
  BY DEF Init
<1> HIDE DEF n
<1>3. nodes \in Seq(Node) /\ Len(nodes) = 1 /\ nodes[1] = n
  BY <1>1, <1>2
<1>4. req \in Request /\ req.op = "alloc" /\ ret \in Reply
  BY MemAssumption DEF Init, AllocReq, NoReq, Request, Reply, Size, Para
<1>5. TypeOK
  BY <1>3, <1>4 DEF Init, TypeOK, AllocReq
<1>6. Bounded(nodes) /\ Ordered(nodes)
  BY <1>1, <1>3 DEF Bounded, Ordered
<1> QED BY <1>3, <1>5, <1>6 DEF IInv, Sound

THEOREM NextIInv == IInv /\ [Next]_vars => IInv'
<1> SUFFICES ASSUME IInv, [Next]_vars PROVE IInv'
  OBVIOUS
<1>s. /\ nodes \in Seq(Node) /\ DOMAIN nodes = 1..Len(nodes)
      /\ Len(nodes) \in Nat
      /\ req.size \in Size /\ req.size \in Nat
      /\ ret.ptr \in Para
      /\ \A i \in 1..Len(nodes) : nodes[i] \in Node
  BY StateFacts
\* The steps that leave the list alone need only keep the types.
<1>u. ASSUME TypeOK', nodes' = nodes PROVE IInv'
  BY <1>u DEF IInv, Sound, Bounded, Ordered, Spent
<1>1. ASSUME NEW r \in Calls, Call(r) PROVE IInv'
  <2>1. TypeOK'
    BY <1>1, <1>s, CallsAreRequests DEF Call, IInv, TypeOK
  <2> QED BY <1>1, <1>u, <2>1 DEF Call
<1>4. CASE CondenseMerge
  <2>1. /\ cur \in 1..Len(nodes) /\ cur < Len(nodes)
        /\ nodes[cur].para + nodes[cur].size = nodes[cur+1].para
        /\ nodes' = Merge(nodes, cur)
    BY <1>4 DEF CondenseMerge, Mergeable, IInv, TypeOK
  <2>2. Sound(nodes') /\ Len(nodes') = Len(nodes) - 1
    BY <2>1, MergeSound DEF IInv
  <2>3. cur \in 1..Len(nodes')
    BY <1>s, <2>1, <2>2
  <2>4. TypeOK'
    BY <1>4, <1>s, <2>1, <2>2, <2>3 DEF CondenseMerge, IInv, TypeOK, Sound
  <2> QED BY <2>2, <2>4 DEF IInv
<1>5. CASE CondenseAdvance
  <2>1. cur' \in 1..Len(nodes) /\ cur' \in Nat
    BY <1>5, <1>s DEF CondenseAdvance, IInv, TypeOK
  <2>2. TypeOK'
    BY <1>5, <2>1 DEF CondenseAdvance, IInv, TypeOK
  <2> QED BY <1>5, <1>u, <2>2 DEF CondenseAdvance
<1>6. CASE CondenseDone
  <2>1. TypeOK'
    BY <1>6, <1>s DEF CondenseDone, IInv, TypeOK
  <2> QED BY <1>6, <1>u, <2>1 DEF CondenseDone
<1>7. ASSUME NEW i \in DOMAIN nodes, AllocFit(i) PROVE IInv'
  <2>0. /\ i \in 1..Len(nodes) /\ nodes[i] \in Node
        /\ nodes[i].para \in Para /\ nodes[i].size \in Nat
    BY <1>s, NodeFields DEF Node
  <2>1. /\ req.size <= nodes[i].size
        /\ nodes' = IF req.size < nodes[i].size THEN Split(nodes, i, req.size)
                    ELSE Take(nodes, i)
        /\ Return("none", nodes[i].para)
        /\ pc = "search"
    BY <1>7 DEF AllocFit, FirstFit, Fits
  <2>2. ASSUME req.size < nodes[i].size
        PROVE  Sound(nodes') /\ Len(nodes') = Len(nodes) + 1
    BY <1>s, <2>0, <2>1, <2>2, SplitSound DEF IInv
  <2>3. ASSUME ~(req.size < nodes[i].size)
        PROVE  Sound(nodes') /\ Len(nodes') = Len(nodes)
    <3> DEFINE m == [nodes[i] EXCEPT !.in_use = TRUE]
    <3>1. m \in Node /\ m.para = nodes[i].para /\ m.size <= nodes[i].size
      <4>1. m \in Node /\ m.para = nodes[i].para /\ m.size = nodes[i].size
        BY <2>0 DEF Node
      <4> QED BY <2>0, <4>1
    <3>2. nodes' = [nodes EXCEPT ![i] = m]
      BY <2>1, <2>3 DEF Take
    <3> HIDE DEF m
    <3> QED BY <2>0, <3>1, <3>2, ShorterSound DEF IInv
  <2>4. Sound(nodes') /\ Len(nodes') > 0
    BY <1>s, <2>0, <2>2, <2>3
  <2>5. TypeOK'
    BY <2>0, <2>1, <2>4, ReturnTypeOK DEF Sound
  <2> QED BY <2>4, <2>5 DEF IInv
<1>8. CASE AllocFail
  <2>1. TypeOK'
    BY <1>8, <1>s, ReturnTypeOK DEF AllocFail, IInv, TypeOK
  <2> QED BY <1>8, <1>u, <2>1 DEF AllocFail
<1>9. CASE NotFound
  <2>1. TypeOK'
    BY <1>9, <1>s, ReturnTypeOK DEF NotFound, IInv, TypeOK
  <2> QED BY <1>9, <1>u, <2>1 DEF NotFound
<1>10. ASSUME NEW i \in DOMAIN nodes, Free(i) PROVE IInv'
  <2> DEFINE m == [nodes[i] EXCEPT !.in_use = FALSE]
  <2>0. i \in 1..Len(nodes) /\ nodes[i] \in Node /\ nodes[i].size \in Nat
    BY <1>s, NodeFields
  <2>1. m \in Node /\ m.para = nodes[i].para /\ m.size <= nodes[i].size
    <3>1. m \in Node /\ m.para = nodes[i].para /\ m.size = nodes[i].size
      BY <2>0 DEF Node
    <3> QED BY <2>0, <3>1
  <2>2. nodes' = [nodes EXCEPT ![i] = m] /\ Return("none", ret.ptr) /\ pc = "find"
    BY <1>10 DEF Free, Drop
  <2> HIDE DEF m
  <2>3. Sound(nodes') /\ Len(nodes') = Len(nodes)
    BY <2>0, <2>1, <2>2, ShorterSound DEF IInv
  <2>4. TypeOK'
    BY <1>s, <2>0, <2>2, <2>3, ReturnTypeOK DEF Sound
  <2> QED BY <2>3, <2>4 DEF IInv
<1>11. ASSUME NEW i \in DOMAIN nodes, ResizeCrash(i) PROVE IInv'
  <2>1. TypeOK'
    BY <1>11, <1>s DEF ResizeCrash, Resizing, IInv, TypeOK
  <2> QED BY <1>11, <1>u, <2>1 DEF ResizeCrash
<1>12. ASSUME NEW i \in DOMAIN nodes, ResizeNoRoom(i) PROVE IInv'
  <2>1. TypeOK'
    BY <1>12, <1>s, ReturnTypeOK DEF ResizeNoRoom, Resizing, IInv, TypeOK
  <2> QED BY <1>12, <1>u, <2>1 DEF ResizeNoRoom
<1>13. ASSUME NEW i \in DOMAIN nodes, ResizeGrow(i) PROVE IInv'
  <2>0. i \in 1..Len(nodes) /\ i < Len(nodes) /\ i + 1 \in 1..Len(nodes)
        /\ nodes[i].size \in Nat /\ nodes[i+1].size \in Nat
    BY <1>13, <1>s, NodeFields DEF ResizeGrow
  <2>1. /\ req.size > nodes[i].size /\ req.size - nodes[i].size <= nodes[i+1].size
        /\ nodes' = Grow(nodes, i, req.size)
        /\ Return("none", ret.ptr) /\ pc = "find"
    BY <1>13, <1>s, <2>0 DEF ResizeGrow, Resizing, Wanted, HasRoom
  <2>2. Sound(nodes') /\ Len(nodes') = Len(nodes)
    BY <1>s, <2>0, <2>1, GrowSound DEF IInv
  <2>3. TypeOK'
    BY <1>s, <2>0, <2>1, <2>2, ReturnTypeOK DEF Sound
  <2> QED BY <2>2, <2>3 DEF IInv
<1>14. ASSUME NEW i \in DOMAIN nodes, ResizeShrink(i) PROVE IInv'
  <2> DEFINE m == [nodes[i] EXCEPT !.size = req.size]
  <2>0. i \in 1..Len(nodes) /\ nodes[i] \in Node /\ nodes[i].size \in Nat
    BY <1>s, NodeFields
  <2>1. m \in Node /\ m.para = nodes[i].para /\ m.size <= nodes[i].size
    <3>1. req.size \in 0..Total
      BY <1>s, MemAssumption DEF Size
    <3>2. req.size <= nodes[i].size
      BY <1>14, <1>s, <2>0 DEF ResizeShrink, Wanted
    <3> QED BY <2>0, <3>1, <3>2 DEF Node
  <2>2. nodes' = [nodes EXCEPT ![i] = m] /\ Return("none", ret.ptr) /\ pc = "find"
    BY <1>14 DEF ResizeShrink, Resizing
  <2> HIDE DEF m
  <2>3. Sound(nodes') /\ Len(nodes') = Len(nodes)
    BY <2>0, <2>1, <2>2, ShorterSound DEF IInv
  <2>4. TypeOK'
    BY <1>s, <2>0, <2>2, <2>3, ReturnTypeOK DEF Sound
  <2> QED BY <2>3, <2>4 DEF IInv
<1>15. CASE Finish
  <2>1. nodes' \in Seq(Node) /\ Len(nodes') = 0
    BY <1>15 DEF Finish
  <2>2. TypeOK'
    BY <1>15, <2>1 DEF Finish, IInv, TypeOK
  <2>3. Sound(nodes')
    BY <2>1 DEF Sound, Bounded, Ordered
  <2> QED BY <2>2, <2>3 DEF IInv
<1>16. CASE UNCHANGED vars
  BY <1>16, <1>u DEF vars, IInv, TypeOK
<1> QED BY <1>1, <1>4, <1>5, <1>6, <1>7, <1>8, <1>9, <1>10, <1>11,
           <1>12, <1>13, <1>14, <1>15, <1>16
        DEF Next, Step, Condense, Resize

THEOREM Invariance == Spec => []IInv
BY InitIInv, NextIInv, PTL DEF Spec

\* Every variable keeps to the values its C type can hold, and the condensing
\* loop never leaves the list, for every arena and every sequence of calls.
THEOREM TypeCorrect == Spec => []TypeOK
<1>1. IInv => TypeOK
  BY DEF IInv
<1> QED BY <1>1, Invariance, PTL

\* No two blocks of the list ever share a paragraph and none leaves the arena,
\* for every arena and every sequence of calls.
THEOREM BlocksApart == Spec => []NoOverlap
<1>1. IInv => NoOverlap
  <2> SUFFICES ASSUME IInv PROVE NoOverlap
    OBVIOUS
  <2>0. /\ DOMAIN nodes = 1..Len(nodes) /\ Len(nodes) \in Nat
        /\ \A i \in 1..Len(nodes) :
             /\ nodes[i].para \in Nat /\ nodes[i].size \in Nat
             /\ nodes[i].para + nodes[i].size <= Total
    BY StateFacts, NodeFields DEF IInv, Sound, Bounded
  <2>1. ASSUME NEW i \in 1..Len(nodes) PROVE Cells(i) \subseteq Para
    BY <2>0, MemAssumption DEF Cells, Para
  <2>2. ASSUME NEW i \in 1..Len(nodes), NEW j \in 1..Len(nodes), i < j
        PROVE  Cells(i) \intersect Cells(j) = {}
    <3>1. CASE nodes[i].para + nodes[i].size <= nodes[j].para
      BY <2>0, <3>1 DEF Cells
    <3>2. CASE Spent(nodes, j)
      <4>1. nodes[j].size = 0
        BY <2>0, <3>2 DEF Spent
      <4> QED BY <2>0, <4>1 DEF Cells
    <3> QED BY <2>2, <3>1, <3>2 DEF IInv, Sound, Ordered
  <2> QED BY <2>0, <2>1, <2>2 DEF NoOverlap
<1> QED BY <1>1, Invariance, PTL

-----------------------------------------------------------------------------
(* What the condensing loop leaves, and what "out of memory" then means.   *)

\* Behind the loop's position no free node goes on where the one before it
\* ends, and nowhere once the loop is through.
Condensed ==
  /\ pc = "condense" => \A k \in 1..(cur - 1) : ~Mergeable(k)
  /\ pc = "search" => \A k \in 1..(Len(nodes) - 1) : ~Mergeable(k)

LEMMA InitCondensed == Init => Condensed
BY DEF Init, Condensed

\* A merge leaves the nodes before it, and where the merged node starts.
LEMMA MergeCondensed == ASSUME IInv, Condensed, CondenseMerge PROVE Condensed'
<1>1. /\ pc = "condense" /\ pc' = "condense" /\ cur' = cur
      /\ cur \in 1..Len(nodes) /\ cur < Len(nodes) /\ Len(nodes) \in Nat
      /\ nodes' = Merge(nodes, cur) /\ Sound(nodes)
      /\ nodes[cur].para + nodes[cur].size = nodes[cur+1].para
  BY StateFacts DEF CondenseMerge, Mergeable, IInv, TypeOK
<1>2. /\ \A k \in 1..(cur - 1) : nodes'[k] = nodes[k]
      /\ nodes'[cur].in_use = nodes[cur].in_use /\ nodes'[cur].para = nodes[cur].para
  BY <1>1, MergeSound
<1>3. ASSUME NEW k \in 1..(cur - 1) PROVE ~Mergeable(k)'
  <2>1. ~Mergeable(k)
    BY <1>1 DEF Condensed
  <2>2. nodes'[k] = nodes[k]
    BY <1>2
  <2>3. nodes'[k+1].in_use = nodes[k+1].in_use /\ nodes'[k+1].para = nodes[k+1].para
    <3>1. k + 1 = cur \/ k + 1 \in 1..(cur - 1)
      BY <1>1
    <3> QED BY <1>2, <3>1
  <2> QED BY <2>1, <2>2, <2>3 DEF Mergeable
<1> QED BY <1>1, <1>3 DEF Condensed

LEMMA NextCondensed == ASSUME IInv, Condensed, [Next]_vars PROVE Condensed'
<1>1. CASE CondenseMerge
  BY <1>1, MergeCondensed
<1>2. CASE CondenseAdvance
  <2>1. /\ pc = "condense" /\ pc' = "condense" /\ nodes' = nodes
        /\ cur' = cur + 1 /\ cur \in Nat /\ ~Mergeable(cur)
    BY <1>2 DEF CondenseAdvance, IInv, TypeOK
  <2>2. ASSUME NEW k \in 1..(cur' - 1) PROVE ~Mergeable(k)'
    <3>1. k = cur \/ k \in 1..(cur - 1)
      BY <2>1
    <3>2. ~Mergeable(k)
      BY <2>1, <3>1 DEF Condensed
    <3> QED BY <2>1, <3>2 DEF Mergeable
  <2> QED BY <2>1, <2>2 DEF Condensed
<1>3. CASE CondenseDone
  <2>1. /\ pc = "condense" /\ nodes' = nodes /\ cur = Len(nodes)
        /\ pc' # "condense"
    BY <1>3 DEF CondenseDone
  <2>2. \A k \in 1..(Len(nodes') - 1) : ~Mergeable(k)'
    BY <2>1 DEF Condensed, Mergeable
  <2> QED BY <2>1, <2>2 DEF Condensed
<1>4. ASSUME NEW r \in Calls, Call(r) PROVE Condensed'
  <2>1. pc' # "search" /\ cur' = 1
    BY <1>4 DEF Call, IInv, TypeOK
  <2> QED BY <2>1 DEF Condensed
<1>5. ASSUME pc' \in {"idle", "crashed", "finished"} PROVE Condensed'
  BY <1>5 DEF Condensed
<1>6. AllocFail \/ NotFound \/ Finish \/ (\E i : AllocFit(i) \/ Free(i) \/ Resize(i))
        => pc' \in {"idle", "crashed", "finished"}
  BY DEF AllocFail, NotFound, Finish, AllocFit, Free, Resize, ResizeCrash, ResizeNoRoom,
         ResizeGrow, ResizeShrink, Return
<1>7. CASE UNCHANGED vars
  BY <1>7 DEF vars, Condensed, Mergeable
<1> QED BY <1>1, <1>2, <1>3, <1>4, <1>5, <1>6, <1>7 DEF Next, Step, Condense

\* Once the list is condensed, a run of free paragraphs lies in one free node:
\* where the node of its first paragraph ends, the run must go on in another
\* free node, and between the two there is room for empty nodes only.  A free
\* one among them would have been merged, and the handle of one in use would
\* lie in the run.
LEMMA RunInOneNode ==
  ASSUME IInv, Condensed, pc = "search", NEW p \in Para, NEW n \in Nat, FreeRun(p, n)
  PROVE  \E i \in 1..Len(nodes) : ~nodes[i].in_use /\ n <= nodes[i].size
<1>0. /\ DOMAIN nodes = 1..Len(nodes) /\ Len(nodes) \in Nat /\ p \in Nat /\ n > 0
      /\ \A i \in 1..Len(nodes) :
           nodes[i].para \in Nat /\ nodes[i].size \in Nat /\ nodes[i].in_use \in BOOLEAN
  BY StateFacts, NodeFields DEF FreeRun, Para
<1>1. ASSUME NEW q \in Nat, p <= q, q < p + n
      PROVE  \E i \in 1..Len(nodes) :
               /\ ~nodes[i].in_use
               /\ nodes[i].para <= q /\ q < nodes[i].para + nodes[i].size
  <2>1. q \in p..(p + n - 1)
    BY <1>0, <1>1
  <2>2. q \in FreeCells
    BY <2>1 DEF FreeRun
  <2>3. PICK i \in 1..Len(nodes) : ~nodes[i].in_use /\ q \in Cells(i)
    BY <1>0, <2>2 DEF FreeCells
  <2> QED BY <1>0, <2>3 DEF Cells
<1>2. PICK i \in 1..Len(nodes) :
        /\ ~nodes[i].in_use
        /\ nodes[i].para <= p /\ p < nodes[i].para + nodes[i].size
  BY <1>0, <1>1
<1> DEFINE q == nodes[i].para + nodes[i].size
<1>3. q \in Nat /\ p < q /\ nodes[i].size > 0
  BY <1>0, <1>2
<1>4. CASE p + n <= q
  BY <1>0, <1>2, <1>4
<1>5. CASE q < p + n
  <2>1. PICK j \in 1..Len(nodes) :
          /\ ~nodes[j].in_use
          /\ nodes[j].para <= q /\ q < nodes[j].para + nodes[j].size
    <3> HIDE DEF q
    <3>1. p <= q
      BY <1>0, <1>3
    <3> QED BY <1>1, <1>3, <1>5, <3>1
  <2>2. /\ i \in Nat /\ j \in Nat /\ nodes[j].size > 0 /\ i # j
        /\ nodes[i].para \in Nat /\ nodes[i].size \in Nat
        /\ nodes[j].para \in Nat /\ nodes[j].size \in Nat
    BY <1>0, <1>3, <2>1
  <2>3. \A a, b \in 1..Len(nodes) : a < b /\ nodes[b].size > 0 =>
          nodes[a].para + nodes[a].size <= nodes[b].para
    <3>1. ASSUME NEW a \in 1..Len(nodes), NEW b \in 1..Len(nodes), a < b, nodes[b].size > 0
          PROVE  nodes[a].para + nodes[a].size <= nodes[b].para
      <4>1. ~Spent(nodes, b)
        BY <1>0, <3>1 DEF Spent
      <4> QED BY <3>1, <4>1 DEF IInv, Sound, Ordered
    <3> QED BY <3>1
  <2>4. i < j
    <3>1. ~(j < i)
      <4>1. j < i => nodes[j].para + nodes[j].size <= nodes[i].para
        BY <1>3, <2>3
      <4>2. nodes[i].para <= q
        BY <2>2
      <4>3. nodes[j].para + nodes[j].size \in Nat
        BY <2>2
      <4> HIDE DEF q
      <4> QED BY <1>3, <2>1, <2>2, <4>1, <4>2, <4>3
    <3> QED BY <2>2, <3>1
  <2>5. nodes[j].para = q
    <3>1. q <= nodes[j].para
      BY <2>2, <2>3, <2>4
    <3> HIDE DEF q
    <3> QED BY <1>3, <2>1, <2>2, <3>1
  <2>6. i \in 1..(Len(nodes) - 1) /\ i + 1 \in 1..Len(nodes) /\ i < i + 1
    BY <1>0, <2>4
  <2>7. ~Mergeable(i)
    BY <2>6 DEF Condensed
  <2>8. nodes[i+1].para = q
    <3>1. CASE i + 1 = j
      BY <2>5, <3>1
    <3>2. CASE i + 1 < j
      <4>1. nodes[i+1].para + nodes[i+1].size <= q
        BY <2>2, <2>3, <2>5, <2>6, <3>2
      <4>2. q <= nodes[i+1].para
        <5>1. ~Spent(nodes, i + 1)
          BY <2>2, <3>2 DEF Spent
        <5> QED BY <2>6, <5>1 DEF IInv, Sound, Ordered
      <4>3. nodes[i+1].para \in Nat /\ nodes[i+1].size \in Nat
        BY <1>0, <2>6
      <4> HIDE DEF q
      <4> QED BY <1>3, <4>1, <4>2, <4>3
    <3> QED BY <2>2, <2>4, <3>1, <3>2
  <2>9. nodes[i+1].in_use
    BY <1>2, <2>7, <2>8 DEF Mergeable
  <2>10. nodes[i+1].para \notin (p + 1)..(p + n - 1)
    BY <1>0, <2>6, <2>9 DEF FreeRun
  <2>11. q \in (p + 1)..(p + n - 1)
    <3> HIDE DEF q
    <3> QED BY <1>0, <1>3, <1>5
  <2> HIDE DEF q
  <2> QED BY <2>8, <2>10, <2>11
<1> HIDE DEF q
<1> QED BY <1>0, <1>3, <1>4, <1>5

THEOREM CondensedInvariance == Spec => []Condensed
<1>1. IInv /\ Condensed /\ [Next]_vars => Condensed'
  BY NextCondensed
<1> QED BY <1>1, InitCondensed, Invariance, PTL DEF Spec

\* An allocation is refused only when no run of free paragraphs is long enough,
\* however the free nodes that make up the run came about, for every arena and
\* every sequence of calls.
THEOREM OomAlwaysFull == Spec => OomOnlyWhenFull
<1>1. IInv /\ Condensed => (AllocFail => \A p \in Para : ~FreeRun(p, req.size))
  <2> SUFFICES ASSUME IInv, Condensed, AllocFail, NEW p \in Para, FreeRun(p, req.size)
               PROVE  FALSE
    OBVIOUS
  <2>1. pc = "search" /\ \A i \in DOMAIN nodes : ~Fits(i)
    BY DEF AllocFail
  <2>2. req.size \in Nat /\ DOMAIN nodes = 1..Len(nodes)
    BY StateFacts
  <2>3. PICK i \in 1..Len(nodes) : ~nodes[i].in_use /\ req.size <= nodes[i].size
    BY <2>1, <2>2, RunInOneNode
  <2> QED BY <2>1, <2>2, <2>3 DEF Fits
<1> QED BY <1>1, Invariance, CondensedInvariance, PTL DEF OomOnlyWhenFull

=============================================================================
