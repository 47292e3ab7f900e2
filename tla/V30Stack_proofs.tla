--------------------------- MODULE V30Stack_proofs ---------------------------
(***************************************************************************)
(* Proofs about the stack of the V30MZ, for a segment of any size, any     *)
(* start of SS:SP, any number of items and any nesting level.              *)
(*                                                                         *)
(* The words on the stack are counted from its bottom: word d is at        *)
(* Pos(d), which never wraps, although SP does when it starts at 0.  The   *)
(* invariant says which words an item occupies (Stacked) and what the      *)
(* processor relies on finding in them (Saved): POPA takes SP from the     *)
(* stack, LEAVE takes BP, and returns take CS and IP.                      *)
(***************************************************************************)
EXTENDS V30Stack, TLAPS

-----------------------------------------------------------------------------
(* Offsets.                                                                *)

Base == Room + 1
Pos(d) == Base - d

\* Where the stack begins: at 0 only in segment 0.
Start == [ss |-> ss, sp |-> top] \in Starts

LEMMA Sizes ==
  /\ SegSize \in Nat /\ SegSize > 2
  /\ Offset = 0..(SegSize - 1) /\ Offset \subseteq Word /\ Word \subseteq Int
  /\ 0 \in Word
<1>1. /\ SegSize \in Nat /\ SegSize > 2 /\ SegSize <= 2^15
      /\ 2^15 <= 2^16 /\ 2^16 \in Nat /\ 2^15 \in Nat
  BY StackAssumption
<1>2. Offset \subseteq Word /\ Word \subseteq Int /\ 0 \in Word
  <2> DEFINE M == 2^16 - 1
  <2>1. M \in Nat /\ SegSize - 1 <= M
    BY <1>1
  <2>2. Word = 0..M /\ Offset = 0..(SegSize - 1)
    BY DEF Word, Offset
  <2> HIDE DEF M
  <2> QED BY <1>1, <2>1, <2>2
<1> QED BY <1>1, <1>2 DEF Offset

LEMMA Program ==
  /\ MaxItems \in Nat /\ Levels \subseteq 0..31
  /\ MaxLocals \in Nat /\ MaxArgs \in Nat
  /\ Values \subseteq Word /\ Targets \subseteq Word /\ Code \subseteq Word
  /\ Files \subseteq [regs : Regs, psw : SUBSET Flag]
<1>1. MaxItems \in Nat /\ Levels \subseteq 0..31
  BY StackAssumption
<1> QED BY <1>1, RegsAssumption

LEMMA StartFacts ==
  ASSUME Start
  PROVE  /\ top \in Nat /\ top < SegSize /\ ss \in Word
         /\ top = 0 => ss = 0
         /\ Base = (IF top = 0 THEN SegSize ELSE top)
         /\ Base \in Nat /\ 1 <= Base /\ Base <= SegSize
         /\ Room = Base - 1 /\ Room \in Nat /\ Room < SegSize
<1>1. /\ top \in Offset /\ ss \in Word /\ (top = 0 => ss = 0)
  <2> DEFINE r == [ss |-> ss, sp |-> top]
  <2>1. r \in Starts /\ r.ss = ss /\ r.sp = top
    BY DEF Start
  <2> HIDE DEF r
  <2>2. r \in [ss : Word, sp : Offset] /\ (r.sp = 0 => r.ss = 0)
    BY <2>1, StackAssumption
  <2> QED BY <2>1, <2>2
<1> QED BY <1>1, Sizes DEF Base, Room

\* A uint16 offset, within a segment of where it should be.
LEMMA Around ==
  ASSUME NEW x \in Int
  PROVE  /\ At(x) \in Offset
         /\ 0 <= x /\ x < SegSize => At(x) = x
         /\ SegSize <= x /\ x < 2 * SegSize => At(x) = x - SegSize
         /\ -SegSize <= x /\ x < 0 => At(x) = x + SegSize
<1> DEFINE q == x \div SegSize
           r == x % SegSize
<1>1. SegSize \in Nat /\ SegSize > 0
  BY Sizes
<1>2. q \in Int /\ r \in 0..(SegSize - 1) /\ x = SegSize * q + r
  BY <1>1
<1>3. At(x) = r
  BY DEF At
<1> HIDE DEF q, r
<1>4. /\ q >= 2 => SegSize * q >= 2 * SegSize
      /\ q <= -2 => SegSize * q <= -2 * SegSize
      /\ q = 1 => SegSize * q = SegSize
      /\ q = 0 => SegSize * q = 0
      /\ q = -1 => SegSize * q = -SegSize
      /\ SegSize * q \in Int
  <2>1. ASSUME q >= 2 PROVE SegSize * q >= 2 * SegSize
    <3>1. SegSize * q = SegSize * (q - 2) + 2 * SegSize
      BY <1>1, <1>2
    <3>2. SegSize * (q - 2) >= 0
      BY <1>1, <1>2, <2>1
    <3> QED BY <1>1, <1>2, <3>1, <3>2
  <2>2. ASSUME q <= -2 PROVE SegSize * q <= -2 * SegSize
    <3>1. SegSize * q = -2 * SegSize - SegSize * (-2 - q)
      BY <1>1, <1>2
    <3>2. SegSize * (-2 - q) >= 0
      BY <1>1, <1>2, <2>2
    <3> QED BY <1>1, <1>2, <3>1, <3>2
  <2> QED BY <1>1, <1>2, <2>1, <2>2
<1> DEFINE p == SegSize * q
<1>5. p \in Int /\ x = p + r
  BY <1>2, <1>4
<1>6. q >= 2 \/ q = 1 \/ q = 0 \/ q = -1 \/ q <= -2
  BY <1>2
<1>7. \/ p >= 2 * SegSize \/ p = SegSize \/ p = 0 \/ p = -SegSize \/ p <= -2 * SegSize
  BY <1>4, <1>6
<1> HIDE DEF p
<1> QED BY <1>1, <1>2, <1>3, <1>5, <1>7, Sizes

\* SP above d words.
LEMMA Above ==
  ASSUME Start, NEW d \in 0..Room
  PROVE  /\ At(top - d) = IF d = 0 THEN top ELSE Pos(d)
         /\ At(top - d) \in Offset
<1>1. /\ top \in Nat /\ top < SegSize /\ SegSize \in Nat /\ d \in Nat /\ d <= Room
      /\ Base = (IF top = 0 THEN SegSize ELSE top) /\ Room = Base - 1 /\ Room \in Nat
  BY StartFacts, Sizes
<1> DEFINE x == top - d
<1>2. x \in Int /\ (x < 0 => top = 0 /\ d > 0) /\ -SegSize <= x /\ x < SegSize
  BY <1>1
<1>3. At(x) \in Offset /\ At(x) = IF x < 0 THEN x + SegSize ELSE x
  <2> HIDE DEF x
  <2> QED BY <1>2, Around
<1>4. (IF x < 0 THEN x + SegSize ELSE x) = IF d = 0 THEN top ELSE Base - d
  BY <1>1, <1>2
<1> QED BY <1>3, <1>4 DEF Pos

LEMMA Positions ==
  ASSUME Start, NEW d \in 1..Room
  PROVE  /\ Pos(d) \in Offset /\ Pos(d) >= 1 /\ Pos(d) \in Int
         /\ \A c \in 1..Room : Pos(c) = Pos(d) => c = d
BY StartFacts, Sizes DEF Pos

\* cpu_push of the words ws above d words.
LEMMA PushedWord ==
  ASSUME Start, NEW m \in [Offset \union {-1} -> Word], NEW d \in 0..Room,
         NEW ws \in Seq(Word), d + Len(ws) <= Room
  PROVE  /\ Pushed(m, At(top - d), ws) \in [Offset \union {-1} -> Word]
         /\ \A c \in 1..Room :
              Pushed(m, At(top - d), ws)[Pos(c)] =
                IF d < c /\ c <= d + Len(ws) THEN ws[c - d] ELSE m[Pos(c)]
<1> DEFINE s == At(top - d)
<1>1. /\ DOMAIN ws = 1..Len(ws) /\ Len(ws) \in Nat /\ \A i \in 1..Len(ws) : ws[i] \in Word
      /\ DOMAIN m = Offset \union {-1}
  OBVIOUS
<1>2. Pushed(m, s, ws) \in [Offset \union {-1} -> Word]
  <2>1. ASSUME NEW o \in Offset \union {-1}
        PROVE  (IF o >= 0 /\ At(s - o) \in DOMAIN ws THEN ws[At(s - o)] ELSE m[o]) \in Word
    BY <1>1
  <2> HIDE DEF s
  <2> QED BY <1>1, <2>1 DEF Pushed
<1>3. ASSUME NEW c \in 1..Room
      PROVE  Pushed(m, s, ws)[Pos(c)] =
                IF d < c /\ c <= d + Len(ws) THEN ws[c - d] ELSE m[Pos(c)]
  <2>1. Pos(c) \in DOMAIN m /\ Pos(c) >= 0
    BY <1>1, Positions
  <2>2. s = (IF d = 0 THEN top ELSE Pos(d)) /\ s \in Offset
    BY Above
  <2>3. s - Pos(c) \in Int /\ d \in Nat /\ c \in Nat
    BY <2>2, StartFacts, Positions, Sizes
  <2>4. At(s - Pos(c)) = IF d < c THEN c - d ELSE IF d = c THEN 0 ELSE SegSize + c - d
    <3> DEFINE x == s - Pos(c)
    <3>1. /\ Room \in Nat /\ SegSize \in Nat /\ Room < SegSize /\ Room = Base - 1
          /\ Base = (IF top = 0 THEN SegSize ELSE top) /\ top \in Nat
          /\ d <= Room /\ c <= Room /\ 1 <= c
      BY StartFacts, Sizes
    <3>2. x = c - d \/ (x = (c - d) - SegSize /\ d = 0)
      <4> HIDE DEF s
      <4> QED BY <2>2, <2>3, <3>1 DEF Pos
    <3>3. x \in Int /\ -SegSize <= x /\ x < SegSize
      <4> HIDE DEF s
      <4>1. x \in Int
        BY <2>3
      <4> HIDE DEF x
      <4> QED BY <2>3, <3>1, <3>2, <4>1
    <3>4. At(x) = IF x < 0 THEN x + SegSize ELSE x
      <4> HIDE DEF x
      <4> QED BY <3>3, Around
    <3> HIDE DEF x
    <3>5. At(x) = IF d < c THEN c - d ELSE IF d = c THEN 0 ELSE SegSize + c - d
      BY <2>3, <3>1, <3>2, <3>3, <3>4
    <3> QED BY <3>5 DEF x
  <2>5. At(s - Pos(c)) \in 1..Len(ws) <=> d < c /\ c <= d + Len(ws)
    <3> DEFINE z == At(s - Pos(c))
    <3>1. z = IF d < c THEN c - d ELSE IF d = c THEN 0 ELSE SegSize + c - d
      BY <2>4
    <3> HIDE DEF z
    <3>2. c <= Room /\ Room < SegSize /\ Room \in Nat /\ SegSize \in Nat /\ c >= 1
      BY StartFacts, Sizes
    <3> QED BY <1>1, <2>3, <3>1, <3>2 DEF z
  <2>6. Pushed(m, s, ws)[Pos(c)] =
          IF At(s - Pos(c)) \in 1..Len(ws) THEN ws[At(s - Pos(c))] ELSE m[Pos(c)]
    BY <1>1, <2>1 DEF Pushed
  <2> QED BY <2>4, <2>5, <2>6
<1> QED BY <1>2, <1>3

\* cpu_pop, from above d words.
LEMMA PoppedWord ==
  ASSUME Start, NEW d \in 1..Room, NEW k \in 1..d, NEW n \in Nat, k <= n,
         ~Overruns(At(top - d), n)
  PROVE  Popped(At(top - d), k) = mem[Pos(d - k + 1)]
<1> DEFINE s == At(top - d)
           e == d - k
<1>1. s = Pos(d) /\ s \in Offset /\ d \in Nat /\ k \in Nat /\ k <= d /\ 1 <= k /\ d <= Room
      /\ e \in Nat /\ e <= Room /\ k = d - e /\ d - k + 1 = e + 1
  BY Above, StartFacts
<1>2. At(s + k) = IF e = 0 THEN (IF top = 0 THEN 0 ELSE Base) ELSE Base - e
  <2>1. s + k = Base - e /\ s + k \in Int
    BY <1>1, StartFacts DEF Pos
  <2> HIDE DEF s, e
  <2> DEFINE x == s + k
  <2>a. x \in Int /\ x = Base - e
    BY <2>1
  <2> HIDE DEF x
  <2>b. /\ Base = (IF top = 0 THEN SegSize ELSE top) /\ Room = Base - 1
        /\ top \in Nat /\ top < SegSize /\ SegSize \in Nat /\ e \in Nat /\ e <= Room
    BY <1>1, StartFacts, Sizes
  <2>2. /\ 0 <= x /\ x <= SegSize
        /\ x = SegSize <=> e = 0 /\ top = 0
    BY <2>a, <2>b
  <2>c. ASSUME x = SegSize
        PROVE  At(x) = 0
    <3>1. SegSize <= x /\ x < 2 * SegSize /\ x - SegSize = 0
      BY <2>c, Sizes
    <3> QED BY <2>a, <3>1, Around
  <2>3. At(x) = IF x = SegSize THEN 0 ELSE x
    <3>1. CASE x = SegSize
      BY <2>c, <3>1
    <3>2. CASE x # SegSize
      <4>1. x < SegSize
        BY <2>a, <2>b, <2>2, <3>2
      <4> QED BY <2>a, <2>2, <3>2, <4>1, Around
    <3> QED BY <3>1, <3>2
  <2>4. At(x) = IF e = 0 THEN (IF top = 0 THEN 0 ELSE Base) ELSE Base - e
    BY <2>a, <2>b, <2>2, <2>3
  <2> QED BY <2>4 DEF x
<1>3. ~(e = 0 /\ top = 0)
  <2> SUFFICES ASSUME e = 0, top = 0 PROVE FALSE
    OBVIOUS
  <2>1. At(s + k) = 0 /\ ss = 0
    BY <1>2, StartFacts
  <2> QED BY <1>1, <2>1 DEF Overruns
<1>4. At(s + k) - 1 = Pos(e + 1)
  <2> HIDE DEF s, e
  <2> QED BY <1>1, <1>2, <1>3, StartFacts DEF Pos
<1> HIDE DEF s, e
<1> QED BY <1>1, <1>4 DEF Popped, s, e

\* What is kept when SP is above d words: these.
LEMMA KeptWord ==
  ASSUME Start, NEW m \in [Offset \union {-1} -> Word], NEW d \in 0..Room
  PROVE  /\ Kept(m, At(top - d)) \in [Offset \union {-1} -> Word]
         /\ \A c \in 1..d : Kept(m, At(top - d))[Pos(c)] = m[Pos(c)]
<1> DEFINE s == At(top - d)
<1>1. DOMAIN m = Offset \union {-1} /\ 0 \in Word
  BY Sizes
<1>2. Kept(m, s) \in [Offset \union {-1} -> Word]
  <2>1. ASSUME NEW o \in Offset \union {-1}
        PROVE  (IF o >= 0 /\ At(o - s) < At(top - s) THEN m[o] ELSE 0) \in Word
    BY <1>1
  <2> HIDE DEF s
  <2> QED BY <1>1, <2>1 DEF Kept
<1>3. ASSUME NEW c \in 1..d
      PROVE  Kept(m, s)[Pos(c)] = m[Pos(c)]
  <2>1. c \in 1..Room /\ d \in 1..Room /\ d \in Nat /\ c \in Nat /\ 1 <= c /\ c <= d /\ d <= Room
    BY StartFacts
  <2>2. Pos(c) \in DOMAIN m /\ Pos(c) >= 0
    BY <1>1, <2>1, Positions
  <2>3. s = Pos(d) /\ s \in Int
    BY <2>1, Above, Sizes
  <2>4. At(Pos(c) - s) = d - c
    <3> HIDE DEF s
    <3>a. Base \in Int /\ Room < SegSize /\ Room \in Nat /\ SegSize \in Nat
      BY StartFacts, Sizes
    <3>1. Pos(c) - s = d - c /\ d - c \in Int /\ 0 <= d - c /\ d - c < SegSize
      BY <2>1, <2>3, <3>a DEF Pos
    <3> QED BY <3>1, Around
  <2>5. At(top - s) = d
    <3> HIDE DEF s
    <3>1. top - s = d \/ (top = 0 /\ top - s = d - SegSize)
      BY <2>1, <2>3, StartFacts DEF Pos
    <3>2. top - s \in Int
      BY <2>3, StartFacts
    <3> DEFINE x == top - s
    <3>3. /\ x \in Int /\ d < SegSize /\ 0 <= d /\ SegSize \in Nat /\ d \in Nat
          /\ x = d \/ x = d - SegSize
      BY <2>1, <3>1, <3>2, StartFacts, Sizes
    <3> HIDE DEF x
    <3>4. At(x) = d
      BY <3>3, Around
    <3> QED BY <3>4 DEF x
  <2>6. At(Pos(c) - s) < At(top - s)
    BY <2>1, <2>4, <2>5
  <2> HIDE DEF s
  <2> QED BY <1>1, <2>2, <2>6 DEF Kept
<1> QED BY <1>2, <1>3

\* SP moved up or down from d words, without leaving the stack.
LEMMA Moved ==
  ASSUME Start, NEW d \in 0..Room, NEW e \in 0..Room, NEW j \in Int, j = d - e
  PROVE  At(At(top - d) + j) = At(top - e)
<1> DEFINE s == At(top - d)
           x == s + j
<1>1. /\ top \in Nat /\ top < SegSize /\ SegSize \in Nat
      /\ Base = (IF top = 0 THEN SegSize ELSE top) /\ Room = Base - 1 /\ Room \in Nat
      /\ d \in Nat /\ d <= Room /\ e \in Nat /\ e <= Room
  BY StartFacts, Sizes
<1>2. /\ s = IF d = 0 THEN top ELSE Base - d
      /\ At(top - e) = IF e = 0 THEN top ELSE Base - e
  BY Above DEF Pos
<1> DEFINE t == At(top - e)
<1> HIDE DEF s, t
<1>3. s \in Int /\ t \in Int
  BY <1>1, <1>2 DEF t
<1>4. x \in Int /\ 0 <= t /\ t < SegSize /\ (x = t \/ x = t + SegSize \/ x = t - SegSize)
  BY <1>1, <1>2, <1>3 DEF t
<1> HIDE DEF x
<1>5. At(x) = t
  <2>1. CASE x = t
    BY <1>4, <2>1, Around
  <2>2. CASE x = t + SegSize
    <3>1. SegSize <= x /\ x < 2 * SegSize /\ x - SegSize = t
      BY <1>1, <1>3, <1>4, <2>2
    <3> QED BY <1>4, <3>1, Around
  <2>3. CASE x = t - SegSize
    <3>1. -SegSize <= x /\ x < 0 /\ x + SegSize = t
      BY <1>1, <1>3, <1>4, <2>3
    <3> QED BY <1>4, <3>1, Around
  <2> QED BY <1>4, <2>1, <2>2, <2>3
<1> QED BY <1>5 DEF x, s, t

\* The flags are a word, and come back from it.
LEMMA PswWord ==
  ASSUME NEW p \in SUBSET Flag
  PROVE  /\ GetPsw(p) \in Word
         /\ SetPsw(GetPsw(p)) = p
<1> DEFINE bit(f) == IF f \in p THEN PswBit[f] ELSE 0
<1>1. Flag = {"cy", "p", "ac", "z", "s", "brk", "ie", "dir", "v", "md"}
  BY DEF Flag, PswBit
<1>2. /\ bit("cy") = (IF "cy" \in p THEN 1 ELSE 0) /\ bit("p") = (IF "p" \in p THEN 4 ELSE 0)
      /\ bit("ac") = (IF "ac" \in p THEN 16 ELSE 0) /\ bit("z") = (IF "z" \in p THEN 64 ELSE 0)
      /\ bit("s") = (IF "s" \in p THEN 128 ELSE 0) /\ bit("brk") = (IF "brk" \in p THEN 256 ELSE 0)
      /\ bit("ie") = (IF "ie" \in p THEN 512 ELSE 0) /\ bit("dir") = (IF "dir" \in p THEN 1024 ELSE 0)
      /\ bit("v") = (IF "v" \in p THEN 2048 ELSE 0) /\ bit("md") = (IF "md" \in p THEN 32768 ELSE 0)
  BY DEF PswBit
<1>3. GetPsw(p) = bit("cy") + bit("p") + bit("ac") + bit("z") + bit("s")
        + bit("brk") + bit("ie") + bit("dir") + bit("v") + bit("md") + 28674
  BY DEF GetPsw
<1> DEFINE w == GetPsw(p)
<1> HIDE DEF bit
<1>4. w \in Int /\ 0 <= w /\ w <= 65535
  BY <1>2, <1>3
<1>5. w \in Word
  <2> DEFINE M == 2^16 - 1
  <2>1. 65535 <= M /\ M \in Int
    OBVIOUS
  <2>2. Word = 0..M
    BY DEF Word
  <2> HIDE DEF M, w
  <2> QED BY <1>4, <2>1, <2>2
<1>6. /\ (w \div 1) % 2 = 1 <=> "cy" \in p
      /\ (w \div 4) % 2 = 1 <=> "p" \in p
      /\ (w \div 16) % 2 = 1 <=> "ac" \in p
      /\ (w \div 64) % 2 = 1 <=> "z" \in p
      /\ (w \div 128) % 2 = 1 <=> "s" \in p
      /\ (w \div 256) % 2 = 1 <=> "brk" \in p
      /\ (w \div 512) % 2 = 1 <=> "ie" \in p
      /\ (w \div 1024) % 2 = 1 <=> "dir" \in p
      /\ (w \div 2048) % 2 = 1 <=> "v" \in p
      /\ (w \div 32768) % 2 = 1 <=> "md" \in p
  BY <1>2, <1>3
<1>7. ASSUME NEW f \in Flag
      PROVE  f \in SetPsw(w) <=> f \in p
  BY <1>1, <1>6 DEF SetPsw, PswBit
<1>8. SetPsw(w) \subseteq Flag
  BY DEF SetPsw
<1> QED BY <1>5, <1>7, <1>8

-----------------------------------------------------------------------------
(* The inductive invariant.                                                *)

Kinds == {"word", "flags", "near", "far", "all", "frame"}
Items == [kind : Kinds, size : Nat, locals : Nat, under : Nat]

Sized(it) ==
  /\ it.kind \in {"word", "flags", "near"} => it.size = 1
  /\ it.kind = "far" => it.size = 2
  /\ it.kind = "all" => it.size = 8
  /\ it.kind = "frame" => it.locals < it.size /\ it.locals <= MaxLocals

\* The words of the first n items.
DepthOf(n) == IF n = 0 THEN 0 ELSE shape[n].under + shape[n].size

\* The items lie on each other without a gap; over items of one word each,
\* one counts their words by counting them.
Stacked ==
  /\ shape \in Seq(Items)
  /\ \A i \in DOMAIN shape : Sized(shape[i]) /\ shape[i].under = DepthOf(i - 1)
  /\ \A i, j \in DOMAIN shape : i < j => DepthOf(i) <= shape[j].under
  /\ \A i, j \in DOMAIN shape :
       i <= j /\ (\A l \in i..(j - 1) : shape[l].size = 1) =>
         shape[j].under = shape[i].under + (j - i)

Wd(i, k) == mem[Cell(i, k)]

\* w is a BP: that of a frame among the first n items, or that of the start.
Linked(w, n) == w = 0 \/ \E j \in 1..n : shape[j].kind = "frame" /\ w = Cell(j, 1)

SavedAt(i) ==
  /\ shape[i].kind = "near" => Wd(i, 1) \in Targets
  /\ shape[i].kind = "far" => Wd(i, 1) \in Code /\ Wd(i, 2) \in Targets
  /\ shape[i].kind = "all" => Wd(i, 5) = At(top - shape[i].under) /\ Linked(Wd(i, 6), i - 1)
  /\ shape[i].kind = "frame" => Linked(Wd(i, 1), i - 1)

Saved == (\A i \in DOMAIN shape : SavedAt(i)) /\ Linked(bp, Len(shape))

StackInv == TypeOK /\ Balanced /\ Stacked /\ Saved

LEMMA Structure ==
  ASSUME StackInv
  PROVE  /\ Start /\ Room \in Nat
         /\ shape \in Seq(Items) /\ Len(shape) \in Nat /\ DOMAIN shape = 1..Len(shape)
         /\ \A i \in DOMAIN shape :
              /\ shape[i].kind \in Kinds /\ shape[i].under \in Nat
              /\ shape[i].size \in Nat /\ shape[i].size >= 1 /\ shape[i].locals \in Nat
              /\ shape[i].under = DepthOf(i - 1)
              /\ DepthOf(i) = shape[i].under + shape[i].size
         /\ Depth = DepthOf(Len(shape)) /\ sp = At(top - DepthOf(Len(shape)))
         /\ \A n \in 0..Len(shape) :
              DepthOf(n) \in 0..Room /\ DepthOf(n) <= DepthOf(Len(shape))
<1>1. Start /\ shape \in Seq(Items)
  BY DEF StackInv, TypeOK, Stacked, Start
<1>2. Room \in Nat
  BY <1>1, StartFacts
<1>3. Len(shape) \in Nat /\ DOMAIN shape = 1..Len(shape)
  BY <1>1
<1>4. ASSUME NEW i \in DOMAIN shape
      PROVE  /\ shape[i].kind \in Kinds /\ shape[i].under \in Nat
             /\ shape[i].size \in Nat /\ shape[i].size >= 1 /\ shape[i].locals \in Nat
             /\ shape[i].under = DepthOf(i - 1)
             /\ DepthOf(i) = shape[i].under + shape[i].size
  <2>1. shape[i] \in Items
    BY <1>1, <1>4
  <2>2. /\ shape[i].kind \in Kinds /\ shape[i].under \in Nat
        /\ shape[i].size \in Nat /\ shape[i].locals \in Nat
    BY <2>1 DEF Items
  <2>3. Sized(shape[i]) /\ shape[i].under = DepthOf(i - 1)
    BY <1>4 DEF StackInv, Stacked
  <2>4. shape[i].size >= 1
    BY <2>2, <2>3 DEF Sized, Kinds
  <2>5. i # 0
    BY <1>3
  <2> QED BY <2>2, <2>3, <2>4, <2>5 DEF DepthOf
<1>5. Depth = DepthOf(Len(shape))
  BY <1>1, <1>3 DEF Depth, DepthOf, Last
<1>6. sp = At(top - DepthOf(Len(shape))) /\ DepthOf(Len(shape)) <= Room
  BY <1>5 DEF StackInv, Balanced
<1>7. ASSUME NEW n \in 0..Len(shape)
      PROVE  DepthOf(n) \in Nat /\ DepthOf(n) <= DepthOf(Len(shape))
  <2>1. CASE n = 0
    <3>1. DepthOf(n) = 0
      BY <2>1 DEF DepthOf
    <3>2. DepthOf(Len(shape)) >= 0
      <4>1. CASE Len(shape) = 0
        BY <4>1 DEF DepthOf
      <4>2. CASE Len(shape) # 0
        <5>1. Len(shape) \in DOMAIN shape
          BY <1>3, <4>2
        <5>2. /\ shape[Len(shape)].under \in Nat /\ shape[Len(shape)].size \in Nat
              /\ DepthOf(Len(shape)) = shape[Len(shape)].under + shape[Len(shape)].size
          BY <1>4, <5>1
        <5> QED BY <5>2
      <4> QED BY <4>1, <4>2
    <3> QED BY <3>1, <3>2
  <2>2. CASE n # 0
    <3>1. n \in DOMAIN shape /\ Len(shape) \in DOMAIN shape
      BY <1>3, <2>2
    <3>2. DepthOf(n) \in Nat
      BY <1>4, <3>1
    <3>3. CASE n = Len(shape)
      BY <3>2, <3>3
    <3>4. CASE n < Len(shape)
      <4>1. DepthOf(n) <= shape[Len(shape)].under
        BY <3>1, <3>4 DEF StackInv, Stacked
      <4>2. /\ shape[Len(shape)].under \in Nat /\ shape[Len(shape)].size \in Nat
            /\ DepthOf(Len(shape)) = shape[Len(shape)].under + shape[Len(shape)].size
        BY <1>4, <3>1
      <4> QED BY <3>2, <4>1, <4>2
    <3>5. n = Len(shape) \/ n < Len(shape)
      <4>1. Len(shape) \in Nat
        BY <1>3
      <4>2. ASSUME NEW l \in Nat, n \in 0..l
            PROVE  n = l \/ n < l
        BY <4>2
      <4> QED BY <4>1, <4>2
    <3> QED BY <3>3, <3>4, <3>5
  <2> QED BY <2>1, <2>2
<1>8. ASSUME NEW n \in 0..Len(shape)
      PROVE  DepthOf(n) \in 0..Room /\ DepthOf(n) <= DepthOf(Len(shape))
  <2>1. DepthOf(n) \in Nat /\ DepthOf(n) <= DepthOf(Len(shape)) /\ DepthOf(Len(shape)) \in Nat
    BY <1>3, <1>7
  <2> QED BY <1>2, <1>6, <2>1
<1> QED BY <1>1, <1>2, <1>3, <1>4, <1>5, <1>6, <1>8

\* The words of an item, and where they are.
LEMMA Cells ==
  ASSUME StackInv, NEW i \in DOMAIN shape, NEW k \in 1..shape[i].size
  PROVE  /\ shape[i].under + k \in 1..Room
         /\ DepthOf(i - 1) < shape[i].under + k /\ shape[i].under + k <= DepthOf(i)
         /\ Cell(i, k) = Pos(shape[i].under + k)
         /\ Cell(i, k) \in Offset /\ Cell(i, k) >= 1
<1> DEFINE d == shape[i].under + k
<1>1. /\ Start /\ Room \in Nat /\ shape[i].under \in Nat /\ shape[i].size \in Nat
      /\ shape[i].under = DepthOf(i - 1) /\ DepthOf(i) = shape[i].under + shape[i].size
      /\ DepthOf(i) \in 0..Room
  <2>1. i \in 0..Len(shape)
    BY Structure
  <2> QED BY <2>1, Structure
<1>2. /\ d \in 1..Room /\ d \in Nat /\ d <= Room /\ d # 0
      /\ DepthOf(i - 1) < d /\ d <= DepthOf(i)
  BY <1>1
<1>3. Cell(i, k) = At(top - d)
  <2>1. top - shape[i].under - k = top - d
    BY <1>1, StartFacts
  <2> QED BY <2>1 DEF Cell
<1> HIDE DEF d
<1>4. d \in 0..Room
  BY <1>1, <1>2
<1>5. At(top - d) = Pos(d)
  BY <1>1, <1>2, <1>4, Above
<1>6. Pos(d) \in Offset /\ Pos(d) >= 1
  BY <1>1, <1>2, Positions
<1> QED BY <1>2, <1>3, <1>5, <1>6 DEF d

\* No two words of items share a cell.
LEMMA Apart ==
  ASSUME StackInv, NEW i \in DOMAIN shape, NEW k \in 1..shape[i].size,
         NEW j \in DOMAIN shape, NEW l \in 1..shape[j].size, Cell(i, k) = Cell(j, l)
  PROVE  i = j /\ k = l
<1>1. shape[i].under + k = shape[j].under + l
  <2>1. Pos(shape[i].under + k) = Pos(shape[j].under + l)
    BY Cells
  <2>2. /\ Start
        /\ shape[i].under + k \in 1..Room /\ shape[j].under + l \in 1..Room
    BY Cells, Structure
  <2> QED BY <2>1, <2>2, Positions
<1>2. ASSUME NEW x \in DOMAIN shape, NEW y \in DOMAIN shape, x < y,
             NEW u \in 1..shape[x].size, NEW v \in 1..shape[y].size
      PROVE  shape[x].under + u < shape[y].under + v
  <2>1. shape[x].under + u <= DepthOf(x)
    BY Cells
  <2>2. DepthOf(x) <= shape[y].under
    BY <1>2 DEF StackInv, Stacked
  <2>3. /\ shape[x].under \in Nat /\ shape[y].under \in Nat /\ shape[x].size \in Nat
        /\ shape[y].size \in Nat /\ DepthOf(x) = shape[x].under + shape[x].size
    BY Structure
  <2> QED BY <2>1, <2>2, <2>3
<1>3. i \in Int /\ j \in Int /\ shape[i].under \in Nat /\ shape[j].under \in Nat
      /\ shape[i].size \in Nat /\ shape[j].size \in Nat
  BY Structure
<1>4. ~(i < j)
  <2> SUFFICES ASSUME i < j PROVE FALSE
    OBVIOUS
  <2>1. shape[i].under + k < shape[j].under + l
    BY <1>2
  <2> QED BY <1>1, <1>3, <2>1
<1>5. ~(j < i)
  <2> SUFFICES ASSUME j < i PROVE FALSE
    OBVIOUS
  <2>1. shape[j].under + l < shape[i].under + k
    BY <1>2
  <2> QED BY <1>1, <1>3, <2>1
<1>6. i = j
  BY <1>3, <1>4, <1>5
<1> QED BY <1>1, <1>3, <1>6

\* BP finds its frame.
LEMMA FrameFound ==
  ASSUME StackInv
  PROVE  /\ FrameAt(0) = 0
         /\ \A j \in DOMAIN shape : shape[j].kind = "frame" => FrameAt(Cell(j, 1)) = j
         /\ \A o : FrameAt(o) # 0 =>
              /\ FrameAt(o) \in DOMAIN shape /\ shape[FrameAt(o)].kind = "frame"
              /\ o = Cell(FrameAt(o), 1)
<1> DEFINE at(o) == { i \in DOMAIN shape : shape[i].kind = "frame" /\ Cell(i, 1) = o }
<1>1. \A i \in DOMAIN shape : 1 \in 1..shape[i].size
  BY Structure
<1>2. at(0) = {}
  <2>1. ASSUME NEW i \in DOMAIN shape
        PROVE  Cell(i, 1) # 0
    BY <1>1, Cells
  <2> QED BY <2>1
<1>3. ASSUME NEW j \in DOMAIN shape, shape[j].kind = "frame"
      PROVE  FrameAt(Cell(j, 1)) = j
  <2>1. at(Cell(j, 1)) = {j}
    BY <1>1, <1>3, Apart
  <2> QED BY <2>1 DEF FrameAt
<1>4. ASSUME NEW o, FrameAt(o) # 0
      PROVE  FrameAt(o) \in at(o)
  BY <1>4 DEF FrameAt
<1> QED BY <1>2, <1>3, <1>4 DEF FrameAt

-----------------------------------------------------------------------------
(* What a step leaves of the items.                                        *)

\* The first n items are left as they are, a local variable apart.
Left(n) ==
  /\ top' = top /\ n <= Len(shape') /\ Len(shape') \in Nat
  /\ \A i \in 1..n :
       /\ shape'[i] = shape[i]
       /\ \A k \in 1..shape[i].size :
            (shape[i].kind = "frame" => k = 1) => mem'[Cell(i, k)] = mem[Cell(i, k)]

LEMMA Carried ==
  ASSUME StackInv, NEW n \in 0..Len(shape), Left(n)
  PROVE  /\ \A i \in 1..n :
              /\ DepthOf(i)' = DepthOf(i)
              /\ \A k : Cell(i, k)' = Cell(i, k)
              /\ \A k \in 1..shape[i].size :
                   (shape[i].kind = "frame" => k = 1) => Wd(i, k)' = Wd(i, k)
         /\ \A w : \A m \in 0..n : Linked(w, m)' <=> Linked(w, m)
         /\ \A i \in 1..n : SavedAt(i)'
<1>1. ASSUME NEW i \in 1..n
      PROVE  DepthOf(i)' = DepthOf(i) /\ \A k : Cell(i, k)' = Cell(i, k)
  BY DEF Left, DepthOf, Cell, At
<1>2. ASSUME NEW i \in 1..n, NEW k \in 1..shape[i].size, shape[i].kind = "frame" => k = 1
      PROVE  Wd(i, k)' = Wd(i, k)
  BY <1>1, <1>2 DEF Left, Wd
<1>3. ASSUME NEW w, NEW m \in 0..n
      PROVE  Linked(w, m)' <=> Linked(w, m)
  <2>1. ASSUME NEW j \in 1..m
        PROVE  shape'[j] = shape[j] /\ Cell(j, 1)' = Cell(j, 1)
    <3>1. j \in 1..n
      OBVIOUS
    <3> QED BY <1>1, <3>1 DEF Left
  <2> QED BY <2>1 DEF Linked
<1>4. ASSUME NEW i \in 1..n
      PROVE  SavedAt(i)'
  <2>1. i \in DOMAIN shape /\ SavedAt(i) /\ shape'[i] = shape[i] /\ top' = top
    <3>1. i \in DOMAIN shape
      BY Structure
    <3> QED BY <3>1 DEF StackInv, Saved, Left
  <2>2. Sized(shape[i]) /\ shape[i].size \in Nat /\ shape[i].size >= 1
    BY <2>1, Structure DEF StackInv, Stacked
  <2>3. i - 1 \in 0..n
    OBVIOUS
  <2>4. shape[i].kind = "near" => Wd(i, 1)' \in Targets
    BY <1>2, <2>1, <2>2 DEF SavedAt, Sized
  <2>5. shape[i].kind = "far" => Wd(i, 1)' \in Code /\ Wd(i, 2)' \in Targets
    BY <1>2, <2>1, <2>2 DEF SavedAt, Sized
  <2>6. ASSUME shape[i].kind = "all"
        PROVE  Wd(i, 5)' = At(top' - shape[i].under) /\ Linked(Wd(i, 6), i - 1)'
    <3>1. shape[i].size = 8
      BY <2>2, <2>6 DEF Sized
    <3>2. Wd(i, 5)' = Wd(i, 5) /\ Wd(i, 6)' = Wd(i, 6)
      BY <1>2, <2>6, <3>1
    <3>3. Wd(i, 5) = At(top - shape[i].under) /\ Linked(Wd(i, 6), i - 1)
      BY <2>1, <2>6 DEF SavedAt
    <3>4. PICK w : w = Wd(i, 6)
      OBVIOUS
    <3>5. Linked(w, i - 1)' /\ Wd(i, 6)' = w
      BY <1>3, <2>3, <3>2, <3>3, <3>4
    <3>6. Linked(Wd(i, 6), i - 1)'
      BY <3>5 DEF Linked
    <3> QED BY <2>1, <3>2, <3>3, <3>6
  <2>7. ASSUME shape[i].kind = "frame"
        PROVE  Linked(Wd(i, 1), i - 1)'
    <3>1. Wd(i, 1)' = Wd(i, 1) /\ Linked(Wd(i, 1), i - 1)
      BY <1>2, <2>1, <2>2, <2>7 DEF SavedAt
    <3>2. PICK w : w = Wd(i, 1)
      OBVIOUS
    <3>3. Linked(w, i - 1)' /\ Wd(i, 1)' = w
      BY <1>3, <2>3, <3>1, <3>2
    <3> QED BY <3>3 DEF Linked
  <2> QED BY <2>1, <2>4, <2>5, <2>6, <2>7 DEF SavedAt
<1> QED BY <1>1, <1>2, <1>3, <1>4

\* An item more.
LEMMA Grown ==
  ASSUME StackInv, NEW it \in Items, Sized(it), it.under = Depth, Fits(it),
         shape' = Append(shape, it), sp' = At(sp - it.size), top' = top,
         NEW n \in Nat, n = Len(shape)
  PROVE  /\ Len(shape') = n + 1 /\ shape'[n + 1] = it
         /\ \A i \in 1..n : shape'[i] = shape[i]
         /\ Stacked' /\ Balanced' /\ sp' \in Offset /\ Len(shape') <= MaxItems
         /\ \A k \in 1..it.size : Cell(n + 1, k)' = Pos(Depth + k)
<1>1. /\ shape \in Seq(Items) /\ n \in Nat /\ DOMAIN shape = 1..n
      /\ it.size \in Nat /\ it.size >= 1 /\ Depth \in Nat /\ Start /\ Room \in Nat
      /\ Depth = DepthOf(n) /\ sp = At(top - Depth) /\ n + 1 <= MaxItems
      /\ Depth + it.size <= Room
  <2>1. n \in 0..n
    BY Structure
  <2>2. it.size \in Nat /\ it.size >= 1
    BY DEF Sized, Items, Kinds
  <2>3. n < MaxItems /\ Depth + it.size <= Room
    BY DEF Fits
  <2>4. DepthOf(n) \in 0..Room
    BY <2>1, Structure
  <2> QED BY <2>2, <2>3, <2>4, Structure, Program
<1>2. /\ shape' \in Seq(Items) /\ Len(shape') = n + 1 /\ DOMAIN shape' = 1..(n + 1)
      /\ shape'[n + 1] = it /\ \A i \in 1..n : shape'[i] = shape[i]
  BY <1>1
<1>3. \A i \in 0..n : DepthOf(i)' = DepthOf(i)
  BY <1>1, <1>2 DEF DepthOf
<1>4. DepthOf(n + 1)' = Depth + it.size /\ Depth' = Depth + it.size
  <2>1. DepthOf(n + 1)' = Depth + it.size
    BY <1>1, <1>2 DEF DepthOf
  <2>2. shape' # << >> /\ Last(shape') = it
    BY <1>1, <1>2 DEF Last
  <2> QED BY <2>1, <2>2 DEF Depth
<1>5. Balanced' /\ sp' \in Offset
  <2> DEFINE d == Depth
             e == Depth + it.size
  <2>1. d \in 0..Room /\ e \in 0..Room /\ -it.size = d - e /\ -it.size \in Int
    BY <1>1
  <2>2. sp - it.size = At(top - d) + (-it.size)
    <3>1. At(top - d) \in Int
      BY <1>1, <2>1, Above, Sizes
    <3> QED BY <1>1, <3>1
  <2> HIDE DEF d, e
  <2>3. At(At(top - d) + (-it.size)) = At(top - e)
    BY <1>1, <2>1, Moved
  <2>4. sp' = At(top - e) /\ sp' \in Offset
    BY <1>1, <2>1, <2>2, <2>3, Above
  <2>5. Depth' = e /\ Room' = Room
    BY <1>4 DEF e, Room
  <2>6. e <= Room
    BY <1>1 DEF e
  <2>7. sp' = At(top' - Depth')
    BY <2>4, <2>5
  <2> QED BY <2>4, <2>5, <2>6, <2>7 DEF Balanced, At
<1>6. ASSUME NEW i \in 1..n
      PROVE  /\ Sized(shape[i]) /\ shape[i].under = DepthOf(i - 1)
             /\ shape[i].under \in Nat /\ DepthOf(i) <= Depth
  <2>1. i \in DOMAIN shape /\ i \in 0..Len(shape)
    BY <1>1
  <2> QED BY <1>1, <2>1, Structure DEF StackInv, Stacked
<1>7. Stacked'
  <2>1. ASSUME NEW i \in 1..(n + 1)
        PROVE  Sized(shape'[i]) /\ shape'[i].under = DepthOf(i - 1)'
    <3>1. i - 1 \in 0..n
      BY <1>1
    <3>2. CASE i = n + 1
      BY <1>1, <1>2, <1>3, <3>1, <3>2
    <3>3. CASE i \in 1..n
      BY <1>2, <1>3, <1>6, <3>1, <3>3
    <3> QED BY <1>1, <3>2, <3>3
  <2>2. ASSUME NEW i \in 1..(n + 1), NEW j \in 1..(n + 1), i < j
        PROVE  DepthOf(i)' <= shape'[j].under
    <3>1. i \in 1..n /\ i \in 0..n
      BY <1>1, <2>2
    <3>2. CASE j = n + 1
      BY <1>2, <1>3, <1>6, <3>1, <3>2
    <3>3. CASE j \in 1..n
      <4>1. DepthOf(i) <= shape[j].under
        BY <1>1, <2>2, <3>1, <3>3 DEF StackInv, Stacked
      <4> QED BY <1>2, <1>3, <3>1, <3>3, <4>1
    <3> QED BY <1>1, <3>2, <3>3
  <2>3. ASSUME NEW i \in 1..(n + 1), NEW j \in 1..(n + 1), i <= j,
               \A l \in i..(j - 1) : shape'[l].size = 1
        PROVE  shape'[j].under = shape'[i].under + (j - i)
    <3>1. ASSUME j \in 1..n
          PROVE  shape[j].under = shape[i].under + (j - i)
      <4>1. i \in 1..n
        BY <1>1, <2>3, <3>1
      <4>2. \A l \in i..(j - 1) : shape[l].size = 1
        BY <1>1, <1>2, <2>3, <3>1, <4>1
      <4> QED BY <1>1, <2>3, <3>1, <4>1, <4>2 DEF StackInv, Stacked
    <3>2. CASE j \in 1..n
      <4>1. i \in 1..n
        BY <1>1, <2>3, <3>2
      <4> QED BY <1>2, <3>1, <3>2, <4>1
    <3>3. CASE j = n + 1 /\ i = n + 1
      BY <1>1, <1>2, <3>3
    <3>4. CASE j = n + 1 /\ i \in 1..n
      <4>1. n \in 1..n /\ i <= n /\ n \in i..(j - 1)
        BY <1>1, <3>4
      <4>2. shape[n].size = 1
        BY <1>2, <2>3, <4>1
      <4>3. \A l \in i..(n - 1) : shape[l].size = 1
        <5>1. ASSUME NEW l \in i..(n - 1) PROVE l \in i..(j - 1) /\ l \in 1..n
          BY <1>1, <3>4
        <5> QED BY <1>2, <2>3, <5>1
      <4>4. shape[n].under = shape[i].under + (n - i)
        BY <1>1, <3>4, <4>1, <4>3 DEF StackInv, Stacked
      <4>5. Depth = shape[n].under + 1
        BY <1>1, <4>1, <4>2 DEF DepthOf
      <4>6. shape[i].under \in Nat
        BY <1>6, <3>4
      <4>7. Depth = shape[i].under + ((n + 1) - i)
        <5> DEFINE u == shape[i].under
                   v == shape[n].under
        <5>1. u \in Nat /\ i \in Int /\ n \in Int /\ v = u + (n - i) /\ Depth = v + 1
          BY <1>1, <3>4, <4>4, <4>5, <4>6
        <5> HIDE DEF u, v
        <5>2. Depth = u + ((n + 1) - i)
          BY <5>1
        <5> QED BY <5>2 DEF u
      <4> QED BY <1>2, <3>4, <4>7
    <3> QED BY <1>1, <3>2, <3>3, <3>4
  <2> QED BY <1>2, <2>1, <2>2, <2>3 DEF Stacked
<1>8. ASSUME NEW k \in 1..it.size
      PROVE  Cell(n + 1, k)' = Pos(Depth + k)
  <2> DEFINE d == Depth + k
  <2>1. d \in 0..Room /\ d # 0
    BY <1>1
  <2>2. Cell(n + 1, k)' = At(top - Depth - k)
    BY <1>2 DEF Cell, At
  <2>3. top - Depth - k = top - d
    BY <1>1, StartFacts
  <2> HIDE DEF d
  <2>4. At(top - d) = Pos(d)
    BY <1>1, <2>1, Above
  <2> QED BY <2>2, <2>3, <2>4 DEF d
<1> QED BY <1>1, <1>2, <1>5, <1>7, <1>8

\* All but the first m items gone.
LEMMA Shrunk ==
  ASSUME StackInv, NEW m \in 0..Len(shape), shape' = SubSeq(shape, 1, m),
         sp' = At(top - DepthOf(m)), top' = top
  PROVE  /\ Len(shape') = m /\ \A i \in 1..m : shape'[i] = shape[i]
         /\ Stacked' /\ Balanced' /\ sp' \in Offset /\ Len(shape') <= MaxItems
         /\ DepthOf(m)' = DepthOf(m)
<1> DEFINE n == Len(shape)
<1>1. /\ shape \in Seq(Items) /\ n \in Nat /\ DOMAIN shape = 1..n /\ m \in Nat /\ m <= n
      /\ DepthOf(m) \in 0..Room /\ Start
  BY Structure
<1>2. shape' \in Seq(Items) /\ Len(shape') = m /\ \A i \in 1..m : shape'[i] = shape[i]
  BY <1>1
<1> HIDE DEF n
<1>3. \A i \in 0..m : DepthOf(i)' = DepthOf(i)
  BY <1>1, <1>2 DEF DepthOf
<1>4. Len(shape') <= MaxItems
  <2>1. n <= MaxItems
    BY DEF StackInv, TypeOK, n
  <2> QED BY <1>1, <1>2, <2>1, Program
<1>5. Depth' = DepthOf(m) /\ DepthOf(m)' = DepthOf(m)
  <2>1. DepthOf(m)' = DepthOf(m)
    BY <1>1, <1>3
  <2>2. Depth' = DepthOf(m)'
    <3>1. CASE m = 0
      BY <1>2, <3>1 DEF Depth, DepthOf
    <3>2. CASE m # 0
      <4>1. shape' # << >> /\ Last(shape') = shape'[m]
        BY <1>1, <1>2, <3>2 DEF Last
      <4> QED BY <3>2, <4>1 DEF Depth, DepthOf
    <3> QED BY <3>1, <3>2
  <2> QED BY <2>1, <2>2
<1>6. Balanced' /\ sp' \in Offset
  <2>1. sp' = At(top' - Depth') /\ Room' = Room /\ Depth' <= Room
    BY <1>1, <1>5 DEF Room
  <2>2. sp' \in Offset
    BY <1>1, Above
  <2> QED BY <2>1, <2>2 DEF Balanced, At
<1>7. Stacked'
  <2>1. ASSUME NEW i \in 1..m
        PROVE  Sized(shape'[i]) /\ shape'[i].under = DepthOf(i - 1)'
    <3>1. i \in DOMAIN shape /\ i - 1 \in 0..m
      BY <1>1
    <3>2. Sized(shape[i]) /\ shape[i].under = DepthOf(i - 1)
      BY <3>1 DEF StackInv, Stacked
    <3> QED BY <1>2, <1>3, <3>1, <3>2
  <2>2. ASSUME NEW i \in 1..m, NEW j \in 1..m, i < j
        PROVE  DepthOf(i)' <= shape'[j].under
    <3>1. i \in DOMAIN shape /\ j \in DOMAIN shape /\ i \in 0..m
      BY <1>1
    <3>2. DepthOf(i) <= shape[j].under
      BY <2>2, <3>1 DEF StackInv, Stacked
    <3> QED BY <1>2, <1>3, <3>1, <3>2
  <2>3. ASSUME NEW i \in 1..m, NEW j \in 1..m, i <= j,
               \A l \in i..(j - 1) : shape'[l].size = 1
        PROVE  shape'[j].under = shape'[i].under + (j - i)
    <3>1. i \in DOMAIN shape /\ j \in DOMAIN shape
      BY <1>1
    <3>2. \A l \in i..(j - 1) : shape[l].size = 1
      <4>1. \A l \in i..(j - 1) : l \in 1..m
        BY <1>1
      <4> QED BY <1>2, <2>3, <4>1
    <3>3. shape[j].under = shape[i].under + (j - i)
      BY <2>3, <3>1, <3>2 DEF StackInv, Stacked
    <3> QED BY <1>2, <3>3
  <2>4. DOMAIN shape' = 1..m
    BY <1>2
  <2> QED BY <1>2, <2>1, <2>2, <2>3, <2>4 DEF Stacked
<1> QED BY <1>2, <1>4, <1>5, <1>6, <1>7

\* The words of the first n items.
LEMMA InFirst ==
  ASSUME StackInv, NEW n \in 0..Len(shape), NEW i \in 1..n, NEW k \in 1..shape[i].size
  PROVE  Cell(i, k) = Pos(shape[i].under + k) /\ shape[i].under + k \in 1..DepthOf(n)
<1>1. /\ i \in DOMAIN shape /\ n \in DOMAIN shape /\ DepthOf(n) \in Nat /\ Len(shape) \in Nat
  BY Structure
<1>2. /\ Cell(i, k) = Pos(shape[i].under + k) /\ shape[i].under + k \in 1..Room
      /\ shape[i].under + k <= DepthOf(i)
  BY <1>1, Cells
<1>3. DepthOf(i) <= DepthOf(n)
  <2>1. CASE i = n
    BY <1>1, <2>1
  <2>2. CASE i < n
    <3>1. DepthOf(i) <= shape[n].under
      BY <1>1, <2>2 DEF StackInv, Stacked
    <3>2. shape[n].under \in Nat /\ shape[n].size \in Nat /\ DepthOf(n) = shape[n].under + shape[n].size
      BY <1>1, Structure
    <3>3. DepthOf(i) \in Nat
      <4>1. i \in 0..Len(shape)
        BY <1>1
      <4> QED BY <4>1, Structure
    <3> QED BY <3>1, <3>2, <3>3
  <2> QED BY <2>1, <2>2
<1>4. DepthOf(i) \in Nat
  BY <1>1, Structure
<1> QED BY <1>1, <1>2, <1>3, <1>4

-----------------------------------------------------------------------------
(* Pushing and popping.                                                    *)

\* The words of the first n items are all as they were.
Untouched(n) == \A i \in 1..n : \A k \in 1..shape[i].size : Wd(i, k)' = Wd(i, k)

LEMMA SameWords ==
  ASSUME StackInv, NEW n \in 0..Len(shape), Left(n),
         \A i \in 1..n : \A k \in 1..shape[i].size : mem'[Cell(i, k)] = mem[Cell(i, k)]
  PROVE  Untouched(n)
<1>1. \A i \in 1..n : \A k : Cell(i, k)' = Cell(i, k)
  BY Carried
<1> QED BY <1>1 DEF Untouched, Wd

\* Item it has been pushed, as the words ws, onto n items.
Stacks(it, ws, n) ==
  /\ Left(n) /\ Untouched(n) /\ Len(shape') = n + 1 /\ shape'[n + 1] = it
  /\ Stacked' /\ Balanced' /\ sp' \in Offset /\ Len(shape') <= MaxItems
  /\ mem' \in [Offset \union {-1} -> Word]
  /\ ss' = ss /\ top' = top /\ crashed' = crashed
  /\ \A k \in 1..it.size : Wd(n + 1, k)' = ws[k]

LEMMA AfterPush ==
  ASSUME StackInv, NEW it \in Items, Sized(it), it.under = Depth, NEW ws \in Seq(Word),
         Len(ws) = it.size, Push(it, ws), NEW n \in Nat, n = Len(shape)
  PROVE  Stacks(it, ws, n)
<1>1. /\ Fits(it) /\ shape' = Append(shape, it) /\ sp' = At(sp - it.size)
      /\ ss' = ss /\ top' = top /\ crashed' = crashed /\ mem' = Pushed(mem, sp, ws)
  BY DEF Push
<1>2. /\ Len(shape') = n + 1 /\ shape'[n + 1] = it
      /\ \A i \in 1..n : shape'[i] = shape[i]
      /\ Stacked' /\ Balanced' /\ sp' \in Offset /\ Len(shape') <= MaxItems
      /\ \A k \in 1..it.size : Cell(n + 1, k)' = Pos(Depth + k)
  BY <1>1, Grown
<1>3. /\ Start /\ Room \in Nat /\ Depth = DepthOf(n) /\ sp = At(top - Depth)
      /\ Depth \in 0..Room /\ Depth \in Nat /\ it.size \in Nat /\ Depth + it.size <= Room
      /\ mem \in [Offset \union {-1} -> Word]
  <2>1. n \in 0..Len(shape)
    OBVIOUS
  <2>2. Depth + it.size <= Room /\ it.size \in Nat
    BY <1>1 DEF Fits, Items
  <2>3. mem \in [Offset \union {-1} -> Word]
    BY DEF StackInv, TypeOK
  <2> QED BY <2>1, <2>2, <2>3, Structure
<1>4. PICK d : d = Depth
  OBVIOUS
<1>5. /\ mem' \in [Offset \union {-1} -> Word]
      /\ \A c \in 1..Room :
           mem'[Pos(c)] = IF d < c /\ c <= d + it.size THEN ws[c - d] ELSE mem[Pos(c)]
  <2>1. PICK m : m = mem
    OBVIOUS
  <2>2. /\ Start /\ d \in 0..Room /\ d + Len(ws) <= Room /\ m \in [Offset \union {-1} -> Word]
        /\ mem' = Pushed(m, At(top - d), ws) /\ it.size = Len(ws)
    BY <1>1, <1>3, <1>4, <2>1
  <2>3. /\ Pushed(m, At(top - d), ws) \in [Offset \union {-1} -> Word]
        /\ \A c \in 1..Room :
             Pushed(m, At(top - d), ws)[Pos(c)] =
               IF d < c /\ c <= d + Len(ws) THEN ws[c - d] ELSE m[Pos(c)]
    BY <2>2, PushedWord
  <2> QED BY <2>1, <2>2, <2>3
<1>6. Left(n) /\ Untouched(n)
  <2>1. ASSUME NEW i \in 1..n, NEW k \in 1..shape[i].size
        PROVE  mem'[Cell(i, k)] = mem[Cell(i, k)]
    <3>1. n \in 0..Len(shape) /\ i \in DOMAIN shape
      BY Structure
    <3>2. Cell(i, k) = Pos(shape[i].under + k) /\ shape[i].under + k \in 1..d
      BY <1>3, <1>4, <3>1, InFirst
    <3>3. shape[i].under + k \in 1..Room /\ ~(d < shape[i].under + k)
      BY <1>3, <1>4, <3>2
    <3> QED BY <1>5, <3>2, <3>3
  <2>2. Left(n)
    BY <1>1, <1>2, <2>1 DEF Left
  <2>3. n \in 0..Len(shape)
    OBVIOUS
  <2> QED BY <2>1, <2>2, <2>3, SameWords
<1>7. ASSUME NEW k \in 1..it.size
      PROVE  Wd(n + 1, k)' = ws[k]
  <2>1. Wd(n + 1, k)' = mem'[Pos(d + k)]
    BY <1>2, <1>4 DEF Wd
  <2>2. d + k \in 1..Room /\ d < d + k /\ d + k <= d + it.size /\ (d + k) - d = k
    BY <1>3, <1>4
  <2> QED BY <1>5, <2>1, <2>2
<1> QED BY <1>1, <1>2, <1>5, <1>6, <1>7 DEF Stacks

LEMMA AfterDrop ==
  ASSUME StackInv, NEW m \in 0..Len(shape), shape' = SubSeq(shape, 1, m),
         sp' = At(top - DepthOf(m)), mem' = Kept(mem, sp'), top' = top
  PROVE  /\ Left(m) /\ Len(shape') = m
         /\ Stacked' /\ Balanced' /\ sp' \in Offset /\ Len(shape') <= MaxItems
         /\ mem' \in [Offset \union {-1} -> Word]
         /\ Untouched(m)
<1>1. /\ Start /\ DepthOf(m) \in 0..Room /\ Len(shape) \in Nat /\ m \in Nat
      /\ mem \in [Offset \union {-1} -> Word]
  BY Structure DEF StackInv, TypeOK
<1>2. /\ Len(shape') = m /\ \A i \in 1..m : shape'[i] = shape[i]
      /\ Stacked' /\ Balanced' /\ sp' \in Offset /\ Len(shape') <= MaxItems
  BY Shrunk
<1>3. PICK d : d = DepthOf(m)
  OBVIOUS
<1>4. /\ mem' \in [Offset \union {-1} -> Word]
      /\ \A c \in 1..d : mem'[Pos(c)] = mem[Pos(c)]
  BY <1>1, <1>3, KeptWord
<1>5. ASSUME NEW i \in 1..m, NEW k \in 1..shape[i].size
      PROVE  mem'[Cell(i, k)] = mem[Cell(i, k)]
  BY <1>3, <1>4, InFirst
<1>6. Left(m)
  BY <1>1, <1>2, <1>5 DEF Left
<1>7. Untouched(m)
  BY <1>5, <1>6, SameWords
<1> QED BY <1>2, <1>4, <1>6, <1>7

-----------------------------------------------------------------------------
(* The steps.                                                              *)

LEMMA Started == Init => StackInv
<1> SUFFICES ASSUME Init PROVE StackInv
  OBVIOUS
<1>1. /\ shape = << >> /\ bp = 0 /\ crashed = FALSE /\ cs \in Code /\ ip \in Targets
      /\ mem = [o \in Offset \union {-1} |-> 0]
  BY DEF Init
<1>2. PICK s \in Starts : ss = s.ss /\ sp = s.sp /\ top = s.sp
  BY DEF Init
<1>3. s \in [ss : Word, sp : Offset]
  BY <1>2, StackAssumption
<1>4. Start /\ sp = top /\ sp \in Offset
  <2>1. s = [ss |-> ss, sp |-> top]
    BY <1>2, <1>3
  <2> QED BY <1>2, <1>3, <2>1 DEF Start
<1>5. regs \in Regs /\ psw \in SUBSET Flag
  <2>1. PICK f \in Files : regs = f.regs /\ psw = f.psw
    BY DEF Init
  <2>2. f \in [regs : Regs, psw : SUBSET Flag]
    BY <2>1, Program
  <2> QED BY <2>1, <2>2
<1>6. 0 \in Word /\ 0 \in Offset
  BY Sizes
<1>7. TypeOK
  <2>1. Len(shape) <= MaxItems /\ crashed \in BOOLEAN
    <3>1. Len(shape) = 0 /\ crashed \in BOOLEAN
      BY <1>1
    <3>2. MaxItems \in Nat
      BY Program
    <3> QED BY <3>1, <3>2
  <2>2. mem \in [Offset \union {-1} -> Word] /\ bp \in Offset
    BY <1>1, <1>6
  <2> QED BY <1>1, <1>4, <1>5, <2>1, <2>2 DEF TypeOK, Start
<1>8. Balanced
  <2>1. Depth = 0
    BY <1>1 DEF Depth
  <2>2. Room \in Nat /\ At(top - 0) = top
    <3>1. Room \in Nat
      BY <1>4, StartFacts
    <3>2. 0 \in 0..Room
      BY <3>1
    <3> QED BY <1>4, <3>1, <3>2, Above
  <2> QED BY <1>4, <2>1, <2>2 DEF Balanced
<1>9. Stacked /\ Saved
  BY <1>1 DEF Stacked, Saved, Linked
<1> QED BY <1>7, <1>8, <1>9 DEF StackInv

\* The registers are in their types after a step.
RegsKept == regs' \in Regs /\ psw' \in SUBSET Flag /\ cs' \in Code /\ ip' \in Targets

\* At most one item is new, and BP is linked.
LEMMA Assembled ==
  ASSUME StackInv, NEW n \in 0..Len(shape), Left(n), Stacked', Balanced',
         sp' \in Offset, Len(shape') <= MaxItems, mem' \in [Offset \union {-1} -> Word],
         ss' = ss, top' = top, crashed' \in BOOLEAN, RegsKept,
         \/ Len(shape') = n
         \/ Len(shape') = n + 1 /\ SavedAt(n + 1)',
         bp' \in Offset, Linked(bp, Len(shape))'
  PROVE  StackInv'
<1>1. TypeOK'
  BY DEF StackInv, TypeOK, RegsKept
<1>2. DOMAIN shape' = 1..Len(shape') /\ n \in Nat
  BY Structure DEF Stacked
<1>3. ASSUME NEW i \in DOMAIN shape'
      PROVE  SavedAt(i)'
  <2>1. i \in 1..n \/ (i = n + 1 /\ Len(shape') = n + 1)
    <3>1. \A a \in Nat : \A j \in 1..(a + 1) : j \in 1..a \/ j = a + 1
      OBVIOUS
    <3>2. CASE Len(shape') = n
      BY <1>2, <3>2
    <3>3. CASE Len(shape') = n + 1
      BY <1>2, <3>1, <3>3
    <3> QED BY <3>2, <3>3
  <2>2. CASE i \in 1..n
    BY <2>2, Carried
  <2>3. CASE i = n + 1 /\ Len(shape') = n + 1
    BY <1>2, <2>3
  <2> QED BY <2>1, <2>2, <2>3
<1> QED BY <1>1, <1>3 DEF StackInv, Saved

\* What an item is pushed with.
Filled(it, ws) ==
  /\ it.kind = "near" => ws[1] \in Targets
  /\ it.kind = "far" => ws[1] \in Code /\ ws[2] \in Targets
  /\ it.kind = "all" => ws[5] = sp /\ ws[6] = bp

LEMMA PushStep ==
  ASSUME StackInv, NEW it \in Items, Sized(it), it.under = Depth, it.kind # "frame",
         NEW ws \in Seq(Word), Len(ws) = it.size, Filled(it, ws),
         Push(it, ws), bp' = bp, RegsKept
  PROVE  StackInv'
<1>1. PICK n : n = Len(shape) /\ n \in Nat
  BY Structure
<1>2. /\ Left(n) /\ Len(shape') = n + 1 /\ shape'[n + 1] = it
      /\ Stacked' /\ Balanced' /\ sp' \in Offset /\ Len(shape') <= MaxItems
      /\ mem' \in [Offset \union {-1} -> Word]
      /\ ss' = ss /\ top' = top /\ crashed' = crashed
      /\ \A k \in 1..it.size : Wd(n + 1, k)' = ws[k]
  <2>1. Stacks(it, ws, n)
    BY <1>1, AfterPush
  <2> QED BY <2>1 DEF Stacks
<1>3. n \in 0..Len(shape) /\ n \in 0..n
  BY <1>1
<1>4. PICK b : b = bp
  OBVIOUS
<1>5. Linked(b, n)'
  BY <1>1, <1>2, <1>3, <1>4, Carried DEF StackInv, Saved
<1>6. Linked(b, n + 1)'
  <2>1. \A j \in 1..n : j \in 1..(n + 1)
    BY <1>1
  <2> QED BY <1>5, <2>1 DEF Linked
<1>7. Linked(bp, Len(shape))'
  BY <1>2, <1>4, <1>6
<1>8. SavedAt(n + 1)'
  <2>1. it.kind = "near" => Wd(n + 1, 1)' \in Targets
    BY <1>2 DEF Sized, Filled
  <2>2. it.kind = "far" => Wd(n + 1, 1)' \in Code /\ Wd(n + 1, 2)' \in Targets
    BY <1>2 DEF Sized, Filled
  <2>3. ASSUME it.kind = "all"
        PROVE  Wd(n + 1, 5)' = At(top - it.under) /\ Linked(Wd(n + 1, 6), n)'
    <3>1. Wd(n + 1, 5)' = sp /\ Wd(n + 1, 6)' = b
      BY <1>2, <1>4, <2>3 DEF Sized, Filled
    <3>2. sp = At(top - it.under)
      BY DEF StackInv, Balanced
    <3>3. Linked(Wd(n + 1, 6), n)'
      BY <1>5, <3>1 DEF Linked
    <3> QED BY <3>1, <3>2, <3>3
  <2>4. (n + 1) - 1 = n
    BY <1>1
  <2>5. it.kind = "all" => Wd(n + 1, 5)' = At(top - it.under) /\ Linked(Wd(n + 1, 6), (n + 1) - 1)'
    BY <2>3, <2>4
  <2> QED BY <1>2, <2>1, <2>2, <2>5 DEF SavedAt, At
<1>9. crashed' \in BOOLEAN /\ bp' \in Offset
  BY <1>2 DEF StackInv, TypeOK
<1> QED BY <1>2, <1>3, <1>7, <1>8, <1>9, Assembled

\* All but m items are gone, and BP is on a frame among these.
Drops(m) ==
  /\ m \in 0..Len(shape) /\ shape' = SubSeq(shape, 1, m)
  /\ sp' = At(top - DepthOf(m)) /\ mem' = Kept(mem, sp')
  /\ ss' = ss /\ top' = top /\ crashed' = crashed
  /\ Linked(bp', m)

LEMMA DropStep ==
  ASSUME StackInv, NEW m, Drops(m), RegsKept
  PROVE  StackInv'
<1>0. /\ m \in 0..Len(shape) /\ shape' = SubSeq(shape, 1, m)
      /\ sp' = At(top - DepthOf(m)) /\ mem' = Kept(mem, sp')
      /\ ss' = ss /\ top' = top /\ crashed' = crashed
      /\ Linked(bp', m)
  BY DEF Drops
<1>1. /\ Left(m) /\ Len(shape') = m
      /\ Stacked' /\ Balanced' /\ sp' \in Offset /\ Len(shape') <= MaxItems
      /\ mem' \in [Offset \union {-1} -> Word]
  BY <1>0, AfterDrop
<1>2. PICK b : b = bp'
  OBVIOUS
<1>3. m \in 0..m
  BY <1>0, Structure
<1>4. Linked(bp, Len(shape))'
  <2>1. Linked(b, m)'
    BY <1>0, <1>1, <1>2, <1>3, Carried
  <2> QED BY <1>1, <1>2, <2>1
<1>5. bp' \in Offset
  <2>1. ASSUME NEW j \in 1..m PROVE Cell(j, 1) \in Offset
    <3>1. j \in DOMAIN shape
      BY <1>0, Structure
    <3>2. 1 \in 1..shape[j].size
      BY <3>1, Structure
    <3> QED BY <3>1, <3>2, Cells
  <2> QED BY <1>0, <2>1, Sizes DEF Linked
<1>6. crashed' \in BOOLEAN
  BY <1>0 DEF StackInv, TypeOK
<1> QED BY <1>0, <1>1, <1>4, <1>5, <1>6, Assembled

\* The items the program pushes.
LEMMA Pushable ==
  ASSUME StackInv, NEW kind \in Kinds, NEW size \in Nat, NEW locals \in Nat
  PROVE  /\ Item(kind, size, locals) \in Items
         /\ Item(kind, size, locals).kind = kind /\ Item(kind, size, locals).size = size
         /\ Item(kind, size, locals).locals = locals
         /\ Item(kind, size, locals).under = Depth
<1>1. Depth \in Nat
  <2>1. Len(shape) \in 0..Len(shape)
    BY Structure
  <2> QED BY <2>1, Structure
<1> QED BY <1>1 DEF Item, Items

LEMMA PushItem ==
  ASSUME StackInv, NEW kind \in {"word", "flags", "near", "far", "all"},
         NEW size \in Nat,
         size = (IF kind = "far" THEN 2 ELSE IF kind = "all" THEN 8 ELSE 1),
         NEW ws \in Seq(Word), Len(ws) = size,
         kind = "near" => ws[1] \in Targets,
         kind = "far" => ws[1] \in Code /\ ws[2] \in Targets,
         kind = "all" => ws[5] = sp /\ ws[6] = bp,
         Push(Item(kind, size, 0), ws), bp' = bp, RegsKept
  PROVE  StackInv'
<1>1. PICK it : it = Item(kind, size, 0)
  OBVIOUS
<1>2. kind \in Kinds /\ 0 \in Nat
  BY DEF Kinds
<1>3. it \in Items /\ it.kind = kind /\ it.size = size /\ it.locals = 0 /\ it.under = Depth
  BY <1>1, <1>2, Pushable
<1>4. Sized(it) /\ Filled(it, ws) /\ it.kind # "frame"
  BY <1>3 DEF Sized, Filled
<1>5. Push(it, ws)
  BY <1>1
<1> QED BY <1>3, <1>4, <1>5, PushStep

LEMMA Pushes ==
  ASSUME StackInv, PushWord \/ PushFlags \/ PushAll \/ Call \/ CallFar
  PROVE  StackInv'
<1>1. /\ sp \in Word /\ bp \in Word /\ regs \in [Gpr -> Word] /\ psw \in SUBSET Flag
      /\ cs \in Code /\ ip \in Targets /\ cs \in Word /\ ip \in Word
  BY Sizes, Program DEF StackInv, TypeOK, Regs
<1>2. ASSUME PushWord PROVE StackInv'
  <2>1. PICK v \in Values : Push(Item("word", 1, 0), <<v>>)
    BY <1>2 DEF PushWord
  <2>2. bp' = bp /\ RegsKept
    BY <1>1, <1>2 DEF PushWord, regVars, RegsKept, Regs
  <2>3. PICK ws : ws = <<v>>
    OBVIOUS
  <2>4. ws \in Seq(Word) /\ Len(ws) = 1
    <3>1. v \in Word
      BY Program
    <3> QED BY <2>3, <3>1
  <2>5. Push(Item("word", 1, 0), ws)
    BY <2>1, <2>3
  <2> QED BY <2>2, <2>4, <2>5, PushItem
<1>3. ASSUME PushFlags PROVE StackInv'
  <2>1. PICK ws : ws = <<GetPsw(psw)>>
    OBVIOUS
  <2>2. ws \in Seq(Word) /\ Len(ws) = 1
    <3>1. GetPsw(psw) \in Word
      BY <1>1, PswWord
    <3> QED BY <2>1, <3>1
  <2>3. bp' = bp /\ RegsKept
    BY <1>1, <1>3 DEF PushFlags, regVars, RegsKept, Regs
  <2>4. Push(Item("flags", 1, 0), ws)
    BY <1>3, <2>1 DEF PushFlags
  <2> QED BY <2>2, <2>3, <2>4, PushItem
<1>4. ASSUME PushAll PROVE StackInv'
  <2>1. PICK ws : ws = <<regs.aw, regs.cw, regs.dw, regs.bw, sp, bp, regs.ix, regs.iy>>
    OBVIOUS
  <2>2. ws \in Seq(Word) /\ Len(ws) = 8 /\ ws[5] = sp /\ ws[6] = bp
    <3>1. /\ regs.aw \in Word /\ regs.cw \in Word /\ regs.dw \in Word /\ regs.bw \in Word
          /\ regs.ix \in Word /\ regs.iy \in Word
      BY <1>1 DEF Gpr
    <3> QED BY <1>1, <2>1, <3>1
  <2>3. bp' = bp /\ RegsKept
    BY <1>1, <1>4 DEF PushAll, regVars, RegsKept, Regs
  <2>4. Push(Item("all", 8, 0), ws)
    BY <1>4, <2>1 DEF PushAll
  <2> QED BY <2>2, <2>3, <2>4, PushItem
<1>5. ASSUME Call PROVE StackInv'
  <2>1. PICK ws : ws = <<ip>>
    OBVIOUS
  <2>2. ws \in Seq(Word) /\ Len(ws) = 1 /\ ws[1] \in Targets
    BY <1>1, <2>1
  <2>3. bp' = bp /\ RegsKept
    BY <1>1, <1>5 DEF Call, RegsKept, Regs
  <2>4. Push(Item("near", 1, 0), ws)
    BY <1>5, <2>1 DEF Call
  <2> QED BY <2>2, <2>3, <2>4, PushItem
<1>6. ASSUME CallFar PROVE StackInv'
  <2>1. PICK ws : ws = <<cs, ip>>
    OBVIOUS
  <2>2. ws \in Seq(Word) /\ Len(ws) = 2 /\ ws[1] \in Code /\ ws[2] \in Targets
    BY <1>1, <2>1
  <2>3. bp' = bp /\ RegsKept
    BY <1>1, <1>6 DEF CallFar, RegsKept, Regs
  <2>4. Push(Item("far", 2, 0), ws)
    BY <1>6, <2>1 DEF CallFar
  <2> QED BY <2>2, <2>3, <2>4, PushItem
<1> QED BY <1>2, <1>3, <1>4, <1>5, <1>6

\* A word popped is the word of an item.
LEMMA PoppedItem ==
  ASSUME StackInv, NEW i \in DOMAIN shape, NEW j \in 1..shape[i].size,
         NEW k \in Nat, k = (Depth - shape[i].under) - (j - 1),
         NEW n \in Nat, k <= n, ~Overruns(sp, n)
  PROVE  Popped(sp, k) = Wd(i, j) /\ Popped(sp, k) \in Word
<1>1. /\ Start /\ Room \in Nat /\ sp = At(top - Depth)
      /\ Depth = DepthOf(Len(shape)) /\ Depth \in 0..Room
      /\ shape[i].under \in Nat /\ shape[i].size \in Nat
      /\ i \in 0..Len(shape)
  <2>1. Len(shape) \in 0..Len(shape) /\ i \in 0..Len(shape)
    BY Structure
  <2> QED BY <2>1, Structure
<1>2. DepthOf(i) <= Depth /\ DepthOf(i) = shape[i].under + shape[i].size
  BY <1>1, Structure
<1>3. PICK d : d = Depth
  OBVIOUS
<1>4. PICK u, z : u = shape[i].under /\ z = shape[i].size
  OBVIOUS
<1>5. u \in Nat /\ z \in Nat /\ d \in Nat /\ u + z <= d /\ d <= Room /\ j \in 1..z
      /\ k = (d - u) - (j - 1) /\ Room \in Nat
  BY <1>1, <1>2, <1>3, <1>4
<1>6. d \in 1..Room /\ k \in 1..d /\ d - k + 1 = u + j
  BY <1>5
<1>7. Popped(sp, k) = mem[Pos(u + j)]
  <2>1. ~Overruns(At(top - d), n) /\ sp = At(top - d)
    BY <1>1, <1>3
  <2>2. Popped(At(top - d), k) = mem[Pos(d - k + 1)]
    BY <1>1, <1>6, <2>1, PoppedWord
  <2> QED BY <1>6, <2>1, <2>2
<1>8. Cell(i, j) = Pos(u + j) /\ Cell(i, j) \in Offset
  BY <1>4, Cells
<1>9. mem \in [Offset \union {-1} -> Word]
  BY DEF StackInv, TypeOK
<1> QED BY <1>7, <1>8, <1>9 DEF Wd

\* The item on top.
LEMMA TopItem ==
  ASSUME StackInv, NEW kind, TopIs(kind)
  PROVE  /\ Len(shape) \in DOMAIN shape /\ Last(shape) = shape[Len(shape)]
         /\ shape[Len(shape)].kind = kind /\ Sized(shape[Len(shape)])
         /\ Depth = shape[Len(shape)].under + shape[Len(shape)].size
         /\ Depth \in 0..Room
         /\ Len(shape) - 1 \in 0..Len(shape)
         /\ shape[Len(shape)].under = DepthOf(Len(shape) - 1)
<1>1. shape # << >> /\ Last(shape).kind = kind
  BY DEF TopIs
<1>2. Len(shape) \in DOMAIN shape /\ Last(shape) = shape[Len(shape)] /\ Len(shape) \in Nat
  BY <1>1, Structure DEF Last
<1>3. /\ Depth = DepthOf(Len(shape)) /\ DepthOf(Len(shape)) \in 0..Room
      /\ DepthOf(Len(shape)) = shape[Len(shape)].under + shape[Len(shape)].size
      /\ shape[Len(shape)].under = DepthOf(Len(shape) - 1)
  <2>1. Len(shape) \in 0..Len(shape)
    BY <1>2
  <2> QED BY <1>2, <2>1, Structure
<1>4. Sized(shape[Len(shape)])
  BY <1>2 DEF StackInv, Stacked
<1>5. Len(shape) - 1 \in 0..Len(shape)
  BY <1>2, Structure
<1> QED BY <1>1, <1>2, <1>3, <1>4, <1>5

\* SP, j words up.
LEMMA Advance ==
  ASSUME StackInv, NEW m \in 0..Len(shape), NEW j \in Nat, DepthOf(m) + j = Depth
  PROVE  At(sp + j) = At(top - DepthOf(m))
<1>1. /\ Start /\ sp = At(top - Depth) /\ Depth \in 0..Room /\ DepthOf(m) \in 0..Room
      /\ Room \in Nat
  <2>1. Len(shape) \in 0..Len(shape)
    BY Structure
  <2> QED BY <2>1, Structure
<1>2. PICK d, e : d = Depth /\ e = DepthOf(m)
  OBVIOUS
<1>3. d \in 0..Room /\ e \in 0..Room /\ j = d - e /\ j \in Int
  BY <1>1, <1>2
<1>4. At(At(top - d) + j) = At(top - e)
  BY <1>1, <1>3, Moved
<1> QED BY <1>1, <1>2, <1>4

\* BP, when no frame is among the items dropped.
LEMMA BpBelow ==
  ASSUME StackInv, NEW m \in 0..Len(shape),
         \A i \in (m + 1)..Len(shape) : shape[i].kind # "frame"
  PROVE  Linked(bp, m)
<1>1. Linked(bp, Len(shape)) /\ Len(shape) \in Nat /\ m \in Nat
  BY Structure DEF StackInv, Saved
<1>2. ASSUME NEW j \in 1..Len(shape), shape[j].kind = "frame"
      PROVE  j \in 1..m
  <2>1. ~(j \in (m + 1)..Len(shape))
    BY <1>2
  <2> QED BY <1>1, <2>1
<1> QED BY <1>1, <1>2 DEF Linked

LEMMA PopStep ==
  ASSUME StackInv, NEW m \in 0..Len(shape), NEW n, NEW items \in Nat, items = Len(shape) - m,
         NEW s, s = At(top - DepthOf(m)), Pop(n, items, s), Linked(bp', m)
  PROVE  Drops(m)
<1>1. /\ sp' = s /\ mem' = Kept(mem, s) /\ shape' = Dropped(items)
      /\ ss' = ss /\ top' = top /\ crashed' = crashed
  BY DEF Pop
<1>2. Len(shape) - items = m
  BY Structure
<1>3. shape' = SubSeq(shape, 1, m)
  BY <1>1, <1>2 DEF Dropped
<1> QED BY <1>1, <1>3 DEF Drops

\* The arguments under a return address, each a word.
LEMMA ArgsBelow ==
  ASSUME StackInv, NEW kind \in {"near", "far"}, TopIs(kind), NEW n \in Nat, Args(n)
  PROVE  /\ Len(shape) - (n + 1) \in 0..Len(shape)
         /\ DepthOf(Len(shape) - (n + 1)) + n = shape[Len(shape)].under
         /\ \A i \in (Len(shape) - n)..Len(shape) : shape[i].kind # "frame"
<1>1. PICK l : l = Len(shape)
  OBVIOUS
<1>2. l \in Nat /\ n < l /\ l \in DOMAIN shape /\ DOMAIN shape = 1..l /\ shape[l].kind = kind
  BY <1>1, TopItem, Structure DEF Args
<1>3. /\ l - n \in 1..l /\ l - (n + 1) \in 0..l /\ (l - n) - 1 = l - (n + 1)
      /\ l = (l - n) + n /\ l - n <= l
  BY <1>2
<1>4. ASSUME NEW i \in (l - n)..(l - 1)
      PROVE  i \in DOMAIN shape /\ shape[i].kind = "word" /\ shape[i].size = 1
  <2>1. i \in DOMAIN shape /\ l - i \in 1..n /\ l - (l - i) = i
    BY <1>2
  <2>2. shape[i].kind = "word"
    BY <1>1, <2>1 DEF Args
  <2>3. Sized(shape[i])
    BY <2>1 DEF StackInv, Stacked
  <2> QED BY <2>1, <2>2, <2>3 DEF Sized
<1>5. shape[l].under = shape[l - n].under + (l - (l - n))
  BY <1>2, <1>3, <1>4 DEF StackInv, Stacked
<1>6. shape[l - n].under \in Nat /\ shape[l - n].under = DepthOf((l - n) - 1)
  BY <1>2, <1>3, Structure
<1>7. DepthOf(l - (n + 1)) + n = shape[l].under
  <2> DEFINE u == shape[l - n].under
             v == shape[l].under
  <2>1. u \in Nat /\ v = u + (l - (l - n)) /\ l \in Nat /\ DepthOf(l - (n + 1)) = u
    BY <1>2, <1>3, <1>5, <1>6
  <2> HIDE DEF u, v
  <2>2. DepthOf(l - (n + 1)) + n = v
    BY <2>1
  <2> QED BY <2>2 DEF v
<1>8. ASSUME NEW i \in (l - n)..l
      PROVE  shape[i].kind # "frame"
  <2>1. i = l \/ i \in (l - n)..(l - 1)
    BY <1>2
  <2> QED BY <1>2, <1>4, <2>1
<1> QED BY <1>1, <1>3, <1>7, <1>8

\* A word on top that is no return address is popped.
LEMMA PopsWord ==
  ASSUME StackInv, PopWord \/ PopFlags, NEW l, l = Len(shape)
  PROVE  Drops(l - 1) /\ RegsKept /\ Popped(sp, 1) = Wd(l, 1)
<1>1. PICK kind \in {"word", "flags"} : TopIs(kind) /\ Pop(1, 1, At(sp + 1)) /\ bp' = bp
  BY DEF PopWord, PopFlags
<1>2. l = Len(shape)
  OBVIOUS
<1>3. /\ l \in DOMAIN shape /\ shape[l].kind = kind /\ Sized(shape[l])
      /\ Depth = shape[l].under + shape[l].size /\ l - 1 \in 0..l
      /\ shape[l].under = DepthOf(l - 1) /\ shape[l].under \in Nat
  BY <1>1, <1>2, TopItem, Structure
<1>4. shape[l].size = 1
  BY <1>3 DEF Sized
<1>5. ~Overruns(sp, 1)
  BY <1>1 DEF Pop
<1>6. Popped(sp, 1) = Wd(l, 1) /\ Popped(sp, 1) \in Word
  <2>1. 1 = (Depth - shape[l].under) - (1 - 1) /\ 1 \in 1..shape[l].size
    BY <1>3, <1>4
  <2> QED BY <1>3, <1>5, <2>1, PoppedItem
<1>7. RegsKept
  <2>1. regs \in [Gpr -> Word] /\ psw \in SUBSET Flag /\ cs \in Code /\ ip \in Targets
    BY DEF StackInv, TypeOK, Regs
  <2>2. SetPsw(Popped(sp, 1)) \in SUBSET Flag
    BY DEF SetPsw
  <2>3. CASE PopWord
    BY <1>6, <2>1, <2>3 DEF PopWord, RegsKept, Regs
  <2>4. CASE PopFlags
    BY <2>1, <2>2, <2>4 DEF PopFlags, RegsKept, Regs
  <2> QED BY <2>3, <2>4
<1>8. At(sp + 1) = At(top - DepthOf(l - 1))
  BY <1>2, <1>3, <1>4, Advance
<1>9. Linked(bp', l - 1)
  <2>1. \A i \in ((l - 1) + 1)..l : i = l
    BY <1>3, Structure
  <2> QED BY <1>1, <1>2, <1>3, <2>1, BpBelow
<1>10. 1 = l - (l - 1)
  BY <1>3, Structure
<1> QED BY <1>1, <1>2, <1>3, <1>6, <1>7, <1>8, <1>9, <1>10, PopStep

\* POPA finds SP where it was before PUSHA, and BP on a frame.
LEMMA PopsAll ==
  ASSUME StackInv, PopAll, NEW l, l = Len(shape)
  PROVE  /\ Drops(l - 1) /\ RegsKept
         /\ \A k \in 1..8 : Popped(sp, k) = Wd(l, 9 - k)
<1>1. TopIs("all") /\ Pop(8, 1, Popped(sp, 4)) /\ bp' = Popped(sp, 3)
  BY DEF PopAll
<1>2. l = Len(shape)
  OBVIOUS
<1>3. /\ l \in DOMAIN shape /\ shape[l].kind = "all" /\ Sized(shape[l])
      /\ Depth = shape[l].under + shape[l].size /\ l - 1 \in 0..l
      /\ shape[l].under = DepthOf(l - 1) /\ shape[l].under \in Nat
  BY <1>1, <1>2, TopItem, Structure
<1>4. shape[l].size = 8
  BY <1>3 DEF Sized
<1>5. ~Overruns(sp, 8)
  BY <1>1 DEF Pop
<1>6. ASSUME NEW k \in 1..8
      PROVE  Popped(sp, k) = Wd(l, 9 - k) /\ Popped(sp, k) \in Word
  <2>1. k = (Depth - shape[l].under) - ((9 - k) - 1) /\ 9 - k \in 1..shape[l].size
    BY <1>3, <1>4
  <2> QED BY <1>3, <1>5, <2>1, PoppedItem
<1>7. Popped(sp, 4) = Wd(l, 5) /\ Popped(sp, 3) = Wd(l, 6)
  BY <1>6
<1>8. SavedAt(l)
  BY <1>3 DEF StackInv, Saved
<1>9. Popped(sp, 4) = At(top - DepthOf(l - 1)) /\ Linked(bp', l - 1)
  BY <1>1, <1>3, <1>7, <1>8 DEF SavedAt
<1>10. RegsKept
  <2>1. psw \in SUBSET Flag /\ cs \in Code /\ ip \in Targets
    BY DEF StackInv, TypeOK
  <2>2. regs' \in [Gpr -> Word]
    <3>1. \A k \in 1..8 : Popped(sp, k) \in Word
      BY <1>6
    <3>2. regs' = [iy |-> Popped(sp, 1), ix |-> Popped(sp, 2), bw |-> Popped(sp, 5),
                   dw |-> Popped(sp, 6), cw |-> Popped(sp, 7), aw |-> Popped(sp, 8)]
      BY DEF PopAll
    <3> QED BY <3>1, <3>2 DEF Gpr
  <2> QED BY <2>1, <2>2 DEF PopAll, RegsKept, Regs
<1>11. 1 = l - (l - 1)
  BY <1>3, Structure
<1>12. Drops(l - 1)
  BY <1>1, <1>2, <1>3, <1>9, <1>11, PopStep
<1> QED BY <1>6, <1>10, <1>12

\* A procedure returns, and its arguments are gone.
LEMMA Returns ==
  ASSUME StackInv, NEW n \in 0..MaxArgs, Return(n) \/ ReturnFar(n), NEW l, l = Len(shape)
  PROVE  /\ Drops(l - (n + 1)) /\ RegsKept
         /\ shape[l].kind = "near" => Popped(sp, 1) = Wd(l, 1)
         /\ shape[l].kind = "far" => Popped(sp, 1) = Wd(l, 2) /\ Popped(sp, 2) = Wd(l, 1)
<1>1. n \in Nat
  BY Program
<1>2. PICK kind \in {"near", "far"}, w \in {1, 2} :
        /\ w = (IF kind = "near" THEN 1 ELSE 2)
        /\ TopIs(kind) /\ Args(n) /\ Pop(w, n + 1, At(sp + w + n)) /\ bp' = bp
        /\ ip' = Popped(sp, 1) /\ cs' = (IF kind = "near" THEN cs ELSE Popped(sp, 2))
        /\ regs' = regs /\ psw' = psw
  <2>1. CASE Return(n)
    BY <2>1 DEF Return
  <2>2. CASE ReturnFar(n)
    BY <2>2 DEF ReturnFar
  <2> QED BY <2>1, <2>2
<1>3. l = Len(shape)
  OBVIOUS
<1>4. PICK m : m = l - (n + 1)
  OBVIOUS
<1>5. /\ l \in DOMAIN shape /\ shape[l].kind = kind /\ Sized(shape[l])
      /\ Depth = shape[l].under + shape[l].size /\ shape[l].under \in Nat
  BY <1>2, <1>3, TopItem, Structure
<1>6. shape[l].size = w
  BY <1>2, <1>5 DEF Sized
<1>7. /\ m \in 0..Len(shape) /\ DepthOf(m) + n = shape[l].under
      /\ \A i \in (l - n)..l : shape[i].kind # "frame"
  BY <1>1, <1>2, <1>3, <1>4, ArgsBelow
<1>8. m + 1 = l - n /\ n + 1 = l - m /\ l \in Nat /\ n + 1 \in Nat
  BY <1>1, <1>3, <1>4, Structure
<1>9. DepthOf(m) \in Nat
  BY <1>7, Structure
<1>10. At(sp + w + n) = At(top - DepthOf(m))
  <2>1. DepthOf(m) + (w + n) = Depth /\ w + n \in Nat
    <3>1. PICK a, u : a = DepthOf(m) /\ u = shape[l].under
      OBVIOUS
    <3>2. a \in Nat /\ u \in Nat /\ a + n = u /\ Depth = u + w
      BY <1>5, <1>6, <1>7, <1>9, <3>1
    <3>3. PICK e : e = Depth
      OBVIOUS
    <3>4. a \in Nat /\ n \in Nat /\ w \in Nat /\ e = (a + n) + w
      BY <1>1, <3>2, <3>3
    <3>5. a + (w + n) = e /\ w + n \in Nat
      BY <3>4
    <3> QED BY <3>1, <3>3, <3>5
  <2>2. At(sp + (w + n)) = At(top - DepthOf(m))
    BY <1>7, <2>1, Advance
  <2>3. sp \in Int
    BY Sizes DEF StackInv, TypeOK
  <2>4. sp + w + n = sp + (w + n)
    BY <1>1, <2>3
  <2> QED BY <2>2, <2>4
<1>11. Linked(bp', m)
  BY <1>2, <1>3, <1>7, <1>8, BpBelow
<1>12. ~Overruns(sp, w)
  BY <1>2 DEF Pop
<1>13. ASSUME NEW k \in 1..w
       PROVE  Popped(sp, k) = Wd(l, (w + 1) - k)
  <2>1. k = (Depth - shape[l].under) - (((w + 1) - k) - 1) /\ (w + 1) - k \in 1..shape[l].size
    BY <1>5, <1>6
  <2> QED BY <1>5, <1>12, <2>1, PoppedItem
<1>14. SavedAt(l)
  BY <1>5 DEF StackInv, Saved
<1>15. /\ kind = "near" => Popped(sp, 1) = Wd(l, 1)
       /\ kind = "far" => Popped(sp, 1) = Wd(l, 2) /\ Popped(sp, 2) = Wd(l, 1)
  BY <1>2, <1>13
<1>16. RegsKept
  <2>1. regs \in Regs /\ psw \in SUBSET Flag /\ cs \in Code
    BY DEF StackInv, TypeOK
  <2>2. CASE kind = "near"
    BY <1>2, <1>5, <1>14, <1>15, <2>1, <2>2 DEF SavedAt, RegsKept
  <2>3. CASE kind = "far"
    BY <1>2, <1>5, <1>14, <1>15, <2>1, <2>3 DEF SavedAt, RegsKept
  <2> QED BY <2>2, <2>3
<1>17. Drops(m)
  BY <1>2, <1>3, <1>7, <1>8, <1>10, <1>11, PopStep
<1> QED BY <1>4, <1>5, <1>16, <1>15, <1>17

\* A handler returns, with the flags it was called with.
LEMMA ReturnsInt ==
  ASSUME StackInv, ReturnInt, NEW l, l = Len(shape)
  PROVE  /\ Drops(l - 2) /\ RegsKept
         /\ Popped(sp, 1) = Wd(l, 2) /\ Popped(sp, 2) = Wd(l, 1)
         /\ Popped(sp, 3) = Wd(l - 1, 1)
<1>1. /\ TopIs("far") /\ Len(shape) > 1 /\ shape[Len(shape) - 1].kind = "flags"
      /\ Pop(3, 2, At(sp + 3)) /\ bp' = bp /\ regs' = regs
      /\ ip' = Popped(sp, 1) /\ cs' = Popped(sp, 2) /\ psw' = SetPsw(Popped(sp, 3))
  BY DEF ReturnInt, Handler
<1>2. l = Len(shape)
  OBVIOUS
<1>3. /\ l \in DOMAIN shape /\ shape[l].kind = "far" /\ Sized(shape[l])
      /\ Depth = shape[l].under + shape[l].size /\ shape[l].under \in Nat
      /\ shape[l].under = DepthOf(l - 1)
  BY <1>1, <1>2, TopItem, Structure
<1>4. /\ l \in Nat /\ l > 1 /\ l - 1 \in DOMAIN shape /\ l - 2 \in 0..l /\ (l - 1) - 1 = l - 2
      /\ (l - 2) + 1 = l - 1 /\ 2 = l - (l - 2)
      /\ \A i \in (l - 1)..l : i = l - 1 \/ i = l
  BY <1>1, <1>2, Structure
<1>5. Sized(shape[l - 1])
  BY <1>4 DEF StackInv, Stacked
<1>6. /\ shape[l].size = 2 /\ shape[l - 1].size = 1
  BY <1>1, <1>2, <1>3, <1>5 DEF Sized
<1>7. /\ shape[l - 1].under = DepthOf(l - 2) /\ shape[l - 1].under \in Nat
      /\ DepthOf(l - 1) = shape[l - 1].under + shape[l - 1].size
  BY <1>4, Structure
<1>8. At(sp + 3) = At(top - DepthOf(l - 2))
  <2>1. DepthOf(l - 2) + 3 = Depth
    BY <1>3, <1>6, <1>7
  <2> QED BY <1>2, <1>4, <2>1, Advance
<1>9. Linked(bp', l - 2)
  BY <1>1, <1>2, <1>3, <1>4, BpBelow
<1>10. ~Overruns(sp, 3)
  BY <1>1 DEF Pop
<1>11. Popped(sp, 1) = Wd(l, 2) /\ Popped(sp, 2) = Wd(l, 1)
  <2>1. /\ 1 = (Depth - shape[l].under) - (2 - 1) /\ 2 = (Depth - shape[l].under) - (1 - 1)
        /\ 1 \in 1..shape[l].size /\ 2 \in 1..shape[l].size
    BY <1>3, <1>6
  <2> QED BY <1>3, <1>10, <2>1, PoppedItem
<1>12. SavedAt(l)
  BY <1>3 DEF StackInv, Saved
<1>13. RegsKept
  <2>1. regs \in Regs /\ SetPsw(Popped(sp, 3)) \in SUBSET Flag
    BY DEF StackInv, TypeOK, SetPsw
  <2> QED BY <1>1, <1>3, <1>11, <1>12, <2>1 DEF SavedAt, RegsKept
<1>14. Popped(sp, 3) = Wd(l - 1, 1)
  <2>1. 3 = (Depth - shape[l - 1].under) - (1 - 1) /\ 1 \in 1..shape[l - 1].size
    BY <1>3, <1>6, <1>7
  <2> QED BY <1>4, <1>10, <2>1, PoppedItem
<1>15. Drops(l - 2)
  BY <1>1, <1>2, <1>4, <1>8, <1>9, PopStep
<1> QED BY <1>11, <1>13, <1>14, <1>15

-----------------------------------------------------------------------------
(* Frames.                                                                 *)

\* The frame BP is on.
LEMMA Framed ==
  ASSUME StackInv, FrameAt(bp) > 0
  PROVE  /\ FrameAt(bp) \in DOMAIN shape /\ shape[FrameAt(bp)].kind = "frame"
         /\ Sized(shape[FrameAt(bp)])
         /\ bp = Cell(FrameAt(bp), 1) /\ bp = Pos(shape[FrameAt(bp)].under + 1)
         /\ shape[FrameAt(bp)].under + 1 \in 1..Room
         /\ 1 \in 1..shape[FrameAt(bp)].size
<1>1. PICK f : f = FrameAt(bp)
  OBVIOUS
<1>2. f # 0
  BY <1>1
<1>3. f \in DOMAIN shape /\ shape[f].kind = "frame" /\ bp = Cell(f, 1)
  BY <1>1, <1>2, FrameFound
<1>4. Sized(shape[f]) /\ 1 \in 1..shape[f].size
  BY <1>3, Structure DEF StackInv, Stacked
<1> QED BY <1>1, <1>3, <1>4, Cells

\* LEAVE.
LEMMA Leaves ==
  ASSUME StackInv, Leave, NEW f, f = FrameAt(bp)
  PROVE  Drops(f - 1) /\ RegsKept /\ bp' = Wd(f, 1) /\ regVars' = regVars
<1>1. f = FrameAt(bp)
  OBVIOUS
<1>2. /\ f > 0 /\ ~Overruns(bp, 1) /\ bp' = Popped(bp, 1) /\ sp' = At(bp + 1)
      /\ mem' = Kept(mem, sp') /\ shape' = SubSeq(shape, 1, f - 1)
      /\ ss' = ss /\ top' = top /\ crashed' = crashed /\ regVars' = regVars
  BY <1>1 DEF Leave, CanLeave
<1>3. /\ f \in DOMAIN shape /\ shape[f].kind = "frame"
      /\ bp = Cell(f, 1) /\ bp = Pos(shape[f].under + 1) /\ shape[f].under + 1 \in 1..Room
  BY <1>1, <1>2, Framed
<1>4. PICK u : u = shape[f].under
  OBVIOUS
<1>5. /\ Start /\ Room \in Nat /\ u \in Nat /\ u = DepthOf(f - 1) /\ f - 1 \in 0..Len(shape)
      /\ u + 1 \in 0..Room /\ u \in 0..Room /\ u + 1 # 0 /\ u + 1 \in 1..Room
  <2>1. Start /\ Room \in Nat /\ u \in Nat /\ u = DepthOf(f - 1) /\ u + 1 \in 1..Room
    BY <1>3, <1>4, Structure
  <2>2. f - 1 \in 0..Len(shape)
    BY <1>3, Structure
  <2> QED BY <2>1, <2>2
<1>6. bp = At(top - (u + 1))
  BY <1>3, <1>4, <1>5, Above
<1>7. sp' = At(top - DepthOf(f - 1))
  <2>1. 1 = (u + 1) - u /\ 1 \in Int
    BY <1>5
  <2>2. At(At(top - (u + 1)) + 1) = At(top - u)
    BY <1>5, <2>1, Moved
  <2> QED BY <1>2, <1>5, <1>6, <2>2
<1>8. bp' = Wd(f, 1)
  <2>1. ~Overruns(At(top - (u + 1)), 1)
    BY <1>2, <1>6
  <2>2. 1 \in 1..(u + 1) /\ 1 <= 1 /\ 1 \in Nat /\ (u + 1) - 1 + 1 = u + 1
    BY <1>5
  <2>3. Popped(At(top - (u + 1)), 1) = mem[Pos((u + 1) - 1 + 1)]
    BY <1>5, <2>1, <2>2, PoppedWord
  <2> QED BY <1>2, <1>3, <1>4, <1>6, <2>2, <2>3 DEF Wd
<1>9. Linked(bp', f - 1)
  <2>1. SavedAt(f)
    BY <1>3 DEF StackInv, Saved
  <2> QED BY <1>3, <1>8, <2>1 DEF SavedAt
<1>10. RegsKept
  BY <1>2 DEF StackInv, TypeOK, RegsKept, regVars
<1> QED BY <1>2, <1>5, <1>7, <1>8, <1>9, <1>10 DEF Drops

\* An assignment to a local variable, word k + 1 of its frame, changes no other word.
Assigned(f, k, v) ==
  /\ f = FrameAt(bp) /\ f \in DOMAIN shape /\ shape[f].kind = "frame"
  /\ k + 1 \in 1..shape[f].size /\ v \in Word
  /\ Cell(f, k + 1) \in Offset
  /\ mem' = [mem EXCEPT ![Cell(f, k + 1)] = v]
  /\ UNCHANGED <<ss, sp, bp, regVars, crashed, shape, top>>
  /\ Left(Len(shape))

LEMMA StoresWord ==
  ASSUME StackInv, NEW k \in 1..MaxLocals, Store(k)
  PROVE  \E f, v : Assigned(f, k, v) /\ v \in Values /\ k \in 1..shape[f].locals
<1>1. PICK f : f = FrameAt(bp)
  OBVIOUS
<1>2. PICK v \in Values : mem' = [mem EXCEPT ![At(bp - k)] = v]
  BY DEF Store
<1>3. f > 0 /\ k <= shape[f].locals /\ UNCHANGED <<ss, sp, bp, regVars, crashed, shape, top>>
  BY <1>1 DEF Store
<1>4. /\ f \in DOMAIN shape /\ shape[f].kind = "frame" /\ Sized(shape[f])
      /\ bp = Pos(shape[f].under + 1)
  BY <1>1, <1>3, Framed
<1>5. PICK u, z, c : u = shape[f].under /\ z = shape[f].size /\ c = shape[f].locals
  OBVIOUS
<1>6. k \in Nat /\ k >= 1 /\ u \in Nat /\ z \in Nat /\ c \in Nat /\ c < z /\ k <= c
  BY <1>3, <1>4, <1>5, Structure, Program DEF Sized
<1>7. k + 1 \in 1..z /\ k \in 1..c
  BY <1>6
<1>8. Cell(f, k + 1) = Pos(u + (k + 1)) /\ Cell(f, k + 1) \in Offset
  BY <1>4, <1>5, <1>7, Cells
<1>9. At(bp - k) = Cell(f, k + 1)
  <2>1. Base \in Nat
    BY Structure, StartFacts
  <2>2. bp - k = Pos(u + (k + 1))
    BY <1>4, <1>5, <1>6, <2>1 DEF Pos
  <2>3. SegSize \in Nat /\ Offset = 0..(SegSize - 1)
    BY Sizes
  <2>4. PICK o : o = bp - k
    OBVIOUS
  <2>5. o \in Int /\ 0 <= o /\ o < SegSize /\ o = Cell(f, k + 1)
    BY <1>8, <2>2, <2>3, <2>4
  <2>6. At(o) = o
    BY <2>5, Around
  <2> QED BY <2>4, <2>5, <2>6
<1>10. Left(Len(shape))
  <2>1. ASSUME NEW i \in 1..Len(shape), NEW j \in 1..shape[i].size,
               shape[i].kind = "frame" => j = 1
        PROVE  mem'[Cell(i, j)] = mem[Cell(i, j)]
    <3>1. i \in DOMAIN shape
      BY Structure
    <3>2. Cell(i, j) # Cell(f, k + 1)
      <4> SUFFICES ASSUME Cell(i, j) = Cell(f, k + 1) PROVE FALSE
        OBVIOUS
      <4>1. i = f /\ j = k + 1
        BY <1>4, <1>5, <1>7, <3>1, Apart
      <4> QED BY <1>4, <1>6, <2>1, <4>1
    <3>3. mem \in [Offset \union {-1} -> Word] /\ Cell(i, j) \in Offset
      BY <3>1, Cells DEF StackInv, TypeOK
    <3> QED BY <1>2, <1>9, <3>2, <3>3
  <2>2. Len(shape) \in Nat /\ Len(shape) <= Len(shape)
    BY Structure
  <2> QED BY <1>3, <2>1, <2>2 DEF Left
<1>11. v \in Word
  BY <1>2, Program
<1> QED BY <1>1, <1>2, <1>3, <1>4, <1>5, <1>7, <1>8, <1>9, <1>10, <1>11 DEF Assigned

LEMMA Stores ==
  ASSUME StackInv, NEW k \in 1..MaxLocals, Store(k)
  PROVE  StackInv'
<1>1. PICK f, v : Assigned(f, k, v)
  BY StoresWord
<1>2. Len(shape) \in Nat /\ Len(shape) \in 0..Len(shape)
  BY Structure
<1>3. /\ ss' = ss /\ sp' = sp /\ bp' = bp /\ crashed' = crashed /\ shape' = shape
      /\ top' = top /\ regs' = regs /\ psw' = psw /\ cs' = cs /\ ip' = ip
      /\ Left(Len(shape))
  BY <1>1 DEF Assigned, regVars
<1>4. mem' \in [Offset \union {-1} -> Word]
  <2>1. mem \in [Offset \union {-1} -> Word]
    BY DEF StackInv, TypeOK
  <2> QED BY <1>1, <2>1 DEF Assigned
<1>5. Stacked' /\ Balanced'
  BY <1>3 DEF StackInv, Stacked, Balanced, DepthOf, Depth, Room, At
<1>6. Linked(bp, Len(shape))'
  <2>1. PICK b : b = bp
    OBVIOUS
  <2>2. Linked(b, Len(shape))
    BY <2>1 DEF StackInv, Saved
  <2>3. PICK l : l = Len(shape)
    OBVIOUS
  <2>4. l \in 0..Len(shape) /\ Left(l) /\ l \in 0..l
    BY <1>2, <1>3, <2>3
  <2>5. Linked(b, l)'
    BY <2>2, <2>3, <2>4, Carried
  <2> QED BY <1>3, <2>1, <2>3, <2>5
<1>7. /\ sp' \in Offset /\ Len(shape') <= MaxItems /\ crashed' \in BOOLEAN /\ RegsKept
      /\ bp' \in Offset
  BY <1>3 DEF StackInv, TypeOK, RegsKept
<1> QED BY <1>2, <1>3, <1>4, <1>5, <1>6, <1>7, Assembled

Words(k) == { ws \in Seq(Word) : Len(ws) = k }

\* What ENTER copies from under the new BP is in the segment.
LEMMA DisplayWords ==
  ASSUME Start, NEW m \in [Offset \union {-1} -> Word],
         NEW n \in Nat, NEW level \in Nat, NEW d \in Nat, d + 1 + n + level <= Room
  PROVE  Display(m, Pos(d + 1), n, level) \in Words(level)
<1> DEFINE b == Pos(d + 1)
           at(i) == b - (IF n = 0 THEN i ELSE 1 + ((i - 1) % n))
           word(i) == IF i = level THEN b ELSE m[at(i)]
<1>1. /\ Room \in Nat /\ Base \in Nat /\ Base = Room + 1 /\ Base <= SegSize /\ SegSize \in Nat
      /\ Offset = 0..(SegSize - 1) /\ Offset \subseteq Word
  BY StartFacts, Sizes
<1>2. b \in Int /\ 1 + n + level <= b /\ b < SegSize
  BY <1>1 DEF Pos
<1>3. b \in Word
  BY <1>1, <1>2
<1> HIDE DEF b
<1>4. ASSUME NEW i \in 1..level, i # level
      PROVE  m[at(i)] \in Word
  <2>1. at(i) \in Int /\ 0 <= at(i) /\ at(i) < SegSize
    <3>1. CASE n = 0
      BY <1>1, <1>2, <1>4, <3>1
    <3>2. CASE n # 0
      <4> DEFINE r == (i - 1) % n
      <4>1. r \in Int /\ 0 <= r /\ r < n
        BY <3>2
      <4>2. at(i) = b - (1 + r)
        BY <3>2
      <4> HIDE DEF r, at
      <4> QED BY <1>1, <1>2, <4>1, <4>2
    <3> QED BY <3>1, <3>2
  <2> HIDE DEF at
  <2>2. at(i) \in Offset
    BY <1>1, <2>1
  <2> QED BY <2>2
<1>5. \A i \in 1..level : word(i) \in Word
  <2> HIDE DEF at
  <2> QED BY <1>3, <1>4
<1>6. Display(m, b, n, level) = [i \in 1..level |-> word(i)]
  BY DEF Display
<1> HIDE DEF word
<1>7. [i \in 1..level |-> word(i)] \in Seq(Word) /\ Len([i \in 1..level |-> word(i)]) = level
  BY <1>5
<1> QED BY <1>6, <1>7 DEF b, Words

\* A new frame: BP on it, and its first word the BP before.
Entered(it, n) ==
  /\ Left(n) /\ Untouched(n) /\ n = Len(shape) /\ Len(shape') = n + 1 /\ shape'[n + 1] = it
  /\ Stacked' /\ Balanced' /\ sp' \in Offset /\ Len(shape') <= MaxItems
  /\ mem' \in [Offset \union {-1} -> Word]
  /\ ss' = ss /\ top' = top /\ crashed' = crashed /\ regVars' = regVars
  /\ it \in Items /\ Sized(it) /\ it.kind = "frame"
  /\ bp' = Cell(n + 1, 1)' /\ bp' \in Offset
  /\ Wd(n + 1, 1)' = bp

LEMMA EntersFrame ==
  ASSUME StackInv, NEW n \in 0..MaxLocals, NEW level \in Levels, Enter(n, level),
         NEW it, it = Frame(n, level), NEW l, l = Len(shape)
  PROVE  Entered(it, l)
<1>1. PICK d : it = Frame(n, level) /\ l = Len(shape) /\ d = Depth
  OBVIOUS
<1>2. n \in Nat /\ level \in Nat /\ 1 + n + level \in Nat /\ n <= MaxLocals
  <2>1. Levels \subseteq Nat
    BY Program
  <2>2. MaxLocals \in Nat
    BY Program
  <2> QED BY <2>1, <2>2
<1>3. /\ it \in Items /\ it.kind = "frame" /\ it.size = 1 + n + level /\ it.locals = n
      /\ it.under = Depth
  <2>1. "frame" \in Kinds
    BY DEF Kinds
  <2> QED BY <1>1, <1>2, <2>1, Pushable DEF Frame
<1>4. Sized(it)
  BY <1>2, <1>3 DEF Sized
<1>5. PICK b, saved, show :
        /\ b = At(sp - 1) /\ saved = Pushed(mem, sp, <<bp>>)
        /\ show = Display(saved, b, n, level)
  OBVIOUS
<1>6. /\ Fits(it) /\ bp' = b /\ mem' = Pushed(saved, At(b - n), show) /\ sp' = At(b - n - level)
      /\ shape' = Append(shape, it) /\ ss' = ss /\ top' = top /\ crashed' = crashed
      /\ regVars' = regVars
  BY <1>1, <1>5 DEF Enter
<1>7. /\ Start /\ Room \in Nat /\ sp = At(top - d) /\ d \in Nat /\ d + (1 + n + level) <= Room
      /\ mem \in [Offset \union {-1} -> Word] /\ bp \in Word
  <2>1. Len(shape) \in 0..Len(shape)
    BY Structure
  <2>2. Depth + it.size <= Room
    BY <1>6 DEF Fits
  <2>3. mem \in [Offset \union {-1} -> Word] /\ bp \in Word
    BY Sizes DEF StackInv, TypeOK
  <2> QED BY <1>1, <1>3, <2>1, <2>2, <2>3, Structure
<1>8. PICK e, f, g : e = d + 1 /\ f = d + 1 + n /\ g = d + 1 + n + level
  OBVIOUS
<1>9. /\ d \in 0..Room /\ e \in 1..Room /\ e \in 0..Room /\ f \in 0..Room /\ g \in 0..Room
      /\ -1 = d - e /\ -n = e - f /\ -(n + level) = e - g /\ -(1 + n + level) = d - g
      /\ e # 0 /\ d + 1 + n + level <= Room
      /\ -1 \in Int /\ -n \in Int /\ -(n + level) \in Int /\ -(1 + n + level) \in Int
  BY <1>2, <1>7, <1>8
<1>10. /\ b = At(top - e) /\ b = Pos(e) /\ b \in Offset /\ b \in Int
       /\ At(b - n) = At(top - f) /\ At(b - (n + level)) = At(top - g)
       /\ At(sp - (1 + n + level)) = At(top - g)
  <2>1. sp \in Int
    BY Sizes DEF StackInv, TypeOK
  <2>2. At(At(top - d) + -1) = At(top - e)
    BY <1>7, <1>9, Moved
  <2>3. sp - 1 = sp + -1
    BY <2>1
  <2>4. b = At(top - e)
    BY <1>5, <1>7, <2>2, <2>3
  <2>5. b = Pos(e) /\ b \in Offset /\ b \in Int
    BY <1>7, <1>9, <2>4, Above, Sizes
  <2>6. At(At(top - e) + -n) = At(top - f)
    BY <1>7, <1>9, Moved
  <2>7. At(At(top - e) + -(n + level)) = At(top - g)
    BY <1>7, <1>9, Moved
  <2>8. At(At(top - d) + -(1 + n + level)) = At(top - g)
    BY <1>7, <1>9, Moved
  <2>9. /\ b - n = b + -n /\ b - (n + level) = b + -(n + level)
        /\ sp - (1 + n + level) = sp + -(1 + n + level)
    BY <1>2, <2>1, <2>5
  <2> QED BY <1>7, <2>4, <2>5, <2>6, <2>7, <2>8, <2>9
<1>11. sp' = At(sp - it.size)
  <2>1. b - n - level = b - (n + level)
    BY <1>2, <1>10
  <2> QED BY <1>3, <1>6, <1>10, <2>1
<1>12. /\ Len(shape') = l + 1 /\ shape'[l + 1] = it /\ l \in Nat
       /\ \A i \in 1..l : shape'[i] = shape[i]
       /\ Stacked' /\ Balanced' /\ sp' \in Offset /\ Len(shape') <= MaxItems
       /\ \A k \in 1..it.size : Cell(l + 1, k)' = Pos(Depth + k)
  <2>1. l \in Nat
    BY <1>1, Structure
  <2> QED BY <1>1, <1>3, <1>4, <1>6, <1>11, <2>1, Grown
<1>13. /\ saved \in [Offset \union {-1} -> Word]
       /\ \A c \in 1..Room : saved[Pos(c)] = IF c = e THEN bp ELSE mem[Pos(c)]
  <2>1. PICK m, ws : m = mem /\ ws = <<bp>>
    OBVIOUS
  <2>2. ws \in Seq(Word) /\ Len(ws) = 1 /\ ws[1] = bp /\ d + Len(ws) <= Room
    BY <1>2, <1>7, <2>1
  <2>3. saved = Pushed(m, At(top - d), ws) /\ m \in [Offset \union {-1} -> Word]
    BY <1>5, <1>7, <2>1
  <2>4. /\ Pushed(m, At(top - d), ws) \in [Offset \union {-1} -> Word]
        /\ \A c \in 1..Room :
             Pushed(m, At(top - d), ws)[Pos(c)] =
               IF d < c /\ c <= d + Len(ws) THEN ws[c - d] ELSE m[Pos(c)]
    BY <1>7, <1>9, <2>2, <2>3, PushedWord
  <2>5. ASSUME NEW c \in 1..Room
        PROVE  saved[Pos(c)] = IF c = e THEN bp ELSE mem[Pos(c)]
    <3>1. (d < c /\ c <= d + 1) <=> c = e
      BY <1>7, <1>8
    <3>2. c = e => c - d = 1
      BY <1>7, <1>8
    <3> QED BY <2>1, <2>2, <2>3, <2>4, <3>1, <3>2
  <2> QED BY <2>3, <2>4, <2>5
<1>14. show \in Seq(Word) /\ Len(show) = level
  <2>1. show = Display(saved, Pos(d + 1), n, level)
    BY <1>5, <1>8, <1>10
  <2>2. saved \in [Offset \union {-1} -> Word]
    BY <1>13
  <2>3. Start /\ d \in Nat /\ n \in Nat /\ level \in Nat /\ d + 1 + n + level <= Room
    BY <1>2, <1>7, <1>9
  <2>4. Display(saved, Pos(d + 1), n, level) \in Words(level)
    BY <2>2, <2>3, DisplayWords
  <2> QED BY <2>1, <2>4 DEF Words
<1>15. /\ mem' \in [Offset \union {-1} -> Word]
       /\ \A c \in 1..e : mem'[Pos(c)] = saved[Pos(c)]
  <2>1. f + Len(show) <= Room
    BY <1>2, <1>7, <1>8, <1>14
  <2>2. mem' = Pushed(saved, At(top - f), show)
    BY <1>6, <1>10
  <2>3. /\ Pushed(saved, At(top - f), show) \in [Offset \union {-1} -> Word]
        /\ \A c \in 1..Room :
             Pushed(saved, At(top - f), show)[Pos(c)] =
               IF f < c /\ c <= f + Len(show) THEN show[c - f] ELSE saved[Pos(c)]
    BY <1>7, <1>9, <1>13, <1>14, <2>1, PushedWord
  <2>4. \A c \in 1..e : c \in 1..Room /\ ~(f < c)
    BY <1>2, <1>7, <1>8, <1>9
  <2> QED BY <2>2, <2>3, <2>4
<1>16. Left(l) /\ Untouched(l)
  <2>1. ASSUME NEW i \in 1..l, NEW k \in 1..shape[i].size
        PROVE  mem'[Cell(i, k)] = mem[Cell(i, k)]
    <3>1. l \in 0..Len(shape) /\ i \in DOMAIN shape
      BY <1>1, Structure
    <3>2. Cell(i, k) = Pos(shape[i].under + k) /\ shape[i].under + k \in 1..DepthOf(l)
      BY <3>1, InFirst
    <3>3. DepthOf(l) = d
      BY <1>1, Structure
    <3>4. PICK x : x = shape[i].under + k
      OBVIOUS
    <3>5. x \in 1..d /\ e = d + 1 /\ e \in 1..Room
      BY <1>8, <1>9, <3>2, <3>3, <3>4
    <3>6. x \in 1..e /\ x \in 1..Room /\ x # e
      BY <1>7, <3>5
    <3> QED BY <1>13, <1>15, <3>2, <3>4, <3>6
  <2>2. Left(l)
    BY <1>6, <1>12, <2>1 DEF Left
  <2>3. l \in 0..Len(shape)
    BY <1>1, <1>12
  <2> QED BY <2>1, <2>2, <2>3, SameWords
<1>17. bp' = Cell(l + 1, 1)' /\ Wd(l + 1, 1)' = bp
  <2>1. 1 \in 1..it.size
    BY <1>2, <1>3
  <2>2. Cell(l + 1, 1)' = Pos(e)
    BY <1>1, <1>8, <1>12, <2>1
  <2>3. mem'[Pos(e)] = bp
    BY <1>9, <1>13, <1>15
  <2> QED BY <1>6, <1>10, <2>2, <2>3 DEF Wd
<1> QED BY <1>1, <1>3, <1>4, <1>6, <1>10, <1>12, <1>15, <1>16, <1>17 DEF Entered

LEMMA Enters ==
  ASSUME StackInv, NEW n \in 0..MaxLocals, NEW level \in Levels, Enter(n, level)
  PROVE  StackInv'
<1>1. PICK it, l : it = Frame(n, level) /\ l = Len(shape)
  OBVIOUS
<1>2. Entered(it, l)
  BY <1>1, EntersFrame
<1>3. /\ l \in Nat /\ l \in 0..Len(shape) /\ l \in 0..l /\ (l + 1) - 1 = l /\ l + 1 \in 1..(l + 1)
  BY <1>1, Structure
<1>4. PICK b : b = bp
  OBVIOUS
<1>5. Linked(b, l)'
  BY <1>1, <1>2, <1>3, <1>4, Carried DEF Entered, StackInv, Saved
<1>6. SavedAt(l + 1)'
  BY <1>2, <1>3, <1>4, <1>5 DEF Entered, SavedAt
<1>7. Linked(bp, Len(shape))'
  BY <1>2, <1>3 DEF Entered, Linked
<1>8. crashed' \in BOOLEAN /\ RegsKept
  BY <1>2 DEF Entered, StackInv, TypeOK, RegsKept, regVars
<1> QED BY <1>2, <1>3, <1>6, <1>7, <1>8, Assembled DEF Entered

-----------------------------------------------------------------------------
(* The theorems.                                                           *)

LEMMA Steps ==
  ASSUME StackInv, [Next]_vars
  PROVE  StackInv'
<1>1. ASSUME Compute PROVE StackInv'
  <2>1. regs' \in Regs /\ psw' \in SUBSET Flag
    BY <1>1, Program DEF Compute
  <2>2. /\ ss' = ss /\ sp' = sp /\ bp' = bp /\ cs' = cs /\ ip' = ip /\ mem' = mem
        /\ crashed' = crashed /\ shape' = shape /\ top' = top
    BY <1>1 DEF Compute
  <2>3. TypeOK'
    BY <2>1, <2>2 DEF StackInv, TypeOK
  <2>4. Balanced' /\ Stacked'
    BY <2>2 DEF StackInv, Balanced, Stacked, DepthOf, Depth, Room, At
  <2>5. Saved'
    BY <2>2 DEF StackInv, Saved, SavedAt, Linked, Wd, Cell, At
  <2> QED BY <2>3, <2>4, <2>5 DEF StackInv
<1>2. ASSUME PopCrash \/ UNCHANGED vars PROVE StackInv'
  <2>1. /\ ss' = ss /\ sp' = sp /\ bp' = bp /\ regVars' = regVars /\ mem' = mem
        /\ shape' = shape /\ top' = top /\ crashed' \in {crashed, TRUE}
    BY <1>2 DEF PopCrash, vars
  <2>2. TypeOK'
    BY <2>1 DEF regVars, StackInv, TypeOK
  <2>3. Balanced' /\ Stacked'
    BY <2>1 DEF StackInv, Balanced, Stacked, DepthOf, Depth, Room, At
  <2>4. Saved'
    BY <2>1 DEF StackInv, Saved, SavedAt, Linked, Wd, Cell, At
  <2> QED BY <2>2, <2>3, <2>4 DEF StackInv
<1>3. ASSUME PushWord \/ PushFlags \/ PushAll \/ Call \/ CallFar PROVE StackInv'
  BY <1>3, Pushes
<1>4. ASSUME PopWord \/ PopFlags PROVE StackInv'
  BY <1>4, PopsWord, DropStep
<1>5. ASSUME PopAll PROVE StackInv'
  BY <1>5, PopsAll, DropStep
<1>6. ASSUME ReturnInt PROVE StackInv'
  BY <1>6, ReturnsInt, DropStep
<1>7. ASSUME Leave PROVE StackInv'
  BY <1>7, Leaves, DropStep
<1>8. ASSUME NEW n \in 0..MaxArgs, Return(n) \/ ReturnFar(n) PROVE StackInv'
  BY <1>8, Returns, DropStep
<1>9. ASSUME NEW n \in 0..MaxLocals, NEW level \in Levels, Enter(n, level) PROVE StackInv'
  BY <1>9, Enters
<1>10. ASSUME NEW k \in 1..MaxLocals, Store(k) PROVE StackInv'
  BY <1>10, Stores
<1> QED BY <1>1, <1>2, <1>3, <1>4, <1>5, <1>6, <1>7, <1>8, <1>9, <1>10 DEF Next

\* The items lie on each other, and BP and the words that POPA, LEAVE and the
\* returns take from memory are where and what they have to be.
THEOREM StackInvariance == Spec => []StackInv
<1>1. Init => StackInv
  BY Started
<1>2. StackInv /\ [Next]_vars => StackInv'
  BY Steps
<1> QED BY <1>1, <1>2, PTL DEF Spec

\* Type correctness: SP and BP stay in the segment, CS and IP on code, over
\* any pushes, calls, frames and returns.
THEOREM StackTypeCorrect == Spec => []TypeOK
<1>1. StackInv => TypeOK
  BY DEF StackInv
<1> QED BY <1>1, StackInvariance, PTL

\* SP has moved by the words of the items on the stack.
THEOREM AlwaysBalanced == Spec => []Balanced
<1>1. StackInv => Balanced
  BY DEF StackInv
<1> QED BY <1>1, StackInvariance, PTL

-----------------------------------------------------------------------------
(* V30Frames.  What an item holds is read from its words; the steps leave  *)
(* the words of the items below alone, so these hold what they held.       *)

\* A BP tells the frame.
Found ==
  \A o : /\ o = 0 => FrameAt(o) = 0
         /\ \A j \in DOMAIN shape :
              shape[j].kind = "frame" /\ o = Cell(j, 1) => FrameAt(o) = j

LEMMA NowFound == StackInv => Found
BY FrameFound DEF Found

LEMMA ThenFound == StackInv' => Found'
BY NowFound, PTL

\* It still tells the same frame after a step.
LEMMA SameFrame ==
  ASSUME StackInv, StackInv', NEW n \in 0..Len(shape), Left(n), NEW w, Linked(w, n)
  PROVE  FrameAt(w)' = FrameAt(w)
<1>1. Found /\ Found'
  BY NowFound, ThenFound
<1>2. CASE w = 0
  BY <1>1, <1>2 DEF Found
<1>3. CASE w # 0
  <2>1. PICK j \in 1..n : shape[j].kind = "frame" /\ w = Cell(j, 1)
    BY <1>3 DEF Linked
  <2>2. j \in DOMAIN shape
    BY Structure
  <2>3. j \in DOMAIN shape' /\ shape'[j] = shape[j]
    <3>1. DOMAIN shape' = 1..Len(shape')
      BY DEF StackInv, Stacked
    <3>2. n \in Nat /\ n <= Len(shape') /\ Len(shape') \in Nat
      BY Structure DEF Left
    <3> QED BY <3>1, <3>2 DEF Left
  <2>4. w = Cell(j, 1)'
    BY <2>1, Carried
  <2>5. FrameAt(w) = j
    BY <1>1, <2>1, <2>2 DEF Found
  <2>6. FrameAt(w)' = j
    BY <1>1, <2>1, <2>3, <2>4 DEF Found
  <2> QED BY <2>5, <2>6
<1> QED BY <1>2, <1>3

\* What an item holds, by its kind.
ValIs(i) ==
  /\ shape[i].kind \in {"word", "near"} => Val(i) = Wd(i, 1)
  /\ shape[i].kind = "flags" => Val(i) = SetPsw(Wd(i, 1))
  /\ shape[i].kind = "far" => Val(i) = [cs |-> Wd(i, 1), ip |-> Wd(i, 2)]
  /\ \A w : shape[i].kind = "all" /\ w = Wd(i, 6) =>
       Val(i) = [regs |-> [aw |-> Wd(i, 1), cw |-> Wd(i, 2), dw |-> Wd(i, 3), bw |-> Wd(i, 4),
                           ix |-> Wd(i, 7), iy |-> Wd(i, 8)],
                 frame |-> FrameAt(w)]
  /\ \A w : shape[i].kind = "frame" /\ w = Wd(i, 1) =>
       Val(i) = [outer |-> FrameAt(w), locals |-> [k \in 1..shape[i].locals |-> Wd(i, k + 1)]]

LEMMA NowVal == \A i : ValIs(i)
<1> TAKE i
<1>1. (shape[i].kind \in {"word", "near"} => Val(i) = Wd(i, 1))
  BY DEF Val, Wd
<1>2. (shape[i].kind = "flags" => Val(i) = SetPsw(Wd(i, 1)))
  BY DEF Val, Wd
<1>3. (shape[i].kind = "far" => Val(i) = [cs |-> Wd(i, 1), ip |-> Wd(i, 2)])
  BY DEF Val, Wd
<1>4. (\A w : shape[i].kind = "all" /\ w = Wd(i, 6) =>
         Val(i) = [regs |-> [aw |-> Wd(i, 1), cw |-> Wd(i, 2), dw |-> Wd(i, 3),
                             bw |-> Wd(i, 4), ix |-> Wd(i, 7), iy |-> Wd(i, 8)],
                   frame |-> FrameAt(w)])
  BY DEF Val, Wd
<1>5. (\A w : shape[i].kind = "frame" /\ w = Wd(i, 1) =>
         Val(i) = [outer |-> FrameAt(w),
                   locals |-> [k \in 1..shape[i].locals |-> Wd(i, k + 1)]])
  BY DEF Val, Wd
<1> QED BY <1>1, <1>2, <1>3, <1>4, <1>5 DEF ValIs

LEMMA ThenVal == \A i : ValIs(i)'
<1> TAKE i
<1>1. (shape[i].kind \in {"word", "near"} => Val(i) = Wd(i, 1))'
  BY DEF Val, Wd
<1>2. (shape[i].kind = "flags" => Val(i) = SetPsw(Wd(i, 1)))'
  BY DEF Val, Wd
<1>3. (shape[i].kind = "far" => Val(i) = [cs |-> Wd(i, 1), ip |-> Wd(i, 2)])'
  BY DEF Val, Wd
<1>4. (\A w : shape[i].kind = "all" /\ w = Wd(i, 6) =>
         Val(i) = [regs |-> [aw |-> Wd(i, 1), cw |-> Wd(i, 2), dw |-> Wd(i, 3),
                             bw |-> Wd(i, 4), ix |-> Wd(i, 7), iy |-> Wd(i, 8)],
                   frame |-> FrameAt(w)])'
  BY DEF Val, Wd
<1>5. (\A w : shape[i].kind = "frame" /\ w = Wd(i, 1) =>
         Val(i) = [outer |-> FrameAt(w),
                   locals |-> [k \in 1..shape[i].locals |-> Wd(i, k + 1)]])'
  BY DEF Val, Wd
<1> QED BY <1>1, <1>2, <1>3, <1>4, <1>5 DEF ValIs

\* An item whose words are as they were holds what it held.
LEMMA SameVal ==
  ASSUME StackInv, StackInv', NEW n \in 0..Len(shape), Left(n), NEW i \in 1..n,
         \A k \in 1..shape[i].size : Wd(i, k)' = Wd(i, k)
  PROVE  Val(i)' = Val(i)
<1>1. i \in DOMAIN shape /\ shape'[i] = shape[i] /\ i - 1 \in 0..Len(shape) /\ i - 1 \in 0..n
  BY Structure DEF Left
<1>2. /\ shape[i].kind \in Kinds /\ Sized(shape[i]) /\ SavedAt(i)
      /\ shape[i].size \in Nat /\ shape[i].size >= 1 /\ shape[i].locals \in Nat
  BY <1>1, Structure DEF StackInv, Stacked, Saved
<1>3. Left(i - 1)
  BY <1>1 DEF Left
<1>4. ValIs(i) /\ ValIs(i)'
  BY NowVal, ThenVal
<1>5. CASE shape[i].kind \in {"word", "near", "flags"}
  BY <1>1, <1>2, <1>4, <1>5 DEF ValIs, Sized
<1>6. CASE shape[i].kind = "far"
  <2>1. Wd(i, 1)' = Wd(i, 1) /\ Wd(i, 2)' = Wd(i, 2)
    BY <1>2, <1>6 DEF Sized
  <2> QED BY <1>1, <1>4, <1>6, <2>1 DEF ValIs
<1>7. CASE shape[i].kind = "all"
  <2>1. \A k \in 1..8 : Wd(i, k)' = Wd(i, k)
    BY <1>2, <1>7 DEF Sized
  <2>2. PICK w : w = Wd(i, 6)
    OBVIOUS
  <2>3. Linked(w, i - 1)
    BY <1>2, <1>7, <2>2 DEF SavedAt
  <2>4. FrameAt(w)' = FrameAt(w)
    BY <1>1, <1>3, <2>3, SameFrame
  <2> QED BY <1>1, <1>4, <1>7, <2>1, <2>2, <2>4 DEF ValIs
<1>8. CASE shape[i].kind = "frame"
  <2>1. Wd(i, 1)' = Wd(i, 1) /\ \A k \in 1..shape[i].locals : Wd(i, k + 1)' = Wd(i, k + 1)
    BY <1>2, <1>8 DEF Sized
  <2>2. PICK w : w = Wd(i, 1)
    OBVIOUS
  <2>3. Linked(w, i - 1)
    BY <1>2, <1>8, <2>2 DEF SavedAt
  <2>4. FrameAt(w)' = FrameAt(w)
    BY <1>1, <1>3, <2>3, SameFrame
  <2>5. Val(i) = [outer |-> FrameAt(w), locals |-> [k \in 1..shape[i].locals |-> Wd(i, k + 1)]]
    BY <1>4, <1>8, <2>2 DEF ValIs
  <2>6. Val(i)' = [outer |-> FrameAt(w)', locals |-> [k \in 1..shape'[i].locals |-> Wd(i, k + 1)']]
    BY <1>1, <1>2, <1>4, <1>8, <2>1, <2>2 DEF ValIs
  <2>7. [k \in 1..shape'[i].locals |-> Wd(i, k + 1)'] = [k \in 1..shape[i].locals |-> Wd(i, k + 1)]
    BY <1>1, <2>1
  <2> QED BY <2>4, <2>5, <2>6, <2>7
<1> QED BY <1>2, <1>5, <1>6, <1>7, <1>8 DEF Kinds

-----------------------------------------------------------------------------
(* The stack of V30Frames: a sequence of the items.                        *)

LEMMA AppendedIs ==
  ASSUME NEW n \in Nat, NEW S, NEW s \in Seq(S), NEW t \in Seq(S),
         Len(s) = n, Len(t) = n + 1, \A i \in 1..n : t[i] = s[i]
  PROVE  t = Append(s, t[n + 1])
<1>1. t[n + 1] \in S
  OBVIOUS
<1>2. PICK a : a = Append(s, t[n + 1])
  OBVIOUS
<1>3. a \in Seq(S) /\ Len(a) = n + 1 /\ a[n + 1] = t[n + 1] /\ \A i \in 1..n : a[i] = s[i]
  BY <1>1, <1>2
<1>4. \A i \in 1..(n + 1) : i \in 1..n \/ i = n + 1
  OBVIOUS
<1>5. \A i \in 1..(n + 1) : a[i] = t[i]
  BY <1>3, <1>4
<1>6. a = t
  BY <1>3, <1>5
<1> QED BY <1>2, <1>6

LEMMA PrefixIs ==
  ASSUME NEW m \in Nat, NEW S, NEW s \in Seq(S), NEW t \in Seq(S),
         m <= Len(s), Len(t) = m, \A i \in 1..m : t[i] = s[i]
  PROVE  t = SubSeq(s, 1, m)
<1>1. PICK a : a = SubSeq(s, 1, m)
  OBVIOUS
<1>2. a \in Seq(S) /\ Len(a) = m /\ \A i \in 1..m : a[i] = s[i]
  BY <1>1
<1>3. a = t
  BY <1>2
<1> QED BY <1>1, <1>3

\* An item of V30Frames.
Held == [kind : Kinds, val : {Val(i) : i \in Nat} \union {Val(i)' : i \in Nat}]

LEMMA NowStack ==
  ASSUME StackInv
  PROVE  /\ Stack \in Seq(Held) /\ Len(Stack) = Len(shape)
         /\ \A i \in 1..Len(shape) : Stack[i] = [kind |-> shape[i].kind, val |-> Val(i)]
<1>1. Len(shape) \in Nat /\ \A i \in 1..Len(shape) : shape[i].kind \in Kinds /\ i \in Nat
  BY Structure
<1>2. \A i \in 1..Len(shape) : [kind |-> shape[i].kind, val |-> Val(i)] \in Held
  BY <1>1 DEF Held
<1> QED BY <1>1, <1>2 DEF Stack

LEMMA ThenStack ==
  ASSUME StackInv'
  PROVE  /\ Stack' \in Seq(Held) /\ Len(Stack') = Len(shape')
         /\ \A i \in 1..Len(shape') : Stack'[i] = [kind |-> shape'[i].kind, val |-> Val(i)']
<1>1. Len(shape') \in Nat /\ \A i \in 1..Len(shape') : shape'[i].kind \in Kinds /\ i \in Nat
  <2>1. shape' \in Seq(Items)
    BY DEF StackInv, Stacked
  <2>2. Len(shape') \in Nat /\ \A i \in 1..Len(shape') : shape'[i] \in Items
    BY <2>1
  <2> QED BY <2>2 DEF Items
<1>2. \A i \in 1..Len(shape') : [kind |-> shape'[i].kind, val |-> Val(i)'] \in Held
  BY <1>1 DEF Held
<1> QED BY <1>1, <1>2 DEF Stack

LEMMA SameStack ==
  ASSUME StackInv, StackInv', NEW n \in 0..Len(shape), Left(n), Untouched(n)
  PROVE  \A i \in 1..n : Stack'[i] = Stack[i]
<1>1. ASSUME NEW i \in 1..n PROVE Stack'[i] = Stack[i]
  <2>1. i \in 1..Len(shape) /\ i \in 1..Len(shape') /\ shape'[i] = shape[i]
    BY Structure DEF Left
  <2>2. Val(i)' = Val(i)
    BY SameVal DEF Untouched
  <2> QED BY <2>1, <2>2, NowStack, ThenStack
<1> QED BY <1>1

LEMMA GrownStack ==
  ASSUME StackInv, StackInv', NEW n, n = Len(shape), Left(n), Untouched(n), Len(shape') = n + 1
  PROVE  Stack' = Append(Stack, [kind |-> shape'[n + 1].kind, val |-> Val(n + 1)'])
<1>1. n \in Nat /\ n \in 0..Len(shape)
  BY Structure
<1>2. /\ Stack \in Seq(Held) /\ Len(Stack) = n /\ Stack' \in Seq(Held) /\ Len(Stack') = n + 1
      /\ Stack'[n + 1] = [kind |-> shape'[n + 1].kind, val |-> Val(n + 1)']
  <2>1. n + 1 \in 1..Len(shape')
    BY <1>1
  <2> QED BY <2>1, NowStack, ThenStack
<1>3. \A i \in 1..n : Stack'[i] = Stack[i]
  BY <1>1, SameStack
<1>4. PICK s, t, S : s = Stack /\ t = Stack' /\ S = Held
  OBVIOUS
<1>5. t = Append(s, t[n + 1])
  BY <1>1, <1>2, <1>3, <1>4, AppendedIs
<1> QED BY <1>2, <1>4, <1>5

LEMMA ShrunkStack ==
  ASSUME StackInv, StackInv', NEW m, Drops(m), NEW w, w = bp'
  PROVE  Stack' = SubSeq(Stack, 1, m) /\ FrameAt(bp)' = FrameAt(w)
<1>1. /\ m \in 0..Len(shape) /\ shape' = SubSeq(shape, 1, m)
      /\ sp' = At(top - DepthOf(m)) /\ mem' = Kept(mem, sp') /\ top' = top
      /\ Linked(bp', m)
  BY DEF Drops
<1>2. Left(m) /\ Untouched(m) /\ Len(shape') = m
  BY <1>1, AfterDrop
<1>3. \A i \in 1..m : Stack'[i] = Stack[i]
  BY <1>1, <1>2, SameStack
<1>4. /\ Stack \in Seq(Held) /\ Len(Stack) = Len(shape) /\ m \in Nat /\ m <= Len(shape)
      /\ Stack' \in Seq(Held) /\ Len(Stack') = m
  BY <1>1, <1>2, NowStack, ThenStack, Structure
<1>5. PICK s, t, S : s = Stack /\ t = Stack' /\ S = Held
  OBVIOUS
<1>6. t = SubSeq(s, 1, m)
  BY <1>3, <1>4, <1>5, PrefixIs
<1>7. FrameAt(w)' = FrameAt(w)
  BY <1>1, <1>2, SameFrame
<1> QED BY <1>5, <1>6, <1>7

\* What V30Frames says of the topmost items is what V30Stack says of them.
LEMMA TopOfStack ==
  ASSUME StackInv
  PROVE  /\ \A kind : Frames!TopIs(kind) <=> TopIs(kind)
         /\ \A n \in Nat : Frames!Args(n) <=> Args(n)
         /\ \A n : Frames!Dropped(n) = SubSeq(Stack, 1, Len(shape) - n)
         /\ shape # << >> => Frames!TopVal = Val(Len(shape))
         /\ \A i \in 1..Len(shape) : Stack[i].kind = shape[i].kind /\ Stack[i].val = Val(i)
<1>1. /\ Stack \in Seq(Held) /\ Len(Stack) = Len(shape) /\ Len(shape) \in Nat
      /\ \A i \in 1..Len(shape) : Stack[i].kind = shape[i].kind /\ Stack[i].val = Val(i)
      /\ shape \in Seq(Items)
  <2>1. Len(shape) \in Nat /\ shape \in Seq(Items)
    BY Structure
  <2>2. /\ Stack \in Seq(Held) /\ Len(Stack) = Len(shape)
        /\ \A i \in 1..Len(shape) : Stack[i] = [kind |-> shape[i].kind, val |-> Val(i)]
    BY NowStack
  <2>3. ASSUME NEW i \in 1..Len(shape)
        PROVE  Stack[i].kind = shape[i].kind /\ Stack[i].val = Val(i)
    <3>1. PICK e, k, v : e = Stack[i] /\ k = shape[i].kind /\ v = Val(i)
      OBVIOUS
    <3>2. e = [kind |-> k, val |-> v]
      BY <2>2, <3>1
    <3> QED BY <3>1, <3>2
  <2> QED BY <2>1, <2>2, <2>3
<1>2. /\ Stack # << >> <=> shape # << >>
      /\ shape # << >> => Len(shape) \in 1..Len(shape)
  BY <1>1
<1>3. shape # << >> =>
        Frames!Last(Stack).kind = Last(shape).kind /\ Frames!Last(Stack).val = Val(Len(shape))
  BY <1>1, <1>2 DEF Last, Frames!Last
<1>4. \A kind : Frames!TopIs(kind) <=> TopIs(kind)
  BY <1>2, <1>3 DEF Frames!TopIs, TopIs
<1>5. ASSUME NEW n \in Nat PROVE Frames!Args(n) <=> Args(n)
  <2>1. ASSUME n < Len(shape), NEW i \in 1..n
        PROVE  Stack[Len(shape) - i].kind = shape[Len(shape) - i].kind
    <3>1. Len(shape) - i \in 1..Len(shape)
      BY <1>1, <2>1
    <3> QED BY <1>1, <3>1
  <2> QED BY <1>1, <2>1 DEF Frames!Args, Args
<1>6. \A n : Frames!Dropped(n) = SubSeq(Stack, 1, Len(shape) - n)
  BY <1>1 DEF Frames!Dropped
<1>7. shape # << >> => Frames!TopVal = Val(Len(shape))
  BY <1>3 DEF Frames!TopVal
<1> QED BY <1>1, <1>4, <1>5, <1>6, <1>7

\* An item has been pushed that holds what the words ws say.
Holds(kind, size, ws, n, b) ==
  /\ Stack' = Append(Stack, [kind |-> kind, val |-> Val(n + 1)'])
  /\ FrameAt(bp)' = FrameAt(bp) /\ FrameAt(b)' = FrameAt(b)
  /\ shape'[n + 1].kind = kind /\ ValIs(n + 1)'
  /\ \A k \in 1..size : Wd(n + 1, k)' = ws[k]

LEMMA PushItemImplements ==
  ASSUME StackInv, StackInv', NEW kind \in {"word", "flags", "near", "far", "all"},
         NEW size \in Nat,
         size = (IF kind = "far" THEN 2 ELSE IF kind = "all" THEN 8 ELSE 1),
         NEW ws \in Seq(Word), Len(ws) = size,
         Push(Item(kind, size, 0), ws), bp' = bp, NEW n, n = Len(shape), NEW b, b = bp
  PROVE  Holds(kind, size, ws, n, b)
<1>1. PICK it : it = Item(kind, size, 0)
  OBVIOUS
<1>2. kind \in Kinds /\ 0 \in Nat
  BY DEF Kinds
<1>3. it \in Items /\ it.kind = kind /\ it.size = size /\ it.locals = 0 /\ it.under = Depth
  BY <1>1, <1>2, Pushable
<1>4. Sized(it) /\ Push(it, ws)
  BY <1>1, <1>3 DEF Sized
<1>5. n \in Nat /\ n \in 0..Len(shape)
  BY Structure
<1>6. Stacks(it, ws, n)
  BY <1>3, <1>4, <1>5, AfterPush
<1>7. /\ Left(n) /\ Untouched(n) /\ Len(shape') = n + 1 /\ shape'[n + 1] = it
      /\ \A k \in 1..size : Wd(n + 1, k)' = ws[k]
  BY <1>3, <1>6 DEF Stacks
<1>8. Stack' = Append(Stack, [kind |-> kind, val |-> Val(n + 1)'])
  BY <1>3, <1>7, GrownStack
<1>9. FrameAt(b)' = FrameAt(b)
  <2>1. Linked(b, n)
    BY DEF StackInv, Saved
  <2> QED BY <1>5, <1>7, <2>1, SameFrame
<1>10. FrameAt(bp)' = FrameAt(bp)
  BY <1>9
<1> QED BY <1>3, <1>7, <1>8, <1>9, <1>10, ThenVal DEF Holds

LEMMA PushesImplement ==
  ASSUME StackInv, StackInv', PushWord \/ PushFlags \/ PushAll \/ Call \/ CallFar
  PROVE  Frames!PushWord \/ Frames!PushFlags \/ Frames!PushAll \/ Frames!Call \/ Frames!CallFar
<1>1. /\ sp \in Word /\ bp \in Word /\ regs \in [Gpr -> Word] /\ psw \in SUBSET Flag
      /\ cs \in Word /\ ip \in Word
  BY Sizes, Program DEF StackInv, TypeOK, Regs
<1>2. PICK n, b : n = Len(shape) /\ b = bp
  OBVIOUS
<1>3. ASSUME PushWord PROVE Frames!PushWord
  <2>1. PICK v \in Values : Push(Item("word", 1, 0), <<v>>)
    BY <1>3 DEF PushWord
  <2>2. PICK ws : ws = <<v>>
    OBVIOUS
  <2>3. ws \in Seq(Word) /\ Len(ws) = 1 /\ ws[1] = v
    <3>1. v \in Word
      BY Program
    <3> QED BY <2>2, <3>1
  <2>4. Push(Item("word", 1, 0), ws) /\ bp' = bp /\ regVars' = regVars
    BY <1>3, <2>1, <2>2 DEF PushWord
  <2>5. /\ Stack' = Append(Stack, [kind |-> "word", val |-> Val(n + 1)'])
        /\ FrameAt(bp)' = FrameAt(bp)
        /\ shape'[n + 1].kind = "word" /\ ValIs(n + 1)' /\ \A k \in 1..1 : Wd(n + 1, k)' = ws[k]
    <3>1. Holds("word", 1, ws, n, b)
      BY <1>2, <2>3, <2>4, PushItemImplements
    <3> QED BY <3>1 DEF Holds
  <2>6. Val(n + 1)' = v
    BY <2>3, <2>5 DEF ValIs
  <2> QED BY <2>4, <2>5, <2>6 DEF Frames!PushWord, Frames!Item, regVars
<1>4. ASSUME PushFlags PROVE Frames!PushFlags
  <2>1. PICK ws : ws = <<GetPsw(psw)>>
    OBVIOUS
  <2>2. ws \in Seq(Word) /\ Len(ws) = 1 /\ SetPsw(ws[1]) = psw
    <3>1. GetPsw(psw) \in Word /\ SetPsw(GetPsw(psw)) = psw
      BY <1>1, PswWord
    <3> QED BY <2>1, <3>1
  <2>3. Push(Item("flags", 1, 0), ws) /\ bp' = bp /\ regVars' = regVars
    BY <1>4, <2>1 DEF PushFlags
  <2>4. /\ Stack' = Append(Stack, [kind |-> "flags", val |-> Val(n + 1)'])
        /\ FrameAt(bp)' = FrameAt(bp)
        /\ shape'[n + 1].kind = "flags" /\ ValIs(n + 1)' /\ \A k \in 1..1 : Wd(n + 1, k)' = ws[k]
    <3>1. Holds("flags", 1, ws, n, b)
      BY <1>2, <2>2, <2>3, PushItemImplements
    <3> QED BY <3>1 DEF Holds
  <2>5. Val(n + 1)' = psw
    BY <2>2, <2>4 DEF ValIs
  <2> QED BY <2>3, <2>4, <2>5 DEF Frames!PushFlags, Frames!Item, regVars
<1>5. ASSUME PushAll PROVE Frames!PushAll
  <2>1. PICK ws : ws = <<regs.aw, regs.cw, regs.dw, regs.bw, sp, bp, regs.ix, regs.iy>>
    OBVIOUS
  <2>2. /\ regs.aw \in Word /\ regs.cw \in Word /\ regs.dw \in Word /\ regs.bw \in Word
        /\ regs.ix \in Word /\ regs.iy \in Word
    BY <1>1 DEF Gpr
  <2>3. /\ ws \in Seq(Word) /\ Len(ws) = 8
        /\ ws[1] = regs.aw /\ ws[2] = regs.cw /\ ws[3] = regs.dw /\ ws[4] = regs.bw
        /\ ws[6] = b /\ ws[7] = regs.ix /\ ws[8] = regs.iy
    BY <1>1, <1>2, <2>1, <2>2
  <2>4. Push(Item("all", 8, 0), ws) /\ bp' = bp /\ regVars' = regVars
    BY <1>5, <2>1 DEF PushAll
  <2>5. /\ Stack' = Append(Stack, [kind |-> "all", val |-> Val(n + 1)'])
        /\ FrameAt(bp)' = FrameAt(bp) /\ FrameAt(b)' = FrameAt(b)
        /\ shape'[n + 1].kind = "all" /\ ValIs(n + 1)' /\ \A k \in 1..8 : Wd(n + 1, k)' = ws[k]
    <3>1. Holds("all", 8, ws, n, b)
      BY <1>2, <2>3, <2>4, PushItemImplements
    <3> QED BY <3>1 DEF Holds
  <2>6. Val(n + 1)' =
          [regs |-> [aw |-> ws[1], cw |-> ws[2], dw |-> ws[3], bw |-> ws[4],
                     ix |-> ws[7], iy |-> ws[8]],
           frame |-> FrameAt(b)]
    BY <2>3, <2>5 DEF ValIs
  <2>7. regs = [aw |-> regs.aw, cw |-> regs.cw, dw |-> regs.dw, bw |-> regs.bw,
                ix |-> regs.ix, iy |-> regs.iy]
    BY <1>1 DEF Gpr
  <2>8. Val(n + 1)' = [regs |-> regs, frame |-> FrameAt(bp)]
    BY <1>2, <2>3, <2>6, <2>7
  <2> QED BY <2>4, <2>5, <2>8 DEF Frames!PushAll, Frames!Item, regVars
<1>6. ASSUME Call PROVE Frames!Call
  <2>1. PICK ws : ws = <<ip>>
    OBVIOUS
  <2>2. ws \in Seq(Word) /\ Len(ws) = 1 /\ ws[1] = ip
    BY <1>1, <2>1
  <2>3. Push(Item("near", 1, 0), ws) /\ bp' = bp
    BY <1>6, <2>1 DEF Call
  <2>4. /\ Stack' = Append(Stack, [kind |-> "near", val |-> Val(n + 1)'])
        /\ FrameAt(bp)' = FrameAt(bp)
        /\ shape'[n + 1].kind = "near" /\ ValIs(n + 1)' /\ \A k \in 1..1 : Wd(n + 1, k)' = ws[k]
    <3>1. Holds("near", 1, ws, n, b)
      BY <1>2, <2>2, <2>3, PushItemImplements
    <3> QED BY <3>1 DEF Holds
  <2>5. Val(n + 1)' = ip
    BY <2>2, <2>4 DEF ValIs
  <2> QED BY <1>6, <2>4, <2>5 DEF Call, Frames!Call, Frames!Item
<1>7. ASSUME CallFar PROVE Frames!CallFar
  <2>1. PICK ws : ws = <<cs, ip>>
    OBVIOUS
  <2>2. ws \in Seq(Word) /\ Len(ws) = 2 /\ ws[1] = cs /\ ws[2] = ip
    BY <1>1, <2>1
  <2>3. Push(Item("far", 2, 0), ws) /\ bp' = bp
    BY <1>7, <2>1 DEF CallFar
  <2>4. /\ Stack' = Append(Stack, [kind |-> "far", val |-> Val(n + 1)'])
        /\ FrameAt(bp)' = FrameAt(bp)
        /\ shape'[n + 1].kind = "far" /\ ValIs(n + 1)' /\ \A k \in 1..2 : Wd(n + 1, k)' = ws[k]
    <3>1. Holds("far", 2, ws, n, b)
      BY <1>2, <2>2, <2>3, PushItemImplements
    <3> QED BY <3>1 DEF Holds
  <2>5. Val(n + 1)' = [cs |-> cs, ip |-> ip]
    BY <2>2, <2>4 DEF ValIs
  <2> QED BY <1>7, <2>4, <2>5 DEF CallFar, Frames!CallFar, Frames!Item
<1> QED BY <1>3, <1>4, <1>5, <1>6, <1>7

LEMMA PopsWordImplement ==
  ASSUME StackInv, StackInv', PopWord \/ PopFlags
  PROVE  Frames!PopWord \/ Frames!PopFlags
<1>1. PICK l, w : l = Len(shape) /\ w = bp'
  OBVIOUS
<1>2. Drops(l - 1) /\ Popped(sp, 1) = Wd(l, 1)
  BY <1>1, PopsWord
<1>3. Stack' = Frames!Dropped(1) /\ FrameAt(bp)' = FrameAt(w)
  BY <1>1, <1>2, ShrunkStack, TopOfStack
<1>4. ASSUME NEW kind, TopIs(kind)
      PROVE  Frames!TopIs(kind) /\ Frames!TopVal = Val(l) /\ shape[l].kind = kind
  <2>1. shape # << >>
    BY <1>4 DEF TopIs
  <2> QED BY <1>1, <1>4, <2>1, TopOfStack, TopItem
<1>5. ValIs(l)
  BY NowVal
<1>6. ASSUME PopWord PROVE Frames!PopWord
  <2>1. /\ TopIs("word") /\ regs' = [regs EXCEPT !.aw = Popped(sp, 1)]
        /\ bp' = bp /\ psw' = psw /\ cs' = cs /\ ip' = ip
    BY <1>6 DEF PopWord
  <2>2. Frames!TopIs("word") /\ Frames!TopVal = Popped(sp, 1)
    BY <1>2, <1>4, <1>5, <2>1 DEF ValIs
  <2>3. FrameAt(bp)' = FrameAt(bp)
    BY <1>1, <1>3, <2>1
  <2> QED BY <1>3, <2>1, <2>2, <2>3 DEF Frames!PopWord
<1>7. ASSUME PopFlags PROVE Frames!PopFlags
  <2>1. /\ TopIs("flags") /\ psw' = SetPsw(Popped(sp, 1))
        /\ bp' = bp /\ regs' = regs /\ cs' = cs /\ ip' = ip
    BY <1>7 DEF PopFlags
  <2>2. Frames!TopIs("flags") /\ Frames!TopVal = SetPsw(Popped(sp, 1))
    BY <1>2, <1>4, <1>5, <2>1 DEF ValIs
  <2>3. FrameAt(bp)' = FrameAt(bp)
    BY <1>1, <1>3, <2>1
  <2> QED BY <1>3, <2>1, <2>2, <2>3 DEF Frames!PopFlags
<1> QED BY <1>6, <1>7

LEMMA PopAllImplements ==
  ASSUME StackInv, StackInv', PopAll
  PROVE  Frames!PopAll
<1>1. PICK l, w : l = Len(shape) /\ w = bp'
  OBVIOUS
<1>2. Drops(l - 1) /\ \A k \in 1..8 : Popped(sp, k) = Wd(l, 9 - k)
  BY <1>1, PopsAll
<1>3. Stack' = Frames!Dropped(1) /\ FrameAt(bp)' = FrameAt(w)
  BY <1>1, <1>2, ShrunkStack, TopOfStack
<1>4. TopIs("all") /\ bp' = Popped(sp, 3) /\ psw' = psw /\ cs' = cs /\ ip' = ip
  BY DEF PopAll
<1>5. Frames!TopIs("all") /\ Frames!TopVal = Val(l) /\ shape[l].kind = "all"
  <2>1. shape # << >>
    BY <1>4 DEF TopIs
  <2> QED BY <1>1, <1>4, <2>1, TopOfStack, TopItem
<1>6. /\ Popped(sp, 1) = Wd(l, 8) /\ Popped(sp, 2) = Wd(l, 7) /\ Popped(sp, 3) = Wd(l, 6)
      /\ Popped(sp, 5) = Wd(l, 4) /\ Popped(sp, 6) = Wd(l, 3) /\ Popped(sp, 7) = Wd(l, 2)
      /\ Popped(sp, 8) = Wd(l, 1)
  BY <1>2
<1>7. w = Wd(l, 6)
  BY <1>1, <1>4, <1>6
<1>8. ValIs(l)
  BY NowVal
<1>9. Val(l) = [regs |-> [aw |-> Wd(l, 1), cw |-> Wd(l, 2), dw |-> Wd(l, 3), bw |-> Wd(l, 4),
                          ix |-> Wd(l, 7), iy |-> Wd(l, 8)],
                frame |-> FrameAt(w)]
  BY <1>5, <1>7, <1>8 DEF ValIs
<1>10. regs' = [iy |-> Wd(l, 8), ix |-> Wd(l, 7), bw |-> Wd(l, 4),
                dw |-> Wd(l, 3), cw |-> Wd(l, 2), aw |-> Wd(l, 1)]
  BY <1>6 DEF PopAll
<1>11. regs' = Val(l).regs /\ FrameAt(bp)' = Val(l).frame
  BY <1>3, <1>9, <1>10
<1> QED BY <1>3, <1>4, <1>5, <1>11 DEF Frames!PopAll

LEMMA ReturnImplements ==
  ASSUME StackInv, StackInv', NEW n \in 0..MaxArgs, Return(n) \/ ReturnFar(n)
  PROVE  Frames!Return(n) \/ Frames!ReturnFar(n)
<1>1. PICK l, w : l = Len(shape) /\ w = bp'
  OBVIOUS
<1>2. /\ Drops(l - (n + 1))
      /\ shape[l].kind = "near" => Popped(sp, 1) = Wd(l, 1)
      /\ shape[l].kind = "far" => Popped(sp, 1) = Wd(l, 2) /\ Popped(sp, 2) = Wd(l, 1)
  BY <1>1, Returns
<1>3. Stack' = Frames!Dropped(n + 1) /\ FrameAt(bp)' = FrameAt(w)
  BY <1>1, <1>2, ShrunkStack, TopOfStack
<1>4. ASSUME NEW kind, TopIs(kind)
      PROVE  Frames!TopIs(kind) /\ Frames!TopVal = Val(l) /\ shape[l].kind = kind
  <2>1. shape # << >>
    BY <1>4 DEF TopIs
  <2> QED BY <1>1, <1>4, <2>1, TopOfStack, TopItem
<1>5. ValIs(l)
  BY NowVal
<1>6. Args(n) => Frames!Args(n)
  <2>1. n \in Nat
    BY Program
  <2> QED BY <2>1, TopOfStack
<1>7. ASSUME Return(n) PROVE Frames!Return(n)
  <2>1. /\ TopIs("near") /\ Args(n) /\ ip' = Popped(sp, 1)
        /\ bp' = bp /\ regs' = regs /\ psw' = psw /\ cs' = cs
    BY <1>7 DEF Return
  <2>2. Frames!TopIs("near") /\ Frames!TopVal = Popped(sp, 1)
    BY <1>2, <1>4, <1>5, <2>1 DEF ValIs
  <2>3. FrameAt(bp)' = FrameAt(bp)
    BY <1>1, <1>3, <2>1
  <2> QED BY <1>3, <1>6, <2>1, <2>2, <2>3 DEF Frames!Return
<1>8. ASSUME ReturnFar(n) PROVE Frames!ReturnFar(n)
  <2>1. /\ TopIs("far") /\ Args(n) /\ ip' = Popped(sp, 1) /\ cs' = Popped(sp, 2)
        /\ bp' = bp /\ regs' = regs /\ psw' = psw
    BY <1>8 DEF ReturnFar
  <2>2. Frames!TopIs("far") /\ Frames!TopVal = [cs |-> Popped(sp, 2), ip |-> Popped(sp, 1)]
    BY <1>2, <1>4, <1>5, <2>1 DEF ValIs
  <2>3. FrameAt(bp)' = FrameAt(bp)
    BY <1>1, <1>3, <2>1
  <2> QED BY <1>3, <1>6, <2>1, <2>2, <2>3 DEF Frames!ReturnFar
<1> QED BY <1>7, <1>8

LEMMA ReturnIntImplements ==
  ASSUME StackInv, StackInv', ReturnInt
  PROVE  Frames!ReturnInt
<1>1. PICK l, w : l = Len(shape) /\ w = bp'
  OBVIOUS
<1>2. /\ Drops(l - 2) /\ Popped(sp, 1) = Wd(l, 2) /\ Popped(sp, 2) = Wd(l, 1)
      /\ Popped(sp, 3) = Wd(l - 1, 1)
  BY <1>1, ReturnsInt
<1>3. Stack' = Frames!Dropped(2) /\ FrameAt(bp)' = FrameAt(w)
  BY <1>1, <1>2, ShrunkStack, TopOfStack
<1>4. /\ TopIs("far") /\ l > 1 /\ shape[l - 1].kind = "flags"
      /\ bp' = bp /\ regs' = regs
      /\ ip' = Popped(sp, 1) /\ cs' = Popped(sp, 2) /\ psw' = SetPsw(Popped(sp, 3))
  BY <1>1 DEF ReturnInt, Handler
<1>5. Frames!TopIs("far") /\ Frames!TopVal = Val(l) /\ shape[l].kind = "far"
  <2>1. shape # << >>
    BY <1>4 DEF TopIs
  <2> QED BY <1>1, <1>4, <2>1, TopOfStack, TopItem
<1>6. ValIs(l) /\ ValIs(l - 1)
  BY NowVal
<1>7. Frames!TopVal.ip = Popped(sp, 1) /\ Frames!TopVal.cs = Popped(sp, 2)
  BY <1>2, <1>5, <1>6 DEF ValIs
<1>8. Stack[l - 1].kind = "flags" /\ Stack[l - 1].val = psw' /\ Len(Stack) = l
  <2>1. l - 1 \in 1..Len(shape)
    BY <1>1, <1>4, Structure
  <2>2. Val(l - 1) = SetPsw(Wd(l - 1, 1))
    BY <1>4, <1>6 DEF ValIs
  <2> QED BY <1>1, <1>2, <1>4, <2>1, <2>2, TopOfStack, NowStack
<1>9. FrameAt(bp)' = FrameAt(bp)
  BY <1>1, <1>3, <1>4
<1> QED BY <1>3, <1>4, <1>5, <1>7, <1>8, <1>9 DEF Frames!ReturnInt

LEMMA LeaveImplements ==
  ASSUME StackInv, StackInv', Leave
  PROVE  Frames!LeaveFrame
<1>1. PICK f, w : f = FrameAt(bp) /\ w = bp'
  OBVIOUS
<1>2. Drops(f - 1) /\ bp' = Wd(f, 1) /\ regVars' = regVars
  BY <1>1, Leaves
<1>3. Stack' = SubSeq(Stack, 1, f - 1) /\ FrameAt(bp)' = FrameAt(w)
  BY <1>1, <1>2, ShrunkStack
<1>4. f > 0 /\ \A i \in (f + 1)..Len(shape) : shape[i].kind \notin {"near", "far"}
  BY <1>1 DEF Leave, CanLeave
<1>5. f \in DOMAIN shape /\ shape[f].kind = "frame" /\ f \in 1..Len(shape) /\ Len(shape) \in Nat
  BY <1>1, <1>4, Framed, Structure
<1>6. ValIs(f)
  BY NowVal
<1>7. Val(f).outer = FrameAt(w)
  BY <1>1, <1>2, <1>5, <1>6 DEF ValIs
<1>8. FrameAt(bp)' = Stack[f].val.outer
  BY <1>3, <1>5, <1>7, TopOfStack
<1>9. ASSUME NEW i \in (f + 1)..Len(Stack)
      PROVE  Stack[i].kind \notin {"near", "far"}
  <2>1. i \in (f + 1)..Len(shape)
    BY NowStack
  <2>2. i \in 1..Len(shape)
    BY <1>5, <2>1
  <2>3. Stack[i].kind = shape[i].kind
    BY <2>2, TopOfStack
  <2> QED BY <1>4, <2>1, <2>3
<1> QED BY <1>1, <1>2, <1>3, <1>4, <1>8, <1>9 DEF Frames!LeaveFrame, regVars

LEMMA EnterImplements ==
  ASSUME StackInv, StackInv', NEW n \in 0..MaxLocals, NEW level \in Levels, Enter(n, level)
  PROVE  Frames!EnterFrame
<1>1. PICK it, l, b : it = Frame(n, level) /\ l = Len(shape) /\ b = bp
  OBVIOUS
<1>2. Entered(it, l)
  BY <1>1, EntersFrame
<1>3. /\ Left(l) /\ Untouched(l) /\ Len(shape') = l + 1 /\ shape'[l + 1] = it
      /\ regVars' = regVars /\ it \in Items /\ Sized(it) /\ it.kind = "frame"
      /\ bp' = Cell(l + 1, 1)' /\ Wd(l + 1, 1)' = b
      /\ mem' \in [Offset \union {-1} -> Word] /\ top' = top
  BY <1>1, <1>2 DEF Entered
<1>4. l \in Nat /\ l \in 0..Len(shape)
  BY <1>1, Structure
<1>5. Stack' = Append(Stack, [kind |-> "frame", val |-> Val(l + 1)'])
  BY <1>1, <1>3, GrownStack
<1>6. FrameAt(b)' = FrameAt(b)
  <2>1. Linked(b, l)
    BY <1>1 DEF StackInv, Saved
  <2> QED BY <1>3, <1>4, <2>1, SameFrame
<1>7. FrameAt(bp)' = l + 1
  <2>1. l + 1 \in DOMAIN shape'
    <3>1. DOMAIN shape' = 1..Len(shape')
      BY DEF StackInv, Stacked
    <3> QED BY <1>3, <1>4, <3>1
  <2>2. PICK c : c = bp'
    OBVIOUS
  <2>3. FrameAt(c)' = l + 1
    BY <1>3, <2>1, <2>2, ThenFound DEF Found
  <2> QED BY <2>2, <2>3
<1>8. PICK locals : locals = [k \in 1..it.locals |-> Wd(l + 1, k + 1)']
  OBVIOUS
<1>9. locals \in Seq(Word) /\ Len(locals) <= MaxLocals
  <2>1. it.locals \in Nat /\ it.locals <= MaxLocals /\ it.under \in Nat
    BY <1>3 DEF Items, Sized
  <2>2. ASSUME NEW k \in 1..it.locals
        PROVE  Wd(l + 1, k + 1)' \in Word
    <3>1. Cell(l + 1, k + 1)' = At(top - it.under - (k + 1))
      BY <1>3 DEF Cell, At
    <3>2. top - it.under - (k + 1) \in Int
      BY <2>1, Structure, StartFacts
    <3>3. At(top - it.under - (k + 1)) \in Offset
      BY <3>2, Around
    <3> QED BY <1>3, <3>1, <3>3 DEF Wd
  <2>3. locals \in Seq(Word) /\ Len(locals) = it.locals
    BY <1>8, <2>1, <2>2
  <2> QED BY <2>1, <2>3
<1>10. Val(l + 1)' = [outer |-> FrameAt(bp), locals |-> locals]
  <2>1. ValIs(l + 1)'
    BY ThenVal
  <2>2. Val(l + 1)' = [outer |-> FrameAt(b)',
                       locals |-> [k \in 1..shape'[l + 1].locals |-> Wd(l + 1, k + 1)']]
    BY <1>3, <2>1 DEF ValIs
  <2> QED BY <1>1, <1>3, <1>6, <1>8, <2>2
<1>11. PICK s, t, S, x :
         /\ s = Stack /\ t = Stack' /\ S = Held
         /\ x = [kind |-> "frame", val |-> [outer |-> FrameAt(bp), locals |-> locals]]
  OBVIOUS
<1>12. s \in Seq(S) /\ t \in Seq(S) /\ Len(s) = l /\ Len(t) = l + 1
  BY <1>1, <1>3, <1>11, NowStack, ThenStack
<1>13. t[l + 1] = x /\ \A i \in 1..l : t[i] = s[i]
  <2>1. l + 1 \in 1..Len(shape')
    BY <1>3, <1>4
  <2>2. Stack'[l + 1] = [kind |-> "frame", val |-> Val(l + 1)']
    BY <1>3, <2>1, ThenStack
  <2>3. \A i \in 1..l : Stack'[i] = Stack[i]
    BY <1>3, <1>4, SameStack
  <2> QED BY <1>10, <1>11, <2>2, <2>3
<1>14. Frames!IsPrefix(s, t)
  <2>1. SubSeq(s, 1, l) = SubSeq(t, 1, l)
    BY <1>4, <1>12, <1>13
  <2>2. l <= l + 1
    BY <1>4
  <2> QED BY <1>12, <2>1, <2>2 DEF Frames!IsPrefix
<1>15. Frames!Last(t) = x
  BY <1>12, <1>13 DEF Frames!Last
<1>16. x.val.locals = locals
  BY <1>11
<1>17. /\ Len(Stack') = Len(Stack) + 1 /\ Frames!IsPrefix(Stack, Stack')
       /\ Frames!Last(Stack') = x
  BY <1>11, <1>12, <1>14, <1>15
<1>18. FrameAt(bp)' = Len(Stack')
  BY <1>7, <1>11, <1>12
<1>19. Frames!Last(Stack').val.locals = locals
  BY <1>16, <1>17
<1>20. Frames!Last(Stack') = [kind |-> "frame",
                             val |-> [outer |-> FrameAt(bp),
                                      locals |-> Frames!Last(Stack').val.locals]]
  BY <1>11, <1>17, <1>19
<1>21. /\ Frames!Last(Stack').val.locals \in Seq(Frames!Word)
       /\ Len(Frames!Last(Stack').val.locals) <= MaxLocals
  <2>1. Frames!Word = Word
    BY Zenon DEF Frames!Word, Word
  <2> QED BY <1>9, <1>19, <2>1
<1>22. regs' = regs /\ psw' = psw /\ cs' = cs /\ ip' = ip
  BY <1>3 DEF regVars
<1> QED BY <1>17, <1>18, <1>20, <1>21, <1>22 DEF Frames!EnterFrame, Frames!Item

LEMMA StoreImplements ==
  ASSUME StackInv, StackInv', NEW k \in 1..MaxLocals, Store(k)
  PROVE  Frames!Store(k)
<1>1. PICK f, v : Assigned(f, k, v) /\ v \in Values /\ k \in 1..shape[f].locals
  BY StoresWord
<1>2. /\ f = FrameAt(bp) /\ f \in DOMAIN shape /\ shape[f].kind = "frame"
      /\ k + 1 \in 1..shape[f].size /\ Cell(f, k + 1) \in Offset
      /\ mem' = [mem EXCEPT ![Cell(f, k + 1)] = v]
      /\ bp' = bp /\ regVars' = regVars /\ shape' = shape /\ top' = top
      /\ Left(Len(shape))
  BY <1>1 DEF Assigned
<1>3. PICK l, b : l = Len(shape) /\ b = bp
  OBVIOUS
<1>4. l \in Nat /\ l \in 0..Len(shape) /\ l \in 0..l /\ DOMAIN shape = 1..l /\ f \in 1..l /\ Left(l)
  BY <1>2, <1>3, Structure
<1>5. mem \in [Offset \union {-1} -> Word]
  BY DEF StackInv, TypeOK
<1>6. ASSUME NEW i \in 1..l, NEW j \in 1..shape[i].size
      PROVE  Wd(i, j)' = IF i = f /\ j = k + 1 THEN v ELSE Wd(i, j)
  <2>1. i \in DOMAIN shape /\ Cell(i, j)' = Cell(i, j) /\ Cell(i, j) \in Offset
    <3>1. i \in DOMAIN shape
      BY <1>4
    <3>2. Cell(i, j)' = Cell(i, j)
      BY <1>4, Carried
    <3> QED BY <3>1, <3>2, Cells
  <2>2. Cell(i, j) = Cell(f, k + 1) <=> i = f /\ j = k + 1
    BY <1>2, <2>1, Apart
  <2>3. Wd(i, j)' = mem'[Cell(i, j)]
    BY <2>1 DEF Wd
  <2>4. mem'[Cell(i, j)] = IF Cell(i, j) = Cell(f, k + 1) THEN v ELSE mem[Cell(i, j)]
    BY <1>2, <1>5, <2>1
  <2> QED BY <2>2, <2>3, <2>4 DEF Wd
<1>7. ASSUME NEW i \in 1..l, i # f
      PROVE  Val(i)' = Val(i)
  <2>1. \A j \in 1..shape[i].size : Wd(i, j)' = Wd(i, j)
    BY <1>6, <1>7
  <2> QED BY <1>4, <2>1, SameVal
<1>8. PICK o, old, new :
        /\ o = FrameAt(Wd(f, 1))
        /\ old = [j \in 1..shape[f].locals |-> Wd(f, j + 1)]
        /\ new = [j \in 1..shape[f].locals |-> Wd(f, j + 1)']
  OBVIOUS
<1>9. Val(f) = [outer |-> o, locals |-> old]
  <2>1. ValIs(f)
    BY NowVal
  <2> QED BY <1>2, <1>8, <2>1 DEF ValIs
<1>10. /\ Sized(shape[f]) /\ shape[f].size \in Nat /\ shape[f].size >= 1
       /\ shape[f].locals \in Nat /\ SavedAt(f)
  BY <1>2, Structure DEF StackInv, Stacked, Saved
<1>11. Val(f)' = [outer |-> o, locals |-> new]
  <2>1. ValIs(f)'
    BY ThenVal
  <2>2. PICK w : w = Wd(f, 1)
    OBVIOUS
  <2>3. Wd(f, 1)' = w
    <3>1. 1 \in 1..shape[f].size /\ k + 1 # 1
      BY <1>10
    <3> QED BY <1>4, <1>6, <2>2, <3>1
  <2>4. FrameAt(w)' = FrameAt(w)
    <3>1. Linked(w, f - 1) /\ f - 1 \in 0..Len(shape) /\ f - 1 \in 0..l
      BY <1>2, <1>3, <1>4, <1>10, <2>2 DEF SavedAt
    <3>2. Left(f - 1)
      BY <1>4, <3>1 DEF Left
    <3> QED BY <3>1, <3>2, SameFrame
  <2>5. Val(f)' = [outer |-> FrameAt(w)',
                   locals |-> [j \in 1..shape'[f].locals |-> Wd(f, j + 1)']]
    BY <1>2, <2>1, <2>3 DEF ValIs
  <2> QED BY <1>2, <1>8, <2>2, <2>4, <2>5
<1>12. new = [old EXCEPT ![k] = v]
  <2>1. ASSUME NEW j \in 1..shape[f].locals
        PROVE  Wd(f, j + 1)' = IF j = k THEN v ELSE Wd(f, j + 1)
    <3>1. j + 1 \in 1..shape[f].size /\ (j + 1 = k + 1 <=> j = k)
      <4>1. PICK c, z : c = shape[f].locals /\ z = shape[f].size
        OBVIOUS
      <4>2. c \in Nat /\ z \in Nat /\ c < z /\ k \in 1..c /\ j \in 1..c
        BY <1>1, <1>2, <1>10, <4>1 DEF Sized
      <4>3. j + 1 \in 1..z /\ (j + 1 = k + 1 <=> j = k)
        BY <4>2
      <4> QED BY <4>1, <4>3
    <3> QED BY <1>4, <1>6, <3>1
  <2> QED BY <1>1, <1>8, <2>1
<1>13. PICK s, t, S : s = Stack /\ t = Stack' /\ S = Held
  OBVIOUS
<1>14. /\ s \in Seq(S) /\ t \in Seq(S) /\ Len(s) = l /\ Len(t) = l
       /\ s[f] = [kind |-> "frame", val |-> [outer |-> o, locals |-> old]]
       /\ t[f] = [kind |-> "frame", val |-> [outer |-> o, locals |-> new]]
  <2>1. shape' = shape /\ l = Len(shape) /\ f \in 1..Len(shape)
    BY <1>2, <1>3, <1>4
  <2>2. Stack[f] = [kind |-> "frame", val |-> Val(f)]
    BY <1>2, <2>1, NowStack
  <2>3. Stack'[f] = [kind |-> "frame", val |-> Val(f)']
    BY <1>2, <2>1, ThenStack
  <2> QED BY <1>9, <1>11, <1>13, <2>1, <2>2, <2>3, NowStack, ThenStack
<1>15. ASSUME NEW i \in 1..l, i # f
       PROVE  t[i] = s[i]
  <2>1. i \in 1..Len(shape) /\ i \in 1..Len(shape') /\ shape' = shape
    BY <1>2, <1>3
  <2>2. Stack'[i] = [kind |-> shape[i].kind, val |-> Val(i)']
    BY <2>1, ThenStack
  <2>3. Stack[i] = [kind |-> shape[i].kind, val |-> Val(i)]
    BY <2>1, NowStack
  <2> QED BY <1>7, <1>13, <1>15, <2>2, <2>3
<1>16. t = [s EXCEPT ![f].val.locals[k] = v]
  <2>1. t[f] = [s[f] EXCEPT !.val.locals[k] = v]
    <3>1. PICK e : e = s[f]
      OBVIOUS
    <3>2. e = [kind |-> "frame", val |-> [outer |-> o, locals |-> old]]
      BY <1>14, <3>1
    <3>3. [e EXCEPT !.val.locals[k] = v] =
            [kind |-> "frame", val |-> [outer |-> o, locals |-> [old EXCEPT ![k] = v]]]
      BY <3>2
    <3> QED BY <1>12, <1>14, <3>1, <3>3
  <2> QED BY <1>4, <1>14, <1>15, <2>1
<1>17. FrameAt(bp)' = FrameAt(bp)
  <2>1. Linked(b, l)
    BY <1>3 DEF StackInv, Saved
  <2>2. FrameAt(b)' = FrameAt(b)
    BY <1>4, <2>1, SameFrame
  <2> QED BY <1>2, <1>3, <2>2
<1>18. k \in DOMAIN Stack[f].val.locals
  <2>1. PICK e : e = Stack[f]
    OBVIOUS
  <2>2. e.val.locals = old
    BY <1>13, <1>14, <2>1
  <2>3. DOMAIN old = 1..shape[f].locals
    BY <1>8
  <2> QED BY <1>1, <2>1, <2>2, <2>3
<1>19. f > 0 /\ regs' = regs /\ psw' = psw /\ cs' = cs /\ ip' = ip
  BY <1>2, <1>4 DEF regVars
<1> QED BY <1>1, <1>2, <1>13, <1>16, <1>17, <1>18, <1>19 DEF Frames!Store

-----------------------------------------------------------------------------

LEMMA InitImplements == Init => Frames!FramesInit
<1> SUFFICES ASSUME Init PROVE Frames!FramesInit
  OBVIOUS
<1>1. StackInv /\ bp = 0 /\ shape = << >>
  BY Started DEF Init
<1>2. FrameAt(bp) = 0
  BY <1>1, FrameFound
<1>3. Stack = << >>
  BY <1>1, NowStack
<1> QED BY <1>2, <1>3 DEF Init, Frames!FramesInit

LEMMA StepImplements ==
  ASSUME StackInv, [Next]_vars
  PROVE  [Frames!FramesNext]_Frames!frameVars
<1>1. StackInv'
  BY Steps
<1>2. ASSUME ss' = ss, bp' = bp, mem' = mem, shape' = shape, top' = top
      PROVE  Stack' = Stack /\ FrameAt(bp)' = FrameAt(bp)
  BY <1>2 DEF Stack, Val, FrameAt, Cell, At
<1>3. ASSUME Compute PROVE Frames!Compute
  BY <1>2, <1>3 DEF Compute, Frames!Compute
<1>4. ASSUME PopCrash \/ UNCHANGED vars PROVE UNCHANGED Frames!frameVars
  BY <1>2, <1>4 DEF PopCrash, vars, regVars, Frames!frameVars
<1>5. ASSUME PushWord \/ PushFlags \/ PushAll \/ Call \/ CallFar
      PROVE  Frames!PushWord \/ Frames!PushFlags \/ Frames!PushAll \/ Frames!Call \/ Frames!CallFar
  BY <1>1, <1>5, PushesImplement
<1>6. ASSUME PopWord \/ PopFlags PROVE Frames!PopWord \/ Frames!PopFlags
  BY <1>1, <1>6, PopsWordImplement
<1>7. ASSUME PopAll PROVE Frames!PopAll
  BY <1>1, <1>7, PopAllImplements
<1>8. ASSUME ReturnInt PROVE Frames!ReturnInt
  BY <1>1, <1>8, ReturnIntImplements
<1>9. ASSUME Leave PROVE Frames!LeaveFrame
  BY <1>1, <1>9, LeaveImplements
<1>10. ASSUME NEW n \in 0..MaxArgs, Return(n) \/ ReturnFar(n)
       PROVE  \E m \in 0..MaxArgs : Frames!Return(m) \/ Frames!ReturnFar(m)
  BY <1>1, <1>10, ReturnImplements
<1>11. ASSUME NEW n \in 0..MaxLocals, NEW level \in Levels, Enter(n, level)
       PROVE  Frames!EnterFrame
  BY <1>1, <1>11, EnterImplements
<1>12. ASSUME NEW k \in 1..MaxLocals, Store(k)
       PROVE  Frames!Store(k)
  BY <1>1, <1>12, StoreImplements
<1> QED BY <1>3, <1>4, <1>5, <1>6, <1>7, <1>8, <1>9, <1>10, <1>11, <1>12
        DEF Next, Frames!FramesNext

\* The words in memory are the stack V30Frames speaks of: what a program pops,
\* returns to and finds in its local variables is what it has pushed, come from
\* and stored there, over any calls and frames in between.
THEOREM StackRefinement == Spec => ImplementsFrames
<1>1. Init => Frames!FramesInit
  BY InitImplements
<1>2. StackInv /\ [Next]_vars => [Frames!FramesNext]_Frames!frameVars
  BY StepImplements
<1> QED BY <1>1, <1>2, StackInvariance, PTL DEF Spec, ImplementsFrames, Frames!FramesSpec
=============================================================================
