--------------------------- MODULE V30Cycle_proofs ---------------------------
(***************************************************************************)
(* Proofs about the instruction cycle, for every code segment, whatever    *)
(* its size, and any limit on the bytes that cpue_rep_pfxs fetches.        *)
(*                                                                         *)
(* PrefixesPending is not inductive.  What it does not say is why a block  *)
(* operation that is executed by itself is not to be repeated: if a repeat *)
(* prefix is the last one pending, then cpue_rep_pfxs has looked behind it *)
(* and has given up, either because of the byte that comes next or because *)
(* it had fetched MaxPfx overrides (GaveUp).                               *)
(***************************************************************************)
EXTENDS V30Cycle, TLAPS

-----------------------------------------------------------------------------
(* The code segment is a ring.                                             *)

\* Division by CodeSize has one remainder.
LEMMA Remainder ==
  ASSUME NEW q \in Int, NEW r \in Offset, NEW p \in Int, NEW s \in Offset,
         CodeSize * q + r = CodeSize * p + s
  PROVE  r = s
<1>1. CodeSize \in Nat /\ CodeSize > 0 /\ r \in Int /\ s \in Int
      /\ 0 <= r /\ r < CodeSize /\ 0 <= s /\ s < CodeSize
  BY CodeAssumption DEF Offset
<1>2. ASSUME NEW a \in Int, NEW b \in Int, NEW x \in Int, NEW y \in Int,
             0 <= x, x < CodeSize, 0 <= y, a < b
      PROVE  CodeSize * a + x # CodeSize * b + y
  <2>1. CodeSize * b = CodeSize * a + CodeSize * (b - a)
    BY <1>1
  <2>2. CodeSize * (b - a) >= CodeSize
    BY <1>1, <1>2
  <2> QED BY <1>1, <1>2, <2>1, <2>2
<1>3. q = p
  BY <1>1, <1>2
<1> QED BY <1>1, <1>3

LEMMA AtProperties ==
  ASSUME NEW a \in Nat, NEW i \in Nat
  PROVE  /\ At(a, i) \in Offset
         /\ \E q \in Int : a + i = CodeSize * q + At(a, i)
<1>1. CodeSize \in Nat /\ CodeSize > 0 /\ a + i \in Nat
  BY CodeAssumption
<1>2. \A x \in Nat : /\ x % CodeSize \in Offset
                     /\ x = CodeSize * (x \div CodeSize) + (x % CodeSize)
                     /\ x \div CodeSize \in Int
  BY <1>1 DEF Offset
<1> QED BY <1>1, <1>2 DEF At

LEMMA AtOffset ==
  ASSUME NEW a \in Offset
  PROVE  At(a, 0) = a
BY CodeAssumption DEF At, Offset

LEMMA AtAt ==
  ASSUME NEW a \in Offset, NEW i \in Nat, NEW j \in Nat
  PROVE  At(At(a, i), j) = At(a, i + j)
<1>1. a \in Nat /\ CodeSize \in Nat
  BY CodeAssumption DEF Offset
<1>2. PICK p \in Int : a + i = CodeSize * p + At(a, i)
  BY <1>1, AtProperties
<1>3. At(a, i) \in Nat /\ At(a, i) \in Offset /\ i + j \in Nat
  BY <1>1, AtProperties DEF Offset
<1>4. PICK q \in Int : At(a, i) + j = CodeSize * q + At(At(a, i), j)
  BY <1>3, AtProperties
<1>5. PICK r \in Int : a + (i + j) = CodeSize * r + At(a, i + j)
  BY <1>1, <1>3, AtProperties
<1>6. At(At(a, i), j) \in Offset /\ At(a, i + j) \in Offset
  BY <1>1, <1>3, AtProperties
<1> DEFINE x == At(At(a, i), j)
           y == At(a, i + j)
           z == At(a, i)
<1> HIDE DEF x, y, z
<1>7. CodeSize * (p + q) + x = CodeSize * r + y
  <2>1. a + i = CodeSize * p + z /\ z + j = CodeSize * q + x
        /\ a + (i + j) = CodeSize * r + y /\ x \in Int /\ y \in Int /\ z \in Int
    BY <1>2, <1>3, <1>4, <1>5, <1>6 DEF x, y, z, Offset
  <2>2. CodeSize * (p + q) = CodeSize * p + CodeSize * q
    BY <1>1
  <2> QED BY <1>1, <2>1, <2>2
<1>8. p + q \in Int /\ x \in Offset /\ y \in Offset
  BY <1>6 DEF x, y
<1> QED BY <1>7, <1>8, Remainder DEF x, y

\* From an offset every other is less than a round away.
LEMMA Around ==
  ASSUME NEW a \in Offset, NEW b \in Offset
  PROVE  \E i \in Offset : At(a, i) = b
<1> DEFINE i == IF b >= a THEN b - a ELSE b + CodeSize - a
<1>1. i \in Offset /\ i \in Nat /\ a \in Nat
  BY CodeAssumption DEF Offset
<1>2. \E q \in Int : a + i = CodeSize * q + b
  <2>1. a + i = CodeSize * 0 + b \/ a + i = CodeSize * 1 + b
    BY CodeAssumption DEF Offset
  <2> QED BY <2>1
<1> HIDE DEF i
<1>3. PICK q \in Int : a + i = CodeSize * q + b
  BY <1>2
<1>4. /\ At(a, i) \in Offset
      /\ \E p \in Int : a + i = CodeSize * p + At(a, i)
  BY <1>1, AtProperties
<1>5. At(a, i) = b
  BY <1>3, <1>4, Remainder
<1> QED BY <1>1, <1>5

-----------------------------------------------------------------------------
(* The inductive invariant.                                                *)

\* A repeat prefix that is the last of n is too far from the operation that may
\* follow, or has nothing behind it that it repeats, or has been given up for
\* an override that makes it too far.
GaveUp(n) ==
  \A r \in 0..(n - 1) : Insns!LastOf(Rep, n, r) =>
    \/ n - 1 - r >= MaxPfx
    \/ code[ip] \notin Block /\ (code[ip] \in Segs => n - 1 - r = MaxPfx - 1)

\* The decoder has passed n prefixes of the instruction in progress.
Passed(n) ==
  /\ ip = At(first, n)
  /\ \A i \in 0..(n - 1) : code[At(first, i)] \in Prefix
  /\ pfx_reset = (n = 0)
  /\ Insns!InForce(n, InForce) \/ InForce = code[ip]
  /\ GaveUp(n)

IInv ==
  /\ TypeOK
  /\ running = (bus_owned = 0)
  /\ ~pfx_reset => was_prefix
  /\ Bounded => \E n \in Offset : Passed(n)

\* V30Insn says the same of the string with its own names of the ring.
LEMMA LastIs ==
  ASSUME NEW S, NEW n, NEW i
  PROVE  Insns!LastOf(S, n, i) <=>
           /\ i \in 0..(n - 1)
           /\ code[At(first, i)] \in S
           /\ \A j \in (i + 1)..(n - 1) : code[At(first, j)] \notin S
BY DEF Insns!LastOf, Insns!At, At

LEMMA InForceIs ==
  ASSUME NEW n, NEW seg
  PROVE  Insns!InForce(n, seg) <=>
           \/ \E i \in Offset : Insns!LastOf(Segs, n, i) /\ seg = code[At(first, i)]
           \/ seg = Default /\ \A i \in 0..(n - 1) : code[At(first, i)] \notin Segs
BY DEF Insns!InForce, Insns!At, At, Insns!Offset, Offset, Insns!Default, Default

LEMMA Kinds ==
  /\ \A b \in Segs : b \notin Rep /\ b \notin Oper /\ b \notin Block
  /\ \A b \in Rep : b \notin Segs /\ b \notin Oper /\ b \notin Block
  /\ \A b \in Oper : b \notin Segs /\ b \notin Rep
  /\ Default \notin Rep /\ Default \notin Oper
  /\ Block \subseteq Oper /\ Segs \subseteq Prefix /\ Rep \subseteq Prefix
  /\ \A b \in Prefix : b \notin Oper
BY CodeAssumption DEF Rep, Oper, Block, Default, Prefix

\* The byte at an offset, and the offsets that are reached.
LEMMA Read ==
  ASSUME TypeOK, NEW i \in Nat
  PROVE  /\ At(ip, i) \in Offset /\ At(first, i) \in Offset
         /\ code[At(ip, i)] \in Byte /\ code[At(first, i)] \in Byte
         /\ At(ip, 0) = ip /\ At(first, 0) = first
         /\ ip \in Offset /\ first \in Offset /\ ip \in Nat /\ first \in Nat
         /\ code[ip] \in Byte
<1>1. ip \in Offset /\ first \in Offset /\ ip \in Nat /\ first \in Nat
      /\ code \in [Offset -> Byte]
  BY DEF TypeOK, Offset
<1>2. At(ip, i) \in Offset /\ At(first, i) \in Offset
  BY <1>1, AtProperties
<1> QED BY <1>1, <1>2, AtOffset

LEMMA Ahead ==
  ASSUME TypeOK, NEW n \in Nat, NEW j \in Nat, ip = At(first, n)
  PROVE  At(ip, j) = At(first, n + j)
BY Read, AtAt

\* An instruction of a program that is not a ring of prefixes ends.
LEMMA Short ==
  ASSUME TypeOK, Bounded, NEW m \in Nat,
         \A i \in 0..(m - 1) : code[At(first, i)] \in Prefix
  PROVE  m \in Offset
<1> SUFFICES ASSUME m >= CodeSize
             PROVE  FALSE
  BY CodeAssumption DEF Offset
<1>1. PICK a \in Offset : code[a] \in Oper
  BY DEF Bounded
<1>2. first \in Offset
  BY DEF TypeOK
<1>3. PICK i \in Offset : At(first, i) = a
  BY <1>1, <1>2, Around
<1>4. i \in 0..(m - 1)
  BY CodeAssumption DEF Offset
<1> QED BY <1>1, <1>3, <1>4, Kinds

\* There is one last prefix of a set.
LEMMA LastUnique ==
  ASSUME NEW S, NEW n \in Nat, NEW r, NEW s,
         Insns!LastOf(S, n, r), Insns!LastOf(S, n, s)
  PROVE  r = s
<1>1. r \in Int /\ s \in Int /\ r <= n - 1 /\ s <= n - 1
  BY LastIs
<1>2. ~(r < s) /\ ~(s < r)
  BY <1>1, LastIs
<1> QED BY <1>1, <1>2

\* What the decoder holds is an override, or none.
LEMMA Held ==
  ASSUME TypeOK
  PROVE  InForce \in Segs \union {Default}
BY DEF TypeOK, InForce

\* A repeat prefix with overrides behind it.
LEMMA RepString ==
  ASSUME TypeOK, NEW n \in Nat, n \in Offset, Passed(n), code[ip] \in Rep,
         NEW k \in 0..MaxPfx, Inner(k)
  PROVE  /\ \A i \in 0..(n + k) : code[At(first, i)] \in Prefix
         /\ \A i \in (n + 1)..(n + k) : code[At(first, i)] \in Segs
         /\ code[At(first, n)] \in Rep
         /\ k > 0 => InnerSeg(k) = code[At(first, n + k)]
         /\ k = 0 => Insns!InForce(n + 1, InnerSeg(k))
<1>1. ip = At(first, n) /\ MaxPfx \in Nat /\ k \in Nat
  BY CodeAssumption DEF Passed
<1>2. ASSUME NEW i \in (n + 1)..(n + k)
      PROVE  code[At(first, i)] \in Segs
  <2>1. i - n \in 1..k /\ i - n \in Nat /\ n + (i - n) = i
    BY <1>1
  <2>2. At(ip, i - n) = At(first, i)
    BY <1>1, <2>1, Ahead
  <2> QED BY <2>1, <2>2 DEF Inner
<1>3. ASSUME NEW i \in 0..(n + k)
      PROVE  code[At(first, i)] \in Prefix
  <2>1. CASE i \in 0..(n - 1)
    BY <2>1 DEF Passed
  <2>2. CASE i = n
    BY <1>1, <2>2, Kinds
  <2>3. CASE i \in (n + 1)..(n + k)
    BY <1>2, <2>3, Kinds
  <2> QED BY <1>1, <2>1, <2>2, <2>3
<1>4. ASSUME k > 0
      PROVE  InnerSeg(k) = code[At(first, n + k)]
  BY <1>1, <1>4, Ahead DEF InnerSeg
<1>5. ASSUME k = 0
      PROVE  Insns!InForce(n + 1, InnerSeg(k))
  <2>1. InnerSeg(k) = InForce
    BY <1>5 DEF InnerSeg
  <2>2. Insns!InForce(n, InForce)
    BY Held, Kinds DEF Passed
  <2>3. code[At(first, n)] \notin Segs
    BY <1>1, Kinds
  <2>4. CASE InForce = Default /\ \A i \in 0..(n - 1) : code[At(first, i)] \notin Segs
    <3>1. \A i \in 0..((n + 1) - 1) : code[At(first, i)] \notin Segs
      BY <2>3, <2>4
    <3> QED BY <2>1, <2>4, <3>1, InForceIs
  <2>5. CASE \E i \in Offset : Insns!LastOf(Segs, n, i) /\ InForce = code[At(first, i)]
    <3>1. PICK i \in Offset : Insns!LastOf(Segs, n, i) /\ InForce = code[At(first, i)]
      BY <2>5
    <3>2. Insns!LastOf(Segs, n + 1, i)
      BY <2>3, <3>1, LastIs DEF Offset
    <3> QED BY <2>1, <3>1, <3>2, InForceIs
  <2> QED BY <2>2, <2>4, <2>5, InForceIs
<1>6. code[At(first, n)] \in Rep
  BY <1>1
<1> QED BY <1>2, <1>3, <1>4, <1>5, <1>6

-----------------------------------------------------------------------------
(* The steps.                                                              *)

\* The repeats of a block operation are taken off the count.
LEMMA TimesLeft ==
  ASSUME NEW op, NEW c \in Count, NEW k \in Times(op, c)
  PROVE  k \in Count /\ c - k \in Count
BY CodeAssumption DEF Times, Count

LEMMA TypeStep ==
  ASSUME TypeOK, [Next]_vars
  PROVE  TypeOK'
<1> USE DEF TypeOK
<1>1. \A i \in Nat : At(ip, i) \in Offset /\ code[At(ip, i)] \in Byte
  BY Read
<1>2. FaultIp \in Offset /\ InForce \in Segs \union {Default} /\ code[ip] \in Byte
      /\ 0 \in Count /\ 1 \in Count
  BY CodeAssumption, Held, Read DEF FaultIp, Count
<1>3. CASE Override
  BY <1>1, <1>2, <1>3 DEF Override, InPrefix
<1>4. CASE Plain
  <2>1. code[ip] \in Oper /\ done' = Did(code[ip], InForce, 1)
    BY <1>4 DEF Plain, Finished
  <2>2. done' \in Done
    BY <1>2, <2>1 DEF Did, Done
  <2> QED BY <1>1, <1>2, <1>4, <2>2 DEF Plain, Finished
<1>5. CASE Fault
  <2>1. done' \in Done
    BY <1>2, <1>5 DEF Fault, Finished, Did, Done
  <2> QED BY <1>1, <1>2, <1>5, <2>1 DEF Fault, Finished
<1>6. CASE ExitCall
  <2>1. done' \in Done
    BY <1>2, <1>6 DEF ExitCall, Finished, Did, Done, Oper
  <2>2. bus_owned = 0 /\ bus_owned' = bus_owned + 1 /\ running' = FALSE
    BY <1>6 DEF ExitCall, Cycling
  <2>3. bus_owned' = 1
    BY <2>2
  <2> QED BY <1>1, <1>2, <1>6, <2>1, <2>2, <2>3 DEF ExitCall, Finished
<1>7. ASSUME NEW n \in 0..MaxPfx, Inner(n)
      PROVE  InnerSeg(n) \in Segs \union {Default}
  BY <1>2, <1>7 DEF Inner, InnerSeg
<1>8. ASSUME NEW n \in 0..MaxPfx, RepInvalid(n)
      PROVE  TypeOK'
  <2>1. n \in Nat /\ n + 1 \in Nat
    BY CodeAssumption
  <2> QED BY <1>1, <1>2, <1>7, <1>8, <2>1 DEF RepInvalid, InPrefix
<1>9. ASSUME NEW n \in 0..MaxPfx, RepBlock(n)
      PROVE  TypeOK'
  <2>1. n \in Nat /\ n + 1 \in Nat /\ n + 2 \in Nat
    BY CodeAssumption
  <2> DEFINE op == code[At(ip, n + 1)]
  <2>2. op \in Oper /\ Inner(n)
    BY <1>9 DEF RepBlock, Valid, Oper
  <2>3. PICK k \in Times(op, cw) :
             /\ cw' = cw - k
             /\ Finished(At(ip, n + 2), InnerSeg(n), Did(op, InnerSeg(n), k))
    BY <1>9 DEF RepBlock
  <2>4. k \in Count /\ cw' \in Count
    BY <2>3, TimesLeft
  <2>5. InnerSeg(n) \in Segs \union {Default}
    BY <1>7, <2>2
  <2>6. Did(op, InnerSeg(n), k) \in Done
    BY <2>2, <2>4, <2>5 DEF Did, Done
  <2>7. was_prefix' \in BOOLEAN /\ UNCHANGED <<bus_owned, running>>
    BY <1>9 DEF RepBlock
  <2> HIDE DEF op
  <2> QED BY <1>1, <1>2, <2>1, <2>3, <2>4, <2>5, <2>6, <2>7 DEF Finished
<1>10. CASE Return
  BY <1>10 DEF Return, cpuVars
<1>11. CASE UNCHANGED vars
  BY <1>11 DEF vars, cpuVars
<1> QED BY <1>3, <1>4, <1>5, <1>6, <1>8, <1>9, <1>10, <1>11 DEF Next, Cycle

\* What must hold for the decoder to be m prefixes on in the same instruction.
LEMMA PassedOn ==
  ASSUME NEW m \in Offset, m > 0, UNCHANGED <<code, first>>,
         ip' = At(first, m), pfx_reset' = FALSE,
         \A i \in 0..(m - 1) : code[At(first, i)] \in Prefix,
         \/ \E i \in Offset : Insns!LastOf(Segs, m, i) /\ segpfx' = code[At(first, i)]
         \/ segpfx' = Default /\ \A i \in 0..(m - 1) : code[At(first, i)] \notin Segs
         \/ segpfx' = code[ip'],
         \A r \in 0..(m - 1) : Insns!LastOf(Rep, m, r) =>
            \/ m - 1 - r >= MaxPfx
            \/ code[ip'] \notin Block /\ (code[ip'] \in Segs => m - 1 - r = MaxPfx - 1)
  PROVE  Passed(m)'
<1>1. \A S, i : Insns!LastOf(S, m, i)' <=> Insns!LastOf(S, m, i)
  BY DEF Insns!LastOf, Insns!At
<1>2. InForce' = segpfx'
  BY DEF InForce
<1>3. Insns!InForce(m, InForce)' \/ InForce' = code'[ip']
  <2>1. CASE segpfx' = code[ip']
    BY <1>2, <2>1
  <2>2. CASE \E i \in Offset : Insns!LastOf(Segs, m, i) /\ segpfx' = code[At(first, i)]
    BY <1>1, <1>2, <2>2 DEF Insns!InForce, Insns!At, At, Insns!Offset, Offset
  <2>3. CASE segpfx' = Default /\ \A i \in 0..(m - 1) : code[At(first, i)] \notin Segs
    BY <1>2, <2>3 DEF Insns!InForce, Insns!At, At, Insns!Default, Default
  <2> QED BY <2>1, <2>2, <2>3
<1>4. GaveUp(m)'
  BY <1>1 DEF GaveUp
<1>5. pfx_reset' = (m = 0)
  <2>1. m # 0
    BY DEF Offset
  <2> QED BY <2>1, Zenon
<1>6. ip' = At(first', m) /\ \A i \in 0..(m - 1) : code'[At(first', i)] \in Prefix
  OBVIOUS
<1> QED BY <1>3, <1>4, <1>5, <1>6, Zenon DEF Passed

\* Between two instructions, it has passed none.
LEMMA PassedNone ==
  ASSUME first' \in Offset, ip' = first', pfx_reset' = TRUE
  PROVE  Passed(0)' /\ 0 \in Offset
<1>1. 0 \in Offset
  BY CodeAssumption DEF Offset
<1>2. ip' = At(first', 0)
  BY AtOffset
<1>3. Insns!InForce(0, InForce)'
  BY DEF Insns!InForce, InForce, Insns!Default, Default
<1>4. GaveUp(0)'
  BY DEF GaveUp
<1>5. pfx_reset' = (0 = 0)
  OBVIOUS
<1>6. \A i \in 0..(0 - 1) : code'[At(first', i)] \in Prefix
  OBVIOUS
<1> QED BY <1>1, <1>2, <1>3, <1>4, <1>5, <1>6, Zenon DEF Passed

LEMMA OverrideOn ==
  ASSUME TypeOK, Bounded, NEW n \in Offset, Passed(n), Override
  PROVE  n + 1 \in Offset /\ Passed(n + 1)'
<1>1. /\ n \in Nat /\ n + 1 \in Nat /\ n + 1 > 0 /\ n \in 0..((n + 1) - 1)
      /\ ip = At(first, n)
      /\ code[At(first, n)] \in Segs
  BY DEF Passed, Override, Offset
<1>2. \A i \in 0..((n + 1) - 1) : code[At(first, i)] \in Prefix
  <2> SUFFICES ASSUME NEW i \in 0..n
               PROVE  code[At(first, i)] \in Prefix
    BY <1>1
  <2>1. i \in 0..(n - 1) \/ i = n
    BY <1>1
  <2> QED BY <1>1, <2>1, Kinds DEF Passed
<1>3. n + 1 \in Offset
  BY <1>1, <1>2, Short
<1>4. /\ UNCHANGED <<code, first>> /\ pfx_reset' = FALSE
      /\ ip' = At(first, n + 1)
      /\ segpfx' = code[At(first, n)]
  BY <1>1, Ahead DEF Override, InPrefix
<1>5. Insns!LastOf(Segs, n + 1, n)
  BY <1>1, LastIs
<1>6. ASSUME NEW r \in 0..((n + 1) - 1), Insns!LastOf(Rep, n + 1, r)
      PROVE  \/ (n + 1) - 1 - r >= MaxPfx
             \/ code[ip'] \notin Block
                /\ (code[ip'] \in Segs => (n + 1) - 1 - r = MaxPfx - 1)
  <2>1. r # n
    BY <1>1, <1>6, Kinds, LastIs
  <2>2. r \in 0..(n - 1) /\ Insns!LastOf(Rep, n, r)
    BY <1>1, <1>6, <2>1, LastIs
  <2>3. \/ n - 1 - r >= MaxPfx
        \/ n - 1 - r = MaxPfx - 1
    BY <1>1, <2>2 DEF Passed, GaveUp
  <2>4. (n + 1) - 1 - r >= MaxPfx
    BY <1>1, <2>2, <2>3, CodeAssumption
  <2> QED BY <2>4
<1> QED BY <1>1, <1>2, <1>3, <1>4, <1>5, <1>6, PassedOn

\* The overrides behind a repeat prefix are in the string, and it is the last.
LEMMA RepLast ==
  ASSUME TypeOK, NEW n \in Offset, Passed(n), code[ip] \in Rep,
         NEW k \in 0..MaxPfx, Inner(k), NEW m \in Nat, m > n, m <= n + k + 1
  PROVE  /\ \A i \in 0..(m - 1) : code[At(first, i)] \in Prefix
         /\ \A r \in 0..(m - 1) : Insns!LastOf(Rep, m, r) => r = n
         /\ Insns!LastOf(Rep, m, n)
<1>1. n \in Nat /\ k \in Nat
  BY CodeAssumption DEF Offset
<1>2. \A i \in 0..(m - 1) : code[At(first, i)] \in Prefix
  BY <1>1, RepString
<1>3. Insns!LastOf(Rep, m, n)
  <2>1. \A i \in (n + 1)..(m - 1) : code[At(first, i)] \notin Rep
    BY <1>1, RepString, Kinds
  <2> QED BY <1>1, <2>1, RepString, LastIs
<1> QED BY <1>2, <1>3, LastUnique

\* The override that cpue_rep_pfxs leaves is the last of the string, as far as
\* the string goes before the byte it gives back.
LEMMA RepInForce ==
  ASSUME TypeOK, NEW n \in Offset, Passed(n), code[ip] \in Rep,
         NEW k \in 0..MaxPfx, Inner(k), n + k + 1 \in Offset
  PROVE  Insns!InForce(n + k + 1, InnerSeg(k))
<1>1. n \in Nat /\ k \in Nat
  BY CodeAssumption DEF Offset
<1>2. CASE k = 0
  BY <1>1, <1>2, RepString
<1>3. CASE k > 0
  <2>1. n + k \in Offset /\ n + k \in (n + 1)..(n + k) /\ n + k \in 0..((n + k + 1) - 1)
    BY <1>1, <1>3, CodeAssumption DEF Offset
  <2>2. Insns!LastOf(Segs, n + k + 1, n + k)
    <3>1. \A j \in (n + k + 1)..((n + k + 1) - 1) : code[At(first, j)] \notin Segs
      BY <1>1
    <3> QED BY <1>1, <2>1, <3>1, RepString, LastIs
  <2>3. InnerSeg(k) = code[At(first, n + k)]
    BY <1>1, <1>3, RepString
  <2> QED BY <2>1, <2>2, <2>3, InForceIs
<1> QED BY <1>1, <1>2, <1>3

LEMMA RepInvalidOn ==
  ASSUME TypeOK, Bounded, NEW n \in Offset, Passed(n),
         NEW k \in 0..MaxPfx, RepInvalid(k)
  PROVE  \E m \in Offset : Passed(m)'
<1>1. /\ n \in Nat /\ k \in Nat /\ MaxPfx \in Nat /\ MaxPfx > 0
      /\ ip = At(first, n)
      /\ code[ip] \in Rep /\ Inner(k) /\ ~Valid(k)
      /\ UNCHANGED <<code, first>> /\ pfx_reset' = FALSE
      /\ ip' = At(ip, IF k < MaxPfx THEN k + 1 ELSE k)
      /\ segpfx' = InnerSeg(k)
  BY CodeAssumption DEF Passed, RepInvalid, InPrefix, Offset
<1>2. CASE k < MaxPfx
  <2> DEFINE m == n + k + 1
  <2>1. m \in Nat /\ m > n /\ m <= n + k + 1 /\ m > 0 /\ m - 1 - n = k
    BY <1>1
  <2>2. m \in Offset
    BY <1>1, <2>1, RepLast, Short
  <2>3. ip' = At(first, m) /\ ip' = At(ip, k + 1)
    <3>1. n + (k + 1) = m /\ k + 1 \in Nat
      BY <1>1
    <3> QED BY <1>1, <1>2, <3>1, Ahead
  <2>4. code[ip'] \notin Block /\ code[ip'] \notin Segs
    BY <1>1, <1>2, <2>3 DEF Inner, Valid
  <2>5. \/ \E i \in Offset : Insns!LastOf(Segs, m, i) /\ segpfx' = code[At(first, i)]
        \/ segpfx' = Default /\ \A i \in 0..(m - 1) : code[At(first, i)] \notin Segs
    BY <1>1, <2>2, RepInForce, InForceIs
  <2> HIDE DEF m
  <2>6. Passed(m)'
    BY <1>1, <2>1, <2>2, <2>3, <2>4, <2>5, RepLast, PassedOn
  <2> QED BY <2>2, <2>6
<1>3. CASE ~(k < MaxPfx)
  <2> DEFINE m == n + k
  <2>1. m \in Nat /\ m > n /\ m <= n + k + 1 /\ m > 0 /\ m - 1 - n = MaxPfx - 1 /\ k > 0
    BY <1>1, <1>3
  <2>2. m \in Offset
    BY <1>1, <2>1, RepLast, Short
  <2>3. ip' = At(first, m)
    BY <1>1, <1>3, Ahead
  <2>4. segpfx' = code[ip'] /\ code[ip'] \notin Block
    <3>1. InnerSeg(k) = code[At(first, m)] /\ code[At(first, m)] \in Segs
      BY <1>1, <2>1, RepString
    <3> QED BY <1>1, <2>3, <3>1, Kinds
  <2> HIDE DEF m
  <2>5. Passed(m)'
    BY <1>1, <2>1, <2>2, <2>3, <2>4, RepLast, PassedOn
  <2> QED BY <2>2, <2>5
<1> QED BY <1>2, <1>3

\* An instruction has ended, and none of the next one's prefixes is passed.
LEMMA PassedAgain ==
  ASSUME TypeOK', NEW next, NEW seg, NEW did, Finished(next, seg, did)
  PROVE  \E m \in Offset : Passed(m)'
<1>1. first' \in Offset /\ ip' = first' /\ pfx_reset' = TRUE
  BY DEF TypeOK, Finished
<1> QED BY <1>1, PassedNone

LEMMA PassedSame ==
  ASSUME UNCHANGED <<code, ip, segpfx, pfx_reset, first>>,
         NEW n \in Offset, Passed(n)
  PROVE  Passed(n)'
<1>1. \A S, i : Insns!LastOf(S, n, i)' <=> Insns!LastOf(S, n, i)
  BY DEF Insns!LastOf, Insns!At
<1>2. GaveUp(n)'
  BY <1>1 DEF Passed, GaveUp
<1>3. InForce' = InForce
  BY DEF InForce
<1>4. Insns!InForce(n, InForce)' <=> Insns!InForce(n, InForce)
  BY <1>1, <1>3 DEF Insns!InForce, Insns!At
<1> QED BY <1>2, <1>3, <1>4 DEF Passed

LEMMA InvariantInit ==
  ASSUME Init
  PROVE  IInv
<1>1. 0 \in Offset /\ 0 \in Count
  BY CodeAssumption DEF Offset, Count
<1>2. TypeOK
  BY <1>1 DEF Init, TypeOK, Did, Done
<1>3. running = (bus_owned = 0) /\ pfx_reset
  BY DEF Init
<1>4. Passed(0)
  <2>1. ip = At(first, 0) /\ InForce = Default
    BY <1>1, AtOffset DEF Init, InForce
  <2>2. Insns!InForce(0, InForce)
    BY <2>1, InForceIs
  <2>3. pfx_reset = (0 = 0)
    BY DEF Init
  <2> QED BY <2>1, <2>2, <2>3 DEF Passed, GaveUp
<1> QED BY <1>1, <1>2, <1>3, <1>4 DEF IInv

LEMMA InvariantStep ==
  ASSUME IInv, [Next]_vars
  PROVE  IInv'
<1> USE DEF IInv
<1>1. TypeOK /\ TypeOK'
  BY TypeStep
<1>2. (Bounded' <=> Bounded) /\ code' = code
  <2>1. code' = code
    BY DEF Next, Cycle, Override, Plain, Fault, ExitCall, RepInvalid, RepBlock,
           InPrefix, Finished, Return, cpuVars, vars
  <2> QED BY <2>1 DEF Bounded
<1>3. (\/ UNCHANGED <<running, bus_owned>>
       \/ running' = FALSE /\ bus_owned = 0 /\ bus_owned' = bus_owned + 1)
      => running' = (bus_owned' = 0)
  <2>1. ASSUME bus_owned = 0, bus_owned' = bus_owned + 1
        PROVE  bus_owned' # 0
    BY <2>1
  <2> QED BY <2>1, Zenon
<1>4. CASE Override
  <2>1. UNCHANGED <<running, bus_owned>> /\ was_prefix' = TRUE
    BY <1>4 DEF Override, InPrefix
  <2> QED BY <1>1, <1>2, <1>3, <1>4, <2>1, OverrideOn
<1>5. CASE Plain
  <2>1. UNCHANGED <<running, bus_owned>> /\ pfx_reset' = TRUE
    BY <1>5 DEF Plain, Finished
  <2>2. \E m \in Offset : Passed(m)'
    BY <1>1, <1>5, PassedAgain DEF Plain
  <2> QED BY <1>1, <1>2, <1>3, <2>1, <2>2
<1>6. CASE Fault
  <2>1. UNCHANGED <<running, bus_owned>> /\ pfx_reset' = TRUE
    BY <1>6 DEF Fault, Finished
  <2>2. \E m \in Offset : Passed(m)'
    BY <1>1, <1>6, PassedAgain DEF Fault
  <2> QED BY <1>1, <1>2, <1>3, <2>1, <2>2
<1>7. CASE ExitCall
  <2>1. running' = FALSE /\ bus_owned = 0 /\ bus_owned' = bus_owned + 1
        /\ pfx_reset' = TRUE
    BY <1>7 DEF ExitCall, Cycling, Finished
  <2>2. \E m \in Offset : Passed(m)'
    BY <1>1, <1>7, PassedAgain DEF ExitCall
  <2> QED BY <1>1, <1>2, <1>3, <2>1, <2>2
<1>8. ASSUME NEW n \in 0..MaxPfx, RepInvalid(n)
      PROVE  IInv'
  <2>1. UNCHANGED <<running, bus_owned>> /\ was_prefix' = TRUE
    BY <1>8 DEF RepInvalid, InPrefix
  <2>2. Bounded => \E m \in Offset : Passed(m)'
    BY <1>1, <1>8, RepInvalidOn
  <2> QED BY <1>1, <1>2, <1>3, <2>1, <2>2
<1>9. ASSUME NEW n \in 0..MaxPfx, RepBlock(n)
      PROVE  IInv'
  <2>1. UNCHANGED <<running, bus_owned>> /\ pfx_reset' = TRUE
    BY <1>9 DEF RepBlock, Finished
  <2>2. \E m \in Offset : Passed(m)'
    BY <1>1, <1>9, PassedAgain DEF RepBlock
  <2> QED BY <1>1, <1>2, <1>3, <2>1, <2>2
<1>10. CASE Return \/ UNCHANGED vars
  <2>1. UNCHANGED <<code, ip, segpfx, pfx_reset, first, was_prefix, running, bus_owned>>
    BY <1>10 DEF Return, cpuVars, vars
  <2>2. Bounded => \E m \in Offset : Passed(m)'
    BY <2>1, PassedSame
  <2> QED BY <1>1, <1>2, <1>3, <2>1, <2>2
<1> QED BY <1>4, <1>5, <1>6, <1>7, <1>8, <1>9, <1>10 DEF Next, Cycle

-----------------------------------------------------------------------------
(* The results.                                                            *)

\* The inductive invariant holds throughout.
THEOREM Invariance == Spec => []IInv
<1>1. Init => IInv
  BY InvariantInit
<1>2. IInv /\ [Next]_vars => IInv'
  BY InvariantStep
<1> QED BY <1>1, <1>2, PTL DEF Spec

\* Every register of the decoder stays in its range: IP, the byte where a fault
\* resumes and the first byte of the instruction never leave the segment, no
\* override is in force that is not a segment register, and a program is not
\* stopped twice (cpu_update is never asked to stop again).
THEOREM TypeCorrect == Spec => []TypeOK
<1>1. IInv => TypeOK
  BY DEF IInv
<1> QED BY <1>1, Invariance, PTL

LEMMA PendingHolds ==
  ASSUME IInv
  PROVE  PrefixesPending
<1> SUFFICES ASSUME Bounded, ~pfx_reset
             PROVE  \E n \in 1..(CodeSize - 1) :
                      /\ ip = At(first, n)
                      /\ \A i \in 0..(n - 1) : code[At(first, i)] \in Prefix
                      /\ Insns!InForce(n, segpfx) \/ segpfx = code[ip]
  BY DEF PrefixesPending
<1>1. PICK n \in Offset : Passed(n)
  BY DEF IInv
<1>2. n # 0
  BY <1>1 DEF Passed
<1>3. n \in 1..(CodeSize - 1)
  BY <1>2, CodeAssumption DEF Offset
<1>4. InForce = segpfx
  BY DEF InForce
<1> QED BY <1>1, <1>3, <1>4 DEF Passed

\* In the middle of an instruction the decoder has passed prefixes of it and
\* nothing else, and holds the last override among them or the one it is about
\* to meet (cpue_i_segpfx, cpue_i_rep and cpue_rep_pfxs).
THEOREM PendingAlways == Spec => []PrefixesPending
<1>1. IInv => PrefixesPending
  BY PendingHolds
<1> QED BY <1>1, Invariance, PTL

-----------------------------------------------------------------------------
(* The cycles of an instruction do what V30Insn says of it in one step.    *)

Resume == IF was_prefix THEN fault_ip ELSE ip

\* V30Insn's names for the ring and the operations are its own.
LEMMA Names ==
  /\ Insns!Offset = Offset /\ Insns!Count = Count /\ Insns!Byte = Byte
  /\ Insns!Rep = Rep /\ Insns!Block = Block /\ Insns!Oper = Oper
  /\ Insns!Prefix = Prefix /\ Insns!Default = Default
  /\ \A a, i : Insns!At(a, i) = At(a, i)
  /\ \A op, seg, k : Insns!Did(op, seg, k) = Did(op, seg, k)
  /\ \A op, c : Insns!Times(op, c) = Times(op, c)
BY DEF Insns!Offset, Offset, Insns!Count, Count, Insns!Byte, Byte, Insns!Rep, Rep,
       Insns!Block, Block, Insns!Oper, Oper, Insns!Prefix, Prefix,
       Insns!Default, Default, Insns!At, At, Insns!Did, Did,
       Insns!Times, Times, Insns!Compare, Compare

LEMMA InitImplements ==
  ASSUME Init
  PROVE  Insns!InsnInit
BY Names, Zenon DEF Init, Insns!InsnInit

\* The decoder is at an operation, at the end of a string of n prefixes.
LEMMA AtOper ==
  ASSUME IInv, Cycling, code[ip] \in Oper
  PROVE  \E n \in Offset :
           /\ n \in Nat
           /\ Passed(n)
           /\ Insns!Prefixed(n)
           /\ At(first, n) = ip /\ At(first, n + 1) = At(ip, 1)
           /\ Insns!InForce(n, InForce)
           /\ \A inner \in Offset : ~Insns!Repeated(n, inner)
           /\ running = TRUE
<1>1. TypeOK /\ Bounded
  BY Read DEF IInv, Bounded
<1>2. PICK n \in Offset : Passed(n)
  BY <1>1 DEF IInv
<1>3. n \in Nat /\ At(first, n) = ip
  BY <1>2 DEF Passed, Offset
<1>4. At(first, n + 1) = At(ip, 1)
  BY <1>1, <1>3, Ahead
<1>5. Insns!Prefixed(n)
  BY <1>2, <1>3, Names DEF Insns!Prefixed, Passed
<1>6. Insns!InForce(n, InForce)
  BY <1>1, <1>2, Held, Kinds DEF Passed
<1>7. ASSUME NEW inner \in Offset, Insns!Repeated(n, inner)
      PROVE  FALSE
  <2>1. /\ code[ip] \in Block /\ inner \in 0..(MaxPfx - 1)
        /\ Insns!LastOf(Rep, n, n - 1 - inner)
    BY <1>3, <1>7, Names DEF Insns!Repeated
  <2>2. n - 1 - inner \in 0..(n - 1)
    BY <2>1, LastIs
  <2>3. n - 1 - (n - 1 - inner) >= MaxPfx
    BY <1>2, <2>1, <2>2 DEF Passed, GaveUp
  <2> QED BY <1>3, <2>1, <2>3, CodeAssumption DEF Offset
<1>8. running = TRUE
  BY DEF IInv, TypeOK, Cycling
<1> QED BY <1>2, <1>3, <1>4, <1>5, <1>6, <1>7, <1>8

\* Plain and ExitCall execute an operation once.
LEMMA OnceImplements ==
  ASSUME IInv, Cycling, code[ip] \in Oper,
         Finished(At(ip, 1), InForce, Did(code[ip], InForce, 1)),
         was_prefix' = FALSE,
         cw' \in IF code[ip] = "load" THEN Count ELSE {cw},
         running' = (code[ip] # "exit")
  PROVE  Insns!InsnNext
<1>1. PICK n \in Offset :
           /\ Insns!Prefixed(n)
           /\ At(first, n) = ip /\ At(first, n + 1) = At(ip, 1)
           /\ Insns!InForce(n, InForce)
           /\ \A inner \in Offset : ~Insns!Repeated(n, inner)
           /\ running = TRUE
  BY AtOper
<1>2. Resume' = first' /\ first' = At(ip, 1) /\ UNCHANGED code
      /\ done' = Did(code[ip], InForce, 1)
  BY DEF Resume, Finished
<1>3. Insns!Ran(n, InForce, 1)
  BY <1>1, <1>2, Names DEF Insns!Ran
<1>4. Insns!PlainInsn(n, InForce)
  BY <1>1, <1>2, <1>3, Names DEF Insns!PlainInsn, Resume
<1>5. InForce \in Segs \union {Default}
  BY Held DEF IInv
<1> QED BY <1>1, <1>4, <1>5, Names DEF Insns!InsnNext, Insns!Insn

LEMMA FaultImplements ==
  ASSUME IInv, Fault
  PROVE  Insns!InsnNext
<1>1. Cycling /\ code[ip] \in Oper /\ code[ip] = "div"
  BY DEF Fault, Oper
<1>2. PICK n \in Offset :
           Insns!Prefixed(n) /\ At(first, n) = ip /\ running = TRUE
  BY <1>1, AtOper
<1>3. first' = Resume /\ Resume' = first' /\ done' = Did("fault", Default, 0)
      /\ UNCHANGED <<code, cw, running>>
  BY DEF Fault, Finished, FaultIp, Resume
<1>4. Insns!FaultInsn(n)
  BY <1>1, <1>2, <1>3, Names DEF Insns!FaultInsn, Resume
<1> QED BY <1>2, <1>4, Names DEF Insns!InsnNext, Insns!Insn

LEMMA RepBlockImplements ==
  ASSUME IInv, NEW k \in 0..MaxPfx, RepBlock(k)
  PROVE  Insns!InsnNext
<1> DEFINE op == code[At(ip, k + 1)]
<1>1. /\ Cycling /\ code[ip] \in Rep /\ Inner(k) /\ Valid(k) /\ op \in Block
      /\ k \in Nat /\ k + 1 \in Nat /\ k + 2 \in Nat /\ k < MaxPfx /\ TypeOK
      /\ MaxPfx \in Nat
  BY CodeAssumption DEF RepBlock, Valid, IInv
<1>2. PICK t \in Times(op, cw) :
           /\ cw' = cw - t
           /\ Finished(At(ip, k + 2), InnerSeg(k), Did(op, InnerSeg(k), t))
  BY DEF RepBlock
<1>3. Bounded /\ running = TRUE
  <2>1. At(ip, k + 1) \in Offset
    BY <1>1, Read
  <2>2. Bounded
    BY <1>1, <2>1, Kinds DEF Bounded
  <2> QED BY <1>1, <2>2 DEF IInv, TypeOK, Cycling
<1>4. PICK n \in Offset : Passed(n)
  BY <1>3 DEF IInv
<1>5. n \in Nat /\ ip = At(first, n)
  BY <1>4 DEF Passed, Offset
<1> DEFINE m == n + k + 1
<1>6. m \in Nat /\ m > n /\ m <= n + k + 1 /\ m - 1 - k = n /\ m \in Offset
  BY <1>1, <1>3, <1>4, <1>5, RepLast, Short
<1>7. At(first, m) = At(ip, k + 1) /\ At(first, m + 1) = At(ip, k + 2)
  <2>1. n + (k + 1) = m /\ n + (k + 2) = m + 1
    BY <1>1, <1>5
  <2> QED BY <1>1, <1>5, <2>1, Ahead
<1>8. Insns!InForce(m, InnerSeg(k))
  BY <1>1, <1>4, <1>6, RepInForce
<1>9. /\ \A i \in 0..(m - 1) : code[At(first, i)] \in Prefix
      /\ Insns!LastOf(Rep, m, n)
  BY <1>1, <1>4, <1>6, RepLast
<1> HIDE DEF m, op
<1>10. code[At(first, m)] = op /\ op \in Oper
  BY <1>1, <1>7, Kinds DEF op
<1>11. Insns!Prefixed(m)
  BY <1>9, <1>10, Names DEF Insns!Prefixed
<1>12. Insns!Repeated(m, k)
  BY <1>1, <1>6, <1>9, <1>10, Names DEF Insns!Repeated
<1>13. /\ first' = At(first, m + 1) /\ ip' = first' /\ UNCHANGED <<code, running>>
       /\ done' = Did(op, InnerSeg(k), t)
       /\ Resume' = IF k > 0 THEN Resume ELSE first'
  BY <1>2, <1>7 DEF RepBlock, Finished, FaultIp, Resume
<1>14. Insns!Ran(m, InnerSeg(k), t)
  BY <1>10, <1>13, Names DEF Insns!Ran
<1>15. k \in Offset
  BY <1>1, CodeAssumption DEF Offset
<1>16. Insns!RepeatInsn(m, InnerSeg(k))
  BY <1>2, <1>10, <1>12, <1>13, <1>14, <1>15, Names DEF Insns!RepeatInsn, Resume
<1>17. InnerSeg(k) \in Segs \union {Default}
  BY <1>1, Held DEF Inner, InnerSeg
<1> QED BY <1>3, <1>6, <1>8, <1>11, <1>16, <1>17, Names
        DEF Insns!InsnNext, Insns!Insn

LEMMA StepImplements ==
  ASSUME IInv, [Next]_vars
  PROVE  [Insns!InsnNext]_Insns!insnVars
<1> DEFINE Quiet == UNCHANGED <<code, first, cw, done, running>> /\ Resume' = Resume
<1>1. Quiet => UNCHANGED Insns!insnVars
  BY DEF Insns!insnVars, Resume
<1>2. ASSUME NEW next, NEW seg, InPrefix(next, seg)
      PROVE  Quiet
  BY <1>2 DEF InPrefix, FaultIp, Resume
<1>3. CASE Override
  BY <1>1, <1>2, <1>3 DEF Override
<1>4. CASE Plain
  <2>1. running = TRUE
    BY <1>4 DEF Plain, Cycling, IInv, TypeOK
  <2>2. code[ip] \in Oper /\ code[ip] # "exit" /\ running' = TRUE
    BY <1>4, <2>1 DEF Plain
  <2>3. running' = (code[ip] # "exit")
    BY <2>2, Zenon
  <2> QED BY <1>4, <2>2, <2>3, OnceImplements DEF Plain
<1>5. CASE Fault
  BY <1>5, FaultImplements
<1>6. CASE ExitCall
  <2>1. code[ip] = "exit" /\ code[ip] \in Oper /\ running' = FALSE /\ cw' = cw
    BY <1>6 DEF ExitCall, Oper
  <2>2. running' = (code[ip] # "exit")
    BY <2>1, Zenon
  <2>3. cw' \in IF code[ip] = "load" THEN Count ELSE {cw}
    BY <2>1
  <2> QED BY <1>6, <2>1, <2>2, <2>3, OnceImplements DEF ExitCall
<1>7. ASSUME NEW k \in 0..MaxPfx, RepInvalid(k)
      PROVE  Quiet
  BY <1>2, <1>7 DEF RepInvalid
<1>8. ASSUME NEW k \in 0..MaxPfx, RepBlock(k)
      PROVE  Insns!InsnNext
  BY <1>8, RepBlockImplements
<1>9. CASE Return \/ UNCHANGED vars
  <2>1. Quiet
    BY <1>9 DEF Return, cpuVars, vars, Resume
  <2> QED BY <1>1, <2>1
<1> QED BY <1>1, <1>3, <1>4, <1>5, <1>6, <1>7, <1>8, <1>9 DEF Next, Cycle

\* However an instruction's prefixes are ordered, dropped or too many, the
\* cycles of cpu_cycle it takes do what V30Insn says of it in one step.
THEOREM Refinement == Spec => ImplementsInsn
<1>1. Init => Insns!InsnInit
  BY InitImplements
<1>2. IInv /\ [Next]_vars => [Insns!InsnNext]_Insns!insnVars
  BY StepImplements
<1> QED BY <1>1, <1>2, Invariance, PTL DEF Spec, ImplementsInsn, Insns!InsnSpec
==============================================================================
