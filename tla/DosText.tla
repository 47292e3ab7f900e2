------------------------------ MODULE DosText ------------------------------
(***************************************************************************)
(* Text on its way from a program's segment to the console, in code page   *)
(* 932: characters are one byte or a lead byte and a trail byte.  The      *)
(* console of src/intf/main.c converts each buffer it is given by itself;  *)
(* iconv is external, and its "SJIS" is taken to have these ranges.        *)
(***************************************************************************)
EXTENDS Integers, Sequences, SequencesExt, FiniteSetsExt

Nul == 0
Dollar == 36

\* Bytes that begin a character of two, and bytes that may end one.  An ASCII
\* letter may be such an end; "$" and the digits may not.
IsLead(b) == b \in 129..159 \union 224..252
IsTrail(b) == b \in 64..126 \union 128..252
IsSingle(b) == b \in 1..127 \union 161..223

IsChar(s) == CASE Len(s) = 1 -> IsSingle(s[1])
               [] Len(s) = 2 -> IsLead(s[1]) /\ IsTrail(s[2])
               [] OTHER -> FALSE

\* s is a sequence of characters.
IsText(s) ==
  \E cuts \in SUBSET (0..Len(s)) :
    /\ {0, Len(s)} \subseteq cuts
    /\ \A i, j \in cuts :
         i < j /\ (\A k \in cuts : k <= i \/ k >= j) => IsChar(SubSeq(s, i + 1, j))

\* strlen: a C string ends before its first NUL.
CString(s) == SubSeq(s, 1, Min({i \in DOMAIN s : s[i] = Nul} \union {Len(s) + 1}) - 1)

\* What print_stdout shows of a buffer: iconv stops at the first byte that
\* does not go on with a character, or at the end in the middle of one.
Scan(c, b) ==
  CASE ~c.stop /\ c.lead /\ IsTrail(b) -> [c EXCEPT !.len = @ + 2, !.lead = FALSE]
    [] ~c.stop /\ ~c.lead /\ IsLead(b) -> [c EXCEPT !.lead = TRUE]
    [] ~c.stop /\ ~c.lead /\ IsSingle(b) -> [c EXCEPT !.len = @ + 1]
    [] OTHER -> [c EXCEPT !.stop = TRUE]

Printed(s) ==
  LET str == CString(s)
      c[n \in 0..Len(str)] ==
        IF n = 0 THEN [len |-> 0, lead |-> FALSE, stop |-> FALSE] ELSE Scan(c[n - 1], str[n])
  IN  SubSeq(s, 1, c[Len(str)].len)

\* s without its NULs.
WithoutNul(s) ==
  LET t[n \in 0..Len(s)] ==
        IF n = 0 THEN << >> ELSE IF s[n] = Nul THEN t[n - 1] ELSE Append(t[n - 1], s[n])
  IN  t[Len(s)]
=============================================================================
