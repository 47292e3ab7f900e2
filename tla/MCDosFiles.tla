----------------------------- MODULE MCDosFiles -----------------------------
(* DosFiles on a small host: files and streams are interchangeable.        *)
EXTENDS DosFiles, TLC

CONSTANTS f1, f2, s1, s2

TwoFiles == {f1, f2}
TwoStreams == {s1, s2}

Symmetry == Permutations(TwoFiles) \union Permutations(TwoStreams)
=============================================================================
