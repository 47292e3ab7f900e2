----------------------------- MODULE MCDosLoader -----------------------------
(* DosLoader on an arena of 128 bytes: paragraphs of 4, segments of 32. COM *)
(* files empty, of ordinary lengths, of more than a segment, of more than   *)
(* the arena and of so much more that the size in paragraphs wraps; MZ      *)
(* headers of the same kinds, and one whose image has a negative size.      *)
EXTENDS DosLoader

ComFiles == { ComFile(len) : len \in {0, 1, 5, 13, 24, 25, 40, 84, 85, 110, 117, 125} }

Entry(seg, off) == [segment |-> seg, offset |-> off]

\* The last patches a PSP field and the gap behind it.
RelocTables == { {}, {Entry(0, 1)}, {Entry(1, 3), Entry(0, 0)}, {Entry(31, 6)}, {Entry(0, 31)},
                 {Entry(30, 1)} }

\* At the image's first byte; in its middle, with a stack behind it; entered
\* through the segment before the image.
Entries ==
  { [cs |-> 0, ip |-> 0, ss |-> 1, sp |-> 0], [cs |-> 1, ip |-> 3, ss |-> 2, sp |-> 10],
    [cs |-> 31, ip |-> 5, ss |-> 0, sp |-> 31] }

MzHeaders ==
  { MzFile(blocks, last, header, extra, relocs, entry) :
      blocks \in {1, 2, 5, 14}, last \in {0, 3}, header \in {1, 3},
      extra \in {0, 2}, relocs \in RelocTables, entry \in Entries }

SomePrograms == {Missing} \union ComFiles \union MzHeaders
SomeArgs == {0, 2, 3, 4, 9, 30}
=============================================================================
