----------------------------- MODULE DosHandles -----------------------------
(***************************************************************************)
(* What the file calls of dosexec promise to a program, without the table  *)
(* s_open_files and the C streams that implement them                      *)
(* (src/emu/bios/bios_int21h.c).  A handle names one open file from the    *)
(* call that returned it to the call that closes it; a call that names a   *)
(* handle touches no other; a handle that is not open is refused and one   *)
(* that is open is served; a call that is refused changes nothing; and an  *)
(* open is refused for want of handles only when all of them are open.     *)
(*                                                                         *)
(* Closing a standard handle, or seeking on one, may stop the program.     *)
(***************************************************************************)
EXTENDS FileCall

VARIABLES
  open,       \* the open handles, each with its file, mode and position
  disk,       \* the size of each file of the host, or Absent
  up,         \* the program is still running
  answer      \* what the last call returned

handleVars == <<open, disk, up, answer>>

\* A call that named handle h returns with code e and value v.
Reply(e, h, v) == up /\ up' = up /\ answer' = [err |-> e, handle |-> h, val |-> v]

-----------------------------------------------------------------------------

HandlesInit ==
  /\ open = [h \in {} |-> 0]
  /\ disk \in [Files -> Extent \union {Absent}]
  /\ up = TRUE
  /\ answer = [err |-> "none", handle |-> 0, val |-> 0]

\* A file is opened under a handle that was not open.  Only a file opened to
\* be read keeps what it had.
HandlesOpen ==
  \E h \in Handle \ (Std \union DOMAIN open), f \in Files, m \in FMode :
    /\ m = "rb" => disk[f] # Absent
    /\ open' = [k \in DOMAIN open \union {h} |->
                  IF k = h THEN [file |-> f, mode |-> m, pos |-> 0] ELSE open[k]]
    /\ disk' = IF m = "rb" THEN disk ELSE [disk EXCEPT ![f] = 0]
    /\ Reply("none", 0, h)

HandlesClose ==
  \E h \in DOMAIN open :
    /\ open' = [k \in DOMAIN open \ {h} |-> open[k]]
    /\ UNCHANGED disk
    /\ Reply("none", h, 0)

\* A read, a write or a seek moves the position of its own handle, and may
\* lengthen that handle's file if it was opened to be written.
HandlesMove ==
  \E h \in DOMAIN open, p \in Extent, v \in Extent \union Count :
    /\ open' = [open EXCEPT ![h].pos = p]
    /\ IF open[h].mode = "rb"
       THEN UNCHANGED disk
       ELSE \E n \in Extent :
              /\ n >= disk[open[h].file]
              /\ disk' = [disk EXCEPT ![open[h].file] = n]
    /\ Reply("none", h, v)

\* Reading and writing a standard handle, and the queries, which answer for
\* any handle.
HandlesQuery ==
  /\ UNCHANGED <<open, disk>>
  /\ \E h \in AnyHandle \ DOMAIN open, v \in Count : Reply("none", h, v)

HandlesRefuse ==
  /\ UNCHANGED <<open, disk>>
  /\ \/ Reply("not_found", 0, 0)
     \/ DOMAIN open = Handle \ Std /\ Reply("no_handles", 0, 0)
     \/ \E h \in AnyHandle \ (Std \union DOMAIN open) : Reply("invalid", h, 0)

HandlesStop ==
  /\ up' = FALSE
  /\ UNCHANGED <<open, disk, answer>>

HandlesNext ==
  \/ HandlesOpen \/ HandlesClose \/ HandlesMove
  \/ HandlesQuery \/ HandlesRefuse \/ HandlesStop

HandlesSpec == HandlesInit /\ [][HandlesNext]_handleVars
=============================================================================
