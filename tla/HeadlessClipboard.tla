------------------------- MODULE HeadlessClipboard -------------------------
(***************************************************************************)
(* The clipboard of a headless build, utils/utils.c: two files without a   *)
(* lock, `type' and `text'.  A writer truncates both, fills the text, and  *)
(* then writes the type; a reader looks at the type, measures the text and *)
(* reads it.  Each of these is a step, any process may be killed between   *)
(* two, and the opens and the writes may fail.                             *)
(*                                                                         *)
(* A text is a sequence of blocks of the size that stdio hands to write(); *)
(* block i of it holds the process whose text it belongs to.  A block that *)
(* is written beyond the end of the file leaves holes before it, which     *)
(* read as zeros.                                                          *)
(***************************************************************************)
EXTENDS Naturals, Sequences

CONSTANTS Procs,      \* the processes that use the clipboard
          NoProc,     \* lastPut before the first
          Hole,       \* a block of zeros
          MaxText     \* configuration.max_text_length, in blocks

ASSUME ClipboardAssumption ==
  /\ Hole \notin Procs
  /\ NoProc \notin Procs
  /\ MaxText \in Nat

VARIABLES type,       \* contents of the file `type', "" if there is none
          text,       \* contents of the file `text', <<>> if there is none
          pc,         \* where each process is
          off,        \* blocks it has written or read
          size,       \* what it has measured
          got,        \* what it has read, and returns at the end
          lastPut,    \* history: the process that last opened `type' to write
          raced,      \* history: two writers have overlapped
          unnoticed,  \* history: fclose() could not write, nobody looks
          disturbed   \* history: a writer has overlapped this reader

files   == <<type, text>>
buffers == <<off, size, got>>
history == <<lastPut, raced, unnoticed, disturbed>>

Writing == {"opentext", "write", "writetype", "cutwrite"}
Reading == {"measure", "read"}

ClipboardInit ==
  /\ type = ""
  /\ text = <<>>
  /\ off = [p \in Procs |-> 0]
  /\ size = [p \in Procs |-> 0]
  /\ got = [p \in Procs |-> <<>>]
  /\ lastPut = NoProc
  /\ raced = FALSE
  /\ unnoticed = FALSE
  /\ disturbed = [p \in Procs |-> FALSE]

GoTo(p, loc) == pc' = [pc EXCEPT ![p] = loc]

Busy(locs, p) == \E q \in Procs \ {p} : pc[q] \in locs

-----------------------------------------------------------------------------
(* put_clipboard_text() and set_clipboard_cut_files().  A process that     *)
(* calls the first is at "put", one that calls the second at "cut"; `next' *)
(* is where the caller goes on.                                            *)

\* fopen(type, "w") without the truncation
OpenTypeBug(p, loc) ==
  /\ GoTo(p, loc)
  /\ UNCHANGED type
  /\ lastPut' = p
  /\ raced' = (raced \/ Busy(Writing, p))
  /\ disturbed' = [q \in Procs |-> disturbed[q] \/ pc[q] \in Reading]

\* fopen(type, "w")
OpenType(p, loc) ==
  /\ GoTo(p, loc)
  /\ type' = ""
  /\ lastPut' = p
  /\ raced' = (raced \/ Busy(Writing, p))
  /\ disturbed' = [q \in Procs |-> disturbed[q] \/ pc[q] \in Reading]

\* block i of the file, which grows to reach it
Put(t, i, p) ==
  [j \in 1..(IF i > Len(t) THEN i ELSE Len(t)) |->
     IF j = i THEN p ELSE IF j <= Len(t) THEN t[j] ELSE Hole]

PutStep(p, blocks, next) ==
  \/ /\ pc[p] = "put"
     /\ \/ OpenType(p, "opentext")
        \/ GoTo(p, next) /\ UNCHANGED <<type, lastPut, raced, disturbed>>
     /\ UNCHANGED <<text, buffers, unnoticed>>
  \/ /\ pc[p] = "opentext"          \* fopen(text, "w")
     /\ \/ GoTo(p, "write") /\ text' = <<>>
        \/ GoTo(p, next) /\ UNCHANGED text
     /\ off' = [off EXCEPT ![p] = 0]
     /\ UNCHANGED <<type, size, got, history>>
  \/ /\ pc[p] = "write"             \* fwrite(data), fclose(fd)
     /\ off[p] < blocks
     /\ text' = Put(text, off[p] + 1, p)
     /\ off' = [off EXCEPT ![p] = @ + 1]
     /\ UNCHANGED <<type, pc, size, got, history>>
  \/ /\ pc[p] = "write"             \* a write fails in fwrite()
     /\ off[p] < blocks
     /\ GoTo(p, next)
     /\ UNCHANGED <<files, buffers, history>>
  \/ /\ pc[p] = "write"             \* a write fails in fclose()
     /\ off[p] = blocks - 1
     /\ GoTo(p, "writetype")
     /\ unnoticed' = TRUE
     /\ UNCHANGED <<files, buffers, lastPut, raced, disturbed>>
  \/ /\ pc[p] = "write"
     /\ off[p] = blocks
     /\ GoTo(p, "writetype")
     /\ UNCHANGED <<files, buffers, history>>
  \/ /\ pc[p] = "writetype"         \* fwrite("TEXT"), fclose(ft)
     /\ type' \in {"TEXT", type}
     /\ GoTo(p, next)
     /\ UNCHANGED <<text, buffers, history>>

CutStep(p, next) ==
  \/ /\ pc[p] = "cut"
     /\ \/ OpenType(p, "cutwrite")
        \/ GoTo(p, next) /\ UNCHANGED <<type, lastPut, raced, disturbed>>
     /\ UNCHANGED <<text, buffers, unnoticed>>
  \/ /\ pc[p] = "cutwrite"
     /\ type' \in {"FILE", type}
     /\ GoTo(p, next)
     /\ UNCHANGED <<text, buffers, history>>

-----------------------------------------------------------------------------
(* get_clipboard_text(), from "get" to `next', or to `failed'.             *)

\* the buffer as it is
StrlenBug(t) == t

\* strlen(): up to the first zero
Strlen(t) ==
  LET holes == {i \in 1..Len(t) : t[i] = Hole} IN
  IF holes = {} THEN t
  ELSE SubSeq(t, 1, (CHOOSE i \in holes : \A j \in holes : i <= j) - 1)

GetStep(p, next, failed) ==
  \/ /\ pc[p] = "get"               \* get_copied_type()
     /\ GoTo(p, IF type = "TEXT" THEN "measure" ELSE failed)
     /\ disturbed' = [disturbed EXCEPT ![p] = Busy(Writing, p)]
     /\ UNCHANGED <<files, buffers, lastPut, raced, unnoticed>>
  \/ /\ pc[p] = "measure"           \* get_file_size()
     /\ GoTo(p, IF Len(text) \in 1..MaxText THEN "read" ELSE failed)
     /\ size' = [size EXCEPT ![p] = Len(text)]
     /\ off' = [off EXCEPT ![p] = 0]
     /\ got' = [got EXCEPT ![p] = <<>>]
     /\ UNCHANGED <<files, history>>
  \/ /\ pc[p] = "read"              \* fread(), a block
     /\ off[p] < size[p]
     /\ off[p] < Len(text)
     /\ got' = [got EXCEPT ![p] = Append(@, text[off[p] + 1])]
     /\ off' = [off EXCEPT ![p] = @ + 1]
     /\ UNCHANGED <<files, pc, size, history>>
  \/ /\ pc[p] = "read"              \* the end of the file comes too early
     /\ off[p] < size[p]
     /\ off[p] >= Len(text)
     /\ GoTo(p, failed)
     /\ UNCHANGED <<files, buffers, history>>
  \/ /\ pc[p] = "read"              \* rd = sz, and buf[0] decides
     /\ off[p] = size[p]
     /\ GoTo(p, IF got[p][1] = Hole THEN failed ELSE next)
     /\ got' = [got EXCEPT ![p] = Strlen(got[p])]
     /\ UNCHANGED <<files, off, size, history>>
=============================================================================
