------------------------------- MODULE Upload -------------------------------
(***************************************************************************)
(* Clients send files: send_file_v1() and _send_files_dirs() of            *)
(* proto/methods.c.  Each session is a process of its own; all of them     *)
(* work in the same directory, without locks.                              *)
(*                                                                         *)
(* Version 1 writes the file into the working directory at once, under a   *)
(* name that was free when it looked.  Later versions receive into a       *)
(* temporary directory, named after the time, and move what arrived into   *)
(* the working directory at the end.  A step is a look at the file system, *)
(* a change of it, or a wait for the network.  A session can be killed at  *)
(* any step: by the SIGTERM of a restart or stop (kill_others.c), or by    *)
(* SIGPIPE when it writes to a peer that has gone.                         *)
(***************************************************************************)
EXTENDS FileTree

CONSTANTS Sessions,
          Requests,       \* what a client may send: [version, entries]
          Seconds,        \* what time() may return
          Existing,       \* names in the working directory before
          Conf,           \* the name of the configuration file
          WorkingDirSet,  \* configuration.working_dir is not NULL
          CutSentFiles,   \* configuration.cut_sent_files
          Headless,       \* a build with HEADLESS = 1
          MaxReq,         \* sessions at a time: 64 in the code, fewer if
                          \* clients come one after another
          MaxSuffix       \* 999999 in the code

\* A name is <<number, base>>: a base name, a numbered one i_base, or that of
\* a temporary directory.
Name(base) == <<0, base>>
Numbered(i, name) == <<i, name[2]>>

\* An entry is [path, dir]: the path is a nonempty sequence of base names;
\* version 1 sends one, and directories exist from version 3 on.
ASSUME UploadAssumption ==
  /\ IsFiniteSet(Sessions)
  /\ \A r \in Requests :
       /\ r.version \in 1..4
       /\ r.entries \in Seq(Range(r.entries)) /\ Len(r.entries) > 0
       /\ \A e \in Range(r.entries) :
            /\ e.path \in Seq(Range(e.path)) /\ Len(e.path) > 0
            /\ \A x \in Range(e.path) : x = Name(x[2]) /\ x[2] \notin {"", "time", "rand"}
            /\ e.dir => r.version >= 3
       /\ r.version = 1 => Len(r.entries) = 1 /\ Len(r.entries[1].path) = 1
  /\ WorkingDirSet \in BOOLEAN /\ CutSentFiles \in BOOLEAN /\ Headless \in BOOLEAN
  /\ MaxReq \in Nat \ {0} /\ MaxSuffix \in Nat \ {0}
  \* the name of the configuration file is not that of a temporary directory
  /\ 0 \notin Seconds
  \* main() of a headless build sets both
  /\ Headless => WorkingDirSet /\ CutSentFiles

VARIABLES disk,     \* the working directory: a tree of FileTree
          content,  \* inode -> the upload whose data it holds, or Nothing
          request,  \* session -> what its client sends
          second,   \* session -> the time it starts
          pc,       \* session -> where it is
          k,        \* session -> the entry being received
          n,        \* session -> the number of names tried
          entry,    \* session -> the name being given to the entry
          path,     \* session -> the path being written
          inode,    \* session -> the inode of the open file
          tmp,      \* session -> the name of its temporary directory
          left,     \* session -> the names of a list_dir() not yet handled
          dest,     \* session -> the names of the entries in their place
          ok,       \* session -> status is still EXIT_SUCCESS
          moved,    \* session -> so is the one of clean_temp_dir()
          acked,    \* session -> the peer was told of the success
          lost,     \* history: the uploads whose end fclose() could not write
          alone     \* history: session -> no other one has run beside it

locals == <<k, n, entry, path, inode, tmp, left, dest, ok, moved, acked>>
history == <<lost, alone>>
vars == <<disk, content, request, second, pc, locals, history>>

NoName == <<0, "">>          \* before a name is chosen
Nothing == <<"nothing", 0>>  \* no complete data
User == <<"user", 0>>        \* the inode and data of what was there before

Ended == {"done", "killed"}
Running == {s \in Sessions : pc[s] \notin {"new"} \cup Ended}

Upload(s) == <<s, k[s]>>
Entry(s) == request[s].entries[k[s]]
Version(s) == request[s].version

\* the places that entries have in the requests
Places == UNION {1..Len(r.entries) : r \in Requests}

-----------------------------------------------------------------------------
Init ==
  /\ disk = [p \in {<<Name(x)>> : x \in Existing} |-> User]
  /\ content = [u \in (Sessions \X Places) \cup {User} |->
                  IF u = User THEN User ELSE Nothing]
  /\ request \in [Sessions -> Requests]
  /\ second \in [Sessions -> Seconds]
  /\ pc = [s \in Sessions |-> "new"]
  /\ k = [s \in Sessions |-> 1]
  /\ n = [s \in Sessions |-> 0]
  /\ entry = [s \in Sessions |-> NoName]
  /\ path = [s \in Sessions |-> <<>>]
  /\ inode = [s \in Sessions |-> Nothing]
  /\ tmp = [s \in Sessions |-> NoName]
  /\ left = [s \in Sessions |-> {}]
  /\ dest = [s \in Sessions |-> {}]
  /\ ok = [s \in Sessions |-> TRUE]
  /\ moved = [s \in Sessions |-> TRUE]
  /\ acked = [s \in Sessions |-> FALSE]
  /\ lost = {}
  /\ alone = [s \in Sessions |-> FALSE]

At(s, label) == pc[s] = label
Goto(s, label) == pc' = [pc EXCEPT ![s] = label]

\* the loop is left without a note of the failure
FailedBug(s) ==
  /\ UNCHANGED ok
  /\ Goto(s, IF Version(s) = 1 THEN "done" ELSE "list")

\* After a step that failed: version 1 returns at once, the others break out
\* of the loop over the files.
Failed(s) ==
  /\ ok' = [ok EXCEPT ![s] = FALSE]
  /\ Goto(s, IF Version(s) = 1 THEN "done" ELSE "list")

-----------------------------------------------------------------------------
(* The start.                                                              *)

First(s) == IF Version(s) = 1 THEN "name" ELSE "temp"

\* only the later versions clean up
BeginBug(s) ==
  /\ At(s, "new") /\ Cardinality(Running) < MaxReq
  /\ Goto(s, IF Headless /\ Version(s) # 1 THEN "list_old" ELSE First(s))
  /\ entry' = [entry EXCEPT ![s] = IF Version(s) = 1 THEN Entry(s).path[1] ELSE NoName]
  /\ alone' = [q \in Sessions |-> IF q = s THEN Running = {}
                                   ELSE alone[q] /\ q \notin Running]
  /\ UNCHANGED <<disk, content, request, second, k, n, path, inode, tmp, left,
                 dest, ok, moved, acked, lost>>

\* The status OK is sent and the name or the file count read.  A session
\* that fails here has done nothing.
Begin(s) ==
  /\ At(s, "new") /\ Cardinality(Running) < MaxReq
  /\ Goto(s, IF Headless THEN "list_old" ELSE First(s))
  /\ entry' = [entry EXCEPT ![s] = IF Version(s) = 1 THEN Entry(s).path[1] ELSE NoName]
  /\ alone' = [q \in Sessions |-> IF q = s THEN Running = {}
                                   ELSE alone[q] /\ q \notin Running]
  /\ UNCHANGED <<disk, content, request, second, k, n, path, inode, tmp, left,
                 dest, ok, moved, acked, lost>>

\* cleanup_cur_dir(): the list of the directory, then the removals
ListOld(s) ==
  /\ At(s, "list_old")
  /\ left' = [left EXCEPT ![s] = {p[1] : p \in Children(disk, <<>>)}]
  /\ Goto(s, "wipe")
  /\ UNCHANGED <<disk, content, request, second, k, n, entry, path, inode, tmp,
                 dest, ok, moved, acked, history>>

\* the loop does not go on to the next name
WipeBug(s) ==
  /\ At(s, "wipe")
  /\ \/ \E x \in left[s] : disk' = Without(disk, Below(disk, <<x>>)) /\ UNCHANGED <<left, pc>>
     \/ left[s] = {} /\ Goto(s, First(s)) /\ UNCHANGED <<disk, left>>
  /\ UNCHANGED <<content, request, second, k, n, entry, path, inode, tmp, dest,
                 ok, moved, acked, history>>

Wipe(s) ==
  /\ At(s, "wipe")
  /\ \/ \E x \in left[s] :
          /\ disk' = Without(disk, Below(disk, <<x>>))
          /\ left' = [left EXCEPT ![s] = @ \ {x}]
          /\ UNCHANGED pc
     \/ /\ left[s] = {}
        /\ Goto(s, First(s))
        /\ UNCHANGED <<disk, left>>
  /\ UNCHANGED <<content, request, second, k, n, entry, path, inode, tmp, dest,
                 ok, moved, acked, history>>

-----------------------------------------------------------------------------
(* A free name in the working directory: _rename_if_exists() of version 1  *)
(* and the loop of _check_and_rename() of the others.                      *)

Candidate(name, i) ==
  CASE i > 0 -> Numbered(i, name)
    [] i = 0 /\ name = Name(Conf) /\ ~WorkingDirSet -> Numbered(1, name)
    [] OTHER -> name

NameTaken(s) ==
  /\ At(s, "name") /\ n[s] < MaxSuffix
  /\ Exists(disk, <<Candidate(entry[s], n[s])>>)
  /\ n' = [n EXCEPT ![s] = @ + 1]
  /\ UNCHANGED <<disk, content, request, second, pc, k, entry, path, inode, tmp,
                 left, dest, ok, moved, acked, history>>

\* clean_temp_dir() goes on with the next entry, and returns no list in the end:
\* the status of the upload is not touched
NotMoved(s) == moved' = [moved EXCEPT ![s] = FALSE] /\ UNCHANGED ok

\* every name is taken: the file is refused, or the entry stays where it is
NoNameLeft(s) ==
  /\ At(s, "name") /\ n[s] = MaxSuffix
  /\ Exists(disk, <<Candidate(entry[s], n[s])>>)
  /\ IF Version(s) = 1
     THEN Goto(s, "done") /\ ok' = [ok EXCEPT ![s] = FALSE] /\ UNCHANGED moved
     ELSE Goto(s, "next") /\ NotMoved(s)
  /\ UNCHANGED <<disk, content, request, second, k, n, entry, path, inode, tmp,
                 left, dest, acked, history>>

\* the answer of file_exists() is ignored
NameFreeBug(s) ==
  /\ At(s, "name")
  /\ path' = [path EXCEPT ![s] = <<Candidate(entry[s], n[s])>>]
  /\ Goto(s, IF Version(s) = 1 THEN "open" ELSE "move")
  /\ UNCHANGED <<disk, content, request, second, k, n, entry, inode, tmp, left,
                 dest, ok, moved, acked, history>>

NameFree(s) ==
  /\ At(s, "name")
  /\ LET name == Candidate(entry[s], n[s])
     IN /\ ~Exists(disk, <<name>>)
        /\ path' = [path EXCEPT ![s] = <<name>>]
  /\ Goto(s, IF Version(s) = 1 THEN "open" ELSE "move")
  /\ UNCHANGED <<disk, content, request, second, k, n, entry, inode, tmp, left,
                 dest, ok, moved, acked, history>>

-----------------------------------------------------------------------------
(* The temporary directory: _send_files_dirs().                            *)

\* Its name is the time, then what rand() returns.  No process ever calls
\* srand(): the sequence is the same in all of them.
TempName(s, i) == IF i = 0 THEN <<second[s], "time">> ELSE <<i, "rand">>

TempTaken(s) ==
  /\ At(s, "temp")
  /\ Exists(disk, <<TempName(s, n[s])>>)
  /\ n' = [n EXCEPT ![s] = @ + 1]
  /\ UNCHANGED <<disk, content, request, second, pc, k, entry, path, inode, tmp,
                 left, dest, ok, moved, acked, history>>

TempFree(s) ==
  /\ At(s, "temp")
  /\ ~Exists(disk, <<TempName(s, n[s])>>)
  /\ tmp' = [tmp EXCEPT ![s] = TempName(s, n[s])]
  /\ Goto(s, "mkdir")
  /\ UNCHANGED <<disk, content, request, second, k, n, entry, path, inode, left,
                 dest, ok, moved, acked, history>>

\* mkdirs() takes a directory made in the meantime for its own
MakeTemp(s) ==
  /\ At(s, "mkdir")
  /\ IF CanMkDirs(disk, <<tmp[s]>>)
     THEN /\ disk' = MkDirs(disk, <<tmp[s]>>)
          /\ Goto(s, "file") /\ UNCHANGED ok
     ELSE /\ Goto(s, "done")
          /\ ok' = [ok EXCEPT ![s] = FALSE] /\ UNCHANGED disk
  /\ UNCHANGED <<content, request, second, k, n, entry, path, inode, tmp, left,
                 dest, moved, acked, history>>

-----------------------------------------------------------------------------
(* One file: save_file() and _save_file_common().                          *)

\* the last file is forgotten
AdvanceBug(s) ==
  IF k[s] + 1 < Len(request[s].entries)
  THEN k' = [k EXCEPT ![s] = @ + 1] /\ Goto(s, "file")
  ELSE /\ UNCHANGED k
       /\ Goto(s, CASE Version(s) = 1 -> "cut"
                    [] Version(s) = 4 -> "ack"
                    [] OTHER -> "list")

\* the next file, or what follows the last one
Advance(s) ==
  IF k[s] < Len(request[s].entries)
  THEN k' = [k EXCEPT ![s] = @ + 1] /\ Goto(s, "file")
  ELSE /\ UNCHANGED k
       /\ Goto(s, CASE Version(s) = 1 -> "cut"
                    [] Version(s) = 4 -> "ack"
                    [] OTHER -> "list")

\* The name is read and checked, the directories above the file are made,
\* and the path must be free.
FilePlace(s) ==
  /\ At(s, "file")
  /\ LET p == <<tmp[s]>> \o Entry(s).path
     IN /\ CanMkDirs(disk, Front(p))
        /\ disk' = MkDirs(disk, Front(p))
        /\ IF Exists(disk, p)
           THEN Failed(s) /\ UNCHANGED path
           ELSE path' = [path EXCEPT ![s] = p] /\ Goto(s, "open") /\ UNCHANGED ok
  /\ UNCHANGED <<content, request, second, k, n, entry, inode, tmp, left, dest, moved, acked, history>>

\* a bad name, a file where a directory should be, a peer that stays silent
FileRefused(s) ==
  /\ At(s, "file") \/ At(s, "open")
  /\ Failed(s)
  /\ UNCHANGED <<disk, content, request, second, k, n, entry, path, inode, tmp,
                 left, dest, moved, acked, history>>

\* The size has been read, which may take seconds.
OpenFile(s) ==
  /\ At(s, "open") /\ ~Entry(s).dir
  /\ CanOpen(disk, path[s])
  /\ LET i == IF Exists(disk, path[s]) THEN disk[path[s]] ELSE Upload(s)
     IN /\ inode' = [inode EXCEPT ![s] = i]
        /\ disk' = With(disk, path[s], i)
        /\ content' = [content EXCEPT ![i] = Nothing]
  /\ Goto(s, "data")
  /\ UNCHANGED <<request, second, k, n, entry, path, tmp, left, dest, ok, moved, acked, history>>

\* the size -1 stands for a directory
MakeDirectory(s) ==
  /\ At(s, "open") /\ Entry(s).dir
  /\ CanMkDirs(disk, path[s])
  /\ disk' = MkDirs(disk, path[s])
  /\ Advance(s)
  /\ UNCHANGED <<content, request, second, n, entry, path, inode, tmp, left, dest,
                 ok, moved, acked, history>>

\* All of it is read and handed to fwrite().  What stdio still keeps is written
\* by fclose(), whose result nobody looks at: on a full disk it is lost.
DataReceived(s) ==
  /\ At(s, "data")
  /\ content' = [content EXCEPT ![inode[s]] = Upload(s)]
  /\ lost' \in {lost, lost \cup {Upload(s)}}
  /\ Advance(s)
  /\ dest' = IF Version(s) = 1 THEN [dest EXCEPT ![s] = {path[s][1]}] ELSE dest
  /\ UNCHANGED <<disk, request, second, n, entry, path, inode, tmp, left, ok, moved, acked,
                 alone>>

\* the unfinished file stays
DataFailedBug(s) ==
  /\ At(s, "data")
  /\ Failed(s)
  /\ UNCHANGED <<disk, content, request, second, k, n, entry, path, inode, tmp,
                 left, dest, moved, acked, history>>

\* the peer is silent or gone, or fwrite() finds the disk full: the file is
\* removed
DataFailed(s) ==
  /\ At(s, "data")
  /\ disk' = Unlink(disk, path[s])
  /\ Failed(s)
  /\ UNCHANGED <<content, request, second, k, n, entry, path, inode, tmp, left,
                 dest, moved, acked, history>>

-----------------------------------------------------------------------------
(* The end.                                                                *)

\* _send_ack(), close_socket(): only in version 4, only after a success
Ack(s) ==
  /\ At(s, "ack")
  /\ \/ acked' = [acked EXCEPT ![s] = TRUE] /\ UNCHANGED ok
     \/ ok' = [ok EXCEPT ![s] = FALSE] /\ UNCHANGED acked
  /\ Goto(s, "list")
  /\ UNCHANGED <<disk, content, request, second, k, n, entry, path, inode, tmp,
                 left, dest, moved, history>>

\* list_dir() of the temporary directory.  An empty one is removed, one with
\* files in it stays when something has failed.
ListTemp(s) ==
  /\ At(s, "list")
  /\ LET names == {p[2] : p \in Children(disk, <<tmp[s]>>)}
         listed == IsDir(disk, <<tmp[s]>>)
         good == ok[s] /\ listed /\ names # {}
     IN /\ ok' = [ok EXCEPT ![s] = good]
        /\ left' = [left EXCEPT ![s] = IF good THEN names ELSE {}]
        /\ disk' = IF listed /\ names = {} THEN Unlink(disk, <<tmp[s]>>) ELSE disk
        /\ Goto(s, IF good THEN "next" ELSE "done")
  /\ UNCHANGED <<content, request, second, k, n, entry, path, inode, tmp, dest, moved, acked, history>>

\* clean_temp_dir(): in the order of readdir()
NextEntry(s) ==
  /\ At(s, "next")
  /\ \E x \in left[s] :
       /\ left' = [left EXCEPT ![s] = @ \ {x}]
       /\ entry' = [entry EXCEPT ![s] = x]
  /\ n' = [n EXCEPT ![s] = 0]
  /\ Goto(s, "name")
  /\ UNCHANGED <<disk, content, request, second, k, path, inode, tmp, dest, ok, moved, acked, history>>

\* rename_file() may also fail where the tree allows it
Move(s) ==
  /\ At(s, "move")
  /\ \/ LET from == <<tmp[s], entry[s]>>
        IN /\ CanRename(disk, from, path[s])
           /\ disk' = Rename(disk, from, path[s])
           /\ dest' = [dest EXCEPT ![s] = @ \cup {path[s][1]}]
           /\ UNCHANGED <<ok, moved>>
     \/ NotMoved(s) /\ UNCHANGED <<disk, dest>>
  /\ Goto(s, "next")
  /\ UNCHANGED <<content, request, second, k, n, entry, path, inode, tmp, left, acked, history>>

\* remove_directory() when all entries were moved.  Without the list that
\* clean_temp_dir() returns after that, nothing goes to the clipboard.
RemoveTemp(s) ==
  /\ At(s, "next") /\ left[s] = {}
  /\ IF moved[s] /\ CanRemove(disk, <<tmp[s]>>)
     THEN disk' = Unlink(disk, <<tmp[s]>>) /\ Goto(s, "cut") /\ UNCHANGED <<ok, moved>>
     ELSE Goto(s, "done") /\ NotMoved(s) /\ UNCHANGED disk
  /\ UNCHANGED <<content, request, second, k, n, entry, path, inode, tmp, left,
                 dest, acked, history>>

\* set_clipboard_cut_files(): with X11 the process stays, as the owner of the
\* selection, and serves the paths of dest.  It may fail.
Cut(s) ==
  /\ At(s, "cut")
  /\ \/ Goto(s, IF CutSentFiles /\ ~Headless THEN "own" ELSE "done") /\ UNCHANGED ok
     \/ CutSentFiles /\ Goto(s, "done") /\ ok' = [ok EXCEPT ![s] = FALSE]
  /\ UNCHANGED <<disk, content, request, second, k, n, entry, path, inode, tmp, left,
                 dest, moved, acked, history>>

\* another program, or another session, takes the selection
LoseSelection(s) ==
  /\ At(s, "own")
  /\ Goto(s, "done")
  /\ UNCHANGED <<disk, content, request, second, locals, history>>

Kill(s) ==
  /\ s \in Running
  /\ Goto(s, "killed")
  /\ UNCHANGED <<disk, content, request, second, locals, history>>

-----------------------------------------------------------------------------
Step(s) ==
  \/ ListOld(s) \/ Wipe(s)
  \/ NameTaken(s) \/ NoNameLeft(s) \/ NameFree(s)
  \/ TempTaken(s) \/ TempFree(s) \/ MakeTemp(s)
  \/ FilePlace(s) \/ FileRefused(s) \/ OpenFile(s) \/ MakeDirectory(s)
  \/ DataReceived(s) \/ DataFailed(s)
  \/ Ack(s) \/ ListTemp(s) \/ NextEntry(s) \/ Move(s) \/ RemoveTemp(s) \/ Cut(s)

Next == \E s \in Sessions : Begin(s) \/ Step(s) \/ LoseSelection(s) \/ Kill(s)

Spec == Init /\ [][Next]_vars

\* A session that has begun goes on: a read gives up after 12 timeouts of two
\* seconds, and nothing else here waits.
FairSpec == Spec /\ \A s \in Sessions : WF_vars(Step(s))

-----------------------------------------------------------------------------
(* Properties.                                                             *)

\* the paths at which a file is whole
Whole(u) ==
  {p \in DOMAIN disk : disk[p] \notin {Dir, User} /\ content[disk[p]] = u /\ u \notin lost}

Uploads(s) == {<<s, i>> : i \in {j \in 1..Len(request[s].entries) :
                                     ~request[s].entries[j].dir}}

Tops(s) == {request[s].entries[i].path[1] : i \in 1..Len(request[s].entries)}

Overlap == \E s, q \in Sessions :
  s # q /\ (Tops(s) \cap Tops(q) # {} \/ (tmp[s] = tmp[q] /\ tmp[s] # NoName))

\* What was in the working directory before the server wrote there is never
\* overwritten, moved or removed, whatever clients send, however many at a
\* time, and wherever they fail.  Nor does a server that runs in the directory
\* of its configuration let a client create that file.
UsersFilesKept ==
  /\ content[User] = User
  /\ ~Headless => \A x \in Existing :
       <<Name(x)>> \in DOMAIN disk /\ disk[<<Name(x)>>] = User
  /\ ~WorkingDirSet /\ Conf \notin Existing => <<Name(Conf)>> \notin DOMAIN disk

\* Outside the temporary directories a file is whole, unless a session of
\* version 1 is still receiving it or was killed at it, or the disk was full
\* when fclose() wrote the end of it.  No file is ever left without its
\* directory.
VisibleFilesAreWhole ==
  /\ \A p \in DOMAIN disk : IsDir(disk, Front(p))
  /\ ~Overlap =>
       \A p \in DOMAIN disk :
         \/ disk[p] \in {Dir, User} \/ p \in Whole(disk[p]) \/ disk[p] \in lost
         \/ \E s \in Sessions : p[1] = tmp[s]
         \/ \E s \in Sessions :
              Version(s) = 1 /\ path[s] = p /\ pc[s] \in {"data", "killed"}

\* When the handler reports success, every file that the client sent is whole
\* below the working directory, but for those that fclose() could not write;
\* and unless an entry could not be moved out of the temporary directory, which
\* the status does not tell, each is below one of the paths that go to the
\* clipboard, and each of those exists: as long as the other sessions neither
\* send the same names nor share the temporary name.
Delivered ==
  \A s \in Sessions :
    ok[s] /\ pc[s] \in {"cut", "own", "done"} /\ ~Overlap /\ ~Headless
      => /\ \A u \in Uploads(s) \ lost : Whole(u) # {}
         /\ moved[s] => /\ \A u \in Uploads(s) \ lost : \E p \in Whole(u) : p[1] \in dest[s]
                        /\ \A x \in dest[s] : Exists(disk, <<x>>)

\* Once version 4 has acknowledged the files they are somewhere below the
\* working directory, whole but for those that fclose() could not write, also
\* when the session is killed or fails later.
AcknowledgedFilesKept ==
  ~Overlap /\ ~Headless =>
    \A s \in Sessions : acked[s] => \A u \in Uploads(s) \ lost : Whole(u) # {}

\* A headless server that has served one client from its beginning on without
\* another beside it has exactly what this client sent when it announces the
\* files: its directories, its files with their data, and nothing that earlier
\* clients left, however they ended.
HeadlessHoldsTheLastUpload ==
  \A s \in Sessions :
    Headless /\ alone[s] /\ At(s, "cut") =>
      LET sent == Range(request[s].entries)
      IN /\ DOMAIN disk = UNION {Path(e.path) : e \in sent}
         /\ dest[s] = Tops(s)
         /\ \A i \in 1..Len(request[s].entries) :
              LET e == request[s].entries[i]
              IN IF e.dir THEN IsDir(disk, e.path)
                 ELSE e.path \in Whole(<<s, i>>) \/ <<s, i>> \in lost

\* No upload hangs: it ends, or stays as the owner of the selection.
UploadsEnd ==
  \A s \in Sessions : (s \in Running) ~> (pc[s] \in {"own"} \cup Ended)

\* methods.c:423 and :648 promise that a file name is changed if it exists:
\* no complete file in the working directory is overwritten or replaced.
ReceivedFilesKept ==
  [][\A p \in DOMAIN disk :
       Len(p) = 1 /\ disk[p] \in DOMAIN content /\ content[disk[p]] # Nothing
         => p \in DOMAIN disk' /\ disk'[p] = disk[p]
            /\ content'[disk[p]] = content[disk[p]]]_vars
=============================================================================
