------------------------------ MODULE Download ------------------------------
(***************************************************************************)
(* A client asks for the copied files: get_files_v1() to get_files_v4() of *)
(* proto/methods.c, and the list they make of what was copied,             *)
(* get_copied_files() and get_copied_dirs_files() of utils/utils.c.        *)
(*                                                                         *)
(* The list is made first, by a walk of the directories, and the number of *)
(* files announced; only then is each file opened, measured and sent.  The *)
(* other programs of the machine, among them the sessions that receive     *)
(* files, go on changing the tree all the while.  A step of the session is *)
(* one look at the file system or one write to the peer.                   *)
(*                                                                         *)
(* Files are measured in units; a read takes Buf of them.  A path is the   *)
(* sequence of names below the root.                                       *)
(***************************************************************************)
EXTENDS FileTree, Integers

CONSTANTS Tree,         \* the initial tree: paths -> Dir or FileIn(path)
          InitialSize,  \* the sizes of its files: paths -> units
          CopiedLists,  \* what may be on the clipboard: sequences of paths
          Versions,     \* the protocol version of the client
          Undecodable,  \* paths whose URL url_decode() refuses
          LongPaths,    \* paths longer than MAX_FILE_NAME_LEN
          MaxDepth,     \* MAX_RECURSE_DEPTH
          Buf,          \* FILE_BUF_SZ
          MaxFileSize,  \* configuration.max_file_size
          MaxFileCount, \* configuration.max_file_count
          Others,       \* what other programs do: remove, create, shrink, grow
          NewPaths,     \* where they create files
          NewSizes,     \* how large
          MaxChanges    \* how many changes they make

FileIn(p) == <<"file", <<p, 0>>>>

\* a nonempty sequence of names
IsPath(p) == p \in Seq(Range(p)) /\ Len(p) > 0

ASSUME DownloadAssumption ==
  /\ Versions \subseteq 1..4
  /\ \A c \in CopiedLists :
       c \in Seq(Range(c)) /\ Len(c) > 0 /\ \A x \in 1..Len(c) : IsPath(c[x])
  /\ \A p \in DOMAIN Tree :
       /\ Tree[p] = IF p \in DOMAIN InitialSize THEN FileIn(p) ELSE Dir
       /\ \A q \in Path(p) \ {p} : IsDir(Tree, q)
  /\ DOMAIN InitialSize \subseteq DOMAIN Tree
  /\ \A p \in DOMAIN Tree \cup NewPaths : IsPath(p)
  /\ \A p \in DOMAIN InitialSize : InitialSize[p] \in Nat
  /\ NewSizes \subseteq Nat
  /\ {MaxDepth, Buf, MaxFileSize, MaxFileCount} \subseteq Nat \ {0}
  /\ MaxChanges \in Nat

VARIABLES disk,     \* the tree
          size,     \* the units in each file that is or was there
          touched,  \* the paths other programs have changed
          shrunk,   \* one of them has made a file shorter
          changes,  \* how many changes they have made
          version,  \* the version of the client
          copied,   \* the copied paths
          pc,       \* where the session is
          i,        \* the copied path, later the file, that is next
          stack,    \* the directories being read, the innermost last
          list,     \* the list2 of what will be sent
          reply,    \* the status sent
          count,    \* the number of files announced
          sent,     \* what was sent for each file
          file,     \* the open file
          pos,      \* how far it has been read
          rest      \* what is left of file_size

others == <<disk, size, touched, shrunk, changes>>
asked == <<version, copied>>
vars == <<others, asked, pc, i, stack, list, reply, count, sent, file, pos, rest>>

NoFile == <<"none", <<<<>>, 0>>>>
Ended == {"done", "failed"}

Goto(label) == pc' = label

Init ==
  /\ disk = Tree
  /\ size = [f \in {FileIn(p) : p \in DOMAIN InitialSize} |-> InitialSize[f[2][1]]]
  /\ touched = {} /\ shrunk = FALSE /\ changes = 0
  /\ version \in Versions /\ copied \in CopiedLists
  /\ pc = "copied" /\ i = 1 /\ stack = <<>> /\ list = <<>>
  /\ reply = "none" /\ count = 0 /\ sent = <<>>
  /\ file = NoFile /\ pos = 0 /\ rest = 0

-----------------------------------------------------------------------------
(* The list.                                                               *)

IsFile(p) == p \in DOMAIN disk /\ disk[p] \in DOMAIN size

\* append()
Appended(p, isdir) == list' = Append(list, [path |-> p, dir |-> isdir])

\* one directory of _recurse_dir(): what was in it when it was opened, and
\* the names readdir() has returned
Frame(d) == [dir |-> d, opened |-> Children(disk, d), seen |-> {}]

Enters(d) == Len(stack) + 1 <= MaxDepth /\ d \notin LongPaths

\* the next line of the list of URLs; one that cannot be decoded ends it
NextCopied ==
  /\ pc = "copied" /\ stack = <<>>
  /\ IF i > Len(copied) \/ copied[i] \in Undecodable
     THEN Goto("reply") /\ i' = 1 /\ UNCHANGED <<stack, list>>
     ELSE LET p == copied[i]
          IN /\ i' = i + 1
             /\ UNCHANGED pc
             /\ IF IsFile(p) THEN Appended(p, FALSE) ELSE UNCHANGED list
             /\ IF version > 1 /\ p \in DOMAIN disk /\ IsDir(disk, p) /\ Enters(p)
                THEN stack' = <<Frame(p)>>
                ELSE UNCHANGED stack
  /\ UNCHANGED <<others, asked, reply, count, sent, file, pos, rest>>

Top == Last(stack)

\* readdir() and _process_path().  The order is the file system's; whether a
\* name comes that was added or removed meanwhile is not determined.
ReadDir ==
  /\ stack # <<>>
  /\ \E p \in (Top.opened \cup Children(disk, Top.dir)) \ Top.seen :
       LET read == Front(stack) \o <<[Top EXCEPT !.seen = @ \cup {p}]>>
       IN IF p \in LongPaths
          THEN \* the rest of the directory is given up
               stack' = Front(stack) /\ UNCHANGED list
          ELSE IF p \in DOMAIN disk /\ IsDir(disk, p)
          THEN /\ stack' = IF Enters(p) THEN Append(read, Frame(p)) ELSE read
               /\ UNCHANGED list
          ELSE /\ stack' = read
               /\ IF IsFile(p) THEN Appended(p, FALSE) ELSE UNCHANGED list
  /\ UNCHANGED <<others, asked, pc, i, reply, count, sent, file, pos, rest>>

\* the end of the directory
EndDir ==
  /\ stack # <<>>
  /\ Top.opened \cap Children(disk, Top.dir) \subseteq Top.seen
  /\ stack' = Front(stack)
  /\ IF version >= 3 /\ Top.seen = {} THEN Appended(Top.dir, TRUE) ELSE UNCHANGED list
  /\ UNCHANGED <<others, asked, pc, i, reply, count, sent, file, pos, rest>>

-----------------------------------------------------------------------------
(* The answer.                                                             *)

\* the number of copied paths
ReplyBug ==
  /\ pc = "reply"
  /\ IF Len(list) \in 1..MaxFileCount
     THEN reply' = "ok" /\ count' = Len(copied) /\ Goto("file")
     ELSE reply' = "no_data" /\ Goto("failed") /\ UNCHANGED count
  /\ UNCHANGED <<others, asked, i, stack, list, sent, file, pos, rest>>

Reply ==
  /\ pc = "reply"
  /\ IF Len(list) \in 1..MaxFileCount
     THEN reply' = "ok" /\ count' = Len(list) /\ Goto("file")
     ELSE reply' = "no_data" /\ Goto("failed") /\ UNCHANGED count
  /\ UNCHANGED <<others, asked, i, stack, list, sent, file, pos, rest>>

Base == Front(copied[1])

\* the base name in every version
NamesBug(p) ==
  {<<Last(p)>>}

\* The name that is sent.  From version 2 on it is the path without its
\* first path_len characters, which is the length of the directory of the
\* first copied path, for every file: a path that is not in that directory
\* is cut anywhere, or read past its end.  path_len is 0 for the root, and
\* the name keeps the slash.
Names(p) ==
  IF version = 1 THEN {<<Last(p)>>}
  ELSE IF Base = <<>> THEN {<<"">> \o p}
  ELSE IF IsPrefix(Base, p) THEN {SubSeq(p, Len(Base) + 1, Len(p))}
  ELSE {<<>>, <<"?">>}

\* one turn of the loop over the list, up to the content: the file is opened
\* and measured, its name and size are sent
NextFile ==
  /\ pc = "file" /\ i <= Len(list)
  /\ \E name \in Names(list[i].path) :
       LET p == list[i].path
           announced(n) == [path |-> p, name |-> name, size |-> n, data |-> 0]
       IN \/ /\ list[i].dir /\ name # <<>>
             /\ sent' = Append(sent, announced(-1))
             /\ i' = i + 1
             /\ UNCHANGED <<pc, file, pos, rest>>
          \/ /\ ~list[i].dir /\ name # <<>> /\ IsFile(p)
             /\ size[disk[p]] <= MaxFileSize
             /\ sent' = Append(sent, announced(size[disk[p]]))
             /\ file' = disk[p] /\ pos' = 0 /\ rest' = size[disk[p]]
             /\ Goto("data")
             /\ UNCHANGED i
          \/ /\ \/ name = <<>>
                \/ ~list[i].dir /\ (IsFile(p) => size[disk[p]] > MaxFileSize)
             /\ Goto("failed")
             /\ UNCHANGED <<i, sent, file, pos, rest>>
  /\ UNCHANGED <<others, asked, stack, list, reply, count>>

\* fread() and write_sock(): a read that finds nothing is done again
SendChunk ==
  /\ pc = "data" /\ rest > 0
  /\ LET left == size[file] - pos
         read == IF left < Buf THEN left ELSE Buf
     IN IF left <= 0
        THEN UNCHANGED <<sent, pos, rest>>
        ELSE /\ pos' = pos + read /\ rest' = rest - read
             /\ sent' = [sent EXCEPT ![Len(sent)].data = @ + read]
  /\ UNCHANGED <<others, asked, pc, i, stack, list, reply, count, file>>

\* `while (file_size >= 0)'
FileSentBug ==
  /\ pc = "data" /\ rest < 0
  /\ i' = i + 1 /\ file' = NoFile
  /\ Goto("file")
  /\ UNCHANGED <<others, asked, stack, list, reply, count, sent, pos, rest>>

\* fclose(), and on to the next file
FileSent ==
  /\ pc = "data" /\ rest <= 0
  /\ i' = i + 1 /\ file' = NoFile
  /\ Goto("file")
  /\ UNCHANGED <<others, asked, stack, list, reply, count, sent, pos, rest>>

AllSent ==
  /\ pc = "file" /\ i > Len(list)
  /\ Goto("done")
  /\ UNCHANGED <<others, asked, i, stack, list, reply, count, sent, file, pos, rest>>

\* write_sock() fails: the peer has gone
WriteFails ==
  /\ pc \in {"reply", "file", "data"}
  /\ Goto("failed")
  /\ UNCHANGED <<others, asked, i, stack, list, reply, count, sent, file, pos, rest>>

SessionStep ==
  \/ NextCopied \/ ReadDir \/ EndDir \/ Reply
  \/ NextFile \/ SendChunk \/ FileSent \/ AllSent

-----------------------------------------------------------------------------
(* Other programs.  They stop mattering when the session has ended.        *)

May(what) == what \in Others /\ changes < MaxChanges /\ pc \notin Ended

Changed(p) == touched' = touched \cup {p} /\ changes' = changes + 1

Removes ==
  /\ May("remove")
  /\ \E p \in DOMAIN disk :
       CanRemove(disk, p) /\ disk' = Without(disk, {p}) /\ Changed(p)
  /\ UNCHANGED <<size, shrunk>>

\* a new file, or a rename() over an old one
Creates ==
  /\ May("create")
  /\ \E p \in NewPaths, u \in NewSizes :
       /\ CanOpen(disk, p)
       /\ LET new == <<"file", <<p, changes + 1>>>>
          IN disk' = With(disk, p, new) /\ size' = With(size, new, u)
       /\ Changed(p)
  /\ UNCHANGED shrunk

Shrinks ==
  /\ May("shrink")
  /\ \E f \in DOMAIN size :
       /\ size[f] > 0
       /\ size' = [size EXCEPT ![f] = @ - 1]
       /\ Changed(f[2][1])
  /\ shrunk' = TRUE
  /\ UNCHANGED disk

Grows ==
  /\ May("grow")
  /\ \E f \in DOMAIN size : size' = [size EXCEPT ![f] = @ + 1] /\ Changed(f[2][1])
  /\ UNCHANGED <<disk, shrunk>>

OthersStep ==
  /\ Removes \/ Creates \/ Shrinks \/ Grows
  /\ UNCHANGED <<asked, pc, i, stack, list, reply, count, sent, file, pos, rest>>

Ending == pc \in Ended /\ UNCHANGED vars

Next == SessionStep \/ WriteFails \/ OthersStep \/ Ending

\* The session is a process, and write_sock() always returns (SockIO).
Spec == Init /\ [][Next]_vars /\ WF_vars(SessionStep)

-----------------------------------------------------------------------------
(* Properties.                                                             *)

Announced(x) == IF sent[x].size > 0 THEN sent[x].size ELSE 0

\* A client that reads as many files as were announced, and of each as much
\* as was announced, is never ahead of the server nor behind it: the content
\* of a file is of the size that preceded it before the next name comes, and
\* a session that succeeds has sent all of the files.
\* _transfer_regular_file() and _get_files_common().
ReplyIsFramed ==
  /\ Len(sent) <= count
  /\ \A x \in 1..Len(sent) :
       /\ sent[x].data <= Announced(x)
       /\ x < Len(sent) \/ pc = "done" => sent[x].data = Announced(x)
  /\ pc = "done" => Len(sent) = count

\* what the copied paths stand for, up to the limits of the walk
Wanted(c, p) ==
  IF version = 1 \/ p = c
  THEN p = c /\ ((Tree[p] = Dir) => version >= 3 /\ Children(Tree, p) = {})
  ELSE /\ IsPrefix(c, p)
       /\ IF Tree[p] = Dir
          THEN /\ version >= 3 /\ Children(Tree, p) = {}
               /\ Len(p) - Len(c) < MaxDepth
          ELSE Len(p) - Len(c) <= MaxDepth

Decoded == {x \in 1..Len(copied) : \A y \in 1..x : copied[y] \notin Undecodable}

CutShort(p) == \E q \in LongPaths : q # p /\ IsPrefix(Front(q), p)

\* Whatever other programs do to the rest of the tree, a file that stays as
\* it was, and below a copied path, is in the reply of a session that
\* succeeds; so is an empty directory, from version 3 on.
\* get_copied_files(), get_copied_dirs_files() and _recurse_dir().
UntouchedFilesAreSent ==
  pc = "done" =>
    \A p \in DOMAIN Tree : \A x \in Decoded :
      (/\ Wanted(copied[x], p)
       /\ \A q \in touched : ~IsPrefix(p, q)
       /\ ~CutShort(p) /\ p \notin LongPaths)
      => \E y \in 1..Len(sent) : sent[y].path = p

SameDirectory == \A x \in 1..Len(copied) : Front(copied[x]) = Base

\* When everything was copied from one directory, two files never go by the
\* same name: a client that stores them under their names keeps both.
\* _transfer_single_file().
NamesTellFilesApart ==
  SameDirectory =>
    \A x, y \in 1..Len(sent) :
      sent[x].path # sent[y].path => sent[x].name # sent[y].name

\* The client of a tree that others change gets each file that stays, under a
\* name of its own.
UntouchedFilesArrive == UntouchedFilesAreSent /\ NamesTellFilesApart

\* A session ends, whatever happens to the files, unless one is made shorter:
\* the loop of _transfer_regular_file() then reads at the end of the file for
\* ever.
Ends == <>(pc \in Ended) \/ <>shrunk
=============================================================================
