------------------------------ MODULE FileTree ------------------------------
(***************************************************************************)
(* The file system as the server uses it: the wrappers of utils/utils.c    *)
(* and the calls of the C library under them.                              *)
(*                                                                         *)
(* A tree is a function from paths to what is there: Dir or a file's       *)
(* inode.  A path is the sequence of names below the working directory,    *)
(* which is the path <<>> and always exists.                               *)
(***************************************************************************)
EXTENDS Naturals, Sequences, FiniteSets, SequencesExt

Dir == <<"dir", 0>>

Exists(tree, p) == p = <<>> \/ p \in DOMAIN tree

IsDir(tree, p) == p = <<>> \/ (p \in DOMAIN tree /\ tree[p] = Dir)

\* p and everything below it
Below(tree, p) == {q \in DOMAIN tree : IsPrefix(p, q)}

Children(tree, p) == {q \in Below(tree, p) : Len(q) = Len(p) + 1}

Without(tree, P) == Restrict(tree, DOMAIN tree \ P)

With(tree, p, x) == [q \in DOMAIN tree \cup {p} |-> IF q = p THEN x ELSE tree[q]]

\* p and the directories above it
Path(p) == {SubSeq(p, 1, j) : j \in 1..Len(p)}

\* mkdirs() fails when something on the path is no directory, and is content
\* with directories that are there already
CanMkDirs(tree, p) == \A q \in Path(p) : Exists(tree, q) => IsDir(tree, q)

MkDirs(tree, p) ==
  [q \in DOMAIN tree \cup Path(p) |-> IF q \in DOMAIN tree THEN tree[q] ELSE Dir]

\* fopen(p, "wb"): an existing file is truncated, a missing one created
CanOpen(tree, p) == IsDir(tree, Front(p)) /\ ~IsDir(tree, p)

\* remove(): unlink() for a file, rmdir() for a directory
CanRemove(tree, p) == p \in DOMAIN tree /\ Below(tree, p) = {p}

Unlink(tree, p) == IF CanRemove(tree, p) THEN Without(tree, {p}) ELSE tree

\* rename(): a file replaces a file, a directory an empty directory
CanRename(tree, p, q) ==
  /\ p \in DOMAIN tree
  /\ IsDir(tree, Front(q))
  /\ q \in DOMAIN tree => /\ IsDir(tree, p) <=> IsDir(tree, q)
                          /\ Below(tree, q) = {q}

Rename(tree, p, q) ==
  LET kept  == Without(tree, Below(tree, p) \cup {q})
      to(r) == q \o SubSeq(r, Len(p) + 1, Len(r))
      from(r) == p \o SubSeq(r, Len(q) + 1, Len(r))
  IN [r \in DOMAIN kept \cup {to(x) : x \in Below(tree, p)} |->
        IF r \in DOMAIN kept THEN kept[r] ELSE tree[from(r)]]
=============================================================================
