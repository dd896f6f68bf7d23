------------------------------ MODULE MCUpload ------------------------------
(* Instances of Upload for TLC.                                            *)
EXTENDS Upload, TLC

File(x) == [path |-> <<Name(x)>>, dir |-> FALSE]
FileIn(d, x) == [path |-> <<Name(d), Name(x)>>, dir |-> FALSE]
EmptyDir(d) == [path |-> <<Name(d)>>, dir |-> TRUE]

\* one file, the configuration file, a name sent twice, a file in a directory
\* beside another one
SmallRequests ==
  {[version |-> 1, entries |-> <<File("a")>>],
   [version |-> 1, entries |-> <<File("conf")>>],
   [version |-> 2, entries |-> <<File("conf")>>],
   [version |-> 3, entries |-> <<EmptyDir("d"), File("a")>>],
   [version |-> 3, entries |-> <<FileIn("d", "a"), FileIn("d", "a")>>],
   [version |-> 4, entries |-> <<FileIn("d", "b"), File("e")>>]}

\* a file; a directory with a file, and an empty one
ApartRequests ==
  {[version |-> 1, entries |-> <<File("a")>>],
   [version |-> 4, entries |-> <<FileIn("d", "b"), EmptyDir("e")>>]}

SomeRequests ==
  {[version |-> 1, entries |-> <<File("a")>>],
   [version |-> 4, entries |-> <<File("a"), EmptyDir("d")>>]}

Symmetry == Permutations(Sessions) \cup Permutations(Seconds)
=============================================================================
