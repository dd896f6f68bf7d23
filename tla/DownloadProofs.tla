--------------------------- MODULE DownloadProofs ---------------------------
(***************************************************************************)
(* Proofs about Download, for every tree, every list of copied paths, every *)
(* protocol version and every limit, and any number of changes by other    *)
(* programs.                                                               *)
(***************************************************************************)
EXTENDS Download, SequenceTheorems, TLAPS

\* the paths that files are created at, and the names of all paths
Known == DOMAIN Tree \cup NewPaths
Name == UNION {Range(p) : p \in Known \cup UNION {Range(c) : c \in CopiedLists}}

Inode == {<<"file", <<p, n>>>> : p \in Known, n \in 0..changes}
Item == [path : Known, dir : BOOLEAN]
FrameSet == [dir : Known, opened : SUBSET Known, seen : SUBSET Known]

-----------------------------------------------------------------------------
(* The inductive invariant.                                                *)

Typed ==
  /\ version \in Versions /\ copied \in CopiedLists
  /\ pc \in {"copied", "reply", "file", "data"} \cup Ended
  /\ i \in Nat \ {0} /\ count \in Nat /\ changes \in Nat
  /\ DOMAIN disk \subseteq Known
  /\ DOMAIN size \subseteq Inode
  /\ \A f \in DOMAIN size : size[f] \in Nat
  /\ stack \in Seq(FrameSet) /\ list \in Seq(Item)
  /\ pos \in Nat /\ rest \in Int
  /\ pc = "data" => file \in DOMAIN size

\* Where the answer is: how many of the files were sent.
Placed ==
  /\ stack # <<>> => pc = "copied"
  /\ pc \in {"copied", "reply"} => sent = <<>> /\ count = 0
  /\ pc = "reply" => i = 1
  /\ pc \in {"file", "data", "done"} => count = Len(list)
  /\ pc = "file" => Len(sent) = i - 1 /\ i - 1 <= count
  /\ pc = "data" => Len(sent) = i /\ i <= count
  /\ pc = "done" => Len(sent) = count
  /\ pc = "failed" => sent = <<>> \/ (count = Len(list) /\ Len(sent) <= count)

\* what is sent for file x: its path is that of the list
SentAs(x) ==
  /\ sent[x].path = list[x].path
  /\ sent[x].name \in Names(sent[x].path)
  /\ sent[x].name # <<>>

SentSet == [path : Known, name : UNION {Names(p) : p \in Known},
            size : Nat \cup {-1}, data : Int]

AsListed ==
  /\ sent \in Seq(SentSet)
  /\ Len(sent) <= Len(list)
  /\ \A x \in 1..Len(sent) : SentAs(x)

\* The open file is no longer than what is left to be sent of it.
Measured ==
  /\ \A x \in 1..Len(sent) :
       /\ sent[x].data \in 0..Announced(x)
       /\ x < Len(sent) \/ pc \in {"file", "done"} => sent[x].data = Announced(x)
  /\ pc = "data" =>
       /\ size[file] - pos <= rest
       /\ rest \in Nat /\ sent[i].data + rest = Announced(i)

\* Only copied paths and what is below them is walked and listed.
From(p) ==
  \E x \in 1..Len(copied) :
    copied[x] \in Known /\ IsPrefix(copied[x], p) /\ (version = 1 => copied[x] = p)

FrameFrom(f) ==
  /\ From(f.dir) /\ version > 1
  /\ \A q \in f.opened : IsPrefix(f.dir, q) /\ Len(q) = Len(f.dir) + 1

Walked ==
  /\ \A x \in 1..Len(stack) : FrameFrom(stack[x])
  /\ \A x \in 1..Len(list) : From(list[x].path)

\* The directory that is walked last in NextCopied(), and how deep the walk is.
Deep ==
  stack # <<>> =>
    /\ i > 1 /\ i - 1 <= Len(copied)
    /\ \A x \in 1..Len(stack) :
         /\ IsPrefix(copied[i - 1], stack[x].dir)
         /\ Len(stack[x].dir) = Len(copied[i - 1]) + x - 1

\* p is one of the paths of the initial tree that are left alone
Stays(p) == \A q \in touched : ~IsPrefix(p, q)
Empty(p) == Tree[p] = Dir /\ Children(Tree, p) = {}

\* A path that is left alone is there, and so are the directories above it.
Alive ==
  \A p \in DOMAIN Tree : Stays(p) =>
    /\ p \in DOMAIN disk /\ disk[p] = Tree[p]
    /\ \A q \in Path(p) \ {p} : q \in DOMAIN disk /\ disk[q] = Dir
    /\ Tree[p] # Dir => FileIn(p) \in DOMAIN size
    /\ Empty(p) => Children(disk, p) = {}

Listed(p) == \E y \in 1..Len(list) : list[y].path = p

\* the name below d on the way to p
Toward(d, p) == SubSeq(p, 1, Len(d) + 1)

\* The walk will come to p: it is in a directory on the way and has not seen
\* where the way goes on, or in the empty directory p itself.
PendingIn(f, p) ==
  /\ IsPrefix(f.dir, p)
  /\ IF f.dir = p THEN Empty(p) /\ f.opened = {} /\ f.seen = {}
     ELSE Toward(f.dir, p) \in f.opened \ f.seen

Pending(p) == \E x \in 1..Len(stack) : PendingIn(stack[x], p)

\* what UntouchedFilesAreSent asks for
Due(x, p) ==
  /\ Wanted(copied[x], p) /\ Stays(p)
  /\ ~CutShort(p) /\ p \notin LongPaths

Reached ==
  \A p \in DOMAIN Tree : \A x \in Decoded :
    Due(x, p) =>
      IF pc = "copied"
      THEN x < i => Listed(p) \/ (x = i - 1 /\ Pending(p))
      ELSE Listed(p)

IInv == Typed /\ Placed /\ AsListed /\ Walked /\ Deep /\ Alive /\ Reached

-----------------------------------------------------------------------------
(* Paths.                                                                  *)

LEMMA Paths ==
  /\ \A p \in Known : p \in Seq(Name) /\ Len(p) \in Nat \ {0}
  /\ \A c \in CopiedLists :
       /\ Len(c) \in Nat \ {0}
       /\ \A x \in 1..Len(c) : c[x] \in Seq(Name) /\ Len(c[x]) \in Nat \ {0}
<1>1. ASSUME NEW p \in Known \cup UNION {Range(c) : c \in CopiedLists}, IsPath(p)
      PROVE  p \in Seq(Name) /\ Len(p) \in Nat \ {0}
  <2>1. Range(p) \subseteq Name
    BY DEF Name
  <2>2. p \in Seq(Range(p)) /\ Len(p) > 0
    BY <1>1 DEF IsPath
  <2>3. p \in Seq(Name)
    BY <2>1, <2>2, SeqMonotonic
  <2> QED
    BY <2>2, <2>3, LenProperties
<1>2. \A p \in Known : p \in Seq(Name) /\ Len(p) \in Nat \ {0}
  BY <1>1, DownloadAssumption DEF Known
<1>3. ASSUME NEW c \in CopiedLists
      PROVE  /\ Len(c) \in Nat \ {0}
             /\ \A x \in 1..Len(c) : c[x] \in Seq(Name) /\ Len(c[x]) \in Nat \ {0}
  <2>1. c \in Seq(Range(c)) /\ Len(c) > 0 /\ \A x \in 1..Len(c) : IsPath(c[x])
    BY DownloadAssumption
  <2>2. Len(c) \in Nat \ {0}
    BY <2>1, LenProperties
  <2>3. \A x \in 1..Len(c) : c[x] \in Range(c)
    BY <2>1, ElementOfSeq
  <2> QED
    BY <1>1, <2>1, <2>2, <2>3
<1> QED
  BY <1>2, <1>3

LEMMA PrefixIff ==
  ASSUME NEW S, NEW s \in Seq(S), NEW t \in Seq(S)
  PROVE  IsPrefix(s, t) <=> /\ Len(s) <= Len(t)
                           /\ \A j \in 1..Len(s) : s[j] = t[j]
<1>1. /\ Len(s) \in Nat /\ Len(t) \in Nat
      /\ \A j \in 1..Len(s) : s[j] \in S /\ \A j1 \in 1..Len(t) : t[j1] \in S
  BY LenProperties, ElementOfSeq
<1>2. SubSeq(s, 1, Len(s)) = s
  BY SubSeqFull
<1>3. ASSUME Len(s) <= Len(t)
      PROVE  s = SubSeq(t, 1, Len(s)) <=> \A j \in 1..Len(s) : s[j] = t[j]
  <2> DEFINE u == SubSeq(t, 1, Len(s))
  <2>1. \A j \in 1..Len(s) : t[j] \in S
    <3>1. \A j \in 1..Len(s) : j \in 1..Len(t)
      BY <1>1, <1>3
    <3> QED
      BY <3>1, ElementOfSeq
  <2>2. /\ u \in Seq(S) /\ Len(u) = Len(s)
        /\ \A j \in 1..Len(s) : u[j] = t[j]
    <3>1. /\ u \in Seq(S) /\ Len(u) = IF 1 <= Len(s) THEN Len(s) - 1 + 1 ELSE 0
          /\ \A j \in 1..(Len(s) - 1 + 1) : u[j] = t[1 + j - 1]
      BY <1>1, <2>1, SubSeqProperties
    <3> HIDE DEF u
    <3> QED
      BY <1>1, <3>1
  <2> HIDE DEF u
  <2> QED
    BY <2>2, SeqEqual DEF u
<1> QED
  BY <1>2, <1>3 DEF IsPrefix

LEMMA PrefixTransitive ==
  ASSUME NEW S, NEW s \in Seq(S), NEW t \in Seq(S), NEW u \in Seq(S),
         IsPrefix(s, t), IsPrefix(t, u)
  PROVE  IsPrefix(s, u)
<1>1. Len(s) \in Nat /\ Len(t) \in Nat /\ Len(u) \in Nat
  BY LenProperties
<1>2. /\ Len(s) <= Len(t) /\ Len(t) <= Len(u)
      /\ \A j \in 1..Len(s) : s[j] = t[j]
      /\ \A j \in 1..Len(t) : t[j] = u[j]
  BY PrefixIff
<1>3. Len(s) <= Len(u) /\ \A j \in 1..Len(s) : j \in 1..Len(t)
  BY <1>1, <1>2
<1> QED
  BY <1>2, <1>3, PrefixIff

LEMMA PrefixEqual ==
  ASSUME NEW S, NEW s \in Seq(S), NEW t \in Seq(S), IsPrefix(s, t)
  PROVE  /\ Len(s) <= Len(t) /\ (Len(s) = Len(t) => s = t)
         /\ s # t => Len(s) < Len(t)
<1>1. Len(s) \in Nat /\ Len(t) \in Nat
  BY LenProperties
<1>2. Len(s) <= Len(t) /\ (Len(s) = Len(t) => s = t)
  BY PrefixIff, SeqEqual
<1> QED
  BY <1>1, <1>2

LEMMA PrefixRefl ==
  ASSUME NEW S, NEW s \in Seq(S)
  PROVE  IsPrefix(s, s)
<1>1. Len(s) \in Nat
  BY LenProperties
<1> QED
  BY <1>1, PrefixIff

\* The first n names of a path.
LEMMA FirstNames ==
  ASSUME NEW S, NEW p \in Seq(S), NEW n \in 0..Len(p)
  PROVE  LET a == SubSeq(p, 1, n) IN
         /\ a \in Seq(S) /\ Len(a) = n /\ \A j \in 1..n : a[j] = p[j]
         /\ IsPrefix(a, p)
<1> DEFINE a == SubSeq(p, 1, n)
<1>1. Len(p) \in Nat /\ n \in Nat /\ n <= Len(p)
  BY LenProperties
<1>2. \A j \in 1..n : p[j] \in S
  <2>1. \A j \in 1..n : j \in 1..Len(p)
    BY <1>1
  <2> QED
    BY <2>1, ElementOfSeq
<1>3. /\ a \in Seq(S) /\ Len(a) = IF 1 <= n THEN n - 1 + 1 ELSE 0
      /\ \A j \in 1..(n - 1 + 1) : a[j] = p[1 + j - 1]
  BY <1>1, <1>2, SubSeqProperties
<1> HIDE DEF a
<1>4. Len(a) = n /\ \A j \in 1..n : a[j] = p[j]
  BY <1>1, <1>3
<1>5. IsPrefix(a, p)
  BY <1>1, <1>3, <1>4, PrefixIff
<1> QED
  BY <1>3, <1>4, <1>5 DEF a

\* Where the way from d to p goes on.
LEMMA TowardProperties ==
  ASSUME NEW S, NEW d \in Seq(S), NEW p \in Seq(S), IsPrefix(d, p), d # p
  PROVE  LET t == Toward(d, p) IN
         /\ t \in Seq(S) /\ Len(t) = Len(d) + 1
         /\ IsPrefix(d, t) /\ IsPrefix(t, p) /\ t # d
         /\ t = p \/ t \in Path(p) \ {p}
<1>1. Len(d) \in Nat /\ Len(p) \in Nat /\ Len(d) < Len(p)
  BY LenProperties, PrefixEqual
<1>2. Len(d) + 1 \in 0..Len(p) /\ Len(d) + 1 \in 1..Len(p)
  BY <1>1
<1> DEFINE t == SubSeq(p, 1, Len(d) + 1)
<1>3. /\ t \in Seq(S) /\ Len(t) = Len(d) + 1 /\ IsPrefix(t, p)
      /\ \A j \in 1..(Len(d) + 1) : t[j] = p[j]
  BY <1>2, FirstNames
<1>4. t \in Path(p)
  BY <1>2 DEF Path
<1> HIDE DEF t
<1>5. IsPrefix(d, t)
  <2>1. \A j \in 1..Len(d) : d[j] = p[j] /\ j \in 1..(Len(d) + 1)
    BY <1>1, PrefixIff
  <2>2. \A j \in 1..Len(d) : d[j] = t[j]
    BY <1>3, <2>1
  <2>3. Len(d) <= Len(t)
    BY <1>1, <1>3
  <2> QED
    BY <1>3, <2>2, <2>3, PrefixIff
<1>6. t # d
  BY <1>1, <1>3
<1> QED
  BY <1>3, <1>4, <1>5, <1>6 DEF t, Toward

\* The directory of a path.
LEMMA FrontProperties ==
  ASSUME NEW S, NEW q \in Seq(S), Len(q) > 0
  PROVE  /\ Front(q) \in Seq(S) /\ Len(Front(q)) = Len(q) - 1
         /\ \A j \in 1..(Len(q) - 1) : Front(q)[j] = q[j]
         /\ IsPrefix(Front(q), q)
         /\ \A d \in Seq(S) : IsPrefix(d, q) /\ Len(q) = Len(d) + 1 => Front(q) = d
<1>1. Len(q) \in Nat /\ Len(q) - 1 \in 0..Len(q)
  BY LenProperties
<1>2. /\ Front(q) \in Seq(S) /\ Len(Front(q)) = Len(q) - 1
      /\ \A j \in 1..(Len(q) - 1) : Front(q)[j] = q[j]
      /\ IsPrefix(Front(q), q)
  BY <1>1, FirstNames DEF Front
<1>3. ASSUME NEW d \in Seq(S), IsPrefix(d, q), Len(q) = Len(d) + 1
      PROVE  Front(q) = d
  <2>1. Len(d) \in Nat /\ Len(d) = Len(q) - 1 /\ \A j \in 1..Len(d) : d[j] = q[j]
    BY <1>3, LenProperties, PrefixIff
  <2> QED
    BY <1>2, <2>1, SeqEqual
<1> QED
  BY <1>2, <1>3

-----------------------------------------------------------------------------
(* A path that is left alone.                                              *)

LEMMA InitAlive == Init => Alive
<1> SUFFICES ASSUME Init, NEW p \in DOMAIN Tree
             PROVE  /\ p \in DOMAIN disk /\ disk[p] = Tree[p]
                    /\ \A q \in Path(p) \ {p} : q \in DOMAIN disk /\ disk[q] = Dir
                    /\ Tree[p] # Dir => FileIn(p) \in DOMAIN size
                    /\ Empty(p) => Children(disk, p) = {}
  BY DEF Alive
<1>1. disk = Tree /\ DOMAIN size = {FileIn(q) : q \in DOMAIN InitialSize}
  BY DEF Init
<1>2. Tree[p] # Dir => FileIn(p) \in DOMAIN size
  BY <1>1, DownloadAssumption
<1>3. \A q \in Path(p) \ {p} : IsDir(Tree, q)
  BY DownloadAssumption
<1>4. p \in Seq(Name)
  BY Paths DEF Known
<1>5. \A q \in Path(p) : q # <<>>
  <2>1. \A j \in 1..Len(p) : j \in 0..Len(p) /\ j # 0
    BY <1>4, LenProperties
  <2>2. \A j \in 1..Len(p) : Len(SubSeq(p, 1, j)) # 0
    BY <1>4, <2>1, FirstNames
  <2>3. Len(<<>>) = 0
    OBVIOUS
  <2> QED
    BY <2>2, <2>3 DEF Path
<1>6. \A q \in Path(p) \ {p} : q \in DOMAIN disk /\ disk[q] = Dir
  BY <1>1, <1>3, <1>5 DEF IsDir
<1> QED
  BY <1>1, <1>2, <1>6 DEF Empty

\* The steps of other programs.
LEMMA OthersAlive ==
  ASSUME Typed, Alive, OthersStep
  PROVE  Alive'
<1> SUFFICES ASSUME NEW p \in DOMAIN Tree, \A q \in touched' : ~IsPrefix(p, q)
             PROVE  /\ p \in DOMAIN disk' /\ disk'[p] = Tree[p]
                    /\ \A q \in Path(p) \ {p} : q \in DOMAIN disk' /\ disk'[q] = Dir
                    /\ Tree[p] # Dir => FileIn(p) \in DOMAIN size'
                    /\ Empty(p) => Children(disk', p) = {}
  BY DEF Alive, Stays, Empty, Children, Below
<1>1. \A q \in touched : q \in touched'
  BY DEF OthersStep, Removes, Creates, Shrinks, Grows, Changed
<1>2. /\ p \in DOMAIN disk /\ disk[p] = Tree[p]
      /\ \A q \in Path(p) \ {p} : q \in DOMAIN disk /\ disk[q] = Dir
      /\ Tree[p] # Dir => FileIn(p) \in DOMAIN size
      /\ Empty(p) => Children(disk, p) = {}
  BY <1>1 DEF Alive, Stays
<1>3. p \in Seq(Name) /\ Len(p) \in Nat \ {0}
  BY Paths DEF Known
<1>4. \A q \in Path(p) : IsPrefix(q, p)
  <2>1. \A j \in 1..Len(p) : j \in 0..Len(p)
    BY <1>3
  <2>2. \A j \in 1..Len(p) : IsPrefix(SubSeq(p, 1, j), p)
    BY <1>3, <2>1, FirstNames
  <2> QED
    BY <2>2 DEF Path
<1>5. IsPrefix(p, p)
  BY <1>3, PrefixRefl
<1>6. CASE Removes
  <2>1. PICK q \in DOMAIN disk : CanRemove(disk, q) /\ disk' = Without(disk, {q}) /\ Changed(q)
    BY <1>6 DEF Removes
  <2>2. size' = size /\ q \in touched' /\ ~IsPrefix(p, q)
    BY <1>6, <2>1 DEF Removes, Changed
  <2>3. /\ DOMAIN disk' = DOMAIN disk \ {q}
        /\ \A r \in DOMAIN disk \ {q} : disk'[r] = disk[r]
    BY <2>1 DEF Without, Restrict
  <2>4. p # q
    BY <1>5, <2>2
  <2>5. q \notin Path(p)
    <3>1. \A r \in DOMAIN disk : IsPrefix(q, r) => r = q
      BY <2>1 DEF CanRemove, Below
    <3> QED
      BY <1>2, <1>4, <2>4, <3>1
  <2>6. Children(disk', p) \subseteq Children(disk, p)
    BY <2>3 DEF Children, Below
  <2> QED
    BY <1>2, <2>2, <2>3, <2>4, <2>5, <2>6
<1>7. CASE Creates
  <2>1. PICK q \in NewPaths, u \in NewSizes :
          /\ CanOpen(disk, q)
          /\ disk' = With(disk, q, <<"file", <<q, changes + 1>>>>)
          /\ size' = With(size, <<"file", <<q, changes + 1>>>>, u)
          /\ Changed(q)
    BY <1>7 DEF Creates
  <2>2. q \in touched' /\ ~IsPrefix(p, q) /\ q \in Known
    BY <2>1 DEF Changed, Known
  <2>3. /\ DOMAIN disk' = DOMAIN disk \cup {q}
        /\ \A r \in DOMAIN disk \ {q} : disk'[r] = disk[r]
        /\ DOMAIN size \subseteq DOMAIN size'
    BY <2>1 DEF With
  <2>4. ~(q \in DOMAIN disk /\ disk[q] = Dir)
    BY <2>1 DEF CanOpen, IsDir
  <2>5. p # q /\ q \notin Path(p)
    BY <1>2, <1>5, <2>2, <2>4
  <2>6. Children(disk', p) \subseteq Children(disk, p)
    BY <2>2, <2>3 DEF Children, Below
  <2> QED
    BY <1>2, <2>3, <2>5, <2>6
<1>8. CASE Shrinks \/ Grows
  <2>1. disk' = disk /\ DOMAIN size' = DOMAIN size
    BY <1>8 DEF Shrinks, Grows
  <2> QED
    BY <1>2, <2>1
<1> QED
  BY <1>6, <1>7, <1>8 DEF OthersStep

\* From a directory on the way to a path that is left alone the way goes on.
LEMMA WayOn ==
  ASSUME Typed, Alive, NEW p \in DOMAIN Tree, Stays(p),
         NEW d \in Known, IsPrefix(d, p), d # p
  PROVE  LET t == Toward(d, p) IN
         /\ t \in Children(disk, d) /\ t \in DOMAIN disk /\ t \in Known
         /\ IsPrefix(t, p) /\ Len(t) = Len(d) + 1
         /\ t = p \/ disk[t] = Dir
<1> DEFINE t == Toward(d, p)
<1>1. d \in Seq(Name) /\ p \in Seq(Name)
  BY Paths DEF Known
<1>2. /\ t \in Seq(Name) /\ Len(t) = Len(d) + 1
      /\ IsPrefix(d, t) /\ IsPrefix(t, p)
      /\ t = p \/ t \in Path(p) \ {p}
  BY <1>1, TowardProperties
<1> HIDE DEF t
<1>3. t \in DOMAIN disk /\ (t = p \/ disk[t] = Dir)
  BY <1>2 DEF Alive
<1>4. t \in Children(disk, d) /\ t \in Known
  BY <1>2, <1>3 DEF Children, Below, Typed
<1> QED
  BY <1>2, <1>3, <1>4 DEF t

\* A directory on the way, or the empty directory itself, when it is opened.
LEMMA NewFrame ==
  ASSUME Typed, Alive, NEW p \in DOMAIN Tree, Stays(p),
         NEW d \in Known, IsPrefix(d, p), d = p => Empty(p)
  PROVE  PendingIn(Frame(d), p)
<1>1. CASE d = p
  BY <1>1 DEF PendingIn, Frame, Alive
<1>2. CASE d # p
  BY <1>2, WayOn DEF PendingIn, Frame
<1> QED
  BY <1>1, <1>2

\* No name on the way is too long.
LEMMA NotLong ==
  ASSUME NEW p \in DOMAIN Tree, ~CutShort(p), p \notin LongPaths,
         NEW q \in Known, NEW d \in Seq(Name), IsPrefix(d, q), Len(q) = Len(d) + 1,
         IsPrefix(d, p)
  PROVE  q \notin LongPaths
<1>1. q \in Seq(Name) /\ Len(q) > 0
  BY Paths
<1>2. Front(q) = d
  BY <1>1, FrontProperties
<1> QED
  BY <1>2 DEF CutShort

\* What is due is not below the limit of the depth.
LEMMA DueDeep ==
  ASSUME Typed, NEW p \in DOMAIN Tree, NEW x \in 1..Len(copied), Due(x, p),
         copied[x] # p
  PROVE  /\ version > 1 /\ IsPrefix(copied[x], p)
         /\ Tree[p] = Dir => Empty(p) /\ version >= 3 /\ Len(p) - Len(copied[x]) < MaxDepth
         /\ Len(p) - Len(copied[x]) <= MaxDepth
<1>1. version \in 1..4 /\ MaxDepth \in Nat
  BY DownloadAssumption DEF Typed
<1>2. p \in Known /\ Len(p) \in Nat /\ Len(copied[x]) \in Nat
  BY Paths DEF Known, Typed
<1>3. /\ version # 1 /\ IsPrefix(copied[x], p)
      /\ IF Tree[p] = Dir
         THEN /\ version >= 3 /\ Children(Tree, p) = {}
              /\ Len(p) - Len(copied[x]) < MaxDepth
         ELSE Len(p) - Len(copied[x]) <= MaxDepth
  BY DEF Due, Wanted
<1> QED
  BY <1>1, <1>2, <1>3 DEF Empty

-----------------------------------------------------------------------------
(* Types.                                                                  *)

LEMMA InitTyped == Init => Typed
<1> SUFFICES ASSUME Init PROVE Typed
  OBVIOUS
<1>1. DOMAIN size = {FileIn(p) : p \in DOMAIN InitialSize} /\ changes = 0
  BY DEF Init
<1>2. \A p \in DOMAIN InitialSize : FileIn(p)[2][1] = p /\ FileIn(p) \in Inode
  BY <1>1, DownloadAssumption DEF FileIn, Inode, Known
<1>3. \A p \in DOMAIN InitialSize : size[FileIn(p)] = InitialSize[p]
  <2>1. size = [f \in {FileIn(p) : p \in DOMAIN InitialSize} |-> InitialSize[f[2][1]]]
    BY DEF Init
  <2> HIDE DEF FileIn
  <2> QED
    BY <1>2, <2>1
<1>4. \A f \in DOMAIN size : f \in Inode /\ size[f] \in Nat
  <2> HIDE DEF FileIn, Inode
  <2> QED
    BY <1>1, <1>2, <1>3, DownloadAssumption
<1>5. DOMAIN disk \subseteq Known
  BY DEF Init, Known
<1>6. stack \in Seq(FrameSet) /\ list \in Seq(Item)
  BY EmptySeq DEF Init
<1>7. /\ version \in Versions /\ copied \in CopiedLists /\ pc = "copied"
      /\ i = 1 /\ count = 0 /\ changes = 0 /\ pos = 0 /\ rest = 0
  BY DEF Init
<1> HIDE DEF Init
<1> QED
  BY <1>4, <1>5, <1>6, <1>7 DEF Typed

\* The other programs: the inodes they make are new.
LEMMA OthersTyped ==
  ASSUME Typed, OthersStep
  PROVE  /\ Typed'
         /\ DOMAIN size \subseteq DOMAIN size'
         /\ "grow" \notin Others => \A f \in DOMAIN size : size'[f] <= size[f]
<1>1. UNCHANGED <<version, copied, pc, i, stack, list, count, pos, rest, file>>
  BY DEF OthersStep, asked
<1>2. changes' \in Nat /\ changes' = changes + 1
  <2>1. changes' = changes + 1
    BY DEF OthersStep, Removes, Creates, Shrinks, Grows, Changed
  <2> QED
    BY <2>1 DEF Typed
<1>3. Inode \subseteq Inode'
  <2>1. 0..changes \subseteq 0..changes'
    BY <1>2 DEF Typed
  <2> QED
    BY <2>1 DEF Inode
<1>4. SUFFICES /\ DOMAIN disk' \subseteq Known /\ DOMAIN size' \subseteq Inode'
               /\ \A f \in DOMAIN size' : size'[f] \in Nat
               /\ DOMAIN size \subseteq DOMAIN size'
               /\ "grow" \notin Others => \A f \in DOMAIN size : size'[f] <= size[f]
  BY <1>1, <1>2 DEF Typed
<1>5. /\ DOMAIN disk \subseteq Known /\ DOMAIN size \subseteq Inode
      /\ \A f \in DOMAIN size : size[f] \in Nat
  BY DEF Typed
<1>6. CASE Removes
  BY <1>3, <1>5, <1>6 DEF Removes, Without, Restrict
<1>7. CASE Creates
  <2>1. PICK q \in NewPaths, u \in NewSizes :
          /\ disk' = With(disk, q, <<"file", <<q, changes + 1>>>>)
          /\ size' = With(size, <<"file", <<q, changes + 1>>>>, u)
    BY <1>7 DEF Creates
  <2> DEFINE new == <<"file", <<q, changes + 1>>>>
  <2>2. u \in Nat /\ q \in Known
    BY DownloadAssumption DEF Known
  <2>3. new \in Inode'
    BY <1>2, <2>2 DEF Inode
  <2>4. new \notin DOMAIN size
    <3>1. \A f \in Inode : f[2][2] # changes + 1
      BY DEF Inode, Typed
    <3>2. new[2][2] = changes + 1
      OBVIOUS
    <3> QED
      BY <1>5, <3>1, <3>2
  <2> HIDE DEF new
  <2>5. /\ DOMAIN disk' = DOMAIN disk \cup {q}
        /\ DOMAIN size' = DOMAIN size \cup {new}
        /\ \A f \in DOMAIN size : size'[f] = size[f]
        /\ size'[new] = u
    BY <2>1, <2>4 DEF With, new
  <2>6. \A f \in DOMAIN size : size'[f] <= size[f]
    BY <1>5, <2>5
  <2> QED
    BY <1>3, <1>5, <2>2, <2>3, <2>5, <2>6
<1>8. CASE Shrinks
  <2>1. PICK f \in DOMAIN size : size[f] > 0 /\ size' = [size EXCEPT ![f] = @ - 1]
    BY <1>8 DEF Shrinks
  <2>2. /\ DOMAIN size' = DOMAIN size
        /\ \A g \in DOMAIN size : size'[g] = IF g = f THEN size[g] - 1 ELSE size[g]
    BY <2>1
  <2>3. \A g \in DOMAIN size : size'[g] \in Nat /\ size'[g] <= size[g]
    BY <1>5, <2>1, <2>2
  <2> QED
    BY <1>3, <1>5, <1>8, <2>2, <2>3 DEF Shrinks
<1>9. CASE Grows
  <2>1. PICK f \in DOMAIN size : size' = [size EXCEPT ![f] = @ + 1]
    BY <1>9 DEF Grows
  <2>2. /\ DOMAIN size' = DOMAIN size
        /\ \A g \in DOMAIN size : size'[g] = IF g = f THEN size[g] + 1 ELSE size[g]
    BY <2>1
  <2>3. \A g \in DOMAIN size : size'[g] \in Nat
    BY <1>5, <2>2
  <2> QED
    BY <1>3, <1>5, <1>9, <2>2, <2>3 DEF Grows, May
<1> QED
  BY <1>6, <1>7, <1>8, <1>9 DEF OthersStep

\* The innermost directory, and what reading a name of it does to the stack.
LEMMA TopProperties ==
  ASSUME Typed, stack # <<>>
  PROVE  /\ Len(stack) \in Nat \ {0} /\ Top \in FrameSet /\ Top = stack[Len(stack)]
         /\ Front(stack) \in Seq(FrameSet) /\ Len(Front(stack)) = Len(stack) - 1
         /\ \A x \in 1..(Len(stack) - 1) : Front(stack)[x] = stack[x]
         /\ \A f \in FrameSet : LET s == Front(stack) \o <<f>> IN
              /\ s \in Seq(FrameSet) /\ Len(s) = Len(stack) /\ s[Len(stack)] = f
              /\ \A x \in 1..(Len(stack) - 1) : s[x] = stack[x]
<1>1. stack \in Seq(FrameSet) /\ Len(stack) \in Nat \ {0}
  BY EmptySeq DEF Typed
<1>2. Top \in FrameSet /\ Top = stack[Len(stack)]
  BY <1>1, ElementOfSeq DEF Top, Last
<1>3. /\ Front(stack) \in Seq(FrameSet) /\ Len(Front(stack)) = Len(stack) - 1
      /\ \A x \in 1..(Len(stack) - 1) : Front(stack)[x] = stack[x]
  BY <1>1, FrontProperties
<1>4. ASSUME NEW f \in FrameSet
      PROVE  LET s == Front(stack) \o <<f>> IN
             /\ s \in Seq(FrameSet) /\ Len(s) = Len(stack) /\ s[Len(stack)] = f
             /\ \A x \in 1..(Len(stack) - 1) : s[x] = stack[x]
  <2> DEFINE s == Append(Front(stack), f)
  <2>1. s = Front(stack) \o <<f>>
    BY <1>3, AppendIsConcat
  <2>2. /\ s \in Seq(FrameSet) /\ Len(s) = Len(Front(stack)) + 1
        /\ \A x \in 1..Len(Front(stack)) : s[x] = Front(stack)[x]
        /\ s[Len(Front(stack)) + 1] = f
    BY <1>3, AppendProperties
  <2> HIDE DEF s
  <2>3. Len(Front(stack)) + 1 = Len(stack)
    BY <1>1, <1>3
  <2>4. Len(s) = Len(stack) /\ s[Len(stack)] = f
        /\ \A x \in 1..(Len(stack) - 1) : s[x] = stack[x]
    BY <1>3, <2>2, <2>3
  <2> QED
    BY <2>1, <2>2, <2>4
<1> QED
  BY <1>1, <1>2, <1>3, <1>4

\* A directory that is opened.
LEMMA FrameType ==
  ASSUME Typed, NEW d \in Known
  PROVE  /\ Frame(d) \in FrameSet /\ Frame(d).dir = d /\ Frame(d).seen = {}
         /\ Frame(d).opened = Children(disk, d)
         /\ Children(disk, d) \subseteq Known
         /\ \A q \in Children(disk, d) : IsPrefix(d, q) /\ Len(q) = Len(d) + 1
BY DEF Frame, FrameSet, Children, Below, Typed

\* One turn of the loop of _recurse_dir().
LEMMA ReadShape ==
  ASSUME Typed, Walked, ReadDir
  PROVE  \E q \in Known :
           /\ stack # <<>>
           /\ q \in Top.opened \cup Children(disk, Top.dir)
           /\ IsPrefix(Top.dir, q) /\ Len(q) = Len(Top.dir) + 1
           /\ LET f == [Top EXCEPT !.seen = @ \cup {q}]
                  read == Front(stack) \o <<f>>
              IN \/ q \in LongPaths /\ stack' = Front(stack) /\ UNCHANGED list
                 \/ /\ q \notin LongPaths /\ q \in DOMAIN disk /\ disk[q] = Dir /\ Enters(q)
                    /\ stack' = Append(read, Frame(q)) /\ UNCHANGED list
                 \/ /\ q \notin LongPaths /\ q \in DOMAIN disk /\ disk[q] = Dir /\ ~Enters(q)
                    /\ stack' = read /\ UNCHANGED list
                 \/ /\ q \notin LongPaths /\ ~(q \in DOMAIN disk /\ disk[q] = Dir)
                    /\ stack' = read
                    /\ IF IsFile(q) THEN Appended(q, FALSE) ELSE UNCHANGED list
<1>1. stack # <<>>
  BY DEF ReadDir
<1>2. PICK q \in (Top.opened \cup Children(disk, Top.dir)) \ Top.seen :
        LET read == Front(stack) \o <<[Top EXCEPT !.seen = @ \cup {q}]>>
        IN IF q \in LongPaths
           THEN stack' = Front(stack) /\ UNCHANGED list
           ELSE IF q \in DOMAIN disk /\ IsDir(disk, q)
           THEN /\ stack' = IF Enters(q) THEN Append(read, Frame(q)) ELSE read
                /\ UNCHANGED list
           ELSE /\ stack' = read
                /\ IF IsFile(q) THEN Appended(q, FALSE) ELSE UNCHANGED list
  BY DEF ReadDir
<1>3. Top \in FrameSet /\ Top = stack[Len(stack)] /\ Len(stack) \in 1..Len(stack)
  BY <1>1, TopProperties
<1>4. FrameFrom(Top) /\ Top.dir \in Known /\ Top.opened \subseteq Known
  BY <1>3 DEF Walked, FrameSet
<1>5. q \in Known /\ IsPrefix(Top.dir, q) /\ Len(q) = Len(Top.dir) + 1
  BY <1>4, FrameType DEF FrameFrom
<1>6. q # <<>>
  BY <1>5, Paths
<1>7. q \in DOMAIN disk /\ IsDir(disk, q) <=> q \in DOMAIN disk /\ disk[q] = Dir
  BY <1>6 DEF IsDir
<1> QED
  BY <1>1, <1>2, <1>5, <1>7

-----------------------------------------------------------------------------
(* What the steps of the walk do.                                          *)

LEMMA AppendedList ==
  ASSUME Typed, NEW p \in Known, NEW b \in BOOLEAN, Appended(p, b)
  PROVE  /\ list' \in Seq(Item) /\ Len(list') = Len(list) + 1
         /\ \A y \in 1..Len(list) : list'[y] = list[y]
         /\ list'[Len(list) + 1].path = p
         /\ \A y \in 1..Len(list') : y \in 1..Len(list) \/ y = Len(list) + 1
         /\ \A q : q = p \/ Listed(q) => Listed(q)'
<1> DEFINE e == [path |-> p, dir |-> b]
<1>1. list \in Seq(Item) /\ Len(list) \in Nat /\ e \in Item
  BY LenProperties DEF Typed, Item
<1>2. list' = Append(list, e) /\ e.path = p
  BY DEF Appended
<1> HIDE DEF e
<1>3. /\ list' \in Seq(Item) /\ Len(list') = Len(list) + 1
      /\ \A y \in 1..Len(list) : list'[y] = list[y]
      /\ list'[Len(list) + 1] = e
  BY <1>1, <1>2, AppendProperties
<1>4. \A y \in 1..Len(list') : y \in 1..Len(list) \/ y = Len(list) + 1
  BY <1>1, <1>3
<1>5. \A y \in 1..Len(list) : y \in 1..Len(list')
  BY <1>1, <1>3
<1>6. Len(list) + 1 \in 1..Len(list')
  BY <1>1, <1>3
<1> QED
  BY <1>2, <1>3, <1>4, <1>5, <1>6 DEF Listed

ReadOf(q) ==
  /\ stack # <<>>
  /\ q \in Top.opened \cup Children(disk, Top.dir)
  /\ IsPrefix(Top.dir, q) /\ Len(q) = Len(Top.dir) + 1
  /\ stack' \in Seq(FrameSet)
  /\ Len(stack') \in {Len(stack) - 1, Len(stack), Len(stack) + 1}
  /\ \A x \in 1..(Len(stack) - 1) : stack'[x] = stack[x]
  /\ Len(stack') >= Len(stack) => stack'[Len(stack)] = [Top EXCEPT !.seen = @ \cup {q}]
  /\ Len(stack') = Len(stack) + 1 => stack'[Len(stack) + 1] = Frame(q)
  /\ Len(stack') = Len(stack) - 1 => q \in LongPaths
  /\ q \notin LongPaths /\ q \in DOMAIN disk /\ disk[q] = Dir /\ Enters(q)
       => Len(stack') = Len(stack) + 1
  /\ UNCHANGED list \/ Appended(q, FALSE)
  /\ q \notin LongPaths /\ ~(q \in DOMAIN disk /\ disk[q] = Dir) /\ IsFile(q)
       => Appended(q, FALSE)

LEMMA ReadEffect ==
  ASSUME Typed, Walked, ReadDir
  PROVE  \E q \in Known : ReadOf(q)
<1>1. PICK q \in Known :
        /\ stack # <<>>
        /\ q \in Top.opened \cup Children(disk, Top.dir)
        /\ IsPrefix(Top.dir, q) /\ Len(q) = Len(Top.dir) + 1
        /\ LET f == [Top EXCEPT !.seen = @ \cup {q}]
               read == Front(stack) \o <<f>>
           IN \/ q \in LongPaths /\ stack' = Front(stack) /\ UNCHANGED list
              \/ /\ q \notin LongPaths /\ q \in DOMAIN disk /\ disk[q] = Dir /\ Enters(q)
                 /\ stack' = Append(read, Frame(q)) /\ UNCHANGED list
              \/ /\ q \notin LongPaths /\ q \in DOMAIN disk /\ disk[q] = Dir /\ ~Enters(q)
                 /\ stack' = read /\ UNCHANGED list
              \/ /\ q \notin LongPaths /\ ~(q \in DOMAIN disk /\ disk[q] = Dir)
                 /\ stack' = read
                 /\ IF IsFile(q) THEN Appended(q, FALSE) ELSE UNCHANGED list
  BY ReadShape
<1> DEFINE f == [Top EXCEPT !.seen = @ \cup {q}]
           read == Front(stack) \o <<f>>
<1>2. /\ Len(stack) \in Nat \ {0} /\ Top \in FrameSet
      /\ Front(stack) \in Seq(FrameSet) /\ Len(Front(stack)) = Len(stack) - 1
      /\ \A x \in 1..(Len(stack) - 1) : Front(stack)[x] = stack[x]
  BY <1>1, TopProperties
<1>3. f \in FrameSet
  BY <1>2 DEF FrameSet
<1>4. /\ read \in Seq(FrameSet) /\ Len(read) = Len(stack) /\ read[Len(stack)] = f
      /\ \A x \in 1..(Len(stack) - 1) : read[x] = stack[x]
  BY <1>1, <1>3, TopProperties
<1>5. \/ q \in LongPaths /\ stack' = Front(stack) /\ UNCHANGED list
      \/ /\ q \notin LongPaths /\ q \in DOMAIN disk /\ disk[q] = Dir /\ Enters(q)
         /\ stack' = Append(read, Frame(q)) /\ UNCHANGED list
      \/ /\ q \notin LongPaths /\ q \in DOMAIN disk /\ disk[q] = Dir /\ ~Enters(q)
         /\ stack' = read /\ UNCHANGED list
      \/ /\ q \notin LongPaths /\ ~(q \in DOMAIN disk /\ disk[q] = Dir)
         /\ stack' = read
         /\ IF IsFile(q) THEN Appended(q, FALSE) ELSE UNCHANGED list
  BY <1>1
<1>6. Frame(q) \in FrameSet
  BY FrameType
<1>7. f = [Top EXCEPT !.seen = @ \cup {q}]
  OBVIOUS
<1> HIDE DEF read, f
<1>8. CASE q \in LongPaths /\ stack' = Front(stack) /\ UNCHANGED list
  <2>1. ~(Len(stack) - 1 >= Len(stack)) /\ Len(stack) - 1 # Len(stack) + 1
    BY <1>2
  <2> QED
    BY <1>1, <1>2, <1>8, <2>1 DEF ReadOf
<1>9. CASE /\ q \notin LongPaths /\ q \in DOMAIN disk /\ disk[q] = Dir /\ Enters(q)
           /\ stack' = Append(read, Frame(q)) /\ UNCHANGED list
  <2>1. /\ stack' \in Seq(FrameSet) /\ Len(stack') = Len(stack) + 1
        /\ \A x \in 1..Len(stack) : stack'[x] = read[x]
        /\ stack'[Len(stack) + 1] = Frame(q)
    BY <1>4, <1>6, <1>9, AppendProperties
  <2>2. /\ Len(stack) \in 1..Len(stack) /\ Len(stack) + 1 # Len(stack) - 1
        /\ \A x \in 1..(Len(stack) - 1) : x \in 1..Len(stack)
    BY <1>2
  <2> QED
    BY <1>1, <1>4, <1>7, <1>9, <2>1, <2>2 DEF ReadOf
<1>10. CASE /\ q \notin LongPaths /\ stack' = read
            /\ ~(q \in DOMAIN disk /\ disk[q] = Dir /\ Enters(q))
            /\ UNCHANGED list \/ Appended(q, FALSE)
            /\ ~(q \in DOMAIN disk /\ disk[q] = Dir) /\ IsFile(q) => Appended(q, FALSE)
  <2>1. Len(stack) # Len(stack) - 1 /\ Len(stack) # Len(stack) + 1
    BY <1>2
  <2> QED
    BY <1>1, <1>4, <1>7, <1>10, <2>1 DEF ReadOf
<1> QED
  BY <1>5, <1>8, <1>9, <1>10

\* the end of a directory
EndOf ==
  /\ stack # <<>>
  /\ Top.opened \cap Children(disk, Top.dir) \subseteq Top.seen
  /\ stack' \in Seq(FrameSet) /\ Len(stack') = Len(stack) - 1
  /\ \A x \in 1..(Len(stack) - 1) : stack'[x] = stack[x]
  /\ UNCHANGED list \/ Appended(Top.dir, TRUE)
  /\ version >= 3 /\ Top.seen = {} => Appended(Top.dir, TRUE)

LEMMA EndEffect ==
  ASSUME Typed, EndDir
  PROVE  EndOf
<1>1. stack # <<>> /\ stack' = Front(stack)
  BY DEF EndDir
<1> QED
  BY <1>1, TopProperties DEF EndDir, EndOf

\* the next copied path
CopiedOf ==
  /\ i <= Len(copied) /\ i' = i + 1 /\ UNCHANGED pc
  /\ UNCHANGED list \/ (copied[i] \in Known /\ Appended(copied[i], FALSE))
  /\ IsFile(copied[i]) => Appended(copied[i], FALSE)
  /\ \/ stack' = <<>>
     \/ /\ stack' = <<Frame(copied[i])>>
        /\ copied[i] \in Known /\ version > 1
  /\ version > 1 /\ copied[i] \in DOMAIN disk /\ disk[copied[i]] = Dir /\ Enters(copied[i])
       => stack' = <<Frame(copied[i])>>

LEMMA CopiedEffect ==
  ASSUME Typed, NextCopied
  PROVE  /\ pc = "copied" /\ stack = <<>>
         /\ \/ /\ i > Len(copied) \/ copied[i] \in Undecodable
               /\ pc' = "reply" /\ i' = 1 /\ UNCHANGED <<stack, list>>
            \/ CopiedOf
<1>1. pc = "copied" /\ stack = <<>>
  BY DEF NextCopied
<1>2. CASE i > Len(copied) \/ copied[i] \in Undecodable
  BY <1>1, <1>2 DEF NextCopied, Goto
<1>3. CASE ~(i > Len(copied) \/ copied[i] \in Undecodable)
  <2>1. Len(copied) \in Nat /\ i \in Nat
    BY Paths DEF Typed
  <2>2. i <= Len(copied)
    BY <1>3, <2>1
  <2>3. DOMAIN disk \subseteq Known
    BY DEF Typed
  <2>4. /\ i' = i + 1 /\ UNCHANGED pc
        /\ IF IsFile(copied[i]) THEN Appended(copied[i], FALSE) ELSE UNCHANGED list
        /\ IF version > 1 /\ copied[i] \in DOMAIN disk /\ IsDir(disk, copied[i])
              /\ Enters(copied[i])
           THEN stack' = <<Frame(copied[i])>>
           ELSE UNCHANGED stack
    BY <1>3 DEF NextCopied
  <2>5. copied[i] \in DOMAIN disk /\ disk[copied[i]] = Dir => IsDir(disk, copied[i])
    BY DEF IsDir
  <2>6. IsFile(copied[i]) => copied[i] \in Known
    BY <2>3 DEF IsFile
  <2>7. \/ stack' = <<>>
        \/ stack' = <<Frame(copied[i])>> /\ copied[i] \in Known /\ version > 1
    BY <1>1, <2>3, <2>4
  <2>8. UNCHANGED list \/ (copied[i] \in Known /\ Appended(copied[i], FALSE))
    BY <2>4, <2>6
  <2>9. IsFile(copied[i]) => Appended(copied[i], FALSE)
    BY <2>4
  <2>10. version > 1 /\ copied[i] \in DOMAIN disk /\ disk[copied[i]] = Dir /\ Enters(copied[i])
           => stack' = <<Frame(copied[i])>>
    BY <2>4, <2>5
  <2>11. CopiedOf
    BY <2>2, <2>4, <2>7, <2>8, <2>9, <2>10 DEF CopiedOf
  <2> QED
    BY <1>1, <2>11
<1> QED
  BY <1>1, <1>2, <1>3

-----------------------------------------------------------------------------
(* The walk.                                                               *)

WalkStep == NextCopied \/ ReadDir \/ EndDir

LEMMA WalkKeeps ==
  ASSUME Placed, WalkStep
  PROVE  /\ UNCHANGED <<others, asked, reply, count, sent, file, pos, rest>>
         /\ pc = "copied" /\ (~NextCopied => UNCHANGED <<pc, i>>)
BY DEF WalkStep, NextCopied, ReadDir, EndDir, Placed

LEMMA WalkTyped ==
  ASSUME Typed, Placed, Walked, WalkStep
  PROVE  Typed'
<1>1. /\ UNCHANGED <<disk, size, changes, version, copied, count, pos, rest>>
      /\ pc = "copied"
  BY WalkKeeps DEF others, asked
<1>2. SUFFICES /\ pc' \in {"copied", "reply"} /\ i' \in Nat \ {0}
               /\ stack' \in Seq(FrameSet) /\ list' \in Seq(Item)
  BY <1>1 DEF Typed, Inode
<1>3. i \in Nat \ {0} /\ list \in Seq(Item) /\ stack \in Seq(FrameSet)
  BY DEF Typed
<1>4. CASE NextCopied
  <2>1. CASE pc' = "reply" /\ i' = 1 /\ UNCHANGED <<stack, list>>
    BY <1>3, <2>1
  <2>2. CASE CopiedOf
    <3>1. pc' = "copied" /\ i' \in Nat \ {0}
      BY <1>1, <1>3, <2>2 DEF CopiedOf
    <3>2. list' \in Seq(Item)
      BY <1>3, <2>2, AppendedList DEF CopiedOf
    <3>3. stack' \in Seq(FrameSet)
      <4>1. CASE stack' = <<>>
        BY <4>1, EmptySeq
      <4>2. CASE stack' = <<Frame(copied[i])>> /\ copied[i] \in Known
        <5>1. Frame(copied[i]) \in FrameSet
          BY <4>2, FrameType
        <5> HIDE DEF Frame
        <5> QED
          BY <4>2, <5>1
      <4> QED
        BY <2>2, <4>1, <4>2 DEF CopiedOf
    <3> QED
      BY <3>1, <3>2, <3>3
  <2> QED
    BY <1>4, <2>1, <2>2, CopiedEffect
<1>5. CASE ReadDir
  <2>1. PICK q \in Known : ReadOf(q)
    BY <1>5, ReadEffect
  <2>2. list' \in Seq(Item)
    BY <1>3, <2>1, AppendedList DEF ReadOf
  <2> QED
    BY <1>1, <1>3, <1>5, <2>1, <2>2 DEF ReadOf, ReadDir
<1>6. CASE EndDir
  <2>1. EndOf
    BY <1>6, EndEffect
  <2>2. Top.dir \in Known
    BY <2>1, TopProperties DEF EndOf, FrameSet
  <2>3. list' \in Seq(Item)
    BY <1>3, <2>1, <2>2, AppendedList DEF EndOf
  <2> QED
    BY <1>1, <1>3, <1>6, <2>1, <2>3 DEF EndOf, EndDir
<1> QED
  BY <1>4, <1>5, <1>6 DEF WalkStep

\* nothing is sent before the list is complete
LEMMA WalkPlaced ==
  ASSUME Typed, Placed, AsListed, Walked, WalkStep
  PROVE  Placed' /\ AsListed' /\ (Measured => Measured')
<1>1. UNCHANGED <<count, sent>> /\ pc = "copied"
  BY WalkKeeps
<1>2. sent = <<>> /\ count = 0 /\ Len(<<>>) = 0
  BY <1>1 DEF Placed
<1>3. \/ pc' = "copied"
      \/ pc' = "reply" /\ i' = 1 /\ stack' = <<>>
  BY <1>1, WalkKeeps, CopiedEffect DEF CopiedOf
<1>4. Placed'
  BY <1>1, <1>2, <1>3 DEF Placed
<1>5. AsListed'
  <2>1. Len(list') \in Nat
    BY WalkTyped, LenProperties DEF Typed
  <2> QED
    BY <1>1, <1>2, <2>1 DEF AsListed
<1>6. Measured'
  BY <1>1, <1>2, <1>3 DEF Measured
<1> QED
  BY <1>4, <1>5, <1>6

LEMMA FromBelow ==
  ASSUME Typed, NEW d \in Known, NEW q \in Known, From(d), IsPrefix(d, q), version > 1
  PROVE  From(q)
<1>1. PICK x \in 1..Len(copied) : copied[x] \in Known /\ IsPrefix(copied[x], d)
  BY DEF From
<1>2. IsPrefix(copied[x], q)
  BY <1>1, Paths, PrefixTransitive
<1> QED
  BY <1>1, <1>2 DEF From

LEMMA FromCopied ==
  ASSUME Typed, NEW x \in 1..Len(copied), copied[x] \in Known
  PROVE  From(copied[x])
<1>1. IsPrefix(copied[x], copied[x])
  BY Paths, PrefixRefl
<1> QED
  BY <1>1 DEF From

\* a list that grows by a path of the walk
LEMMA ListWalked ==
  ASSUME Typed, Walked, UNCHANGED asked,
         \/ UNCHANGED list
         \/ \E p \in Known, b \in BOOLEAN : From(p) /\ Appended(p, b)
  PROVE  \A y \in 1..Len(list') : From(list'[y].path)
<1>1. \A y \in 1..Len(list) : From(list[y].path)
  BY DEF Walked
<1>2. CASE UNCHANGED list
  BY <1>1, <1>2
<1>3. ASSUME NEW p \in Known, NEW b \in BOOLEAN, From(p), Appended(p, b)
      PROVE  \A y \in 1..Len(list') : From(list'[y].path)
  BY <1>1, <1>3, AppendedList
<1> QED
  BY <1>2, <1>3

LEMMA WalkWalked ==
  ASSUME Typed, Placed, Walked, Deep, WalkStep
  PROVE  Walked' /\ Deep'
<1>1. UNCHANGED <<version, copied, asked>> /\ pc = "copied"
  BY WalkKeeps DEF asked
<1>2. \A p : From(p)' <=> From(p)
  BY <1>1 DEF From
<1>3. SUFFICES
        /\ \A x \in 1..Len(stack') : FrameFrom(stack'[x])
        /\ \A y \in 1..Len(list') : From(list'[y].path)
        /\ stack' # <<>> =>
             /\ i' > 1 /\ i' - 1 <= Len(copied)
             /\ \A x \in 1..Len(stack') :
                  /\ IsPrefix(copied[i' - 1], stack'[x].dir)
                  /\ Len(stack'[x].dir) = Len(copied[i' - 1]) + x - 1
  BY <1>1, <1>2 DEF Walked, Deep, FrameFrom, From
<1>4. CASE NextCopied
  <2>1. CASE UNCHANGED <<stack, list>>
    <3>1. stack' = <<>> /\ Len(<<>>) = 0
      BY <1>4, <2>1, CopiedEffect
    <3> QED
      BY <2>1, <3>1 DEF Walked
  <2>2. CASE CopiedOf
    <3>1. i \in 1..Len(copied) /\ i' = i + 1 /\ i' - 1 = i /\ i' > 1
      BY <2>2, Paths DEF CopiedOf, Typed
    <3>2. \A y \in 1..Len(list') : From(list'[y].path)
      BY <1>1, <2>2, <3>1, FromCopied, ListWalked DEF CopiedOf
    <3>3. CASE stack' = <<>>
      <4>1. Len(<<>>) = 0
        OBVIOUS
      <4> QED
        BY <3>2, <3>3, <4>1
    <3>4. CASE stack' = <<Frame(copied[i])>> /\ copied[i] \in Known /\ version > 1
      <4>1. Len(stack') = 1 /\ stack'[1] = Frame(copied[i])
        BY <3>4
      <4>2. /\ Frame(copied[i]).dir = copied[i]
            /\ Frame(copied[i]).opened = Children(disk, copied[i])
            /\ \A q \in Children(disk, copied[i]) :
                 IsPrefix(copied[i], q) /\ Len(q) = Len(copied[i]) + 1
        BY <3>4, FrameType
      <4>3. FrameFrom(stack'[1])
        BY <3>1, <3>4, <4>1, <4>2, FromCopied DEF FrameFrom
      <4>4. IsPrefix(copied[i], copied[i]) /\ Len(copied[i]) = Len(copied[i]) + 1 - 1
        BY <3>4, Paths, PrefixRefl
      <4> QED
        BY <3>1, <3>2, <4>1, <4>2, <4>3, <4>4
    <3> QED
      BY <2>2, <3>3, <3>4 DEF CopiedOf
  <2> QED
    BY <1>4, <2>1, <2>2, CopiedEffect
<1>5. ASSUME stack # <<>>, UNCHANGED i
      PROVE  /\ i' > 1 /\ i' - 1 <= Len(copied) /\ i' - 1 \in 1..Len(copied)
             /\ \A x \in 1..Len(stack) :
                  /\ FrameFrom(stack[x])
                  /\ IsPrefix(copied[i' - 1], stack[x].dir)
                  /\ Len(stack[x].dir) = Len(copied[i' - 1]) + x - 1
  BY <1>5, Paths DEF Deep, Walked, Typed
<1>6. CASE EndDir
  <2>1. EndOf /\ UNCHANGED i
    BY <1>6, EndEffect DEF EndDir
  <2>2. /\ Top \in FrameSet /\ Top = stack[Len(stack)] /\ Len(stack) \in Nat \ {0}
    BY <2>1, TopProperties DEF EndOf
  <2>3. From(Top.dir) /\ Top.dir \in Known
    BY <2>2 DEF Walked, FrameFrom, FrameSet
  <2>4. \A y \in 1..Len(list') : From(list'[y].path)
    BY <1>1, <2>1, <2>3, ListWalked DEF EndOf
  <2>5. \A x \in 1..Len(stack') : x \in 1..Len(stack) /\ stack'[x] = stack[x]
    BY <2>1, <2>2 DEF EndOf
  <2> QED
    BY <1>5, <2>1, <2>4, <2>5 DEF EndOf
<1>7. CASE ReadDir
  <2>1. UNCHANGED i /\ stack # <<>>
    BY <1>7 DEF ReadDir
  <2>2. PICK q \in Known : ReadOf(q)
    BY <1>7, ReadEffect
  <2>3. /\ Top \in FrameSet /\ Top = stack[Len(stack)] /\ Len(stack) \in Nat \ {0}
        /\ Len(stack) \in 1..Len(stack)
    BY <2>1, TopProperties
  <2>4. FrameFrom(Top) /\ Top.dir \in Known /\ From(Top.dir) /\ version > 1
    BY <2>3 DEF Walked, FrameFrom, FrameSet
  <2>5. /\ IsPrefix(Top.dir, q) /\ Len(q) = Len(Top.dir) + 1 /\ From(q)
    BY <2>2, <2>4, FromBelow DEF ReadOf
  <2>6. \A y \in 1..Len(list') : From(list'[y].path)
    BY <1>1, <2>2, <2>5, ListWalked DEF ReadOf
  <2> DEFINE c == copied[i' - 1]
  <2>7. /\ IsPrefix(c, Top.dir) /\ Len(Top.dir) = Len(c) + Len(stack) - 1
        /\ c \in Seq(Name) /\ Len(c) \in Nat
    BY <1>5, <2>1, <2>3, Paths DEF Typed
  <2>8. IsPrefix(c, q) /\ Len(q) = Len(c) + (Len(stack) + 1) - 1
    BY <2>3, <2>4, <2>5, <2>7, Paths, PrefixTransitive
  <2>9. FrameFrom(Frame(q)) /\ Frame(q).dir = q
    BY <2>4, <2>5, FrameType DEF FrameFrom
  <2>10. /\ [Top EXCEPT !.seen = @ \cup {q}].dir = Top.dir
         /\ FrameFrom([Top EXCEPT !.seen = @ \cup {q}])
    BY <2>3, <2>4 DEF FrameFrom, FrameSet
  <2> HIDE DEF c
  <2>11. ASSUME NEW x \in 1..Len(stack')
         PROVE  /\ FrameFrom(stack'[x]) /\ IsPrefix(c, stack'[x].dir)
                /\ Len(stack'[x].dir) = Len(c) + x - 1
    <3>1. \/ x \in 1..(Len(stack) - 1) /\ x \in 1..Len(stack)
          \/ x = Len(stack) /\ Len(stack') >= Len(stack)
          \/ x = Len(stack) + 1 /\ Len(stack') = Len(stack) + 1
      BY <2>2, <2>3 DEF ReadOf
    <3>2. CASE x \in 1..(Len(stack) - 1) /\ x \in 1..Len(stack)
      BY <1>5, <2>1, <2>2, <3>2 DEF ReadOf, c
    <3>3. CASE x = Len(stack) /\ Len(stack') >= Len(stack)
      BY <2>2, <2>7, <2>10, <3>3 DEF ReadOf
    <3>4. CASE x = Len(stack) + 1 /\ Len(stack') = Len(stack) + 1
      BY <2>2, <2>8, <2>9, <3>4 DEF ReadOf
    <3> QED
      BY <3>1, <3>2, <3>3, <3>4
  <2> QED
    BY <1>5, <2>1, <2>6, <2>11 DEF c
<1> QED
  BY <1>4, <1>6, <1>7 DEF WalkStep

\* What the walk has come to stays in the list, and what it has to come to
\* is not lost.
LEMMA WalkReached ==
  ASSUME Typed, Placed, Walked, Deep, Alive, Reached, WalkStep
  PROVE  Reached'
<1>1. /\ UNCHANGED <<disk, size, touched, version, copied>>
      /\ pc = "copied"
  BY WalkKeeps DEF others, asked
<1>2. /\ Typed' /\ Walked' /\ Deep'
  BY WalkTyped, WalkWalked
<1>3. SUFFICES ASSUME NEW p \in DOMAIN Tree, NEW x \in Decoded, Due(x, p)
               PROVE  IF pc' = "copied"
                      THEN x < i' => Listed(p)' \/ (x = i' - 1 /\ Pending(p)')
                      ELSE Listed(p)'
  BY <1>1 DEF Reached, Due, Wanted, Stays, Decoded
<1>4. x < i => Listed(p) \/ (x = i - 1 /\ Pending(p))
  BY <1>1, <1>3 DEF Reached
<1>5. /\ x \in 1..Len(copied) /\ Len(copied) \in Nat /\ i \in Nat \ {0}
      /\ p \in Known /\ p \in Seq(Name) /\ Len(p) \in Nat
      /\ copied[x] \in Seq(Name) /\ Len(copied[x]) \in Nat
  BY Paths DEF Decoded, Typed, Known
<1>6. /\ Stays(p) /\ ~CutShort(p) /\ p \notin LongPaths
      /\ p \in DOMAIN disk /\ disk[p] = Tree[p]
      /\ Tree[p] # Dir => FileIn(p) \in DOMAIN size /\ Tree[p] = FileIn(p)
      /\ Empty(p) => Children(disk, p) = {}
  BY <1>3, DownloadAssumption DEF Due, Alive
<1>7. IsFile(p) <=> Tree[p] \in DOMAIN size
  BY <1>6 DEF IsFile
<1>8. \A y \in 1..Len(stack') : PendingIn(stack'[y], p) => Pending(p)'
  BY <1>1 DEF Pending, PendingIn, Empty
<1>9. CASE EndDir
  <2>1. EndOf /\ UNCHANGED <<pc, i>>
    BY <1>9, EndEffect DEF EndDir
  <2>2. Top \in FrameSet /\ Top = stack[Len(stack)] /\ Len(stack) \in Nat \ {0}
    BY <2>1, TopProperties DEF EndOf
  <2>3. Top.dir \in Known
    BY <2>2 DEF FrameSet
  <2>4. Listed(p) => Listed(p)'
    BY <2>1, <2>3, AppendedList DEF EndOf, Listed
  <2>5. ASSUME x = i - 1, Pending(p)
        PROVE  Listed(p)' \/ Pending(p)'
    <3>1. PICK y \in 1..Len(stack) : PendingIn(stack[y], p)
      BY <2>5 DEF Pending
    <3>2. CASE y < Len(stack)
      <4>1. y \in 1..(Len(stack) - 1) /\ y \in 1..Len(stack')
        BY <2>1, <2>2, <3>2 DEF EndOf
      <4>2. stack'[y] = stack[y] /\ stack' \in Seq(FrameSet)
        BY <2>1, <4>1 DEF EndOf
      <4> QED
        BY <1>8, <3>1, <4>1, <4>2
    <3>3. CASE y = Len(stack)
      <4>1. PendingIn(Top, p)
        BY <2>2, <3>1, <3>3
      <4>2. CASE Top.dir = p
        <5>1. Empty(p) /\ Top.seen = {}
          BY <4>1, <4>2 DEF PendingIn
        <5>2. version >= 3
          <6>1. Tree[p] = Dir /\ version \in 1..4
            BY <5>1, DownloadAssumption DEF Empty, Typed
          <6> QED
            BY <1>3, <6>1 DEF Due, Wanted
        <5> QED
          BY <2>1, <2>3, <4>2, <5>1, <5>2, AppendedList DEF EndOf
      <4>3. CASE Top.dir # p
        <5>1. Toward(Top.dir, p) \in Top.opened \ Top.seen /\ IsPrefix(Top.dir, p)
          BY <4>1, <4>3 DEF PendingIn
        <5>2. Toward(Top.dir, p) \in Children(disk, Top.dir)
          BY <1>6, <2>3, <4>3, <5>1, WayOn
        <5> QED
          BY <2>1, <5>1, <5>2 DEF EndOf
      <4> QED
        BY <4>2, <4>3
    <3> QED
      BY <2>2, <3>2, <3>3
  <2> QED
    BY <1>1, <1>4, <2>1, <2>4, <2>5
<1>10. CASE ReadDir
  <2>1. UNCHANGED <<pc, i>> /\ stack # <<>>
    BY <1>10 DEF ReadDir
  <2>2. PICK q \in Known : ReadOf(q)
    BY <1>10, ReadEffect
  <2>3. Top \in FrameSet /\ Top = stack[Len(stack)] /\ Len(stack) \in Nat \ {0}
        /\ Len(stack) \in 1..Len(stack)
    BY <2>1, TopProperties
  <2>4. /\ Top.dir \in Known /\ Top.dir \in Seq(Name) /\ Len(Top.dir) \in Nat
        /\ q \in Seq(Name) /\ Len(q) \in Nat
    BY <2>3, Paths DEF FrameSet
  <2>5. Listed(p) => Listed(p)'
    BY <2>2, AppendedList DEF ReadOf, Listed
  <2>6. ASSUME x = i - 1, Pending(p)
        PROVE  Listed(p)' \/ Pending(p)'
    <3>1. PICK y \in 1..Len(stack) : PendingIn(stack[y], p)
      BY <2>6 DEF Pending
    <3>2. Len(stack') \in Nat /\ Len(stack') >= Len(stack) - 1 /\ stack' \in Seq(FrameSet)
      BY <2>2, <2>3 DEF ReadOf
    <3>3. CASE y < Len(stack)
      <4>1. y \in 1..(Len(stack) - 1) /\ y \in 1..Len(stack')
        BY <2>3, <3>2, <3>3
      <4>2. stack'[y] = stack[y]
        BY <2>2, <4>1 DEF ReadOf
      <4> QED
        BY <1>8, <3>1, <3>2, <4>1, <4>2
    <3>4. CASE y = Len(stack)
      <4>1. PendingIn(Top, p)
        BY <2>3, <3>1, <3>4
      <4>2. Top.dir # p
        <5>1. CASE Top.dir = p
          <6>1. Empty(p) /\ Top.opened = {} /\ Children(disk, p) = {}
            BY <1>6, <4>1, <5>1 DEF PendingIn
          <6> QED
            BY <2>2, <5>1, <6>1 DEF ReadOf
        <5> QED
          BY <5>1
      <4> DEFINE t == Toward(Top.dir, p)
      <4>3. t \in Top.opened \ Top.seen /\ IsPrefix(Top.dir, p)
        BY <4>1, <4>2 DEF PendingIn
      <4>4. /\ t \in DOMAIN disk /\ t \in Known /\ IsPrefix(t, p)
            /\ Len(t) = Len(Top.dir) + 1 /\ (t = p \/ disk[t] = Dir)
        BY <1>6, <2>4, <4>2, <4>3, WayOn
      <4>5. q \notin LongPaths
        BY <1>6, <2>2, <2>4, <4>3, NotLong DEF ReadOf
      <4>6. Len(stack') >= Len(stack)
        BY <2>2, <2>3, <4>5 DEF ReadOf
      <4>7. CASE q # t
        <5>1. stack'[Len(stack)] = [Top EXCEPT !.seen = @ \cup {q}]
          BY <2>2, <4>6 DEF ReadOf
        <5>2. /\ stack'[Len(stack)].dir = Top.dir
              /\ stack'[Len(stack)].opened = Top.opened
              /\ stack'[Len(stack)].seen = Top.seen \cup {q}
          BY <2>3, <5>1 DEF FrameSet
        <5>3. PendingIn(stack'[Len(stack)], p)
          BY <4>2, <4>3, <4>7, <5>2 DEF PendingIn
        <5>4. Len(stack) \in 1..Len(stack')
          BY <2>3, <3>2, <4>6
        <5> QED
          BY <1>8, <3>2, <5>3, <5>4
      <4>8. CASE q = t
        <5>1. /\ x = i - 1 /\ i - 1 <= Len(copied)
              /\ IsPrefix(copied[x], Top.dir)
              /\ Len(Top.dir) = Len(copied[x]) + Len(stack) - 1
          BY <2>1, <2>3, <2>6 DEF Deep
        <5>2. copied[x] # p
          BY <1>5, <2>3, <2>4, <4>2, <4>3, <5>1, PrefixEqual
        <5>3. /\ version > 1
              /\ Tree[p] = Dir =>
                   Empty(p) /\ version >= 3 /\ Len(p) - Len(copied[x]) < MaxDepth
              /\ Len(p) - Len(copied[x]) <= MaxDepth
          BY <1>3, <1>5, <5>2, DueDeep
        <5>4. Len(t) = Len(copied[x]) + Len(stack)
          BY <1>5, <2>3, <4>4, <5>1
        <5>5. CASE t = p /\ Tree[p] # Dir
          <6>1. Appended(q, FALSE)
            BY <1>6, <1>7, <2>2, <4>5, <4>8, <5>5 DEF ReadOf
          <6> QED
            BY <4>8, <5>5, <6>1, AppendedList
        <5>6. CASE disk[t] = Dir /\ (t = p => Empty(p))
          <6>1. Len(stack) + 1 <= MaxDepth
            <7>1. MaxDepth \in Nat
              BY DownloadAssumption
            <7>2. CASE t = p
              BY <1>5, <2>3, <5>3, <5>4, <5>6, <7>1, <7>2 DEF Empty
            <7>3. CASE t # p
              <8>1. Len(t) < Len(p)
                BY <1>5, <2>4, <4>4, <4>8, <7>3, PrefixEqual
              <8> QED
                BY <1>5, <2>3, <5>3, <5>4, <7>1, <8>1
            <7> QED
              BY <7>2, <7>3
          <6>2. Enters(q)
            BY <4>5, <6>1 DEF Enters
          <6>3. Len(stack') = Len(stack) + 1
            BY <2>2, <4>4, <4>5, <4>8, <5>6, <6>2 DEF ReadOf
          <6>4. stack'[Len(stack) + 1] = Frame(q)
            BY <2>2, <6>3 DEF ReadOf
          <6>5. PendingIn(Frame(q), p)
            BY <1>6, <4>4, <4>8, <5>6, NewFrame
          <6>6. Len(stack) + 1 \in 1..Len(stack')
            BY <2>3, <6>3
          <6> QED
            BY <1>8, <3>2, <6>4, <6>5, <6>6
        <5> QED
          BY <1>6, <4>4, <5>3, <5>5, <5>6
      <4> QED
        BY <4>7, <4>8
    <3> QED
      BY <2>3, <3>3, <3>4
  <2> QED
    BY <1>1, <1>4, <2>1, <2>5, <2>6
<1>11. CASE NextCopied
  <2>1. stack = <<>>
    BY <1>11, CopiedEffect
  <2>2. ~Pending(p)
    <3>1. Len(<<>>) = 0
      OBVIOUS
    <3> QED
      BY <2>1, <3>1 DEF Pending
  <2>3. x < i => Listed(p)
    BY <1>4, <2>2
  <2>4. CASE /\ i > Len(copied) \/ copied[i] \in Undecodable
             /\ pc' = "reply" /\ i' = 1 /\ UNCHANGED <<stack, list>>
    <3>1. x < i
      <4>1. \A y \in 1..x : copied[y] \notin Undecodable
        BY DEF Decoded
      <4>2. CASE i > Len(copied)
        BY <1>5, <4>2
      <4>3. CASE copied[i] \in Undecodable
        <5>1. i \notin 1..x
          BY <4>1, <4>3
        <5> QED
          BY <1>5, <5>1
      <4> QED
        BY <2>4, <4>2, <4>3
    <3> QED
      BY <2>3, <2>4, <3>1 DEF Listed
  <2>5. CASE CopiedOf
    <3>1. i' = i + 1 /\ UNCHANGED pc
      BY <2>5 DEF CopiedOf
    <3>2. Listed(p) => Listed(p)'
      BY <2>5, AppendedList DEF CopiedOf, Listed
    <3>3. CASE x = i
      <4> DEFINE c == copied[i]
      <4>1. c \in Seq(Name) /\ Len(c) \in Nat /\ Len(c) > 0 /\ IsPrefix(c, p)
        <5>1. c = p \/ IsPrefix(c, p)
          BY <1>3, <3>3, <1>5, DueDeep
        <5>2. Len(c) > 0
          BY <1>5, <3>3, Paths DEF Typed
        <5> QED
          BY <1>5, <3>3, <5>1, <5>2, PrefixRefl
      <4>2. CASE c = p /\ Tree[p] # Dir
        <5>1. Appended(p, FALSE)
          BY <1>6, <1>7, <2>5, <4>2 DEF CopiedOf
        <5> QED
          BY <1>1, <1>5, <3>1, <5>1, AppendedList
      <4>3. CASE c # p \/ Tree[p] = Dir
        <5>1. version > 1 /\ (c = p => Empty(p))
          <6>1. CASE c = p
            <7>1. version \in 1..4
              BY DownloadAssumption DEF Typed
            <7> QED
              BY <1>3, <3>3, <4>3, <6>1, <7>1 DEF Due, Wanted, Empty
          <6>2. CASE c # p
            BY <1>3, <1>5, <3>3, <6>2, DueDeep
          <6> QED
            BY <6>1, <6>2
        <5>2. c \in Known /\ c \in DOMAIN disk /\ disk[c] = Dir
          <6>1. CASE c = p
            BY <1>5, <1>6, <4>3, <6>1
          <6>2. CASE c # p
            <7>1. c \in Path(p) \ {p}
              <8>1. c = SubSeq(p, 1, Len(c)) /\ Len(c) \in 1..Len(p)
                <9>1. /\ Len(c) \in 0..Len(p) /\ Len(c) \in 1..Len(p)
                      /\ \A j \in 1..Len(c) : c[j] = p[j]
                  BY <1>5, <4>1, PrefixIff
                <9> DEFINE a == SubSeq(p, 1, Len(c))
                <9>2. a \in Seq(Name) /\ Len(a) = Len(c) /\ \A j \in 1..Len(c) : a[j] = p[j]
                  BY <1>5, <9>1, FirstNames
                <9> HIDE DEF a
                <9>3. c = a
                  BY <4>1, <9>1, <9>2, SeqEqual
                <9> QED
                  BY <9>1, <9>3 DEF a
              <8> QED
                BY <6>2, <8>1 DEF Path
            <7>2. c \in DOMAIN disk /\ disk[c] = Dir
              BY <1>6, <7>1 DEF Alive
            <7> QED
              BY <7>2 DEF Typed
          <6> QED
            BY <6>1, <6>2
        <5>3. Enters(c)
          <6>1. c \notin LongPaths
            <7>1. CASE c = p
              BY <1>6, <7>1
            <7>2. CASE c # p
              <8>1. Front(c) \in Seq(Name) /\ IsPrefix(Front(c), c)
                BY <4>1, FrontProperties
              <8>2. IsPrefix(Front(c), p)
                BY <1>5, <4>1, <8>1, PrefixTransitive
              <8> QED
                BY <1>6, <7>2, <8>2 DEF CutShort
            <7> QED
              BY <7>1, <7>2
          <6>2. Len(stack) + 1 <= MaxDepth
            <7>1. Len(stack) = 0
              BY <2>1
            <7> QED
              BY <7>1, DownloadAssumption
          <6> QED
            BY <6>1, <6>2 DEF Enters
        <5>4. stack' = <<Frame(c)>>
          BY <2>5, <5>1, <5>2, <5>3 DEF CopiedOf
        <5>5. PendingIn(Frame(c), p)
          BY <1>6, <4>1, <5>1, <5>2, NewFrame
        <5>6. Len(stack') = 1 /\ stack'[1] = Frame(c) /\ stack' \in Seq(FrameSet)
          BY <1>2, <5>4 DEF Typed
        <5>7. Pending(p)'
          BY <1>8, <5>5, <5>6
        <5> QED
          BY <1>1, <1>5, <3>1, <3>3, <5>7
      <4> QED
        BY <4>2, <4>3
    <3>4. CASE x < i
      BY <1>1, <2>3, <3>1, <3>2, <3>4
    <3> QED
      BY <1>1, <1>5, <3>1, <3>3, <3>4
  <2> QED
    BY <1>11, <2>4, <2>5, CopiedEffect
<1> QED
  BY <1>9, <1>10, <1>11 DEF WalkStep

-----------------------------------------------------------------------------
(* The answer.                                                             *)

AnswerStep == Reply \/ NextFile \/ SendChunk \/ FileSent \/ AllSent \/ WriteFails

\* The tree and the list stay as they are.
LEMMA AnswerKeeps ==
  ASSUME Typed, Placed, AnswerStep
  PROVE  /\ UNCHANGED <<disk, size, touched, changes, version, copied, stack, list>>
         /\ pc \in {"reply", "file", "data"} /\ stack = <<>>
         /\ pc' \in {"file", "data", "done", "failed"}
<1>1. UNCHANGED <<others, asked, stack, list>>
  BY DEF AnswerStep, Reply, NextFile, SendChunk, FileSent, AllSent, WriteFails
<1>2. pc \in {"reply", "file", "data"}
  BY DEF AnswerStep, Reply, NextFile, SendChunk, FileSent, AllSent, WriteFails
<1>3. pc' \in {"file", "data", "done", "failed"}
  BY DEF AnswerStep, Reply, NextFile, SendChunk, FileSent, AllSent, WriteFails, Goto
<1>4. stack = <<>>
  BY <1>2 DEF Placed
<1> QED
  BY <1>1, <1>2, <1>3, <1>4 DEF others, asked

LEMMA AnswerReached ==
  ASSUME Typed, Placed, Walked, Alive, Reached, AnswerStep
  PROVE  Walked' /\ Deep' /\ Alive' /\ Reached'
<1>1. /\ UNCHANGED <<disk, size, touched, version, copied, stack, list>>
      /\ pc # "copied" /\ pc' # "copied" /\ stack = <<>>
  BY AnswerKeeps
<1>2. Walked'
  BY <1>1 DEF Walked, FrameFrom, From
<1>3. Deep'
  BY <1>1 DEF Deep
<1>4. Alive'
  BY <1>1 DEF Alive, Stays, Empty, Children, Below
<1>5. Reached'
  BY <1>1 DEF Reached, Due, Wanted, Stays, Decoded, Listed
<1> QED
  BY <1>2, <1>3, <1>4, <1>5

\* What NextFile does: the next file of the list is announced, or the session
\* gives up.
Announces(item, name, n) ==
  sent' = Append(sent, [path |-> item.path, name |-> name, size |-> n, data |-> 0])

LEMMA NextFileCases ==
  ASSUME Typed, Placed, NextFile
  PROVE  /\ pc = "file" /\ i \in 1..Len(list) /\ list[i] \in Item /\ UNCHANGED count
         /\ \/ \E name \in Names(list[i].path) :
                 /\ name # <<>> /\ Announces(list[i], name, -1)
                 /\ i' = i + 1 /\ UNCHANGED <<pc, file, pos, rest>>
            \/ \E name \in Names(list[i].path) : \E f \in DOMAIN size :
                 /\ name # <<>> /\ Announces(list[i], name, size[f])
                 /\ file' = f /\ pos' = 0 /\ rest' = size[f]
                 /\ pc' = "data" /\ UNCHANGED i
            \/ pc' = "failed" /\ UNCHANGED <<i, sent, file, pos, rest>>
<1>1. /\ pc = "file" /\ i <= Len(list) /\ list \in Seq(Item) /\ i \in Nat \ {0}
  BY DEF NextFile, Typed
<1>2. i \in 1..Len(list) /\ list[i] \in Item
  BY <1>1, LenProperties, ElementOfSeq
<1> DEFINE p == list[i].path
           announced(name, n) == [path |-> p, name |-> name, size |-> n, data |-> 0]
<1>3. PICK name \in Names(p) :
        \/ /\ list[i].dir /\ name # <<>>
           /\ sent' = Append(sent, announced(name, -1))
           /\ i' = i + 1
           /\ UNCHANGED <<pc, file, pos, rest>>
        \/ /\ ~list[i].dir /\ name # <<>> /\ IsFile(p)
           /\ size[disk[p]] <= MaxFileSize
           /\ sent' = Append(sent, announced(name, size[disk[p]]))
           /\ file' = disk[p] /\ pos' = 0 /\ rest' = size[disk[p]]
           /\ Goto("data")
           /\ UNCHANGED i
        \/ Goto("failed") /\ UNCHANGED <<i, sent, file, pos, rest>>
  BY DEF NextFile
<1>4. CASE /\ list[i].dir /\ name # <<>>
           /\ sent' = Append(sent, announced(name, -1))
           /\ i' = i + 1
           /\ UNCHANGED <<pc, file, pos, rest>>
  BY <1>1, <1>2, <1>4 DEF Announces, NextFile
<1>5. CASE /\ ~list[i].dir /\ name # <<>> /\ IsFile(p)
           /\ size[disk[p]] <= MaxFileSize
           /\ sent' = Append(sent, announced(name, size[disk[p]]))
           /\ file' = disk[p] /\ pos' = 0 /\ rest' = size[disk[p]]
           /\ Goto("data")
           /\ UNCHANGED i
  <2>1. disk[p] \in DOMAIN size
    BY <1>5 DEF IsFile
  <2> QED
    BY <1>1, <1>2, <1>5, <2>1 DEF Announces, Goto, NextFile
<1>6. CASE Goto("failed") /\ UNCHANGED <<i, sent, file, pos, rest>>
  BY <1>1, <1>2, <1>6 DEF Goto, NextFile
<1> QED
  BY <1>3, <1>4, <1>5, <1>6

\* an element that is appended to sent
LEMMA AnnouncedSent ==
  ASSUME Typed, AsListed, UNCHANGED <<version, copied, list>>,
         Len(sent) = i - 1, i \in 1..Len(list), NEW name \in Names(list[i].path), name # <<>>,
         NEW n \in Nat \cup {-1}, Announces(list[i], name, n)
  PROVE  /\ AsListed' /\ Len(sent') = i
         /\ \A x \in 1..(i - 1) : sent'[x] = sent[x]
         /\ sent'[i].size = n /\ sent'[i].data = 0
<1> DEFINE e == [path |-> list[i].path, name |-> name, size |-> n, data |-> 0]
<1>0. list \in Seq(Item) /\ i \in 1..Len(list)
  BY DEF Typed
<1>1. list[i] \in Item /\ list[i].path \in Known
  <2>1. list[i] \in Item
    BY <1>0, ElementOfSeq
  <2> QED BY <2>1 DEF Item
<1>2. /\ e \in SentSet /\ e.path = list[i].path /\ e.name = name /\ e.size = n /\ e.data = 0
      /\ sent' = Append(sent, e)
  BY <1>1 DEF SentSet, Announces
<1> HIDE DEF e
<1>3. /\ sent' \in Seq(SentSet) /\ Len(sent') = Len(sent) + 1
      /\ \A x \in 1..Len(sent) : sent'[x] = sent[x]
      /\ sent'[Len(sent) + 1] = e
  BY <1>2, AppendProperties DEF AsListed
<1>4. i \in Nat /\ Len(sent) + 1 = i /\ Len(list) \in Nat
  BY LenProperties DEF Typed
<1>5. SentSet' = SentSet /\ \A p : Names(p)' = Names(p)
  BY DEF SentSet, Names, Base
<1>6. \A x \in 1..i : x \in 1..Len(sent) \/ x = i
  BY <1>4
<1>7. \A x \in 1..i : SentAs(x)'
  BY <1>2, <1>3, <1>4, <1>5, <1>6 DEF SentAs, AsListed
<1> QED
  BY <1>2, <1>3, <1>4, <1>5, <1>7 DEF AsListed

\* What a read of the file adds to what was sent.
LEMMA ChunkSent ==
  ASSUME Typed, AsListed, UNCHANGED <<version, copied, list>>, Len(sent) = i,
         NEW read \in Int, sent' = [sent EXCEPT ![Len(sent)].data = @ + read]
  PROVE  /\ AsListed' /\ Len(sent') = i
         /\ \A x \in 1..(i - 1) : sent'[x] = sent[x]
         /\ sent'[i].size = sent[i].size /\ sent'[i].data = sent[i].data + read
<1>1. i \in Nat \ {0} /\ i \in 1..Len(sent) /\ sent \in Seq(SentSet)
  BY DEF Typed, AsListed
<1>2. sent[i] \in SentSet
  BY <1>1, ElementOfSeq
<1> DEFINE e == [sent[i] EXCEPT !.data = @ + read]
<1>3. /\ e \in SentSet /\ e.path = sent[i].path /\ e.name = sent[i].name
      /\ e.size = sent[i].size /\ e.data = sent[i].data + read
  BY <1>2 DEF SentSet
<1>4. sent' = [sent EXCEPT ![i] = e]
  <2>1. sent' = [sent EXCEPT ![i].data = @ + read]
    OBVIOUS
  <2> QED
    BY <2>1, Zenon
<1> HIDE DEF e
<1>5. /\ sent' \in Seq(SentSet) /\ Len(sent') = i
      /\ \A x \in 1..i : sent'[x] = IF x = i THEN e ELSE sent[x]
  BY <1>1, <1>3, <1>4, ExceptSeq
<1>6. SentSet' = SentSet /\ \A p : Names(p)' = Names(p)
  BY DEF SentSet, Names, Base
<1>7. \A x \in 1..i : SentAs(x)'
  BY <1>1, <1>3, <1>5, <1>6 DEF SentAs, AsListed
<1>8. \A x \in 1..(i - 1) : x \in 1..i /\ x # i
  BY <1>1
<1> QED
  BY <1>1, <1>3, <1>5, <1>6, <1>7, <1>8 DEF AsListed

\* What the steps of the answer leave to be shown of the types.
LEMMA AnswerTyped ==
  ASSUME Typed, Placed, AnswerStep,
         i' \in Nat \ {0}, count' \in Nat, pos' \in Nat, rest' \in Int,
         pc' = "data" => file' \in DOMAIN size
  PROVE  Typed'
<1>1. /\ UNCHANGED <<disk, size, changes, version, copied, stack, list>>
      /\ pc' \in {"file", "data", "done", "failed"}
  BY AnswerKeeps
<1> QED
  BY <1>1 DEF Typed, Inode, Ended

\* The parts of the invariant that the answer is about.
Answering == Typed /\ Placed /\ AsListed

\* A step that sends nothing.
LEMMA SentSame ==
  ASSUME AsListed, UNCHANGED <<version, copied, list, sent>>
  PROVE  AsListed' /\ \A x : Announced(x)' = Announced(x)
<1>1. SentSet' = SentSet /\ \A p : Names(p)' = Names(p)
  BY DEF SentSet, Names, Base
<1>2. \A x \in 1..Len(sent) : SentAs(x)'
  BY <1>1 DEF SentAs, AsListed
<1> QED
  BY <1>1, <1>2 DEF AsListed, Announced

LEMMA ReplyHolds ==
  ASSUME Answering, Reply
  PROVE  Answering' /\ (Measured => Measured')
<1>1. AnswerStep /\ Typed /\ Placed /\ AsListed
  BY DEF AnswerStep, Answering
<1>2. /\ UNCHANGED <<disk, size, changes, version, copied, stack, list>> /\ stack = <<>>
  BY <1>1, AnswerKeeps
<1>3. /\ pc = "reply" /\ UNCHANGED <<i, sent, file, pos, rest>>
      /\ \/ pc' = "file" /\ count' = Len(list)
         \/ pc' = "failed" /\ UNCHANGED count
  BY DEF Reply, Goto
<1>4. i = 1 /\ sent = <<>> /\ Len(<<>>) = 0 /\ count = 0
  BY <1>1, <1>3 DEF Placed
<1>5. Len(list) \in Nat
  BY <1>1, LenProperties DEF Typed
<1>6. Typed'
  BY <1>1, <1>3, <1>4, <1>5, AnswerTyped DEF Typed
<1>7. Placed'
  BY <1>2, <1>3, <1>4, <1>5 DEF Placed
<1>8. AsListed'
  BY <1>1, <1>2, <1>3, SentSame
<1>9. Measured'
  BY <1>3, <1>4 DEF Measured
<1> QED
  BY <1>6, <1>7, <1>8, <1>9 DEF Answering

LEMMA NextFileHolds ==
  ASSUME Answering, NextFile
  PROVE  Answering' /\ (Measured => Measured')
<1>1. AnswerStep /\ Typed /\ Placed /\ AsListed
  BY DEF AnswerStep, Answering
<1>2. /\ UNCHANGED <<disk, size, changes, version, copied, stack, list>> /\ stack = <<>>
  BY <1>1, AnswerKeeps
<1>3. /\ pc = "file" /\ i \in 1..Len(list) /\ list[i] \in Item /\ UNCHANGED count
  BY <1>1, NextFileCases
<1>4. /\ count = Len(list) /\ Len(sent) = i - 1 /\ i - 1 <= count
      /\ i \in Nat \ {0} /\ count \in Nat /\ pos \in Nat /\ rest \in Int
  BY <1>1, <1>3 DEF Placed, Typed
<1>5. ASSUME NEW name \in Names(list[i].path), name # <<>>,
             NEW n \in Nat \cup {-1}, Announces(list[i], name, n)
      PROVE  /\ AsListed' /\ Len(sent') = i
             /\ \A x \in 1..(i - 1) : sent'[x] = sent[x]
             /\ sent'[i].size = n /\ sent'[i].data = 0
  BY <1>1, <1>2, <1>3, <1>4, <1>5, AnnouncedSent
<1>6. ASSUME Measured, Len(sent') = i, \A x \in 1..(i - 1) : sent'[x] = sent[x]
      PROVE  \A x \in 1..(i - 1) :
               /\ sent'[x].data \in 0..Announced(x)'
               /\ sent'[x].data = Announced(x)'
  <2> TAKE x \in 1..(i - 1)
  <2>1. sent[x].data \in 0..Announced(x) /\ sent[x].data = Announced(x)
    BY <1>3, <1>4, <1>6 DEF Measured
  <2> QED
    BY <1>6, <2>1 DEF Announced
<1>7. CASE \E name \in Names(list[i].path) :
             /\ name # <<>> /\ Announces(list[i], name, -1)
             /\ i' = i + 1 /\ UNCHANGED <<pc, file, pos, rest>>
  <2>1. PICK name \in Names(list[i].path) :
             /\ name # <<>> /\ Announces(list[i], name, -1)
             /\ i' = i + 1 /\ UNCHANGED <<pc, file, pos, rest>>
    BY <1>7
  <2>2. /\ AsListed' /\ Len(sent') = i
        /\ \A x \in 1..(i - 1) : sent'[x] = sent[x]
        /\ sent'[i].size = -1 /\ sent'[i].data = 0
    BY <1>5, <2>1
  <2>3. Typed'
    BY <1>1, <1>3, <1>4, <2>1, AnswerTyped
  <2>4. Placed'
    BY <1>2, <1>3, <1>4, <2>1, <2>2 DEF Placed
  <2>5. \A x : x = i => Announced(x)' = 0
    BY <2>2 DEF Announced
  <2>6. Measured => Measured'
    <3> SUFFICES ASSUME Measured PROVE Measured'
      OBVIOUS
    <3>1. \A x \in 1..Len(sent') : x \in 1..(i - 1) \/ x = i
      BY <1>4, <2>2
    <3>2. \A x \in 1..Len(sent') :
            sent'[x].data \in 0..Announced(x)' /\ sent'[x].data = Announced(x)'
      BY <1>6, <2>2, <2>5, <3>1
    <3> QED
      BY <1>3, <2>1, <3>2 DEF Measured
  <2> QED
    BY <2>2, <2>3, <2>4, <2>6 DEF Answering
<1>8. CASE \E name \in Names(list[i].path) : \E f \in DOMAIN size :
             /\ name # <<>> /\ Announces(list[i], name, size[f])
             /\ file' = f /\ pos' = 0 /\ rest' = size[f]
             /\ pc' = "data" /\ UNCHANGED i
  <2>1. PICK name \in Names(list[i].path), f \in DOMAIN size :
             /\ name # <<>> /\ Announces(list[i], name, size[f])
             /\ file' = f /\ pos' = 0 /\ rest' = size[f]
             /\ pc' = "data" /\ UNCHANGED i
    BY <1>8
  <2>2. size[f] \in Nat
    BY <1>1 DEF Typed
  <2>3. /\ AsListed' /\ Len(sent') = i
        /\ \A x \in 1..(i - 1) : sent'[x] = sent[x]
        /\ sent'[i].size = size[f] /\ sent'[i].data = 0
    BY <1>5, <2>1, <2>2
  <2>4. Typed'
    BY <1>1, <1>3, <1>4, <2>1, <2>2, AnswerTyped
  <2>5. Placed'
    BY <1>2, <1>3, <1>4, <2>1, <2>3 DEF Placed
  <2>6. \A x : x = i => Announced(x)' = size[f]
    BY <2>2, <2>3 DEF Announced
  <2>7. Measured => Measured'
    <3> SUFFICES ASSUME Measured PROVE Measured'
      OBVIOUS
    <3>1. \A x \in 1..Len(sent') : x \in 1..(i - 1) \/ x = i
      BY <1>4, <2>3
    <3>2. \A x \in 1..Len(sent') :
            /\ sent'[x].data \in 0..Announced(x)'
            /\ x < i => sent'[x].data = Announced(x)'
      BY <1>6, <2>2, <2>3, <2>6, <3>1
    <3>3. size'[file'] - pos' <= rest' /\ rest' \in Nat
          /\ sent'[i].data + rest' = Announced(i)'
      BY <1>2, <1>4, <2>1, <2>2, <2>3, <2>6
    <3> QED
      BY <2>1, <2>3, <3>2, <3>3 DEF Measured
  <2> QED
    BY <2>3, <2>4, <2>5, <2>7 DEF Answering
<1>9. CASE pc' = "failed" /\ UNCHANGED <<i, sent, file, pos, rest>>
  <2>1. Typed'
    BY <1>1, <1>3, <1>4, <1>9, AnswerTyped
  <2>2. Placed'
    BY <1>2, <1>3, <1>4, <1>9 DEF Placed
  <2>3. AsListed' /\ \A x : Announced(x)' = Announced(x)
    BY <1>1, <1>2, <1>9, SentSame
  <2>4. Measured => Measured'
    BY <1>9, <2>3 DEF Measured
  <2> QED
    BY <2>1, <2>2, <2>3, <2>4 DEF Answering
<1> QED
  BY <1>1, <1>7, <1>8, <1>9, NextFileCases

LEMMA SendChunkHolds ==
  ASSUME Answering, SendChunk
  PROVE  Answering' /\ (Measured => Measured')
<1>1. AnswerStep /\ Typed /\ Placed /\ AsListed
  BY DEF AnswerStep, Answering
<1>2. /\ UNCHANGED <<disk, size, changes, version, copied, stack, list>> /\ stack = <<>>
  BY <1>1, AnswerKeeps
<1>3. /\ pc = "data" /\ rest > 0 /\ UNCHANGED <<pc, i, count, file>>
      /\ LET left == size[file] - pos
             read == IF left < Buf THEN left ELSE Buf
         IN IF left <= 0
            THEN UNCHANGED <<sent, pos, rest>>
            ELSE /\ pos' = pos + read /\ rest' = rest - read
                 /\ sent' = [sent EXCEPT ![Len(sent)].data = @ + read]
  BY DEF SendChunk
<1>4. /\ file \in DOMAIN size /\ size[file] \in Nat /\ pos \in Nat /\ rest \in Int
      /\ i \in Nat \ {0} /\ count \in Nat /\ Buf \in Nat \ {0}
  BY <1>1, <1>3, DownloadAssumption DEF Typed
<1>5. Len(sent) = i /\ i <= count /\ count = Len(list)
  BY <1>1, <1>3 DEF Placed
<1>6. CASE UNCHANGED <<sent, pos, rest>>
  <2>1. Typed'
    BY <1>1, <1>3, <1>4, <1>6, AnswerTyped
  <2>2. Placed'
    BY <1>2, <1>3, <1>5, <1>6 DEF Placed
  <2>3. AsListed' /\ \A x : Announced(x)' = Announced(x)
    BY <1>1, <1>2, <1>6, SentSame
  <2>4. Measured => Measured'
    BY <1>2, <1>3, <1>6 DEF Measured, Announced
  <2> QED
    BY <2>1, <2>2, <2>3, <2>4 DEF Answering
<1>7. ASSUME NEW read \in Nat \ {0}, read <= size[file] - pos,
             pos' = pos + read, rest' = rest - read,
             sent' = [sent EXCEPT ![Len(sent)].data = @ + read]
      PROVE  Answering' /\ (Measured => Measured')
  <2>1. Typed'
    BY <1>1, <1>3, <1>4, <1>7, AnswerTyped
  <2>2. /\ AsListed' /\ Len(sent') = i
        /\ \A x \in 1..(i - 1) : sent'[x] = sent[x]
        /\ sent'[i].size = sent[i].size /\ sent'[i].data = sent[i].data + read
    <3>1. UNCHANGED <<version, copied, list>> /\ read \in Int
      BY <1>2
    <3> QED
      BY <1>1, <1>5, <1>7, <3>1, ChunkSent
  <2>3. Placed'
    BY <1>2, <1>3, <1>5, <2>2 DEF Placed
  <2>4. Measured => Measured'
    <3> SUFFICES ASSUME Measured PROVE Measured'
      OBVIOUS
    <3>1. \A x \in 1..i : x \in 1..(i - 1) \/ x = i
      BY <1>4
    <3>2. \A x \in 1..i : Announced(x)' = Announced(x)
      BY <2>2, <3>1 DEF Announced
    <3>3. /\ size[file] - pos <= rest /\ rest \in Nat
          /\ sent[i].data + rest = Announced(i) /\ sent[i].data \in 0..Announced(i)
      BY <1>3, <1>4, <1>5 DEF Measured
    <3>4. \A x \in 1..(i - 1) :
            sent[x].data \in 0..Announced(x) /\ sent[x].data = Announced(x)
      BY <1>4, <1>5 DEF Measured
    <3>5. i \in 1..i
      BY <1>4
    <3>6. Announced(i) \in Int
      <4>1. sent[i] \in SentSet
        BY <1>1, <1>5, <3>5, ElementOfSeq DEF AsListed
      <4> QED
        BY <4>1 DEF SentSet, Announced
    <3>7. /\ size'[file'] - pos' <= rest' /\ rest' \in Nat
          /\ sent'[i].data + rest' = Announced(i)
          /\ sent'[i].data \in 0..Announced(i)
      <4>1. size'[file'] - pos' <= rest' /\ rest' \in Nat
        BY <1>2, <1>3, <1>4, <1>7, <3>3
      <4>2. sent[i].data \in Nat /\ sent'[i].data = sent[i].data + read
        BY <2>2, <3>3, <3>6
      <4>3. sent'[i].data + rest' = Announced(i)
        BY <1>4, <1>7, <3>3, <4>2
      <4>4. sent'[i].data \in 0..Announced(i)
        BY <3>6, <4>1, <4>2, <4>3
      <4> QED
        BY <4>1, <4>3, <4>4
    <3>8. \A x \in 1..i :
            /\ sent'[x].data \in 0..Announced(x)'
            /\ x < i => sent'[x].data = Announced(x)'
      BY <2>2, <3>1, <3>2, <3>4, <3>7
    <3>9. sent'[i].data + rest' = Announced(i)'
      BY <1>3, <3>2, <3>5, <3>7
    <3> QED
      BY <1>3, <2>2, <3>7, <3>8, <3>9 DEF Measured
  <2> QED
    BY <2>1, <2>2, <2>3, <2>4 DEF Answering
<1>8. CASE size[file] - pos > 0
  <2> DEFINE read == IF size[file] - pos < Buf THEN size[file] - pos ELSE Buf
  <2>1. read \in Nat \ {0} /\ read <= size[file] - pos
    BY <1>4, <1>8
  <2>2. /\ pos' = pos + read /\ rest' = rest - read
        /\ sent' = [sent EXCEPT ![Len(sent)].data = @ + read]
    BY <1>3, <1>4, <1>8
  <2> HIDE DEF read
  <2> QED
    BY <1>7, <2>1, <2>2
<1> QED
  BY <1>3, <1>4, <1>6, <1>8

LEMMA FileSentHolds ==
  ASSUME Answering, FileSent
  PROVE  Answering' /\ (Measured => Measured')
<1>1. AnswerStep /\ Typed /\ Placed /\ AsListed
  BY DEF AnswerStep, Answering
<1>2. /\ UNCHANGED <<disk, size, changes, version, copied, stack, list>> /\ stack = <<>>
  BY <1>1, AnswerKeeps
<1>3. /\ pc = "data" /\ rest <= 0 /\ i' = i + 1 /\ pc' = "file"
      /\ UNCHANGED <<count, sent, pos, rest>>
  BY DEF FileSent, Goto
<1>4. /\ pos \in Nat /\ rest \in Int /\ i \in Nat \ {0} /\ count \in Nat
  BY <1>1 DEF Typed
<1>5. Len(sent) = i /\ i <= count /\ count = Len(list)
  BY <1>1, <1>3 DEF Placed
<1>6. Typed'
  BY <1>1, <1>3, <1>4, AnswerTyped
<1>7. Placed'
  BY <1>2, <1>3, <1>4, <1>5 DEF Placed
<1>8. AsListed' /\ \A x : Announced(x)' = Announced(x)
  BY <1>1, <1>2, <1>3, SentSame
<1>9. Measured => Measured'
  <2> SUFFICES ASSUME Measured PROVE Measured'
    OBVIOUS
  <2>1. i \in 1..i /\ \A x \in 1..i : x < i \/ x = i
    BY <1>4
  <2>2. rest = 0 /\ sent[i].data = Announced(i)
    <3>1. rest \in Nat /\ sent[i].data + rest = Announced(i)
          /\ sent[i].data \in 0..Announced(i)
      BY <1>3, <1>5, <2>1 DEF Measured
    <3> QED
      BY <1>3, <3>1
  <2>3. \A x \in 1..Len(sent) :
          sent[x].data \in 0..Announced(x) /\ sent[x].data = Announced(x)
    BY <1>5, <2>1, <2>2 DEF Measured
  <2>4. \A x \in 1..Len(sent') :
          sent'[x].data \in 0..Announced(x)' /\ sent'[x].data = Announced(x)'
    BY <1>3, <1>8, <2>3
  <2> QED
    BY <1>3, <2>4 DEF Measured
<1> QED
  BY <1>6, <1>7, <1>8, <1>9 DEF Answering

LEMMA EndHolds ==
  ASSUME Answering, AllSent \/ WriteFails
  PROVE  Answering' /\ (Measured => Measured')
<1>1. AnswerStep /\ Typed /\ Placed /\ AsListed
  BY DEF AnswerStep, Answering
<1>2. /\ UNCHANGED <<disk, size, changes, version, copied, stack, list>> /\ stack = <<>>
  BY <1>1, AnswerKeeps
<1>3. /\ UNCHANGED <<i, count, sent, file, pos, rest>>
      /\ \/ pc = "file" /\ i > Len(list) /\ pc' = "done"
         \/ pc \in {"reply", "file", "data"} /\ pc' = "failed"
  BY DEF AllSent, WriteFails, Goto
<1>4. /\ pos \in Nat /\ rest \in Int /\ i \in Nat \ {0} /\ count \in Nat
  BY <1>1 DEF Typed
<1>5. Typed'
  BY <1>1, <1>3, <1>4, AnswerTyped
<1>6. Placed'
  <2>1. Len(list) \in Nat
    BY <1>1, LenProperties DEF Typed
  <2>2. CASE pc = "file" /\ i > Len(list) /\ pc' = "done"
    <3>1. count = Len(list) /\ Len(sent) = i - 1 /\ i - 1 <= count
      BY <1>1, <2>2 DEF Placed
    <3>2. Len(sent) = count
      BY <1>4, <2>1, <2>2, <3>1
    <3> QED
      BY <1>2, <1>3, <2>2, <3>1, <3>2 DEF Placed
  <2>3. CASE pc \in {"reply", "file", "data"} /\ pc' = "failed"
    <3>1. sent = <<>> \/ (count = Len(list) /\ Len(sent) <= count)
      BY <1>1, <1>4, <2>3 DEF Placed
    <3> QED
      BY <1>2, <1>3, <2>3, <3>1 DEF Placed
  <2> QED
    BY <1>3, <2>2, <2>3
<1>7. AsListed' /\ \A x : Announced(x)' = Announced(x)
  BY <1>1, <1>2, <1>3, SentSame
<1>8. Measured => Measured'
  BY <1>3, <1>7 DEF Measured
<1> QED
  BY <1>5, <1>6, <1>7, <1>8 DEF Answering

-----------------------------------------------------------------------------
(* The steps of other programs.                                            *)

LEMMA OthersHold ==
  ASSUME IInv, OthersStep
  PROVE  IInv' /\ (("grow" \notin Others /\ Measured) => Measured')
<1>1. /\ Typed /\ Placed /\ AsListed /\ Walked /\ Deep /\ Alive /\ Reached
  BY DEF IInv
<1>2. UNCHANGED <<version, copied, asked, pc, i, stack, list, reply, count, sent, file, pos, rest>>
  BY DEF OthersStep, asked
<1>3. Typed' /\ DOMAIN size \subseteq DOMAIN size'
  BY <1>1, OthersTyped
<1>4. Placed'
  BY <1>1, <1>2 DEF Placed
<1>5. AsListed' /\ \A x : Announced(x)' = Announced(x)
  BY <1>1, <1>2, SentSame
<1>6. Walked'
  BY <1>1, <1>2 DEF Walked, FrameFrom, From
<1>7. Deep'
  BY <1>1, <1>2 DEF Deep
<1>8. Alive'
  BY <1>1, OthersAlive
<1>9. Reached'
  <2>1. touched \subseteq touched'
    BY DEF OthersStep, Removes, Creates, Shrinks, Grows, Changed
  <2>2. \A p : Stays(p)' => Stays(p)
    BY <2>1 DEF Stays
  <2>3. \A p, x : Due(x, p)' => Due(x, p)
    BY <1>2, <2>2 DEF Due, Wanted
  <2>4. /\ \A p : Listed(p)' <=> Listed(p)
        /\ \A p : Pending(p)' <=> Pending(p)
        /\ Decoded' = Decoded
    BY <1>2 DEF Listed, Pending, PendingIn, Empty, Decoded
  <2> QED
    BY <1>1, <1>2, <2>3, <2>4 DEF Reached
<1>10. ASSUME "grow" \notin Others, Measured
       PROVE  Measured'
  <2>1. \A f \in DOMAIN size : size'[f] <= size[f]
    BY <1>1, <1>10, OthersTyped
  <2>2. pc = "data" => size'[file] - pos <= rest
    <3> SUFFICES ASSUME pc = "data" PROVE size'[file] - pos <= rest
      OBVIOUS
    <3>1. file \in DOMAIN size /\ file \in DOMAIN size'
      BY <1>1, <1>3 DEF Typed
    <3>2. size[file] \in Nat /\ size'[file] \in Nat /\ pos \in Nat /\ rest \in Int
      BY <1>1, <1>3, <3>1 DEF Typed
    <3>3. size[file] - pos <= rest
      BY <1>10 DEF Measured
    <3> QED
      BY <2>1, <3>1, <3>2, <3>3
  <2> QED
    BY <1>2, <1>5, <1>10, <2>2 DEF Measured
<1> QED
  BY <1>3, <1>4, <1>5, <1>6, <1>7, <1>8, <1>9, <1>10 DEF IInv

-----------------------------------------------------------------------------
(* Names.                                                                  *)

\* What follows a common directory tells paths apart,
LEMMA SuffixTells ==
  ASSUME NEW S, NEW b \in Seq(S), NEW p \in Seq(S), NEW q \in Seq(S),
         IsPrefix(b, p), IsPrefix(b, q),
         SubSeq(p, Len(b) + 1, Len(p)) = SubSeq(q, Len(b) + 1, Len(q))
  PROVE  p = q
<1>1. Len(b) \in Nat /\ Len(p) \in Nat /\ Len(q) \in Nat
  BY LenProperties
<1>2. ASSUME NEW r \in Seq(S), IsPrefix(b, r)
      PROVE  LET s == SubSeq(r, Len(b) + 1, Len(r)) IN
             /\ Len(s) = Len(r) - Len(b) /\ Len(b) <= Len(r)
             /\ \A j \in 1..Len(b) : b[j] = r[j]
             /\ \A j \in (Len(b) + 1)..Len(r) : s[j - Len(b)] = r[j]
  <2> DEFINE s == SubSeq(r, Len(b) + 1, Len(r))
  <2>1. Len(r) \in Nat /\ Len(b) <= Len(r) /\ \A j \in 1..Len(b) : b[j] = r[j]
    BY <1>2, LenProperties, PrefixIff
  <2>2. \A j \in (Len(b) + 1)..Len(r) : r[j] \in S
    <3>1. \A j \in (Len(b) + 1)..Len(r) : j \in 1..Len(r)
      BY <1>1, <2>1
    <3> QED
      BY <3>1, ElementOfSeq
  <2>3. /\ Len(s) = IF Len(b) + 1 <= Len(r) THEN Len(r) - (Len(b) + 1) + 1 ELSE 0
        /\ \A j \in 1..(Len(r) - (Len(b) + 1) + 1) : s[j] = r[(Len(b) + 1) + j - 1]
    BY <1>1, <2>1, <2>2, SubSeqProperties
  <2> HIDE DEF s
  <2>4. Len(s) = Len(r) - Len(b)
    BY <1>1, <2>1, <2>3
  <2>5. ASSUME NEW j \in (Len(b) + 1)..Len(r)
        PROVE  s[j - Len(b)] = r[j]
    <3>1. j - Len(b) \in 1..(Len(r) - (Len(b) + 1) + 1)
          /\ (Len(b) + 1) + (j - Len(b)) - 1 = j
      BY <1>1, <2>1
    <3> QED
      BY <2>3, <3>1
  <2> QED
    BY <2>1, <2>4, <2>5
<1> DEFINE s == SubSeq(p, Len(b) + 1, Len(p))
<1>3. /\ Len(s) = Len(p) - Len(b) /\ Len(b) <= Len(p)
      /\ \A j \in 1..Len(b) : b[j] = p[j]
      /\ \A j \in (Len(b) + 1)..Len(p) : s[j - Len(b)] = p[j]
  BY <1>2
<1>4. /\ Len(s) = Len(q) - Len(b) /\ Len(b) <= Len(q)
      /\ \A j \in 1..Len(b) : b[j] = q[j]
      /\ \A j \in (Len(b) + 1)..Len(q) : s[j - Len(b)] = q[j]
  BY <1>2
<1> HIDE DEF s
<1>5. Len(p) = Len(q)
  BY <1>1, <1>3, <1>4
<1>6. \A j \in 1..Len(p) : p[j] = q[j]
  <2>1. \A j \in 1..Len(p) : j \in 1..Len(b) \/ j \in (Len(b) + 1)..Len(p)
    BY <1>1
  <2> QED
    BY <1>3, <1>4, <1>5, <2>1
<1> QED
  BY <1>5, <1>6, SeqEqual

\* and so does the whole path with a slash before it,
LEMMA SlashTells ==
  ASSUME NEW S, NEW p \in Seq(S), NEW q \in Seq(S), NEW e, <<e>> \o p = <<e>> \o q
  PROVE  p = q
<1> DEFINE T == S \cup {e}
<1>1. p \in Seq(T) /\ q \in Seq(T) /\ <<e>> \in Seq(T) /\ Len(<<e>>) = 1
  BY SeqMonotonic
<1> HIDE DEF T
<1>2. ASSUME NEW r \in Seq(T)
      PROVE  /\ Len(<<e>> \o r) = Len(r) + 1
             /\ \A j \in 1..Len(r) : (<<e>> \o r)[j + 1] = r[j]
  <2>1. /\ Len(<<e>> \o r) = 1 + Len(r) /\ Len(r) \in Nat
        /\ \A j \in 1..(1 + Len(r)) :
             (<<e>> \o r)[j] = IF j <= 1 THEN <<e>>[j] ELSE r[j - 1]
    BY <1>1, ConcatProperties, LenProperties
  <2> DEFINE s == <<e>> \o r
  <2>2. /\ Len(s) = 1 + Len(r) /\ Len(r) \in Nat
        /\ \A j \in 1..(1 + Len(r)) : s[j] = IF j <= 1 THEN <<e>>[j] ELSE r[j - 1]
    BY <2>1
  <2> HIDE DEF s
  <2>3. \A j \in 1..Len(r) : s[j + 1] = r[j]
    <3> TAKE j \in 1..Len(r)
    <3>1. j + 1 \in 1..(1 + Len(r)) /\ ~(j + 1 <= 1) /\ (j + 1) - 1 = j
      BY <2>2
    <3> QED
      BY <2>2, <3>1
  <2> QED
    BY <2>2, <2>3 DEF s
<1> DEFINE s == <<e>> \o p
<1>3. /\ Len(s) = Len(p) + 1 /\ \A j \in 1..Len(p) : s[j + 1] = p[j]
      /\ Len(s) = Len(q) + 1 /\ \A j \in 1..Len(q) : s[j + 1] = q[j]
  BY <1>1, <1>2
<1> HIDE DEF s
<1>4. Len(p) = Len(q)
  BY <1>3, LenProperties
<1>5. \A j \in 1..Len(p) : p[j] = q[j]
  BY <1>3, <1>4
<1> QED
  BY <1>4, <1>5, SeqEqual

\* and the last name when the directory is the same.
LEMMA LastTells ==
  ASSUME NEW S, NEW p \in Seq(S), NEW q \in Seq(S), Len(p) > 0, Len(q) > 0,
         Front(p) = Front(q), Last(p) = Last(q)
  PROVE  p = q
<1>1. Len(p) \in Nat /\ Len(q) \in Nat
  BY LenProperties
<1>2. /\ Len(Front(p)) = Len(p) - 1 /\ \A j \in 1..(Len(p) - 1) : Front(p)[j] = p[j]
      /\ Len(Front(q)) = Len(q) - 1 /\ \A j \in 1..(Len(q) - 1) : Front(q)[j] = q[j]
  BY FrontProperties
<1>3. Len(p) = Len(q)
  BY <1>1, <1>2
<1>4. p[Len(p)] = q[Len(q)]
  BY DEF Last
<1>5. \A j \in 1..Len(p) : p[j] = q[j]
  <2>1. \A j \in 1..Len(p) : j \in 1..(Len(p) - 1) \/ j = Len(p)
    BY <1>1
  <2> QED
    BY <1>2, <1>3, <1>4, <2>1
<1> QED
  BY <1>3, <1>5, SeqEqual

LEMMA NamesTell ==
  ASSUME Typed, Walked, AsListed
  PROVE  NamesTellFilesApart
<1> SUFFICES ASSUME SameDirectory, NEW x \in 1..Len(sent), NEW y \in 1..Len(sent),
                    sent[x].name = sent[y].name
             PROVE  sent[x].path = sent[y].path
  BY DEF NamesTellFilesApart
<1>1. Len(sent) \in Nat /\ Len(list) \in Nat /\ Len(sent) <= Len(list)
  BY LenProperties DEF AsListed, Typed
<1>2. copied \in CopiedLists /\ version \in 1..4
  BY DownloadAssumption DEF Typed
<1>3. Base \in Seq(Name)
  <2>1. 1 \in 1..Len(copied)
    BY <1>2, Paths
  <2>2. copied[1] \in Seq(Name) /\ Len(copied[1]) > 0
    BY <1>2, <2>1, Paths
  <2> QED
    BY <2>2, FrontProperties DEF Base
<1>4. ASSUME NEW z \in 1..Len(sent)
      PROVE  LET p == sent[z].path IN
             /\ p \in Seq(Name) /\ Len(p) > 0 /\ IsPrefix(Base, p)
             /\ sent[z].name \in Names(p)
             /\ version = 1 => Front(p) = Base
  <2> DEFINE p == sent[z].path
  <2>1. z \in 1..Len(list) /\ p = list[z].path /\ sent[z].name \in Names(p)
    BY <1>1 DEF AsListed, SentAs
  <2>2. p \in Known
    <3>1. sent[z] \in SentSet
      BY ElementOfSeq DEF AsListed
    <3> QED
      BY <3>1 DEF SentSet
  <2>3. From(p)
    BY <2>1 DEF Walked
  <2> HIDE DEF p
  <2>4. PICK a \in 1..Len(copied) :
          IsPrefix(copied[a], p) /\ (version = 1 => copied[a] = p)
    BY <2>3 DEF From
  <2>5. copied[a] \in Seq(Name) /\ Len(copied[a]) > 0 /\ Front(copied[a]) = Base
    BY <1>2, Paths DEF SameDirectory
  <2>6. IsPrefix(Base, copied[a])
    BY <2>5, FrontProperties
  <2>7. p \in Seq(Name) /\ Len(p) > 0
    BY <2>2, Paths
  <2> QED
    BY <1>3, <2>1, <2>4, <2>5, <2>6, <2>7, PrefixTransitive DEF p
<1> DEFINE p == sent[x].path
           q == sent[y].path
<1>5. /\ p \in Seq(Name) /\ Len(p) > 0 /\ IsPrefix(Base, p)
      /\ sent[x].name \in Names(p) /\ (version = 1 => Front(p) = Base)
      /\ q \in Seq(Name) /\ Len(q) > 0 /\ IsPrefix(Base, q)
      /\ sent[x].name \in Names(q) /\ (version = 1 => Front(q) = Base)
  BY <1>4
<1> HIDE DEF p, q
<1>6. CASE version = 1
  <2>1. <<Last(p)>> = <<Last(q)>>
    BY <1>5, <1>6 DEF Names
  <2>2. Last(p) = Last(q)
    BY <2>1
  <2> QED
    BY <1>5, <1>6, <2>2, LastTells DEF p, q
<1>7. CASE version # 1 /\ Base = <<>>
  <2>1. <<"">> \o p = <<"">> \o q
    BY <1>5, <1>7 DEF Names
  <2> QED
    BY <1>5, <2>1, SlashTells DEF p, q
<1>8. CASE version # 1 /\ Base # <<>>
  <2>1. SubSeq(p, Len(Base) + 1, Len(p)) = SubSeq(q, Len(Base) + 1, Len(q))
    BY <1>5, <1>8 DEF Names
  <2> QED
    BY <1>3, <1>5, <2>1, SuffixTells DEF p, q
<1> QED
  BY <1>6, <1>7, <1>8

-----------------------------------------------------------------------------
(* The theorems.                                                           *)

LEMMA InitIInv == Init => IInv /\ Measured
<1> SUFFICES ASSUME Init PROVE IInv /\ Measured
  OBVIOUS
<1>1. Typed /\ Alive
  BY InitTyped, InitAlive
<1>2. /\ pc = "copied" /\ i = 1 /\ stack = <<>> /\ list = <<>> /\ sent = <<>> /\ count = 0
      /\ Len(<<>>) = 0
  BY DEF Init
<1> HIDE DEF Init
<1>3. Placed
  BY <1>2 DEF Placed
<1>4. AsListed
  BY <1>2, EmptySeq DEF AsListed
<1>5. Walked /\ Deep
  BY <1>2 DEF Walked, Deep
<1>6. Reached
  BY <1>2 DEF Reached, Decoded
<1>7. Measured
  BY <1>2 DEF Measured
<1> QED
  BY <1>1, <1>3, <1>4, <1>5, <1>6, <1>7 DEF IInv

LEMMA NextIInv ==
  ASSUME IInv, [Next]_vars
  PROVE  IInv' /\ (("grow" \notin Others /\ Measured) => Measured')
<1>1. /\ Typed /\ Placed /\ AsListed /\ Walked /\ Deep /\ Alive /\ Reached
  BY DEF IInv
<1>2. CASE WalkStep
  <2>1. Alive'
    <3>1. UNCHANGED <<disk, size, touched>>
      BY <1>1, <1>2, WalkKeeps DEF others
    <3> QED
      BY <1>1, <3>1 DEF Alive, Stays, Empty, Children, Below
  <2> QED
    BY <1>1, <1>2, <2>1, WalkTyped, WalkPlaced, WalkWalked, WalkReached DEF IInv
<1>3. CASE AnswerStep
  <2>1. Answering' /\ (Measured => Measured')
    <3>1. Answering
      BY <1>1 DEF Answering
    <3> QED
      BY <1>3, <3>1, ReplyHolds, NextFileHolds, SendChunkHolds, FileSentHolds, EndHolds
      DEF AnswerStep
  <2> QED
    BY <1>1, <1>3, <2>1, AnswerReached DEF IInv, Answering
<1>4. CASE OthersStep
  BY <1>4, OthersHold
<1>5. CASE UNCHANGED vars
  <2>1. UNCHANGED <<disk, size, touched, changes, version, copied, pc, i, stack, list, count,
                    sent, file, pos, rest>>
    BY <1>5 DEF vars, others, asked
  <2>2. Typed' /\ Placed'
    BY <1>1, <2>1 DEF Typed, Placed, Inode
  <2>3. AsListed' /\ \A x : Announced(x)' = Announced(x)
    BY <1>1, <2>1, SentSame
  <2>4. Walked' /\ Deep'
    BY <1>1, <2>1 DEF Walked, FrameFrom, From, Deep
  <2>5. Alive'
    BY <1>1, <2>1 DEF Alive, Stays, Empty, Children, Below
  <2>6. Reached'
    <3>1. Decoded' = Decoded /\ pc' = pc /\ i' = i
      BY <2>1 DEF Decoded
    <3>2. ASSUME NEW p, NEW x PROVE Due(x, p)' = Due(x, p)
      BY <2>1 DEF Due, Wanted, Stays
    <3>3. ASSUME NEW p PROVE Listed(p)' = Listed(p)
      BY <2>1 DEF Listed
    <3>4. ASSUME NEW p PROVE Pending(p)' = Pending(p)
      BY <2>1 DEF Pending, PendingIn, Empty
    <3> QED
      BY <1>1, <3>1, <3>2, <3>3, <3>4 DEF Reached
  <2>7. Measured => Measured'
    BY <2>1, <2>3 DEF Measured
  <2> QED
    BY <2>2, <2>3, <2>4, <2>5, <2>6, <2>7 DEF IInv
<1> QED
  BY <1>2, <1>3, <1>4, <1>5 DEF Next, SessionStep, WalkStep, AnswerStep, Ending

\* The walk and the answer keep the invariant, whatever others do.
THEOREM Inductive == Spec => []IInv
<1>1. Init => IInv
  BY InitIInv
<1>2. IInv /\ [Next]_vars => IInv'
  BY NextIInv
<1> QED
  BY <1>1, <1>2, PTL DEF Spec

\* A session that others can only leave alone, remove, replace or shorten the
\* files of is never ahead of its client nor behind it.  That a file grows
\* while it is sent must be excluded: then more is sent than was announced.
\* _transfer_regular_file() and _get_files_common().
THEOREM ReplyIsFramedHolds ==
  ASSUME "grow" \notin Others
  PROVE  Spec => []ReplyIsFramed
<1>1. Init => IInv /\ Measured
  BY InitIInv
<1>2. (IInv /\ Measured) /\ [Next]_vars => (IInv /\ Measured)'
  BY NextIInv
<1>3. IInv /\ Measured => ReplyIsFramed
  <2> SUFFICES ASSUME IInv, Measured PROVE ReplyIsFramed
    OBVIOUS
  <2>1. Typed /\ Placed /\ AsListed
    BY DEF IInv
  <2>2. Len(<<>>) = 0 /\ count \in Nat /\ i \in Nat /\ Len(sent) \in Nat
    BY <2>1, LenProperties DEF Typed, AsListed
  <2>3. Len(sent) <= count /\ (pc = "done" => Len(sent) = count)
    BY <2>1, <2>2 DEF Placed, Typed, Ended
  <2>4. ASSUME NEW x \in 1..Len(sent)
        PROVE  /\ sent[x].data <= Announced(x)
               /\ x < Len(sent) \/ pc = "done" => sent[x].data = Announced(x)
    <3>1. Announced(x) \in Int
      <4>1. sent[x] \in SentSet
        BY <2>1, ElementOfSeq DEF AsListed
      <4> QED
        BY <4>1 DEF SentSet, Announced
    <3> QED
      BY <3>1 DEF Measured
  <2> QED
    BY <2>3, <2>4 DEF ReplyIsFramed
<1> QED
  BY <1>1, <1>2, <1>3, PTL DEF Spec

\* The client of a tree that others change gets each file that stays, and in a
\* reply of one directory each under a name of its own.
\* get_copied_files(), _recurse_dir() and _transfer_single_file().
THEOREM UntouchedFilesArriveHolds == Spec => []UntouchedFilesArrive
<1>1. IInv => UntouchedFilesArrive
  <2> SUFFICES ASSUME IInv PROVE UntouchedFilesArrive
    OBVIOUS
  <2>1. Typed /\ Placed /\ AsListed /\ Walked /\ Reached
    BY DEF IInv
  <2>2. UntouchedFilesAreSent
    <3> SUFFICES ASSUME pc = "done", NEW p \in DOMAIN Tree, NEW x \in Decoded, Due(x, p)
                 PROVE  \E y \in 1..Len(sent) : sent[y].path = p
      BY DEF UntouchedFilesAreSent, Due, Stays
    <3>1. Listed(p)
      BY <2>1 DEF Reached
    <3>2. Len(sent) = Len(list)
      BY <2>1 DEF Placed
    <3> QED
      BY <2>1, <3>1, <3>2 DEF Listed, AsListed, SentAs
  <2> QED
    BY <2>1, <2>2, NamesTell DEF UntouchedFilesArrive
<1> QED
  BY <1>1, Inductive, PTL

=============================================================================
