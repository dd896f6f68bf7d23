---------------------------- MODULE UploadProofs ----------------------------
(***************************************************************************)
(* Proofs about Upload, for any number of sessions, every request, and     *)
(* every content of the working directory.                                 *)
(***************************************************************************)
EXTENDS Upload, SequenceTheorems, FiniteSetTheorems, TLAPS

Entries == UNION {Range(r.entries) : r \in Requests}
EntryName == UNION {Range(e.path) : e \in Entries}
Bases == Existing \cup {Conf, "", "time", "rand"} \cup {x[2] : x \in EntryName}

\* every name that may be given to a file
AnyName == (Nat \cup Seconds) \X Bases
Paths == Seq(AnyName) \ {<<>>}

Labels == {"new", "list_old", "wipe", "temp", "mkdir", "file", "name", "open", "data",
           "ack", "list", "next", "move", "cut", "own"} \cup Ended

-----------------------------------------------------------------------------
(* The inductive invariant.                                                *)

Typed ==
  /\ DOMAIN disk \subseteq Paths
  /\ User \in DOMAIN content
  /\ request \in [Sessions -> Requests] /\ second \in [Sessions -> Seconds]
  /\ pc \in [Sessions -> Labels]
  /\ k \in [Sessions -> Nat \ {0}] /\ n \in [Sessions -> Nat]
  /\ \A s \in Sessions : k[s] <= Len(request[s].entries)
  /\ entry \in [Sessions -> AnyName] /\ tmp \in [Sessions -> AnyName]
  /\ path \in [Sessions -> Seq(AnyName)]
  /\ DOMAIN inode = Sessions
  /\ left \in [Sessions -> SUBSET AnyName]

UserAt(p) == p \in DOMAIN disk /\ disk[p] = User

\* the configuration file is to be kept out of the working directory
Guarded == ~WorkingDirSet /\ Conf \notin Existing

\* p may be written and removed
Free(p) == ~UserAt(p) /\ (Guarded => p[1] # Name(Conf))

\* the places where a session has a temporary directory
InTemp == {"mkdir", "file", "ack", "list", "next", "move"}

\* What a session is about to write or remove is not the user's.
StagedAt(s) ==
  /\ pc[s] \in {"list_old", "wipe"} => Headless
  /\ pc[s] \in InTemp \cup {"temp"} => Version(s) # 1
  /\ pc[s] \in InTemp \cup {"open", "data", "name"} /\ Version(s) # 1 => Free(<<tmp[s]>>)
  /\ pc[s] \in {"open", "data", "move"} => path[s] # <<>> /\ Free(path[s])
  /\ pc[s] = "data" => inode[s] # User

Staged == \A s \in Sessions : StagedAt(s)

\* The user's files are where they were, and nowhere else.
Kept ==
  /\ content[User] = User
  /\ \A p \in DOMAIN disk : disk[p] = User => \E x \in Existing : p = <<Name(x)>>
  /\ ~Headless => \A x \in Existing : UserAt(<<Name(x)>>)
  /\ Guarded => \A p \in DOMAIN disk : p[1] # Name(Conf)

IInv == Typed /\ Staged /\ Kept

-----------------------------------------------------------------------------
(* Names and requests.                                                     *)

LEMMA RequestNames ==
  ASSUME Typed, NEW s \in Sessions
  PROVE  /\ Entry(s) \in Entries /\ Entry(s).path \in Paths
         /\ Version(s) \in 1..4
         /\ Entry(s).path[1] \in AnyName
<1>1. request[s] \in Requests /\ k[s] \in 1..Len(request[s].entries)
  BY LenProperties DEF Typed
<1>2. /\ request[s].entries \in Seq(Range(request[s].entries))
      /\ request[s].version \in 1..4
      /\ \A e \in Range(request[s].entries) :
           /\ e.path \in Seq(Range(e.path)) /\ Len(e.path) > 0
           /\ \A x \in Range(e.path) : x = Name(x[2])
  BY <1>1, UploadAssumption
<1>3. Entry(s) \in Range(request[s].entries)
  BY <1>1, <1>2, ElementOfSeq DEF Entry
<1>4. Entry(s) \in Entries
  BY <1>1, <1>3 DEF Entries
<1>5. \A x \in Range(Entry(s).path) : x \in AnyName
  <2> SUFFICES ASSUME NEW x \in Range(Entry(s).path) PROVE x \in AnyName
    OBVIOUS
  <2>1. x = Name(x[2])
    BY <1>2, <1>3
  <2>2. x[2] \in Bases
    BY <1>4 DEF Bases, EntryName
  <2> HIDE DEF Bases
  <2> QED
    BY <2>1, <2>2 DEF Name, AnyName
<1>6. Entry(s).path \in Seq(AnyName) /\ Len(Entry(s).path) > 0
  BY <1>2, <1>3, <1>5, SeqMonotonic
<1>7. Entry(s).path # <<>>
  BY <1>6
<1>8. Len(Entry(s).path) \in Nat /\ 1 \in 1..Len(Entry(s).path)
  BY <1>6, LenProperties
<1>9. Entry(s).path[1] \in AnyName
  BY <1>6, <1>8, ElementOfSeq
<1> QED
  BY <1>1, <1>2, <1>4, <1>6, <1>7, <1>9 DEF Paths, Version

LEMMA NameTypes ==
  /\ NoName \in AnyName
  /\ \A x \in Existing \cup {Conf} : Name(x) \in AnyName
  /\ \A y \in AnyName, i \in Nat : Candidate(y, i) \in AnyName
  /\ \A i \in Nat : <<i, "rand">> \in AnyName
  /\ \A t \in Seconds : <<t, "time">> \in AnyName
<1>1. {Conf, "", "time", "rand"} \subseteq Bases /\ Existing \subseteq Bases
  BY DEF Bases
<1> HIDE DEF Bases
<1>2. NoName \in AnyName /\ \A x \in Existing \cup {Conf} : Name(x) \in AnyName
  BY <1>1 DEF NoName, Name, AnyName
<1>3. \A i \in Nat : <<i, "rand">> \in AnyName
  BY <1>1 DEF AnyName
<1>4. \A t \in Seconds : <<t, "time">> \in AnyName
  BY <1>1 DEF AnyName
<1>5. ASSUME NEW y \in AnyName, NEW i \in Nat
      PROVE  Candidate(y, i) \in AnyName
  <2>1. y[2] \in Bases /\ \A j \in Nat : Numbered(j, y) \in AnyName
    BY DEF AnyName, Numbered
  <2> QED
    BY <2>1 DEF Candidate
<1> QED
  BY <1>2, <1>3, <1>4, <1>5

\* A name that is given to an entry is not that of the configuration file,
\* nor is that of a temporary directory.
LEMMA NotConf ==
  ASSUME ~WorkingDirSet
  PROVE  /\ \A y \in AnyName, i \in Nat : Candidate(y, i) # Name(Conf)
         /\ \A t \in Seconds : <<t, "time">> # Name(Conf)
         /\ \A i \in Nat \ {0} : <<i, "rand">> # Name(Conf)
<1>1. \A i \in Nat \ {0} : \A x : <<i, x>> # Name(Conf)
  BY DEF Name
<1>2. \A t \in Seconds : <<t, "time">> # Name(Conf)
  BY UploadAssumption DEF Name
<1>3. ASSUME NEW y \in AnyName, NEW i \in Nat
      PROVE  Candidate(y, i) # Name(Conf)
  <2>1. \A j \in Nat \ {0} : Numbered(j, y) # Name(Conf)
    BY <1>1 DEF Numbered
  <2>2. CASE i > 0
    <3>1. Candidate(y, i) = Numbered(i, y)
      BY <2>2 DEF Candidate
    <3> QED
      BY <2>1, <2>2, <3>1
  <2>3. CASE i = 0 /\ y = Name(Conf)
    <3>1. Candidate(y, i) = Numbered(1, y)
      BY <2>3 DEF Candidate
    <3> QED
      BY <2>1, <3>1
  <2>4. CASE i = 0 /\ y # Name(Conf)
    <3>1. Candidate(y, i) = y
      BY <2>4 DEF Candidate
    <3> QED
      BY <2>4, <3>1
  <2> QED
    BY <2>2, <2>3, <2>4
<1> QED
  BY <1>1, <1>2, <1>3

-----------------------------------------------------------------------------
(* The tree.                                                               *)

\* A change of the tree that does the user's files no harm.
Harmless ==
  /\ \A p \in DOMAIN disk' :
       \/ p \in DOMAIN disk /\ (disk'[p] = User => disk[p] = User)
       \/ p \in Paths /\ disk'[p] # User /\ (Guarded => p[1] # Name(Conf))
  /\ ~Headless => \A p \in DOMAIN disk : disk[p] = User => p \in DOMAIN disk' /\ disk'[p] = User

LEMMA HarmlessSame == disk' = disk => Harmless
BY DEF Harmless

\* the first names of a path
LEMMA FirstNames ==
  ASSUME NEW p \in Paths, NEW q \in Path(p)
  PROVE  q \in Paths /\ q[1] = p[1]
<1>1. PICK j \in 1..Len(p) : q = SubSeq(p, 1, j)
  BY DEF Path
<1>2. p \in Seq(AnyName) /\ Len(p) \in Nat /\ j \in Nat \ {0} /\ j <= Len(p)
  BY LenProperties DEF Paths
<1>3. \A i \in 1..j : p[i] \in AnyName
  <2>1. \A i \in 1..j : i \in 1..Len(p)
    BY <1>2
  <2> QED
    BY <1>2, <2>1, ElementOfSeq
<1>4. /\ q \in Seq(AnyName) /\ Len(q) = IF 1 <= j THEN j - 1 + 1 ELSE 0
      /\ \A i \in 1..(j - 1 + 1) : q[i] = p[1 + i - 1]
  BY <1>1, <1>2, <1>3, SubSeqProperties
<1>5. Len(q) = j /\ q[1] = p[1]
  BY <1>2, <1>4
<1>6. q # <<>>
  BY <1>2, <1>5
<1> QED
  BY <1>4, <1>5, <1>6 DEF Paths

LEMMA MkDirsHarmless ==
  ASSUME Typed, Kept, NEW p \in Paths, Guarded => p[1] # Name(Conf), disk' = MkDirs(disk, p)
  PROVE  Harmless
<1>1. \A q \in Path(p) : q \in Paths /\ q[1] = p[1]
  BY FirstNames
<1>2. /\ DOMAIN disk' = DOMAIN disk \cup Path(p)
      /\ \A q \in DOMAIN disk' : disk'[q] = IF q \in DOMAIN disk THEN disk[q] ELSE Dir
  BY DEF MkDirs
<1>3. Dir # User
  BY DEF Dir, User
<1> QED
  BY <1>1, <1>2, <1>3 DEF Harmless

LEMMA WithHarmless ==
  ASSUME Typed, NEW p \in Paths, Free(p), NEW x, x # User, disk' = With(disk, p, x)
  PROVE  Harmless
BY DEF Harmless, With, Free, UserAt

LEMMA UnlinkHarmless ==
  ASSUME NEW p, ~UserAt(p), disk' = Unlink(disk, p)
  PROVE  Harmless
BY DEF Harmless, Unlink, Without, Restrict, UserAt

LEMMA WipeHarmless ==
  ASSUME Headless, NEW P, disk' = Without(disk, P)
  PROVE  Harmless
BY DEF Harmless, Without, Restrict

\* what Harmless keeps
LEMMA HarmlessKeeps ==
  ASSUME Typed, Kept, Harmless, content'[User] = content[User]
  PROVE  /\ Kept' /\ DOMAIN disk' \subseteq Paths
         /\ \A p : Free(p) => Free(p)'
<1>1. \A p : UserAt(p)' => UserAt(p)
  BY DEF Harmless, UserAt
<1>2. \A p : Free(p) => Free(p)'
  BY <1>1 DEF Free, Guarded
<1>3. DOMAIN disk' \subseteq Paths
  BY DEF Harmless, Typed
<1>4. \A p \in DOMAIN disk' : disk'[p] = User => \E x \in Existing : p = <<Name(x)>>
  BY <1>1 DEF Kept, UserAt
<1>5. ~Headless => \A x \in Existing : UserAt(<<Name(x)>>)'
  BY DEF Kept, UserAt, Harmless
<1>6. Guarded => \A p \in DOMAIN disk' : p[1] # Name(Conf)
  BY DEF Kept, Harmless
<1> QED
  BY <1>2, <1>3, <1>4, <1>5, <1>6 DEF Kept, Guarded

\* Prefixes, place by place.
LEMMA PrefixIff ==
  ASSUME NEW S, NEW s \in Seq(S), NEW t \in Seq(S)
  PROVE  IsPrefix(s, t) <=> /\ Len(s) <= Len(t)
                           /\ \A j \in 1..Len(s) : s[j] = t[j]
<1>1. /\ Len(s) \in Nat /\ Len(t) \in Nat
      /\ \A j \in 1..Len(s) : s[j] \in S /\ \A j1 \in 1..Len(t) : t[j1] \in S
  BY LenProperties, ElementOfSeq
<1>2. SubSeq(s, 1, Len(s)) = s
  BY SubSeqFull
<1>3. ASSUME Len(s) <= Len(t)
      PROVE  s = SubSeq(t, 1, Len(s)) <=> \A j \in 1..Len(s) : s[j] = t[j]
  <2> DEFINE u == SubSeq(t, 1, Len(s))
  <2>1. \A j \in 1..Len(s) : t[j] \in S
    <3>1. \A j \in 1..Len(s) : j \in 1..Len(t)
      BY <1>1, <1>3
    <3> QED
      BY <3>1, ElementOfSeq
  <2>2. /\ u \in Seq(S) /\ Len(u) = Len(s)
        /\ \A j \in 1..Len(s) : u[j] = t[j]
    <3>1. /\ u \in Seq(S) /\ Len(u) = IF 1 <= Len(s) THEN Len(s) - 1 + 1 ELSE 0
          /\ \A j \in 1..(Len(s) - 1 + 1) : u[j] = t[1 + j - 1]
      BY <1>1, <2>1, SubSeqProperties
    <3> HIDE DEF u
    <3> QED
      BY <1>1, <3>1
  <2> HIDE DEF u
  <2> QED
    BY <2>2, SeqEqual DEF u
<1> QED
  BY <1>2, <1>3 DEF IsPrefix

\* what follows the first m names
LEMMA Suffix ==
  ASSUME NEW S, NEW x \in Seq(S), NEW m \in 0..Len(x)
  PROVE  LET u == SubSeq(x, m + 1, Len(x)) IN
         /\ u \in Seq(S) /\ Len(u) = Len(x) - m
         /\ \A j \in 1..(Len(x) - m) : u[j] = x[m + j]
<1> DEFINE u == SubSeq(x, m + 1, Len(x))
<1>1. Len(x) \in Nat /\ m \in Nat /\ m <= Len(x)
  BY LenProperties
<1>2. \A j \in (m + 1)..Len(x) : x[j] \in S
  <2>1. \A j \in (m + 1)..Len(x) : j \in 1..Len(x)
    BY <1>1
  <2> QED
    BY <2>1, ElementOfSeq
<1>3. /\ u \in Seq(S)
      /\ Len(u) = IF m + 1 <= Len(x) THEN Len(x) - (m + 1) + 1 ELSE 0
      /\ \A j \in 1..(Len(x) - (m + 1) + 1) : u[j] = x[(m + 1) + j - 1]
  BY <1>1, <1>2, SubSeqProperties
<1> HIDE DEF u
<1>4. Len(u) = Len(x) - m
  BY <1>1, <1>3
<1>5. ASSUME NEW j \in 1..(Len(x) - m) PROVE u[j] = x[m + j]
  <2>1. j \in 1..(Len(x) - (m + 1) + 1) /\ (m + 1) + j - 1 = m + j
    BY <1>1
  <2> QED
    BY <1>3, <2>1
<1> QED
  BY <1>3, <1>4, <1>5 DEF u

\* What rename() does to a path below p: it comes to be below q, and is found
\* again from there.
LEMMA Moved ==
  ASSUME NEW S, NEW p \in Seq(S), NEW x \in Seq(S), NEW q \in Seq(S), IsPrefix(p, x), q # <<>>
  PROVE  LET r == q \o SubSeq(x, Len(p) + 1, Len(x)) IN
         /\ r \in Seq(S) /\ r # <<>> /\ r[1] = q[1]
         /\ p \o SubSeq(r, Len(q) + 1, Len(r)) = x
<1> DEFINE u == SubSeq(x, Len(p) + 1, Len(x))
           r == q \o u
           v == SubSeq(r, Len(q) + 1, Len(r))
           y == p \o v
<1>1. /\ Len(p) \in Nat /\ Len(x) \in Nat /\ Len(q) \in Nat \ {0}
      /\ Len(p) <= Len(x) /\ \A j \in 1..Len(p) : p[j] = x[j]
  BY LenProperties, PrefixIff, EmptySeq
<1>2. /\ u \in Seq(S) /\ Len(u) = Len(x) - Len(p)
      /\ \A j \in 1..(Len(x) - Len(p)) : u[j] = x[Len(p) + j]
  <2>1. Len(p) \in 0..Len(x)
    BY <1>1
  <2> QED
    BY <2>1, Suffix
<1> HIDE DEF u
<1>3. /\ r \in Seq(S) /\ Len(r) = Len(q) + Len(u)
      /\ \A j \in 1..(Len(q) + Len(u)) : r[j] = IF j <= Len(q) THEN q[j] ELSE u[j - Len(q)]
  BY <1>2, ConcatProperties
<1> HIDE DEF r
<1>4. r[1] = q[1] /\ r # <<>>
  <2>1. 1 \in 1..(Len(q) + Len(u)) /\ 1 <= Len(q) /\ Len(r) # 0
    BY <1>1, <1>2, <1>3
  <2> QED
    BY <1>3, <2>1
<1>5. /\ v \in Seq(S) /\ Len(v) = Len(r) - Len(q)
      /\ \A j \in 1..(Len(r) - Len(q)) : v[j] = r[Len(q) + j]
  <2>1. Len(q) \in 0..Len(r)
    BY <1>1, <1>2, <1>3
  <2> QED
    BY <1>3, <2>1, Suffix
<1> HIDE DEF v
<1>6. Len(v) = Len(u) /\ Len(u) \in Nat
  BY <1>1, <1>2, <1>3, <1>5
<1>7. ASSUME NEW j \in 1..Len(u) PROVE v[j] = x[Len(p) + j]
  <2>1. /\ j \in 1..(Len(r) - Len(q)) /\ Len(q) + j \in 1..(Len(q) + Len(u))
        /\ ~(Len(q) + j <= Len(q)) /\ (Len(q) + j) - Len(q) = j
        /\ j \in 1..(Len(x) - Len(p))
    BY <1>1, <1>2, <1>3, <1>6
  <2> QED
    BY <1>2, <1>3, <1>5, <2>1
<1>8. /\ y \in Seq(S) /\ Len(y) = Len(p) + Len(v)
      /\ \A j \in 1..(Len(p) + Len(v)) : y[j] = IF j <= Len(p) THEN p[j] ELSE v[j - Len(p)]
  BY <1>5, ConcatProperties
<1> HIDE DEF y
<1>9. Len(y) = Len(x)
  BY <1>1, <1>2, <1>6, <1>8
<1>10. ASSUME NEW j \in 1..Len(x) PROVE y[j] = x[j]
  <2>1. j \in 1..(Len(p) + Len(v))
    BY <1>8, <1>9
  <2>2. CASE j <= Len(p)
    <3>1. j \in 1..Len(p)
      BY <2>2
    <3> QED
      BY <1>1, <1>8, <2>1, <2>2, <3>1
  <2>3. CASE ~(j <= Len(p))
    <3>1. j - Len(p) \in 1..Len(u) /\ Len(p) + (j - Len(p)) = j
      BY <1>1, <1>2, <2>3
    <3>2. y[j] = v[j - Len(p)]
      BY <1>8, <2>1, <2>3
    <3> QED
      BY <1>7, <3>1, <3>2
  <2> QED
    BY <2>2, <2>3
<1>11. y = x
  BY <1>8, <1>9, <1>10, SeqEqual
<1> QED
  BY <1>3, <1>4, <1>11 DEF r, u, v, y

LEMMA MovedPath ==
  \A p, x, q \in Seq(AnyName) :
    IsPrefix(p, x) /\ q # <<>> =>
      LET r == q \o SubSeq(x, Len(p) + 1, Len(x)) IN
      /\ r \in Seq(AnyName) /\ r # <<>> /\ r[1] = q[1]
      /\ p \o SubSeq(r, Len(q) + 1, Len(r)) = x
<1> SUFFICES ASSUME NEW p \in Seq(AnyName), NEW x \in Seq(AnyName), NEW q \in Seq(AnyName),
                    IsPrefix(p, x), q # <<>>
             PROVE  LET r == q \o SubSeq(x, Len(p) + 1, Len(x)) IN
                    /\ r \in Seq(AnyName) /\ r # <<>> /\ r[1] = q[1]
                    /\ p \o SubSeq(r, Len(q) + 1, Len(r)) = x
  OBVIOUS
<1> DEFINE S == AnyName
<1> HIDE DEF S
<1>1. p \in Seq(S) /\ x \in Seq(S) /\ q \in Seq(S)
  BY DEF S
<1>2. LET r == q \o SubSeq(x, Len(p) + 1, Len(x)) IN
      /\ r \in Seq(S) /\ r # <<>> /\ r[1] = q[1]
      /\ p \o SubSeq(r, Len(q) + 1, Len(r)) = x
  BY <1>1, Moved, SMTT(60)
<1> QED
  BY <1>2 DEF S

LEMMA RenameHarmless ==
  ASSUME Typed, Kept, NEW t \in AnyName, NEW e \in AnyName, NEW q \in Paths, Free(q),
         disk' = Rename(disk, <<t, e>>, q)
  PROVE  Harmless
<1> DEFINE p == <<t, e>>
<1>1. p \in Seq(AnyName) /\ Len(p) = 2 /\ q \in Seq(AnyName) /\ q # <<>>
  BY DEF Paths
<1> HIDE DEF p
<1> DEFINE taken == Below(disk, p)
           kept == Without(disk, taken \cup {q})
           to(x) == q \o SubSeq(x, Len(p) + 1, Len(x))
           from(r) == p \o SubSeq(r, Len(q) + 1, Len(r))
<1>2. \A x \in taken : x \in DOMAIN disk /\ x \in Seq(AnyName) /\ IsPrefix(p, x)
  BY DEF Below, Typed, Paths
<1>3. ASSUME NEW x \in taken
      PROVE  to(x) \in Paths /\ to(x)[1] = q[1] /\ from(to(x)) = x
  <2>1. x \in Seq(AnyName) /\ IsPrefix(p, x)
    BY <1>2
  <2>2. /\ to(x) \in Seq(AnyName) /\ to(x) # <<>> /\ to(x)[1] = q[1]
        /\ p \o SubSeq(to(x), Len(q) + 1, Len(to(x))) = x
    <3>1. p \in Seq(AnyName) /\ q \in Seq(AnyName) /\ q # <<>>
      BY <1>1
    <3> HIDE DEF taken, kept, from, to
    <3>2. LET r == q \o SubSeq(x, Len(p) + 1, Len(x)) IN
          /\ r \in Seq(AnyName) /\ r # <<>> /\ r[1] = q[1]
          /\ p \o SubSeq(r, Len(q) + 1, Len(r)) = x
      BY <2>1, <3>1, MovedPath
    <3> QED
      BY <3>2 DEF to
  <2> QED
    BY <2>2 DEF Paths
<1>4. \A x \in taken : disk[x] # User
  <2> SUFFICES ASSUME NEW x \in taken, disk[x] = User PROVE FALSE
    OBVIOUS
  <2>1. PICK y \in Existing : x = <<Name(y)>>
    BY <1>2 DEF Kept
  <2>2. Len(x) = 1
    BY <2>1
  <2>3. Len(p) <= Len(x)
    BY <1>2 DEF IsPrefix
  <2> QED
    BY <1>1, <2>2, <2>3
<1>5. /\ DOMAIN kept = DOMAIN disk \ (taken \cup {q})
      /\ \A r \in DOMAIN kept : kept[r] = disk[r]
  BY DEF Without, Restrict
<1>6. disk' = [r \in DOMAIN kept \cup {to(x) : x \in taken} |->
                 IF r \in DOMAIN kept THEN kept[r] ELSE disk[from(r)]]
  BY DEF Rename, p
<1> HIDE DEF kept, to, from
<1>7. /\ DOMAIN disk' = DOMAIN kept \cup {to(x) : x \in taken}
      /\ \A r \in DOMAIN disk' : disk'[r] = IF r \in DOMAIN kept THEN disk[r] ELSE disk[from(r)]
  BY <1>5, <1>6
<1> HIDE DEF taken
<1>8. ASSUME NEW r \in DOMAIN disk'
      PROVE  \/ r \in DOMAIN disk /\ (disk'[r] = User => disk[r] = User)
             \/ r \in Paths /\ disk'[r] # User /\ (Guarded => r[1] # Name(Conf))
  <2>1. CASE r \in DOMAIN kept
    BY <1>5, <1>7, <2>1
  <2>2. CASE r \notin DOMAIN kept
    <3>1. PICK x \in taken : r = to(x)
      BY <1>7, <2>2
    <3>2. disk'[r] = disk[x]
      BY <1>3, <1>7, <2>2, <3>1
    <3> QED
      BY <1>3, <1>4, <3>1, <3>2 DEF Free
  <2> QED
    BY <2>1, <2>2
<1>9. ASSUME NEW r \in DOMAIN disk, disk[r] = User
      PROVE  r \in DOMAIN disk' /\ disk'[r] = User
  <2>1. r \notin taken /\ r # q
    BY <1>4, <1>9 DEF Free, UserAt
  <2> QED
    BY <1>5, <1>7, <1>9, <2>1
<1> QED
  BY <1>8, <1>9 DEF Harmless

-----------------------------------------------------------------------------
(* The steps of a session.                                                 *)

\* What a session's step leaves to be shown.
LEMMA StepKeeps ==
  ASSUME IInv, NEW s \in Sessions, Harmless, content'[User] = content[User],
         UNCHANGED request,
         \A q \in Sessions \ {s} : /\ pc'[q] = pc[q] /\ tmp'[q] = tmp[q]
                                   /\ path'[q] = path[q] /\ inode'[q] = inode[q],
         DOMAIN disk' \subseteq Paths => Typed',
         (\A p : Free(p) => Free(p)') => StagedAt(s)'
  PROVE  IInv'
<1>1. Typed /\ Staged /\ Kept
  BY DEF IInv
<1>2. /\ Kept' /\ DOMAIN disk' \subseteq Paths
      /\ \A p : Free(p) => Free(p)'
  BY <1>1, HarmlessKeeps
<1>3. ASSUME NEW q \in Sessions \ {s}
      PROVE  StagedAt(q)'
  <2>1. StagedAt(q)
    BY <1>1 DEF Staged
  <2>2. /\ pc'[q] = pc[q] /\ tmp'[q] = tmp[q] /\ path'[q] = path[q] /\ inode'[q] = inode[q]
        /\ Version(q)' = Version(q)
    BY DEF Version
  <2> QED
    BY <1>2, <2>1, <2>2 DEF StagedAt
<1>4. Staged'
  BY <1>2, <1>3 DEF Staged
<1> QED
  BY <1>2, <1>4 DEF IInv

\* A step that leaves the files alone.
LEMMA QuietKeeps ==
  ASSUME IInv, NEW s \in Sessions, UNCHANGED <<disk, content, request>>,
         \A q \in Sessions \ {s} : /\ pc'[q] = pc[q] /\ tmp'[q] = tmp[q]
                                   /\ path'[q] = path[q] /\ inode'[q] = inode[q],
         Typed', StagedAt(s)'
  PROVE  IInv'
BY StepKeeps, HarmlessSame

LEMMA FailedGoes ==
  ASSUME Typed, NEW s \in Sessions, Failed(s)
  PROVE  /\ pc' \in [Sessions -> Labels] /\ \A q \in Sessions \ {s} : pc'[q] = pc[q]
         /\ Version(s) = 1 => pc'[s] = "done"
         /\ Version(s) # 1 => pc'[s] = "list"
BY DEF Failed, Goto, Typed, Labels, Ended

LEMMA AdvanceGoes ==
  ASSUME Typed, NEW s \in Sessions, Advance(s)
  PROVE  /\ pc' \in [Sessions -> Labels] /\ \A q \in Sessions \ {s} : pc'[q] = pc[q]
         /\ k' \in [Sessions -> Nat \ {0}] /\ \A q \in Sessions : k'[q] <= Len(request[q].entries)
         /\ Version(s) = 1 => pc'[s] = "cut"
         /\ Version(s) # 1 => pc'[s] \in {"file", "ack", "list"}
<1>1. /\ pc \in [Sessions -> Labels] /\ k \in [Sessions -> Nat \ {0}]
      /\ \A q \in Sessions : k[q] <= Len(request[q].entries)
      /\ \A q \in Sessions : request[q] \in Requests
  BY DEF Typed
<1>2. /\ Len(request[s].entries) \in Nat
      /\ Version(s) = 1 => Len(request[s].entries) = 1
  BY <1>1, UploadAssumption, LenProperties DEF Version
<1>3. CASE k[s] < Len(request[s].entries)
  <2>1. k' = [k EXCEPT ![s] = @ + 1] /\ pc' = [pc EXCEPT ![s] = "file"]
    BY <1>3 DEF Advance, Goto
  <2>2. Version(s) # 1
    <3> SUFFICES ASSUME Version(s) = 1 PROVE FALSE
      OBVIOUS
    <3>1. k[s] \in Nat \ {0}
      BY <1>1
    <3>2. k[s] < 1
      BY <1>2, <1>3
    <3> QED
      BY <3>1, <3>2
  <2>3. k' \in [Sessions -> Nat \ {0}]
    BY <1>1, <2>1
  <2>4. \A q \in Sessions : k'[q] <= Len(request[q].entries)
    BY <1>1, <1>2, <1>3, <2>1
  <2>5. pc' \in [Sessions -> Labels] /\ pc'[s] = "file" /\ \A q \in Sessions \ {s} : pc'[q] = pc[q]
    BY <1>1, <2>1 DEF Labels
  <2> QED
    BY <2>2, <2>3, <2>4, <2>5
<1>4. CASE ~(k[s] < Len(request[s].entries))
  <2> DEFINE label == CASE Version(s) = 1 -> "cut"
                        [] Version(s) = 4 -> "ack"
                        [] OTHER -> "list"
  <2>1. /\ label \in {"cut", "ack", "list"}
        /\ Version(s) = 1 => label = "cut"
        /\ Version(s) # 1 => label \in {"ack", "list"}
    OBVIOUS
  <2>2. k' = k /\ pc' = [pc EXCEPT ![s] = label]
    BY <1>4 DEF Advance, Goto
  <2> HIDE DEF label
  <2>3. pc' \in [Sessions -> Labels] /\ pc'[s] = label /\ \A q \in Sessions \ {s} : pc'[q] = pc[q]
    BY <1>1, <2>1, <2>2 DEF Labels
  <2> QED
    BY <1>1, <2>1, <2>2, <2>3
<1> QED
  BY <1>3, <1>4

LEMMA BeginHolds ==
  ASSUME IInv, NEW s \in Sessions, Begin(s)
  PROVE  IInv'
<1>1. Typed /\ StagedAt(s)
  BY DEF IInv, Staged
<1>2. Entry(s).path[1] \in AnyName /\ NoName \in AnyName
  BY <1>1, RequestNames, NameTypes
<1>3. Typed'
  BY <1>1, <1>2 DEF Begin, Typed, Goto, First, Labels
<1>4. StagedAt(s)'
  BY <1>1 DEF StagedAt, Begin, Goto, First, Version, InTemp, Typed
<1> QED
  BY <1>1, <1>3, <1>4, QuietKeeps DEF Begin, Goto, Typed

LEMMA OldHolds ==
  ASSUME IInv, NEW s \in Sessions, ListOld(s) \/ Wipe(s)
  PROVE  IInv'
<1>1. Typed /\ StagedAt(s)
  BY DEF IInv, Staged
<1>2. CASE ListOld(s)
  <2>1. {p[1] : p \in Children(disk, <<>>)} \subseteq AnyName
    <3> SUFFICES ASSUME NEW p \in DOMAIN disk PROVE p[1] \in AnyName
      BY DEF Children, Below
    <3>1. p \in Seq(AnyName) /\ p # <<>>
      BY <1>1 DEF Typed, Paths
    <3>2. 1 \in 1..Len(p)
      BY <3>1, LenProperties, EmptySeq
    <3> QED
      BY <3>1, <3>2, ElementOfSeq
  <2> DEFINE names == {p[1] : p \in Children(disk, <<>>)}
  <2>2. left' = [left EXCEPT ![s] = names] /\ pc' = [pc EXCEPT ![s] = "wipe"]
    BY <1>2 DEF ListOld, Goto
  <2> HIDE DEF names
  <2>3. Typed'
    BY <1>1, <1>2, <2>1, <2>2 DEF ListOld, Typed, Labels, names
  <2>4. StagedAt(s)'
    BY <1>1, <1>2, <2>2 DEF StagedAt, ListOld, At, InTemp, Typed, Version
  <2> QED
    BY <1>1, <1>2, <2>2, <2>3, <2>4, QuietKeeps DEF ListOld, Typed
<1>3. CASE Wipe(s)
  <2>1. Headless
    BY <1>1, <1>3 DEF Wipe, StagedAt, At
  <2>2. Harmless
    BY <1>3, <2>1, WipeHarmless, HarmlessSame DEF Wipe
  <2>3. pc' = [pc EXCEPT ![s] = First(s)] \/ UNCHANGED pc
    BY <1>3 DEF Wipe, Goto
  <2>4. ASSUME DOMAIN disk' \subseteq Paths PROVE Typed'
    <3>1. left' \in [Sessions -> SUBSET AnyName]
      <4>1. left' = left \/ \E x \in left[s] : left' = [left EXCEPT ![s] = @ \ {x}]
        BY <1>3 DEF Wipe
      <4>2. left \in [Sessions -> SUBSET AnyName]
        BY <1>1 DEF Typed
      <4> QED
        BY <4>1, <4>2
    <3>2. pc' \in [Sessions -> Labels]
      BY <1>1, <2>3 DEF Typed, Labels, First
    <3> QED
      BY <1>1, <1>3, <2>4, <3>1, <3>2 DEF Wipe, Typed
  <2>5. ASSUME \A p : Free(p) => Free(p)' PROVE StagedAt(s)'
    <3>1. pc[s] = "wipe" /\ pc'[s] \in {"wipe", First(s)} /\ Version(s)' = Version(s)
      BY <1>1, <1>3, <2>3 DEF Wipe, At, Typed, Version
    <3> QED
      BY <2>1, <3>1 DEF StagedAt, First, InTemp
  <2>6. content' = content /\ UNCHANGED <<request, tmp, path, inode>>
    BY <1>3 DEF Wipe
  <2>7. \A q \in Sessions \ {s} : pc'[q] = pc[q]
    BY <1>1, <2>3 DEF Typed
  <2>8. DOMAIN disk' \subseteq Paths => Typed'
    BY <2>4
  <2>9. (\A p : Free(p) => Free(p)') => StagedAt(s)'
    BY <2>5
  <2> QED
    BY <2>2, <2>6, <2>7, <2>8, <2>9, StepKeeps
<1> QED
  BY <1>2, <1>3

LEMMA NameHolds ==
  ASSUME IInv, NEW s \in Sessions, NameTaken(s) \/ NoNameLeft(s) \/ NameFree(s)
  PROVE  IInv'
<1>1. Typed /\ StagedAt(s)
  BY DEF IInv, Staged
<1>2. CASE NameTaken(s)
  <2>1. n' \in [Sessions -> Nat]
    BY <1>1, <1>2 DEF NameTaken, Typed
  <2>2. Typed'
    BY <1>1, <1>2, <2>1 DEF NameTaken, Typed
  <2>3. StagedAt(s)'
    BY <1>1, <1>2 DEF StagedAt, NameTaken, Free, UserAt, Version
  <2> QED
    BY <1>2, <2>2, <2>3, QuietKeeps DEF NameTaken
<1>3. CASE NoNameLeft(s)
  <2>1. Typed'
    BY <1>1, <1>3 DEF NoNameLeft, Typed, Goto, Labels, Ended
  <2>2. pc[s] = "name" /\ pc'[s] = IF Version(s) = 1 THEN "done" ELSE "next"
    BY <1>1, <1>3 DEF NoNameLeft, At, Goto, Typed
  <2>3. StagedAt(s)'
    BY <1>1, <1>3, <2>2 DEF StagedAt, NoNameLeft, Free, UserAt, Version, InTemp
  <2> QED
    BY <1>1, <1>3, <2>1, <2>3, QuietKeeps DEF NoNameLeft, Goto, Typed
<1>4. CASE NameFree(s)
  <2> DEFINE name == Candidate(entry[s], n[s])
  <2>1. name \in AnyName /\ (~WorkingDirSet => name # Name(Conf))
    BY <1>1, NameTypes, NotConf DEF Typed
  <2>2. /\ pc[s] = "name" /\ ~Exists(disk, <<name>>)
        /\ path' = [path EXCEPT ![s] = <<name>>]
        /\ pc' = [pc EXCEPT ![s] = IF Version(s) = 1 THEN "open" ELSE "move"]
        /\ UNCHANGED <<disk, content, request, second, k, n, entry, inode, tmp, left>>
    BY <1>4 DEF NameFree, At, Goto
  <2> HIDE DEF name
  <2>3. <<name>> \in Seq(AnyName) /\ <<name>> # <<>> /\ <<name>>[1] = name
    BY <2>1
  <2> DEFINE p == <<name>>
  <2>4. p \in Seq(AnyName) /\ p # <<>> /\ p[1] = name
    BY <2>3
  <2>5. Free(p)
    BY <2>1, <2>2, <2>4 DEF Free, UserAt, Exists, Guarded
  <2>6. path' = [path EXCEPT ![s] = p]
    BY <2>2
  <2> HIDE DEF p
  <2>7. path' \in [Sessions -> Seq(AnyName)] /\ pc' \in [Sessions -> Labels]
        /\ path'[s] = p /\ pc'[s] = IF Version(s) = 1 THEN "open" ELSE "move"
    BY <1>1, <2>2, <2>4, <2>6 DEF Typed, Labels
  <2>8. Typed'
    BY <1>1, <2>2, <2>7 DEF Typed
  <2>9. StagedAt(s)'
    BY <1>1, <2>2, <2>4, <2>5, <2>7 DEF StagedAt, Free, UserAt, Version, InTemp
  <2>10. \A q \in Sessions \ {s} : pc'[q] = pc[q] /\ path'[q] = path[q]
    BY <1>1, <2>2, <2>6 DEF Typed
  <2> QED
    BY <2>2, <2>8, <2>9, <2>10, QuietKeeps
<1> QED
  BY <1>2, <1>3, <1>4

LEMMA TempHolds ==
  ASSUME IInv, NEW s \in Sessions, TempTaken(s) \/ TempFree(s) \/ MakeTemp(s)
  PROVE  IInv'
<1>1. Typed /\ StagedAt(s) /\ Kept
  BY DEF IInv, Staged
<1>2. CASE TempTaken(s)
  <2>1. n' \in [Sessions -> Nat]
    BY <1>1, <1>2 DEF TempTaken, Typed
  <2>2. Typed'
    BY <1>1, <1>2, <2>1 DEF TempTaken, Typed
  <2>3. StagedAt(s)'
    BY <1>1, <1>2 DEF StagedAt, TempTaken, Free, UserAt, Version
  <2> QED
    BY <1>2, <2>2, <2>3, QuietKeeps DEF TempTaken
<1>3. CASE TempFree(s)
  <2> DEFINE name == TempName(s, n[s])
  <2>1. name \in AnyName /\ (~WorkingDirSet => name # Name(Conf))
    <3>1. n[s] \in Nat /\ second[s] \in Seconds
      BY <1>1 DEF Typed
    <3>2. CASE n[s] = 0
      BY <3>1, <3>2, NameTypes, NotConf DEF TempName
    <3>3. CASE n[s] # 0
      BY <3>1, <3>3, NameTypes, NotConf DEF TempName
    <3> QED
      BY <3>2, <3>3
  <2>2. /\ pc[s] = "temp" /\ ~Exists(disk, <<name>>)
        /\ tmp' = [tmp EXCEPT ![s] = name]
        /\ pc' = [pc EXCEPT ![s] = "mkdir"]
        /\ UNCHANGED <<disk, content, request, second, k, n, entry, path, inode, left>>
    BY <1>3 DEF TempFree, At, Goto
  <2> HIDE DEF name
  <2>3. <<name>>[1] = name
    OBVIOUS
  <2>4. Free(<<name>>)
    BY <2>1, <2>2, <2>3 DEF Free, UserAt, Exists, Guarded
  <2>5. tmp' \in [Sessions -> AnyName] /\ pc' \in [Sessions -> Labels]
        /\ tmp'[s] = name /\ pc'[s] = "mkdir"
        /\ \A q \in Sessions \ {s} : tmp'[q] = tmp[q] /\ pc'[q] = pc[q]
    BY <1>1, <2>1, <2>2 DEF Typed, Labels
  <2>6. Typed'
    BY <1>1, <2>2, <2>5 DEF Typed
  <2>7. StagedAt(s)'
    <3>1. Free(<<tmp[s]>>)' /\ Version(s) # 1 /\ Version(s)' = Version(s)
      BY <1>1, <2>2, <2>4, <2>5 DEF Free, UserAt, Guarded, StagedAt, Version
    <3> QED
      BY <2>5, <3>1 DEF StagedAt
  <2> QED
    BY <2>2, <2>5, <2>6, <2>7, QuietKeeps
<1>4. CASE MakeTemp(s)
  <2>1. /\ pc[s] = "mkdir" /\ Version(s) # 1 /\ Free(<<tmp[s]>>)
        /\ UNCHANGED <<content, request, second, k, n, entry, path, inode, tmp, left>>
        /\ \/ disk' = MkDirs(disk, <<tmp[s]>>) /\ pc' = [pc EXCEPT ![s] = "file"]
           \/ disk' = disk /\ pc' = [pc EXCEPT ![s] = "done"]
    BY <1>1, <1>4 DEF MakeTemp, At, Goto, StagedAt, InTemp
  <2>2. Harmless
    <3> DEFINE p == <<tmp[s]>>
    <3>1. tmp[s] \in AnyName
      BY <1>1 DEF Typed
    <3>2. p \in Paths /\ (Guarded => p[1] # Name(Conf))
      BY <2>1, <3>1 DEF Paths, Free
    <3>3. disk' = MkDirs(disk, p) \/ disk' = disk
      BY <2>1
    <3> HIDE DEF p
    <3> QED
      BY <1>1, <3>2, <3>3, MkDirsHarmless, HarmlessSame
  <2>3. pc' \in [Sessions -> Labels] /\ pc'[s] \in {"file", "done"}
        /\ \A q \in Sessions \ {s} : pc'[q] = pc[q]
    BY <1>1, <2>1 DEF Typed, Labels, Ended
  <2>4. ASSUME DOMAIN disk' \subseteq Paths PROVE Typed'
    BY <1>1, <2>1, <2>3, <2>4 DEF Typed
  <2>5. ASSUME \A p : Free(p) => Free(p)' PROVE StagedAt(s)'
    <3>1. Free(<<tmp[s]>>)' /\ Version(s)' = Version(s)
      BY <2>1, <2>5 DEF Version
    <3> QED
      BY <2>1, <2>3, <3>1 DEF StagedAt
  <2> QED
    BY <2>1, <2>2, <2>3, <2>4, <2>5, StepKeeps
<1> QED
  BY <1>2, <1>3, <1>4

LEMMA FilePlaceHolds ==
  ASSUME IInv, NEW s \in Sessions, FilePlace(s)
  PROVE  IInv'
<1>1. Typed /\ StagedAt(s) /\ Kept
  BY DEF IInv, Staged
<1> DEFINE p == <<tmp[s]>> \o Entry(s).path
<1>2. /\ pc[s] = "file" /\ Version(s) # 1 /\ Free(<<tmp[s]>>)
      /\ disk' = MkDirs(disk, Front(p))
      /\ \/ Failed(s) /\ UNCHANGED path
         \/ ~Exists(disk, p) /\ path' = [path EXCEPT ![s] = p] /\ pc' = [pc EXCEPT ![s] = "open"]
      /\ UNCHANGED <<content, request, second, k, n, entry, inode, tmp, left>>
  BY <1>1 DEF FilePlace, At, Goto, StagedAt, InTemp
<1>3. p \in Paths /\ Front(p) \in Paths /\ p[1] = tmp[s] /\ Front(p)[1] = tmp[s]
  <2> DEFINE e == Entry(s).path
             t == <<tmp[s]>>
  <2>1. e \in Seq(AnyName) /\ e # <<>>
    BY <1>1, RequestNames DEF Paths
  <2>2. t \in Seq(AnyName) /\ Len(t) = 1 /\ t[1] = tmp[s]
    BY <1>1 DEF Typed
  <2> HIDE DEF e, t
  <2> DEFINE r == t \o e
  <2>3. /\ r \in Seq(AnyName) /\ Len(r) = Len(t) + Len(e)
        /\ \A j \in 1..(Len(t) + Len(e)) : r[j] = IF j <= Len(t) THEN t[j] ELSE e[j - Len(t)]
    BY <2>1, <2>2, ConcatProperties
  <2>4. Len(e) \in Nat \ {0}
    BY <2>1, LenProperties, EmptySeq
  <2> HIDE DEF r
  <2>5. Len(r) >= 2 /\ r[1] = tmp[s] /\ Len(r) \in Nat
    <3>1. 1 \in 1..(Len(t) + Len(e)) /\ 1 <= Len(t)
      BY <2>2, <2>4
    <3> QED
      BY <2>2, <2>3, <2>4, <3>1
  <2>6. r \in Paths
    BY <2>3, <2>5 DEF Paths
  <2>7. Front(r) \in Path(r)
    <3>1. Len(r) - 1 \in 1..Len(r)
      BY <2>5
    <3> QED
      BY <3>1 DEF Front, Path
  <2>8. Front(r) \in Paths /\ Front(r)[1] = tmp[s]
    BY <2>5, <2>6, <2>7, FirstNames
  <2> QED
    BY <2>5, <2>6, <2>8 DEF r, e, t
<1> HIDE DEF p
<1>4. Guarded => tmp[s] # Name(Conf)
  BY <1>2 DEF Free
<1>5. Harmless
  BY <1>1, <1>2, <1>3, <1>4, MkDirsHarmless
<1>6. /\ pc' \in [Sessions -> Labels] /\ path' \in [Sessions -> Seq(AnyName)]
      /\ \A q \in Sessions \ {s} : pc'[q] = pc[q] /\ path'[q] = path[q]
      /\ pc'[s] \in {"open", "list"}
      /\ pc'[s] = "open" => path'[s] = p /\ ~Exists(disk, p)
  <2>1. CASE Failed(s) /\ UNCHANGED path
    BY <1>1, <1>2, <2>1, FailedGoes DEF Typed
  <2>2. CASE ~Exists(disk, p) /\ path' = [path EXCEPT ![s] = p] /\ pc' = [pc EXCEPT ![s] = "open"]
    BY <1>1, <1>3, <2>2 DEF Typed, Labels, Paths
  <2> QED
    BY <1>2, <2>1, <2>2
<1>7. ASSUME DOMAIN disk' \subseteq Paths PROVE Typed'
  BY <1>1, <1>2, <1>6, <1>7 DEF Typed
<1>8. ASSUME \A q : Free(q) => Free(q)' PROVE StagedAt(s)'
  <2>1. Free(<<tmp[s]>>)' /\ Version(s)' = Version(s)
    BY <1>2, <1>8 DEF Version
  <2>2. pc'[s] = "open" => path'[s] # <<>> /\ Free(path[s])'
    <3>1. ~Exists(disk, p) => Free(p)
      BY <1>3, <1>4 DEF Free, UserAt, Exists
    <3> QED
      BY <1>3, <1>6, <1>8, <3>1 DEF Paths
  <2> QED
    BY <1>2, <1>6, <2>1, <2>2 DEF StagedAt, InTemp
<1> QED
  BY <1>2, <1>5, <1>6, <1>7, <1>8, StepKeeps

LEMMA RefusedHolds ==
  ASSUME IInv, NEW s \in Sessions, FileRefused(s)
  PROVE  IInv'
<1>1. Typed /\ StagedAt(s)
  BY DEF IInv, Staged
<1>2. pc[s] \in {"file", "open"} /\ Failed(s)
      /\ UNCHANGED <<disk, content, request, second, k, n, entry, path, inode, tmp, left>>
  BY DEF FileRefused, At
<1>3. /\ pc' \in [Sessions -> Labels] /\ \A q \in Sessions \ {s} : pc'[q] = pc[q]
      /\ Version(s) = 1 => pc'[s] = "done"
      /\ Version(s) # 1 => pc'[s] = "list"
  BY <1>1, <1>2, FailedGoes
<1>4. Typed'
  BY <1>1, <1>2, <1>3 DEF Typed
<1>5. StagedAt(s)'
  BY <1>1, <1>2, <1>3 DEF StagedAt, InTemp, Version, Free, UserAt
<1> QED
  BY <1>2, <1>3, <1>4, <1>5, QuietKeeps

LEMMA OpenHolds ==
  ASSUME IInv, NEW s \in Sessions, OpenFile(s)
  PROVE  IInv'
<1>1. Typed /\ StagedAt(s) /\ Kept
  BY DEF IInv, Staged
<1> DEFINE i == IF Exists(disk, path[s]) THEN disk[path[s]] ELSE Upload(s)
<1>2. /\ pc[s] = "open"
      /\ inode' = [inode EXCEPT ![s] = i]
      /\ disk' = With(disk, path[s], i)
      /\ content' = [content EXCEPT ![i] = Nothing]
      /\ pc' = [pc EXCEPT ![s] = "data"]
      /\ UNCHANGED <<request, second, k, n, entry, path, tmp, left>>
  BY DEF OpenFile, At, Goto
<1>3. path[s] # <<>> /\ path[s] \in Paths /\ Free(path[s])
  BY <1>1, <1>2 DEF StagedAt, Typed, Paths
<1>4. i # User
  <2>1. Upload(s) # User
    <3>1. k[s] # 0
      BY <1>1 DEF Typed
    <3> QED
      BY <3>1 DEF Upload, User
  <2> QED
    BY <1>3, <2>1 DEF Free, UserAt, Exists
<1> HIDE DEF i
<1>5. Harmless
  BY <1>1, <1>2, <1>3, <1>4, WithHarmless
<1>6. /\ content'[User] = content[User] /\ DOMAIN content' = DOMAIN content
  BY <1>1, <1>2, <1>4 DEF Typed
<1>7. /\ pc' \in [Sessions -> Labels] /\ pc'[s] = "data" /\ inode'[s] = i
      /\ DOMAIN inode' = Sessions
      /\ \A q \in Sessions \ {s} : pc'[q] = pc[q] /\ inode'[q] = inode[q]
  BY <1>1, <1>2 DEF Typed, Labels
<1>8. ASSUME DOMAIN disk' \subseteq Paths PROVE Typed'
  BY <1>1, <1>2, <1>6, <1>7, <1>8 DEF Typed
<1>9. ASSUME \A p : Free(p) => Free(p)' PROVE StagedAt(s)'
  <2>1. Free(path[s])' /\ Version(s)' = Version(s) /\ path'[s] # <<>>
    BY <1>2, <1>3, <1>9 DEF Version
  <2>2. Version(s) # 1 => Free(<<tmp[s]>>)'
    BY <1>1, <1>2, <1>9 DEF StagedAt
  <2> QED
    BY <1>4, <1>7, <2>1, <2>2 DEF StagedAt, InTemp
<1> QED
  BY <1>2, <1>5, <1>6, <1>7, <1>8, <1>9, StepKeeps

LEMMA MakeDirectoryHolds ==
  ASSUME IInv, NEW s \in Sessions, MakeDirectory(s)
  PROVE  IInv'
<1>1. Typed /\ StagedAt(s) /\ Kept
  BY DEF IInv, Staged
<1>2. /\ pc[s] = "open" /\ disk' = MkDirs(disk, path[s]) /\ Advance(s)
      /\ UNCHANGED <<content, request, second, n, entry, path, inode, tmp, left>>
  BY DEF MakeDirectory, At
<1>3. path[s] \in Paths /\ Free(path[s]) /\ (Version(s) # 1 => Free(<<tmp[s]>>))
  BY <1>1, <1>2 DEF StagedAt, Typed, Paths
<1>4. Harmless
  BY <1>1, <1>2, <1>3, MkDirsHarmless DEF Free
<1>5. /\ pc' \in [Sessions -> Labels] /\ \A q \in Sessions \ {s} : pc'[q] = pc[q]
      /\ k' \in [Sessions -> Nat \ {0}] /\ \A q \in Sessions : k'[q] <= Len(request[q].entries)
      /\ Version(s) = 1 => pc'[s] = "cut"
      /\ Version(s) # 1 => pc'[s] \in {"file", "ack", "list"}
  BY <1>1, <1>2, AdvanceGoes
<1>6. ASSUME DOMAIN disk' \subseteq Paths PROVE Typed'
  BY <1>1, <1>2, <1>5, <1>6 DEF Typed
<1>7. ASSUME \A p : Free(p) => Free(p)' PROVE StagedAt(s)'
  <2>1. (Version(s) # 1 => Free(<<tmp[s]>>)') /\ Version(s)' = Version(s)
    BY <1>2, <1>3, <1>7 DEF Version
  <2> QED
    BY <1>5, <2>1 DEF StagedAt, InTemp
<1> QED
  BY <1>2, <1>4, <1>5, <1>6, <1>7, StepKeeps

LEMMA DataHolds ==
  ASSUME IInv, NEW s \in Sessions, DataReceived(s) \/ DataFailed(s)
  PROVE  IInv'
<1>1. Typed /\ StagedAt(s) /\ Kept
  BY DEF IInv, Staged
<1>2. pc[s] = "data"
  BY DEF DataReceived, DataFailed, At
<1>3. inode[s] # User /\ Free(path[s]) /\ (Version(s) # 1 => Free(<<tmp[s]>>))
  BY <1>1, <1>2 DEF StagedAt
<1>4. CASE DataReceived(s)
  <2>1. /\ content' = [content EXCEPT ![inode[s]] = Upload(s)] /\ Advance(s)
        /\ UNCHANGED <<disk, request, second, n, entry, path, inode, tmp, left>>
    BY <1>4 DEF DataReceived
  <2>2. content'[User] = content[User] /\ DOMAIN content' = DOMAIN content
    BY <1>1, <1>3, <2>1 DEF Typed
  <2>3. /\ pc' \in [Sessions -> Labels] /\ \A q \in Sessions \ {s} : pc'[q] = pc[q]
        /\ k' \in [Sessions -> Nat \ {0}] /\ \A q \in Sessions : k'[q] <= Len(request[q].entries)
        /\ Version(s) = 1 => pc'[s] = "cut"
        /\ Version(s) # 1 => pc'[s] \in {"file", "ack", "list"}
    BY <1>1, <2>1, AdvanceGoes
  <2>4. ASSUME DOMAIN disk' \subseteq Paths PROVE Typed'
    BY <1>1, <2>1, <2>2, <2>3, <2>4 DEF Typed
  <2>5. ASSUME \A p : Free(p) => Free(p)' PROVE StagedAt(s)'
    <3>1. (Version(s) # 1 => Free(<<tmp[s]>>)') /\ Version(s)' = Version(s)
      BY <1>3, <2>1, <2>5 DEF Version
    <3> QED
      BY <2>3, <3>1 DEF StagedAt, InTemp
  <2> QED
    BY <2>1, <2>2, <2>3, <2>4, <2>5, StepKeeps, HarmlessSame
<1>5. CASE DataFailed(s)
  <2>1. /\ disk' = Unlink(disk, path[s]) /\ Failed(s)
        /\ UNCHANGED <<content, request, second, k, n, entry, path, inode, tmp, left>>
    BY <1>5 DEF DataFailed
  <2>2. Harmless
    BY <1>3, <2>1, UnlinkHarmless DEF Free
  <2>3. /\ pc' \in [Sessions -> Labels] /\ \A q \in Sessions \ {s} : pc'[q] = pc[q]
        /\ Version(s) = 1 => pc'[s] = "done"
        /\ Version(s) # 1 => pc'[s] = "list"
    BY <1>1, <2>1, FailedGoes
  <2>4. ASSUME DOMAIN disk' \subseteq Paths PROVE Typed'
    BY <1>1, <2>1, <2>3, <2>4 DEF Typed
  <2>5. ASSUME \A p : Free(p) => Free(p)' PROVE StagedAt(s)'
    <3>1. (Version(s) # 1 => Free(<<tmp[s]>>)') /\ Version(s)' = Version(s)
      BY <1>3, <2>1, <2>5 DEF Version
    <3> QED
      BY <2>3, <3>1 DEF StagedAt, InTemp
  <2> QED
    BY <2>1, <2>2, <2>3, <2>4, <2>5, StepKeeps
<1> QED
  BY <1>4, <1>5

LEMMA EndHolds ==
  ASSUME IInv, NEW s \in Sessions, Ack(s) \/ Cut(s) \/ LoseSelection(s) \/ Kill(s)
  PROVE  IInv'
<1>1. Typed /\ StagedAt(s)
  BY DEF IInv, Staged
<1>2. /\ UNCHANGED <<disk, content, request, second, k, n, entry, path, inode, tmp, left>>
      /\ \/ pc[s] = "ack" /\ pc' = [pc EXCEPT ![s] = "list"]
         \/ \E label \in {"own", "done", "killed"} : pc' = [pc EXCEPT ![s] = label]
  BY DEF Ack, Cut, LoseSelection, Kill, locals, At, Goto
<1>3. /\ pc' \in [Sessions -> Labels] /\ \A q \in Sessions \ {s} : pc'[q] = pc[q]
      /\ (pc'[s] = "list" /\ pc[s] = "ack") \/ pc'[s] \in {"own", "done", "killed"}
  BY <1>1, <1>2 DEF Typed, Labels, Ended
<1>4. Typed'
  BY <1>1, <1>2, <1>3 DEF Typed
<1>5. StagedAt(s)'
  <2>1. pc'[s] = "list" => Version(s) # 1 /\ Free(<<tmp[s]>>)
    BY <1>1, <1>3 DEF StagedAt, InTemp
  <2>2. (Free(<<tmp[s]>>) => Free(<<tmp[s]>>)') /\ Version(s)' = Version(s)
    BY <1>2 DEF Free, UserAt, Version
  <2> QED
    BY <1>3, <2>1, <2>2 DEF StagedAt, InTemp
<1> QED
  BY <1>2, <1>3, <1>4, <1>5, QuietKeeps

LEMMA ListTempHolds ==
  ASSUME IInv, NEW s \in Sessions, ListTemp(s)
  PROVE  IInv'
<1>1. Typed /\ StagedAt(s) /\ Kept
  BY DEF IInv, Staged
<1> DEFINE names == {p[2] : p \in Children(disk, <<tmp[s]>>)}
<1>2. /\ pc[s] = "list"
      /\ \/ left' = [left EXCEPT ![s] = names]
         \/ left' = [left EXCEPT ![s] = {}]
      /\ disk' = Unlink(disk, <<tmp[s]>>) \/ disk' = disk
      /\ \E label \in {"next", "done"} : pc' = [pc EXCEPT ![s] = label]
      /\ UNCHANGED <<content, request, second, k, n, entry, path, inode, tmp>>
  BY DEF ListTemp, At, Goto
<1>3. names \subseteq AnyName
  <2> SUFFICES ASSUME NEW p \in Children(disk, <<tmp[s]>>) PROVE p[2] \in AnyName
    OBVIOUS
  <2>1. p \in Seq(AnyName) /\ Len(p) = 2
    BY <1>1 DEF Children, Below, Typed, Paths
  <2>2. 2 \in 1..Len(p)
    BY <2>1
  <2> QED
    BY <2>1, <2>2, ElementOfSeq
<1> HIDE DEF names
<1>4. Version(s) # 1 /\ Free(<<tmp[s]>>)
  BY <1>1, <1>2 DEF StagedAt, InTemp
<1>5. Harmless
  BY <1>2, <1>4, UnlinkHarmless, HarmlessSame DEF Free
<1>6. /\ pc' \in [Sessions -> Labels] /\ pc'[s] \in {"next", "done"}
      /\ left' \in [Sessions -> SUBSET AnyName]
      /\ \A q \in Sessions \ {s} : pc'[q] = pc[q]
  BY <1>1, <1>2, <1>3 DEF Typed, Labels, Ended
<1>7. ASSUME DOMAIN disk' \subseteq Paths PROVE Typed'
  BY <1>1, <1>2, <1>6, <1>7 DEF Typed
<1>8. ASSUME \A p : Free(p) => Free(p)' PROVE StagedAt(s)'
  <2>1. Free(<<tmp[s]>>)' /\ Version(s)' = Version(s)
    BY <1>2, <1>4, <1>8 DEF Version
  <2> QED
    BY <1>4, <1>6, <2>1 DEF StagedAt, InTemp
<1> QED
  BY <1>2, <1>5, <1>6, <1>7, <1>8, StepKeeps

LEMMA NextEntryHolds ==
  ASSUME IInv, NEW s \in Sessions, NextEntry(s)
  PROVE  IInv'
<1>1. Typed /\ StagedAt(s)
  BY DEF IInv, Staged
<1>2. PICK x \in left[s] :
        /\ left' = [left EXCEPT ![s] = @ \ {x}]
        /\ entry' = [entry EXCEPT ![s] = x]
  BY DEF NextEntry
<1>3. /\ pc[s] = "next" /\ n' = [n EXCEPT ![s] = 0] /\ pc' = [pc EXCEPT ![s] = "name"]
      /\ UNCHANGED <<disk, content, request, second, k, path, inode, tmp>>
  BY DEF NextEntry, At, Goto
<1>4. x \in AnyName
  BY <1>1 DEF Typed
<1>5. /\ left' \in [Sessions -> SUBSET AnyName] /\ entry' \in [Sessions -> AnyName]
      /\ n' \in [Sessions -> Nat]
  BY <1>1, <1>2, <1>3, <1>4 DEF Typed
<1>6. /\ pc' \in [Sessions -> Labels] /\ pc'[s] = "name"
      /\ \A q \in Sessions \ {s} : pc'[q] = pc[q]
  BY <1>1, <1>3 DEF Typed, Labels
<1>7. Typed'
  BY <1>1, <1>3, <1>5, <1>6 DEF Typed
<1>8. StagedAt(s)'
  <2>1. Free(<<tmp[s]>>)' /\ Version(s)' = Version(s)
    BY <1>1, <1>3 DEF StagedAt, InTemp, Free, UserAt, Version
  <2> QED
    BY <1>6, <2>1 DEF StagedAt, InTemp
<1> QED
  BY <1>3, <1>6, <1>7, <1>8, QuietKeeps

LEMMA MoveHolds ==
  ASSUME IInv, NEW s \in Sessions, Move(s)
  PROVE  IInv'
<1>1. Typed /\ StagedAt(s) /\ Kept
  BY DEF IInv, Staged
<1>2. /\ pc[s] = "move"
      /\ disk' = Rename(disk, <<tmp[s], entry[s]>>, path[s]) \/ disk' = disk
      /\ pc' = [pc EXCEPT ![s] = "next"]
      /\ UNCHANGED <<content, request, second, k, n, entry, path, inode, tmp, left>>
  BY DEF Move, At, Goto
<1>3. /\ Version(s) # 1 /\ Free(<<tmp[s]>>) /\ Free(path[s]) /\ path[s] \in Paths
      /\ tmp[s] \in AnyName /\ entry[s] \in AnyName
  BY <1>1, <1>2 DEF StagedAt, InTemp, Typed, Paths
<1>4. Harmless
  BY <1>1, <1>2, <1>3, RenameHarmless, HarmlessSame
<1>5. /\ pc' \in [Sessions -> Labels] /\ pc'[s] = "next"
      /\ \A q \in Sessions \ {s} : pc'[q] = pc[q]
  BY <1>1, <1>2 DEF Typed, Labels
<1>6. ASSUME DOMAIN disk' \subseteq Paths PROVE Typed'
  BY <1>1, <1>2, <1>5, <1>6 DEF Typed
<1>7. ASSUME \A p : Free(p) => Free(p)' PROVE StagedAt(s)'
  <2>1. Free(<<tmp[s]>>)' /\ Version(s)' = Version(s)
    BY <1>2, <1>3, <1>7 DEF Version
  <2> QED
    BY <1>3, <1>5, <2>1 DEF StagedAt, InTemp
<1> QED
  BY <1>2, <1>4, <1>5, <1>6, <1>7, StepKeeps

LEMMA RemoveTempHolds ==
  ASSUME IInv, NEW s \in Sessions, RemoveTemp(s)
  PROVE  IInv'
<1>1. Typed /\ StagedAt(s) /\ Kept
  BY DEF IInv, Staged
<1>2. /\ pc[s] = "next"
      /\ disk' = Unlink(disk, <<tmp[s]>>) \/ disk' = disk
      /\ \E label \in {"cut", "done"} : pc' = [pc EXCEPT ![s] = label]
      /\ UNCHANGED <<content, request, second, k, n, entry, path, inode, tmp, left>>
  BY DEF RemoveTemp, At, Goto
<1>3. Harmless
  BY <1>1, <1>2, UnlinkHarmless, HarmlessSame DEF StagedAt, InTemp, Free
<1>4. /\ pc' \in [Sessions -> Labels] /\ pc'[s] \in {"cut", "done"}
      /\ \A q \in Sessions \ {s} : pc'[q] = pc[q]
  BY <1>1, <1>2 DEF Typed, Labels, Ended
<1>5. ASSUME DOMAIN disk' \subseteq Paths PROVE Typed'
  BY <1>1, <1>2, <1>4, <1>5 DEF Typed
<1>6. StagedAt(s)'
  BY <1>4 DEF StagedAt, InTemp
<1> QED
  BY <1>2, <1>3, <1>4, <1>5, <1>6, StepKeeps

-----------------------------------------------------------------------------
(* The theorem.                                                            *)

LEMMA InitIInv == Init => IInv
<1> SUFFICES ASSUME Init PROVE IInv
  OBVIOUS
<1>1. /\ DOMAIN disk = {<<Name(x)>> : x \in Existing}
      /\ \A p \in DOMAIN disk : disk[p] = User
  BY DEF Init
<1>2. User \in DOMAIN content /\ content[User] = User
  BY DEF Init
<1>3. \A x \in Existing : <<Name(x)>> \in Paths /\ <<Name(x)>>[1] = Name(x)
  BY NameTypes DEF Paths
<1>4. /\ request \in [Sessions -> Requests] /\ second \in [Sessions -> Seconds]
      /\ pc = [s \in Sessions |-> "new"] /\ k = [s \in Sessions |-> 1]
      /\ n = [s \in Sessions |-> 0]
      /\ entry = [s \in Sessions |-> NoName] /\ path = [s \in Sessions |-> <<>>]
      /\ inode = [s \in Sessions |-> Nothing] /\ tmp = [s \in Sessions |-> NoName]
      /\ left = [s \in Sessions |-> {}]
  BY DEF Init
<1> HIDE DEF Init
<1>5. Typed
  <2>1. \A s \in Sessions : k[s] <= Len(request[s].entries)
    <3> TAKE s \in Sessions
    <3>1. request[s] \in Requests /\ k[s] = 1
      BY <1>4
    <3>2. request[s].entries \in Seq(Range(request[s].entries)) /\ Len(request[s].entries) > 0
      BY <3>1, UploadAssumption
    <3> QED
      BY <3>1, <3>2, LenProperties
  <2>2. NoName \in AnyName /\ <<>> \in Seq(AnyName)
    BY NameTypes
  <2>3. /\ entry \in [Sessions -> AnyName] /\ tmp \in [Sessions -> AnyName]
        /\ path \in [Sessions -> Seq(AnyName)]
    BY <1>4, <2>2
  <2>4. /\ pc \in [Sessions -> Labels] /\ k \in [Sessions -> Nat \ {0}]
        /\ n \in [Sessions -> Nat] /\ DOMAIN inode = Sessions
        /\ left \in [Sessions -> SUBSET AnyName]
    BY <1>4 DEF Labels
  <2>5. DOMAIN disk \subseteq Paths
    BY <1>1, <1>3
  <2> QED
    BY <1>2, <1>4, <2>1, <2>3, <2>4, <2>5 DEF Typed
<1>6. Staged
  BY <1>4 DEF Staged, StagedAt, InTemp
<1>7. Kept
  <2>1. \A x \in Existing : UserAt(<<Name(x)>>)
    BY <1>1 DEF UserAt
  <2>2. Guarded => \A p \in DOMAIN disk : p[1] # Name(Conf)
    <3>1. \A x \in Existing : Guarded => Name(x) # Name(Conf)
      BY DEF Guarded, Name
    <3> QED
      BY <1>1, <1>3, <3>1
  <2> QED
    BY <1>1, <1>2, <2>1, <2>2 DEF Kept
<1> QED
  BY <1>5, <1>6, <1>7 DEF IInv

LEMMA NextIInv ==
  ASSUME IInv, [Next]_vars
  PROVE  IInv'
<1>1. CASE UNCHANGED vars
  <2>1. UNCHANGED <<disk, content, request, second, pc, k, n, entry, path, inode, tmp, left>>
    BY <1>1 DEF vars, locals
  <2>2. Typed'
    BY <2>1 DEF IInv, Typed
  <2>3. Staged'
    BY <2>1 DEF IInv, Staged, StagedAt, Free, UserAt, Version, Guarded
  <2>4. Kept'
    BY <2>1 DEF IInv, Kept, UserAt, Guarded
  <2> QED
    BY <2>2, <2>3, <2>4 DEF IInv
<1>2. ASSUME NEW s \in Sessions, Begin(s) \/ Step(s) \/ LoseSelection(s) \/ Kill(s)
      PROVE  IInv'
  BY <1>2, BeginHolds, OldHolds, NameHolds, TempHolds, FilePlaceHolds, RefusedHolds,
     OpenHolds, MakeDirectoryHolds, DataHolds, EndHolds, ListTempHolds, NextEntryHolds,
     MoveHolds, RemoveTempHolds
  DEF Step
<1> QED
  BY <1>1, <1>2 DEF Next

\* What was in the working directory before is never overwritten, nor, but by a
\* headless build, moved or removed, whatever clients send, however many at a
\* time, wherever they fail or are killed; and the configuration file is not
\* created.
\* _rename_if_exists(), _check_and_rename() and _send_files_dirs().
THEOREM UsersFilesKeptHolds == Spec => []UsersFilesKept
<1>1. Init => IInv
  BY InitIInv
<1>2. IInv /\ [Next]_vars => IInv'
  BY NextIInv
<1>3. IInv => UsersFilesKept
  <2> SUFFICES ASSUME IInv PROVE UsersFilesKept
    OBVIOUS
  <2>1. <<Name(Conf)>>[1] = Name(Conf)
    OBVIOUS
  <2> QED
    BY <2>1 DEF IInv, Kept, UserAt, Guarded, UsersFilesKept
<1> QED
  BY <1>1, <1>2, <1>3, PTL DEF Spec

-----------------------------------------------------------------------------
(* Paths and what is above them.                                           *)

LEMMA PathPrefix ==
  \A p, q \in Seq(AnyName) :
    IsPrefix(p, q) <=> Len(p) <= Len(q) /\ \A j \in 1..Len(p) : p[j] = q[j]
<1> SUFFICES ASSUME NEW p \in Seq(AnyName), NEW q \in Seq(AnyName)
             PROVE  IsPrefix(p, q) <=> Len(p) <= Len(q) /\ \A j \in 1..Len(p) : p[j] = q[j]
  OBVIOUS
<1> DEFINE S == AnyName
<1> HIDE DEF S
<1>1. p \in Seq(S) /\ q \in Seq(S)
  BY DEF S
<1> QED
  BY <1>1, PrefixIff

LEMMA PathTypes ==
  \A p \in Paths : /\ p \in Seq(AnyName) /\ Len(p) \in Nat \ {0} /\ p # <<>>
                   /\ \A j \in 1..Len(p) : p[j] \in AnyName
                   /\ p[1] \in AnyName
<1> SUFFICES ASSUME NEW p \in Paths
             PROVE  /\ p \in Seq(AnyName) /\ Len(p) \in Nat \ {0} /\ p # <<>>
                    /\ \A j \in 1..Len(p) : p[j] \in AnyName
                    /\ p[1] \in AnyName
  OBVIOUS
<1>1. p \in Seq(AnyName) /\ p # <<>>
  BY DEF Paths
<1>2. Len(p) \in Nat \ {0}
  BY <1>1, LenProperties, EmptySeq
<1>3. \A j \in 1..Len(p) : p[j] \in AnyName
  BY <1>1, ElementOfSeq
<1>4. 1 \in 1..Len(p)
  BY <1>2
<1> QED
  BY <1>1, <1>2, <1>3, <1>4

LEMMA PrefixOrder ==
  \A p, q, r \in Seq(AnyName) :
    /\ IsPrefix(p, p)
    /\ IsPrefix(p, q) /\ IsPrefix(q, r) => IsPrefix(p, r)
    /\ IsPrefix(p, q) /\ p # q => Len(p) < Len(q) /\ ~IsPrefix(q, p)
<1> SUFFICES ASSUME NEW p \in Seq(AnyName), NEW q \in Seq(AnyName), NEW r \in Seq(AnyName)
             PROVE  /\ IsPrefix(p, p)
                    /\ IsPrefix(p, q) /\ IsPrefix(q, r) => IsPrefix(p, r)
                    /\ IsPrefix(p, q) /\ p # q => Len(p) < Len(q) /\ ~IsPrefix(q, p)
  OBVIOUS
<1>1. Len(p) \in Nat /\ Len(q) \in Nat /\ Len(r) \in Nat
  BY LenProperties
<1>2. IsPrefix(p, p)
  BY <1>1, PathPrefix
<1>3. ASSUME IsPrefix(p, q), IsPrefix(q, r)
      PROVE  IsPrefix(p, r)
  <2>1. /\ Len(p) <= Len(q) /\ \A j \in 1..Len(p) : p[j] = q[j]
        /\ Len(q) <= Len(r) /\ \A j \in 1..Len(q) : q[j] = r[j]
    BY <1>3, PathPrefix
  <2>2. Len(p) <= Len(r) /\ \A j \in 1..Len(p) : p[j] = r[j]
    BY <1>1, <2>1
  <2> QED
    BY <2>2, PathPrefix
<1>4. ASSUME IsPrefix(p, q), p # q
      PROVE  Len(p) < Len(q) /\ ~IsPrefix(q, p)
  <2>1. Len(p) <= Len(q) /\ \A j \in 1..Len(p) : p[j] = q[j]
    BY <1>4, PathPrefix
  <2>2. Len(p) # Len(q)
    BY <1>4, <2>1, SeqEqual
  <2>3. IsPrefix(q, p) => Len(q) <= Len(p)
    BY DEF IsPrefix
  <2> QED
    BY <1>1, <2>1, <2>2, <2>3
<1> QED
  BY <1>2, <1>3, <1>4

\* the paths of one name
LEMMA TopPrefix ==
  \A x \in AnyName :
    /\ <<x>> \in Paths /\ <<x>> \in Seq(AnyName) /\ <<x>>[1] = x /\ Len(<<x>>) = 1
    /\ \A p \in Paths : /\ IsPrefix(<<x>>, p) <=> p[1] = x
                        /\ IsPrefix(p, <<x>>) => p = <<x>>
                        /\ Len(p) = 1 /\ p[1] = x => p = <<x>>
<1> SUFFICES ASSUME NEW x \in AnyName
             PROVE  /\ <<x>> \in Paths /\ <<x>> \in Seq(AnyName) /\ <<x>>[1] = x /\ Len(<<x>>) = 1
                    /\ \A p \in Paths : /\ IsPrefix(<<x>>, p) <=> p[1] = x
                                        /\ IsPrefix(p, <<x>>) => p = <<x>>
                                        /\ Len(p) = 1 /\ p[1] = x => p = <<x>>
  OBVIOUS
<1> DEFINE t == <<x>>
<1>1. t \in Paths /\ t \in Seq(AnyName) /\ t[1] = x /\ Len(t) = 1
  BY DEF Paths
<1> HIDE DEF t
<1>2. ASSUME NEW p \in Paths
      PROVE  /\ IsPrefix(t, p) <=> p[1] = x
             /\ IsPrefix(p, t) => p = t
             /\ Len(p) = 1 /\ p[1] = x => p = t
  <2>1. p \in Seq(AnyName) /\ Len(p) \in Nat \ {0}
    BY PathTypes
  <2>2. IsPrefix(t, p) <=> Len(t) <= Len(p) /\ \A j \in 1..Len(t) : t[j] = p[j]
    BY <1>1, <2>1, PathPrefix
  <2>3. IsPrefix(t, p) <=> p[1] = x
    BY <1>1, <2>1, <2>2
  <2>4. ASSUME IsPrefix(p, t), p # t PROVE FALSE
    <3>1. Len(p) < Len(t)
      BY <1>1, <2>1, <2>4, PrefixOrder
    <3> QED
      BY <1>1, <2>1, <3>1
  <2>5. ASSUME Len(p) = 1, p[1] = x PROVE p = t
    <3>1. \A j \in 1..Len(p) : p[j] = t[j]
      BY <1>1, <2>5
    <3> QED
      BY <1>1, <2>1, <2>5, <3>1, SeqEqual
  <2> QED
    BY <2>3, <2>4, <2>5
<1> QED
  BY <1>1, <1>2 DEF t

\* the paths of two names
LEMMA PairPrefix ==
  \A x, y \in AnyName :
    /\ <<x, y>> \in Paths /\ <<x, y>> \in Seq(AnyName) /\ Len(<<x, y>>) = 2
    /\ \A p \in Paths : IsPrefix(<<x, y>>, p) <=> Len(p) > 1 /\ p[1] = x /\ p[2] = y
<1> SUFFICES ASSUME NEW x \in AnyName, NEW y \in AnyName
             PROVE  /\ <<x, y>> \in Paths /\ <<x, y>> \in Seq(AnyName) /\ Len(<<x, y>>) = 2
                    /\ \A p \in Paths : IsPrefix(<<x, y>>, p) <=> Len(p) > 1 /\ p[1] = x /\ p[2] = y
  OBVIOUS
<1> DEFINE t == <<x, y>>
<1>1. t \in Paths /\ t \in Seq(AnyName) /\ t[1] = x /\ t[2] = y /\ Len(t) = 2
  BY DEF Paths
<1> HIDE DEF t
<1>2. ASSUME NEW p \in Paths
      PROVE  IsPrefix(t, p) <=> Len(p) > 1 /\ p[1] = x /\ p[2] = y
  <2>1. p \in Seq(AnyName) /\ Len(p) \in Nat \ {0}
    BY PathTypes
  <2>2. IsPrefix(t, p) <=> Len(t) <= Len(p) /\ \A j \in 1..Len(t) : t[j] = p[j]
    BY <1>1, <2>1, PathPrefix
  <2>3. \A j \in 1..Len(t) : j = 1 \/ j = 2
    BY <1>1
  <2>4. 1 \in 1..Len(t) /\ 2 \in 1..Len(t)
    BY <1>1
  <2> QED
    BY <1>1, <2>1, <2>2, <2>3, <2>4
<1> QED
  BY <1>1, <1>2 DEF t

LEMMA PathIff ==
  \A p \in Paths : \A q : q \in Path(p) <=> q \in Paths /\ IsPrefix(q, p)
<1> SUFFICES ASSUME NEW p \in Paths, NEW q
             PROVE  q \in Path(p) <=> q \in Paths /\ IsPrefix(q, p)
  OBVIOUS
<1>1. p \in Seq(AnyName) /\ Len(p) \in Nat \ {0}
  BY PathTypes
<1>2. ASSUME q \in Path(p) PROVE q \in Paths /\ IsPrefix(q, p)
  <2>1. q \in Paths
    BY <1>2, FirstNames
  <2>2. PICK j \in 1..Len(p) : q = SubSeq(p, 1, j)
    BY <1>2 DEF Path
  <2>3. j \in Nat \ {0} /\ j <= Len(p)
    BY <1>1, <2>2
  <2>4. \A i \in 1..j : p[i] \in AnyName
    <3>1. \A i \in 1..j : i \in 1..Len(p)
      BY <1>1, <2>3
    <3> QED
      BY <3>1, PathTypes
  <2>5. /\ Len(q) = IF 1 <= j THEN j - 1 + 1 ELSE 0
        /\ \A i \in 1..(j - 1 + 1) : q[i] = p[1 + i - 1]
    BY <2>2, <2>3, <2>4, SubSeqProperties
  <2>6. Len(q) <= Len(p) /\ \A i \in 1..Len(q) : q[i] = p[i]
    BY <2>3, <2>5
  <2>7. q \in Seq(AnyName)
    BY <2>1, PathTypes
  <2> QED
    BY <1>1, <2>1, <2>6, <2>7, PathPrefix
<1>3. ASSUME q \in Paths, IsPrefix(q, p) PROVE q \in Path(p)
  <2>1. q \in Seq(AnyName) /\ Len(q) \in Nat \ {0}
    BY <1>3, PathTypes
  <2>2. Len(q) <= Len(p) /\ SubSeq(q, 1, Len(q)) = SubSeq(p, 1, Len(q))
    BY <1>3 DEF IsPrefix
  <2>3. q = SubSeq(p, 1, Len(q))
    BY <2>1, <2>2, SubSeqFull
  <2>4. Len(q) \in 1..Len(p)
    BY <1>1, <2>1, <2>2
  <2> QED
    BY <2>3, <2>4 DEF Path
<1> QED
  BY <1>2, <1>3

LEMMA FrontIs ==
  \A p \in Paths :
    /\ Front(p) \in Seq(AnyName) /\ Len(Front(p)) = Len(p) - 1 /\ Front(p) # p
    /\ \A j \in 1..(Len(p) - 1) : Front(p)[j] = p[j]
    /\ IsPrefix(Front(p), p)
    /\ \A q \in Paths : IsPrefix(q, p) /\ q # p => IsPrefix(q, Front(p)) /\ Front(p) \in Paths
<1> SUFFICES ASSUME NEW p \in Paths
             PROVE  /\ Front(p) \in Seq(AnyName) /\ Len(Front(p)) = Len(p) - 1 /\ Front(p) # p
                    /\ \A j \in 1..(Len(p) - 1) : Front(p)[j] = p[j]
                    /\ IsPrefix(Front(p), p)
                    /\ \A q \in Paths : IsPrefix(q, p) /\ q # p => IsPrefix(q, Front(p)) /\ Front(p) \in Paths
  OBVIOUS
<1>1. p \in Seq(AnyName) /\ Len(p) \in Nat \ {0}
  BY PathTypes
<1> DEFINE f == Front(p)
           m == Len(p) - 1
<1>2. \A i \in 1..m : p[i] \in AnyName
  <2>1. \A i \in 1..m : i \in 1..Len(p)
    BY <1>1
  <2> QED
    BY <2>1, PathTypes
<1>3. m \in Nat /\ m + 1 = Len(p)
  BY <1>1
<1>4. f = SubSeq(p, 1, m)
  BY DEF Front
<1> HIDE DEF f, m
<1>5. /\ f \in Seq(AnyName) /\ Len(f) = IF 1 <= m THEN m - 1 + 1 ELSE 0
      /\ \A i \in 1..(m - 1 + 1) : f[i] = p[1 + i - 1]
  BY <1>2, <1>3, <1>4, SubSeqProperties
<1>6. f \in Seq(AnyName) /\ Len(f) = m /\ \A i \in 1..m : f[i] = p[i]
  BY <1>3, <1>5
<1>7. IsPrefix(f, p) /\ f # p
  <2>1. Len(f) <= Len(p) /\ \A i \in 1..Len(f) : f[i] = p[i]
    BY <1>3, <1>6
  <2> QED
    BY <1>1, <1>3, <1>6, <2>1, PathPrefix
<1>8. ASSUME NEW q \in Paths, IsPrefix(q, p), q # p
      PROVE  IsPrefix(q, f) /\ f \in Paths
  <2>1. q \in Seq(AnyName) /\ Len(q) \in Nat \ {0}
    BY PathTypes
  <2>2. Len(q) <= m /\ \A j \in 1..Len(q) : q[j] = p[j]
    <3>1. Len(q) < Len(p)
      BY <1>1, <1>8, <2>1, PrefixOrder
    <3> QED
      BY <1>1, <1>3, <1>8, <2>1, <3>1, PathPrefix
  <2>3. Len(q) <= Len(f) /\ \A j \in 1..Len(q) : q[j] = f[j]
    BY <1>3, <1>6, <2>1, <2>2
  <2>4. IsPrefix(q, f)
    BY <1>6, <2>1, <2>3, PathPrefix
  <2>5. f # <<>>
    BY <1>3, <1>6, <2>1, <2>2
  <2> QED
    BY <1>6, <2>4, <2>5 DEF Paths
<1> QED
  BY <1>6, <1>7, <1>8 DEF f, m

-----------------------------------------------------------------------------
(* Sessions that share no name.                                            *)

Shaped ==
  /\ DOMAIN content = (Sessions \X Places) \cup {User}
  /\ DOMAIN dest = Sessions /\ DOMAIN ok = Sessions /\ DOMAIN acked = Sessions
  /\ DOMAIN moved = Sessions

\* Every path has the directories above it.
Rooted ==
  \A p \in DOMAIN disk : \A q \in Paths :
    IsPrefix(q, p) /\ q # p => q \in DOMAIN disk /\ disk[q] = Dir

\* p is a file that a session has made
Made(p) == p \in DOMAIN disk /\ disk[p] \notin {Dir, User}

TopBases(s) == {y[2] : y \in Tops(s)}

\* the names in the working directory that belong to a session
Own(s, x) == (x = tmp[s] /\ x # NoName) \/ x[2] \in TopBases(s)

Before == {"new", "list_old", "wipe", "temp"}
Filling == {"mkdir", "file", "open", "data", "ack", "list"}
Moving == {"next", "name", "move"}

\* the session has a temporary directory, or is about to make it
Temporary(s) == Version(s) # 1 /\ pc[s] \in Filling \cup Moving

\* How the names of a session look, whatever the others do.
NamedAt(s) ==
  /\ tmp[s] = NoName \/ tmp[s][2] \in {"time", "rand"}
  /\ Version(s) = 1 \/ pc[s] \in Before => tmp[s] = NoName
  /\ Temporary(s) => tmp[s] # NoName
  /\ Version(s) = 1 /\ pc[s] \in {"list_old", "wipe", "name"} => entry[s] \in Tops(s)
  /\ pc[s] \in {"open", "data"} =>
       IF Version(s) = 1 THEN Len(path[s]) = 1 /\ path[s][1][2] \in TopBases(s)
       ELSE Len(path[s]) > 1 /\ path[s][1] = tmp[s] /\ path[s][2] \in Tops(s)
  /\ pc[s] = "move" => Len(path[s]) = 1

\* What it has reported, and what it has put in its place.
OkayAt(s) ==
  /\ pc[s] \in Before \cup {"mkdir", "file", "open", "data", "ack"}
       => ok[s] /\ ~acked[s]
  /\ pc[s] \in Before \cup Filling \/ (Version(s) = 1 /\ pc[s] = "name") => dest[s] = {}
  /\ Version(s) = 1 => ~acked[s] /\ (ok[s] \/ pc[s] \in Ended)
  /\ pc[s] \in Before \cup {"mkdir"} => k[s] = 1

\* the entries are those of its request
TakesAt(s) ==
  /\ Version(s) # 1 /\ pc[s] \in Moving => left[s] \subseteq Tops(s)
  /\ Version(s) # 1 /\ pc[s] \in {"name", "move"} => entry[s] \in Tops(s)
  /\ pc[s] = "move" => path[s][1][2] \in TopBases(s)

\* the path that was free when the session looked still is
FreeAt(s) == pc[s] \in {"open", "move"} => path[s] \notin DOMAIN disk

\* the session writes to the file it has made
WritesAt(s) ==
  pc[s] = "data" => /\ inode[s] = Upload(s)
                    /\ path[s] \in DOMAIN disk => disk[path[s]] = Upload(s)
                    /\ ~Headless => path[s] \in DOMAIN disk

\* the session has made its k-th file
Past(s) ==
  /\ pc[s] \notin Before \cup {"mkdir", "file", "open"}
  /\ Version(s) = 1 => pc[s] # "name"

\* a file with a name of the session is one that it has received
FilesAt(s) ==
  \A p \in DOMAIN disk : Own(s, p[1]) /\ Made(p) =>
    \E j \in 1..k[s] : disk[p] = <<s, j>> /\ (j = k[s] => Past(s))

\* what is in the temporary directory
SealedAt(s) ==
  Temporary(s) =>
    \A p \in DOMAIN disk : p[1] = tmp[s] =>
      /\ Len(p) > 1 => p[2] \in Tops(s)
      /\ Made(p) => /\ Len(p) > 1
                    /\ content[disk[p]] = disk[p] \/ (pc[s] = "data" /\ p = path[s])

\* what the others see is whole
VisibleAt(s) ==
  \A p \in DOMAIN disk : Own(s, p[1]) /\ Made(p) =>
    \/ content[disk[p]] = disk[p]
    \/ p[1] = tmp[s]
    \/ Version(s) = 1 /\ path[s] = p /\ pc[s] \in {"data", "killed"}

ShownAt(s) == TakesAt(s) /\ FreeAt(s) /\ WritesAt(s) /\ FilesAt(s) /\ SealedAt(s) /\ VisibleAt(s)

\* the entries that the session has received, as far as it knows
Received(s) ==
  {i \in 1..Len(request[s].entries) :
     /\ ~request[s].entries[i].dir
     /\ \/ pc[s] \in {"file", "open", "data"} /\ Version(s) # 1 /\ i < k[s]
        \/ pc[s] \in {"ack", "list", "cut", "own", "done"} /\ ok[s]
        \/ pc[s] \in Moving /\ Version(s) # 1 /\ ok[s]}

\* where they may be, unless some could not be moved
Where(s, p) ==
  \/ ~moved[s]
  \/ p[1] \in dest[s]
  \/ /\ pc[s] \in Filling \cup Moving /\ p[1] = tmp[s]
     /\ pc[s] = "next" => p[2] \in left[s]
     /\ pc[s] \in {"name", "move"} => p[2] \in left[s] \cup {entry[s]}

Stored(s, i, p) ==
  /\ p \in DOMAIN disk /\ Own(s, p[1])
  /\ disk[p] = <<s, i>> /\ content[<<s, i>>] = <<s, i>>

DestAt(s) == \A x \in dest[s] : <<x>> \in DOMAIN disk /\ x[2] \in TopBases(s)

HoldsAt(s) ==
  /\ \A i \in Received(s) : \E p \in DOMAIN disk : Stored(s, i, p) /\ Where(s, p)
  /\ acked[s] => \A i \in 1..Len(request[s].entries) : ~request[s].entries[i].dir =>
                   \E p \in DOMAIN disk : Stored(s, i, p)

Owned == \A p \in DOMAIN disk : Made(p) => \E s \in Sessions : Own(s, p[1])

Separate ==
  /\ \A s \in Sessions : NamedAt(s) /\ OkayAt(s)
  /\ ~Overlap => /\ Owned
                 /\ \A s \in Sessions : ShownAt(s)
                 /\ ~Headless => \A s \in Sessions : DestAt(s) /\ HoldsAt(s)

-----------------------------------------------------------------------------
(* What the calls do to the tree.                                          *)

LEMMA DiskPaths ==
  ASSUME Typed
  PROVE  \A p \in DOMAIN disk :
           /\ p \in Paths /\ p \in Seq(AnyName) /\ Len(p) \in Nat \ {0} /\ p # <<>>
           /\ \A j \in 1..Len(p) : p[j] \in AnyName
           /\ p[1] \in AnyName /\ (Len(p) > 1 => p[2] \in AnyName)
<1> SUFFICES ASSUME NEW p \in DOMAIN disk
             PROVE  /\ p \in Paths /\ p \in Seq(AnyName) /\ Len(p) \in Nat \ {0} /\ p # <<>>
                    /\ \A j \in 1..Len(p) : p[j] \in AnyName
                    /\ p[1] \in AnyName /\ (Len(p) > 1 => p[2] \in AnyName)
  OBVIOUS
<1>1. p \in Paths
  BY DEF Typed
<1>2. /\ p \in Seq(AnyName) /\ Len(p) \in Nat \ {0} /\ p # <<>>
      /\ \A j \in 1..Len(p) : p[j] \in AnyName
      /\ p[1] \in AnyName
  BY <1>1, PathTypes
<1>3. Len(p) > 1 => 2 \in 1..Len(p)
  BY <1>2
<1> QED
  BY <1>1, <1>2, <1>3

LEMMA MkDirsIs ==
  ASSUME Typed, Rooted, NEW p \in Paths, CanMkDirs(disk, p), disk' = MkDirs(disk, p)
  PROVE  /\ \A r \in DOMAIN disk : r \in DOMAIN disk' /\ disk'[r] = disk[r]
         /\ \A r \in DOMAIN disk' : r \notin DOMAIN disk =>
              r \in Paths /\ IsPrefix(r, p) /\ r[1] = p[1] /\ disk'[r] = Dir
         /\ p \in DOMAIN disk' /\ disk'[p] = Dir
         /\ Rooted'
<1>1. /\ DOMAIN disk' = DOMAIN disk \cup Path(p)
      /\ \A r \in DOMAIN disk' : disk'[r] = IF r \in DOMAIN disk THEN disk[r] ELSE Dir
  BY DEF MkDirs
<1>2. \A r : r \in Path(p) <=> r \in Paths /\ IsPrefix(r, p)
  BY PathIff
<1>3. \A r \in Path(p) : r[1] = p[1]
  BY FirstNames
<1>4. \A r \in Path(p) : r \in DOMAIN disk => disk[r] = Dir
  <2> SUFFICES ASSUME NEW r \in Path(p), r \in DOMAIN disk PROVE disk[r] = Dir
    OBVIOUS
  <2>1. r # <<>>
    BY <1>2 DEF Paths
  <2> QED
    BY <2>1 DEF CanMkDirs, Exists, IsDir
<1>5. \A r \in Path(p) : r \in DOMAIN disk' /\ disk'[r] = Dir
  BY <1>1, <1>4
<1>6. p \in Path(p)
  BY <1>2, PathTypes, PrefixOrder
<1>7. ASSUME NEW a \in DOMAIN disk', NEW q \in Paths, IsPrefix(q, a), q # a
      PROVE  q \in DOMAIN disk' /\ disk'[q] = Dir
  <2>1. CASE a \in DOMAIN disk
    BY <1>1, <1>7, <2>1 DEF Rooted
  <2>2. CASE a \in Path(p)
    <3>1. a \in Seq(AnyName) /\ q \in Seq(AnyName) /\ p \in Seq(AnyName) /\ IsPrefix(a, p)
      BY <1>2, <2>2, PathTypes
    <3>2. IsPrefix(q, p)
      BY <1>7, <3>1, PrefixOrder
    <3> QED
      BY <1>2, <1>5, <3>2
  <2> QED
    BY <1>1, <2>1, <2>2
<1>8. Rooted'
  BY <1>7 DEF Rooted
<1> QED
  BY <1>1, <1>2, <1>3, <1>5, <1>6, <1>8

LEMMA WithIs ==
  ASSUME Typed, Rooted, NEW p \in Paths, CanOpen(disk, p), NEW x, disk' = With(disk, p, x)
  PROVE  /\ DOMAIN disk' = DOMAIN disk \cup {p}
         /\ \A r \in DOMAIN disk : r # p => disk'[r] = disk[r]
         /\ disk'[p] = x
         /\ Rooted'
<1>1. /\ DOMAIN disk' = DOMAIN disk \cup {p}
      /\ \A r \in DOMAIN disk' : disk'[r] = IF r = p THEN x ELSE disk[r]
  BY DEF With
<1>2. p # <<>> /\ (p \in DOMAIN disk => disk[p] # Dir)
  BY PathTypes DEF CanOpen, IsDir
<1>3. ASSUME NEW a \in DOMAIN disk', NEW q \in Paths, IsPrefix(q, a), q # a
      PROVE  q \in DOMAIN disk /\ disk[q] = Dir
  <2>1. CASE a \in DOMAIN disk
    BY <1>3, <2>1 DEF Rooted
  <2>2. CASE a = p
    <3>1. IsPrefix(q, Front(p)) /\ Front(p) \in Paths
      BY <1>3, <2>2, FrontIs
    <3>2. Front(p) # <<>>
      BY <3>1 DEF Paths
    <3>3. Front(p) \in DOMAIN disk /\ disk[Front(p)] = Dir
      BY <3>2 DEF CanOpen, IsDir
    <3> QED
      BY <3>1, <3>3 DEF Rooted
  <2> QED
    BY <1>1, <2>1, <2>2
<1>4. \A q \in DOMAIN disk : disk[q] = Dir => q # p
  BY <1>2
<1>5. Rooted'
  <2> SUFFICES ASSUME NEW a \in DOMAIN disk', NEW q \in Paths, IsPrefix(q, a), q # a
               PROVE  q \in DOMAIN disk' /\ disk'[q] = Dir
    BY DEF Rooted
  <2>1. q \in DOMAIN disk /\ disk[q] = Dir
    BY <1>3
  <2> QED
    BY <1>1, <1>4, <2>1
<1> QED
  BY <1>1, <1>5

LEMMA UnlinkIs ==
  ASSUME Typed, Rooted, NEW p \in Paths, disk' = Unlink(disk, p)
  PROVE  /\ \A r \in DOMAIN disk' : r \in DOMAIN disk /\ disk'[r] = disk[r]
         /\ \A r \in DOMAIN disk : r # p => r \in DOMAIN disk'
         /\ CanRemove(disk, p) => p \notin DOMAIN disk'
         /\ Rooted'
<1>1. CASE CanRemove(disk, p)
  <2>1. DOMAIN disk' = DOMAIN disk \ {p} /\ \A r \in DOMAIN disk' : disk'[r] = disk[r]
    BY <1>1 DEF Unlink, Without, Restrict
  <2>2. ASSUME NEW a \in DOMAIN disk', NEW q \in Paths, IsPrefix(q, a), q # a
        PROVE  q \in DOMAIN disk' /\ disk'[q] = Dir
    <3>1. a \in DOMAIN disk /\ a # p
      BY <2>1
    <3>2. q \in DOMAIN disk /\ disk[q] = Dir
      BY <2>2, <3>1 DEF Rooted
    <3>3. q # p
      BY <1>1, <2>2, <3>1 DEF CanRemove, Below
    <3> QED
      BY <2>1, <3>2, <3>3
  <2>3. Rooted'
    BY <2>2 DEF Rooted
  <2> QED
    BY <2>1, <2>3
<1>2. CASE ~CanRemove(disk, p)
  <2>1. disk' = disk
    BY <1>2 DEF Unlink
  <2>2. Rooted'
    BY <2>1 DEF Rooted
  <2> QED
    BY <1>2, <2>1, <2>2
<1> QED
  BY <1>1, <1>2

LEMMA WipeIs ==
  ASSUME Typed, Rooted, NEW x \in AnyName, disk' = Without(disk, Below(disk, <<x>>))
  PROVE  /\ DOMAIN disk' = {r \in DOMAIN disk : r[1] # x}
         /\ \A r \in DOMAIN disk' : disk'[r] = disk[r]
         /\ Rooted'
<1> DEFINE t == <<x>>
<1>1. \A p \in Paths : IsPrefix(t, p) <=> p[1] = x
  BY TopPrefix
<1>2. /\ DOMAIN disk' = DOMAIN disk \ Below(disk, t)
      /\ \A r \in DOMAIN disk' : disk'[r] = disk[r]
  BY DEF Without, Restrict
<1> HIDE DEF t
<1>3. DOMAIN disk' = {r \in DOMAIN disk : r[1] # x}
  BY <1>1, <1>2 DEF Below, Typed
<1>4. ASSUME NEW a \in DOMAIN disk', NEW q \in Paths, IsPrefix(q, a), q # a
      PROVE  q \in DOMAIN disk' /\ disk'[q] = Dir
  <2>1. a \in DOMAIN disk /\ a[1] # x /\ a \in Paths
    BY <1>3 DEF Typed
  <2>2. q \in DOMAIN disk /\ disk[q] = Dir
    BY <1>4, <2>1 DEF Rooted
  <2>3. q[1] = a[1]
    BY <1>4, <2>1, PathIff, FirstNames
  <2> QED
    BY <1>2, <1>3, <2>1, <2>2, <2>3
<1>5. Rooted'
  BY <1>4 DEF Rooted
<1> QED
  BY <1>2, <1>3, <1>5

\* The order of paths is kept when what they begin with is replaced.
LEMMA GraftPrefix ==
  \A p, u, v \in Seq(AnyName) :
    IsPrefix(u, v) => IsPrefix(p \o u, p \o v) /\ IsPrefix(p, p \o u)
<1> SUFFICES ASSUME NEW p \in Seq(AnyName), NEW u \in Seq(AnyName), NEW v \in Seq(AnyName),
                    IsPrefix(u, v)
             PROVE  IsPrefix(p \o u, p \o v) /\ IsPrefix(p, p \o u)
  OBVIOUS
<1> DEFINE a == p \o u
           b == p \o v
<1>1. /\ Len(p) \in Nat /\ Len(u) \in Nat /\ Len(v) \in Nat
      /\ Len(u) <= Len(v) /\ \A j \in 1..Len(u) : u[j] = v[j]
  BY PathPrefix, LenProperties
<1>2. /\ a \in Seq(AnyName) /\ Len(a) = Len(p) + Len(u)
      /\ \A j \in 1..(Len(p) + Len(u)) : a[j] = IF j <= Len(p) THEN p[j] ELSE u[j - Len(p)]
  BY ConcatProperties
<1>3. /\ b \in Seq(AnyName) /\ Len(b) = Len(p) + Len(v)
      /\ \A j \in 1..(Len(p) + Len(v)) : b[j] = IF j <= Len(p) THEN p[j] ELSE v[j - Len(p)]
  BY ConcatProperties
<1> HIDE DEF a, b
<1>4. ASSUME NEW j \in 1..Len(a) PROVE a[j] = b[j]
  <2>1. j \in 1..(Len(p) + Len(u)) /\ j \in 1..(Len(p) + Len(v))
    BY <1>1, <1>2
  <2>2. CASE j <= Len(p)
    BY <1>2, <1>3, <2>1, <2>2
  <2>3. CASE ~(j <= Len(p))
    <3>1. j - Len(p) \in 1..Len(u)
      BY <1>1, <2>1, <2>3
    <3> QED
      BY <1>1, <1>2, <1>3, <2>1, <2>3, <3>1
  <2> QED
    BY <2>2, <2>3
<1>5. Len(a) <= Len(b)
  BY <1>1, <1>2, <1>3
<1>6. IsPrefix(a, b)
  BY <1>2, <1>3, <1>4, <1>5, PathPrefix
<1>7. IsPrefix(p, a)
  <2>1. \A j \in 1..Len(p) : j \in 1..(Len(p) + Len(u)) /\ j <= Len(p)
    BY <1>1
  <2>2. Len(p) <= Len(a) /\ \A j \in 1..Len(p) : p[j] = a[j]
    BY <1>1, <1>2, <2>1
  <2> QED
    BY <1>2, <2>2, PathPrefix
<1> QED
  BY <1>6, <1>7 DEF a, b

LEMMA SuffixPrefix ==
  \A q, a \in Seq(AnyName), m \in Nat :
    IsPrefix(q, a) /\ m <= Len(q) =>
      /\ SubSeq(q, m + 1, Len(q)) \in Seq(AnyName) /\ SubSeq(a, m + 1, Len(a)) \in Seq(AnyName)
      /\ IsPrefix(SubSeq(q, m + 1, Len(q)), SubSeq(a, m + 1, Len(a)))
<1> SUFFICES ASSUME NEW q \in Seq(AnyName), NEW a \in Seq(AnyName), NEW m \in Nat,
                    IsPrefix(q, a), m <= Len(q)
             PROVE  /\ SubSeq(q, m + 1, Len(q)) \in Seq(AnyName)
                    /\ SubSeq(a, m + 1, Len(a)) \in Seq(AnyName)
                    /\ IsPrefix(SubSeq(q, m + 1, Len(q)), SubSeq(a, m + 1, Len(a)))
  OBVIOUS
<1> DEFINE u == SubSeq(q, m + 1, Len(q))
           v == SubSeq(a, m + 1, Len(a))
<1>1. /\ Len(q) \in Nat /\ Len(a) \in Nat
      /\ Len(q) <= Len(a) /\ \A j \in 1..Len(q) : q[j] = a[j]
  BY PathPrefix, LenProperties
<1>2. m \in 0..Len(q) /\ m \in 0..Len(a)
  BY <1>1
<1>3. /\ u \in Seq(AnyName) /\ Len(u) = Len(q) - m
      /\ \A j \in 1..(Len(q) - m) : u[j] = q[m + j]
  <2> HIDE DEF v
  <2> QED
    BY <1>2, Suffix
<1>4. /\ v \in Seq(AnyName) /\ Len(v) = Len(a) - m
      /\ \A j \in 1..(Len(a) - m) : v[j] = a[m + j]
  <2> HIDE DEF u
  <2> QED
    BY <1>2, Suffix
<1> HIDE DEF u, v
<1>5. ASSUME NEW j \in 1..Len(u) PROVE u[j] = v[j]
  <2>1. j \in 1..(Len(q) - m) /\ j \in 1..(Len(a) - m) /\ m + j \in 1..Len(q)
    BY <1>1, <1>3
  <2> QED
    BY <1>1, <1>3, <1>4, <2>1
<1>6. Len(u) <= Len(v)
  BY <1>1, <1>3, <1>4
<1>7. IsPrefix(u, v)
  BY <1>3, <1>4, <1>5, <1>6, PathPrefix
<1> QED
  BY <1>3, <1>4, <1>7 DEF u, v

LEMMA RenameIs ==
  ASSUME Typed, Rooted, NEW t \in AnyName, NEW e \in AnyName, NEW y \in AnyName,
         CanRename(disk, <<t, e>>, <<y>>), disk' = Rename(disk, <<t, e>>, <<y>>)
  PROVE  /\ t # y /\ <<t, e>> \in DOMAIN disk
         /\ \A r \in DOMAIN disk : ~IsPrefix(<<t, e>>, r) /\ r # <<y>> =>
              r \in DOMAIN disk' /\ disk'[r] = disk[r]
         /\ \A r \in DOMAIN disk : IsPrefix(<<t, e>>, r) =>
              \E z \in DOMAIN disk' : z[1] = y /\ disk'[z] = disk[r]
         /\ \A z \in DOMAIN disk' :
              \/ z \in DOMAIN disk /\ ~IsPrefix(<<t, e>>, z) /\ disk'[z] = disk[z]
              \/ /\ z \in Paths /\ z[1] = y
                 /\ \E r \in DOMAIN disk : IsPrefix(<<t, e>>, r) /\ disk'[z] = disk[r]
         /\ <<y>> \in DOMAIN disk'
         /\ Rooted'
<1> DEFINE p == <<t, e>>
           d == <<y>>
<1>1. /\ p \in Seq(AnyName) /\ p \in Paths /\ Len(p) = 2
      /\ d \in Seq(AnyName) /\ d \in Paths /\ d # <<>> /\ Len(d) = 1 /\ d[1] = y
      /\ p # <<>> /\ p[1] = t /\ p # d
  BY DEF Paths
<1>2. \A r \in Paths : IsPrefix(d, r) <=> r[1] = y
  BY TopPrefix
<1>3. /\ disk' = Rename(disk, p, d)
      /\ p \in DOMAIN disk /\ (d \in DOMAIN disk => Below(disk, d) = {d})
  BY DEF CanRename
<1> HIDE DEF p, d
<1> DEFINE taken == Below(disk, p)
           kept == Without(disk, taken \cup {d})
           to(x) == d \o SubSeq(x, Len(p) + 1, Len(x))
           from(r) == p \o SubSeq(r, Len(d) + 1, Len(r))
<1>4. \A x : x \in taken <=> x \in DOMAIN disk /\ IsPrefix(p, x)
  BY DEF Below
<1>5. /\ DOMAIN kept = DOMAIN disk \ (taken \cup {d})
      /\ \A r \in DOMAIN kept : kept[r] = disk[r]
  BY DEF Without, Restrict
<1>6. disk' = [r \in DOMAIN kept \cup {to(x) : x \in taken} |->
                 IF r \in DOMAIN kept THEN kept[r] ELSE disk[from(r)]]
  BY <1>3 DEF Rename
<1> HIDE DEF taken, kept
\* a path below p is moved below d, and found again from there
<1>7. \A x \in Seq(AnyName) : IsPrefix(p, x) => /\ to(x) \in Seq(AnyName) /\ to(x) # <<>>
                                                /\ to(x)[1] = y /\ from(to(x)) = x
  <2> SUFFICES ASSUME NEW x \in Seq(AnyName), IsPrefix(p, x)
               PROVE  /\ to(x) \in Seq(AnyName) /\ to(x) # <<>>
                      /\ to(x)[1] = y /\ from(to(x)) = x
    OBVIOUS
  <2> HIDE DEF from, to
  <2>1. LET r == d \o SubSeq(x, Len(p) + 1, Len(x)) IN
        /\ r \in Seq(AnyName) /\ r # <<>> /\ r[1] = d[1]
        /\ p \o SubSeq(r, Len(d) + 1, Len(r)) = x
    BY <1>1, MovedPath
  <2> QED
    BY <1>1, <2>1 DEF from, to
<1>8. \A r \in Seq(AnyName) : IsPrefix(d, r) => from(r) \in Seq(AnyName) /\ from(r) # <<>> /\ to(from(r)) = r
  <2> SUFFICES ASSUME NEW r \in Seq(AnyName), IsPrefix(d, r)
               PROVE  from(r) \in Seq(AnyName) /\ from(r) # <<>> /\ to(from(r)) = r
    OBVIOUS
  <2> HIDE DEF from, to
  <2>1. LET x == p \o SubSeq(r, Len(d) + 1, Len(r)) IN
        /\ x \in Seq(AnyName) /\ x # <<>> /\ x[1] = p[1]
        /\ d \o SubSeq(x, Len(p) + 1, Len(x)) = r
    BY <1>1, MovedPath
  <2> QED
    BY <2>1 DEF from, to
<1>9. \A q, a \in Seq(AnyName) : IsPrefix(d, q) /\ IsPrefix(q, a)
        => IsPrefix(from(q), from(a)) /\ IsPrefix(p, from(q))
  <2> SUFFICES ASSUME NEW q \in Seq(AnyName), NEW a \in Seq(AnyName), IsPrefix(d, q), IsPrefix(q, a)
               PROVE  IsPrefix(from(q), from(a)) /\ IsPrefix(p, from(q))
    OBVIOUS
  <2> DEFINE u == SubSeq(q, Len(d) + 1, Len(q))
             v == SubSeq(a, Len(d) + 1, Len(a))
  <2>1. Len(d) \in Nat /\ Len(d) <= Len(q)
    BY <1>1, PathPrefix
  <2>2. u \in Seq(AnyName) /\ v \in Seq(AnyName) /\ IsPrefix(u, v)
    BY <2>1, SuffixPrefix
  <2> HIDE DEF u, v
  <2>3. IsPrefix(p \o u, p \o v) /\ IsPrefix(p, p \o u)
    BY <1>1, <2>2, GraftPrefix
  <2> QED
    BY <2>3 DEF u, v
<1>10. /\ DOMAIN disk' = DOMAIN kept \cup {to(x) : x \in taken}
       /\ \A r \in DOMAIN disk' : disk'[r] = IF r \in DOMAIN kept THEN disk[r] ELSE disk[from(r)]
  <2> HIDE DEF to, from
  <2> QED
    BY <1>5, <1>6
<1>11. \A x \in taken : x \in DOMAIN disk /\ x \in Seq(AnyName) /\ IsPrefix(p, x)
  BY <1>4, DiskPaths
<1> HIDE DEF to, from
\* nothing was below d
<1>12. \A r \in Paths : r[1] = y /\ r \in DOMAIN disk => r = d
  <2> SUFFICES ASSUME NEW r \in Paths, r[1] = y, r \in DOMAIN disk, r # d PROVE FALSE
    OBVIOUS
  <2>1. IsPrefix(d, r)
    BY <1>2
  <2>2. d \in DOMAIN disk
    BY <1>1, <2>1 DEF Rooted
  <2> QED
    BY <1>3, <2>1, <2>2 DEF Below
<1>13. ASSUME NEW x \in taken
       PROVE  /\ to(x) \in DOMAIN disk' /\ to(x) \in Paths /\ to(x)[1] = y
              /\ disk'[to(x)] = disk[x] /\ from(to(x)) = x
  <2>1. /\ to(x) \in Seq(AnyName) /\ to(x) # <<>> /\ to(x)[1] = y /\ from(to(x)) = x
    BY <1>7, <1>11
  <2>2. to(x) \in Paths
    BY <2>1 DEF Paths
  <2>3. to(x) \in DOMAIN disk => to(x) = d
    BY <1>12, <2>1, <2>2
  <2>4. to(x) \in DOMAIN disk' /\ to(x) \notin DOMAIN kept
    BY <1>5, <1>10, <2>3
  <2> QED
    BY <1>10, <2>1, <2>2, <2>4
<1>14. ASSUME NEW z \in DOMAIN disk'
       PROVE  \/ z \in DOMAIN disk /\ ~IsPrefix(p, z) /\ disk'[z] = disk[z]
              \/ \E x \in taken : z = to(x)
  BY <1>4, <1>5, <1>10
<1>15. \A r \in DOMAIN disk : ~IsPrefix(p, r) /\ r # d => r \in DOMAIN disk' /\ disk'[r] = disk[r]
  BY <1>3, <1>4, <1>5, <1>10
<1>16. \A r \in DOMAIN disk : IsPrefix(p, r) => \E z \in DOMAIN disk' : z[1] = y /\ disk'[z] = disk[r]
  BY <1>4, <1>13
<1>17. \A z \in DOMAIN disk' :
         \/ z \in DOMAIN disk /\ ~IsPrefix(p, z) /\ disk'[z] = disk[z]
         \/ /\ z \in Paths /\ z[1] = y
            /\ \E r \in DOMAIN disk : IsPrefix(p, r) /\ disk'[z] = disk[r]
  BY <1>4, <1>13, <1>14
<1>18. Rooted'
  <2> SUFFICES ASSUME NEW a \in DOMAIN disk', NEW q \in Paths, IsPrefix(q, a), q # a
               PROVE  q \in DOMAIN disk' /\ disk'[q] = Dir
    BY DEF Rooted
  <2>0. q \in Seq(AnyName)
    BY PathTypes
  <2>1. CASE a \in DOMAIN disk /\ ~IsPrefix(p, a)
    <3>1. q \in DOMAIN disk /\ disk[q] = Dir
      BY <2>1 DEF Rooted
    <3>2. a \in Seq(AnyName)
      BY <2>1, DiskPaths
    <3>3. ~IsPrefix(p, q)
      BY <1>1, <2>0, <2>1, <3>2, PrefixOrder
    <3>4. q # d
      <4> SUFFICES ASSUME q = d PROVE FALSE
        OBVIOUS
      <4>1. a \in Paths /\ a[1] = y
        BY <1>2, <2>1, DiskPaths
      <4> QED
        BY <1>12, <2>1, <4>1
    <3> QED
      BY <1>15, <3>1, <3>3, <3>4
  <2>2. CASE \E x \in taken : a = to(x)
    <3>1. PICK x \in taken : a = to(x)
      BY <2>2
    <3>2. a \in Paths /\ a \in Seq(AnyName) /\ a[1] = y /\ from(a) = x
      BY <1>13, <3>1, PathTypes
    <3>3. q[1] = y
      BY <3>2, PathIff, FirstNames
    <3>4. IsPrefix(d, q)
      BY <1>2, <3>3
    <3> DEFINE b == from(q)
    <3>5. b \in Seq(AnyName) /\ b # <<>> /\ to(b) = q
      BY <1>8, <2>0, <3>4
    <3>6. IsPrefix(b, x) /\ IsPrefix(p, b)
      BY <1>9, <2>0, <3>2, <3>4
    <3>7. b # x
      BY <3>1, <3>5
    <3>8. b \in DOMAIN disk /\ disk[b] = Dir
      <4>1. b \in Paths
        BY <3>5 DEF Paths
      <4>2. x \in DOMAIN disk
        BY <1>11
      <4> HIDE DEF b
      <4> QED
        BY <3>6, <3>7, <4>1, <4>2 DEF Rooted
    <3>9. b \in taken
      BY <1>4, <3>6, <3>8
    <3> HIDE DEF b
    <3> QED
      BY <1>13, <3>5, <3>8, <3>9
  <2> QED
    BY <1>14, <2>1, <2>2
<1>19. d \in DOMAIN disk'
  <2>1. p \in taken
    BY <1>1, <1>3, <1>4, PrefixOrder
  <2>2. to(p) \in DOMAIN disk' /\ to(p) \in Paths /\ to(p)[1] = y
    BY <1>13, <2>1
  <2>3. CASE to(p) = d
    BY <2>2, <2>3
  <2>4. CASE to(p) # d
    BY <1>1, <1>2, <1>18, <2>2, <2>4 DEF Rooted
  <2> QED
    BY <2>3, <2>4
<1>20. t # y
  BY <1>1, <1>3, <1>12
<1> QED
  BY <1>3, <1>15, <1>16, <1>17, <1>18, <1>19, <1>20 DEF p, d

-----------------------------------------------------------------------------
(* Whose name it is.                                                       *)

LEMMA TopsAre ==
  ASSUME Typed, NEW s \in Sessions
  PROVE  /\ \A x \in Tops(s) : x \in AnyName /\ x = Name(x[2]) /\ x[2] \notin {"", "time", "rand"}
         /\ \A x \in TopBases(s) : x \notin {"", "time", "rand"}
         /\ Entry(s).path[1] \in Tops(s)
<1>1. request[s] \in Requests /\ k[s] \in 1..Len(request[s].entries)
  BY LenProperties DEF Typed
<1>2. /\ request[s].entries \in Seq(Range(request[s].entries))
      /\ \A e \in Range(request[s].entries) :
           /\ e.path \in Seq(Range(e.path)) /\ Len(e.path) > 0
           /\ \A x \in Range(e.path) : x = Name(x[2]) /\ x[2] \notin {"", "time", "rand"}
  BY <1>1, UploadAssumption
<1>3. Entry(s).path[1] \in Tops(s)
  BY <1>1 DEF Entry, Tops
<1>4. ASSUME NEW x \in Tops(s)
      PROVE  x \in AnyName /\ x = Name(x[2]) /\ x[2] \notin {"", "time", "rand"}
  <2>1. PICK i \in 1..Len(request[s].entries) : x = request[s].entries[i].path[1]
    BY <1>4 DEF Tops
  <2> DEFINE e == request[s].entries[i]
  <2>2. e \in Range(request[s].entries)
    BY <1>2, ElementOfSeq
  <2>3. e.path \in Seq(Range(e.path)) /\ 1 \in 1..Len(e.path)
    <3>1. e.path \in Seq(Range(e.path)) /\ Len(e.path) > 0
      BY <1>2, <2>2
    <3> QED
      BY <3>1, LenProperties
  <2>4. x \in Range(e.path)
    BY <2>1, <2>3, ElementOfSeq
  <2>5. x = Name(x[2]) /\ x[2] \notin {"", "time", "rand"}
    BY <1>2, <2>2, <2>4
  <2>6. x[2] \in Bases
    BY <1>1, <2>2, <2>4 DEF Bases, EntryName, Entries
  <2> HIDE DEF Bases, e
  <2>7. x = <<0, x[2]>> /\ 0 \in Nat
    BY <2>5 DEF Name
  <2>8. x \in AnyName
    BY <2>6, <2>7 DEF AnyName
  <2> QED
    BY <2>5, <2>8
<1>5. \A x \in TopBases(s) : x \notin {"", "time", "rand"}
  BY <1>4 DEF TopBases
<1> QED
  BY <1>3, <1>4, <1>5

LEMMA RequestLen ==
  ASSUME Typed, NEW s \in Sessions
  PROVE  /\ Len(request[s].entries) \in Nat \ {0} /\ k[s] \in 1..Len(request[s].entries)
         /\ \A j \in 1..k[s] : j \in Nat /\ j \in 1..Len(request[s].entries)
         /\ \A j \in 1..Len(request[s].entries) : j \in Places /\ j \in Nat \ {0}
         /\ Version(s) = 1 => Len(request[s].entries) = 1 /\ ~request[s].entries[1].dir
         /\ Version(s) = 1 => k[s] = 1
<1>1. request[s] \in Requests /\ k[s] \in Nat \ {0} /\ k[s] <= Len(request[s].entries)
  BY DEF Typed
<1>2. request[s].entries \in Seq(Range(request[s].entries)) /\ Len(request[s].entries) > 0
  BY <1>1, UploadAssumption
<1>3. Len(request[s].entries) \in Nat \ {0}
  BY <1>2, LenProperties
<1>4. \A j \in 1..Len(request[s].entries) : j \in Places /\ j \in Nat \ {0}
  BY <1>1 DEF Places
<1>5. Version(s) = 1 => Len(request[s].entries) = 1
  BY <1>1, UploadAssumption DEF Version
<1>6. Version(s) = 1 => ~request[s].entries[1].dir
  <2> SUFFICES ASSUME Version(s) = 1, request[s].entries[1].dir PROVE FALSE
    OBVIOUS
  <2>1. request[s].entries[1] \in Range(request[s].entries)
    BY <1>2, <1>5, ElementOfSeq
  <2>2. request[s].version >= 3
    BY <1>1, <2>1, UploadAssumption
  <2> QED
    BY <2>2 DEF Version
<1>7. ASSUME Version(s) = 1 PROVE k[s] = 1
  <2>1. k[s] <= 1
    BY <1>1, <1>5, <1>7
  <2> QED
    BY <1>1, <2>1
<1> QED
  BY <1>1, <1>3, <1>4, <1>5, <1>6, <1>7

\* What a step of a session leaves to the others.
Others(s) ==
  /\ UNCHANGED request
  /\ \A q \in Sessions \ {s} :
       /\ pc'[q] = pc[q] /\ k'[q] = k[q] /\ entry'[q] = entry[q] /\ path'[q] = path[q]
       /\ inode'[q] = inode[q] /\ tmp'[q] = tmp[q] /\ left'[q] = left[q]
       /\ dest'[q] = dest[q] /\ ok'[q] = ok[q] /\ moved'[q] = moved[q] /\ acked'[q] = acked[q]
  /\ tmp'[s] = tmp[s] \/ tmp[s] = NoName

\* Only names and files of the session are disturbed, but by the removals of a
\* headless build.
Confined(s) ==
  /\ \A p \in DOMAIN disk' : ~Own(s, p[1])' => p \in DOMAIN disk /\ disk'[p] = disk[p]
  /\ ~Headless => \A p \in DOMAIN disk : ~Own(s, p[1])' => p \in DOMAIN disk'
  /\ \A q \in Sessions \ {s} : \A j \in 1..Len(request[q].entries) :
       content'[<<q, j>>] = content[<<q, j>>]

LEMMA OthersNames ==
  ASSUME NEW s \in Sessions, Others(s)
  PROVE  /\ \A q \in Sessions : Tops(q)' = Tops(q) /\ TopBases(q)' = TopBases(q) /\ Version(q)' = Version(q)
         /\ \A q \in Sessions \ {s} : \A x : Own(q, x)' <=> Own(q, x)
         /\ \A x : Own(s, x) => Own(s, x)'
         /\ Overlap => Overlap'
<1>1. \A q \in Sessions : Tops(q)' = Tops(q)
  BY DEF Others, Tops
<1>2. \A q \in Sessions : TopBases(q)' = TopBases(q) /\ Version(q)' = Version(q)
  BY <1>1 DEF Others, TopBases, Version
<1>3. \A q \in Sessions \ {s} : tmp'[q] = tmp[q]
  BY DEF Others
<1>4. tmp'[s] = tmp[s] \/ tmp[s] = NoName
  BY DEF Others
<1>5. \A q \in Sessions \ {s} : \A x : Own(q, x)' <=> Own(q, x)
  BY <1>2, <1>3 DEF Own
<1>6. \A x : Own(s, x) => Own(s, x)'
  BY <1>2, <1>4 DEF Own
<1>7. ASSUME Overlap PROVE Overlap'
  <2>1. PICK u \in Sessions, v \in Sessions :
          u # v /\ (Tops(u) \cap Tops(v) # {} \/ (tmp[u] = tmp[v] /\ tmp[u] # NoName))
    BY <1>7 DEF Overlap
  <2>2. Tops(u) \cap Tops(v) # {} => (Tops(u) \cap Tops(v) # {})'
    BY <1>1
  <2>3. tmp[u] = tmp[v] /\ tmp[u] # NoName => tmp'[u] = tmp'[v] /\ tmp'[u] # NoName
    BY <1>3, <1>4
  <2> QED
    BY <2>1, <2>2, <2>3 DEF Overlap
<1> QED
  BY <1>1, <1>2, <1>5, <1>6, <1>7

\* No name comes to belong to two sessions.
LEMMA OwnOnce ==
  ASSUME Typed, NEW s \in Sessions, NEW q \in Sessions, s # q, Others(s), NamedAt(s)', NamedAt(q),
         ~Overlap', NEW x, Own(q, x)
  PROVE  ~Own(s, x)'
<1> SUFFICES ASSUME Own(s, x)' PROVE FALSE
  OBVIOUS
<1>1. (Tops(s) \cap Tops(q) = {})' /\ ~(tmp'[s] = tmp'[q] /\ tmp'[s] # NoName)
  BY DEF Overlap
<1>2. /\ Tops(s)' = Tops(s) /\ Tops(q)' = Tops(q)
      /\ TopBases(s)' = TopBases(s) /\ tmp'[q] = tmp[q]
  BY OthersNames DEF Others
<1>3. /\ tmp'[s] = NoName \/ tmp'[s][2] \in {"time", "rand"}
      /\ tmp[q] = NoName \/ tmp[q][2] \in {"time", "rand"}
  BY DEF NamedAt
<1>4. /\ \A b \in TopBases(s) \cup TopBases(q) : b \notin {"", "time", "rand"}
      /\ \A y \in Tops(s) \cup Tops(q) : y = Name(y[2])
  BY TopsAre
<1>5. ~(x[2] \in TopBases(s) /\ x[2] \in TopBases(q))
  <2> SUFFICES ASSUME x[2] \in TopBases(s), x[2] \in TopBases(q) PROVE FALSE
    OBVIOUS
  <2>1. PICK y \in Tops(s) : y[2] = x[2]
    BY DEF TopBases
  <2>2. PICK z \in Tops(q) : z[2] = x[2]
    BY DEF TopBases
  <2>3. y = z
    BY <1>4, <2>1, <2>2
  <2> QED
    BY <1>1, <1>2, <2>3
<1>6. /\ (x = tmp'[s] /\ x # NoName) \/ x[2] \in TopBases(s)
      /\ (x = tmp[q] /\ x # NoName) \/ x[2] \in TopBases(q)
  BY <1>2 DEF Own
<1> QED
  BY <1>1, <1>2, <1>3, <1>4, <1>5, <1>6

\* the names a session is busy with are its own
LEMMA OwnPlaces ==
  ASSUME NEW s \in Sessions, StagedAt(s), NamedAt(s), TakesAt(s)
  PROVE  /\ pc[s] \in {"open", "data", "move"} => Own(s, path[s][1])
         /\ Temporary(s) => Own(s, tmp[s])
<1>1. Temporary(s) => Own(s, tmp[s])
  BY DEF NamedAt, Own
<1>2. pc[s] \in {"open", "data"} /\ Version(s) # 1 => path[s][1] = tmp[s] /\ Temporary(s)
  BY DEF NamedAt, Temporary, Filling
<1>3. pc[s] \in {"open", "data"} /\ Version(s) = 1 => Own(s, path[s][1])
  BY DEF NamedAt, Own
<1>4. pc[s] = "move" => Own(s, path[s][1])
  BY DEF TakesAt, Own
<1> QED
  BY <1>1, <1>2, <1>3, <1>4

LEMMA OthersKeep ==
  ASSUME Typed, NEW s \in Sessions, Others(s), Confined(s), NamedAt(s)', ~Overlap',
         NEW q \in Sessions, s # q, StagedAt(q), NamedAt(q), ShownAt(q),
         ~Headless => DestAt(q) /\ HoldsAt(q)
  PROVE  ShownAt(q)' /\ (~Headless => DestAt(q)' /\ HoldsAt(q)')
<1>1. /\ pc'[q] = pc[q] /\ k'[q] = k[q] /\ entry'[q] = entry[q] /\ path'[q] = path[q]
      /\ inode'[q] = inode[q] /\ tmp'[q] = tmp[q] /\ left'[q] = left[q]
      /\ dest'[q] = dest[q] /\ ok'[q] = ok[q] /\ moved'[q] = moved[q] /\ acked'[q] = acked[q]
      /\ request' = request
  BY DEF Others
<1>2. /\ Tops(q)' = Tops(q) /\ TopBases(q)' = TopBases(q) /\ Version(q)' = Version(q)
      /\ \A x : Own(q, x)' <=> Own(q, x)
  BY OthersNames
<1>3. \A x : Own(q, x) => ~Own(s, x)'
  BY OwnOnce
<1>4. \A p \in DOMAIN disk' : Own(q, p[1]) => p \in DOMAIN disk /\ disk'[p] = disk[p]
  BY <1>3 DEF Confined
<1>5. ~Headless => \A p \in DOMAIN disk : Own(q, p[1]) => p \in DOMAIN disk' /\ disk'[p] = disk[p]
  BY <1>3 DEF Confined
<1>6. \A j \in 1..Len(request[q].entries) : content'[<<q, j>>] = content[<<q, j>>]
  BY DEF Confined
<1>7. /\ pc[q] \in {"open", "data", "move"} => Own(q, path[q][1])
      /\ Temporary(q) => Own(q, tmp[q])
  BY OwnPlaces DEF ShownAt
<1>8. /\ Temporary(q)' <=> Temporary(q)
      /\ Past(q)' <=> Past(q)
      /\ Upload(q)' = Upload(q)
  BY <1>1, <1>2 DEF Temporary, Past, Upload
<1>9. /\ TakesAt(q) /\ FreeAt(q) /\ WritesAt(q) /\ FilesAt(q) /\ SealedAt(q) /\ VisibleAt(q)
      /\ k[q] \in Nat
  BY DEF ShownAt, Typed
<1>10. \A p \in DOMAIN disk' : Own(q, p[1]) /\ Made(p)' =>
         /\ Made(p) /\ disk'[p] = disk[p] /\ content'[disk'[p]] = content[disk[p]]
         /\ \E j \in 1..k[q] : disk[p] = <<q, j>> /\ (j = k[q] => Past(q))
  <2> SUFFICES ASSUME NEW p \in DOMAIN disk', Own(q, p[1]), Made(p)'
               PROVE  /\ Made(p) /\ disk'[p] = disk[p] /\ content'[disk'[p]] = content[disk[p]]
                      /\ \E j \in 1..k[q] : disk[p] = <<q, j>> /\ (j = k[q] => Past(q))
    OBVIOUS
  <2>1. p \in DOMAIN disk /\ disk'[p] = disk[p]
    BY <1>4
  <2>2. Made(p)
    BY <2>1 DEF Made
  <2>3. PICK j \in 1..k[q] : disk[p] = <<q, j>> /\ (j = k[q] => Past(q))
    BY <1>9, <2>1, <2>2 DEF FilesAt
  <2>4. content'[disk'[p]] = content[disk[p]]
    BY <1>6, <2>1, <2>3, RequestLen
  <2> QED
    BY <2>1, <2>2, <2>3, <2>4
<1>11. TakesAt(q)'
  BY <1>1, <1>2, <1>9 DEF TakesAt
<1>12. FreeAt(q)'
  BY <1>1, <1>4, <1>7, <1>9 DEF FreeAt
<1>13. WritesAt(q)'
  BY <1>1, <1>4, <1>5, <1>7, <1>8, <1>9 DEF WritesAt
<1>14. FilesAt(q)'
  BY <1>1, <1>2, <1>8, <1>10 DEF FilesAt
<1>15. SealedAt(q)'
  <2> SUFFICES ASSUME Temporary(q), NEW p \in DOMAIN disk', p[1] = tmp[q]
               PROVE  /\ Len(p) > 1 => p[2] \in Tops(q)
                      /\ Made(p)' => /\ Len(p) > 1
                                     /\ content'[disk'[p]] = disk'[p] \/ (pc[q] = "data" /\ p = path[q])
    BY <1>1, <1>2, <1>8 DEF SealedAt
  <2>1. Own(q, p[1]) /\ p \in DOMAIN disk
    BY <1>4, <1>7
  <2> QED
    BY <1>9, <1>10, <2>1 DEF SealedAt
<1>16. VisibleAt(q)'
  <2> SUFFICES ASSUME NEW p \in DOMAIN disk', Own(q, p[1]), Made(p)'
               PROVE  \/ content'[disk'[p]] = disk'[p]
                      \/ p[1] = tmp[q]
                      \/ Version(q) = 1 /\ path[q] = p /\ pc[q] \in {"data", "killed"}
    BY <1>1, <1>2 DEF VisibleAt
  <2>1. p \in DOMAIN disk
    BY <1>4
  <2> QED
    BY <1>9, <1>10, <2>1 DEF VisibleAt
<1>17. ASSUME ~Headless PROVE DestAt(q)' /\ HoldsAt(q)'
  <2>1. DestAt(q) /\ HoldsAt(q)
    BY <1>17
  <2>2. \A x : <<x>>[1] = x
    OBVIOUS
  <2>3. \A x \in dest[q] : Own(q, <<x>>[1])
    BY <2>1, <2>2 DEF DestAt, Own
  <2>4. DestAt(q)'
    BY <1>1, <1>2, <1>5, <1>17, <2>1, <2>3 DEF DestAt
  <2>5. \A i \in 1..Len(request[q].entries), p \in DOMAIN disk : Stored(q, i, p) => p \in DOMAIN disk' /\ Stored(q, i, p)'
    BY <1>2, <1>5, <1>6, <1>17 DEF Stored
  <2>6. \A p : Where(q, p)' <=> Where(q, p)
    BY <1>1 DEF Where
  <2>7. Received(q)' = Received(q) /\ Received(q) \subseteq 1..Len(request[q].entries)
    BY <1>1, <1>2 DEF Received
  <2>8. \A i \in Received(q) : (\E p \in DOMAIN disk : Stored(q, i, p) /\ Where(q, p))'
    <3> SUFFICES ASSUME NEW i \in Received(q)
                 PROVE  \E p \in DOMAIN disk' : Stored(q, i, p)' /\ Where(q, p)'
      OBVIOUS
    <3>1. PICK p \in DOMAIN disk : Stored(q, i, p) /\ Where(q, p)
      BY <2>1 DEF HoldsAt
    <3> QED
      BY <2>5, <2>6, <2>7, <3>1
  <2>9. acked[q] => \A i \in 1..Len(request[q].entries) : ~request[q].entries[i].dir =>
          (\E p \in DOMAIN disk : Stored(q, i, p))'
    <3> SUFFICES ASSUME acked[q], NEW i \in 1..Len(request[q].entries), ~request[q].entries[i].dir
                 PROVE  \E p \in DOMAIN disk' : Stored(q, i, p)'
      OBVIOUS
    <3>1. PICK p \in DOMAIN disk : Stored(q, i, p)
      BY <2>1 DEF HoldsAt
    <3> QED
      BY <2>5, <3>1
  <2>10. HoldsAt(q)'
    BY <1>1, <2>7, <2>8, <2>9 DEF HoldsAt
  <2> QED
    BY <2>4, <2>10
<1> QED
  BY <1>11, <1>12, <1>13, <1>14, <1>15, <1>16, <1>17 DEF ShownAt

-----------------------------------------------------------------------------
(* What every step keeps.                                                  *)

LEMMA OthersOf ==
  ASSUME Typed, Shaped, NEW s \in Sessions, NamedAt(s),
         Begin(s) \/ Step(s) \/ LoseSelection(s) \/ Kill(s)
  PROVE  Others(s)
<1>1. CASE Begin(s) \/ ListOld(s)
  BY <1>1 DEF Begin, ListOld, Goto, Typed, Others
<1>2. CASE Wipe(s)
  BY <1>2 DEF Wipe, Goto, Typed, Others
<1>3. CASE NameTaken(s) \/ NameFree(s)
  BY <1>3 DEF NameTaken, NameFree, Goto, Typed, Others
<1>4. CASE NoNameLeft(s)
  BY <1>4 DEF NoNameLeft, NotMoved, Goto, Typed, Shaped, Others
<1>5. CASE TempTaken(s)
  BY <1>5 DEF TempTaken, Others
<1>6. CASE TempFree(s)
  <2>1. tmp[s] = NoName
    BY <1>6 DEF TempFree, At, NamedAt, Before
  <2> QED
    BY <1>6, <2>1 DEF TempFree, Goto, Typed, Others
<1>7. CASE MakeTemp(s)
  BY <1>7 DEF MakeTemp, Goto, Typed, Shaped, Others
<1>8. CASE FilePlace(s) \/ FileRefused(s)
  BY <1>8 DEF FilePlace, FileRefused, Failed, Goto, Typed, Shaped, Others
<1>9. CASE OpenFile(s)
  BY <1>9 DEF OpenFile, Goto, Typed, Others
<1>10. CASE MakeDirectory(s) \/ DataReceived(s)
  <2>1. Advance(s) /\ UNCHANGED <<request, entry, path, inode, tmp, left, ok, moved, acked>>
    BY <1>10 DEF MakeDirectory, DataReceived
  <2>2. \A q \in Sessions \ {s} : pc'[q] = pc[q] /\ k'[q] = k[q]
    BY <2>1 DEF Advance, Goto, Typed
  <2>3. \A q \in Sessions \ {s} : dest'[q] = dest[q]
    BY <1>10 DEF MakeDirectory, DataReceived, Shaped
  <2> QED
    BY <2>1, <2>2, <2>3 DEF Others
<1>11. CASE DataFailed(s)
  BY <1>11 DEF DataFailed, Failed, Goto, Typed, Shaped, Others
<1>12. CASE Ack(s) \/ ListTemp(s)
  BY <1>12 DEF Ack, ListTemp, Goto, Typed, Shaped, Others
<1>13. CASE NextEntry(s) \/ Move(s)
  BY <1>13 DEF NextEntry, Move, NotMoved, Goto, Typed, Shaped, Others
<1>14. CASE RemoveTemp(s)
  BY <1>14 DEF RemoveTemp, NotMoved, Goto, Typed, Shaped, Others
<1>15. CASE Cut(s) \/ LoseSelection(s) \/ Kill(s)
  BY <1>15 DEF Cut, LoseSelection, Kill, locals, Goto, Typed, Shaped, Others
<1> QED
  BY <1>1, <1>2, <1>3, <1>4, <1>5, <1>6, <1>7, <1>8, <1>9, <1>10, <1>11, <1>12, <1>13,
     <1>14, <1>15
  DEF Step

LEMMA NextShaped ==
  ASSUME Shaped, NEW s \in Sessions, Begin(s) \/ Step(s) \/ LoseSelection(s) \/ Kill(s)
  PROVE  Shaped'
<1>1. DOMAIN dest' = DOMAIN dest
  BY DEF Step, Begin, ListOld, Wipe, NameTaken, NoNameLeft, NameFree, TempTaken, TempFree,
         MakeTemp, FilePlace, FileRefused, OpenFile, MakeDirectory, DataReceived, DataFailed,
         Ack, ListTemp, NextEntry, Move, RemoveTemp, Cut, LoseSelection, Kill, locals
<1>2. DOMAIN ok' = DOMAIN ok
  BY DEF Step, Begin, ListOld, Wipe, NameTaken, NoNameLeft, NameFree, TempTaken, TempFree,
         MakeTemp, FilePlace, FileRefused, OpenFile, MakeDirectory, DataReceived, DataFailed,
         Ack, ListTemp, NextEntry, Move, RemoveTemp, Cut, LoseSelection, Kill, locals, Failed,
         NotMoved
<1>5. DOMAIN moved' = DOMAIN moved
  BY DEF Step, Begin, ListOld, Wipe, NameTaken, NoNameLeft, NameFree, TempTaken, TempFree,
         MakeTemp, FilePlace, FileRefused, OpenFile, MakeDirectory, DataReceived, DataFailed,
         Ack, ListTemp, NextEntry, Move, RemoveTemp, Cut, LoseSelection, Kill, locals, NotMoved
<1>3. DOMAIN acked' = DOMAIN acked
  BY DEF Step, Begin, ListOld, Wipe, NameTaken, NoNameLeft, NameFree, TempTaken, TempFree,
         MakeTemp, FilePlace, FileRefused, OpenFile, MakeDirectory, DataReceived, DataFailed,
         Ack, ListTemp, NextEntry, Move, RemoveTemp, Cut, LoseSelection, Kill, locals
<1>4. DOMAIN content' = DOMAIN content
  BY DEF Step, Begin, ListOld, Wipe, NameTaken, NoNameLeft, NameFree, TempTaken, TempFree,
         MakeTemp, FilePlace, FileRefused, OpenFile, MakeDirectory, DataReceived, DataFailed,
         Ack, ListTemp, NextEntry, Move, RemoveTemp, Cut, LoseSelection, Kill
<1> QED
  BY <1>1, <1>2, <1>3, <1>4, <1>5 DEF Shaped, Places

\* what one session has said of itself, and of the files if no name is shared
Mine(s) == /\ ShownAt(s)
           /\ ~Headless => DestAt(s) /\ HoldsAt(s)

LEMMA SeparateKeeps ==
  ASSUME Typed, Staged, Separate, NEW s \in Sessions, Others(s), NamedAt(s)', OkayAt(s)',
         ~Overlap /\ ~Overlap' => Confined(s) /\ Mine(s)'
  PROVE  Separate'
<1>1. \A q \in Sessions : Tops(q)' = Tops(q) /\ TopBases(q)' = TopBases(q) /\ Version(q)' = Version(q)
  BY OthersNames
<1>2. ASSUME NEW q \in Sessions PROVE NamedAt(q)' /\ OkayAt(q)'
  <2>1. CASE q = s
    BY <2>1
  <2>2. CASE q # s
    <3>1. /\ pc'[q] = pc[q] /\ k'[q] = k[q] /\ entry'[q] = entry[q] /\ path'[q] = path[q]
          /\ tmp'[q] = tmp[q] /\ dest'[q] = dest[q] /\ ok'[q] = ok[q] /\ acked'[q] = acked[q]
      BY <2>2 DEF Others
    <3>2. NamedAt(q) /\ OkayAt(q)
      BY DEF Separate
    <3>3. NamedAt(q)'
      BY <1>1, <3>1, <3>2 DEF NamedAt, Temporary
    <3>4. OkayAt(q)'
      BY <1>1, <3>1, <3>2 DEF OkayAt
    <3> QED
      BY <3>3, <3>4
  <2> QED
    BY <2>1, <2>2
<1>3. ASSUME ~Overlap'
      PROVE  Owned' /\ \A q \in Sessions : ShownAt(q)' /\ (~Headless => DestAt(q)' /\ HoldsAt(q)')
  <2>1. ~Overlap
    BY <1>3, OthersNames
  <2>2. Confined(s) /\ Mine(s)'
    BY <1>3, <2>1
  <2>3. Owned /\ \A q \in Sessions : NamedAt(q) /\ StagedAt(q) /\ ShownAt(q) /\ (~Headless => DestAt(q) /\ HoldsAt(q))
    BY <2>1 DEF Separate, Staged
  <2>4. \A q \in Sessions \ {s} : \A x : Own(q, x) => Own(q, x)'
    BY OthersNames
  <2>5. \A x : Own(s, x) => Own(s, x)'
    BY OthersNames
  <2>6. Owned'
    <3> SUFFICES ASSUME NEW p \in DOMAIN disk', Made(p)', ~Own(s, p[1])'
                 PROVE  \E q \in Sessions : Own(q, p[1])'
      BY DEF Owned
    <3>1. p \in DOMAIN disk /\ disk'[p] = disk[p]
      BY <2>2 DEF Confined
    <3>2. Made(p)
      BY <3>1 DEF Made
    <3>3. PICK q \in Sessions : Own(q, p[1])
      BY <2>3, <3>1, <3>2 DEF Owned
    <3> QED
      BY <2>4, <2>5, <3>3
  <2>7. ASSUME NEW q \in Sessions, q # s
        PROVE  ShownAt(q)' /\ (~Headless => DestAt(q)' /\ HoldsAt(q)')
    BY <1>3, <2>2, <2>3, <2>7, OthersKeep
  <2> QED
    BY <2>2, <2>6, <2>7 DEF Mine
<1> QED
  BY <1>2, <1>3 DEF Separate

-----------------------------------------------------------------------------
(* What a step of a session does to its own part.                          *)

\* A step that changes no data, and makes nothing but directories.
LEMMA TreeShown ==
  ASSUME Typed, NEW s \in Sessions, Others(s), NamedAt(s)', ShownAt(s), content' = content,
         \A p \in DOMAIN disk' : Own(s, p[1])' /\ Made(p)' =>
           Own(s, p[1]) /\ Made(p) /\ disk'[p] = disk[p] /\ (p[1] = tmp'[s] <=> p[1] = tmp[s]),
         Temporary(s)' => \A p \in DOMAIN disk' : p[1] = tmp'[s] /\ Len(p) > 1 => p[2] \in Tops(s),
         Temporary(s)' => Temporary(s) \/ \A p \in DOMAIN disk' : Made(p)' => p[1] # tmp'[s],
         k'[s] = k[s] + 1 \/ (k'[s] = k[s] /\ (Past(s) => Past(s)')),
         pc[s] = "data" => pc'[s] = "killed" \/ path[s] \notin DOMAIN disk',
         pc[s] = "data" => path'[s] = path[s],
         pc[s] # "killed", pc'[s] # "data", TakesAt(s)', FreeAt(s)'
  PROVE  ShownAt(s)'
<1>1. /\ Tops(s)' = Tops(s) /\ Version(s)' = Version(s)
      /\ Temporary(s)' => Own(s, tmp[s])'
  BY OthersNames DEF NamedAt, Own
<1>2. FilesAt(s) /\ SealedAt(s) /\ VisibleAt(s) /\ k[s] \in Nat
  BY DEF ShownAt, Typed
<1>3. WritesAt(s)'
  BY DEF WritesAt
<1>4. FilesAt(s)'
  <2> SUFFICES ASSUME NEW p \in DOMAIN disk', Own(s, p[1])', Made(p)'
               PROVE  \E j \in 1..k'[s] : disk'[p] = <<s, j>> /\ (j = k'[s] => Past(s)')
    BY DEF FilesAt
  <2>1. p \in DOMAIN disk /\ Own(s, p[1]) /\ Made(p) /\ disk'[p] = disk[p]
    BY DEF Made
  <2>2. PICK j \in 1..k[s] : disk[p] = <<s, j>> /\ (j = k[s] => Past(s))
    BY <1>2, <2>1 DEF FilesAt
  <2>3. j \in 1..k'[s] /\ (j = k'[s] => Past(s)')
    BY <1>2, <2>2
  <2> QED
    BY <2>1, <2>2, <2>3
<1>5. SealedAt(s)'
  <2> SUFFICES ASSUME Temporary(s)', NEW p \in DOMAIN disk', p[1] = tmp'[s]
               PROVE  /\ Len(p) > 1 => p[2] \in Tops(s)
                      /\ Made(p)' => Len(p) > 1 /\ content'[disk'[p]] = disk'[p]
    BY <1>1 DEF SealedAt
  <2>1. ASSUME Made(p)' PROVE Len(p) > 1 /\ content'[disk'[p]] = disk'[p]
    <3>1. Own(s, p[1]) /\ Made(p) /\ p \in DOMAIN disk /\ disk'[p] = disk[p] /\ p[1] = tmp[s]
      BY <1>1, <2>1 DEF Made
    <3>2. Temporary(s)
      BY <2>1
    <3>3. Len(p) > 1 /\ (content[disk[p]] = disk[p] \/ (pc[s] = "data" /\ p = path[s]))
      BY <1>2, <3>1, <3>2 DEF SealedAt
    <3>4. ~(pc[s] = "data" /\ p = path[s])
      BY DEF Temporary, Filling, Moving
    <3> QED
      BY <3>1, <3>3, <3>4
  <2> QED
    BY <2>1
<1>6. VisibleAt(s)'
  <2> SUFFICES ASSUME NEW p \in DOMAIN disk', Own(s, p[1])', Made(p)'
               PROVE  \/ content'[disk'[p]] = disk'[p]
                      \/ p[1] = tmp'[s]
                      \/ Version(s) = 1 /\ path'[s] = p /\ pc'[s] \in {"data", "killed"}
    BY <1>1 DEF VisibleAt
  <2>1. /\ p \in DOMAIN disk /\ Own(s, p[1]) /\ Made(p) /\ disk'[p] = disk[p]
        /\ p[1] = tmp[s] => p[1] = tmp'[s]
    BY DEF Made
  <2>2. \/ content[disk[p]] = disk[p]
        \/ p[1] = tmp[s]
        \/ Version(s) = 1 /\ path[s] = p /\ pc[s] \in {"data", "killed"}
    BY <1>2, <2>1 DEF VisibleAt
  <2> QED
    BY <2>1, <2>2
<1> QED
  BY <1>3, <1>4, <1>5, <1>6 DEF ShownAt

LEMMA HoldsKeeps ==
  ASSUME NEW s \in Sessions, UNCHANGED request, HoldsAt(s),
         \A i \in 1..Len(request[s].entries) : \A p \in DOMAIN disk : Stored(s, i, p) =>
           \E z \in DOMAIN disk' : /\ Stored(s, i, z)'
                                   /\ i \in Received(s)' /\ Where(s, p) => Where(s, z)',
         \A i \in Received(s)' :
           \/ i \in Received(s)
           \/ \E z \in DOMAIN disk' : Stored(s, i, z)' /\ Where(s, z)',
         acked'[s] => \/ acked[s]
                      \/ \A i \in 1..Len(request[s].entries) :
                           ~request[s].entries[i].dir => i \in Received(s)
  PROVE  HoldsAt(s)'
<1>1. Received(s)' \subseteq 1..Len(request[s].entries) /\ Received(s) \subseteq 1..Len(request[s].entries)
  BY DEF Received
<1>2. ASSUME NEW i \in Received(s)'
      PROVE  \E z \in DOMAIN disk' : Stored(s, i, z)' /\ Where(s, z)'
  <2>1. CASE i \in Received(s)
    <3>1. PICK p \in DOMAIN disk : Stored(s, i, p) /\ Where(s, p)
      BY <2>1 DEF HoldsAt
    <3> QED
      BY <1>1, <1>2, <3>1
  <2> QED
    BY <1>2, <2>1
<1>3. ASSUME acked'[s], NEW i \in 1..Len(request[s].entries), ~request[s].entries[i].dir
      PROVE  \E z \in DOMAIN disk' : Stored(s, i, z)'
  <2>1. PICK p \in DOMAIN disk : Stored(s, i, p)
    BY <1>3 DEF HoldsAt
  <2> QED
    BY <2>1
<1> QED
  BY <1>2, <1>3 DEF HoldsAt

\* A step that leaves the files alone.
LEMMA QuietMine ==
  ASSUME Typed, NEW s \in Sessions, Others(s), NamedAt(s)', Mine(s),
         UNCHANGED <<disk, content>>, tmp'[s] = tmp[s], k'[s] = k[s],
         Temporary(s)' => Temporary(s), Past(s) => Past(s)',
         pc[s] = "data" => pc'[s] = "killed" /\ path'[s] = path[s],
         pc[s] # "killed", pc'[s] # "data", TakesAt(s)', FreeAt(s)',
         dest'[s] = dest[s], ~Headless => HoldsAt(s)'
  PROVE  Confined(s) /\ Mine(s)'
<1>1. Tops(s)' = Tops(s) /\ TopBases(s)' = TopBases(s) /\ \A x : Own(s, x)' <=> Own(s, x)
  BY OthersNames DEF Own
<1>2. \A p : Made(p)' <=> Made(p)
  BY DEF Made
<1>3. Confined(s)
  BY DEF Confined
<1>4. ShownAt(s)'
  <2>1. ShownAt(s) /\ SealedAt(s)
    BY DEF Mine, ShownAt
  <2>2. \A p \in DOMAIN disk' : Own(s, p[1])' /\ Made(p)' =>
           Own(s, p[1]) /\ Made(p) /\ disk'[p] = disk[p] /\ (p[1] = tmp'[s] <=> p[1] = tmp[s])
    BY <1>1, <1>2
  <2>3. Temporary(s)' => \A p \in DOMAIN disk' : p[1] = tmp'[s] /\ Len(p) > 1 => p[2] \in Tops(s)
    BY <2>1 DEF SealedAt
  <2> QED
    BY <2>1, <2>2, <2>3, TreeShown
<1>5. ~Headless => DestAt(s)'
  BY <1>1 DEF Mine, DestAt
<1> QED
  BY <1>3, <1>4, <1>5 DEF Mine

\* The files stay where they are.
LEMMA QuietHolds ==
  ASSUME NEW s \in Sessions, Others(s), HoldsAt(s),
         UNCHANGED <<disk, content>>, tmp'[s] = tmp[s],
         \A i \in 1..Len(request[s].entries) : \A p \in DOMAIN disk :
           Stored(s, i, p) /\ i \in Received(s)' /\ Where(s, p) => Where(s, p)',
         Received(s)' \subseteq Received(s),
         acked'[s] => \/ acked[s]
                      \/ \A i \in 1..Len(request[s].entries) :
                           ~request[s].entries[i].dir => i \in Received(s)
  PROVE  HoldsAt(s)'
<1>1. \A x : Own(s, x) => Own(s, x)'
  BY OthersNames
<1>2. \A i, p : Stored(s, i, p) => Stored(s, i, p)'
  BY <1>1 DEF Stored
<1>3. UNCHANGED request
  BY DEF Others
<1> QED
  BY <1>2, <1>3, HoldsKeeps

-----------------------------------------------------------------------------
(* The actions, one by one.                                                *)

Sound(s) ==
  /\ NamedAt(s)' /\ OkayAt(s)' /\ Rooted'
  /\ Mine(s) => Confined(s) /\ Mine(s)'

LEMMA RootedSame ==
  ASSUME Rooted, UNCHANGED disk
  PROVE  Rooted'
BY DEF Rooted

LEMMA BeginSound ==
  ASSUME IInv, Shaped, Rooted, NEW s \in Sessions, NamedAt(s), OkayAt(s), Begin(s)
  PROVE  Sound(s)
<1>1. Typed /\ Others(s)
  BY OthersOf DEF IInv
<1>2. Tops(s)' = Tops(s) /\ TopBases(s)' = TopBases(s) /\ Version(s)' = Version(s)
  BY <1>1, OthersNames
<1>3. /\ pc[s] = "new" /\ pc'[s] \in {"list_old", First(s)}
      /\ Version(s) = 1 => entry'[s] = Entry(s).path[1]
      /\ UNCHANGED <<disk, content, request, k, path, tmp, left, dest, ok, moved, acked>>
  BY <1>1 DEF Begin, At, Goto, Typed
<1>4. pc'[s] \in {"list_old", "name", "temp"} /\ (pc'[s] = "name" => Version(s) = 1)
  BY <1>3 DEF First
<1>5. NamedAt(s)'
  BY <1>1, <1>2, <1>3, <1>4, TopsAre DEF NamedAt, Temporary, Before, Filling, Moving
<1>6. OkayAt(s)'
  BY <1>2, <1>3, <1>4 DEF OkayAt, Before, Filling, Ended
<1>7. ASSUME Mine(s) PROVE Confined(s) /\ Mine(s)'
  <2>1. ~Headless => HoldsAt(s)'
    <3>1. Received(s)' = {}
      BY <1>2, <1>4 DEF Received, Moving
    <3> QED
      BY <1>1, <1>3, <1>7, <3>1, QuietHolds DEF Mine
  <2>2. ~Temporary(s)' /\ ~Past(s)
    BY <1>2, <1>3, <1>4 DEF Temporary, Past, Before, Filling, Moving
  <2>3. TakesAt(s)' /\ FreeAt(s)'
    BY <1>2, <1>4 DEF TakesAt, FreeAt, Moving
  <2> QED
    BY <1>1, <1>3, <1>4, <1>5, <1>7, <2>1, <2>2, <2>3, QuietMine
<1> QED
  BY <1>3, <1>5, <1>6, <1>7, RootedSame DEF Sound

LEMMA ListOldSound ==
  ASSUME IInv, Shaped, Rooted, NEW s \in Sessions, NamedAt(s), OkayAt(s), ListOld(s)
  PROVE  Sound(s)
<1>1. Typed /\ Others(s)
  BY OthersOf DEF IInv, Step
<1>2. Tops(s)' = Tops(s) /\ TopBases(s)' = TopBases(s) /\ Version(s)' = Version(s)
  BY <1>1, OthersNames
<1>3. /\ pc[s] = "list_old" /\ pc'[s] = "wipe"
      /\ UNCHANGED <<disk, content, request, k, path, tmp, dest, ok, moved, acked, entry>>
  BY <1>1 DEF ListOld, At, Goto, Typed
<1>5. NamedAt(s)'
  BY <1>2, <1>3 DEF NamedAt, Temporary, Before, Filling, Moving
<1>6. OkayAt(s)'
  BY <1>2, <1>3 DEF OkayAt, Before, Filling, Ended
<1>7. ASSUME Mine(s) PROVE Confined(s) /\ Mine(s)'
  <2>1. ~Headless => HoldsAt(s)'
    <3>1. Received(s)' = {}
      BY <1>2, <1>3 DEF Received, Moving
    <3> QED
      BY <1>1, <1>3, <1>7, <3>1, QuietHolds DEF Mine
  <2>2. ~Temporary(s)' /\ ~Past(s)
    BY <1>2, <1>3 DEF Temporary, Past, Before, Filling, Moving
  <2>3. TakesAt(s)' /\ FreeAt(s)'
    BY <1>2, <1>3 DEF TakesAt, FreeAt, Moving
  <2> QED
    BY <1>1, <1>3, <1>5, <1>7, <2>1, <2>2, <2>3, QuietMine
<1> QED
  BY <1>3, <1>5, <1>6, <1>7, RootedSame DEF Sound

\* every name that a candidate is made of keeps its base
LEMMA CandidateBase ==
  ASSUME NEW y, NEW i
  PROVE  Candidate(y, i)[2] = y[2]
<1>1. \A j : Numbered(j, y)[2] = y[2]
  BY DEF Numbered
<1> QED
  BY <1>1 DEF Candidate

LEMMA NameSound ==
  ASSUME IInv, Shaped, Rooted, NEW s \in Sessions, NamedAt(s), OkayAt(s),
         NameTaken(s) \/ NoNameLeft(s) \/ NameFree(s)
  PROVE  Sound(s)
<1>1. Typed /\ Others(s) /\ Typed'
  BY OthersOf, NameHolds DEF IInv, Step
<1>2. Tops(s)' = Tops(s) /\ TopBases(s)' = TopBases(s) /\ Version(s)' = Version(s)
  BY <1>1, OthersNames
<1>3. /\ pc[s] = "name"
      /\ UNCHANGED <<disk, content, request, k, tmp, left, dest, acked, entry>>
  BY DEF NameTaken, NoNameLeft, NameFree, At
<1>4. \/ UNCHANGED <<pc, path, ok, moved>>
      \/ Version(s) = 1 /\ ok'[s] = FALSE /\ moved' = moved /\ pc'[s] = "done"
      \/ Version(s) # 1 /\ ok' = ok /\ moved'[s] = FALSE /\ pc'[s] = "next"
      \/ /\ path'[s] = <<Candidate(entry[s], n[s])>> /\ UNCHANGED <<ok, moved>>
         /\ path'[s] \notin DOMAIN disk
         /\ pc'[s] = IF Version(s) = 1 THEN "open" ELSE "move"
  <2>1. CASE NameTaken(s)
    BY <2>1 DEF NameTaken
  <2>2. CASE NoNameLeft(s)
    BY <1>1, <2>2 DEF NoNameLeft, NotMoved, Goto, Typed, Shaped
  <2>3. CASE NameFree(s)
    <3>1. <<Candidate(entry[s], n[s])>> \notin DOMAIN disk
      BY <2>3 DEF NameFree, Exists
    <3>2. /\ path' = [path EXCEPT ![s] = <<Candidate(entry[s], n[s])>>] /\ UNCHANGED <<ok, moved>>
          /\ pc' = [pc EXCEPT ![s] = IF Version(s) = 1 THEN "open" ELSE "move"]
      BY <2>3 DEF NameFree, Goto
    <3> QED
      BY <1>1, <3>1, <3>2 DEF Typed
  <2> QED
    BY <2>1, <2>2, <2>3
<1> DEFINE y == Candidate(entry[s], n[s])
<1>5. y[2] = entry[s][2] /\ Len(<<y>>) = 1 /\ <<y>>[1] = y
  BY CandidateBase
<1>6. entry[s] \in Tops(s) => y[2] \in TopBases(s)
  BY <1>5 DEF TopBases
<1> HIDE DEF y
<1>7. /\ pc'[s] \in {"name", "done", "next", "open", "move"}
      /\ pc'[s] \in {"open", "move"} =>
           /\ Len(path'[s]) = 1 /\ path'[s][1][2] = y[2] /\ path'[s] \notin DOMAIN disk
      /\ pc'[s] \in {"open", "done"} => Version(s) = 1
      /\ pc'[s] \in {"move", "next"} => Version(s) # 1
      /\ IF pc'[s] = "done" THEN ok'[s] = FALSE ELSE ok'[s] = ok[s]
      /\ IF pc'[s] = "next" THEN moved'[s] = FALSE ELSE moved'[s] = moved[s]
  BY <1>3, <1>4, <1>5 DEF y
<1>8. NamedAt(s)'
  BY <1>2, <1>3, <1>6, <1>7 DEF NamedAt, Temporary, Before, Filling, Moving
<1>9. OkayAt(s)'
  BY <1>2, <1>3, <1>7 DEF OkayAt, Before, Filling, Ended
<1>10. ASSUME Mine(s) PROVE Confined(s) /\ Mine(s)'
  <2>1. TakesAt(s)
    BY <1>10 DEF Mine, ShownAt
  <2>2. TakesAt(s)' /\ FreeAt(s)'
    <3>1. TakesAt(s)'
      BY <1>2, <1>3, <1>6, <1>7, <2>1 DEF TakesAt, Moving
    <3>2. FreeAt(s)'
      BY <1>3, <1>7 DEF FreeAt
    <3> QED
      BY <3>1, <3>2
  <2>3. Temporary(s)' => Temporary(s)
    BY <1>2, <1>3, <1>7 DEF Temporary, Filling, Moving
  <2>4. Past(s) => Past(s)'
    BY <1>2, <1>3, <1>7 DEF Past, Before
  <2>5. ~Headless => HoldsAt(s)'
    <3>1. Received(s)' \subseteq Received(s)
      BY <1>2, <1>3, <1>7 DEF Received, Moving
    <3>2. Received(s)' # {} => pc'[s] \in {"name", "next", "move"}
      BY <1>2, <1>3, <1>7 DEF Received, Moving
    <3>3. \A p : pc'[s] \in {"name", "next", "move"} /\ Where(s, p) => Where(s, p)'
      BY <1>3, <1>7 DEF Where, Filling, Moving
    <3> QED
      BY <1>1, <1>3, <1>10, <3>1, <3>2, <3>3, QuietHolds DEF Mine
  <2> QED
    BY <1>1, <1>3, <1>7, <1>8, <1>10, <2>2, <2>3, <2>4, <2>5, QuietMine
<1> QED
  BY <1>3, <1>8, <1>9, <1>10, RootedSame DEF Sound

\* when nothing has the name, nothing is below it
LEMMA NothingBelow ==
  ASSUME Typed, Rooted, NEW x \in AnyName, <<x>> \notin DOMAIN disk
  PROVE  \A p \in DOMAIN disk : p[1] # x
<1> SUFFICES ASSUME NEW p \in DOMAIN disk, p[1] = x PROVE FALSE
  OBVIOUS
<1>1. p \in Paths
  BY DiskPaths
<1> DEFINE t == <<x>>
<1>2. t \in Paths /\ IsPrefix(t, p)
  BY <1>1, TopPrefix
<1>3. t \notin DOMAIN disk
  OBVIOUS
<1> HIDE DEF t
<1> QED
  BY <1>2, <1>3 DEF Rooted

LEMMA WipeSound ==
  ASSUME IInv, Shaped, Rooted, NEW s \in Sessions, NamedAt(s), OkayAt(s), Wipe(s)
  PROVE  Sound(s)
<1>1. Typed /\ Others(s) /\ StagedAt(s)
  BY OthersOf DEF IInv, Step, Staged
<1>2. /\ Tops(s)' = Tops(s) /\ TopBases(s)' = TopBases(s) /\ Version(s)' = Version(s)
      /\ \A x : Own(s, x) => Own(s, x)'
  BY <1>1, OthersNames
<1>3. /\ pc[s] = "wipe" /\ Headless
      /\ UNCHANGED <<content, request, k, path, tmp, dest, ok, moved, acked, entry>>
  BY <1>1 DEF Wipe, At, StagedAt
<1>4. /\ pc'[s] \in {"wipe", "name", "temp"} /\ (pc'[s] = "name" => Version(s) = 1)
      /\ UNCHANGED disk \/ \E x \in AnyName : disk' = Without(disk, Below(disk, <<x>>))
  BY <1>1 DEF Wipe, Goto, Typed, First, At
<1>5. Rooted' /\ \A p \in DOMAIN disk' : p \in DOMAIN disk /\ disk'[p] = disk[p]
  <2>1. CASE UNCHANGED disk
    BY <2>1, RootedSame
  <2>2. CASE \E x \in AnyName : disk' = Without(disk, Below(disk, <<x>>))
    <3>1. PICK x \in AnyName : disk' = Without(disk, Below(disk, <<x>>))
      BY <2>2
    <3>2. /\ DOMAIN disk' = {r \in DOMAIN disk : r[1] # x}
          /\ \A r \in DOMAIN disk' : disk'[r] = disk[r]
          /\ Rooted'
      BY <1>1, <3>1, WipeIs
    <3> QED
      BY <3>2
  <2> QED
    BY <1>4, <2>1, <2>2
<1>6. NamedAt(s)'
  BY <1>2, <1>3, <1>4 DEF NamedAt, Temporary, Before, Filling, Moving
<1>7. OkayAt(s)'
  BY <1>2, <1>3, <1>4 DEF OkayAt, Before, Filling, Ended
<1>8. ASSUME Mine(s) PROVE Confined(s) /\ Mine(s)'
  <2>1. ~Temporary(s)' /\ ~Past(s)
    BY <1>2, <1>3, <1>4 DEF Temporary, Past, Before, Filling, Moving
  <2>2. TakesAt(s)' /\ FreeAt(s)'
    BY <1>2, <1>4 DEF TakesAt, FreeAt, Moving
  <2>3. \A p : Made(p)' => Made(p) /\ disk'[p] = disk[p]
    BY <1>5 DEF Made
  <2>4. \A x : Own(s, x)' <=> Own(s, x)
    BY <1>2, <1>3 DEF Own
  <2>5. Confined(s)
    BY <1>3, <1>5 DEF Confined
  <2>6. ShownAt(s)'
    BY <1>1, <1>3, <1>4, <1>6, <1>8, <2>1, <2>2, <2>3, <2>4, TreeShown DEF Mine
  <2> QED
    BY <1>3, <2>5, <2>6 DEF Mine
<1> QED
  BY <1>5, <1>6, <1>7, <1>8 DEF Sound

LEMMA TempFreeSound ==
  ASSUME IInv, Shaped, Rooted, NEW s \in Sessions, NamedAt(s), OkayAt(s), TempFree(s)
  PROVE  Sound(s)
<1>1. Typed /\ Others(s) /\ StagedAt(s)
  BY OthersOf DEF IInv, Step, Staged
<1>2. /\ Tops(s)' = Tops(s) /\ TopBases(s)' = TopBases(s) /\ Version(s)' = Version(s)
  BY <1>1, OthersNames
<1> DEFINE name == TempName(s, n[s])
<1>3. /\ pc[s] = "temp" /\ pc'[s] = "mkdir" /\ <<name>> \notin DOMAIN disk /\ tmp'[s] = name
      /\ UNCHANGED <<disk, content, request, k, path, left, dest, ok, moved, acked, entry>>
  BY <1>1 DEF TempFree, At, Goto, Typed, Exists
<1>4. name \in AnyName /\ name[2] \in {"time", "rand"}
  BY <1>1, NameTypes DEF TempName, Typed
<1>5. name # NoName
  <2>1. NoName[2] = ""
    BY DEF NoName
  <2> QED
    BY <1>4, <2>1
<1> HIDE DEF name
<1>6. \A p \in DOMAIN disk : p[1] # name
  BY <1>1, <1>3, <1>4, NothingBelow
<1>7. Version(s) # 1 /\ tmp[s] = NoName
  BY <1>1, <1>3 DEF StagedAt, InTemp, NamedAt, Before
<1>8. NamedAt(s)'
  BY <1>2, <1>3, <1>4, <1>5, <1>7 DEF NamedAt, Temporary, Before, Filling, Moving
<1>9. OkayAt(s)'
  BY <1>2, <1>3 DEF OkayAt, Before, Filling, Ended
<1>10. ASSUME Mine(s) PROVE Confined(s) /\ Mine(s)'
  <2>1. ShownAt(s) /\ ~Past(s)
    BY <1>3, <1>10 DEF Mine, Past, Before
  <2>2. \A p \in DOMAIN disk' : p[1] # tmp'[s]
    BY <1>3, <1>6
  <2>3. \A p \in DOMAIN disk' : Own(s, p[1])' => Own(s, p[1]) /\ p[1] # tmp[s]
    <3>1. \A x \in TopBases(s) : x # ""
      BY <1>1, TopsAre
    <3>2. NoName[2] = ""
      BY DEF NoName
    <3> QED
      BY <1>2, <1>7, <2>2, <3>1, <3>2 DEF Own
  <2>4. \A p \in DOMAIN disk' : Own(s, p[1])' /\ Made(p)' =>
          Own(s, p[1]) /\ Made(p) /\ disk'[p] = disk[p] /\ (p[1] = tmp[s] <=> p[1] = tmp'[s])
    BY <1>3, <2>2, <2>3 DEF Made
  <2>5. TakesAt(s)' /\ FreeAt(s)'
    BY <1>3 DEF TakesAt, FreeAt, Moving
  <2>6. ShownAt(s)'
    BY <1>1, <1>3, <1>8, <2>1, <2>2, <2>4, <2>5, TreeShown
  <2>7. Confined(s)
    BY <1>3 DEF Confined
  <2>8. ~Headless => DestAt(s)' /\ HoldsAt(s)'
    <3>1. Received(s)' = {} /\ dest'[s] = {} /\ ~acked'[s]
      BY <1>3, <1>9 DEF Received, Moving, OkayAt, Filling, Before
    <3> QED
      BY <3>1 DEF DestAt, HoldsAt
  <2> QED
    BY <2>6, <2>7, <2>8 DEF Mine
<1> QED
  BY <1>3, <1>8, <1>9, <1>10, RootedSame DEF Sound

LEMMA TempTakenSound ==
  ASSUME IInv, Shaped, Rooted, NEW s \in Sessions, NamedAt(s), OkayAt(s), TempTaken(s)
  PROVE  Sound(s)
<1>1. Typed /\ Others(s)
  BY OthersOf DEF IInv, Step
<1>2. Tops(s)' = Tops(s) /\ TopBases(s)' = TopBases(s) /\ Version(s)' = Version(s)
  BY <1>1, OthersNames
<1>3. /\ pc[s] = "temp" /\ pc'[s] = "temp"
      /\ UNCHANGED <<disk, content, request, k, path, tmp, left, dest, ok, moved, acked, entry>>
  BY DEF TempTaken, At
<1>4. NamedAt(s)'
  BY <1>2, <1>3 DEF NamedAt, Temporary, Before, Filling, Moving
<1>5. OkayAt(s)'
  BY <1>2, <1>3 DEF OkayAt, Before, Filling, Ended
<1>6. ASSUME Mine(s) PROVE Confined(s) /\ Mine(s)'
  <2>1. ~Headless => HoldsAt(s)'
    <3>1. Received(s)' = {}
      BY <1>3 DEF Received, Moving
    <3> QED
      BY <1>1, <1>3, <1>6, <3>1, QuietHolds DEF Mine
  <2>2. ~Temporary(s)' /\ ~Past(s)
    BY <1>3 DEF Temporary, Past, Before, Filling, Moving
  <2>3. TakesAt(s)' /\ FreeAt(s)'
    BY <1>3 DEF TakesAt, FreeAt, Moving
  <2> QED
    BY <1>1, <1>3, <1>4, <1>6, <2>1, <2>2, <2>3, QuietMine
<1> QED
  BY <1>3, <1>4, <1>5, <1>6, RootedSame DEF Sound

\* A step that makes directories.
LEMMA MkDirsMine ==
  ASSUME Typed, Rooted, NEW s \in Sessions, Others(s), NamedAt(s)', Mine(s),
         NEW a \in Paths, CanMkDirs(disk, a), disk' = MkDirs(disk, a), content' = content,
         Own(s, a[1]), tmp'[s] = tmp[s],
         Temporary(s)' => Temporary(s) /\ (Len(a) > 1 => a[2] \in Tops(s)),
         k'[s] = k[s] + 1 \/ (k'[s] = k[s] /\ (Past(s) => Past(s)')),
         pc[s] \notin {"data", "killed"}, pc'[s] # "data", TakesAt(s)', FreeAt(s)',
         dest'[s] = dest[s], acked'[s] = acked[s], Received(s)' \subseteq Received(s),
         Received(s)' # {} => \A p : Where(s, p) => Where(s, p)'
  PROVE  Confined(s) /\ Mine(s)'
<1>1. /\ Tops(s)' = Tops(s) /\ TopBases(s)' = TopBases(s)
      /\ \A x : Own(s, x)' <=> Own(s, x)
      /\ UNCHANGED request
  BY OthersNames DEF Own, Others
<1>2. /\ \A r \in DOMAIN disk : r \in DOMAIN disk' /\ disk'[r] = disk[r]
      /\ \A r \in DOMAIN disk' : r \notin DOMAIN disk =>
              r \in Paths /\ IsPrefix(r, a) /\ r[1] = a[1] /\ disk'[r] = Dir
  BY MkDirsIs
<1>3. ASSUME NEW r \in Paths, IsPrefix(r, a), Len(r) > 1
      PROVE  Len(a) > 1 /\ r[2] = a[2]
  <2>1. r \in Seq(AnyName) /\ a \in Seq(AnyName) /\ Len(r) \in Nat /\ Len(a) \in Nat
    BY PathTypes
  <2>2. Len(r) <= Len(a) /\ \A j \in 1..Len(r) : r[j] = a[j]
    BY <1>3, <2>1, PathPrefix
  <2>3. 2 \in 1..Len(r) /\ Len(a) > 1
    BY <1>3, <2>1, <2>2
  <2> QED
    BY <2>2, <2>3
<1>4. \A p \in DOMAIN disk' : Made(p)' => Made(p) /\ disk'[p] = disk[p]
  BY <1>2 DEF Made
<1>5. Confined(s)
  <2>1. \A p \in DOMAIN disk' : ~Own(s, p[1])' => p \in DOMAIN disk /\ disk'[p] = disk[p]
    BY <1>1, <1>2
  <2> QED
    BY <1>2, <2>1 DEF Confined
<1>6. ShownAt(s)'
  <2>1. ShownAt(s) /\ SealedAt(s)
    BY DEF Mine, ShownAt
  <2>2. Temporary(s)' => \A p \in DOMAIN disk' : p[1] = tmp'[s] /\ Len(p) > 1 => p[2] \in Tops(s)
    <3> SUFFICES ASSUME Temporary(s)', NEW p \in DOMAIN disk', p[1] = tmp[s], Len(p) > 1
                 PROVE  p[2] \in Tops(s)
      OBVIOUS
    <3>1. CASE p \in DOMAIN disk
      BY <2>1, <3>1 DEF SealedAt
    <3>2. CASE p \notin DOMAIN disk
      BY <1>2, <1>3, <3>2
    <3> QED
      BY <3>1, <3>2
  <2>3. \A p \in DOMAIN disk' : Own(s, p[1])' /\ Made(p)' =>
          Own(s, p[1]) /\ Made(p) /\ disk'[p] = disk[p] /\ (p[1] = tmp[s] <=> p[1] = tmp'[s])
    BY <1>1, <1>4
  <2> QED
    BY <2>1, <2>2, <2>3, TreeShown
<1>7. ASSUME ~Headless PROVE DestAt(s)' /\ HoldsAt(s)'
  <2>1. DestAt(s) /\ HoldsAt(s)
    BY <1>7 DEF Mine
  <2>2. DestAt(s)'
    BY <1>1, <1>2, <2>1 DEF DestAt
  <2>3. \A i, p : Stored(s, i, p) => Stored(s, i, p)'
    BY <1>1, <1>2 DEF Stored
  <2>4. \A i \in 1..Len(request[s].entries) : \A p \in DOMAIN disk : Stored(s, i, p) =>
           \E z \in DOMAIN disk' : /\ Stored(s, i, z)'
                                   /\ i \in Received(s)' /\ Where(s, p) => Where(s, z)'
    BY <1>2, <2>3
  <2> QED
    BY <1>1, <2>1, <2>2, <2>4, HoldsKeeps
<1> QED
  BY <1>5, <1>6, <1>7 DEF Mine

LEMMA MakeTempSound ==
  ASSUME IInv, Shaped, Rooted, NEW s \in Sessions, NamedAt(s), OkayAt(s), MakeTemp(s)
  PROVE  Sound(s)
<1>1. Typed /\ Others(s) /\ StagedAt(s)
  BY OthersOf DEF IInv, Step, Staged
<1>2. /\ Tops(s)' = Tops(s) /\ TopBases(s)' = TopBases(s) /\ Version(s)' = Version(s)
  BY <1>1, OthersNames
<1> DEFINE t == <<tmp[s]>>
<1>3. /\ pc[s] = "mkdir" /\ Version(s) # 1
      /\ UNCHANGED <<content, request, k, path, tmp, left, dest, moved, acked, entry>>
      /\ \/ CanMkDirs(disk, t) /\ disk' = MkDirs(disk, t) /\ pc'[s] = "file" /\ UNCHANGED ok
         \/ UNCHANGED disk /\ pc'[s] = "done" /\ ok'[s] = FALSE
  BY <1>1 DEF MakeTemp, At, Goto, Typed, Shaped, StagedAt, InTemp
<1>4. t \in Paths /\ t[1] = tmp[s] /\ ~(Len(t) > 1)
  BY <1>1, TopPrefix DEF Typed
<1> HIDE DEF t
<1>5. NamedAt(s)'
  BY <1>2, <1>3 DEF NamedAt, Temporary, Before, Filling, Moving
<1>6. OkayAt(s)'
  BY <1>2, <1>3 DEF OkayAt, Before, Filling, Ended
<1>7. TakesAt(s)' /\ FreeAt(s)' /\ ~Past(s)
  BY <1>3 DEF TakesAt, FreeAt, Moving, Past, Before
<1>8. Received(s)' = {}
  <2>1. CASE pc'[s] = "file"
    <3>1. k'[s] = 1
      BY <1>3 DEF OkayAt
    <3>2. \A i \in 1..Len(request[s].entries) : ~(i < 1)
      OBVIOUS
    <3> QED
      BY <1>2, <1>3, <2>1, <3>1, <3>2 DEF Received, Moving
  <2>2. CASE pc'[s] = "done" /\ ok'[s] = FALSE
    BY <2>2 DEF Received, Moving
  <2> QED
    BY <1>3, <2>1, <2>2
<1>9. CASE UNCHANGED disk /\ pc'[s] = "done"
  <2>1. ASSUME Mine(s) PROVE Confined(s) /\ Mine(s)'
    <3>1. ~Headless => HoldsAt(s)'
      BY <1>1, <1>3, <1>8, <1>9, <2>1, QuietHolds DEF Mine
    <3>2. ~Temporary(s)'
      BY <1>9 DEF Temporary, Filling, Moving
    <3> QED
      BY <1>1, <1>3, <1>5, <1>7, <1>9, <2>1, <3>1, <3>2, QuietMine
  <2> QED
    BY <1>5, <1>6, <1>9, <2>1, RootedSame DEF Sound
<1>10. CASE CanMkDirs(disk, t) /\ disk' = MkDirs(disk, t) /\ pc'[s] = "file"
  <2>1. Rooted'
    BY <1>1, <1>4, <1>10, MkDirsIs
  <2>2. Own(s, tmp[s]) /\ Temporary(s)
    BY <1>3 DEF NamedAt, Temporary, Filling, Own
  <2>3. ASSUME Mine(s) PROVE Confined(s) /\ Mine(s)'
    BY <1>1, <1>3, <1>4, <1>5, <1>7, <1>8, <1>10, <2>2, <2>3, MkDirsMine
  <2> QED
    BY <1>5, <1>6, <2>1, <2>3 DEF Sound
<1> QED
  BY <1>3, <1>9, <1>10

\* where a file is received
LEMMA PlaceIs ==
  ASSUME Typed, NEW s \in Sessions, NEW a, a = <<tmp[s]>> \o Entry(s).path
  PROVE  /\ a \in Paths /\ Len(a) \in Nat /\ Len(a) > 1 /\ a[1] = tmp[s] /\ a[2] \in Tops(s)
         /\ Front(a) \in Paths /\ Front(a)[1] = tmp[s] /\ ~IsPrefix(a, Front(a))
         /\ Len(Front(a)) > 1 => Front(a)[2] \in Tops(s)
<1> DEFINE e == Entry(s).path
           t == <<tmp[s]>>
<1>1. e \in Seq(AnyName) /\ e # <<>> /\ e[1] \in Tops(s)
  BY RequestNames, TopsAre DEF Paths
<1>2. t \in Seq(AnyName) /\ Len(t) = 1 /\ t[1] = tmp[s]
  BY DEF Typed
<1>3. a = t \o e
  OBVIOUS
<1> HIDE DEF e, t
<1>4. /\ a \in Seq(AnyName) /\ Len(a) = Len(t) + Len(e)
      /\ \A j \in 1..(Len(t) + Len(e)) : a[j] = IF j <= Len(t) THEN t[j] ELSE e[j - Len(t)]
  <2> DEFINE r == t \o e
  <2>1. /\ r \in Seq(AnyName) /\ Len(r) = Len(t) + Len(e)
        /\ \A j \in 1..(Len(t) + Len(e)) : r[j] = IF j <= Len(t) THEN t[j] ELSE e[j - Len(t)]
    BY <1>1, <1>2, ConcatProperties
  <2>2. a = r
    BY <1>3
  <2> HIDE DEF r
  <2> QED
    BY <2>1, <2>2
<1>5. Len(e) \in Nat \ {0}
  BY <1>1, LenProperties, EmptySeq
<1>6. Len(a) \in Nat /\ Len(a) > 1
  BY <1>2, <1>4, <1>5
<1>7. a[1] = tmp[s]
  <2>1. 1 \in 1..(Len(t) + Len(e)) /\ 1 <= Len(t)
    BY <1>2, <1>5
  <2> QED
    BY <1>2, <1>4, <2>1
<1>8. a[2] \in Tops(s)
  <2>1. 2 \in 1..(Len(t) + Len(e)) /\ ~(2 <= Len(t)) /\ 2 - Len(t) = 1
    BY <1>2, <1>5
  <2> QED
    BY <1>1, <1>4, <2>1
<1>9. a \in Paths
  BY <1>4, <1>6 DEF Paths
<1>10. /\ Front(a) \in Seq(AnyName) /\ Len(Front(a)) = Len(a) - 1
       /\ \A j \in 1..(Len(a) - 1) : Front(a)[j] = a[j]
  BY <1>9, FrontIs
<1>11. Front(a) \in Paths /\ Front(a)[1] = a[1]
  <2>1. 1 \in 1..(Len(a) - 1) /\ Len(Front(a)) # 0
    BY <1>6, <1>10
  <2> QED
    BY <1>10, <2>1 DEF Paths
<1>12. Len(Front(a)) > 1 => Front(a)[2] = a[2]
  BY <1>6, <1>10
<1>13. ~IsPrefix(a, Front(a))
  <2>1. ~(Len(a) <= Len(Front(a)))
    BY <1>6, <1>10
  <2> QED
    BY <2>1 DEF IsPrefix
<1> QED
  BY <1>6, <1>7, <1>8, <1>9, <1>11, <1>12, <1>13

LEMMA FilePlaceSound ==
  ASSUME IInv, Shaped, Rooted, NEW s \in Sessions, NamedAt(s), OkayAt(s), FilePlace(s)
  PROVE  Sound(s)
<1>1. Typed /\ Others(s) /\ StagedAt(s)
  BY OthersOf DEF IInv, Step, Staged
<1>2. /\ Tops(s)' = Tops(s) /\ TopBases(s)' = TopBases(s) /\ Version(s)' = Version(s)
  BY <1>1, OthersNames
<1> DEFINE a == <<tmp[s]>> \o Entry(s).path
           f == Front(a)
<1>3. /\ pc[s] = "file" /\ Version(s) # 1
      /\ UNCHANGED <<content, request, k, tmp, left, dest, moved, acked, entry>>
      /\ CanMkDirs(disk, f) /\ disk' = MkDirs(disk, f)
      /\ \/ UNCHANGED path /\ pc'[s] = "list" /\ ok'[s] = FALSE
         \/ path'[s] = a /\ a \notin DOMAIN disk /\ pc'[s] = "open" /\ UNCHANGED ok
  BY <1>1 DEF FilePlace, Failed, At, Goto, Typed, Shaped, StagedAt, InTemp, Exists
<1>4. /\ a \in Paths /\ Len(a) > 1 /\ a[1] = tmp[s] /\ a[2] \in Tops(s)
      /\ f \in Paths /\ f[1] = tmp[s] /\ ~IsPrefix(a, f)
      /\ Len(f) > 1 => f[2] \in Tops(s)
  BY <1>1, PlaceIs
<1> HIDE DEF a, f
<1>5. /\ Rooted'
      /\ \A r \in DOMAIN disk' : r \notin DOMAIN disk => IsPrefix(r, f)
  BY <1>1, <1>3, <1>4, MkDirsIs
<1>6. NamedAt(s)'
  BY <1>2, <1>3, <1>4 DEF NamedAt, Temporary, Before, Filling, Moving
<1>7. OkayAt(s)'
  BY <1>2, <1>3 DEF OkayAt, Before, Filling, Ended
<1>8. TakesAt(s)' /\ FreeAt(s)'
  <2>1. a \in DOMAIN disk' => a \in DOMAIN disk
    BY <1>4, <1>5
  <2>2. FreeAt(s)'
    BY <1>3, <2>1 DEF FreeAt
  <2>3. TakesAt(s)'
    BY <1>3 DEF TakesAt, Moving
  <2> QED
    BY <2>2, <2>3
<1>9. Past(s) => Past(s)'
  BY <1>3 DEF Past, Before
<1>10. Received(s)' \subseteq Received(s) /\ \A p : Where(s, p) => Where(s, p)'
  BY <1>2, <1>3 DEF Received, Where, Moving, Filling
<1>11. Own(s, tmp[s]) /\ Temporary(s)
  BY <1>3 DEF NamedAt, Temporary, Filling, Own
<1>12. ASSUME Mine(s) PROVE Confined(s) /\ Mine(s)'
  BY <1>1, <1>3, <1>4, <1>6, <1>8, <1>9, <1>10, <1>11, <1>12, MkDirsMine
<1> QED
  BY <1>5, <1>6, <1>7, <1>12 DEF Sound

LEMMA RefusedSound ==
  ASSUME IInv, Shaped, Rooted, NEW s \in Sessions, NamedAt(s), OkayAt(s), FileRefused(s)
  PROVE  Sound(s)
<1>1. Typed /\ Others(s)
  BY OthersOf DEF IInv, Step
<1>2. /\ Tops(s)' = Tops(s) /\ TopBases(s)' = TopBases(s) /\ Version(s)' = Version(s)
  BY <1>1, OthersNames
<1>3. /\ pc[s] \in {"file", "open"}
      /\ UNCHANGED <<disk, content, request, k, path, tmp, left, dest, moved, acked, entry>>
      /\ pc'[s] = (IF Version(s) = 1 THEN "done" ELSE "list") /\ ok'[s] = FALSE
  BY <1>1 DEF FileRefused, Failed, At, Goto, Typed, Shaped
<1>4. NamedAt(s)'
  BY <1>2, <1>3 DEF NamedAt, Temporary, Before, Filling, Moving
<1>5. OkayAt(s)'
  BY <1>2, <1>3 DEF OkayAt, Before, Filling, Ended
<1>6. TakesAt(s)' /\ FreeAt(s)' /\ (Past(s) => Past(s)') /\ (Temporary(s)' => Temporary(s))
  BY <1>2, <1>3 DEF TakesAt, FreeAt, Moving, Filling, Past, Before, Temporary
<1>7. Received(s)' = {}
  BY <1>2, <1>3 DEF Received, Moving
<1>8. ASSUME Mine(s) PROVE Confined(s) /\ Mine(s)'
  <2>1. ~Headless => HoldsAt(s)'
    BY <1>1, <1>3, <1>7, <1>8, QuietHolds DEF Mine
  <2> QED
    BY <1>1, <1>3, <1>4, <1>6, <1>8, <2>1, QuietMine
<1> QED
  BY <1>3, <1>4, <1>5, <1>8, RootedSame DEF Sound

\* the next file, or what follows the last one
LEMMA AdvanceIs ==
  ASSUME Typed, NEW s \in Sessions, Advance(s)
  PROVE  \/ /\ k[s] < Len(request[s].entries) /\ k'[s] = k[s] + 1
            /\ pc'[s] = "file" /\ Version(s) # 1
         \/ /\ k[s] = Len(request[s].entries) /\ k'[s] = k[s]
            /\ IF Version(s) = 1 THEN pc'[s] = "cut" ELSE pc'[s] \in {"ack", "list"}
<1>1. Len(request[s].entries) \in Nat /\ k[s] \in 1..Len(request[s].entries)
  BY RequestLen
<1>2. CASE k[s] < Len(request[s].entries)
  <2>1. k' = [k EXCEPT ![s] = @ + 1] /\ pc' = [pc EXCEPT ![s] = "file"]
    BY <1>2 DEF Advance, Goto
  <2>2. k'[s] = k[s] + 1 /\ pc'[s] = "file"
    BY <2>1 DEF Typed
  <2>3. Version(s) # 1
    BY <2>2, AdvanceGoes
  <2> QED
    BY <1>2, <2>2, <2>3
<1>3. CASE ~(k[s] < Len(request[s].entries))
  <2>1. k[s] = Len(request[s].entries)
    BY <1>1, <1>3
  <2>2. k' = k
    BY <1>3 DEF Advance
  <2>3. pc'[s] = CASE Version(s) = 1 -> "cut"
                   [] Version(s) = 4 -> "ack"
                   [] OTHER -> "list"
    BY <1>3 DEF Advance, Goto, Typed
  <2> QED
    BY <2>1, <2>2, <2>3
<1> QED
  BY <1>2, <1>3

LEMMA MakeDirectorySound ==
  ASSUME IInv, Shaped, Rooted, NEW s \in Sessions, NamedAt(s), OkayAt(s), MakeDirectory(s)
  PROVE  Sound(s)
<1>1. Typed /\ Others(s) /\ StagedAt(s)
  BY OthersOf DEF IInv, Step, Staged
<1>2. /\ Tops(s)' = Tops(s) /\ TopBases(s)' = TopBases(s) /\ Version(s)' = Version(s)
  BY <1>1, OthersNames
<1>3. /\ pc[s] = "open" /\ Entry(s).dir /\ CanMkDirs(disk, path[s]) /\ disk' = MkDirs(disk, path[s])
      /\ UNCHANGED <<content, request, path, tmp, left, dest, ok, moved, acked, entry>>
      /\ Advance(s)
  BY DEF MakeDirectory, At
<1>4. Version(s) # 1
  <2>1. Version(s) = 1 => k[s] = 1 /\ ~request[s].entries[1].dir
    <3>1. Version(s) = 1 => ~request[s].entries[1].dir
      BY <1>1, RequestLen
    <3>2. Version(s) = 1 => k[s] = 1
      BY <1>1, RequestLen
    <3> QED
      BY <3>1, <3>2
  <2> QED
    BY <1>3, <2>1 DEF Entry
<1>5. \/ k[s] < Len(request[s].entries) /\ k'[s] = k[s] + 1 /\ pc'[s] = "file"
      \/ k[s] = Len(request[s].entries) /\ k'[s] = k[s] /\ pc'[s] \in {"ack", "list"}
  BY <1>1, <1>3, <1>4, AdvanceIs
<1>6. /\ path[s] \in Paths /\ Len(path[s]) > 1 /\ path[s][1] = tmp[s] /\ path[s][2] \in Tops(s)
  BY <1>1, <1>3, <1>4 DEF NamedAt, StagedAt, Typed, Paths
<1>7. Rooted'
  BY <1>1, <1>3, <1>6, MkDirsIs
<1>8. NamedAt(s)'
  BY <1>2, <1>3, <1>4, <1>5 DEF NamedAt, Temporary, Before, Filling, Moving
<1>9. OkayAt(s)'
  BY <1>2, <1>3, <1>4, <1>5 DEF OkayAt, Before, Filling, Ended
<1>10. TakesAt(s)' /\ FreeAt(s)' /\ pc'[s] # "data" /\ ~Past(s)
  BY <1>3, <1>5 DEF TakesAt, FreeAt, Moving, Past, Before
<1>11. Own(s, tmp[s]) /\ Temporary(s)
  BY <1>3, <1>4 DEF NamedAt, Temporary, Filling, Own
<1>12. \A p : Where(s, p) => Where(s, p)'
  BY <1>3, <1>5 DEF Where, Filling, Moving
<1>13. Received(s)' \subseteq Received(s)
  <2> SUFFICES ASSUME NEW i \in Received(s)' PROVE i \in Received(s)
    OBVIOUS
  <2>1. i \in 1..Len(request[s].entries) /\ ~request[s].entries[i].dir
    BY <1>3 DEF Received
  <2>2. i # k[s]
    BY <1>3, <2>1 DEF Entry
  <2>3. k[s] \in Nat /\ i \in Nat /\ Len(request[s].entries) \in Nat
    BY <1>1, <2>1, RequestLen
  <2>4. pc'[s] = "file" => i < k'[s]
    BY <1>2, <1>4 DEF Received, Moving
  <2>5. i < k[s]
    BY <1>5, <2>1, <2>2, <2>3, <2>4
  <2> QED
    BY <1>3, <1>4, <2>1, <2>5 DEF Received
<1>14. ASSUME Mine(s) PROVE Confined(s) /\ Mine(s)'
  <2> DEFINE a == path[s]
  <2>1. /\ a \in Paths /\ a[1] = tmp[s] /\ a[2] \in Tops(s)
        /\ CanMkDirs(disk, a) /\ disk' = MkDirs(disk, a)
    BY <1>3, <1>6
  <2> HIDE DEF a
  <2>2. k'[s] = k[s] + 1 \/ (k'[s] = k[s] /\ (Past(s) => Past(s)'))
    BY <1>5, <1>10
  <2>3. pc[s] \notin {"data", "killed"}
    BY <1>3
  <2> QED
    BY <1>1, <1>3, <1>8, <1>10, <1>11, <1>12, <1>13, <1>14, <2>1, <2>2, <2>3, MkDirsMine
<1> QED
  BY <1>7, <1>8, <1>9, <1>14 DEF Sound

\* the inodes of uploads
LEMMA Inodes ==
  ASSUME Typed, Shaped, NEW s \in Sessions
  PROVE  /\ \A j \in Nat \ {0} : <<s, j>> \notin {Dir, User, Nothing}
         /\ \A q \in Sessions : \A j \in 1..Len(request[q].entries) : <<q, j>> \in DOMAIN content
         /\ Upload(s) \in DOMAIN content /\ Upload(s) \notin {Dir, User, Nothing}
<1>1. \A j \in Nat \ {0} : <<s, j>> \notin {Dir, User, Nothing}
  BY DEF Dir, User, Nothing
<1>2. ASSUME NEW q \in Sessions, NEW j \in 1..Len(request[q].entries)
      PROVE  <<q, j>> \in DOMAIN content
  <2>1. j \in Places
    BY RequestLen
  <2> QED
    BY <2>1 DEF Shaped
<1>3. k[s] \in 1..Len(request[s].entries) /\ k[s] \in Nat \ {0}
  BY RequestLen DEF Typed
<1> QED
  BY <1>1, <1>2, <1>3 DEF Upload

LEMMA OpenFileSound ==
  ASSUME IInv, Shaped, Rooted, NEW s \in Sessions, NamedAt(s), OkayAt(s), OpenFile(s)
  PROVE  Sound(s)
<1>1. Typed /\ Others(s) /\ StagedAt(s) /\ request' = request
  BY OthersOf DEF IInv, Step, Staged, OpenFile
<1>2. /\ Tops(s)' = Tops(s) /\ TopBases(s)' = TopBases(s) /\ Version(s)' = Version(s)
      /\ \A x : Own(s, x) => Own(s, x)'
  BY <1>1, OthersNames
<1> DEFINE a == path[s]
           i == IF Exists(disk, a) THEN disk[a] ELSE Upload(s)
<1>3. /\ pc[s] = "open" /\ pc'[s] = "data" /\ CanOpen(disk, a)
      /\ inode'[s] = i /\ disk' = With(disk, a, i) /\ content' = [content EXCEPT ![i] = Nothing]
      /\ UNCHANGED <<request, k, path, tmp, left, dest, ok, moved, acked, entry>>
  BY <1>1 DEF OpenFile, At, Goto, Typed
<1>4. a \in Paths /\ a # <<>>
  BY <1>1, <1>3 DEF StagedAt, Typed, Paths
<1>5. i = IF a \in DOMAIN disk THEN disk[a] ELSE Upload(s)
  BY <1>4 DEF Exists
<1>6. a = path[s]
  OBVIOUS
<1> HIDE DEF a, i
<1>7. /\ DOMAIN disk' = DOMAIN disk \cup {a}
      /\ \A r \in DOMAIN disk : r # a => disk'[r] = disk[r]
      /\ disk'[a] = i
      /\ Rooted'
  BY <1>1, <1>3, <1>4, WithIs
<1>8. NamedAt(s)'
  BY <1>2, <1>3 DEF NamedAt, Temporary, Before, Filling, Moving
<1>9. OkayAt(s)'
  BY <1>2, <1>3 DEF OkayAt, Before, Filling, Ended
<1>10. ASSUME Mine(s) PROVE Confined(s) /\ Mine(s)'
  <2>1. /\ TakesAt(s) /\ FreeAt(s) /\ FilesAt(s) /\ SealedAt(s) /\ VisibleAt(s)
        /\ ~Headless => HoldsAt(s)
    BY <1>10 DEF Mine, ShownAt
  <2>2. a \notin DOMAIN disk /\ i = Upload(s)
    BY <1>3, <1>5, <1>6, <2>1 DEF FreeAt
  <2>3. Own(s, a[1]) /\ ~Past(s)
    BY <1>1, <1>3, <1>6, <2>1, OwnPlaces DEF Past, Before
  <2>4. \A x : Own(s, x)' <=> Own(s, x)
    BY <1>2, <1>3 DEF Own
  <2>5. \A p \in DOMAIN disk' : p # a => p \in DOMAIN disk /\ disk'[p] = disk[p] /\ (Made(p)' => Made(p))
    BY <1>7 DEF Made
  \* no other file of the session has the inode
  <2>6. \A p \in DOMAIN disk : Own(s, p[1]) /\ Made(p) =>
          \E j \in 1..k[s] : disk[p] = <<s, j>> /\ j # k[s] /\ content'[disk[p]] = content[disk[p]]
    <3> SUFFICES ASSUME NEW p \in DOMAIN disk, Own(s, p[1]), Made(p)
                 PROVE  \E j \in 1..k[s] : disk[p] = <<s, j>> /\ j # k[s] /\ content'[disk[p]] = content[disk[p]]
      OBVIOUS
    <3>1. PICK j \in 1..k[s] : disk[p] = <<s, j>> /\ j # k[s]
      BY <2>1, <2>3 DEF FilesAt
    <3>2. disk[p] \in DOMAIN content
      BY <1>1, <3>1, RequestLen, Inodes
    <3>3. disk[p] # i
      BY <2>2, <3>1 DEF Upload
    <3>4. content'[disk[p]] = content[disk[p]]
      BY <1>3, <3>2, <3>3
    <3> QED
      BY <3>1, <3>4
  <2>7. Confined(s)
    <3>1. \A q \in Sessions \ {s} : \A j \in 1..Len(request[q].entries) :
            content'[<<q, j>>] = content[<<q, j>>]
      <4> SUFFICES ASSUME NEW q \in Sessions \ {s}, NEW j \in 1..Len(request[q].entries)
                   PROVE  content'[<<q, j>>] = content[<<q, j>>]
        OBVIOUS
      <4>1. <<q, j>> \in DOMAIN content
        BY <1>1, Inodes
      <4>2. <<q, j>> # i
        BY <2>2 DEF Upload
      <4> QED
        BY <1>3, <4>1, <4>2
    <3>2. \A p \in DOMAIN disk' : ~Own(s, p[1])' => p \in DOMAIN disk /\ disk'[p] = disk[p]
      BY <2>3, <2>4, <2>5
    <3> QED
      BY <1>7, <3>1, <3>2 DEF Confined
  <2>8. TakesAt(s)' /\ FreeAt(s)'
    BY <1>3 DEF TakesAt, FreeAt, Moving
  <2>9. WritesAt(s)'
    BY <1>3, <1>6, <1>7, <2>2 DEF WritesAt, Upload
  <2>10. FilesAt(s)'
    <3> SUFFICES ASSUME NEW p \in DOMAIN disk', Own(s, p[1]), Made(p)'
                 PROVE  \E j \in 1..k[s] : disk'[p] = <<s, j>> /\ (j = k[s] => Past(s)')
      BY <1>3, <2>4 DEF FilesAt
    <3>1. Past(s)' /\ k[s] \in 1..k[s]
      BY <1>1, <1>3 DEF Past, Before, Typed
    <3>2. CASE p = a
      BY <1>7, <2>2, <3>1, <3>2 DEF Upload
    <3>3. CASE p # a
      BY <2>5, <2>6, <3>1, <3>3
    <3> QED
      BY <3>2, <3>3
  <2>11. SealedAt(s)'
    <3> SUFFICES ASSUME Temporary(s)', NEW p \in DOMAIN disk', p[1] = tmp[s]
                 PROVE  /\ Len(p) > 1 => p[2] \in Tops(s)
                        /\ Made(p)' => Len(p) > 1 /\ (content'[disk'[p]] = disk'[p] \/ p = path'[s])
      BY <1>2, <1>3 DEF SealedAt
    <3>1. Temporary(s) /\ Version(s) # 1
      BY <1>2, <1>3 DEF Temporary, Filling
    <3>2. CASE p = a
      BY <1>3, <1>6, <3>1, <3>2 DEF NamedAt
    <3>3. CASE p # a
      <4>1. p \in DOMAIN disk /\ disk'[p] = disk[p] /\ (Made(p)' => Made(p)) /\ Own(s, p[1])
        BY <1>1, <2>1, <2>5, <3>1, <3>3, OwnPlaces
      <4>2. Made(p)' => content'[disk'[p]] = content[disk[p]]
        BY <2>6, <4>1
      <4> QED
        BY <1>3, <2>1, <3>1, <4>1, <4>2 DEF SealedAt
    <3> QED
      BY <3>2, <3>3
  <2>12. VisibleAt(s)'
    <3> SUFFICES ASSUME NEW p \in DOMAIN disk', Own(s, p[1]), Made(p)'
                 PROVE  content'[disk'[p]] = disk'[p] \/ p[1] = tmp[s] \/ (Version(s) = 1 /\ p = path[s])
      BY <1>2, <1>3, <2>4 DEF VisibleAt
    <3>1. CASE p = a
      BY <1>3, <1>6, <3>1 DEF NamedAt
    <3>2. CASE p # a
      <4>1. p \in DOMAIN disk /\ disk'[p] = disk[p] /\ Made(p)
        BY <2>5, <3>2
      <4>2. content'[disk'[p]] = content[disk[p]]
        BY <2>6, <4>1
      <4> QED
        BY <1>3, <2>1, <4>1, <4>2 DEF VisibleAt
    <3> QED
      BY <3>1, <3>2
  <2>13. ASSUME ~Headless PROVE DestAt(s)' /\ HoldsAt(s)'
    <3>1. dest'[s] = {} /\ Received(s)' = Received(s)
      BY <1>2, <1>3, <1>9 DEF OkayAt, Filling, Received, Moving
    <3>2. \A p : Where(s, p) => Where(s, p)'
      BY <1>3 DEF Where, Filling, Moving
    <3>3. ASSUME NEW j \in 1..Len(request[s].entries), NEW p \in DOMAIN disk, Stored(s, j, p)
          PROVE  p \in DOMAIN disk' /\ Stored(s, j, p)'
      <4>1. Own(s, p[1]) /\ disk[p] = <<s, j>> /\ content[<<s, j>>] = <<s, j>> /\ j \in Nat \ {0}
        BY <1>1, <3>3, RequestLen DEF Stored
      <4>2. Made(p)
        BY <1>1, <4>1, Inodes DEF Made
      <4>3. p # a /\ p \in DOMAIN disk' /\ disk'[p] = disk[p]
        BY <1>7, <2>2
      <4>4. content'[<<s, j>>] = <<s, j>>
        BY <2>6, <4>1, <4>2
      <4> QED
        BY <2>4, <4>1, <4>3, <4>4 DEF Stored
    <3>4. HoldsAt(s)'
      BY <1>1, <1>3, <2>1, <2>13, <3>1, <3>2, <3>3, HoldsKeeps
    <3> QED
      BY <3>1, <3>4 DEF DestAt
  <2> QED
    BY <2>7, <2>8, <2>9, <2>10, <2>11, <2>12, <2>13 DEF Mine, ShownAt
<1> QED
  BY <1>7, <1>8, <1>9, <1>10 DEF Sound

LEMMA DataReceivedSound ==
  ASSUME IInv, Shaped, Rooted, NEW s \in Sessions, NamedAt(s), OkayAt(s), DataReceived(s)
  PROVE  Sound(s)
<1>1. Typed /\ Others(s) /\ StagedAt(s) /\ request' = request
  BY OthersOf DEF IInv, Step, Staged, DataReceived
<1>2. /\ Tops(s)' = Tops(s) /\ TopBases(s)' = TopBases(s) /\ Version(s)' = Version(s)
      /\ \A x : Own(s, x) => Own(s, x)'
  BY <1>1, OthersNames
<1>3. /\ pc[s] = "data" /\ content' = [content EXCEPT ![inode[s]] = Upload(s)] /\ Advance(s)
      /\ UNCHANGED <<disk, request, path, tmp, left, ok, moved, acked, entry>>
      /\ dest'[s] = IF Version(s) = 1 THEN {path[s][1]} ELSE dest[s]
  BY DEF DataReceived, At, Shaped
<1>4. \/ k[s] < Len(request[s].entries) /\ k'[s] = k[s] + 1 /\ pc'[s] = "file" /\ Version(s) # 1
      \/ /\ k[s] = Len(request[s].entries) /\ k'[s] = k[s]
         /\ IF Version(s) = 1 THEN pc'[s] = "cut" ELSE pc'[s] \in {"ack", "list"}
  BY <1>1, <1>3, AdvanceIs
<1>5. NamedAt(s)'
  BY <1>2, <1>3, <1>4 DEF NamedAt, Temporary, Before, Filling, Moving
<1>6. OkayAt(s)'
  BY <1>2, <1>3, <1>4 DEF OkayAt, Before, Filling, Ended
<1>7. ASSUME Mine(s) PROVE Confined(s) /\ Mine(s)'
  <2>1. /\ WritesAt(s) /\ FilesAt(s) /\ SealedAt(s) /\ VisibleAt(s)
        /\ ~Headless => HoldsAt(s)
    BY <1>7 DEF Mine, ShownAt
  <2>2. content' = [content EXCEPT ![Upload(s)] = Upload(s)]
    BY <1>3, <2>1 DEF WritesAt
  <2>3. /\ \A x : Own(s, x)' <=> Own(s, x)
        /\ \A p : Made(p)' <=> Made(p)
    BY <1>2, <1>3 DEF Own, Made
  <2>4. /\ content'[Upload(s)] = Upload(s) /\ Upload(s) # Nothing
        /\ \A x \in DOMAIN content : x # Upload(s) => content'[x] = content[x]
    BY <1>1, <2>2, Inodes
  \* the data of the session's own files
  <2>5. \A p \in DOMAIN disk : Own(s, p[1]) /\ Made(p) =>
          \E j \in 1..k[s] : /\ disk[p] = <<s, j>>
                             /\ content'[disk[p]] = IF j = k[s] THEN Upload(s) ELSE content[disk[p]]
    <3> SUFFICES ASSUME NEW p \in DOMAIN disk, Own(s, p[1]), Made(p)
                 PROVE  \E j \in 1..k[s] :
                          /\ disk[p] = <<s, j>>
                          /\ content'[disk[p]] = IF j = k[s] THEN Upload(s) ELSE content[disk[p]]
      OBVIOUS
    <3>1. PICK j \in 1..k[s] : disk[p] = <<s, j>>
      BY <2>1 DEF FilesAt
    <3>2. disk[p] \in DOMAIN content
      BY <1>1, <3>1, RequestLen, Inodes
    <3>3. CASE j = k[s]
      BY <2>4, <3>1, <3>3 DEF Upload
    <3>4. CASE j # k[s]
      <4>1. disk[p] # Upload(s)
        BY <3>1, <3>4 DEF Upload
      <4> QED
        BY <2>4, <3>1, <3>2, <3>4, <4>1
    <3> QED
      BY <3>3, <3>4
  <2>6. \A p \in DOMAIN disk : Own(s, p[1]) /\ Made(p) /\ content[disk[p]] = disk[p]
          => content'[disk[p]] = disk[p]
    BY <2>4, <2>5 DEF Upload
  <2>7. path[s] \in DOMAIN disk => content'[disk[path[s]]] = disk[path[s]]
    BY <1>3, <2>1, <2>4 DEF WritesAt
  <2>8. Confined(s)
    <3>1. \A q \in Sessions \ {s} : \A j \in 1..Len(request[q].entries) :
            content'[<<q, j>>] = content[<<q, j>>]
      <4> SUFFICES ASSUME NEW q \in Sessions \ {s}, NEW j \in 1..Len(request[q].entries)
                   PROVE  content'[<<q, j>>] = content[<<q, j>>]
        OBVIOUS
      <4>1. <<q, j>> \in DOMAIN content
        BY <1>1, Inodes
      <4>2. <<q, j>> # Upload(s)
        BY DEF Upload
      <4> QED
        BY <2>4, <4>1, <4>2
    <3> QED
      BY <1>3, <3>1 DEF Confined
  <2>9. TakesAt(s)' /\ FreeAt(s)' /\ WritesAt(s)'
    BY <1>4 DEF TakesAt, FreeAt, WritesAt, Moving
  <2>10. FilesAt(s)'
    <3> SUFFICES ASSUME NEW p \in DOMAIN disk, Own(s, p[1]), Made(p)
                 PROVE  \E j \in 1..k'[s] : disk[p] = <<s, j>> /\ (j = k'[s] => Past(s)')
      BY <1>3, <2>3 DEF FilesAt
    <3>1. PICK j \in 1..k[s] : disk[p] = <<s, j>>
      BY <2>1 DEF FilesAt
    <3>2. k[s] \in Nat
      BY <1>1 DEF Typed
    <3>3. CASE k'[s] = k[s] + 1
      BY <3>1, <3>2, <3>3
    <3>4. CASE k'[s] = k[s] /\ pc'[s] \in {"cut", "ack", "list"}
      <4>1. Past(s)'
        BY <3>4 DEF Past, Before
      <4> QED
        BY <3>1, <3>4, <4>1
    <3> QED
      BY <1>4, <3>3, <3>4
  <2>11. SealedAt(s)'
    <3> SUFFICES ASSUME Temporary(s)', NEW p \in DOMAIN disk, p[1] = tmp[s]
                 PROVE  /\ Len(p) > 1 => p[2] \in Tops(s)
                        /\ Made(p) => Len(p) > 1 /\ content'[disk[p]] = disk[p]
      BY <1>2, <1>3, <2>3 DEF SealedAt
    <3>1. Temporary(s)
      BY <1>2, <1>3 DEF Temporary, Filling
    <3>2. Own(s, p[1])
      BY <3>1 DEF NamedAt, Own
    <3>3. /\ Len(p) > 1 => p[2] \in Tops(s)
          /\ Made(p) => Len(p) > 1 /\ (content[disk[p]] = disk[p] \/ p = path[s])
      BY <2>1, <3>1 DEF SealedAt
    <3> QED
      BY <2>6, <2>7, <3>2, <3>3
  <2>12. VisibleAt(s)'
    <3> SUFFICES ASSUME NEW p \in DOMAIN disk, Own(s, p[1]), Made(p)
                 PROVE  content'[disk[p]] = disk[p] \/ p[1] = tmp[s]
      BY <1>3, <2>3 DEF VisibleAt
    <3>1. content[disk[p]] = disk[p] \/ p[1] = tmp[s] \/ p = path[s]
      BY <2>1 DEF VisibleAt
    <3> QED
      BY <2>6, <2>7, <3>1
  <2>13. ASSUME ~Headless PROVE DestAt(s)' /\ HoldsAt(s)'
    <3>1. path[s] \in DOMAIN disk /\ disk[path[s]] = Upload(s) /\ dest[s] = {}
      BY <1>3, <2>1, <2>13 DEF WritesAt, OkayAt, Filling
    <3>2. DestAt(s)'
      <4>1. CASE Version(s) = 1
        <5>1. path[s] \in Paths /\ Len(path[s]) = 1 /\ path[s][1][2] \in TopBases(s)
          BY <1>1, <1>3, <3>1, <4>1, DiskPaths DEF NamedAt
        <5>2. path[s][1] \in AnyName
          BY <5>1, PathTypes
        <5>3. path[s] = <<path[s][1]>>
          BY <5>1, <5>2, TopPrefix
        <5> QED
          BY <1>2, <1>3, <3>1, <4>1, <5>1, <5>3 DEF DestAt
      <4>2. CASE Version(s) # 1
        BY <1>3, <3>1, <4>2 DEF DestAt
      <4> QED
        BY <4>1, <4>2
    <3>3. ASSUME NEW j \in 1..Len(request[s].entries), NEW p \in DOMAIN disk, Stored(s, j, p)
          PROVE  Stored(s, j, p)'
      <4>1. Own(s, p[1]) /\ disk[p] = <<s, j>> /\ content[<<s, j>>] = <<s, j>> /\ j \in Nat \ {0}
        BY <1>1, <3>3, RequestLen DEF Stored
      <4>2. Made(p)
        BY <1>1, <4>1, Inodes DEF Made
      <4>3. content'[<<s, j>>] = <<s, j>>
        BY <2>5, <4>1, <4>2 DEF Upload
      <4> QED
        BY <1>3, <2>3, <4>1, <4>3 DEF Stored
    <3>4. Own(s, path[s][1])
      BY <1>1, <1>3, <1>7, OwnPlaces DEF Mine, ShownAt
    <3>5. ASSUME NEW j, NEW a, j = k[s], a = path[s]
          PROVE  Stored(s, j, a)' /\ Where(s, a)'
      <4>1. Stored(s, j, a)'
        BY <1>3, <2>3, <2>4, <3>1, <3>4, <3>5 DEF Stored, Upload
      <4>2. CASE Version(s) = 1
        <5>1. a[1] \in dest'[s]
          BY <1>3, <3>5, <4>2
        <5> QED
          BY <4>1, <5>1 DEF Where
      <4>3. CASE Version(s) # 1
        <5>1. a[1] = tmp'[s]
          BY <1>3, <3>5, <4>3 DEF NamedAt
        <5>2. pc'[s] \in Filling /\ pc'[s] \notin {"next", "name", "move"}
          BY <1>4, <4>3 DEF Filling
        <5> QED
          BY <4>1, <5>1, <5>2 DEF Where, Filling, Moving
      <4> QED
        BY <4>1, <4>2, <4>3
    <3>6. ASSUME Version(s) # 1, NEW p, Where(s, p)
          PROVE  Where(s, p)'
      <4>1. dest'[s] = dest[s] /\ pc'[s] \in {"file", "ack", "list"}
        BY <1>3, <1>4, <3>6
      <4> QED
        BY <1>3, <3>6, <4>1 DEF Where, Filling, Moving
    <3>7. ASSUME NEW j \in 1..Len(request[s].entries), NEW p \in DOMAIN disk, Stored(s, j, p)
          PROVE  \E z \in DOMAIN disk' : /\ Stored(s, j, z)'
                                         /\ j \in Received(s)' /\ Where(s, p) => Where(s, z)'
      <4>1. CASE Version(s) = 1
        <5>1. Len(request[s].entries) = 1 /\ k[s] = 1
          BY <1>1, <4>1, RequestLen
        <5>2. j \in 1..1
          BY <5>1
        <5>3. j = k[s]
          BY <5>1, <5>2
        <5> QED
          BY <1>3, <3>1, <3>5, <5>3
      <4>2. CASE Version(s) # 1
        BY <1>3, <3>3, <3>6, <3>7, <4>2
      <4> QED
        BY <4>1, <4>2
    <3>8. \A j \in Received(s)' :
            j \in Received(s) \/ \E z \in DOMAIN disk' : Stored(s, j, z)' /\ Where(s, z)'
      <4> SUFFICES ASSUME NEW j \in Received(s)', j # k[s] PROVE j \in Received(s)
        BY <1>3, <3>1, <3>5
      <4>1. j \in 1..Len(request[s].entries) /\ ~request[s].entries[j].dir
        BY <1>3 DEF Received
      <4>2. /\ k[s] \in Nat /\ j \in Nat /\ Len(request[s].entries) \in Nat
            /\ Version(s) # 1
        BY <1>1, <4>1, RequestLen
      <4>3. pc'[s] = "file" => j < k'[s]
        BY <1>2, <4>2 DEF Received, Moving
      <4>4. j < k[s]
        BY <1>4, <4>1, <4>2, <4>3
      <4> QED
        BY <1>3, <4>1, <4>2, <4>4 DEF Received
    <3>9. HoldsAt(s)'
      BY <1>1, <1>3, <2>1, <2>13, <3>7, <3>8, HoldsKeeps
    <3> QED
      BY <3>2, <3>9
  <2> QED
    BY <2>8, <2>9, <2>10, <2>11, <2>12, <2>13 DEF Mine, ShownAt
<1> QED
  BY <1>3, <1>5, <1>6, <1>7, RootedSame DEF Sound

\* A step that removes something of its own.
LEMMA RemoveMine ==
  ASSUME Typed, Rooted, NEW s \in Sessions, Others(s), NamedAt(s)', Mine(s),
         NEW a \in Paths, Own(s, a[1]), disk' = Unlink(disk, a), content' = content,
         tmp'[s] = tmp[s], k'[s] = k[s], Past(s) => Past(s)', Temporary(s)' => Temporary(s),
         pc[s] = "data" => path[s] \notin DOMAIN disk' /\ path'[s] = path[s],
         pc[s] # "killed", pc'[s] # "data", TakesAt(s)', FreeAt(s)',
         dest'[s] = dest[s], ~Headless => HoldsAt(s)' /\ \A x \in dest[s] : <<x>> # a
  PROVE  Confined(s) /\ Mine(s)'
<1>1. /\ Tops(s)' = Tops(s) /\ TopBases(s)' = TopBases(s)
      /\ \A x : Own(s, x)' <=> Own(s, x)
  BY OthersNames DEF Own
<1>2. /\ \A r \in DOMAIN disk' : r \in DOMAIN disk /\ disk'[r] = disk[r]
      /\ \A r \in DOMAIN disk : r # a => r \in DOMAIN disk'
  BY UnlinkIs
<1>3. \A p \in DOMAIN disk' : Made(p)' => Made(p)
  BY <1>2 DEF Made
<1>4. Confined(s)
  <2>1. \A p \in DOMAIN disk : ~Own(s, p[1])' => p \in DOMAIN disk'
    BY <1>1, <1>2
  <2> QED
    BY <1>2, <2>1 DEF Confined
<1>5. ShownAt(s)'
  <2>1. ShownAt(s) /\ SealedAt(s)
    BY DEF Mine, ShownAt
  <2>2. Temporary(s)' => \A p \in DOMAIN disk' : p[1] = tmp'[s] /\ Len(p) > 1 => p[2] \in Tops(s)
    BY <1>2, <2>1 DEF SealedAt
  <2>3. \A p \in DOMAIN disk' : Own(s, p[1])' /\ Made(p)' =>
          Own(s, p[1]) /\ Made(p) /\ disk'[p] = disk[p] /\ (p[1] = tmp[s] <=> p[1] = tmp'[s])
    BY <1>1, <1>2, <1>3
  <2> QED
    BY <2>1, <2>2, <2>3, TreeShown
<1>6. ~Headless => DestAt(s)'
  BY <1>1, <1>2 DEF Mine, DestAt
<1> QED
  BY <1>4, <1>5, <1>6 DEF Mine

LEMMA DataFailedSound ==
  ASSUME IInv, Shaped, Rooted, NEW s \in Sessions, NamedAt(s), OkayAt(s), DataFailed(s)
  PROVE  Sound(s)
<1>1. Typed /\ Others(s) /\ StagedAt(s)
  BY OthersOf DEF IInv, Step, Staged
<1>2. Tops(s)' = Tops(s) /\ TopBases(s)' = TopBases(s) /\ Version(s)' = Version(s)
  BY <1>1, OthersNames
<1>3. /\ pc[s] = "data" /\ disk' = Unlink(disk, path[s])
      /\ UNCHANGED <<content, request, k, path, tmp, left, dest, moved, acked, entry>>
      /\ pc'[s] = (IF Version(s) = 1 THEN "done" ELSE "list") /\ ok'[s] = FALSE
  BY <1>1 DEF DataFailed, Failed, At, Goto, Typed, Shaped
<1>4. path[s] \in Paths
  BY <1>1, <1>3 DEF StagedAt, Typed, Paths
<1>5. Rooted'
  BY <1>1, <1>3, <1>4, UnlinkIs
<1>6. NamedAt(s)'
  BY <1>2, <1>3 DEF NamedAt, Temporary, Before, Filling, Moving
<1>7. OkayAt(s)'
  BY <1>2, <1>3 DEF OkayAt, Before, Filling, Ended
<1>8. ASSUME Mine(s) PROVE Confined(s) /\ Mine(s)'
  <2>1. TakesAt(s) /\ WritesAt(s)
    BY <1>8 DEF Mine, ShownAt
  <2>2. path[s] \notin DOMAIN disk'
    <3>1. CASE path[s] \notin DOMAIN disk
      BY <1>1, <1>3, <1>4, <3>1, UnlinkIs
    <3>2. CASE path[s] \in DOMAIN disk
      <4>1. disk[path[s]] # Dir
        BY <1>1, <1>3, <2>1, <3>2, IInv, Inodes DEF WritesAt
      <4>2. Below(disk, path[s]) = {path[s]}
        <5>1. \A p \in DOMAIN disk : IsPrefix(path[s], p) => p = path[s]
          BY <1>4, <4>1 DEF Rooted
        <5>2. IsPrefix(path[s], path[s])
          BY <1>4, PathTypes, PrefixOrder
        <5> QED
          BY <3>2, <5>1, <5>2 DEF Below
      <4>3. CanRemove(disk, path[s])
        BY <3>2, <4>2 DEF CanRemove
      <4> QED
        BY <1>1, <1>3, <1>4, <4>3, UnlinkIs
    <3> QED
      BY <3>1, <3>2
  <2>3. TakesAt(s)' /\ FreeAt(s)' /\ (Past(s) => Past(s)') /\ (Temporary(s)' => Temporary(s))
    BY <1>2, <1>3 DEF TakesAt, FreeAt, Moving, Filling, Past, Before, Temporary
  <2>4. dest[s] = {} /\ ~acked[s]
    BY <1>3 DEF OkayAt, Filling
  <2>5. HoldsAt(s)'
    <3>1. Received(s)' = {}
      BY <1>2, <1>3 DEF Received, Moving
    <3> QED
      BY <1>3, <2>4, <3>1 DEF HoldsAt
  <2>6. Own(s, path[s][1])
    BY <1>1, <1>3, <2>1, OwnPlaces
  <2> DEFINE a == path[s]
  <2>7. a \in Paths /\ Own(s, a[1]) /\ disk' = Unlink(disk, a) /\ \A x \in dest[s] : <<x>> # a
    BY <1>3, <1>4, <2>4, <2>6
  <2> HIDE DEF a
  <2> QED
    BY <1>1, <1>3, <1>6, <1>8, <2>2, <2>3, <2>5, <2>7, RemoveMine
<1> QED
  BY <1>5, <1>6, <1>7, <1>8 DEF Sound

LEMMA AckSound ==
  ASSUME IInv, Shaped, Rooted, NEW s \in Sessions, NamedAt(s), OkayAt(s), Ack(s)
  PROVE  Sound(s)
<1>1. Typed /\ Others(s) /\ StagedAt(s)
  BY OthersOf DEF IInv, Step, Staged
<1>2. Tops(s)' = Tops(s) /\ TopBases(s)' = TopBases(s) /\ Version(s)' = Version(s)
  BY <1>1, OthersNames
<1>3. /\ pc[s] = "ack" /\ pc'[s] = "list" /\ Version(s) # 1
      /\ UNCHANGED <<disk, content, request, k, path, tmp, left, dest, moved, entry>>
      /\ ok'[s] = ok[s] \/ ok'[s] = FALSE
  BY <1>1 DEF Ack, At, Goto, Typed, Shaped, StagedAt, InTemp
<1>4. NamedAt(s)'
  BY <1>2, <1>3 DEF NamedAt, Temporary, Before, Filling, Moving
<1>5. OkayAt(s)'
  BY <1>2, <1>3 DEF OkayAt, Before, Filling, Ended
<1>6. TakesAt(s)' /\ FreeAt(s)' /\ (Past(s) => Past(s)') /\ (Temporary(s)' => Temporary(s))
  BY <1>2, <1>3 DEF TakesAt, FreeAt, Moving, Filling, Past, Before, Temporary
<1>7. /\ Received(s)' \subseteq Received(s)
      /\ \A i \in 1..Len(request[s].entries) : ~request[s].entries[i].dir => i \in Received(s)
      /\ \A p : Where(s, p) => Where(s, p)'
  <2>1. ok[s]
    BY <1>3 DEF OkayAt
  <2>2. Received(s)' \subseteq Received(s)
    BY <1>3, <2>1 DEF Received
  <2>3. \A i \in 1..Len(request[s].entries) : ~request[s].entries[i].dir => i \in Received(s)
    BY <1>3, <2>1 DEF Received
  <2>4. \A p : Where(s, p) => Where(s, p)'
    BY <1>3 DEF Where, Filling, Moving
  <2> QED
    BY <2>2, <2>3, <2>4
<1>8. ASSUME Mine(s) PROVE Confined(s) /\ Mine(s)'
  <2>1. ~Headless => HoldsAt(s)'
    BY <1>1, <1>3, <1>7, <1>8, QuietHolds DEF Mine
  <2> QED
    BY <1>1, <1>3, <1>4, <1>6, <1>8, <2>1, QuietMine
<1> QED
  BY <1>3, <1>4, <1>5, <1>8, RootedSame DEF Sound

LEMMA EndSound ==
  ASSUME IInv, Shaped, Rooted, NEW s \in Sessions, NamedAt(s), OkayAt(s),
         Cut(s) \/ LoseSelection(s) \/ Kill(s)
  PROVE  Sound(s)
<1>1. Typed /\ Others(s)
  BY OthersOf DEF IInv, Step
<1>2. Tops(s)' = Tops(s) /\ TopBases(s)' = TopBases(s) /\ Version(s)' = Version(s)
  BY <1>1, OthersNames
<1>3. /\ UNCHANGED <<disk, content, request, k, path, tmp, left, dest, moved, acked, entry>>
      /\ ok'[s] = ok[s] \/ (ok'[s] = FALSE /\ pc'[s] = "done")
      /\ pc[s] # "killed"
      /\ \/ pc[s] \in {"cut", "own"} /\ pc'[s] \in {"own", "done"}
         \/ pc'[s] = "killed"
  <2>1. pc[s] # "killed"
    BY DEF Cut, LoseSelection, Kill, At, Running, Ended
  <2> QED
    BY <1>1, <2>1 DEF Cut, LoseSelection, Kill, At, Goto, Typed, Shaped, locals
<1>4. NamedAt(s)'
  BY <1>2, <1>3 DEF NamedAt, Temporary, Before, Filling, Moving
<1>5. OkayAt(s)'
  <2>1. Version(s) = 1 => ~acked[s] /\ (ok[s] \/ pc[s] \in Ended)
    BY DEF OkayAt
  <2> QED
    BY <1>2, <1>3, <2>1 DEF OkayAt, Before, Filling, Ended
<1>6. TakesAt(s)' /\ FreeAt(s)' /\ (Past(s) => Past(s)') /\ (Temporary(s)' => Temporary(s))
  BY <1>2, <1>3 DEF TakesAt, FreeAt, Moving, Filling, Past, Before, Temporary
<1>7. ASSUME Mine(s) PROVE Confined(s) /\ Mine(s)'
  <2>1. ~Headless => HoldsAt(s)'
    <3>1. Received(s)' \subseteq Received(s)
      BY <1>2, <1>3 DEF Received, Moving
    <3>2. ASSUME NEW p, Received(s)' # {}, Where(s, p)
          PROVE  Where(s, p)'
      <4>1. pc[s] \in {"cut", "own"} /\ pc'[s] \in {"own", "done"}
        BY <1>3, <3>2 DEF Received, Moving
      <4> QED
        BY <1>3, <3>2, <4>1 DEF Where, Filling, Moving
    <3> QED
      BY <1>1, <1>3, <1>7, <3>1, <3>2, QuietHolds DEF Mine
  <2> QED
    BY <1>1, <1>3, <1>4, <1>6, <1>7, <2>1, QuietMine
<1> QED
  BY <1>3, <1>4, <1>5, <1>7, RootedSame DEF Sound

LEMMA NextEntrySound ==
  ASSUME IInv, Shaped, Rooted, NEW s \in Sessions, NamedAt(s), OkayAt(s), NextEntry(s)
  PROVE  Sound(s)
<1>1. Typed /\ Others(s) /\ StagedAt(s)
  BY OthersOf DEF IInv, Step, Staged
<1>2. Tops(s)' = Tops(s) /\ TopBases(s)' = TopBases(s) /\ Version(s)' = Version(s)
  BY <1>1, OthersNames
<1>3. /\ pc[s] = "next" /\ pc'[s] = "name" /\ Version(s) # 1
      /\ UNCHANGED <<disk, content, request, k, path, tmp, dest, ok, moved, acked>>
  BY <1>1 DEF NextEntry, At, Goto, Typed, StagedAt, InTemp
<1>4. entry'[s] \in left[s] /\ left'[s] = left[s] \ {entry'[s]}
  BY <1>1 DEF NextEntry, Typed
<1>5. NamedAt(s)'
  BY <1>2, <1>3 DEF NamedAt, Temporary, Before, Filling, Moving
<1>6. OkayAt(s)'
  BY <1>2, <1>3 DEF OkayAt, Before, Filling, Ended
<1>7. ASSUME Mine(s) PROVE Confined(s) /\ Mine(s)'
  <2>1. left[s] \subseteq Tops(s)
    BY <1>3, <1>7 DEF Mine, ShownAt, TakesAt, Moving
  <2>2. TakesAt(s)'
    BY <1>2, <1>3, <1>4, <2>1 DEF TakesAt
  <2>3. FreeAt(s)' /\ (Past(s) => Past(s)') /\ (Temporary(s)' => Temporary(s))
    BY <1>2, <1>3 DEF FreeAt, Moving, Filling, Past, Before, Temporary
  <2>4. ~Headless => HoldsAt(s)'
    <3>1. Received(s)' \subseteq Received(s)
      BY <1>2, <1>3 DEF Received, Moving
    <3>2. ASSUME NEW p, Where(s, p) PROVE Where(s, p)'
      BY <1>3, <1>4, <3>2 DEF Where, Filling, Moving
    <3> QED
      BY <1>1, <1>3, <1>7, <3>1, <3>2, QuietHolds DEF Mine
  <2> QED
    BY <1>1, <1>3, <1>5, <1>7, <2>2, <2>3, <2>4, QuietMine
<1> QED
  BY <1>3, <1>5, <1>6, <1>7, RootedSame DEF Sound

LEMMA ListTempSound ==
  ASSUME IInv, Shaped, Rooted, NEW s \in Sessions, NamedAt(s), OkayAt(s), ListTemp(s)
  PROVE  Sound(s)
<1>1. Typed /\ Others(s) /\ StagedAt(s) /\ request' = request
  BY OthersOf DEF IInv, Step, Staged, ListTemp
<1>2. /\ Tops(s)' = Tops(s) /\ TopBases(s)' = TopBases(s) /\ Version(s)' = Version(s)
      /\ \A x : Own(s, x) => Own(s, x)'
  BY <1>1, OthersNames
<1> DEFINE t == <<tmp[s]>>
           names == {p[2] : p \in Children(disk, t)}
<1>3. /\ pc[s] = "list" /\ Version(s) # 1
      /\ UNCHANGED <<content, request, k, path, tmp, dest, moved, acked, entry>>
      /\ \/ pc'[s] = "done" /\ ok'[s] = FALSE
         \/ /\ pc'[s] = "next" /\ UNCHANGED disk /\ left'[s] = names
            /\ ok[s] /\ ok'[s]
      /\ UNCHANGED disk \/ (disk' = Unlink(disk, t) /\ IsDir(disk, t) /\ pc'[s] = "done")
  <2>1. /\ At(s, "list")
        /\ LET listed == IsDir(disk, t)
               good == ok[s] /\ listed /\ names # {}
           IN /\ ok' = [ok EXCEPT ![s] = good]
              /\ left' = [left EXCEPT ![s] = IF good THEN names ELSE {}]
              /\ disk' = IF listed /\ names = {} THEN Unlink(disk, t) ELSE disk
              /\ Goto(s, IF good THEN "next" ELSE "done")
        /\ UNCHANGED <<content, request, k, path, tmp, dest, moved, acked, entry>>
    BY DEF ListTemp
  <2> HIDE DEF t, names
  <2>2. pc[s] = "list" /\ Version(s) # 1
    BY <1>1, <2>1 DEF At, StagedAt, InTemp
  <2> DEFINE good == ok[s] /\ IsDir(disk, t) /\ names # {}
  <2>3. /\ ok'[s] = good /\ left'[s] = (IF good THEN names ELSE {})
        /\ pc'[s] = IF good THEN "next" ELSE "done"
    BY <1>1, <2>1 DEF Goto, Typed, Shaped
  <2>4. CASE good
    BY <2>1, <2>2, <2>3, <2>4
  <2>5. CASE ~good
    <3>1. pc'[s] = "done" /\ ok'[s] = FALSE
      BY <2>3, <2>5
    <3> QED
      BY <2>1, <2>2, <3>1
  <2> QED
    BY <2>4, <2>5
<1>4. t \in Paths /\ t # <<>> /\ t[1] = tmp[s] /\ Len(t) = 1 /\ Own(s, tmp[s]) /\ Temporary(s)
  BY <1>1, <1>3, TopPrefix DEF Typed, NamedAt, Temporary, Filling, Own
\* what is in the temporary directory is listed
<1>5. /\ \A x \in names : \E p \in DOMAIN disk : p[1] = tmp[s] /\ Len(p) > 1 /\ p[2] = x
      /\ \A p \in DOMAIN disk : p[1] = tmp[s] /\ Len(p) > 1 => p[2] \in names
  <2>1. \A p \in DOMAIN disk : IsPrefix(t, p) <=> p[1] = tmp[s]
    BY <1>1, DiskPaths, TopPrefix DEF Typed
  <2>2. \A p \in Children(disk, t) : p \in DOMAIN disk /\ IsPrefix(t, p) /\ Len(p) = 2
    BY <1>4 DEF Children, Below
  <2>3. ASSUME NEW p \in DOMAIN disk, p[1] = tmp[s], Len(p) > 1
        PROVE  p[2] \in names
    <3>1. p \in Paths /\ p[1] \in AnyName /\ p[2] \in AnyName
      BY <1>1, <2>3, DiskPaths
    <3> DEFINE c == <<p[1], p[2]>>
    <3>2. c \in Paths /\ Len(c) = 2 /\ IsPrefix(c, p) /\ c[1] = p[1] /\ c[2] = p[2]
      BY <2>3, <3>1, PairPrefix
    <3> HIDE DEF c
    <3>3. c \in DOMAIN disk
      BY <3>2 DEF Rooted
    <3>4. c \in Children(disk, t)
      BY <1>4, <2>1, <2>3, <3>2, <3>3 DEF Children, Below
    <3> QED
      BY <3>2, <3>4
  <2>4. ASSUME NEW x \in names
        PROVE  \E p \in DOMAIN disk : p[1] = tmp[s] /\ Len(p) > 1 /\ p[2] = x
    <3>1. PICK p \in Children(disk, t) : x = p[2]
      BY <2>4
    <3> QED
      BY <2>1, <2>2, <3>1
  <2> QED
    BY <2>3, <2>4
<1> HIDE DEF t, names
<1>6. Rooted'
  BY <1>1, <1>3, <1>4, UnlinkIs, RootedSame
<1>7. NamedAt(s)'
  BY <1>2, <1>3 DEF NamedAt, Temporary, Before, Filling, Moving
<1>8. OkayAt(s)'
  BY <1>2, <1>3 DEF OkayAt, Before, Filling, Ended
<1>9. ASSUME Mine(s) PROVE Confined(s) /\ Mine(s)'
  <2>1. /\ SealedAt(s) /\ dest[s] = {}
        /\ ~Headless => HoldsAt(s)
    BY <1>3, <1>9 DEF Mine, ShownAt, OkayAt, Filling
  <2>2. TakesAt(s)'
    <3>1. names \subseteq Tops(s)
      BY <1>4, <1>5, <2>1 DEF SealedAt
    <3> QED
      BY <1>2, <1>3, <3>1 DEF TakesAt, Moving
  <2>3. FreeAt(s)' /\ (Past(s) => Past(s)') /\ (Temporary(s)' => Temporary(s)) /\ pc'[s] # "data"
    BY <1>2, <1>3 DEF FreeAt, Moving, Filling, Past, Before, Temporary
  <2>4. \A x : Own(s, x)' <=> Own(s, x)
    BY <1>2, <1>3 DEF Own
  <2>5. ASSUME ~Headless PROVE HoldsAt(s)'
    <3>1. Received(s)' \subseteq Received(s) /\ (Received(s)' # {} => pc'[s] = "next" /\ left'[s] = names)
      BY <1>2, <1>3 DEF Received, Moving
    <3>2. ASSUME NEW i \in 1..Len(request[s].entries), NEW p \in DOMAIN disk, Stored(s, i, p)
          PROVE  /\ p \in DOMAIN disk' /\ Stored(s, i, p)'
                 /\ i \in Received(s)' /\ Where(s, p) => Where(s, p)'
      <4>1. disk[p] = <<s, i>> /\ Made(p) /\ disk[p] # Dir /\ Own(s, p[1])
        <5>1. disk[p] = <<s, i>> /\ i \in Nat \ {0} /\ Own(s, p[1])
          BY <1>1, <3>2, RequestLen DEF Stored
        <5> QED
          BY <1>1, <5>1, Inodes DEF Made
      <4>2. p \in DOMAIN disk' /\ disk'[p] = disk[p]
        <5>1. CASE UNCHANGED disk
          BY <5>1
        <5>2. CASE disk' = Unlink(disk, t) /\ IsDir(disk, t)
          <6>1. p # t
            BY <1>4, <4>1, <5>2 DEF IsDir
          <6> QED
            BY <1>1, <1>4, <5>2, <6>1, UnlinkIs
        <5> QED
          BY <1>3, <5>1, <5>2
      <4>3. Stored(s, i, p)'
        BY <1>3, <2>4, <3>2, <4>2 DEF Stored
      <4>4. ASSUME i \in Received(s)', Where(s, p) PROVE Where(s, p)'
        <5>1. pc'[s] = "next" /\ left'[s] = names
          BY <3>1, <4>4
        <5>2. CASE ~moved[s]
          BY <1>3, <5>2 DEF Where
        <5>3. CASE p[1] = tmp[s]
          <6>1. p[2] \in names
            BY <1>4, <1>5, <2>1, <4>1, <5>3 DEF SealedAt
          <6> QED
            BY <1>3, <5>1, <5>3, <6>1 DEF Where, Filling, Moving
        <5> QED
          BY <2>1, <4>4, <5>2, <5>3 DEF Where
      <4> QED
        BY <4>2, <4>3, <4>4
    <3> QED
      BY <1>1, <1>3, <2>1, <2>5, <3>1, <3>2, HoldsKeeps
  <2>6. CASE UNCHANGED disk
    BY <1>1, <1>3, <1>7, <1>9, <2>2, <2>3, <2>5, <2>6, QuietMine
  <2>7. CASE disk' = Unlink(disk, t)
    BY <1>1, <1>3, <1>4, <1>7, <1>9, <2>1, <2>2, <2>3, <2>5, <2>7, RemoveMine
  <2> QED
    BY <1>3, <2>6, <2>7
<1> QED
  BY <1>6, <1>7, <1>8, <1>9 DEF Sound

LEMMA RemoveTempSound ==
  ASSUME IInv, Shaped, Rooted, NEW s \in Sessions, NamedAt(s), OkayAt(s), RemoveTemp(s)
  PROVE  Sound(s)
<1>1. Typed /\ Others(s) /\ StagedAt(s) /\ request' = request
  BY OthersOf DEF IInv, Step, Staged, RemoveTemp
<1>2. /\ Tops(s)' = Tops(s) /\ TopBases(s)' = TopBases(s) /\ Version(s)' = Version(s)
      /\ \A x : Own(s, x) => Own(s, x)'
  BY <1>1, OthersNames
<1> DEFINE t == <<tmp[s]>>
<1>3. /\ pc[s] = "next" /\ Version(s) # 1 /\ left[s] = {}
      /\ UNCHANGED <<content, request, k, path, tmp, left, dest, ok, acked, entry>>
      /\ \/ UNCHANGED disk /\ pc'[s] = "done" /\ moved'[s] = FALSE
         \/ /\ moved[s] /\ CanRemove(disk, t) /\ disk' = Unlink(disk, t)
            /\ pc'[s] = "cut" /\ moved' = moved
  <2>1. pc[s] = "next" /\ Version(s) # 1
    BY <1>1 DEF RemoveTemp, At, StagedAt, InTemp
  <2>2. \/ UNCHANGED disk /\ pc'[s] = "done" /\ moved'[s] = FALSE
        \/ /\ moved[s] /\ CanRemove(disk, t) /\ disk' = Unlink(disk, t)
           /\ pc'[s] = "cut" /\ moved' = moved
    BY <1>1 DEF RemoveTemp, NotMoved, Goto, Typed, Shaped
  <2>3. left[s] = {} /\ UNCHANGED <<content, request, k, path, tmp, left, dest, ok, acked, entry>>
    BY DEF RemoveTemp, NotMoved
  <2> HIDE DEF t
  <2> QED
    BY <2>1, <2>2, <2>3
<1>4. t \in Paths /\ t[1] = tmp[s] /\ Len(t) = 1 /\ Own(s, tmp[s]) /\ Temporary(s)
  BY <1>1, <1>3, TopPrefix DEF Typed, NamedAt, Temporary, Moving, Own
<1>5. \A x : <<x>> = t => x = tmp[s]
  OBVIOUS
<1> HIDE DEF t
<1>6. Rooted'
  BY <1>1, <1>3, <1>4, UnlinkIs, RootedSame
<1>7. NamedAt(s)'
  BY <1>2, <1>3 DEF NamedAt, Temporary, Before, Filling, Moving
<1>8. OkayAt(s)'
  BY <1>2, <1>3 DEF OkayAt, Before, Filling, Ended
<1>9. ASSUME Mine(s) PROVE Confined(s) /\ Mine(s)'
  <2>1. SealedAt(s) /\ (~Headless => HoldsAt(s) /\ DestAt(s))
    BY <1>9 DEF Mine, ShownAt
  <2>2. /\ TakesAt(s)' /\ FreeAt(s)' /\ (Past(s) => Past(s)') /\ (Temporary(s)' => Temporary(s))
        /\ pc'[s] # "data"
    BY <1>2, <1>3 DEF TakesAt, FreeAt, Moving, Filling, Past, Before, Temporary
  <2>3. \A x : Own(s, x)' <=> Own(s, x)
    BY <1>2, <1>3 DEF Own
  <2>4. ASSUME ~Headless PROVE HoldsAt(s)'
    <3>1. Received(s)' \subseteq Received(s)
      BY <1>2, <1>3 DEF Received, Moving
    <3>2. ASSUME NEW i \in 1..Len(request[s].entries), NEW p \in DOMAIN disk, Stored(s, i, p)
          PROVE  /\ p \in DOMAIN disk' /\ Stored(s, i, p)'
                 /\ i \in Received(s)' /\ Where(s, p) => Where(s, p)'
      <4>1. Made(p)
        <5>1. disk[p] = <<s, i>> /\ i \in Nat \ {0}
          BY <1>1, <3>2, RequestLen DEF Stored
        <5> QED
          BY <1>1, <5>1, Inodes DEF Made
      <4>2. p # t
        BY <1>4, <2>1, <4>1 DEF SealedAt
      <4>3. p \in DOMAIN disk' /\ disk'[p] = disk[p]
        BY <1>1, <1>3, <1>4, <4>2, UnlinkIs
      <4>4. Stored(s, i, p)'
        BY <1>3, <2>3, <3>2, <4>3 DEF Stored
      <4>5. Where(s, p) => p[1] \in dest[s] \/ ~moved[s]
        BY <1>3 DEF Where
      <4>7. ~moved[s] => ~moved'[s]
        BY <1>3
      <4>6. p[1] \in dest[s] => Where(s, p)'
        BY <1>3 DEF Where
      <4>8. ~moved'[s] => Where(s, p)'
        BY DEF Where
      <4> QED
        BY <4>3, <4>4, <4>5, <4>6, <4>7, <4>8
    <3> QED
      BY <1>1, <1>3, <2>1, <2>4, <3>1, <3>2, HoldsKeeps
  <2>5. CASE UNCHANGED disk
    BY <1>1, <1>3, <1>7, <1>9, <2>2, <2>4, <2>5, QuietMine
  <2>6. CASE disk' = Unlink(disk, t)
    <3>1. ASSUME ~Headless PROVE \A x \in dest[s] : <<x>> # t
      <4>1. \A x \in dest[s] : x[2] \in TopBases(s)
        BY <2>1, <3>1 DEF DestAt
      <4>2. tmp[s] # NoName /\ tmp[s][2] \in {"time", "rand"}
        BY <1>4 DEF NamedAt
      <4>3. \A b \in TopBases(s) : b \notin {"", "time", "rand"}
        BY <1>1, TopsAre
      <4> QED
        BY <1>5, <4>1, <4>2, <4>3
    <3> QED
      BY <1>1, <1>3, <1>4, <1>7, <1>9, <2>2, <2>4, <2>6, <3>1, RemoveMine
  <2> QED
    BY <1>3, <2>5, <2>6
<1> QED
  BY <1>6, <1>7, <1>8, <1>9 DEF Sound

\* A moved file keeps its data and comes to its place.
LEMMA MoveSound ==
  ASSUME IInv, Shaped, Rooted, NEW s \in Sessions, NamedAt(s), OkayAt(s), Move(s)
  PROVE  Sound(s)
<1>1. Typed /\ Others(s) /\ StagedAt(s) /\ request' = request
  BY OthersOf DEF IInv, Step, Staged, Move
<1>2. /\ Tops(s)' = Tops(s) /\ TopBases(s)' = TopBases(s) /\ Version(s)' = Version(s)
      /\ \A x : Own(s, x) => Own(s, x)'
  BY <1>1, OthersNames
<1> DEFINE t == tmp[s]
           e == entry[s]
           y == path[s][1]
<1>3. pc[s] = "move" /\ Version(s) # 1 /\ Temporary(s) /\ t # NoName
  BY <1>1 DEF Move, At, StagedAt, InTemp, Temporary, Moving, NamedAt
<1>4. t \in AnyName /\ e \in AnyName /\ y \in AnyName /\ path[s] = <<y>> /\ path[s] \in Paths
  <2>1. path[s] \in Paths /\ Len(path[s]) = 1
    BY <1>1, <1>3 DEF Typed, StagedAt, Paths, NamedAt
  <2>2. y \in AnyName
    BY <2>1, PathTypes
  <2> QED
    BY <1>1, <2>1, <2>2, TopPrefix DEF Typed
<1>5. /\ UNCHANGED <<content, request, k, entry, path, tmp, left, ok, acked>>
      /\ pc'[s] = "next"
      /\ \/ /\ CanRename(disk, <<t, e>>, <<y>>) /\ disk' = Rename(disk, <<t, e>>, <<y>>)
            /\ dest'[s] = dest[s] \cup {y} /\ moved' = moved
         \/ UNCHANGED <<disk, dest>> /\ moved'[s] = FALSE
  <2>1. /\ UNCHANGED <<content, request, k, entry, path, tmp, left, ok, acked>> /\ Goto(s, "next")
        /\ \/ /\ CanRename(disk, <<t, e>>, path[s])
              /\ disk' = Rename(disk, <<t, e>>, path[s])
              /\ dest' = [dest EXCEPT ![s] = @ \cup {y}]
              /\ UNCHANGED moved
           \/ moved' = [moved EXCEPT ![s] = FALSE] /\ UNCHANGED <<disk, dest>>
    BY DEF Move, NotMoved
  <2> HIDE DEF t, e, y
  <2>2. pc'[s] = "next"
    BY <1>1, <2>1 DEF Goto, Typed
  <2>3. CASE /\ CanRename(disk, <<t, e>>, path[s])
             /\ disk' = Rename(disk, <<t, e>>, path[s])
             /\ dest' = [dest EXCEPT ![s] = @ \cup {y}]
             /\ UNCHANGED moved
    <3>1. disk' = Rename(disk, <<t, e>>, <<y>>) /\ dest'[s] = dest[s] \cup {y} /\ moved' = moved
      BY <1>4, <2>1, <2>3 DEF Shaped
    <3> QED
      BY <1>4, <2>1, <2>2, <2>3, <3>1
  <2>4. CASE moved' = [moved EXCEPT ![s] = FALSE] /\ UNCHANGED <<disk, dest>>
    <3>1. UNCHANGED <<disk, dest>> /\ moved'[s] = FALSE
      BY <2>1, <2>4 DEF Shaped
    <3> QED
      BY <2>1, <2>2, <3>1
  <2> QED
    BY <2>1, <2>3, <2>4
<1> HIDE DEF t, e, y
<1> DEFINE src == <<t, e>>
           to == <<y>>
<1>6. /\ src \in Paths
      /\ \A p \in DOMAIN disk : IsPrefix(src, p) <=> Len(p) > 1 /\ p[1] = t /\ p[2] = e
      /\ to \in Paths /\ to[1] = y
      /\ \A p \in DOMAIN disk : p[1] = y /\ Len(p) = 1 => p = to
  BY <1>1, <1>4, PairPrefix, TopPrefix, DiskPaths
<1>7. CanRename(disk, src, to) /\ disk' = Rename(disk, src, to) =>
        /\ t # y /\ src \in DOMAIN disk
        /\ \A r \in DOMAIN disk : ~IsPrefix(src, r) /\ r # to => r \in DOMAIN disk' /\ disk'[r] = disk[r]
        /\ \A r \in DOMAIN disk : IsPrefix(src, r) =>
             \E z \in DOMAIN disk' : z[1] = y /\ disk'[z] = disk[r]
        /\ \A z \in DOMAIN disk' :
             \/ z \in DOMAIN disk /\ ~IsPrefix(src, z) /\ disk'[z] = disk[z]
             \/ /\ z \in Paths /\ z[1] = y
                /\ \E r \in DOMAIN disk : IsPrefix(src, r) /\ disk'[z] = disk[r]
        /\ to \in DOMAIN disk'
        /\ Rooted'
  <2> SUFFICES ASSUME CanRename(disk, <<t, e>>, <<y>>), disk' = Rename(disk, <<t, e>>, <<y>>)
               PROVE  /\ t # y /\ <<t, e>> \in DOMAIN disk
                      /\ \A r \in DOMAIN disk : ~IsPrefix(<<t, e>>, r) /\ r # <<y>> =>
                           r \in DOMAIN disk' /\ disk'[r] = disk[r]
                      /\ \A r \in DOMAIN disk : IsPrefix(<<t, e>>, r) =>
                           \E z \in DOMAIN disk' : z[1] = y /\ disk'[z] = disk[r]
                      /\ \A z \in DOMAIN disk' :
                           \/ z \in DOMAIN disk /\ ~IsPrefix(<<t, e>>, z) /\ disk'[z] = disk[z]
                           \/ /\ z \in Paths /\ z[1] = y
                              /\ \E r \in DOMAIN disk : IsPrefix(<<t, e>>, r) /\ disk'[z] = disk[r]
                      /\ <<y>> \in DOMAIN disk'
                      /\ Rooted'
    OBVIOUS
  <2> QED
    BY <1>1, <1>4, RenameIs
<1>8. \/ /\ CanRename(disk, src, to) /\ disk' = Rename(disk, src, to)
         /\ dest'[s] = dest[s] \cup {y} /\ moved' = moved
      \/ UNCHANGED <<disk, dest>> /\ moved'[s] = FALSE
  BY <1>5
<1> HIDE DEF src, to
<1>9. Rooted'
  BY <1>7, <1>8, RootedSame
<1>10. NamedAt(s)'
  BY <1>2, <1>3, <1>5 DEF NamedAt, Temporary, Before, Filling, Moving
<1>11. OkayAt(s)'
  BY <1>2, <1>3, <1>5 DEF OkayAt, Before, Filling, Ended
<1>12. ASSUME Mine(s) PROVE Confined(s) /\ Mine(s)'
  <2>1. /\ TakesAt(s) /\ FreeAt(s) /\ FilesAt(s) /\ SealedAt(s) /\ VisibleAt(s)
        /\ ~Headless => DestAt(s) /\ HoldsAt(s)
    BY <1>12 DEF Mine, ShownAt
  <2>2. /\ left[s] \subseteq Tops(s) /\ e \in Tops(s) /\ y[2] \in TopBases(s) /\ Own(s, y) /\ Own(s, t)
    BY <1>3, <2>1 DEF TakesAt, Moving, e, y, t, Own
  <2>3. to \notin DOMAIN disk
    BY <1>3, <1>4, <2>1 DEF FreeAt, to
  <2>4. \A x : Own(s, x)' <=> Own(s, x)
    BY <1>2, <1>5 DEF Own
  <2>5. TakesAt(s)' /\ FreeAt(s)' /\ WritesAt(s)' /\ Past(s)' /\ Temporary(s)'
    BY <1>2, <1>3, <1>5, <2>2 DEF TakesAt, FreeAt, WritesAt, Past, Before, Temporary, Moving
  <2>6. CASE UNCHANGED <<disk, dest>> /\ moved'[s] = FALSE
    <3>1. ASSUME ~Headless PROVE HoldsAt(s)'
      <4>1. Received(s)' \subseteq Received(s) /\ \A p : Where(s, p)'
        BY <1>2, <1>3, <1>5, <2>6 DEF Received, Moving, Where
      <4> QED
        BY <1>1, <1>5, <2>1, <2>6, <3>1, <4>1, QuietHolds
    <3> QED
      BY <1>1, <1>3, <1>5, <1>10, <1>12, <2>5, <2>6, <3>1, QuietMine
  <2>7. CASE /\ CanRename(disk, src, to) /\ disk' = Rename(disk, src, to)
             /\ dest'[s] = dest[s] \cup {y} /\ moved' = moved
    <3>1. /\ \A r \in DOMAIN disk : ~IsPrefix(src, r) => r \in DOMAIN disk' /\ disk'[r] = disk[r]
          /\ \A r \in DOMAIN disk : IsPrefix(src, r) =>
               \E z \in DOMAIN disk' : z[1] = y /\ disk'[z] = disk[r]
          /\ \A z \in DOMAIN disk' :
               \/ z \in DOMAIN disk /\ ~IsPrefix(src, z) /\ disk'[z] = disk[z]
               \/ z[1] = y /\ \E r \in DOMAIN disk : IsPrefix(src, r) /\ disk'[z] = disk[r]
          /\ to \in DOMAIN disk' /\ t # y
      BY <1>7, <2>3, <2>7
    <3>2. Confined(s)
      <4>1. \A p \in DOMAIN disk' : ~Own(s, p[1])' => p \in DOMAIN disk /\ disk'[p] = disk[p]
        BY <2>2, <2>4, <3>1
      <4>2. \A p \in DOMAIN disk : ~Own(s, p[1])' => p \in DOMAIN disk'
        BY <1>6, <2>2, <2>4, <3>1
      <4> QED
        BY <1>5, <4>1, <4>2 DEF Confined
    \* a file is a file of before, and one that was moved is whole
    <3>3. ASSUME NEW z \in DOMAIN disk', Own(s, z[1]), Made(z)'
          PROVE  \/ z \in DOMAIN disk /\ Made(z) /\ disk'[z] = disk[z]
                 \/ /\ z[1] = y
                    /\ \E r \in DOMAIN disk : /\ Own(s, r[1]) /\ Made(r) /\ disk'[z] = disk[r]
                                              /\ content[disk[r]] = disk[r]
      <4>1. CASE z \in DOMAIN disk /\ disk'[z] = disk[z]
        BY <3>3, <4>1 DEF Made
      <4>2. ASSUME z[1] = y, NEW r \in DOMAIN disk, IsPrefix(src, r), disk'[z] = disk[r]
            PROVE  Own(s, r[1]) /\ Made(r) /\ content[disk[r]] = disk[r]
        <5>1. r[1] = t /\ Made(r)
          BY <1>6, <3>3, <4>2 DEF Made
        <5>2. content[disk[r]] = disk[r]
          BY <1>3, <2>1, <5>1 DEF SealedAt, t
        <5> QED
          BY <2>2, <5>1, <5>2
      <4> QED
        BY <3>1, <4>1, <4>2
    <3>4. FilesAt(s)'
      <4> SUFFICES ASSUME NEW z \in DOMAIN disk', Own(s, z[1])', Made(z)'
                   PROVE  \E j \in 1..k'[s] : disk'[z] = <<s, j>> /\ (j = k'[s] => Past(s)')
        BY DEF FilesAt
      <4>1. \E r \in DOMAIN disk : Own(s, r[1]) /\ Made(r) /\ disk'[z] = disk[r]
        BY <2>4, <3>3
      <4> QED
        BY <1>5, <2>1, <2>5, <4>1 DEF FilesAt
    <3>5. SealedAt(s)'
      <4> SUFFICES ASSUME NEW z \in DOMAIN disk', z[1] = t
                   PROVE  /\ Len(z) > 1 => z[2] \in Tops(s)
                          /\ Made(z)' => Len(z) > 1 /\ content[disk'[z]] = disk'[z]
        BY <1>2, <1>5 DEF SealedAt, t
      <4>1. z \in DOMAIN disk /\ disk'[z] = disk[z]
        BY <3>1
      <4>2. Made(z)' => Made(z)
        BY <4>1 DEF Made
      <4> QED
        BY <1>3, <2>1, <4>1, <4>2 DEF SealedAt, t
    <3>6. VisibleAt(s)'
      <4> SUFFICES ASSUME NEW z \in DOMAIN disk', Own(s, z[1])', Made(z)'
                   PROVE  content[disk'[z]] = disk'[z] \/ z[1] = t
        BY <1>5 DEF VisibleAt, t
      <4>1. CASE z \in DOMAIN disk /\ Made(z) /\ disk'[z] = disk[z]
        BY <1>3, <2>1, <2>4, <4>1 DEF VisibleAt, t
      <4> QED
        BY <2>4, <3>3, <4>1
    <3>7. ASSUME ~Headless PROVE DestAt(s)'
      <4>1. ASSUME NEW x \in dest[s] PROVE <<x>> \in DOMAIN disk' /\ x[2] \in TopBases(s)
        <5>1. <<x>> \in DOMAIN disk /\ x[2] \in TopBases(s)
          BY <2>1, <3>7 DEF DestAt
        <5>2. Len(<<x>>) = 1
          OBVIOUS
        <5> HIDE DEF src
        <5>3. ~IsPrefix(src, <<x>>)
          BY <1>6, <5>1, <5>2
        <5> QED
          BY <3>1, <5>1, <5>3
      <4>2. <<y>> \in DOMAIN disk'
        BY <3>1 DEF to
      <4> QED
        BY <1>2, <2>2, <2>7, <4>1, <4>2 DEF DestAt
    <3>8. ASSUME ~Headless PROVE HoldsAt(s)'
      <4>1. Received(s)' \subseteq Received(s)
        BY <1>2, <1>3, <1>5, <2>7 DEF Received, Moving
      <4>2. ASSUME NEW i \in 1..Len(request[s].entries), NEW p \in DOMAIN disk, Stored(s, i, p)
            PROVE  \E z \in DOMAIN disk' : Stored(s, i, z)' /\ (Where(s, p) => Where(s, z)')
        <5>1. /\ disk[p] = <<s, i>> /\ content[<<s, i>>] = <<s, i>> /\ Own(s, p[1]) /\ Made(p)
          <6>1. disk[p] = <<s, i>> /\ i \in Nat \ {0} /\ content[<<s, i>>] = <<s, i>> /\ Own(s, p[1])
            BY <1>1, <4>2, RequestLen DEF Stored
          <6> QED
            BY <1>1, <6>1, Inodes DEF Made
        <5>2. CASE IsPrefix(src, p)
          <6>1. PICK z \in DOMAIN disk' : z[1] = y /\ disk'[z] = disk[p]
            BY <3>1, <5>2
          <6>2. Stored(s, i, z)'
            BY <1>5, <2>2, <2>4, <5>1, <6>1 DEF Stored
          <6>3. Where(s, z)'
            BY <2>7, <6>1 DEF Where
          <6> QED
            BY <6>1, <6>2, <6>3
        <5>3. CASE ~IsPrefix(src, p)
          <6>1. p \in DOMAIN disk' /\ disk'[p] = disk[p]
            BY <3>1, <5>3
          <6>2. Stored(s, i, p)'
            BY <1>5, <2>4, <5>1, <6>1 DEF Stored
          <6>3. ASSUME Where(s, p) PROVE Where(s, p)'
            <7>1. CASE p[1] \in dest[s]
              BY <2>7, <7>1 DEF Where
            <7>2. CASE p[1] = t /\ p[2] \in left[s] \cup {e}
              <8>1. Len(p) > 1
                BY <1>3, <2>1, <5>1, <7>2 DEF SealedAt, t
              <8>2. p[2] # e
                BY <1>6, <5>3, <7>2, <8>1
              <8>3. p[2] \in left[s]
                BY <7>2, <8>2
              <8> QED
                BY <1>5, <7>2, <8>3 DEF Where, Filling, Moving, t
            <7>3. CASE ~moved[s]
              BY <2>7, <7>3 DEF Where
            <7> QED
              BY <1>3, <6>3, <7>1, <7>2, <7>3 DEF Where, t, e
          <6> QED
            BY <6>1, <6>2, <6>3
        <5> QED
          BY <5>2, <5>3
      <4> QED
        BY <1>5, <2>1, <3>8, <4>1, <4>2, HoldsKeeps
    <3> QED
      BY <2>5, <3>2, <3>4, <3>5, <3>6, <3>7, <3>8 DEF Mine, ShownAt
  <2> QED
    BY <1>8, <2>6, <2>7
<1> QED
  BY <1>9, <1>10, <1>11, <1>12 DEF Sound

-----------------------------------------------------------------------------
(* The invariant of sessions that share no name.                           *)

SInv == IInv /\ Shaped /\ Rooted /\ Separate

LEMMA InitSInv == Init => SInv
<1> SUFFICES ASSUME Init PROVE SInv
  OBVIOUS
<1>1. IInv
  BY InitIInv
<1>2. Shaped
  BY DEF Init, Shaped
<1>3. /\ DOMAIN disk = {<<Name(x)>> : x \in Existing} /\ \A p \in DOMAIN disk : disk[p] = User
      /\ \A s \in Sessions : /\ pc[s] = "new" /\ k[s] = 1 /\ tmp[s] = NoName /\ dest[s] = {}
                             /\ ok[s] = TRUE /\ acked[s] = FALSE
  BY DEF Init
<1>4. Rooted
  <2>1. \A x \in Existing : Name(x) \in AnyName
    BY NameTypes
  <2> SUFFICES ASSUME NEW p \in DOMAIN disk, NEW q \in Paths, IsPrefix(q, p), q # p
               PROVE  FALSE
    BY DEF Rooted
  <2>2. PICK x \in Existing : p = <<Name(x)>>
    BY <1>3
  <2> QED
    BY <2>1, <2>2, TopPrefix
<1>5. \A p : ~Made(p)
  BY <1>3 DEF Made
<1>6. ASSUME NEW s \in Sessions PROVE NamedAt(s) /\ OkayAt(s) /\ ShownAt(s) /\ DestAt(s) /\ HoldsAt(s)
  <2>1. ~Temporary(s)
    BY <1>3 DEF Temporary, Filling, Moving
  <2>2. NamedAt(s)
    BY <1>3, <2>1 DEF NamedAt, Before
  <2>3. OkayAt(s)
    BY <1>3 DEF OkayAt, Before, Filling
  <2>4. TakesAt(s) /\ FreeAt(s) /\ WritesAt(s)
    BY <1>3 DEF TakesAt, FreeAt, WritesAt, Moving
  <2>5. FilesAt(s) /\ SealedAt(s) /\ VisibleAt(s)
    BY <1>5, <2>1 DEF FilesAt, SealedAt, VisibleAt
  <2>6. Received(s) = {}
    BY <1>3 DEF Received, Moving
  <2>7. DestAt(s) /\ HoldsAt(s)
    BY <1>3, <2>6 DEF DestAt, HoldsAt
  <2> QED
    BY <2>2, <2>3, <2>4, <2>5, <2>7 DEF ShownAt
<1>7. Owned
  BY <1>5 DEF Owned
<1> QED
  BY <1>1, <1>2, <1>4, <1>6, <1>7 DEF SInv, Separate

LEMMA StepSound ==
  ASSUME IInv, Shaped, Rooted, NEW s \in Sessions, NamedAt(s), OkayAt(s),
         Begin(s) \/ Step(s) \/ LoseSelection(s) \/ Kill(s)
  PROVE  Sound(s)
BY BeginSound, ListOldSound, WipeSound, NameSound, TempTakenSound, TempFreeSound,
   MakeTempSound, FilePlaceSound, RefusedSound, OpenFileSound, MakeDirectorySound,
   DataReceivedSound, DataFailedSound, AckSound, ListTempSound, NextEntrySound, MoveSound,
   RemoveTempSound, EndSound
DEF Step

LEMMA NextSInv ==
  ASSUME SInv, [Next]_vars
  PROVE  SInv'
<1>1. IInv'
  BY NextIInv DEF SInv
<1>2. CASE UNCHANGED vars
  <2>1. UNCHANGED <<disk, content, request, pc, k, entry, path, inode, tmp, left, dest, ok, moved, acked>>
    BY <1>2 DEF vars, locals
  <2>2. Shaped' /\ Rooted'
    BY <2>1 DEF SInv, Shaped, Rooted
  <2>3. \A s \in Sessions : (NamedAt(s) /\ OkayAt(s))'
    <3> TAKE s \in Sessions
    <3>1. NamedAt(s) /\ OkayAt(s)
      BY DEF SInv, Separate
    <3>2. NamedAt(s)' <=> NamedAt(s)
      BY <2>1 DEF NamedAt, Temporary, Version, TopBases, Tops, Before, Filling, Moving
    <3>3. OkayAt(s)' <=> OkayAt(s)
      BY <2>1 DEF OkayAt, Version, Before, Filling
    <3> QED
      BY <3>1, <3>2, <3>3
  <2>4. \A s \in Sessions : Others(s) /\ Confined(s)
    BY <2>1 DEF Others, Confined
  <2>5. \A s \in Sessions : Mine(s) => Mine(s)'
    <3> TAKE s \in Sessions
    <3>1. /\ Tops(s)' = Tops(s) /\ TopBases(s)' = TopBases(s) /\ Version(s)' = Version(s)
          /\ \A x : Own(s, x)' <=> Own(s, x)
      BY <2>1 DEF Tops, TopBases, Version, Own
    <3>2. (Temporary(s)' <=> Temporary(s)) /\ (Past(s)' <=> Past(s)) /\ Upload(s)' = Upload(s)
      BY <2>1, <3>1 DEF Temporary, Past, Upload
    <3>3. \A p : Made(p)' <=> Made(p)
      BY <2>1 DEF Made
    <3>4. TakesAt(s)' <=> TakesAt(s)
      BY <2>1, <3>1 DEF TakesAt
    <3>5. (FreeAt(s)' <=> FreeAt(s)) /\ (WritesAt(s)' <=> WritesAt(s))
      BY <2>1, <3>2 DEF FreeAt, WritesAt
    <3>6. FilesAt(s)' <=> FilesAt(s)
      BY <2>1, <3>1, <3>2, <3>3 DEF FilesAt
    <3>7. SealedAt(s)' <=> SealedAt(s)
      BY <2>1, <3>1, <3>2, <3>3 DEF SealedAt
    <3>8. VisibleAt(s)' <=> VisibleAt(s)
      BY <2>1, <3>1, <3>3 DEF VisibleAt
    <3>9. DestAt(s)' <=> DestAt(s)
      BY <2>1, <3>1 DEF DestAt
    <3>10. \A i, p : (Stored(s, i, p)' <=> Stored(s, i, p)) /\ (Where(s, p)' <=> Where(s, p))
      BY <2>1, <3>1 DEF Stored, Where
    <3>11. Received(s)' = Received(s)
      BY <2>1, <3>1 DEF Received
    <3>12. HoldsAt(s)' <=> HoldsAt(s)
      BY <2>1, <3>10, <3>11 DEF HoldsAt
    <3> QED
      BY <3>4, <3>5, <3>6, <3>7, <3>8, <3>9, <3>12 DEF Mine, ShownAt
  <2>6. Separate'
    <3>1. Overlap' <=> Overlap
      <4>1. \A s \in Sessions : Tops(s)' = Tops(s)
        BY <2>1 DEF Tops
      <4> QED
        BY <2>1, <4>1 DEF Overlap
    <3>2. Owned => Owned'
      <4>1. \A s \in Sessions : \A x : Own(s, x) => Own(s, x)'
        BY <2>4, OthersNames
      <4>2. \A p : Made(p)' <=> Made(p)
        BY <2>1 DEF Made
      <4> QED
        BY <2>1, <4>1, <4>2 DEF Owned
    <3> QED
      BY <2>3, <2>5, <3>1, <3>2 DEF SInv, Separate, Mine
  <2> QED
    BY <1>1, <2>2, <2>6 DEF SInv
<1>3. ASSUME NEW s \in Sessions, Begin(s) \/ Step(s) \/ LoseSelection(s) \/ Kill(s)
      PROVE  SInv'
  <2>1. Typed /\ Staged /\ Separate /\ Shaped /\ NamedAt(s) /\ OkayAt(s)
    BY DEF SInv, IInv, Separate
  <2>2. Others(s) /\ Shaped'
    BY <1>3, <2>1, OthersOf, NextShaped
  <2>3. Sound(s)
    BY <1>3, <2>1, StepSound DEF SInv
  <2>4. ~Overlap => Mine(s)
    BY <2>1 DEF Separate, Mine
  <2>5. Separate'
    BY <2>1, <2>2, <2>3, <2>4, SeparateKeeps DEF Sound
  <2> QED
    BY <1>1, <2>2, <2>3, <2>5 DEF SInv, Sound
<1> QED
  BY <1>2, <1>3 DEF Next

\* A file of a request is a file: none of the marks of the tree stands for it.
LEMMA StoredWhole ==
  ASSUME Typed, Shaped, NEW s \in Sessions, NEW i \in 1..Len(request[s].entries),
         NEW p \in DOMAIN disk, Stored(s, i, p), <<s, i>> \notin lost
  PROVE  p \in Whole(<<s, i>>)
<1>1. disk[p] = <<s, i>> /\ content[<<s, i>>] = <<s, i>> /\ i \in Nat \ {0}
  BY RequestLen DEF Stored
<1>2. disk[p] \notin {Dir, User}
  BY <1>1, Inodes
<1> QED
  BY <1>1, <1>2 DEF Whole

\* Outside the temporary directories a file is whole, unless a session of
\* version 1 is still receiving it or was killed at it, or fclose() could not
\* write its end, as long as the sessions share no name; and no file is ever
\* left without its directory.
\* _save_file_common(), clean_temp_dir() and the removals of send_file_v1() and
\* _send_files_dirs().
THEOREM VisibleFilesAreWholeHolds == Spec => []VisibleFilesAreWhole
<1>1. Init => SInv
  BY InitSInv
<1>2. SInv /\ [Next]_vars => SInv'
  BY NextSInv
<1>3. SInv => VisibleFilesAreWhole
  <2> SUFFICES ASSUME SInv PROVE VisibleFilesAreWhole
    OBVIOUS
  <2>0. Typed /\ Rooted /\ Separate
    BY DEF SInv, IInv
  <2>1. ASSUME NEW p \in DOMAIN disk PROVE IsDir(disk, Front(p))
    <3>1. p \in Paths
      BY <2>0, DiskPaths
    <3>2. Front(p) \in Seq(AnyName) /\ Front(p) # p /\ IsPrefix(Front(p), p)
      BY <3>1, FrontIs
    <3>3. CASE Front(p) = <<>>
      BY <3>3 DEF IsDir
    <3>4. CASE Front(p) # <<>>
      BY <2>0, <3>2, <3>4 DEF Paths, Rooted, IsDir
    <3> QED
      BY <3>3, <3>4
  <2>2. ASSUME ~Overlap, NEW p \in DOMAIN disk
        PROVE  \/ disk[p] \in {Dir, User} \/ p \in Whole(disk[p]) \/ disk[p] \in lost
               \/ \E s \in Sessions : p[1] = tmp[s]
               \/ \E s \in Sessions :
                    Version(s) = 1 /\ path[s] = p /\ pc[s] \in {"data", "killed"}
    <3>1. CASE ~Made(p)
      BY <3>1 DEF Made
    <3>2. CASE Made(p)
      <4>1. PICK s \in Sessions : Own(s, p[1])
        BY <2>0, <2>2, <3>2 DEF Separate, Owned
      <4>2. VisibleAt(s)
        BY <2>0, <2>2 DEF Separate, ShownAt
      <4> QED
        BY <3>2, <4>1, <4>2 DEF VisibleAt, Whole, Made
    <3> QED
      BY <3>1, <3>2
  <2> QED
    BY <2>1, <2>2 DEF VisibleFilesAreWhole
<1> QED
  BY <1>1, <1>2, <1>3, PTL DEF Spec

\* When the handler reports success, every file the client sent is whole but for
\* those that fclose() could not write, and unless an entry could not be moved it
\* is in its place, and so are the paths put on the clipboard, as long as the
\* sessions share no name: the status of send_file_v1() and _send_files_dirs().
THEOREM DeliveredHolds == Spec => []Delivered
<1>1. Init => SInv
  BY InitSInv
<1>2. SInv /\ [Next]_vars => SInv'
  BY NextSInv
<1>3. SInv => Delivered
  <2> SUFFICES ASSUME SInv, NEW s \in Sessions, ok[s], pc[s] \in {"cut", "own", "done"},
                      ~Overlap, ~Headless
               PROVE  /\ \A u \in Uploads(s) \ lost :
                           Whole(u) # {} /\ (moved[s] => \E p \in Whole(u) : p[1] \in dest[s])
                      /\ \A x \in dest[s] : Exists(disk, <<x>>)
    BY DEF Delivered
  <2>1. Typed /\ Shaped /\ HoldsAt(s) /\ DestAt(s)
    BY DEF SInv, IInv, Separate
  <2>2. \A x \in dest[s] : Exists(disk, <<x>>)
    BY <2>1 DEF DestAt, Exists
  <2>3. ASSUME NEW u \in Uploads(s) \ lost
        PROVE  Whole(u) # {} /\ (moved[s] => \E p \in Whole(u) : p[1] \in dest[s])
    <3>1. PICK i \in 1..Len(request[s].entries) : u = <<s, i>> /\ ~request[s].entries[i].dir
      BY DEF Uploads
    <3>2. i \in Received(s)
      BY <3>1 DEF Received
    <3>3. PICK p \in DOMAIN disk : Stored(s, i, p) /\ Where(s, p)
      BY <2>1, <3>2 DEF HoldsAt
    <3>4. moved[s] => p[1] \in dest[s]
      BY <3>3 DEF Where, Filling, Moving
    <3>5. p \in Whole(<<s, i>>)
      BY <2>1, <3>1, <3>3, StoredWhole
    <3> QED
      BY <3>1, <3>4, <3>5
  <2> QED
    BY <2>2, <2>3
<1> QED
  BY <1>1, <1>2, <1>3, PTL DEF Spec

\* What version 4 has acknowledged is somewhere below the working directory,
\* whole but for what fclose() could not write, also when the session fails or
\* is killed later, as long as the sessions share no name: _send_ack() comes
\* before clean_temp_dir().
THEOREM AcknowledgedFilesKeptHolds == Spec => []AcknowledgedFilesKept
<1>1. Init => SInv
  BY InitSInv
<1>2. SInv /\ [Next]_vars => SInv'
  BY NextSInv
<1>3. SInv => AcknowledgedFilesKept
  <2> SUFFICES ASSUME SInv, ~Overlap, ~Headless, NEW s \in Sessions, acked[s],
                      NEW u \in Uploads(s) \ lost
               PROVE  Whole(u) # {}
    BY DEF AcknowledgedFilesKept
  <2>1. Typed /\ Shaped /\ HoldsAt(s)
    BY DEF SInv, IInv, Separate
  <2>2. PICK i \in 1..Len(request[s].entries) : u = <<s, i>> /\ ~request[s].entries[i].dir
    BY DEF Uploads
  <2>3. PICK p \in DOMAIN disk : Stored(s, i, p)
    BY <2>1, <2>2 DEF HoldsAt
  <2>4. p \in Whole(<<s, i>>)
    BY <2>1, <2>2, <2>3, StoredWhole
  <2> QED
    BY <2>2, <2>4
<1> QED
  BY <1>1, <1>2, <1>3, PTL DEF Spec

=============================================================================
