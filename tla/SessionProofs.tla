---------------------------- MODULE SessionProofs ----------------------------
(***************************************************************************)
(* Proofs about Session for every range of versions, every set of enabled  *)
(* methods, every peer, and whatever other programs copy meanwhile.        *)
(***************************************************************************)
EXTENDS Session, SequenceTheorems, TLAPS

Content == {"size", "data", "file", "type", "ack"}

\* The operations of the methods' handlers.
Writes == {Write(x) : x \in {"OK"} \cup Content}
Looks == {Look(x) : x \in {"text", "files", "image", "screen", "image_or_screen",
                           "type", "any_text", "any_files", "any_image"}}
Reads == {Read(x) : x \in {"length", "text", "files", "display", "ack"}}
Tries == {Try(x) : x \in {"NO_DATA", "UNKNOWN_METHOD", "NOT_IMPLEMENTED"}}
Puts == {Put("text"), Put("files")}
HandlerOps == Writes \cup Looks \cup Reads \cup Tries \cup Puts \cup {Close, Own}

\* What may come after what: nothing uses a socket that is closed, nothing
\* but closing it follows a rejection, the answer to a look is put in front
\* of what is left, and who reads a text does not cut files.
Follows(a, b) ==
  /\ a.op = "close" => b.op = "put"
  /\ a.op = "try" => b.op = "close"
  /\ a.op = "look" => b.op \in {"read", "close"}
  /\ a.op = "read" /\ a.arg = "text" => ~(b.op = "put" /\ b.arg = "files")

Script(s) ==
  /\ s \in Seq(HandlerOps)
  /\ \A x, y \in 1..Len(s) : x < y => Follows(s[x], s[y])

IsContent(o) == o.op = "write" /\ o.arg \in Content

\* a script that says OK before it sends anything
Backed(s) == \A x \in 1..Len(s) : IsContent(s[x]) => s[1] = Write("OK")

\* the first part of an answer
Opening(s) ==
  /\ Script(s) /\ s # <<>> /\ Backed(s)
  /\ \A x \in 1..Len(s) : s[x].op \in {"write", "read", "look"}

\* what is left of it after a look
Closing(s) ==
  /\ Script(s)
  /\ \A x \in 1..Len(s) : s[x].op \in {"read", "close"}

-----------------------------------------------------------------------------
(* Scripts.                                                                *)

LEMMA OpFields ==
  /\ \A x : /\ Write(x).op = "write" /\ Write(x).arg = x
            /\ Try(x).op = "try" /\ Try(x).arg = x
            /\ Read(x).op = "read" /\ Read(x).arg = x
            /\ Look(x).op = "look" /\ Look(x).arg = x
            /\ Put(x).op = "put" /\ Put(x).arg = x
  /\ Close.op = "close" /\ Own.op = "own"
BY DEF Write, Try, Read, Look, Close, Put, Own

\* What is left of a script is a script.
LEMMA TailScript ==
  ASSUME NEW s, Script(s), s # <<>>
  PROVE  /\ Script(Tail(s)) /\ Len(s) \in Nat \ {0} /\ Len(Tail(s)) = Len(s) - 1
         /\ Head(s) = s[1] /\ s[1] \in HandlerOps
         /\ \A x \in 1..Len(Tail(s)) : /\ Tail(s)[x] = s[x + 1]
                                       /\ x + 1 \in 1..Len(s)
                                       /\ Follows(Head(s), Tail(s)[x])
<1>1. s \in Seq(HandlerOps) /\ Len(s) \in Nat \ {0}
  BY EmptySeq DEF Script
<1>2. /\ Tail(s) \in Seq(HandlerOps) /\ Len(Tail(s)) = Len(s) - 1
      /\ \A x \in 1..Len(Tail(s)) : Tail(s)[x] = s[x + 1]
  BY <1>1, HeadTailProperties
<1>3. Head(s) = s[1] /\ s[1] \in HandlerOps
  BY <1>1, ElementOfSeq
<1>4. \A x \in 1..Len(Tail(s)) : x + 1 \in 1..Len(s)
  BY <1>1, <1>2
<1>5. ASSUME NEW x \in 1..Len(Tail(s)), NEW y \in 1..Len(Tail(s)), x < y
      PROVE  Follows(Tail(s)[x], Tail(s)[y])
  <2>1. x + 1 \in 1..Len(s) /\ y + 1 \in 1..Len(s) /\ x + 1 < y + 1
    BY <1>1, <1>4, <1>5
  <2> QED
    BY <1>2, <2>1 DEF Script
<1>6. \A x \in 1..Len(Tail(s)) : Follows(Head(s), Tail(s)[x])
  <2> TAKE x \in 1..Len(Tail(s))
  <2>1. 1 \in 1..Len(s) /\ x + 1 \in 1..Len(s) /\ 1 < x + 1
    BY <1>1, <1>4
  <2>2. Follows(s[1], s[x + 1])
    BY <2>1 DEF Script
  <2> QED
    BY <1>2, <1>3, <2>2
<1> QED
  BY <1>1, <1>2, <1>3, <1>4, <1>5, <1>6 DEF Script

\* An answer and what is left make a script.
LEMMA OpeningConcat ==
  ASSUME NEW s, NEW t, Opening(s), Closing(t)
  PROVE  /\ Script(s \o t) /\ Backed(s \o t) /\ s \o t # <<>>
         /\ \A x \in 1..Len(s \o t) : (s \o t)[x].op # "put"
<1> DEFINE st == s \o t
<1>1. /\ s \in Seq(HandlerOps) /\ t \in Seq(HandlerOps)
      /\ Len(s) \in Nat \ {0} /\ Len(t) \in Nat
  BY EmptySeq, LenProperties DEF Opening, Closing, Script
<1>2. /\ st \in Seq(HandlerOps) /\ Len(st) = Len(s) + Len(t)
      /\ \A x \in 1..(Len(s) + Len(t)) : st[x] =
           IF x <= Len(s) THEN s[x] ELSE t[x - Len(s)]
  BY <1>1, ConcatProperties
<1> HIDE DEF st
<1>3. \A x \in 1..Len(st) :
        \/ x \in 1..Len(s) /\ st[x] = s[x]
        \/ x \notin 1..Len(s) /\ x - Len(s) \in 1..Len(t) /\ st[x] = t[x - Len(s)]
  BY <1>1, <1>2
<1>4. ASSUME NEW x \in 1..Len(st), NEW y \in 1..Len(st), x < y
      PROVE  Follows(st[x], st[y])
  <2>1. CASE x \in 1..Len(s) /\ y \in 1..Len(s)
    BY <1>3, <1>4, <2>1 DEF Opening, Script
  <2>2. CASE x \in 1..Len(s) /\ y \notin 1..Len(s)
    <3>1. st[x].op \in {"write", "read", "look"} /\ st[y].op \in {"read", "close"}
      BY <1>3, <2>2 DEF Opening, Closing
    <3> QED
      BY <3>1 DEF Follows
  <2>3. CASE x \notin 1..Len(s) /\ y \notin 1..Len(s)
    <3>1. x - Len(s) < y - Len(s)
      BY <1>1, <1>2, <1>4
    <3> QED
      BY <1>3, <2>3, <3>1 DEF Closing, Script
  <2>4. ~(x \notin 1..Len(s) /\ y \in 1..Len(s))
    BY <1>1, <1>2, <1>4
  <2> QED
    BY <2>1, <2>2, <2>3, <2>4
<1>5. \A x \in 1..Len(st) : st[x].op \in {"write", "read", "look", "close"}
  BY <1>3 DEF Opening, Closing
<1>6. Backed(st)
  <2>1. 1 \in 1..Len(st) /\ 1 \in 1..Len(s) /\ st[1] = s[1]
    BY <1>1, <1>2
  <2> QED
    BY <1>3, <2>1 DEF Backed, Opening, Closing, IsContent
<1>7. st # <<>>
  BY <1>1, <1>2, EmptySeq
<1> QED
  BY <1>2, <1>4, <1>5, <1>6, <1>7 DEF st, Script

\* OK and the contents open an answer.
LEMMA ContentOpens ==
  ASSUME NEW s \in Seq({Write(x) : x \in Content})
  PROVE  Opening(<<Write("OK")>> \o s)
<1> DEFINE ok == <<Write("OK")>>
           st == ok \o s
<1>1. ok \in Seq(Writes) /\ Len(ok) = 1 /\ ok[1] = Write("OK")
  BY DEF Writes
<1>2. s \in Seq(Writes) /\ Len(s) \in Nat
  BY SeqMonotonic, LenProperties DEF Writes
<1>3. /\ st \in Seq(Writes) /\ Len(st) = Len(ok) + Len(s)
      /\ \A x \in 1..(Len(ok) + Len(s)) : st[x] =
           IF x <= Len(ok) THEN ok[x] ELSE s[x - Len(ok)]
  <2> HIDE DEF ok
  <2> QED
    BY <1>1, <1>2, ConcatProperties
<1>4. Len(st) = 1 + Len(s) /\ st[1] = Write("OK")
  BY <1>1, <1>2, <1>3
<1>5. st \in Seq(HandlerOps) /\ st # <<>>
  <2> HIDE DEF st
  <2> QED
  BY <1>2, <1>3, <1>4, SeqMonotonic, EmptySeq DEF HandlerOps
<1> HIDE DEF ok, st
<1>6. \A x \in 1..Len(st) : st[x] \in Writes
  BY <1>3, ElementOfSeq
<1>7. \A x \in 1..Len(st) : st[x].op = "write"
  BY <1>6 DEF Writes, Write
<1> QED
  BY <1>4, <1>5, <1>7 DEF st, ok, Opening, Script, Backed, Follows

\* What is done once the data of an answer is sent closes a script.
LEMMA AckCloses ==
  ASSUME NEW v \in 1..4
  PROVE  Closing(AckV4(v))
<1>1. CASE v >= 4
  <2> DEFINE s == <<Read("ack"), Close>>
  <2>1. Read("ack") \in HandlerOps /\ Close \in HandlerOps
    BY DEF HandlerOps, Reads
  <2>2. s \in Seq(HandlerOps) /\ Len(s) = 2
    BY <2>1
  <2>3. s[1].op = "read" /\ s[2].op = "close"
    BY OpFields
  <2> HIDE DEF s
  <2>4. \A x \in 1..2 : s[x].op \in {"read", "close"}
    BY <2>3
  <2>5. \A x, y \in 1..2 : x < y => Follows(s[x], s[y])
    BY <2>3 DEF Follows
  <2> QED
    BY <1>1, <2>2, <2>4, <2>5 DEF s, AckV4, Closing, Script
<1>2. CASE ~(v >= 4)
  BY <1>2 DEF AckV4, Closing, Script
<1> QED
  BY <1>1, <1>2

\* The data sent by the methods is content.
LEMMA DataIsContent ==
  LET files == <<Write("size")>> \o Data \o File IN
  /\ Data \in Seq({Write(x) : x \in Content})
  /\ files \in Seq({Write(x) : x \in Content})
  /\ <<Write("type")>> \o Data \in Seq({Write(x) : x \in Content})
  /\ <<Write("type")>> \o files \in Seq({Write(x) : x \in Content})
<1> DEFINE C == {Write(x) : x \in Content}
           size == <<Write("size")>>
           type == <<Write("type")>>
           named == size \o Data
           files == named \o File
<1>1. Data \in Seq(C) /\ File \in Seq(C) /\ size \in Seq(C) /\ type \in Seq(C)
  BY DEF Data, File, Content
<1> HIDE DEF C, size, type
<1>2. named \in Seq(C)
  BY <1>1, ConcatProperties
<1> HIDE DEF named
<1>3. files \in Seq(C) /\ type \o Data \in Seq(C)
  BY <1>1, <1>2, ConcatProperties
<1> HIDE DEF files
<1>4. type \o files \in Seq(C)
  BY <1>1, <1>3, ConcatProperties
<1> QED
  BY <1>1, <1>3, <1>4 DEF C, size, type, named, files

\* A rejection: the peer is told and released.
Refusal(s) ==
  /\ Script(s) /\ s # <<>>
  /\ \A x \in 1..Len(s) : s[x].op \in {"try", "close"}

LEMMA Refusals ==
  ASSUME NEW r \in {"NO_DATA", "UNKNOWN_METHOD", "NOT_IMPLEMENTED"}
  PROVE  Refusal(<<Try(r), Close>>) /\ Refusal(<<Try(r)>>)
<1> DEFINE s == <<Try(r), Close>>
           t == <<Try(r)>>
<1>1. s \in Seq(HandlerOps) /\ t \in Seq(HandlerOps)
  BY DEF HandlerOps, Tries
<1>2. Len(s) = 2 /\ Len(t) = 1 /\ s # <<>> /\ t # <<>>
  OBVIOUS
<1>3. s[1].op = "try" /\ s[2].op = "close" /\ t[1].op = "try"
  BY OpFields
<1> HIDE DEF s, t
<1>4. \A x \in 1..2 : s[x].op \in {"try", "close"}
  BY <1>3
<1>5. \A x, y \in 1..2 : x < y => Follows(s[x], s[y])
  BY <1>3 DEF Follows
<1>6. \A x, y \in 1..1 : ~(x < y)
  OBVIOUS
<1>7. \A x \in 1..1 : t[x].op \in {"try", "close"}
  BY <1>3
<1> QED
  BY <1>1, <1>2, <1>4, <1>5, <1>6, <1>7 DEF s, t, Refusal, Script

LEMMA RefusalIsBacked ==
  ASSUME NEW s, Refusal(s)
  PROVE  Script(s) /\ Backed(s) /\ \A x \in 1..Len(s) : s[x].op # "put"
BY DEF Refusal, Backed, IsContent

\* The second look of a GET_ANY, the answer to it and the acknowledgement.
LEMMA AnyOfScript ==
  ASSUME NEW t \in {"any_text", "any_files", "any_image"}
  PROVE  LET s == AnyOf(t) IN
         /\ Script(s) /\ Backed(s)
         /\ \A y \in 1..Len(s) : s[y].op # "put"
<1> DEFINE s == AnyOf(t)
<1>1. Look(t) \in HandlerOps /\ Read("ack") \in HandlerOps /\ Close \in HandlerOps
  BY DEF HandlerOps, Looks, Reads
<1>2. s \in Seq(HandlerOps) /\ Len(s) = 3
  BY <1>1 DEF AnyOf
<1>3. s[1].op = "look" /\ s[2].op = "read" /\ s[3].op = "close"
  BY OpFields DEF AnyOf
<1> HIDE DEF s
<1>4. \A y \in 1..3 : y = 1 \/ y = 2 \/ y = 3
  OBVIOUS
<1>5. \A y \in 1..Len(s) : s[y].op \in {"look", "read", "close"}
  BY <1>2, <1>3, <1>4
<1>6. Follows(s[1], s[2]) /\ Follows(s[1], s[3]) /\ Follows(s[2], s[3])
  BY <1>3 DEF Follows
<1>7. \A y, z \in 1..Len(s) : y < z => Follows(s[y], s[z])
  BY <1>2, <1>4, <1>6
<1> QED
  BY <1>2, <1>5, <1>7 DEF s, Script, Backed, IsContent

\* Whatever the clipboard holds, a look at it is answered with OK and the
\* contents or with a refusal.
LEMMA LookedScript ==
  ASSUME NEW x, Look(x) \in Looks, NEW shot \in BOOLEAN, NEW rest, Closing(rest)
  PROVE  LET s == Looked(x, shot, rest) IN
         /\ Script(s) /\ Backed(s)
         /\ \A y \in 1..Len(s) : s[y].op # "put"
<1> DEFINE Good(s) == /\ Script(s) /\ Backed(s)
                      /\ \A y \in 1..Len(s) : s[y].op # "put"
           files == <<Write("size")>> \o Data \o File
           ok(present, answer) == IF present THEN <<Write("OK")>> \o answer \o rest ELSE NoData
<1>1. x \in {"text", "files", "image", "screen", "image_or_screen",
             "type", "any_text", "any_files", "any_image"}
  BY DEF Look, Looks
<1>2. ASSUME NEW answer \in Seq({Write(c) : c \in Content})
      PROVE  Good(<<Write("OK")>> \o answer \o rest)
  BY ContentOpens, OpeningConcat, <1>2
<1>3. Good(NoData) /\ Good(<<Try("NO_DATA")>>)
  BY Refusals, RefusalIsBacked DEF NoData
<1>4. Good(AnyOf("any_text")) /\ Good(AnyOf("any_files")) /\ Good(AnyOf("any_image"))
  BY AnyOfScript
<1>5. /\ Data \in Seq({Write(c) : c \in Content})
      /\ files \in Seq({Write(c) : c \in Content})
      /\ <<Write("type")>> \o Data \in Seq({Write(c) : c \in Content})
      /\ <<Write("type")>> \o files \in Seq({Write(c) : c \in Content})
  BY DataIsContent
<1> HIDE DEF Good
<1>6. \A p \in BOOLEAN : \A a \in Seq({Write(c) : c \in Content}) : Good(ok(p, a))
  BY <1>2, <1>3
<1> HIDE DEF files, ok
<1>7. /\ \A p \in BOOLEAN : Good(ok(p, Data)) /\ Good(ok(p, files))
      /\ \A p \in BOOLEAN : /\ Good(ok(p, <<Write("type")>> \o Data))
                             /\ Good(ok(p, <<Write("type")>> \o files))
  BY <1>5, <1>6
<1>8. Good(Looked(x, shot, rest))
  <2> DEFINE holds(kind) == display /\ clip = kind
             screen == display /\ shot
             s == Looked(x, shot, rest)
  <2>1. x = "text" => s = ok(holds("text"), Data)
    BY DEF Looked, ok
  <2>2. x = "files" => s = ok(holds("files"), files)
    BY DEF Looked, ok, files
  <2>3. x = "image" => s = ok(holds("image"), Data)
    BY DEF Looked, ok
  <2>4. x = "screen" => s = ok(screen, Data)
    BY DEF Looked, ok
  <2>5. x = "image_or_screen" => s = ok(holds("image") \/ screen, Data)
    BY DEF Looked, ok
  <2>6. x = "any_text" => s = ok(holds("text"), <<Write("type")>> \o Data)
    BY DEF Looked, ok
  <2>7. x = "any_files" => s = ok(holds("files"), <<Write("type")>> \o files)
    BY DEF Looked, ok, files
  <2>8. x = "any_image" => s = ok(holds("image"), <<Write("type")>> \o Data)
    BY DEF Looked, ok
  <2>9. x = "type" => s \in {AnyOf("any_text"), AnyOf("any_files"), AnyOf("any_image"),
                             <<Try("NO_DATA")>>}
    BY DEF Looked
  <2> HIDE DEF s
  <2>10. /\ holds("text") \in BOOLEAN /\ holds("files") \in BOOLEAN
         /\ holds("image") \in BOOLEAN /\ screen \in BOOLEAN
         /\ (holds("image") \/ screen) \in BOOLEAN
    OBVIOUS
  <2> HIDE DEF holds, screen
  <2>11. Good(s)
    BY <1>1, <1>3, <1>4, <1>7, <2>1, <2>2, <2>3, <2>4, <2>5, <2>6, <2>7, <2>8, <2>9, <2>10
  <2> QED
    BY <2>11 DEF s
<1> QED
  BY <1>8 DEF Good

\* What a script says of the text or the files it puts on the clipboard: it
\* has released the peer and, in version 4, acknowledged them; the files have
\* been read.
PutsLate(s, v) ==
  \A x \in 1..Len(s) : s[x].op = "put"
    => /\ \E y \in 1..(x - 1) : s[y].op = "close"
       /\ v >= 4 => \E y \in 1..(x - 1) : s[y] = Write("ack")
       /\ s[x].arg = "files" => \E y \in 1..(x - 1) : s[y] = Read("files")

\* A text is put by one method, files by the other.
PutsOf(s, m) ==
  \A x \in 1..Len(s) : s[x].op = "put"
    => \/ s[x].arg = "text" /\ m = SEND_TEXT
       \/ s[x].arg = "files" /\ m = SEND_FILE

\* The elements of a concatenation.
LEMMA ConcatElements ==
  ASSUME NEW S, NEW s \in Seq(S), NEW t \in Seq(S)
  PROVE  /\ s \o t \in Seq(S) /\ Len(s \o t) = Len(s) + Len(t)
         /\ \A x \in 1..Len(s) : (s \o t)[x] = s[x]
         /\ \A x \in 1..Len(t) : (s \o t)[Len(s) + x] = t[x]
<1> DEFINE st == s \o t
<1>1. /\ st \in Seq(S) /\ Len(st) = Len(s) + Len(t)
      /\ \A x \in 1..(Len(s) + Len(t)) : st[x] = IF x <= Len(s) THEN s[x] ELSE t[x - Len(s)]
  BY ConcatProperties
<1>2. Len(s) \in Nat /\ Len(t) \in Nat
  BY LenProperties
<1> HIDE DEF st
<1>3. \A x \in 1..Len(s) : st[x] = s[x]
  BY <1>1, <1>2
<1>4. ASSUME NEW x \in 1..Len(t)
      PROVE  st[Len(s) + x] = t[x]
  <2>1. /\ Len(s) + x \in 1..(Len(s) + Len(t)) /\ ~(Len(s) + x <= Len(s))
        /\ (Len(s) + x) - Len(s) = x
    BY <1>2
  <2> QED
    BY <1>1, <2>1
<1> QED
  BY <1>1, <1>3, <1>4 DEF st

LEMMA SendTextScript ==
  ASSUME NEW v \in 1..4
  PROVE  /\ Script(SendText(v)) /\ Backed(SendText(v)) /\ PutsLate(SendText(v), v)
         /\ PutsOf(SendText(v), SEND_TEXT)
<1> DEFINE a == <<Write("OK"), Read("length"), Read("text")>>
           b == IF v >= 4 THEN <<Write("ack")>> ELSE <<>>
           c == <<Close, Put("text")>>
           ab == a \o b
           s == ab \o c
<1>1. /\ Write("OK") \in HandlerOps /\ Read("length") \in HandlerOps
      /\ Read("text") \in HandlerOps /\ Write("ack") \in HandlerOps
      /\ Close \in HandlerOps /\ Put("text") \in HandlerOps
  BY DEF HandlerOps, Writes, Reads, Puts, Content
<1>2. /\ a \in Seq(HandlerOps) /\ b \in Seq(HandlerOps) /\ c \in Seq(HandlerOps)
      /\ Len(a) = 3 /\ Len(c) = 2
      /\ \/ v >= 4 /\ Len(b) = 1
         \/ v < 4 /\ Len(b) = 0
  BY <1>1
<1>3. /\ a[1] = Write("OK") /\ a[2].op = "read" /\ a[3].op = "read"
      /\ v >= 4 => b[1] = Write("ack")
      /\ c[1].op = "close" /\ c[2].op = "put" /\ c[2].arg = "text"
  BY OpFields
<1> HIDE DEF a, b, c
<1>4. /\ ab \in Seq(HandlerOps) /\ Len(ab) = 3 + Len(b)
      /\ ab[1] = a[1] /\ ab[2] = a[2] /\ ab[3] = a[3]
      /\ v >= 4 => ab[4] = b[1]
  <2>1. /\ ab \in Seq(HandlerOps) /\ Len(ab) = Len(a) + Len(b)
        /\ \A x \in 1..Len(a) : ab[x] = a[x]
        /\ \A x \in 1..Len(b) : ab[Len(a) + x] = b[x]
    <3>1. a \in Seq(HandlerOps) /\ b \in Seq(HandlerOps)
      BY <1>2
    <3> QED
      BY <3>1, ConcatElements
  <2>2. 1 \in 1..3 /\ 2 \in 1..3 /\ 3 \in 1..3 /\ 1 \in 1..1 /\ 3 + 1 = 4
    OBVIOUS
  <2> HIDE DEF ab
  <2> QED
    BY <1>2, <2>1, <2>2
<1> HIDE DEF ab
<1>5. /\ s \in Seq(HandlerOps) /\ Len(s) = Len(ab) + 2
      /\ \A x \in 1..Len(ab) : s[x] = ab[x]
      /\ s[Len(ab) + 1] = c[1] /\ s[Len(ab) + 2] = c[2]
  <2>1. /\ s \in Seq(HandlerOps) /\ Len(s) = Len(ab) + Len(c)
        /\ \A x \in 1..Len(ab) : s[x] = ab[x]
        /\ \A x \in 1..Len(c) : s[Len(ab) + x] = c[x]
    <3>1. ab \in Seq(HandlerOps) /\ c \in Seq(HandlerOps)
      BY <1>2, <1>4
    <3> QED
      BY <3>1, ConcatElements
  <2>2. 1 \in 1..2 /\ 2 \in 1..2
    OBVIOUS
  <2> HIDE DEF s
  <2> QED
    BY <1>2, <2>1, <2>2
<1>6. s = SendText(v)
  BY DEF s, ab, a, b, c, SendText
<1> HIDE DEF s
<1>7. Write("OK").op = "write" /\ Write("ack").op = "write"
  BY OpFields
<1>8. CASE v >= 4
  <2>1. /\ Len(s) = 6
        /\ s[1] = Write("OK") /\ s[2].op = "read" /\ s[3].op = "read"
        /\ s[4] = Write("ack") /\ s[5].op = "close" /\ s[6].op = "put"
        /\ s[6].arg = "text"
    <3>1. Len(ab) = 4
      <4>1. Len(b) = 1 /\ Len(ab) = 3 + Len(b)
        BY <1>2, <1>4, <1>8
      <4> QED
        BY <4>1
    <3>2. s[1] = ab[1] /\ s[2] = ab[2] /\ s[3] = ab[3] /\ s[4] = ab[4]
      BY <1>5, <3>1
    <3>3. s[5] = c[1] /\ s[6] = c[2] /\ Len(s) = 6
      BY <1>5, <3>1
    <3> QED
      BY <1>3, <1>4, <1>8, <3>2, <3>3
  <2>2. \A x \in 1..6 : x = 1 \/ x = 2 \/ x = 3 \/ x = 4 \/ x = 5 \/ x = 6
    OBVIOUS
  <2>3. \A x, y \in 1..6 : x < y => Follows(s[x], s[y])
    BY <1>7, <2>1, <2>2 DEF Follows
  <2>4. \A x \in 1..6 : s[x].op = "put" => x = 6
    BY <1>7, <2>1, <2>2
  <2>5. 4 \in 1..(6 - 1) /\ 5 \in 1..(6 - 1)
    OBVIOUS
  <2> QED
    BY <1>5, <1>6, <2>1, <2>3, <2>4, <2>5 DEF Script, Backed, PutsLate, PutsOf
<1>9. CASE v < 4
  <2>1. /\ Len(s) = 5
        /\ s[1] = Write("OK") /\ s[2].op = "read" /\ s[3].op = "read"
        /\ s[4].op = "close" /\ s[5].op = "put"
        /\ s[5].arg = "text"
    <3>1. Len(ab) = 3
      <4>1. Len(b) = 0 /\ Len(ab) = 3 + Len(b)
        BY <1>2, <1>4, <1>9
      <4> QED
        BY <4>1
    <3>2. s[1] = ab[1] /\ s[2] = ab[2] /\ s[3] = ab[3]
      BY <1>5, <3>1
    <3>3. s[4] = c[1] /\ s[5] = c[2] /\ Len(s) = 5
      BY <1>5, <3>1
    <3> QED
      BY <1>3, <1>4, <3>2, <3>3
  <2>2. \A x \in 1..5 : x = 1 \/ x = 2 \/ x = 3 \/ x = 4 \/ x = 5
    OBVIOUS
  <2>3. \A x, y \in 1..5 : x < y => Follows(s[x], s[y])
    BY <1>7, <2>1, <2>2 DEF Follows
  <2>4. \A x \in 1..5 : s[x].op = "put" => x = 5
    BY <1>7, <2>1, <2>2
  <2>5. 4 \in 1..(5 - 1) /\ ~(v >= 4)
    BY <1>9
  <2> QED
    BY <1>5, <1>6, <2>1, <2>3, <2>4, <2>5 DEF Script, Backed, PutsLate, PutsOf
<1> QED
  BY <1>2, <1>8, <1>9

LEMMA SendFilesScript ==
  ASSUME NEW v \in 1..4
  PROVE  /\ Script(SendFiles(v)) /\ Backed(SendFiles(v)) /\ PutsLate(SendFiles(v), v)
         /\ PutsOf(SendFiles(v), SEND_FILE)
<1> DEFINE a == <<Write("OK"), Read("files")>>
           b == IF v >= 4 THEN <<Write("ack")>> ELSE <<>>
           c == <<Close, Put("files")>>
           ab == a \o b
           s == ab \o c
<1>1. /\ Write("OK") \in HandlerOps /\ Read("files") \in HandlerOps
      /\ Write("ack") \in HandlerOps
      /\ Close \in HandlerOps /\ Put("files") \in HandlerOps
  BY DEF HandlerOps, Writes, Reads, Puts, Content
<1>2. /\ a \in Seq(HandlerOps) /\ b \in Seq(HandlerOps) /\ c \in Seq(HandlerOps)
      /\ Len(a) = 2 /\ Len(c) = 2
      /\ \/ v >= 4 /\ Len(b) = 1
         \/ v < 4 /\ Len(b) = 0
  BY <1>1
<1>3. /\ a[1] = Write("OK") /\ a[2] = Read("files")
      /\ v >= 4 => b[1] = Write("ack")
      /\ c[1].op = "close" /\ c[2].op = "put" /\ c[2].arg = "files"
  BY OpFields
<1> HIDE DEF a, b, c
<1>4. /\ ab \in Seq(HandlerOps) /\ Len(ab) = 2 + Len(b)
      /\ ab[1] = a[1] /\ ab[2] = a[2]
      /\ v >= 4 => ab[3] = b[1]
  <2>1. /\ ab \in Seq(HandlerOps) /\ Len(ab) = Len(a) + Len(b)
        /\ \A x \in 1..Len(a) : ab[x] = a[x]
        /\ \A x \in 1..Len(b) : ab[Len(a) + x] = b[x]
    <3>1. a \in Seq(HandlerOps) /\ b \in Seq(HandlerOps)
      BY <1>2
    <3> QED
      BY <3>1, ConcatElements
  <2>2. 1 \in 1..2 /\ 2 \in 1..2 /\ 1 \in 1..1 /\ 2 + 1 = 3
    OBVIOUS
  <2> HIDE DEF ab
  <2> QED
    BY <1>2, <2>1, <2>2
<1> HIDE DEF ab
<1>5. /\ s \in Seq(HandlerOps) /\ Len(s) = Len(ab) + 2
      /\ \A x \in 1..Len(ab) : s[x] = ab[x]
      /\ s[Len(ab) + 1] = c[1] /\ s[Len(ab) + 2] = c[2]
  <2>1. /\ s \in Seq(HandlerOps) /\ Len(s) = Len(ab) + Len(c)
        /\ \A x \in 1..Len(ab) : s[x] = ab[x]
        /\ \A x \in 1..Len(c) : s[Len(ab) + x] = c[x]
    <3>1. ab \in Seq(HandlerOps) /\ c \in Seq(HandlerOps)
      BY <1>2, <1>4
    <3> QED
      BY <3>1, ConcatElements
  <2>2. 1 \in 1..2 /\ 2 \in 1..2
    OBVIOUS
  <2> HIDE DEF s
  <2> QED
    BY <1>2, <2>1, <2>2
<1>6. s = SendFiles(v)
  BY DEF s, ab, a, b, c, SendFiles
<1> HIDE DEF s
<1>7. /\ Write("OK").op = "write" /\ Write("ack").op = "write"
      /\ Read("files").op = "read" /\ Read("files").arg = "files"
  BY OpFields
<1>8. CASE v >= 4
  <2>1. /\ Len(s) = 5
        /\ s[1] = Write("OK") /\ s[2] = Read("files")
        /\ s[3] = Write("ack") /\ s[4].op = "close" /\ s[5].op = "put"
        /\ s[5].arg = "files"
    <3>1. Len(ab) = 3
      <4>1. Len(b) = 1 /\ Len(ab) = 2 + Len(b)
        BY <1>2, <1>4, <1>8
      <4> QED
        BY <4>1
    <3>2. s[1] = ab[1] /\ s[2] = ab[2] /\ s[3] = ab[3]
      BY <1>5, <3>1
    <3>3. s[4] = c[1] /\ s[5] = c[2] /\ Len(s) = 5
      BY <1>5, <3>1
    <3> QED
      BY <1>3, <1>4, <1>8, <3>2, <3>3
  <2>2. \A x \in 1..5 : x = 1 \/ x = 2 \/ x = 3 \/ x = 4 \/ x = 5
    OBVIOUS
  <2>3. \A x, y \in 1..5 : x < y => Follows(s[x], s[y])
    BY <1>7, <2>1, <2>2 DEF Follows
  <2>4. \A x \in 1..5 : s[x].op = "put" => x = 5
    BY <1>7, <2>1, <2>2
  <2>5. 2 \in 1..(5 - 1) /\ 3 \in 1..(5 - 1) /\ 4 \in 1..(5 - 1)
    OBVIOUS
  <2> QED
    BY <1>5, <1>6, <2>1, <2>3, <2>4, <2>5 DEF Script, Backed, PutsLate, PutsOf
<1>9. CASE v < 4
  <2>1. /\ Len(s) = 4
        /\ s[1] = Write("OK") /\ s[2] = Read("files")
        /\ s[3].op = "close" /\ s[4].op = "put"
        /\ s[4].arg = "files"
    <3>1. Len(ab) = 2
      <4>1. Len(b) = 0 /\ Len(ab) = 2 + Len(b)
        BY <1>2, <1>4, <1>9
      <4> QED
        BY <4>1
    <3>2. s[1] = ab[1] /\ s[2] = ab[2]
      BY <1>5, <3>1
    <3>3. s[3] = c[1] /\ s[4] = c[2] /\ Len(s) = 4
      BY <1>5, <3>1
    <3> QED
      BY <1>3, <1>4, <3>2, <3>3
  <2>2. \A x \in 1..4 : x = 1 \/ x = 2 \/ x = 3 \/ x = 4
    OBVIOUS
  <2>3. \A x, y \in 1..4 : x < y => Follows(s[x], s[y])
    BY <1>7, <2>1, <2>2 DEF Follows
  <2>4. \A x \in 1..4 : s[x].op = "put" => x = 4
    BY <1>7, <2>1, <2>2
  <2>5. 2 \in 1..(4 - 1) /\ 3 \in 1..(4 - 1) /\ ~(v >= 4)
    BY <1>9
  <2> QED
    BY <1>5, <1>6, <2>1, <2>3, <2>4, <2>5 DEF Script, Backed, PutsLate, PutsOf
<1> QED
  BY <1>2, <1>8, <1>9

\* The handlers that begin by looking at the clipboard or the screen.
LEMMA LooksOpen ==
  /\ \A x : Look(x) \in Looks => Opening(<<Look(x)>>)
  /\ Opening(<<Write("OK"), Read("display"), Look("screen")>>)
<1>1. ASSUME NEW x, Look(x) \in Looks
      PROVE  Opening(<<Look(x)>>)
  <2> DEFINE s == <<Look(x)>>
  <2>1. s \in Seq(HandlerOps) /\ Len(s) = 1 /\ s # <<>>
    BY <1>1 DEF HandlerOps
  <2>2. s[1].op = "look"
    BY OpFields
  <2> HIDE DEF s
  <2>3. \A y \in 1..1 : s[y].op = "look"
    BY <2>2
  <2>4. \A y, z \in 1..1 : ~(y < z)
    OBVIOUS
  <2> QED
    BY <2>1, <2>3, <2>4 DEF s, Opening, Script, Backed, IsContent
<1>2. Opening(<<Write("OK"), Read("display"), Look("screen")>>)
  <2> DEFINE s == <<Write("OK"), Read("display"), Look("screen")>>
  <2>1. Write("OK") \in HandlerOps /\ Read("display") \in HandlerOps /\ Look("screen") \in HandlerOps
    BY DEF HandlerOps, Writes, Reads, Looks
  <2>2. s \in Seq(HandlerOps) /\ Len(s) = 3 /\ s # <<>>
    BY <2>1
  <2>3. s[1] = Write("OK") /\ s[1].op = "write" /\ s[2].op = "read" /\ s[3].op = "look"
    BY OpFields
  <2> HIDE DEF s
  <2>4. \A y \in 1..3 : y = 1 \/ y = 2 \/ y = 3
    OBVIOUS
  <2>5. \A y \in 1..3 : s[y].op \in {"write", "read", "look"}
    BY <2>3, <2>4
  <2>6. Follows(s[1], s[2]) /\ Follows(s[1], s[3]) /\ Follows(s[2], s[3])
    BY <2>3 DEF Follows
  <2>7. \A y, z \in 1..3 : y < z => Follows(s[y], s[z])
    BY <2>4, <2>6
  <2> QED
    BY <2>2, <2>3, <2>5, <2>7 DEF s, Opening, Script, Backed
<1> QED
  BY <1>1, <1>2

LEMMA HandlerScript ==
  ASSUME NEW v \in 1..4, NEW m \in Methods
  PROVE  LET s == Handler(v, m) IN
         /\ Script(s) /\ Backed(s) /\ PutsLate(s, v)
         /\ PutsOf(s, m)
<1> DEFINE s == Handler(v, m)
           Fine(t) == /\ Script(t) /\ Backed(t)
                      /\ \A x \in 1..Len(t) : t[x].op # "put"
           Good(t) == Script(t) /\ Backed(t) /\ PutsLate(t, v) /\ PutsOf(t, m)
<1>1. Look("text") \in Looks /\ Look("files") \in Looks /\ Look("image") \in Looks
      /\ Look("image_or_screen") \in Looks /\ Look("type") \in Looks
  BY DEF Looks
<1>2. \A x : Look(x) \in Looks => Fine(<<Look(x)>> \o AckV4(v))
  BY AckCloses, LooksOpen, OpeningConcat
<1>3. Fine(<<Write("OK"), Read("display"), Look("screen")>> \o AckV4(v))
  BY AckCloses, LooksOpen, OpeningConcat
<1>4. Fine(<<Write("OK")>> \o Data \o AckV4(v))
  BY AckCloses, DataIsContent, ContentOpens, OpeningConcat
<1>5. Fine(<<Look("type")>>)
  <2>1. Opening(<<Look("type")>>)
    BY <1>1, LooksOpen
  <2> QED
    BY <2>1 DEF Opening
<1>6. /\ Script(SendFiles(v)) /\ Backed(SendFiles(v)) /\ PutsLate(SendFiles(v), v)
      /\ PutsOf(SendFiles(v), SEND_FILE)
  BY SendFilesScript
<1>7. /\ Script(SendText(v)) /\ Backed(SendText(v)) /\ PutsLate(SendText(v), v)
      /\ PutsOf(SendText(v), SEND_TEXT)
  BY SendTextScript
<1>8. \A t : Fine(t) => Good(t)
  BY DEF PutsLate, PutsOf
<1>9. Good(s)
  <2> HIDE DEF Fine
  <2>1. CASE m \in {1, 3, 5, 6}
    <3>1. \E x : Look(x) \in Looks /\ s = <<Look(x)>> \o AckV4(v)
      BY <1>1, <2>1 DEF Handler, GET_TEXT, SEND_TEXT, GET_FILE, SEND_FILE, GET_IMAGE,
         GET_COPIED_IMAGE, GET_SCREENSHOT, GET_ANY, INFO
    <3> HIDE DEF s, Good
    <3> QED
      BY <1>2, <1>8, <3>1
  <2>2. CASE m = 2
    <3>1. s = SendText(v) /\ m = SEND_TEXT
      BY <2>2 DEF Handler, GET_TEXT, SEND_TEXT, GET_FILE, SEND_FILE, GET_IMAGE,
         GET_COPIED_IMAGE, GET_SCREENSHOT, GET_ANY, INFO
    <3> HIDE DEF s
    <3> QED
      BY <1>7, <3>1
  <2>3. CASE m = 4
    <3>1. s = SendFiles(v) /\ m = SEND_FILE
      BY <2>3 DEF Handler, GET_TEXT, SEND_TEXT, GET_FILE, SEND_FILE, GET_IMAGE,
         GET_COPIED_IMAGE, GET_SCREENSHOT, GET_ANY, INFO
    <3> HIDE DEF s
    <3> QED
      BY <1>6, <3>1
  <2>4. CASE m = 7
    <3>1. s = <<Write("OK"), Read("display"), Look("screen")>> \o AckV4(v)
      BY <2>4 DEF Handler, GET_TEXT, SEND_TEXT, GET_FILE, SEND_FILE, GET_IMAGE,
         GET_COPIED_IMAGE, GET_SCREENSHOT, GET_ANY, INFO
    <3> HIDE DEF s, Good
    <3> QED
      BY <1>3, <1>8, <3>1
  <2>5. CASE m = 124
    <3>1. s = <<Look("type")>>
      BY <2>5 DEF Handler, GET_TEXT, SEND_TEXT, GET_FILE, SEND_FILE, GET_IMAGE,
         GET_COPIED_IMAGE, GET_SCREENSHOT, GET_ANY, INFO
    <3> HIDE DEF s, Good
    <3> QED
      BY <1>5, <1>8, <3>1
  <2>6. CASE m = 125
    <3>1. s = <<Write("OK")>> \o Data \o AckV4(v)
      BY <2>6 DEF Handler, GET_TEXT, SEND_TEXT, GET_FILE, SEND_FILE, GET_IMAGE,
         GET_COPIED_IMAGE, GET_SCREENSHOT, GET_ANY, INFO
    <3> HIDE DEF s, Good
    <3> QED
      BY <1>4, <1>8, <3>1
  <2> QED
    BY <2>1, <2>2, <2>3, <2>4, <2>5, <2>6 DEF Methods
<1> QED
  BY <1>9

\* What is done for a method: it is served or refused.
LEMMA VersionScript ==
  ASSUME NEW v \in 1..4, NEW m \in Methods \cup {BadMethod}
  PROVE  LET s == Version(v, m) IN
         /\ Script(s) /\ Backed(s) /\ PutsLate(s, v)
         /\ PutsOf(s, m)
         /\ m \in MethodsOf(v) \cap Enabled \/ Refusal(s)
<1> DEFINE s == Version(v, m)
<1>1. CASE m \in MethodsOf(v) \cap Enabled
  <2>1. m \in Methods
    BY <1>1, SessionAssumption
  <2>2. s = Handler(v, m)
    BY <1>1, <2>1 DEF Version
  <2> HIDE DEF s
  <2> QED
    BY <1>1, <2>1, <2>2, HandlerScript DEF s
<1>2. CASE m \notin MethodsOf(v) \cap Enabled
  <2>1. s \in {<<Try("NOT_IMPLEMENTED"), Close>>, <<Try("UNKNOWN_METHOD"), Close>>}
    BY <1>2 DEF Version
  <2>2. Refusal(s)
    BY <2>1, Refusals
  <2> HIDE DEF s
  <2>3. Script(s) /\ Backed(s) /\ \A x \in 1..Len(s) : s[x].op # "put"
    BY <2>2, RefusalIsBacked
  <2> QED
    BY <2>2, <2>3 DEF s, PutsLate, PutsOf
<1> QED
  BY <1>1, <1>2

-----------------------------------------------------------------------------
(* The inductive invariant.                                                *)

Words == {"supported", "unknown", "max", "obsolete"} \cup Answers \cup Content

Served == ver \in MinVersion..MaxVersion /\ method \in MethodsOf(ver) \cap Enabled
Agreed == \E j \in 1..Len(sent) : sent[j] \in {"supported", "max"}
Rejected == \E j \in 1..Len(sent) : sent[j] \in Rejections

\* Before the method is known, what is left to do is the end of one of the
\* conversations about the version.
Negotiating ==
  /\ method = 0
  /\ \/ todo \in {<<>>, <<Close>>, <<Try("obsolete"), Close>>, <<Read("version")>>,
                 <<Write("unknown"), Write("max"), Read("version_again")>>,
                 <<Write("max"), Read("version_again")>>}
     \/ todo = <<Read("version_again")>> /\ Agreed
     \/ todo = <<Write("supported"), Read("method")>> /\ ver \in MinVersion..MaxVersion
     \/ todo = <<Read("method")>> /\ ver \in MinVersion..MaxVersion /\ Agreed
  /\ ~Sent("OK")

\* Afterwards it is the end of the script of a method.
Answering ==
  /\ method # 0
  /\ ver \in MinVersion..MaxVersion
  /\ Agreed
  /\ Script(todo)
  /\ Sent("OK") \/ Backed(todo)
  /\ \/ Served
     \/ ~Sent("OK") /\ \A x \in 1..Len(todo) : todo[x].op \in {"try", "close"}
  /\ \A x \in 1..Len(todo) : todo[x].op = "put"
       => /\ \/ todo[x].arg = "text" /\ method = SEND_TEXT
             \/ todo[x].arg = "files" /\ method = SEND_FILE
          /\ sock = "closed" \/ \E y \in 1..(x - 1) : todo[y].op = "close"
          /\ ver >= 4 => Sent("ack") \/ \E y \in 1..(x - 1) : todo[y] = Write("ack")
          /\ todo[x].arg = "files"
               => received = "files" \/ \E y \in 1..(x - 1) : todo[y] = Read("files")

\* What has been said is in order, and who has been refused is let go.
Ordered ==
  /\ sent \in Seq(Words)
  /\ \A i \in 1..Len(sent) :
       /\ sent[i] \in Content => \E j \in 1..(i - 1) : sent[j] = "OK"
       /\ sent[i] \in Answers => \E j \in 1..(i - 1) : sent[j] \in {"supported", "max"}
       /\ sent[i] \in Rejections => i = Len(sent)
  /\ Rejected => \A x \in 1..Len(todo) : todo[x].op = "close"

\* Nothing that is left to do uses a socket that is closed.
Quiet ==
  /\ sock \in {"open", "closed"}
  /\ sock = "closed" => \A x \in 1..Len(todo) : todo[x].op \in {"put", "own"}

IInv == (Negotiating \/ Answering) /\ Ordered /\ Quiet

-----------------------------------------------------------------------------
(* The steps preserve it.                                                  *)

\* One more word is sent.
LEMMA AppendWord ==
  ASSUME Ordered, ~Rejected, NEW w \in Words, sent' = Append(sent, w),
         w \in Content => Sent("OK"), w \in Answers => Agreed
  PROVE  /\ sent' \in Seq(Words)
         /\ \A i \in 1..Len(sent') :
              /\ sent'[i] \in Content => \E j \in 1..(i - 1) : sent'[j] = "OK"
              /\ sent'[i] \in Answers => \E j \in 1..(i - 1) : sent'[j] \in {"supported", "max"}
              /\ sent'[i] \in Rejections => i = Len(sent')
         /\ \A m : Sent(m)' <=> Sent(m) \/ w = m
         /\ Agreed' <=> Agreed \/ w \in {"supported", "max"}
         /\ Rejected' <=> w \in Rejections
<1>1. /\ sent \in Seq(Words) /\ Len(sent) \in Nat
      /\ sent' \in Seq(Words) /\ Len(sent') = Len(sent) + 1
      /\ \A i \in 1..Len(sent) : sent'[i] = sent[i]
      /\ sent'[Len(sent) + 1] = w
  BY AppendProperties DEF Ordered
<1>2. /\ \A i \in 1..Len(sent') : i \in 1..Len(sent) \/ i = Len(sent) + 1
      /\ \A i \in 1..Len(sent) : i \in 1..Len(sent')
      /\ Len(sent) + 1 \in 1..Len(sent') /\ (Len(sent) + 1) - 1 = Len(sent)
      /\ \A i \in 1..Len(sent) : \A j \in 1..(i - 1) : j \in 1..Len(sent)
  BY <1>1
<1>3. \A i \in 1..Len(sent) : sent[i] \notin Rejections
  BY DEF Rejected
<1>4. \A m : Sent(m)' <=> Sent(m) \/ w = m
  BY <1>1, <1>2 DEF Sent
<1>5. Agreed' <=> Agreed \/ w \in {"supported", "max"}
  BY <1>1, <1>2 DEF Agreed
<1>6. Rejected' <=> w \in Rejections
  BY <1>1, <1>2, <1>3 DEF Rejected
<1>7. ASSUME NEW i \in 1..Len(sent')
      PROVE  /\ sent'[i] \in Content => \E j \in 1..(i - 1) : sent'[j] = "OK"
             /\ sent'[i] \in Answers => \E j \in 1..(i - 1) : sent'[j] \in {"supported", "max"}
             /\ sent'[i] \in Rejections => i = Len(sent')
  <2>1. CASE i \in 1..Len(sent)
    <3>1. /\ sent[i] \in Content => \E j \in 1..(i - 1) : sent[j] = "OK"
          /\ sent[i] \in Answers => \E j \in 1..(i - 1) : sent[j] \in {"supported", "max"}
      BY <2>1 DEF Ordered
    <3> QED
      BY <1>1, <1>2, <1>3, <2>1, <3>1
  <2>2. CASE i = Len(sent) + 1
    <3>1. i - 1 = Len(sent) /\ sent'[i] = w /\ i = Len(sent')
      BY <1>1, <2>2
    <3>2. w \in Content => \E j \in 1..Len(sent) : sent'[j] = "OK"
      BY <1>1 DEF Sent
    <3>3. w \in Answers => \E j \in 1..Len(sent) : sent'[j] \in {"supported", "max"}
      BY <1>1 DEF Agreed
    <3> QED
      BY <3>1, <3>2, <3>3
  <2> QED
    BY <1>2, <2>1, <2>2
<1> QED
  BY <1>1, <1>4, <1>5, <1>6, <1>7

LEMMA HandlerOpFields ==
  ASSUME NEW h \in HandlerOps
  PROVE  /\ h.op = "write" => h.arg \in {"OK"} \cup Content /\ h = Write(h.arg)
         /\ h.op = "try" => h.arg \in {"NO_DATA", "UNKNOWN_METHOD", "NOT_IMPLEMENTED"}
         /\ h.op = "look" => h \in Looks /\ h = Look(h.arg)
         /\ h.op = "read" => h.arg \in {"length", "text", "files", "display", "ack"}
<1>1. CASE h \in Writes
  BY <1>1, OpFields DEF Writes
<1>2. CASE h \in Looks
  BY <1>2, OpFields DEF Looks
<1>3. CASE h \in Reads
  BY <1>3, OpFields DEF Reads
<1>4. CASE h \in Tries
  BY <1>4, OpFields DEF Tries
<1>5. CASE h \in Puts \cup {Close, Own}
  BY <1>5, OpFields DEF Puts
<1> QED
  BY <1>1, <1>2, <1>3, <1>4, <1>5 DEF HandlerOps

\* A handler may give up at any point.
LEMMA DropStep ==
  ASSUME IInv, todo' = <<>>, sock' \in {sock, "closed"}, UNCHANGED <<ver, method, sent>>
  PROVE  IInv'
<1>1. Len(todo') = 0 /\ \A x \in 1..Len(todo') : FALSE
  OBVIOUS
<1>2. Script(todo') /\ Backed(todo')
  BY <1>1 DEF Script, Backed
<1>3. /\ \A m : Sent(m)' <=> Sent(m)
      /\ Agreed' <=> Agreed
      /\ Served' <=> Served
  BY DEF Sent, Agreed, Served
<1>4. Ordered'
  BY <1>1 DEF IInv, Ordered
<1>5. Quiet'
  BY <1>1 DEF IInv, Quiet
<1>6. CASE Negotiating
  BY <1>3, <1>4, <1>5, <1>6 DEF IInv, Negotiating
<1>7. CASE Answering
  <2>1. /\ method' # 0 /\ ver' \in MinVersion..MaxVersion
        /\ Agreed' /\ (Served \/ ~Sent("OK"))'
    BY <1>3, <1>7 DEF Answering
  <2> QED
    BY <1>1, <1>2, <1>4, <1>5, <2>1 DEF IInv, Answering
<1> QED
  BY <1>6, <1>7 DEF IInv

\* An operation of a handler is done.
LEMMA AnswerStep ==
  ASSUME IInv, Answering, todo # <<>>,
         todo' = Tail(todo), UNCHANGED <<ver, method>>,
         \/ Head(todo).op = "close" /\ sock' = "closed"
         \/ Head(todo).op # "close" /\ sock' = sock,
         \/ Head(todo).op # "write" /\ sent' = sent
         \/ Head(todo).op \in {"write", "try"} /\ sent' = Append(sent, Head(todo).arg),
         \/ Head(todo) # Read("files") /\ received' = received
         \/ received' = "files"
         \/ Head(todo).op = "read" /\ Head(todo).arg = "text"
  PROVE  IInv'
<1> DEFINE h == Head(todo)
<1>1. /\ Script(todo') /\ Len(todo) \in Nat \ {0} /\ Len(todo') = Len(todo) - 1
      /\ h = todo[1] /\ h \in HandlerOps
      /\ \A x \in 1..Len(todo') : /\ todo'[x] = todo[x + 1]
                                  /\ x + 1 \in 1..Len(todo)
                                  /\ Follows(h, todo'[x])
  BY TailScript DEF Answering
<1>2. /\ h.op = "write" => h.arg \in {"OK"} \cup Content /\ h = Write(h.arg)
      /\ h.op = "try" => h.arg \in {"NO_DATA", "UNKNOWN_METHOD", "NOT_IMPLEMENTED"}
  BY <1>1, HandlerOpFields
<1>3. 1 \in 1..Len(todo)
  BY <1>1
<1>4. Rejected => h.op = "close"
  BY <1>1, <1>3 DEF IInv, Ordered
<1> HIDE DEF h
<1> DEFINE Said == /\ Ordered'
                   /\ \A m : Sent(m) => Sent(m)'
                   /\ Agreed => Agreed'
                   /\ \A m : h.op = "write" /\ h.arg = m => Sent(m)'
                   /\ Sent("OK")' => Sent("OK") \/ h.op = "write"
<1>5. ASSUME h.op # "write" /\ sent' = sent
      PROVE  Said
  <2>1. /\ \A m : Sent(m)' <=> Sent(m)
        /\ Agreed' <=> Agreed
        /\ Rejected' <=> Rejected
    BY <1>5 DEF Sent, Agreed, Rejected
  <2>2. Rejected' => \A x \in 1..Len(todo') : todo'[x].op = "close"
    BY <1>1, <2>1 DEF IInv, Ordered
  <2>3. Ordered'
    BY <1>5, <2>2 DEF IInv, Ordered
  <2> QED
    BY <1>5, <2>1, <2>3
<1>6. ASSUME h.op \in {"write", "try"} /\ sent' = Append(sent, h.arg)
      PROVE  Said
  <2>1. Ordered /\ ~Rejected
    BY <1>4, <1>6 DEF IInv
  <2>2. h.arg \in Words /\ (h.arg \in Answers => Agreed)
    BY <1>2, <1>6 DEF Words, Answers, Answering
  <2>3. h.arg \in Content => Sent("OK")
    <3>1. SUFFICES ASSUME h.arg \in Content, ~Sent("OK")
                   PROVE  FALSE
      OBVIOUS
    <3>2. h.op = "write" /\ Backed(todo)
      BY <1>2, <1>6, <3>1 DEF Answering, Content
    <3>3. h = Write("OK")
      BY <1>1, <1>3, <3>1, <3>2 DEF Backed, IsContent
    <3> QED
      BY <3>1, <3>3, OpFields DEF Content
  <2>4. /\ sent' \in Seq(Words)
        /\ \A i \in 1..Len(sent') :
             /\ sent'[i] \in Content => \E j \in 1..(i - 1) : sent'[j] = "OK"
             /\ sent'[i] \in Answers => \E j \in 1..(i - 1) : sent'[j] \in {"supported", "max"}
             /\ sent'[i] \in Rejections => i = Len(sent')
        /\ \A m : Sent(m)' <=> Sent(m) \/ h.arg = m
        /\ Agreed' <=> Agreed \/ h.arg \in {"supported", "max"}
        /\ Rejected' <=> h.arg \in Rejections
    BY <1>6, <2>1, <2>2, <2>3, AppendWord
  <2>5. Rejected' => \A x \in 1..Len(todo') : todo'[x].op = "close"
    <3>1. Rejected' => h.op = "try"
      BY <1>2, <1>6, <2>4 DEF Rejections, Content
    <3> QED
      BY <1>1, <3>1 DEF Follows
  <2>6. Ordered'
    BY <2>4, <2>5 DEF Ordered
  <2>7. Sent("OK")' => Sent("OK") \/ h.op = "write"
    BY <1>2, <1>6, <2>4
  <2> QED
    BY <2>4, <2>6, <2>7
<1>7. Said
  BY <1>5, <1>6 DEF h
<1> HIDE DEF Said
<1>8. /\ h.op = "close" => sock' = "closed"
      /\ h.op # "close" => sock' = sock
  BY DEF h
<1>9. Quiet'
  <2>1. ASSUME sock' = "closed", NEW x \in 1..Len(todo')
        PROVE  todo'[x].op \in {"put", "own"}
    <3>1. CASE h.op = "close"
      BY <1>1, <2>1, <3>1 DEF Follows
    <3>2. CASE h.op # "close"
      BY <1>1, <1>8, <2>1, <3>2 DEF IInv, Quiet
    <3> QED
      BY <3>1, <3>2
  <2> QED
    BY <1>8, <2>1 DEF IInv, Quiet
<1>10. Sent("OK")' \/ Backed(todo')
  <2>1. CASE Sent("OK")
    BY <1>7, <2>1 DEF Said
  <2>2. CASE ~Sent("OK") /\ h = Write("OK")
    BY <1>7, <2>2, OpFields DEF Said
  <2>3. CASE ~Sent("OK") /\ h # Write("OK")
    <3>1. \A x \in 1..Len(todo) : ~IsContent(todo[x])
      BY <1>1, <2>3 DEF Answering, Backed
    <3> QED
      BY <1>1, <3>1 DEF Backed
  <2> QED
    BY <2>1, <2>2, <2>3
<1>11. Served' \/ (~Sent("OK")' /\ \A x \in 1..Len(todo') : todo'[x].op \in {"try", "close"})
  <2>1. CASE Served
    BY <2>1 DEF Served
  <2>2. CASE ~Served
    <3>1. ~Sent("OK") /\ \A x \in 1..Len(todo) : todo[x].op \in {"try", "close"}
      BY <2>2 DEF Answering
    <3>2. h.op # "write"
      BY <1>1, <1>3, <3>1
    <3> QED
      BY <1>1, <1>7, <3>1, <3>2 DEF Said
  <2> QED
    BY <2>1, <2>2
<1>12. ASSUME NEW x \in 1..Len(todo'), todo'[x].op = "put"
       PROVE  /\ \/ todo'[x].arg = "text" /\ method' = SEND_TEXT
                 \/ todo'[x].arg = "files" /\ method' = SEND_FILE
              /\ sock' = "closed" \/ \E y \in 1..(x - 1) : todo'[y].op = "close"
              /\ ver' >= 4 => Sent("ack")' \/ \E y \in 1..(x - 1) : todo'[y] = Write("ack")
              /\ todo'[x].arg = "files"
                   => received' = "files" \/ \E y \in 1..(x - 1) : todo'[y] = Read("files")
  <2>1. todo[x + 1] = todo'[x] /\ x + 1 \in 1..Len(todo) /\ (x + 1) - 1 = x
    BY <1>1
  <2>2. /\ \/ todo[x + 1].arg = "text" /\ method = SEND_TEXT
           \/ todo[x + 1].arg = "files" /\ method = SEND_FILE
        /\ sock = "closed" \/ \E y \in 1..x : todo[y].op = "close"
        /\ ver >= 4 => Sent("ack") \/ \E y \in 1..x : todo[y] = Write("ack")
        /\ todo[x + 1].arg = "files"
             => received = "files" \/ \E y \in 1..x : todo[y] = Read("files")
    BY <1>12, <2>1 DEF Answering
  <2>3. \A y \in 1..x :
          \/ y = 1 /\ todo[y] = h
          \/ y - 1 \in 1..(x - 1) /\ todo[y] = todo'[y - 1]
    <3> TAKE y \in 1..x
    <3>1. CASE y = 1
      <4>1. todo[y] = h
        BY <1>1, <3>1
      <4> QED
        BY <3>1, <4>1
    <3>2. CASE y # 1
      <4>1. y - 1 \in 1..(x - 1) /\ y - 1 \in 1..Len(todo') /\ (y - 1) + 1 = y
        BY <1>1, <3>2
      <4>2. todo'[y - 1] = todo[(y - 1) + 1]
        BY <1>1, <4>1
      <4> QED
        BY <4>1, <4>2
    <3> QED
      BY <3>1, <3>2
  <2>4. sock' = "closed" \/ \E y \in 1..(x - 1) : todo'[y].op = "close"
    <3>1. CASE sock = "closed"
      BY <1>8, <3>1
    <3>2. CASE \E y \in 1..x : todo[y].op = "close"
      BY <1>8, <2>3, <3>2
    <3> QED
      BY <2>2, <3>1, <3>2
  <2>5. ver' >= 4 => Sent("ack")' \/ \E y \in 1..(x - 1) : todo'[y] = Write("ack")
    <3>1. SUFFICES ASSUME ver >= 4
                   PROVE  Sent("ack")' \/ \E y \in 1..(x - 1) : todo'[y] = Write("ack")
      OBVIOUS
    <3>2. CASE Sent("ack")
      BY <1>7, <3>2 DEF Said
    <3>3. CASE h = Write("ack")
      BY <1>7, <3>3, OpFields DEF Said
    <3>4. CASE \E y \in 1..x : todo[y] = Write("ack") /\ todo[y] # h
      BY <2>3, <3>4
    <3> QED
      BY <2>2, <3>1, <3>2, <3>3, <3>4
  <2>6. SUFFICES ASSUME todo'[x].arg = "files"
                 PROVE  received' = "files" \/ \E y \in 1..(x - 1) : todo'[y] = Read("files")
    BY <2>1, <2>2, <2>4, <2>5
  <2>7. ~(h.op = "read" /\ h.arg = "text")
    BY <1>1, <1>12, <2>6 DEF Follows
  <2>8. CASE received' = "files"
    BY <2>8
  <2>9. CASE h # Read("files") /\ received' = received
    <3>1. received = "files" \/ \E y \in 1..x : todo[y] = Read("files") /\ todo[y] # h
      BY <2>1, <2>2, <2>6, <2>9
    <3> QED
      BY <2>3, <2>9, <3>1
  <2> QED
    BY <2>7, <2>8, <2>9 DEF h
<1>13. Answering'
  <2>1. method' # 0 /\ ver' \in MinVersion..MaxVersion /\ Agreed' /\ Script(todo')
    BY <1>1, <1>7 DEF Answering, Said
  <2> QED
    BY <1>10, <1>11, <1>12, <2>1 DEF Answering
<1> QED
  BY <1>7, <1>9, <1>13 DEF IInv, Said

LEMMA ShortTuples ==
  /\ \A a : Head(<<a>>) = a /\ Tail(<<a>>) = <<>>
  /\ \A a, b : Head(<<a, b>>) = a /\ Tail(<<a, b>>) = <<b>>
  /\ \A a, b, c : Head(<<a, b, c>>) = a /\ Tail(<<a, b, c>>) = <<b, c>>
<1>1. \A a : Head(<<a>>) = a /\ Tail(<<a>>) = <<>>
  OBVIOUS
<1>2. \A a, b : Head(<<a, b>>) = a /\ Tail(<<a, b>>) = <<b>>
  OBVIOUS
<1>3. \A a, b, c : Head(<<a, b, c>>) = a /\ Tail(<<a, b, c>>) = <<b, c>>
  OBVIOUS
<1> QED
  BY <1>1, <1>2, <1>3

\* The conversations about the version, one operation at a time.
LEMMA NegotiationHeads ==
  ASSUME Negotiating, todo # <<>>
  PROVE  \/ todo = <<Close>> /\ Head(todo) = Close /\ Tail(todo) = <<>>
         \/ todo = <<Try("obsolete"), Close>> /\ Head(todo) = Try("obsolete")
            /\ Tail(todo) = <<Close>>
         \/ todo = <<Read("version")>> /\ Head(todo) = Read("version")
         \/ /\ todo = <<Write("unknown"), Write("max"), Read("version_again")>>
            /\ Head(todo) = Write("unknown") /\ Tail(todo) = <<Write("max"), Read("version_again")>>
         \/ /\ todo = <<Write("max"), Read("version_again")>>
            /\ Head(todo) = Write("max") /\ Tail(todo) = <<Read("version_again")>>
         \/ todo = <<Read("version_again")>> /\ Head(todo) = Read("version_again") /\ Agreed
         \/ /\ todo = <<Write("supported"), Read("method")>> /\ ver \in MinVersion..MaxVersion
            /\ Head(todo) = Write("supported") /\ Tail(todo) = <<Read("method")>>
         \/ /\ todo = <<Read("method")>> /\ ver \in MinVersion..MaxVersion /\ Agreed
            /\ Head(todo) = Read("method")
<1>1. CASE todo = <<Close>>
  BY <1>1, ShortTuples
<1>2. CASE todo = <<Try("obsolete"), Close>>
  BY <1>2, ShortTuples
<1>3. CASE todo = <<Read("version")>>
  BY <1>3, ShortTuples
<1>4. CASE todo = <<Write("unknown"), Write("max"), Read("version_again")>>
  BY <1>4, ShortTuples
<1>5. CASE todo = <<Write("max"), Read("version_again")>>
  BY <1>5, ShortTuples
<1>6. CASE todo = <<Read("version_again")>> /\ Agreed
  BY <1>6, ShortTuples
<1>7. CASE todo = <<Write("supported"), Read("method")>> /\ ver \in MinVersion..MaxVersion
  BY <1>7, ShortTuples
<1>8. CASE todo = <<Read("method")>> /\ ver \in MinVersion..MaxVersion /\ Agreed
  BY <1>8, ShortTuples
<1> QED
  BY <1>1, <1>2, <1>3, <1>4, <1>5, <1>6, <1>7, <1>8 DEF Negotiating

\* Whoever is about to read, write or look has an open socket and has not
\* refused the peer.
LEMMA HeadProperties ==
  ASSUME IInv, todo # <<>>, Head(todo).op \in {"write", "try", "read", "look"}
  PROVE  sock = "open" /\ ~Rejected
<1>1. Len(todo) \in Nat \ {0} /\ Head(todo) = todo[1]
  <2>1. CASE Negotiating
    BY <2>1, NegotiationHeads DEF Negotiating
  <2>2. CASE Answering
    BY <2>2, TailScript DEF Answering
  <2> QED
    BY <2>1, <2>2 DEF IInv
<1>2. 1 \in 1..Len(todo)
  BY <1>1
<1> QED
  BY <1>1, <1>2 DEF IInv, Ordered, Quiet

LEMMA NegotiationSpeaks ==
  ASSUME IInv, Negotiating, todo # <<>>, Head(todo).op \in {"write", "try"},
         todo' = Tail(todo), UNCHANGED <<sock, ver, method>>,
         \/ Head(todo).op = "try" /\ sent' = sent
         \/ sent' = Append(sent, Head(todo).arg)
  PROVE  IInv'
<1>1. sock = "open" /\ ~Rejected
  BY HeadProperties
<1>2. Quiet'
  BY <1>1 DEF Quiet
<1>3. \/ Head(todo) = Try("obsolete") /\ todo' = <<Close>>
      \/ Head(todo) = Write("unknown") /\ todo' = <<Write("max"), Read("version_again")>>
      \/ Head(todo) = Write("max") /\ todo' = <<Read("version_again")>>
      \/ /\ Head(todo) = Write("supported") /\ todo' = <<Read("method")>>
         /\ ver \in MinVersion..MaxVersion
  BY NegotiationHeads, OpFields
<1>4. Close.op = "close" /\ Len(<<Close>>) = 1 /\ \A x \in 1..1 : <<Close>>[x] = Close
  BY OpFields
<1>5. CASE Head(todo).op = "try" /\ sent' = sent
  <2>1. todo' = <<Close>>
    BY <1>3, <1>5, OpFields
  <2>2. Ordered'
    BY <1>1, <1>5 DEF IInv, Ordered, Rejected
  <2>3. Negotiating'
    BY <1>5, <2>1 DEF Negotiating, Sent
  <2> QED
    BY <1>2, <2>2, <2>3 DEF IInv
<1>6. CASE sent' = Append(sent, Head(todo).arg)
  <2>1. PICK w : w = Head(todo).arg
    OBVIOUS
  <2>2. \/ w = "obsolete" /\ todo' = <<Close>>
        \/ w = "unknown" /\ todo' = <<Write("max"), Read("version_again")>>
        \/ w = "max" /\ todo' = <<Read("version_again")>>
        \/ w = "supported" /\ todo' = <<Read("method")>> /\ ver \in MinVersion..MaxVersion
    BY <1>3, <2>1, OpFields
  <2>3. w \in Words /\ w \notin Content /\ w \notin Answers /\ w # "OK"
        /\ (w \in Rejections => w = "obsolete")
    BY <2>2 DEF Words, Content, Answers, Rejections
  <2>4. /\ sent' \in Seq(Words)
        /\ \A i \in 1..Len(sent') :
             /\ sent'[i] \in Content => \E j \in 1..(i - 1) : sent'[j] = "OK"
             /\ sent'[i] \in Answers => \E j \in 1..(i - 1) : sent'[j] \in {"supported", "max"}
             /\ sent'[i] \in Rejections => i = Len(sent')
        /\ \A m : Sent(m)' <=> Sent(m) \/ w = m
        /\ Agreed' <=> Agreed \/ w \in {"supported", "max"}
        /\ Rejected' <=> w \in Rejections
    BY <1>1, <1>6, <2>1, <2>3, AppendWord DEF IInv
  <2>5. Ordered'
    BY <1>4, <2>2, <2>3, <2>4 DEF Ordered
  <2>6. ~Sent("OK")'
    BY <2>3, <2>4 DEF Negotiating
  <2>7. Negotiating'
    BY <2>2, <2>4, <2>6 DEF Negotiating
  <2> QED
    BY <1>2, <2>5, <2>7 DEF IInv
<1> QED
  BY <1>5, <1>6

LEMMA ReadVersionStep ==
  ASSUME IInv, ReadVersion
  PROVE  IInv'
<1>1. /\ todo # <<>> /\ Head(todo).op = "read" /\ UNCHANGED <<sock, method, sent>>
      /\ Head(todo).arg \in {"version", "version_again"}
  BY DEF ReadVersion, Next1
<1>2. sock = "open" /\ ~Rejected
  BY <1>1, HeadProperties
<1>3. Negotiating
  <2>1. CASE Answering
    <3>1. Head(todo) \in HandlerOps
      BY <1>1, <2>1, TailScript DEF Answering
    <3> QED
      BY <1>1, <3>1, HandlerOpFields
  <2> QED
    BY <2>1 DEF IInv
<1>4. Ordered' /\ Quiet'
  BY <1>1, <1>2 DEF IInv, Ordered, Rejected, Quiet
<1>5. Head(todo).arg = "version_again" => Agreed
  BY <1>1, <1>3, NegotiationHeads, OpFields
<1>6. PICK v \in 0..5 :
       \/ /\ Head(todo).arg = "version"
          /\ todo' = Negotiate(v)
          /\ ver' = IF v \in MinVersion..MaxVersion THEN v ELSE 0
       \/ /\ Head(todo).arg = "version_again"
          /\ todo' = AfterOffer(v)
          /\ ver' = IF AfterOffer(v) = <<Close>> THEN 0 ELSE v
  BY DEF ReadVersion
<1>7. MinVersion \in 1..4 /\ MaxVersion \in MinVersion..4
  BY SessionAssumption
<1>8. \/ todo' \in {<<Close>>, <<Try("obsolete"), Close>>,
                   <<Write("unknown"), Write("max"), Read("version_again")>>}
      \/ todo' = <<Write("supported"), Read("method")>> /\ ver' \in MinVersion..MaxVersion
      \/ todo' = <<Read("method")>> /\ ver' \in MinVersion..MaxVersion /\ Agreed
  <2>1. CASE Head(todo).arg = "version"
    <3>1. todo' = Negotiate(v) /\ ver' = IF v \in MinVersion..MaxVersion THEN v ELSE 0
      BY <1>6, <2>1
    <3> QED
      BY <1>7, <3>1 DEF Negotiate
  <2>2. CASE Head(todo).arg = "version_again"
    <3>1. todo' = AfterOffer(v) /\ ver' = IF AfterOffer(v) = <<Close>> THEN 0 ELSE v
      BY <1>6, <2>2
    <3>2. <<Read("method")>> # <<Close>>
      BY DEF Read, Close
    <3>3. Agreed
      BY <1>5, <2>2
    <3> QED
      BY <1>7, <3>1, <3>2, <3>3 DEF AfterOffer
  <2> QED
    BY <1>1, <2>1, <2>2
<1>9. Agreed' = Agreed /\ Sent("OK")' = Sent("OK")
  BY <1>1 DEF Agreed, Sent
<1> QED
  BY <1>1, <1>3, <1>4, <1>8, <1>9 DEF IInv, Negotiating

LEMMA ReadMethodStep ==
  ASSUME IInv, ReadMethod
  PROVE  IInv'
<1>1. /\ todo # <<>> /\ Head(todo).op = "read" /\ UNCHANGED <<sock, ver, sent>>
      /\ Head(todo).arg = "method"
  BY DEF ReadMethod, Next1
<1>2. sock = "open" /\ ~Rejected
  BY <1>1, HeadProperties
<1>3. Negotiating
  <2>1. CASE Answering
    <3>1. Head(todo) \in HandlerOps
      BY <1>1, <2>1, TailScript DEF Answering
    <3> QED
      BY <1>1, <3>1, HandlerOpFields
  <2> QED
    BY <2>1 DEF IInv
<1>4. ver \in MinVersion..MaxVersion /\ Agreed /\ ~Sent("OK")
  BY <1>1, <1>3, NegotiationHeads, OpFields DEF Negotiating
<1>5. ver \in 1..4
  BY <1>4, SessionAssumption
<1>6. Ordered' /\ Quiet'
  BY <1>1, <1>2 DEF IInv, Ordered, Rejected, Quiet
<1>7. method' \in Methods \cup {BadMethod} /\ todo' = Version(ver, method')
  BY DEF ReadMethod
<1>8. method' # 0
  BY <1>7 DEF Methods, BadMethod
<1>9. /\ Script(todo') /\ Backed(todo') /\ PutsLate(todo', ver)
      /\ PutsOf(todo', method')
      /\ method' \in MethodsOf(ver) \cap Enabled \/ Refusal(todo')
  BY <1>5, <1>7, VersionScript
<1>10. Agreed' = Agreed /\ Sent("OK")' = Sent("OK")
  BY <1>1 DEF Agreed, Sent
<1>11. Served' \/ (~Sent("OK")' /\ \A x \in 1..Len(todo') : todo'[x].op \in {"try", "close"})
  BY <1>1, <1>4, <1>9, <1>10 DEF Served, Refusal
<1>12. Answering'
  BY <1>1, <1>4, <1>8, <1>9, <1>10, <1>11 DEF Answering, PutsLate, PutsOf
<1> QED
  BY <1>6, <1>12 DEF IInv

\* A look at the clipboard is answered.
LEMMA LookStep ==
  ASSUME IInv, LookAtClipboard, UNCHANGED <<sock, ended>>,
         \E shot \in BOOLEAN : todo' = Looked(Head(todo).arg, shot, Tail(todo))
  PROVE  IInv'
<1> DEFINE h == Head(todo)
<1>1. todo # <<>> /\ h.op = "look" /\ UNCHANGED <<sock, ver, method, sent>>
  BY DEF LookAtClipboard, Next1
<1>2. PICK shot \in BOOLEAN : todo' = Looked(h.arg, shot, Tail(todo))
  OBVIOUS
<1>3. sock = "open" /\ ~Rejected
  BY <1>1, HeadProperties
<1>4. Answering
  <2>1. CASE Negotiating
    BY <1>1, <2>1, NegotiationHeads, OpFields
  <2> QED
    BY <2>1 DEF IInv
<1>5. /\ Script(Tail(todo)) /\ Len(todo) \in Nat \ {0} /\ h \in HandlerOps /\ h = todo[1]
      /\ \A x \in 1..Len(Tail(todo)) : Follows(h, Tail(todo)[x])
  BY <1>1, <1>4, TailScript DEF Answering
<1> HIDE DEF h
<1>6. Closing(Tail(todo)) /\ Look(h.arg) \in Looks
  BY <1>1, <1>5, HandlerOpFields DEF Closing, Follows
<1>7. /\ Script(todo') /\ Backed(todo')
      /\ \A y \in 1..Len(todo') : todo'[y].op # "put"
  BY <1>2, <1>6, LookedScript
<1>8. Served
  <2>1. 1 \in 1..Len(todo)
    BY <1>5
  <2> QED
    BY <1>1, <1>4, <1>5, <2>1 DEF Answering
<1>9. Ordered' /\ Quiet'
  BY <1>1, <1>3 DEF IInv, Ordered, Rejected, Quiet
<1>10. Agreed' = Agreed /\ Served' = Served
  BY <1>1 DEF Agreed, Served
<1>11. Answering'
  BY <1>1, <1>4, <1>7, <1>8, <1>10 DEF Answering
<1> QED
  BY <1>9, <1>11 DEF IInv

\* An operation other than a look is done, or fails and is ignored.
LEMMA DoneStep ==
  ASSUME IInv, todo # <<>>,
         todo' = Tail(todo), UNCHANGED <<ver, method>>,
         Head(todo).op \in {"write", "try", "close"} \/ Head(todo).arg \notin
           {"version", "version_again", "method"},
         \/ Head(todo).op = "close" /\ sock' = "closed"
         \/ Head(todo).op # "close" /\ sock' = sock,
         \/ Head(todo).op # "write" /\ sent' = sent
         \/ Head(todo).op \in {"write", "try"} /\ sent' = Append(sent, Head(todo).arg),
         \/ Head(todo) # Read("files") /\ received' = received
         \/ received' = "files"
         \/ Head(todo).op = "read" /\ Head(todo).arg = "text"
  PROVE  IInv'
<1>1. CASE Answering
  BY <1>1, AnswerStep
<1>2. CASE Negotiating
  <2>1. \/ Head(todo) = Close /\ Tail(todo) = <<>>
        \/ Head(todo).op \in {"write", "try"}
    BY <1>2, NegotiationHeads, OpFields
  <2>2. CASE Head(todo) = Close /\ Tail(todo) = <<>>
    <3>1. todo' = <<>> /\ sock' \in {sock, "closed"} /\ sent' = sent
      BY <2>2, OpFields
    <3> QED
      BY <3>1, DropStep
  <2>3. CASE Head(todo).op \in {"write", "try"}
    <3>1. sock' = sock
      BY <2>3
    <3>2. \/ Head(todo).op = "try" /\ sent' = sent
          \/ sent' = Append(sent, Head(todo).arg)
      BY <2>3
    <3> QED
      BY <1>2, <2>3, <3>1, <3>2, NegotiationSpeaks
  <2> QED
    BY <2>1, <2>2, <2>3
<1> QED
  BY <1>1, <1>2 DEF IInv

\* The text or the files are put on the clipboard, the selection is served.
LEMMA PutStep ==
  ASSUME IInv, Next1("put"), todo' = <<Own>>, UNCHANGED <<sock, ver, method, sent>>
  PROVE  IInv'
<1>1. todo # <<>> /\ Head(todo).op = "put"
  BY DEF Next1
<1>2. Answering
  <2>1. CASE Negotiating
    BY <1>1, <2>1, NegotiationHeads, OpFields
  <2> QED
    BY <2>1 DEF IInv
<1>3. Len(todo) \in Nat \ {0} /\ Head(todo) = todo[1]
  BY <1>1, <1>2, TailScript DEF Answering
<1>4. 1 \in 1..Len(todo)
  BY <1>3
<1>5. Served /\ ~Rejected
  BY <1>1, <1>2, <1>3, <1>4 DEF IInv, Answering, Ordered
<1>6. Len(todo') = 1 /\ todo'[1].op = "own" /\ todo' \in Seq(HandlerOps)
  <2>1. Own \in HandlerOps
    BY DEF HandlerOps
  <2> QED
    BY <2>1, OpFields
<1>7. \A x \in 1..Len(todo') : todo'[x].op = "own"
  BY <1>6
<1>8. Script(todo') /\ Backed(todo')
  BY <1>6, <1>7 DEF Script, Backed, IsContent
<1>9. Ordered' /\ Quiet'
  BY <1>5, <1>7 DEF IInv, Ordered, Rejected, Quiet
<1>10. Agreed' = Agreed /\ Served' = Served
  BY DEF Agreed, Served
<1>11. Answering'
  BY <1>2, <1>5, <1>7, <1>8, <1>10 DEF Answering
<1> QED
  BY <1>9, <1>11 DEF IInv

LEMMA SameStep ==
  ASSUME IInv, UNCHANGED <<todo, sock, ver, method, sent, received>>
  PROVE  IInv'
BY DEF IInv, Negotiating, Answering, Ordered, Quiet, Agreed, Rejected, Served, Sent,
       Script, Backed

LEMMA InitIInv == Init => IInv
<1> SUFFICES ASSUME Init PROVE IInv
  OBVIOUS
<1>1. sent = <<>> /\ Len(sent) = 0 /\ sent \in Seq(Words)
  BY DEF Init
<1>2. Ordered
  BY <1>1 DEF Ordered, Rejected
<1>3. Negotiating
  BY <1>1 DEF Init, Negotiating, Sent
<1> QED
  BY <1>2, <1>3 DEF Init, IInv, Quiet

LEMMA NextIInv == IInv /\ [Next]_vars => IInv'
<1> SUFFICES ASSUME IInv, [Next]_vars PROVE IInv'
  OBVIOUS
<1>1. CASE WriteOk
  BY <1>1, OpFields, DoneStep DEF WriteOk, Next1
<1>2. CASE WriteFailed
  <2>1. CASE Next1("try") /\ todo' = Tail(todo) /\ UNCHANGED <<sock, ended>>
    BY <1>2, <2>1, OpFields, DoneStep DEF WriteFailed, Next1
  <2>2. CASE todo' = <<>> /\ sock' \in {sock, "closed"}
    BY <1>2, <2>2, DropStep DEF WriteFailed
  <2> QED
    BY <1>2, <2>1, <2>2 DEF WriteFailed, Killed
<1>3. CASE ReadVersion
  BY <1>3, ReadVersionStep
<1>4. CASE ReadMethod
  BY <1>4, ReadMethodStep
<1>5. CASE ReadLength
  <2>1. CASE todo' = <<>>
    BY <1>5, <2>1, DropStep DEF ReadLength
  <2>2. CASE todo' = Tail(todo)
    BY <1>5, <2>2, OpFields, DoneStep DEF ReadLength, Next1
  <2> QED
    BY <1>5, <2>1, <2>2 DEF ReadLength
<1>6. CASE ReadText
  BY <1>6, DoneStep DEF ReadText, Next1
<1>7. CASE ReadFiles
  BY <1>7, DoneStep DEF ReadFiles, Next1
<1>8. CASE ReadOther
  <2>1. CASE todo' = <<>>
    BY <1>8, <2>1, DropStep DEF ReadOther
  <2>2. CASE Head(todo).arg \in {"display", "ack"} /\ todo' = Tail(todo)
    BY <1>8, <2>2, OpFields, DoneStep DEF ReadOther, Next1
  <2> QED
    BY <1>8, <2>1, <2>2 DEF ReadOther
<1>9. CASE ReadFailed
  BY <1>9, DropStep DEF ReadFailed
<1>10. CASE LookAtClipboard
  <2>1. CASE Killed
    BY <1>10, <2>1, DropStep DEF LookAtClipboard, Killed
  <2>2. CASE ~Killed
    BY <1>10, <2>2, LookStep DEF LookAtClipboard
  <2> QED
    BY <2>1, <2>2
<1>11. CASE CloseSocket
  <2>1. CASE sock' = "closed" /\ todo' = Tail(todo)
    BY <1>11, <2>1, OpFields, DoneStep DEF CloseSocket, Next1
  <2>2. CASE Killed
    BY <1>11, <2>2, DropStep DEF CloseSocket, Killed
  <2> QED
    BY <1>11, <2>1, <2>2 DEF CloseSocket
<1>12. CASE PutText
  <2>1. CASE todo' = <<Own>>
    BY <1>12, <2>1, PutStep DEF PutText
  <2>2. CASE todo' = <<>>
    BY <1>12, <2>2, DropStep DEF PutText
  <2> QED
    BY <1>12, <2>1, <2>2 DEF PutText
<1>13. CASE PutFiles
  <2>1. CASE todo' = <<Own>>
    BY <1>13, <2>1, PutStep DEF PutFiles
  <2>2. CASE todo' = <<>>
    BY <1>13, <2>2, DropStep DEF PutFiles
  <2> QED
    BY <1>13, <2>1, <2>2 DEF PutFiles
<1>14. CASE LoseSelection
  BY <1>14, DropStep DEF LoseSelection
<1>15. CASE Finish
  BY <1>15, DropStep DEF Finish
<1>16. CASE Copy
  BY <1>16, SameStep DEF Copy
<1>17. CASE UNCHANGED vars
  BY <1>17, SameStep DEF vars
<1> QED
  BY <1>1, <1>2, <1>3, <1>4, <1>5, <1>6, <1>7, <1>8, <1>9, <1>10, <1>11, <1>12, <1>13,
     <1>14, <1>15, <1>16, <1>17 DEF Next, Step

LEMMA Inductive == Spec => []IInv
BY InitIInv, NextIInv, PTL DEF Spec

-----------------------------------------------------------------------------
(* What the session promises.                                              *)

\* Whatever the peer sends and whatever else is copied, a status OK is only
\* ever sent in a version the configuration allows and for a method that
\* version has and the configuration enables: server() and version_N() let
\* nothing past their checks.
THEOREM ServedAsConfiguredHolds == Spec => []ServedAsConfigured
<1>1. IInv => ServedAsConfigured
  BY DEF IInv, Negotiating, Answering, Served, ServedAsConfigured
<1> QED
  BY <1>1, Inductive, PTL

\* Every handler speaks in order: the agreement, the status, the contents; a
\* rejection ends the conversation, and no socket is used once it is closed.
THEOREM AnswerInOrderHolds == Spec => []AnswerInOrder
<1>1. IInv => AnswerInOrder
  <2> SUFFICES ASSUME IInv PROVE AnswerInOrder
    OBVIOUS
  <2>1. Next1("write") \/ Next1("try") \/ Next1("read") => sock = "open"
    BY HeadProperties DEF Next1
  <2>2. \A i \in 1..Len(sent) :
          /\ sent[i] \in {"size", "data", "file", "type", "ack"}
               => \E j \in 1..(i - 1) : sent[j] = "OK"
          /\ sent[i] \in Answers
               => \E j \in 1..(i - 1) : sent[j] \in {"supported", "max"}
          /\ sent[i] \in Rejections => i = Len(sent)
    BY DEF IInv, Ordered, Content
  <2> QED
    BY <2>1, <2>2 DEF AnswerInOrder
<1> QED
  BY <1>1, Inductive, PTL

\* The clipboard is taken over only in put_clipboard_text(), for a text that
\* was received in full, is valid and not empty, and in
\* set_clipboard_cut_files(), for files that were all received and are to be
\* cut; in both cases after the peer was released and, in version 4, told
\* that its data arrived.
THEOREM ClipboardTakenOnlyByReceivedHolds == Spec => ClipboardTakenOnlyByReceived
<1> DEFINE Right == /\ method \in Enabled /\ sock = "closed"
                    /\ ver >= 4 => Sent("ack")
                    /\ clip' = "mytext" => method = SEND_TEXT /\ received = "valid"
                    /\ clip' = "myfiles"
                         => method = SEND_FILE /\ received = "files" /\ CutSentFiles
<1>1. IInv /\ [Next]_vars => [clip' # clip /\ clip' \in Mine => Right]_vars
  <2> SUFFICES ASSUME IInv, Next, clip' # clip, clip' \in Mine
               PROVE  Right
    OBVIOUS
  <2>1. ASSUME PutText \/ PutFiles
        PROVE  Right
    <3>1. /\ todo # <<>> /\ Head(todo).op = "put"
          /\ \/ Head(todo).arg = "text" /\ received = "valid" /\ clip' = "mytext"
             \/ Head(todo).arg = "files" /\ CutSentFiles /\ clip' = "myfiles"
      BY <2>1 DEF PutText, PutFiles, Next1
    <3>2. Answering
      <4>1. CASE Negotiating
        BY <3>1, <4>1, NegotiationHeads, OpFields
      <4> QED
        BY <4>1 DEF IInv
    <3>3. Len(todo) \in Nat \ {0} /\ Head(todo) = todo[1]
      BY <3>1, <3>2, TailScript DEF Answering
    <3>4. 1 \in 1..Len(todo) /\ \A y \in 1..(1 - 1) : FALSE
      BY <3>3
    <3>5. Served
      BY <3>1, <3>2, <3>3, <3>4 DEF Answering
    <3>6. /\ \/ todo[1].arg = "text" /\ method = SEND_TEXT
             \/ todo[1].arg = "files" /\ method = SEND_FILE /\ received = "files"
          /\ sock = "closed"
          /\ ver >= 4 => Sent("ack")
      BY <3>1, <3>2, <3>3, <3>4 DEF Answering
    <3> QED
      BY <3>1, <3>3, <3>5, <3>6 DEF Served
  <2>2. CASE Copy
    <3>1. clip' \in {"empty", "text", "longtext", "files", "image"}
      BY <2>2, SessionAssumption DEF Copy
    <3> QED
      BY <3>1 DEF Mine
  <2>3. CASE ~PutText /\ ~PutFiles /\ ~Copy
    BY <2>3 DEF Next, Step, WriteOk, WriteFailed, ReadVersion, ReadMethod, ReadLength,
       ReadText, ReadFiles, ReadOther, ReadFailed, LookAtClipboard, CloseSocket,
       LoseSelection, Finish
  <2> QED
    BY <2>1, <2>2, <2>3
<1> QED
  BY <1>1, Inductive, PTL DEF Spec, ClipboardTakenOnlyByReceived

=============================================================================
