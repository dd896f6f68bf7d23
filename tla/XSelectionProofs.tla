-------------------------- MODULE XSelectionProofs --------------------------
(***************************************************************************)
(* Proofs about XSelection, for any number of requestors, texts of every   *)
(* length and chunks of every size.                                        *)
(***************************************************************************)
EXTENDS XSelection, SequenceTheorems, TLAPS

EventSet ==
  {Event("clear", Nobody)} \cup {Event(t, r) : t \in {"request", "new", "deleted"}, r \in Requestors}

-----------------------------------------------------------------------------
(* The inductive invariant.                                                *)

Typed ==
  /\ queue \in Seq(EventSet) /\ text \in Seq(Nat) /\ pos \in Nat
  /\ DOMAIN property = Requestors /\ DOMAIN events = Requestors
  /\ DOMAIN ctx = Requestors /\ DOMAIN got = Requestors
  /\ context \in {"none", "incr"}

\* What the owner has yet to read in a queue.
NoRequest(q, r) == \A j \in 1..Len(q) : q[j] # Event("request", r)
NoDeleted(q) == \A j \in 1..Len(q) : q[j].type # "deleted"
OneDeleted(q) ==
  \E j \in 1..Len(q) : q[j].type = "deleted" /\ \A h \in 1..Len(q) : h # j => q[h].type # "deleted"

\* a request, the only one of r, that no deletion follows
OneRequest(q, r) ==
  \E j \in 1..Len(q) :
    /\ q[j] = Event("request", r)
    /\ \A h \in 1..Len(q) : h # j => q[h] # Event("request", r)
    /\ \A h \in 1..Len(q) : h > j => q[h].type # "deleted"

\* the first m bytes of the text
Upto(m) == SubSeq(text, 1, IF m > Len(text) THEN Len(text) ELSE m)

\* How far the session r is with the owner.
Idle(r) ==
  /\ ctx[r] = "idle" /\ events[r] = <<>> /\ property[r] = NoProp /\ got[r] = <<>>
  /\ NoRequest(queue, r)

Asked(r) ==
  /\ ctx[r] = "sent" /\ events[r] = <<>> /\ property[r] = NoProp /\ got[r] = <<>>
  /\ OneRequest(queue, r)

\* it is the new owner that answers, or does not
Refusal(r) ==
  /\ ctx[r] = "sent" /\ (events[r] = <<"refused">> \/ (events[r] = <<>> /\ r \in silent))
  /\ NoRequest(queue, r)

Answered(r) ==
  /\ ctx[r] = "sent" /\ events[r] \in {<<"new", "notify">>, <<"notify">>} /\ got[r] = <<>>
  /\ NoRequest(queue, r)
  /\ property[r] = IF Long THEN Incr ELSE Data(text)
  /\ Long => /\ context = "incr" /\ win = r /\ pos = 0 /\ r \in watched
             /\ NoDeleted(queue)

\* the owner has to send the next chunk
Waiting(r) ==
  /\ ctx[r] = "incr" /\ events[r] \in {<<"deleted">>, <<>>} /\ property[r] = NoProp
  /\ Long /\ context = "incr" /\ win = r /\ r \in watched
  /\ NoRequest(queue, r) /\ OneDeleted(queue)
  /\ got[r] = Upto(pos)

\* it has sent one
Sending(r) ==
  /\ ctx[r] = "incr" /\ events[r] \in {<<"deleted", "new">>, <<"new">>}
  /\ Long /\ win = r /\ r \in watched
  /\ NoRequest(queue, r) /\ NoDeleted(queue)
  /\ LET d == property[r].data
     IN /\ property[r] = Data(d)
        /\ IF d = <<>> THEN context = "none" /\ got[r] = text
           ELSE context = "incr" /\ got[r] \o d = Upto(pos)

Over(r) ==
  /\ ctx[r] \in {"done", "failed"}
  /\ NoRequest(queue, r)
  /\ ctx[r] = "done" => got[r] = text

Gone(r) == ctx[r] = "gone"

\* It waits for this owner.
Engaged(r) == Asked(r) \/ Answered(r) \/ Waiting(r) \/ Sending(r)

Apart(r) == Idle(r) \/ Refusal(r) \/ Over(r) \/ Gone(r)

Phase(r) == Engaged(r) \/ Apart(r)

\* One long text at a time, and none of its machinery for a short one.
Turns ==
  /\ Long => \A q, r \in Requestors : Engaged(q) /\ Engaged(r) => q = r
  /\ ~Long => watched = {} /\ context = "none" /\ NoDeleted(queue)

\* A transfer has a requestor, or had one that was killed.
Transfer ==
  context = "incr" =>
    /\ win \in Requestors
    /\ \/ Answered(win) \/ Waiting(win) \/ Sending(win)
       \/ ctx[win] = "gone" /\ \A r \in Requestors : ~Engaged(r)

IInv == Typed /\ Turns /\ Transfer /\ \A r \in Requestors : Phase(r)

-----------------------------------------------------------------------------
(* Queues.                                                                 *)

LEMMA TailQueue ==
  ASSUME NEW q \in Seq(EventSet), q # <<>>
  PROVE  /\ Head(q) \in EventSet /\ Tail(q) \in Seq(EventSet)
         /\ \A r \in Requestors : NoRequest(q, r) => NoRequest(Tail(q), r)
         /\ \A r \in Requestors :
              OneRequest(q, r) =>
                IF Head(q) = Event("request", r)
                THEN NoRequest(Tail(q), r) /\ NoDeleted(Tail(q))
                ELSE OneRequest(Tail(q), r)
         /\ NoDeleted(q) => Head(q).type # "deleted" /\ NoDeleted(Tail(q))
         /\ OneDeleted(q) => IF Head(q).type = "deleted" THEN NoDeleted(Tail(q))
                             ELSE OneDeleted(Tail(q))
         /\ \A r \in Requestors : NoRequest(q, r) => Head(q) # Event("request", r)
<1> DEFINE t == Tail(q)
<1>1. /\ Len(q) \in Nat \ {0} /\ q[1] = Head(q) /\ Head(q) \in EventSet
      /\ t \in Seq(EventSet) /\ Len(t) = Len(q) - 1
      /\ \A j \in 1..Len(t) : t[j] = q[j + 1]
  BY HeadTailProperties, LenProperties, EmptySeq
<1> HIDE DEF t
<1>2. 1 \in 1..Len(q) /\ \A j \in 1..Len(t) : j + 1 \in 1..Len(q) /\ j + 1 # 1
  BY <1>1
<1>3. ASSUME NEW r \in Requestors, NoRequest(q, r)
      PROVE  NoRequest(t, r) /\ Head(q) # Event("request", r)
  BY <1>1, <1>2, <1>3 DEF NoRequest
<1>4. ASSUME NoDeleted(q) PROVE Head(q).type # "deleted" /\ NoDeleted(t)
  BY <1>1, <1>2, <1>4 DEF NoDeleted
<1>5. ASSUME OneDeleted(q)
      PROVE  IF Head(q).type = "deleted" THEN NoDeleted(t) ELSE OneDeleted(t)
  <2>1. PICK j \in 1..Len(q) :
          q[j].type = "deleted" /\ \A h \in 1..Len(q) : h # j => q[h].type # "deleted"
    BY <1>5 DEF OneDeleted
  <2>2. CASE j = 1
    BY <1>1, <1>2, <2>1, <2>2 DEF NoDeleted
  <2>3. CASE j # 1
    <3>1. j - 1 \in 1..Len(t) /\ (j - 1) + 1 = j
      BY <1>1, <2>3
    <3>2. \A h \in 1..Len(t) : h # j - 1 => h + 1 # j
      BY <1>1
    <3>3. OneDeleted(t)
      BY <1>1, <1>2, <2>1, <3>1, <3>2 DEF OneDeleted
    <3>4. Head(q).type # "deleted"
      BY <1>1, <1>2, <2>1, <2>3
    <3> QED
      BY <3>3, <3>4
  <2> QED
    BY <2>2, <2>3
<1>6. ASSUME NEW r \in Requestors, OneRequest(q, r)
      PROVE  IF Head(q) = Event("request", r)
             THEN NoRequest(t, r) /\ NoDeleted(t) ELSE OneRequest(t, r)
  <2>1. PICK j \in 1..Len(q) :
          /\ q[j] = Event("request", r)
          /\ \A h \in 1..Len(q) : h # j => q[h] # Event("request", r)
          /\ \A h \in 1..Len(q) : h > j => q[h].type # "deleted"
    BY <1>6 DEF OneRequest
  <2>2. CASE j = 1
    <3>1. \A h \in 1..Len(t) : h + 1 > 1 /\ h + 1 # 1
      BY <1>1
    <3> QED
      BY <1>1, <1>2, <2>1, <2>2, <3>1 DEF NoRequest, NoDeleted
  <2>3. CASE j # 1
    <3>1. j - 1 \in 1..Len(t) /\ (j - 1) + 1 = j
      BY <1>1, <2>3
    <3>2. \A h \in 1..Len(t) : (h # j - 1 => h + 1 # j) /\ (h > j - 1 => h + 1 > j)
      BY <1>1
    <3>3. OneRequest(t, r)
      BY <1>1, <1>2, <2>1, <3>1, <3>2 DEF OneRequest
    <3>4. Head(q) # Event("request", r)
      BY <1>1, <1>2, <2>1, <2>3
    <3> QED
      BY <3>3, <3>4
  <2> QED
    BY <2>2, <2>3
<1> QED
  BY <1>1, <1>3, <1>4, <1>5, <1>6 DEF t

LEMMA AppendQueue ==
  ASSUME NEW q \in Seq(EventSet), NEW e \in EventSet
  PROVE  /\ Append(q, e) \in Seq(EventSet) /\ Append(q, e) # <<>>
         /\ \A r \in Requestors :
              NoRequest(q, r) => IF e = Event("request", r) THEN OneRequest(Append(q, e), r)
                                 ELSE NoRequest(Append(q, e), r)
         /\ \A r \in Requestors :
              OneRequest(q, r) /\ e # Event("request", r) /\ e.type # "deleted"
                => OneRequest(Append(q, e), r)
         /\ NoDeleted(q) => IF e.type = "deleted" THEN OneDeleted(Append(q, e))
                            ELSE NoDeleted(Append(q, e))
         /\ OneDeleted(q) /\ e.type # "deleted" => OneDeleted(Append(q, e))
<1> DEFINE a == Append(q, e)
<1>1. /\ a \in Seq(EventSet) /\ Len(a) = Len(q) + 1 /\ Len(q) \in Nat
      /\ \A j \in 1..Len(q) : a[j] = q[j]
      /\ a[Len(q) + 1] = e
  BY AppendProperties, LenProperties
<1> HIDE DEF a
<1>2. /\ Len(a) \in 1..Len(a) /\ a[Len(a)] = e /\ a # <<>>
      /\ \A j \in 1..Len(q) : j \in 1..Len(a) /\ j # Len(a) /\ ~(j > Len(a))
      /\ \A j \in 1..Len(a) : j \in 1..Len(q) \/ j = Len(a)
  BY <1>1
<1>3. ASSUME NEW r \in Requestors, NoRequest(q, r)
      PROVE  IF e = Event("request", r) THEN OneRequest(a, r) ELSE NoRequest(a, r)
  <2>1. CASE e = Event("request", r)
    <3>1. \A h \in 1..Len(a) : ~(h > Len(a))
      BY <1>1
    <3>2. \A h \in 1..Len(a) : h # Len(a) => a[h] # Event("request", r)
      BY <1>1, <1>2, <1>3 DEF NoRequest
    <3> QED
      BY <1>2, <2>1, <3>1, <3>2 DEF OneRequest
  <2>2. CASE e # Event("request", r)
    BY <1>1, <1>2, <1>3, <2>2 DEF NoRequest
  <2> QED
    BY <2>1, <2>2
<1>4. ASSUME NEW r \in Requestors, OneRequest(q, r), e # Event("request", r), e.type # "deleted"
      PROVE  OneRequest(a, r)
  <2>1. PICK j \in 1..Len(q) :
          /\ q[j] = Event("request", r)
          /\ \A h \in 1..Len(q) : h # j => q[h] # Event("request", r)
          /\ \A h \in 1..Len(q) : h > j => q[h].type # "deleted"
    BY <1>4 DEF OneRequest
  <2>2. j \in 1..Len(a) /\ a[j] = Event("request", r)
    BY <1>1, <1>2, <2>1
  <2>3. \A h \in 1..Len(a) : h # j => a[h] # Event("request", r)
    BY <1>1, <1>2, <1>4, <2>1
  <2>4. \A h \in 1..Len(a) : h > j => a[h].type # "deleted"
    BY <1>1, <1>2, <1>4, <2>1
  <2> QED
    BY <2>2, <2>3, <2>4 DEF OneRequest
<1>5. ASSUME NoDeleted(q)
      PROVE  IF e.type = "deleted" THEN OneDeleted(a) ELSE NoDeleted(a)
  BY <1>1, <1>2, <1>5 DEF NoDeleted, OneDeleted
<1>6. ASSUME OneDeleted(q), e.type # "deleted" PROVE OneDeleted(a)
  <2>1. PICK j \in 1..Len(q) :
          q[j].type = "deleted" /\ \A h \in 1..Len(q) : h # j => q[h].type # "deleted"
    BY <1>6 DEF OneDeleted
  <2>2. j \in 1..Len(a) /\ a[j].type = "deleted"
    BY <1>1, <1>2, <2>1
  <2>3. \A h \in 1..Len(a) : h # j => a[h].type # "deleted"
    BY <1>1, <1>2, <1>6, <2>1
  <2> QED
    BY <2>2, <2>3 DEF OneDeleted
<1> QED
  BY <1>1, <1>2, <1>3, <1>4, <1>5, <1>6 DEF a

-----------------------------------------------------------------------------
(* The text.                                                               *)

LEMMA SubSeqPart ==
  ASSUME NEW t \in Seq(Nat), NEW m \in Nat, NEW n \in 0..Len(t), m <= n
  PROVE  LET u == SubSeq(t, m + 1, n) IN
         /\ u \in Seq(Nat) /\ Len(u) = n - m
         /\ \A j \in 1..(n - m) : u[j] = t[m + j]
<1> DEFINE u == SubSeq(t, m + 1, n)
<1>1. Len(t) \in Nat /\ n \in Nat /\ n <= Len(t)
  BY LenProperties
<1>2. \A j \in (m + 1)..n : t[j] \in Nat
  <2>1. \A j \in (m + 1)..n : j \in 1..Len(t)
    BY <1>1
  <2> QED
    BY <2>1, ElementOfSeq
<1>3. /\ u \in Seq(Nat)
      /\ Len(u) = IF m + 1 <= n THEN n - (m + 1) + 1 ELSE 0
      /\ \A j \in 1..(n - (m + 1) + 1) : u[j] = t[(m + 1) + j - 1]
  BY <1>1, <1>2, SubSeqProperties
<1> HIDE DEF u
<1>4. Len(u) = n - m
  BY <1>1, <1>3
<1>5. ASSUME NEW j \in 1..(n - m) PROVE u[j] = t[m + j]
  <2>1. j \in 1..(n - (m + 1) + 1) /\ (m + 1) + j - 1 = m + j
    BY <1>1
  <2> QED
    BY <1>3, <2>1
<1> QED
  BY <1>3, <1>4, <1>5 DEF u

\* The chunks make up the text.
LEMMA Chunks ==
  ASSUME Typed
  PROVE  /\ Upto(0) = <<>>
         /\ Upto(pos) \o Chunk = Upto(pos + ChunkSize)
         /\ Chunk = <<>> => Upto(pos) = text
<1> DEFINE cut(m) == IF m > Len(text) THEN Len(text) ELSE m
<1>1. text \in Seq(Nat) /\ Len(text) \in Nat /\ pos \in Nat /\ ChunkSize \in Nat \ {0}
  BY XSelectionAssumption, LenProperties DEF Typed
<1>2. \A m \in Nat : cut(m) \in 0..Len(text) /\ cut(m) \in Nat
  BY <1>1
<1>3. cut(0) = 0 /\ cut(pos) <= cut(pos + ChunkSize)
      /\ (pos < Len(text) => cut(pos) = pos /\ pos < cut(pos + ChunkSize))
      /\ (pos >= Len(text) => cut(pos) = Len(text) /\ cut(pos + ChunkSize) = Len(text))
  BY <1>1
<1>4. pos + ChunkSize \in Nat
  BY <1>1
<1>5. \A m : Upto(m) = SubSeq(text, 1, cut(m))
  BY DEF Upto
<1>6. Chunk = SubSeq(text, pos + 1, cut(pos + ChunkSize))
  BY DEF Chunk
<1> HIDE DEF cut
<1>7. ASSUME NEW m \in Nat
      PROVE  /\ Upto(m) \in Seq(Nat) /\ Len(Upto(m)) = cut(m)
             /\ \A j \in 1..cut(m) : Upto(m)[j] = text[j]
  <2>1. cut(m) \in 0..Len(text) /\ 0 \in Nat /\ 0 <= cut(m) /\ cut(m) \in Nat
    BY <1>1, <1>2
  <2>2. LET u == SubSeq(text, 0 + 1, cut(m)) IN
        /\ u \in Seq(Nat) /\ Len(u) = cut(m) - 0
        /\ \A j \in 1..(cut(m) - 0) : u[j] = text[0 + j]
    BY <1>1, <2>1, SubSeqPart
  <2>3. 0 + 1 = 1 /\ cut(m) - 0 = cut(m) /\ \A j \in 1..cut(m) : 0 + j = j
    BY <2>1
  <2> QED
    BY <1>5, <2>2, <2>3
<1>8. Upto(0) = <<>>
  BY <1>3, <1>7, EmptySeq
<1>9. CASE pos < Len(text)
  <2> DEFINE c == SubSeq(text, pos + 1, cut(pos + ChunkSize))
             n == cut(pos + ChunkSize)
             s == Upto(pos) \o c
  <2>1. n \in 0..Len(text) /\ n \in Nat /\ pos <= n /\ pos < n
    BY <1>1, <1>2, <1>3, <1>4, <1>9
  <2>2. c \in Seq(Nat) /\ Len(c) = n - pos /\ \A j \in 1..(n - pos) : c[j] = text[pos + j]
    BY <1>1, <2>1, SubSeqPart
  <2>3. /\ Upto(pos) \in Seq(Nat) /\ Len(Upto(pos)) = pos
        /\ \A j \in 1..pos : Upto(pos)[j] = text[j]
    BY <1>1, <1>3, <1>7, <1>9
  <2>4. /\ Upto(pos + ChunkSize) \in Seq(Nat) /\ Len(Upto(pos + ChunkSize)) = n
        /\ \A j \in 1..n : Upto(pos + ChunkSize)[j] = text[j]
    BY <1>4, <1>7
  <2> DEFINE a == Upto(pos)
             b == Upto(pos + ChunkSize)
  <2> HIDE DEF c, n, a, b
  <2>5. /\ s = a \o c /\ a \in Seq(Nat) /\ Len(a) = pos
        /\ \A j \in 1..pos : a[j] = text[j]
    BY <2>3 DEF a
  <2> HIDE DEF s
  <2>6. /\ s \in Seq(Nat) /\ Len(s) = Len(a) + Len(c)
        /\ \A j \in 1..(Len(a) + Len(c)) : s[j] = IF j <= Len(a) THEN a[j] ELSE c[j - Len(a)]
    BY <2>2, <2>5, ConcatProperties
  <2>7. Len(s) = n
    BY <1>1, <2>1, <2>2, <2>5, <2>6
  <2>8. ASSUME NEW j \in 1..n PROVE s[j] = text[j]
    <3>1. j \in 1..(Len(a) + Len(c))
      BY <2>6, <2>7
    <3>2. CASE j <= pos
      <4>1. j \in 1..pos
        BY <3>2
      <4> QED
        BY <2>5, <2>6, <3>1, <3>2, <4>1
    <3>3. CASE ~(j <= pos)
      <4>1. j - pos \in 1..(n - pos) /\ pos + (j - pos) = j
        BY <1>1, <2>1, <3>3
      <4>2. s[j] = c[j - pos]
        BY <2>5, <2>6, <3>1, <3>3
      <4> QED
        BY <2>2, <4>1, <4>2
    <3> QED
      BY <3>2, <3>3
  <2>9. b \in Seq(Nat) /\ Len(b) = n /\ \A j \in 1..n : b[j] = text[j]
    BY <2>4 DEF b
  <2>10. s = b
    BY <2>6, <2>7, <2>8, <2>9, SeqEqual
  <2>11. c # <<>>
    BY <1>1, <2>1, <2>2
  <2> QED
    BY <1>6, <1>8, <2>10, <2>11 DEF s, b, c
<1>10. CASE pos >= Len(text)
  <2>1. cut(pos) = Len(text) /\ cut(pos + ChunkSize) = Len(text)
    BY <1>3, <1>10
  <2>2. Upto(pos) = text /\ Upto(pos + ChunkSize) = text
    BY <1>1, <1>4, <1>7, <2>1, SeqEqual
  <2>3. Chunk = <<>>
    BY <1>1, <1>6, <1>10, <2>1, SubSeqEmpty
  <2>4. text \o <<>> = text
    BY <1>1, ConcatEmptySeq
  <2> QED
    BY <1>8, <2>2, <2>3, <2>4
<1> QED
  BY <1>1, <1>9, <1>10

\* The events the owner may read.
LEMMA EventFacts ==
  /\ Event("clear", Nobody) \in EventSet
  /\ \A t \in {"request", "new", "deleted"}, r \in Requestors : Event(t, r) \in EventSet
  /\ \A t, r : Event(t, r).type = t /\ Event(t, r).from = r
  /\ \A e \in EventSet : e.type = "request" => e.from \in Requestors /\ e = Event("request", e.from)
<1>1. \A t, r : Event(t, r).type = t /\ Event(t, r).from = r
  BY DEF Event
<1>2. /\ Event("clear", Nobody) \in EventSet
      /\ \A t \in {"request", "new", "deleted"}, r \in Requestors : Event(t, r) \in EventSet
  BY DEF EventSet
<1>3. ASSUME NEW e \in EventSet, e.type = "request"
      PROVE  e.from \in Requestors /\ e = Event("request", e.from)
  <2>1. e # Event("clear", Nobody)
    BY <1>1, <1>3
  <2>2. PICK t \in {"request", "new", "deleted"}, r \in Requestors : e = Event(t, r)
    BY <2>1 DEF EventSet
  <2> QED
    BY <1>1, <1>3, <2>2
<1> QED
  BY <1>1, <1>2, <1>3

\* A queue of one event, and one more.
LEMMA AppendSecond ==
  ASSUME NEW S, NEW o \in Seq(S), Len(o) = 1, NEW b \in S
  PROVE  Append(o, b) = <<o[1], b>> /\ o \o <<b>> = <<o[1], b>>
<1>1. Append(o, b) \in Seq(S) /\ Len(Append(o, b)) = Len(o) + 1
  BY AppendProperties
<1>7. Append(o, b)[Len(o) + 1] = b
  BY AppendProperties
<1>8. \A j \in 1..Len(o) : Append(o, b)[j] = o[j]
  BY AppendProperties
<1>9. Append(o, b) = o \o <<b>>
  BY AppendIsConcat, Zenon
<1>2. o[1] \in S
  BY ElementOfSeq, 1 \in 1..Len(o)
<1> DEFINE t == <<o[1], b>>
<1>3. t \in Seq(S) /\ Len(t) = 2 /\ t[1] = o[1] /\ t[2] = b
  BY <1>2
<1> HIDE DEF t
<1> DEFINE p == Append(o, b)
<1>4. p \in Seq(S) /\ Len(p) = 2 /\ p[1] = o[1] /\ p[2] = b
  BY <1>1, <1>7, <1>8
<1> HIDE DEF p
<1>5. \A j \in 1..2 : j = 1 \/ j = 2
  OBVIOUS
<1>6. p = t
  BY <1>3, <1>4, <1>5, SeqEqual
<1> QED
  BY <1>6, <1>9 DEF p, t

LEMMA Pair ==
  ASSUME NEW S, NEW a \in S, NEW b \in S
  PROVE  Append(<<a>>, b) = <<a, b>> /\ <<a>> \o <<b>> = <<a, b>> /\ <<a, b>> \o <<>> = <<a, b>>
<1> DEFINE o == <<a>>
<1>1. o \in Seq(S) /\ Len(o) = 1 /\ o[1] = a
  OBVIOUS
<1> HIDE DEF o
<1>2. Append(o, b) = <<a, b>> /\ o \o <<b>> = <<a, b>>
  BY <1>1, AppendSecond
<1>3. <<a, b>> \in Seq(S)
  OBVIOUS
<1> QED
  BY <1>2, <1>3, ConcatEmptySeq DEF o

\* The events of a requestor.
LEMMA EventQueues ==
  /\ Append(<<>>, "new") \o <<"notify">> = <<"new", "notify">>
  /\ Append(<<>>, "new") \o <<>> = <<"new">>
  /\ Append(<<"deleted">>, "new") \o <<>> = <<"deleted", "new">>
  /\ Append(<<>>, "refused") = <<"refused">> /\ Append(<<>>, "deleted") = <<"deleted">>
  /\ Tail(<<"new", "notify">>) = <<"notify">> /\ Tail(<<"deleted", "new">>) = <<"new">>
  /\ \A e : Tail(<<e>>) = <<>> /\ Head(<<e>>) = e
  /\ \A e, f : Head(<<e, f>>) = e
<1>1. /\ <<"new">> \o <<"notify">> = <<"new", "notify">>
      /\ Append(<<"deleted">>, "new") = <<"deleted", "new">>
      /\ <<"deleted", "new">> \o <<>> = <<"deleted", "new">>
  <2> DEFINE S == {"new", "notify", "deleted"}
  <2>1. "new" \in S /\ "notify" \in S /\ "deleted" \in S
    OBVIOUS
  <2> HIDE DEF S
  <2> QED
    BY <2>1, Pair
<1>2. Append(<<>>, "new") \o <<"notify">> = <<"new", "notify">>
  <2>1. Append(<<>>, "new") = <<"new">>
    OBVIOUS
  <2> QED
    BY <1>1, <2>1
<1>3. Append(<<"deleted">>, "new") \o <<>> = <<"deleted", "new">>
  BY <1>1
<1>4. Append(<<>>, "new") \o <<>> = <<"new">>
  OBVIOUS
<1>5. Append(<<>>, "refused") = <<"refused">> /\ Append(<<>>, "deleted") = <<"deleted">>
  OBVIOUS
<1>6. Tail(<<"new", "notify">>) = <<"notify">>
  OBVIOUS
<1>7. Tail(<<"deleted", "new">>) = <<"new">>
  OBVIOUS
<1>8. \A e : Tail(<<e>>) = <<>> /\ Head(<<e>>) = e
  OBVIOUS
<1>9. \A e, f : Head(<<e, f>>) = e
  OBVIOUS
<1> QED
  BY <1>2, <1>3, <1>4, <1>5, <1>6, <1>7, <1>8, <1>9

\* What the X server tells the owner, if that watches the window.
LEMMA ToOwnerQueue ==
  ASSUME NEW q \in Seq(EventSet), NEW t \in {"new", "deleted"}, NEW r \in Requestors, NEW W
  PROVE  LET u == ToOwner(q, t, r, W) IN
         /\ u \in Seq(EventSet)
         /\ \A s \in Requestors : NoRequest(q, s) => NoRequest(u, s)
         /\ \A s \in Requestors : OneRequest(q, s) /\ (t = "new" \/ r \notin W) => OneRequest(u, s)
         /\ NoDeleted(q) => IF t = "deleted" /\ r \in W THEN OneDeleted(u) ELSE NoDeleted(u)
<1> DEFINE e == Event(t, r)
<1>1. e \in EventSet /\ e.type = t /\ \A s : e # Event("request", s)
  BY EventFacts
<1>2. CASE r \in W
  <2>1. ToOwner(q, t, r, W) = Append(q, e)
    BY <1>2 DEF ToOwner
  <2> HIDE DEF e
  <2>2. /\ Append(q, e) \in Seq(EventSet)
        /\ \A s \in Requestors : NoRequest(q, s) => NoRequest(Append(q, e), s)
        /\ \A s \in Requestors : OneRequest(q, s) /\ t = "new" => OneRequest(Append(q, e), s)
        /\ NoDeleted(q) => IF t = "deleted" THEN OneDeleted(Append(q, e))
                           ELSE NoDeleted(Append(q, e))
    BY <1>1, AppendQueue
  <2> QED
    BY <1>2, <2>1, <2>2
<1>3. CASE r \notin W
  BY <1>3 DEF ToOwner
<1> QED
  BY <1>2, <1>3

-----------------------------------------------------------------------------
(* The phases of a requestor that a step does not concern.                 *)

Same(r) ==
  /\ ctx'[r] = ctx[r] /\ events'[r] = events[r]
  /\ property'[r] = property[r] /\ got'[r] = got[r]
  /\ r \in silent => r \in silent'

\* A session is not in two phases at a time that matter here.
LEMMA ApartFacts ==
  ASSUME NEW r \in Requestors
  PROVE  Apart(r) => ~Engaged(r)
<1>1. ASSUME Idle(r) PROVE ~Engaged(r)
  BY <1>1 DEF Idle, Engaged, Asked, Answered, Waiting, Sending
<1>2. ASSUME Over(r) PROVE ~Engaged(r)
  BY <1>2 DEF Over, Engaged, Asked, Answered, Waiting, Sending
<1>3. ASSUME Gone(r) PROVE ~Engaged(r)
  BY <1>3 DEF Gone, Engaged, Asked, Answered, Waiting, Sending
<1>4. ASSUME Refusal(r) PROVE ~Engaged(r)
  <2>1. ~Asked(r)
    BY <1>4 DEF Refusal, Asked, NoRequest, OneRequest
  <2>2. ~Answered(r)
    <3> SUFFICES ASSUME Answered(r) PROVE FALSE
      OBVIOUS
    <3>1. Head(events[r]) \in {"new", "notify"} /\ events[r] # <<>>
      BY EventQueues DEF Answered
    <3>2. Head(<<"refused">>) = "refused"
      BY EventQueues
    <3> QED
      BY <1>4, <3>1, <3>2 DEF Refusal
  <2>3. ~Waiting(r) /\ ~Sending(r)
    BY <1>4 DEF Refusal, Waiting, Sending
  <2> QED
    BY <2>1, <2>2, <2>3 DEF Engaged
<1> QED
  BY <1>1, <1>2, <1>3, <1>4 DEF Apart

LEMMA ApartFactsNext ==
  ASSUME NEW r \in Requestors
  PROVE  Apart(r)' => ~Engaged(r)'
<1>1. ASSUME Idle(r)' PROVE ~Engaged(r)'
  BY <1>1 DEF Idle, Engaged, Asked, Answered, Waiting, Sending
<1>2. ASSUME Over(r)' PROVE ~Engaged(r)'
  BY <1>2 DEF Over, Engaged, Asked, Answered, Waiting, Sending
<1>3. ASSUME Gone(r)' PROVE ~Engaged(r)'
  BY <1>3 DEF Gone, Engaged, Asked, Answered, Waiting, Sending
<1>4. ASSUME Refusal(r)' PROVE ~Engaged(r)'
  <2>1. ~Asked(r)'
    BY <1>4 DEF Refusal, Asked, NoRequest, OneRequest
  <2>2. ~Answered(r)'
    <3> SUFFICES ASSUME Answered(r)' PROVE FALSE
      OBVIOUS
    <3>1. Head(events'[r]) \in {"new", "notify"} /\ events'[r] # <<>>
      BY EventQueues DEF Answered
    <3>2. Head(<<"refused">>) = "refused"
      BY EventQueues
    <3> QED
      BY <1>4, <3>1, <3>2 DEF Refusal
  <2>3. ~Waiting(r)' /\ ~Sending(r)'
    BY <1>4 DEF Refusal, Waiting, Sending
  <2> QED
    BY <2>1, <2>2, <2>3 DEF Engaged
<1> QED
  BY <1>1, <1>2, <1>3, <1>4 DEF Apart

LEMMA SameApart ==
  ASSUME NEW r \in Requestors, Same(r), UNCHANGED text,
         NoRequest(queue, r) => NoRequest(queue', r)
  PROVE  Apart(r) => Apart(r)'
<1>1. Idle(r) => Idle(r)'
  BY DEF Idle, Same
<1>2. Refusal(r) => Refusal(r)'
  BY DEF Refusal, Same
<1>3. Over(r) => Over(r)'
  BY DEF Over, Same
<1>4. Gone(r) => Gone(r)'
  BY DEF Gone, Same
<1> QED
  BY <1>1, <1>2, <1>3, <1>4 DEF Apart

\* The owner goes on where it was.
LEMMA SamePhase ==
  ASSUME NEW r \in Requestors, Same(r), UNCHANGED <<text, context, win, pos>>,
         r \in watched => r \in watched',
         NoRequest(queue, r) => NoRequest(queue', r),
         Asked(r) => OneRequest(queue', r),
         NoDeleted(queue) => NoDeleted(queue'),
         context = "incr" /\ OneDeleted(queue) => OneDeleted(queue')
  PROVE  /\ Phase(r) => Phase(r)'
         /\ Answered(r) => Answered(r)'
         /\ Waiting(r) => Waiting(r)'
         /\ Sending(r) => Sending(r)'
         /\ Phase(r) /\ ~Engaged(r) => ~Engaged(r)'
<1>1. Long' = Long /\ Upto(pos)' = Upto(pos)
  BY DEF Long, Upto
<1>2. Apart(r) => Apart(r)'
  BY SameApart
<1>3. Asked(r) => Asked(r)'
  BY DEF Asked, Same
<1>5. Answered(r) => Answered(r)'
  BY <1>1 DEF Answered, Same
<1>6. Waiting(r) => Waiting(r)'
  BY <1>1 DEF Waiting, Same
<1>7. Sending(r) => Sending(r)'
  BY <1>1 DEF Sending, Same
<1>8. Phase(r) /\ ~Engaged(r) => ~Engaged(r)'
  BY <1>2, ApartFactsNext DEF Phase
<1> QED
  BY <1>2, <1>3, <1>5, <1>6, <1>7, <1>8 DEF Phase, Engaged

\* The owner may have gone on, but not in a transfer to r.
LEMMA BystanderPhase ==
  ASSUME NEW r \in Requestors, Phase(r), Long => ~Engaged(r), Same(r), UNCHANGED text,
         ~Long => context = "none",
         NoRequest(queue, r) => NoRequest(queue', r),
         ~Long /\ OneRequest(queue, r) => OneRequest(queue', r)
  PROVE  Phase(r)' /\ (Long => ~Engaged(r)')
<1>1. Long' = Long
  BY DEF Long
<1>2. Apart(r) => Apart(r)'
  BY SameApart
<1>3. CASE Long
  BY <1>2, <1>3, ApartFactsNext DEF Phase
<1>4. CASE ~Long
  <2>1. Asked(r) => Asked(r)'
    BY <1>4 DEF Asked, Same
  <2>2. Answered(r) => Answered(r)'
    BY <1>1, <1>4 DEF Answered, Same
  <2>3. ~Waiting(r) /\ ~Sending(r)
    BY <1>4 DEF Waiting, Sending
  <2> QED
    BY <1>2, <1>4, <2>1, <2>2, <2>3 DEF Phase, Engaged
<1> QED
  BY <1>3, <1>4

\* A transfer has the whole attention of the owner.
LEMMA InTransfer ==
  ASSUME IInv, context = "incr"
  PROVE  /\ Long /\ win \in Requestors
         /\ \/ Answered(win) \/ Waiting(win) \/ Sending(win)
            \/ ctx[win] = "gone" /\ \A r \in Requestors : ~Engaged(r)
         /\ \A r \in Requestors : Engaged(r) => r = win
         /\ \A r \in Requestors : ~Asked(r)
<1>1. /\ Long /\ win \in Requestors
      /\ \/ Answered(win) \/ Waiting(win) \/ Sending(win)
         \/ ctx[win] = "gone" /\ \A r \in Requestors : ~Engaged(r)
  BY DEF IInv, Turns, Transfer
<1>2. \A r \in Requestors : Engaged(r) => r = win
  BY <1>1 DEF IInv, Turns, Engaged
<1>3. ASSUME NEW r \in Requestors, Asked(r) PROVE FALSE
  <2>1. Engaged(r) /\ r = win
    BY <1>2, <1>3 DEF Engaged
  <2>2. ctx[r] = "sent" /\ events[r] = <<>>
    BY <1>3 DEF Asked
  <2>3. ~Waiting(r) /\ ~Sending(r) /\ ~Answered(r)
    BY <2>2 DEF Waiting, Sending, Answered
  <2> QED
    BY <1>1, <2>1, <2>3
<1> QED
  BY <1>1, <1>2, <1>3

LEMMA Alone ==
  ASSUME IInv, NEW r \in Requestors, Engaged(r)
  PROVE  Long => \A q \in Requestors \ {r} : ~Engaged(q)
BY DEF IInv, Turns

\* A step that does not concern the transfer of the owner, but perhaps sessions
\* X that do not wait for it, or that are killed.
LEMMA AsideKeeps ==
  ASSUME IInv, NEW X, UNCHANGED <<text, context, win, pos>>,
         \A q \in Requestors \ X :
           /\ Same(q)
           /\ q \in watched => q \in watched'
           /\ NoRequest(queue, q) => NoRequest(queue', q)
           /\ Asked(q) => OneRequest(queue', q),
         NoDeleted(queue) => NoDeleted(queue'),
         context = "incr" /\ OneDeleted(queue) => OneDeleted(queue'),
         Typed', ~Long => watched' = {},
         \A q \in Requestors \cap X : Apart(q)',
         context = "incr" /\ win \in X => ctx'[win] = "gone"
  PROVE  IInv'
<1>1. Long' = Long
  BY DEF Long
<1>2. ASSUME NEW q \in Requestors \ X
      PROVE  /\ Phase(q)'
             /\ Answered(q) => Answered(q)'
             /\ Waiting(q) => Waiting(q)'
             /\ Sending(q) => Sending(q)'
             /\ ~Engaged(q) => ~Engaged(q)'
  <2>1. Phase(q)
    BY DEF IInv
  <2> QED
    BY <1>2, <2>1, SamePhase
<1>3. \A q \in Requestors \cap X : Phase(q)' /\ ~Engaged(q)'
  BY ApartFactsNext DEF Phase
<1>4. \A q \in Requestors : Phase(q)' /\ (~Engaged(q) => ~Engaged(q)')
  BY <1>2, <1>3
<1>5. Turns'
  <2>1. Long' => \A q, r \in Requestors : Engaged(q)' /\ Engaged(r)' => q = r
    BY <1>1, <1>4 DEF IInv, Turns
  <2>2. ~Long' => watched' = {} /\ context' = "none" /\ NoDeleted(queue')
    BY <1>1 DEF IInv, Turns
  <2> QED
    BY <2>1, <2>2 DEF Turns
<1>6. Transfer'
  <2> SUFFICES ASSUME context = "incr"
               PROVE  /\ win \in Requestors
                      /\ \/ Answered(win)' \/ Waiting(win)' \/ Sending(win)'
                         \/ ctx'[win] = "gone" /\ \A r \in Requestors : ~Engaged(r)'
    <3>1. win' = win /\ context' = context
      OBVIOUS
    <3> QED
      BY <3>1 DEF Transfer, Answered, Waiting, Sending
  <2>1. /\ win \in Requestors
        /\ \/ Answered(win) \/ Waiting(win) \/ Sending(win)
           \/ ctx[win] = "gone" /\ \A r \in Requestors : ~Engaged(r)
        /\ \A r \in Requestors : Engaged(r) => r = win
    BY InTransfer
  <2>2. CASE win \in X
    <3>1. ctx'[win] = "gone"
      BY <2>2
    <3>2. \A r \in Requestors : ~Engaged(r)'
      BY <1>3, <1>4, <2>1, <2>2
    <3> QED
      BY <2>1, <3>1, <3>2
  <2>3. CASE win \notin X
    <3>1. /\ Answered(win) => Answered(win)'
          /\ Waiting(win) => Waiting(win)'
          /\ Sending(win) => Sending(win)'
          /\ ctx'[win] = ctx[win]
      BY <1>2, <2>1, <2>3 DEF Same
    <3> QED
      BY <1>4, <2>1, <3>1
  <2> QED
    BY <2>2, <2>3
<1> QED
  BY <1>4, <1>5, <1>6 DEF IInv

\* A step of r, or of the owner for r: what is left to show is what it does
\* to r.
LEMMA StepKeeps ==
  ASSUME IInv, NEW r \in Requestors,
         Long => \A q \in Requestors \ {r} : ~Engaged(q),
         \A q \in Requestors \ {r} : Same(q),
         UNCHANGED text, Typed',
         \A q \in Requestors \ {r} :
           /\ NoRequest(queue, q) => NoRequest(queue', q)
           /\ ~Long /\ OneRequest(queue, q) => OneRequest(queue', q),
         ~Long => watched' = {} /\ context' = "none" /\ NoDeleted(queue'),
         Phase(r)',
         context' = "incr" => win' = r /\ (Answered(r)' \/ Waiting(r)' \/ Sending(r)')
  PROVE  IInv'
<1>1. Long' = Long
  BY DEF Long
<1>2. ASSUME NEW q \in Requestors \ {r} PROVE Phase(q)' /\ (Long => ~Engaged(q)')
  <2>1. Phase(q) /\ (~Long => context = "none")
    BY DEF IInv, Turns
  <2> QED
    BY <1>2, <2>1, BystanderPhase
<1>3. \A q \in Requestors : Phase(q)'
  BY <1>2
<1>5. Turns'
  <2>1. Long' => \A q, p \in Requestors : Engaged(q)' /\ Engaged(p)' => q = p
    BY <1>1, <1>2
  <2> QED
    BY <1>1, <2>1 DEF Turns
<1>6. Transfer'
  <2> SUFFICES ASSUME context' = "incr"
               PROVE  (win \in Requestors /\ (Answered(win) \/ Waiting(win) \/ Sending(win)))'
    BY DEF Transfer
  <2>1. win' = r /\ r \in Requestors /\ (Answered(r)' \/ Waiting(r)' \/ Sending(r)')
    OBVIOUS
  <2>2. \A x : x = win' => /\ Answered(win)' = Answered(x)'
                           /\ Waiting(win)' = Waiting(x)'
                           /\ Sending(win)' = Sending(x)'
    OBVIOUS
  <2> QED
    BY <2>1, <2>2
<1> QED
  BY <1>3, <1>5, <1>6 DEF IInv

-----------------------------------------------------------------------------
(* The steps of the owner.                                                 *)

LEMMA StutterHolds ==
  ASSUME IInv,
         UNCHANGED <<queue, text, context, win, pos, watched, property, events, ctx, got, silent>>
  PROVE  IInv'
<1>1. Typed' /\ (~Long => watched' = {})
  BY DEF IInv, Typed, Turns
<1> DEFINE X == {}
<1>2. \A q \in Requestors \ X : /\ Same(q)
                                /\ q \in watched => q \in watched'
                                /\ NoRequest(queue, q) => NoRequest(queue', q)
                                /\ Asked(q) => OneRequest(queue', q)
  BY DEF Same, Asked
<1>3. (\A q \in Requestors \cap X : Apart(q)')
      /\ (context = "incr" /\ win \in X => ctx'[win] = "gone")
  OBVIOUS
<1> HIDE DEF X
<1> QED
  BY <1>1, <1>2, <1>3, AsideKeeps

\* An event is read and dropped.
LEMMA DropHolds ==
  ASSUME IInv, queue # <<>>, queue' = Tail(queue), UNCHANGED <<text, context, win, pos, watched>>,
         UNCHANGED <<property, events, ctx, got, silent>>,
         Head(queue).type = "deleted" => context = "none",
         Head(queue).type = "request" => context = "incr"
  PROVE  IInv'
<1>1. Typed /\ Turns /\ queue \in Seq(EventSet)
  BY DEF IInv, Typed
<1>2. Tail(queue) \in Seq(EventSet) /\ Head(queue) \in EventSet
  BY <1>1, TailQueue
<1>4. NoDeleted(queue) => NoDeleted(queue')
  BY <1>1, TailQueue
<1>5. context = "incr" /\ OneDeleted(queue) => OneDeleted(queue')
  BY <1>1, TailQueue
<1>6. ASSUME NEW r \in Requestors
      PROVE  /\ Same(r)
             /\ NoRequest(queue, r) => NoRequest(queue', r)
             /\ Asked(r) => OneRequest(queue', r)
  <2>1. NoRequest(queue, r) => NoRequest(queue', r)
    BY <1>1, TailQueue
  <2>2. Asked(r) => OneRequest(queue', r)
    <3>1. CASE context = "incr"
      BY <3>1, InTransfer
    <3>2. CASE context # "incr"
      <4>1. Head(queue) # Event("request", r)
        BY <3>2, EventFacts
      <4> QED
        BY <1>1, <4>1, TailQueue DEF Asked
    <3> QED
      BY <3>1, <3>2
  <2>3. Same(r)
    BY DEF Same
  <2> QED
    BY <2>1, <2>2, <2>3
<1>7. Typed'
  BY <1>1, <1>2 DEF Typed
<1>8. ~Long => watched' = {}
  BY <1>1 DEF Turns
<1> DEFINE X == {}
<1>9. \A q \in Requestors \ X : /\ Same(q)
                                /\ q \in watched => q \in watched'
                                /\ NoRequest(queue, q) => NoRequest(queue', q)
                                /\ Asked(q) => OneRequest(queue', q)
  BY <1>6
<1>10. (\A q \in Requestors \cap X : Apart(q)')
       /\ (context = "incr" /\ win \in X => ctx'[win] = "gone")
  OBVIOUS
<1> HIDE DEF X
<1> QED
  BY <1>4, <1>5, <1>7, <1>8, <1>9, <1>10, AsideKeeps

LEMMA ClearHolds ==
  ASSUME IInv, SelectionClear
  PROVE  IInv'
BY DropHolds DEF SelectionClear, Reads, server, requestors

LEMMA IgnoreHolds ==
  ASSUME IInv, Ignore
  PROVE  IInv'
BY DropHolds DEF Ignore, Reads, server, owner, requestors

LEMMA AnswerHolds ==
  ASSUME IInv, AnswerRequest
  PROVE  IInv'
<1>1. Typed /\ Turns /\ queue \in Seq(EventSet) /\ queue # <<>> /\ Head(queue).type = "request"
  BY DEF AnswerRequest, Reads, IInv, Typed
<1>2. PICK r \in Requestors, q \in Seq(EventSet) :
        Head(queue) = Event("request", r) /\ Head(queue).from = r /\ q = Tail(queue)
  BY <1>1, TailQueue, EventFacts
<1>3. Asked(r)
  <2>1. ~NoRequest(queue, r)
    BY <1>1, <1>2, TailQueue
  <2>2. Phase(r)
    BY <1>2 DEF IInv
  <2>3. ~Gone(r)
    BY <1>2 DEF AnswerRequest, Gone
  <2> QED
    BY <2>1, <2>2, <2>3 DEF Phase, Engaged, Apart, Idle, Refusal, Answered, Waiting, Sending, Over
<1>4. ctx[r] = "sent" /\ events[r] = <<>> /\ got[r] = <<>>
  BY <1>3 DEF Asked
<1>5. NoRequest(q, r) /\ NoDeleted(q)
  BY <1>1, <1>2, <1>3, TailQueue DEF Asked
<1>6. /\ win' = r /\ pos' = 0 /\ context' = (IF Long THEN "incr" ELSE "none")
      /\ watched' = (IF Long THEN watched \cup {r} ELSE watched)
      /\ property' = [property EXCEPT ![r] = IF Long THEN Incr ELSE Data(text)]
      /\ events' = [events EXCEPT ![r] = Append(@, "new") \o <<"notify">>]
      /\ queue' = ToOwner(q, "new", r, watched)
      /\ text' = text /\ ctx' = ctx /\ got' = got /\ silent' = silent
  BY <1>2 DEF AnswerRequest, NewValue, requestors
<1>7. \A p \in Requestors \ {r} : /\ NoRequest(queue, p) => NoRequest(q, p)
                                  /\ OneRequest(queue, p) => OneRequest(q, p)
  <2> SUFFICES ASSUME NEW p \in Requestors \ {r}
               PROVE  /\ NoRequest(queue, p) => NoRequest(q, p)
                      /\ OneRequest(queue, p) => OneRequest(q, p)
    OBVIOUS
  <2>1. Head(queue) # Event("request", p)
    BY <1>2, EventFacts
  <2> QED
    BY <1>1, <1>2, <2>1, TailQueue
<1>8. /\ queue' \in Seq(EventSet)
      /\ \A p \in Requestors : NoRequest(q, p) => NoRequest(queue', p)
      /\ \A p \in Requestors : OneRequest(q, p) => OneRequest(queue', p)
      /\ NoDeleted(queue')
  BY <1>2, <1>5, <1>6, ToOwnerQueue
<1>9. \A p \in Requestors \ {r} : Same(p)
  BY <1>1, <1>6 DEF Same, Typed
<1>10. Long' = Long
  BY <1>6 DEF Long
<1>11. DOMAIN property = Requestors /\ DOMAIN events = Requestors
  BY <1>1 DEF Typed
<1>12. Typed'
  BY <1>1, <1>6, <1>8, <1>10, <1>11 DEF Typed
<1>13. Answered(r)'
  <2>1. events'[r] = <<"new", "notify">>
    <3>1. events'[r] = Append(events[r], "new") \o <<"notify">>
      BY <1>2, <1>6, <1>11
    <3> QED
      BY <1>4, <3>1, EventQueues
  <2>2. property'[r] = IF Long THEN Incr ELSE Data(text)
    BY <1>2, <1>6, <1>11
  <2>3. NoRequest(queue', r)
    BY <1>2, <1>5, <1>8
  <2>4. ctx'[r] = "sent" /\ got'[r] = <<>>
    BY <1>4, <1>6
  <2> QED
    BY <1>6, <1>8, <1>10, <2>1, <2>2, <2>3, <2>4 DEF Answered
<1>14. Phase(r)'
  BY <1>13 DEF Phase, Engaged
<1>15. ~Long => watched' = {} /\ context' = "none" /\ NoDeleted(queue')
  BY <1>1, <1>6, <1>8 DEF Turns
<1>16. Long => \A p \in Requestors \ {r} : ~Engaged(p)
  BY <1>3, Alone DEF Engaged
<1>17. \A p \in Requestors \ {r} :
         /\ NoRequest(queue, p) => NoRequest(queue', p)
         /\ ~Long /\ OneRequest(queue, p) => OneRequest(queue', p)
  BY <1>7, <1>8
<1> QED
  BY <1>6, <1>9, <1>12, <1>13, <1>14, <1>15, <1>16, <1>17, StepKeeps

LEMMA SendHolds ==
  ASSUME IInv, SendChunk
  PROVE  IInv'
<1>1. Typed /\ Turns /\ queue \in Seq(EventSet) /\ queue # <<>> /\ Head(queue).type = "deleted"
      /\ context = "incr"
  BY DEF SendChunk, Reads, IInv, Typed
<1>2. PICK r \in Requestors, q \in Seq(EventSet) : win = r /\ q = Tail(queue)
  BY <1>1, TailQueue, InTransfer
<1>c. PICK c : c = Chunk
  OBVIOUS
<1>3. Long /\ r \in Requestors /\ (Answered(r) \/ Waiting(r) \/ Sending(r))
  <2>1. \A x : x = win => /\ Answered(win) = Answered(x) /\ Waiting(win) = Waiting(x)
                          /\ Sending(win) = Sending(x)
    OBVIOUS
  <2>2. ctx[win] # "gone"
    BY DEF SendChunk
  <2>3. Long /\ win \in Requestors /\ (Answered(win) \/ Waiting(win) \/ Sending(win))
    BY <1>1, <2>2, InTransfer
  <2> QED
    BY <1>2, <2>1, <2>3
<1>4. Waiting(r)
  <2>1. ~NoDeleted(queue)
    BY <1>1, TailQueue
  <2> QED
    BY <1>3, <2>1 DEF Answered, Sending
<1>5. /\ ctx[r] = "incr" /\ events[r] \in {<<"deleted">>, <<>>} /\ got[r] = Upto(pos)
      /\ r \in watched /\ NoRequest(q, r) /\ NoDeleted(q)
  BY <1>1, <1>2, <1>4, TailQueue DEF Waiting
<1>6. /\ pos' = pos + ChunkSize /\ context' = (IF c = <<>> THEN "none" ELSE "incr")
      /\ property' = [property EXCEPT ![r] = Data(c)]
      /\ events' = [events EXCEPT ![r] = Append(@, "new") \o <<>>]
      /\ queue' = ToOwner(q, "new", r, watched)
      /\ text' = text /\ ctx' = ctx /\ got' = got /\ win' = win /\ watched' = watched
      /\ silent' = silent
  BY <1>2, <1>c DEF SendChunk, NewValue, requestors
<1>7. DOMAIN property = Requestors /\ DOMAIN events = Requestors
  BY <1>1 DEF Typed
<1>8. /\ queue' \in Seq(EventSet)
      /\ \A p \in Requestors : NoRequest(q, p) => NoRequest(queue', p)
      /\ NoDeleted(queue')
  BY <1>2, <1>5, <1>6, ToOwnerQueue
<1>9. \A p \in Requestors \ {r} : Same(p)
  BY <1>6, <1>7 DEF Same
<1>10. Long' = Long
  BY <1>6 DEF Long
<1>11. Typed'
  <2>1. pos' \in Nat
    BY <1>1, <1>6, XSelectionAssumption DEF Typed
  <2> QED
    BY <1>1, <1>6, <1>7, <1>8, <1>10, <2>1 DEF Typed
<1>12. Upto(pos)' = Upto(pos + ChunkSize)
  BY <1>6 DEF Upto
<1>13. Upto(pos) \o c = Upto(pos + ChunkSize) /\ (c = <<>> => Upto(pos) = text)
  BY <1>1, <1>c, Chunks
<1>14. Sending(r)'
  <2>1. events'[r] \in {<<"deleted", "new">>, <<"new">>}
    <3>1. events'[r] = Append(events[r], "new") \o <<>>
      BY <1>2, <1>6, <1>7
    <3> QED
      BY <1>5, <3>1, EventQueues
  <2>2. property'[r] = Data(c) /\ Data(c).data = c
    BY <1>2, <1>6, <1>7 DEF Data
  <2>3. IF c = <<>> THEN context' = "none" /\ got'[r] = text'
        ELSE context' = "incr" /\ got'[r] \o c = Upto(pos)'
    BY <1>5, <1>6, <1>12, <1>13
  <2>4. NoRequest(queue', r) /\ ctx'[r] = "incr" /\ Long' /\ win' = r /\ r \in watched'
    BY <1>2, <1>3, <1>5, <1>6, <1>8, <1>10
  <2> QED
    BY <1>8, <2>1, <2>2, <2>3, <2>4 DEF Sending
<1>15. Phase(r)'
  BY <1>14 DEF Phase, Engaged
<1>16. Long => \A p \in Requestors \ {r} : ~Engaged(p)
  BY <1>3, Alone DEF Engaged
<1>17. \A p \in Requestors \ {r} : NoRequest(queue, p) => NoRequest(queue', p)
  BY <1>1, <1>2, <1>8, TailQueue
<1> QED
  BY <1>2, <1>3, <1>6, <1>9, <1>11, <1>14, <1>15, <1>16, <1>17, StepKeeps

LEMMA DiesHolds ==
  ASSUME IInv, OwnerDies
  PROVE  IInv'
<1>1. UNCHANGED <<queue, text, context, win, pos, watched, property, events, ctx, got, silent>>
  BY DEF OwnerDies, requestors
<1> QED
  BY <1>1, StutterHolds

LEMMA TakeHolds ==
  ASSUME IInv, Take
  PROVE  IInv'
<1> DEFINE e == Event("clear", Nobody)
<1>1. Typed /\ Turns /\ queue \in Seq(EventSet)
  BY DEF IInv, Typed
<1>2. /\ queue' = Append(queue, e) /\ UNCHANGED <<text, context, win, pos, watched>>
      /\ UNCHANGED <<property, events, ctx, got, silent>>
  BY DEF Take, owner, requestors
<1>3. e \in EventSet /\ e.type = "clear" /\ \A r : e # Event("request", r)
  BY EventFacts
<1> HIDE DEF e
<1>4. /\ queue' \in Seq(EventSet)
      /\ \A r \in Requestors : NoRequest(queue, r) => NoRequest(queue', r)
      /\ \A r \in Requestors : OneRequest(queue, r) => OneRequest(queue', r)
      /\ NoDeleted(queue) => NoDeleted(queue')
      /\ OneDeleted(queue) => OneDeleted(queue')
  BY <1>1, <1>2, <1>3, AppendQueue
<1>5. Typed'
  BY <1>1, <1>2, <1>4 DEF Typed
<1>6. ~Long => watched' = {}
  BY <1>1, <1>2 DEF Turns
<1> DEFINE X == {}
<1>7. \A q \in Requestors \ X : /\ Same(q)
                                /\ q \in watched => q \in watched'
                                /\ NoRequest(queue, q) => NoRequest(queue', q)
                                /\ Asked(q) => OneRequest(queue', q)
  BY <1>2, <1>4 DEF Same, Asked
<1>8. (\A q \in Requestors \cap X : Apart(q)')
      /\ (context = "incr" /\ win \in X => ctx'[win] = "gone")
  OBVIOUS
<1> HIDE DEF X
<1> QED
  BY <1>2, <1>4, <1>5, <1>6, <1>7, <1>8, AsideKeeps

-----------------------------------------------------------------------------
(* The steps of a requestor.                                               *)

LEMMA AskHolds ==
  ASSUME IInv, NEW r \in Requestors, Ask(r), ~crossed'
  PROVE  IInv'
<1> DEFINE e == Event("request", r)
<1>1. Typed /\ Turns /\ queue \in Seq(EventSet)
  BY DEF IInv, Typed
<1>2. /\ ctx[r] = "idle" /\ UNCHANGED <<text, context, win, pos, watched, property, got>>
      /\ ctx' = [ctx EXCEPT ![r] = "sent"]
      /\ \/ /\ queue' = Append(queue, e) /\ UNCHANGED <<events, silent>>
            /\ ~Long \/ ~UnderWay
         \/ Foreign(r, events[r]) /\ queue' = queue
  BY DEF Ask, server, owner
<1>3. Idle(r)
  <2>1. Phase(r)
    BY DEF IInv
  <2> QED
    BY <1>2, <2>1 DEF Phase, Engaged, Apart, Gone, Asked, Refusal, Answered, Waiting, Sending, Over
<1>4. /\ NoRequest(queue, r) /\ events[r] = <<>> /\ property[r] = NoProp /\ got[r] = <<>>
  BY <1>3 DEF Idle
<1>5. ~Engaged(r)
  BY <1>3, ApartFacts DEF Apart
<1>6. e \in EventSet /\ e.type = "request" /\ \A q \in Requestors \ {r} : e # Event("request", q)
  BY EventFacts
<1>7. DOMAIN events = Requestors /\ DOMAIN ctx = Requestors
  BY <1>1 DEF Typed
<1>8. Long' = Long
  BY <1>2 DEF Long
<1>9. ctx'[r] = "sent" /\ property'[r] = NoProp /\ got'[r] = <<>>
  BY <1>2, <1>4, <1>7
<1>10. CASE queue' = Append(queue, e) /\ UNCHANGED <<events, silent>> /\ (~Long \/ ~UnderWay)
  <2>1. /\ queue' \in Seq(EventSet) /\ OneRequest(queue', r)
        /\ \A q \in Requestors \ {r} : /\ NoRequest(queue, q) => NoRequest(queue', q)
                                       /\ OneRequest(queue, q) => OneRequest(queue', q)
        /\ NoDeleted(queue) => NoDeleted(queue')
    <3>1. e = Event("request", r) /\ e.type # "deleted"
      BY <1>6
    <3> HIDE DEF e
    <3> QED
      BY <1>1, <1>4, <1>6, <1>10, <3>1, AppendQueue
  <2> HIDE DEF e
  <2>2. Long => context = "none" /\ \A q \in Requestors : ~Engaged(q)
    <3> SUFFICES ASSUME Long
                 PROVE  context = "none" /\ \A q \in Requestors : ~Engaged(q)
      OBVIOUS
    <3>1. \A q \in Requestors : ctx[q] \notin {"sent", "incr", "gone"}
      BY <1>10 DEF UnderWay
    <3>2. \A q \in Requestors : ~Engaged(q)
      BY <3>1 DEF Engaged, Asked, Answered, Waiting, Sending
    <3>3. context # "incr"
      BY <3>1, <3>2, InTransfer DEF Engaged
    <3> QED
      BY <1>1, <3>2, <3>3 DEF Typed
  <2>3. \A q \in Requestors \ {r} : Same(q)
    BY <1>2, <1>7, <1>10 DEF Same
  <2>4. Typed'
    BY <1>1, <1>2, <1>7, <1>10, <2>1 DEF Typed
  <2>5. Asked(r)'
    BY <1>4, <1>9, <1>10, <2>1 DEF Asked
  <2>6. Phase(r)'
    BY <2>5 DEF Phase, Engaged
  <2>7. ~Long => watched' = {} /\ context' = "none" /\ NoDeleted(queue')
    BY <1>1, <1>2, <2>1 DEF Turns
  <2>8. context' # "incr" /\ text' = text
    BY <1>1, <1>2, <2>2 DEF Turns
  <2> QED
    BY <2>1, <2>2, <2>3, <2>4, <2>6, <2>7, <2>8, StepKeeps
<1>11. CASE Foreign(r, events[r]) /\ queue' = queue
  <2> HIDE DEF e
  <2>1. /\ events'[r] = <<"refused">> \/ (events'[r] = <<>> /\ r \in silent')
        /\ DOMAIN events' = Requestors
        /\ \A q \in Requestors \ {r} : events'[q] = events[q] /\ (q \in silent => q \in silent')
    BY <1>4, <1>7, <1>11, EventQueues DEF Foreign
  <2>2. Refusal(r)'
    BY <1>4, <1>9, <1>11, <2>1 DEF Refusal
  <2>3. \A q \in Requestors \ {r} : Same(q)
    BY <1>2, <1>7, <2>1 DEF Same
  <2>4. Typed'
    BY <1>1, <1>2, <1>7, <1>11, <2>1 DEF Typed
  <2>5. ~(context = "incr" /\ win = r)
    <3>1. ctx[r] # "gone"
      BY <1>2
    <3> QED
      BY <1>5, <3>1, InTransfer DEF Engaged
  <2>6. ~Long => watched' = {}
    BY <1>1, <1>2 DEF Turns
  <2> DEFINE X == {r}
  <2>7. \A q \in Requestors \ X : /\ Same(q)
                                  /\ q \in watched => q \in watched'
                                  /\ NoRequest(queue, q) => NoRequest(queue', q)
                                  /\ Asked(q) => OneRequest(queue', q)
    BY <1>2, <1>11, <2>3 DEF Asked
  <2>8. (\A q \in Requestors \cap X : Apart(q)')
        /\ (context = "incr" /\ win \in X => ctx'[win] = "gone")
    BY <2>2, <2>5 DEF Apart
  <2> HIDE DEF X
  <2> QED
    BY <1>2, <1>11, <2>4, <2>6, <2>7, <2>8, AsideKeeps
<1> QED
  BY <1>2, <1>10, <1>11

\* A requestor that has had its turn is with the owner in no other phase.
LEMMA InTurn ==
  ASSUME IInv, NEW r \in Requestors, ctx[r] \in {"sent", "incr"}
  PROVE  Asked(r) \/ Refusal(r) \/ Answered(r) \/ Waiting(r) \/ Sending(r)
BY DEF IInv, Phase, Engaged, Apart, Idle, Over, Gone

LEMMA RefusedHolds ==
  ASSUME IInv, NEW r \in Requestors, Refused(r)
  PROVE  IInv'
<1>1. Typed /\ Turns
  BY DEF IInv
<1>2. /\ ctx[r] = "sent" /\ events[r] # <<>> /\ Head(events[r]) = "refused"
      /\ UNCHANGED <<text, context, win, pos, watched, property, got, queue>>
      /\ \/ ctx' = ctx /\ Foreign(r, Tail(events[r]))
         \/ /\ ctx' = [ctx EXCEPT ![r] = "failed"]
            /\ events' = [events EXCEPT ![r] = Tail(@)]
            /\ silent' = silent
  BY DEF Refused, Next1, server, owner
<1>3. Refusal(r)
  <2>1. ~Asked(r)
    BY <1>2 DEF Asked
  <2>2. ~Answered(r)
    <3> SUFFICES ASSUME Answered(r) PROVE FALSE
      OBVIOUS
    <3>1. Head(events[r]) \in {"new", "notify"}
      BY EventQueues DEF Answered
    <3> QED
      BY <1>2, <3>1
  <2>3. ~Waiting(r) /\ ~Sending(r)
    BY <1>2 DEF Waiting, Sending
  <2> QED
    BY <1>2, <2>1, <2>2, <2>3, InTurn
<1>4. events[r] = <<"refused">> /\ NoRequest(queue, r)
  BY <1>2, <1>3 DEF Refusal
<1>5. ~(context = "incr" /\ win = r)
  <2>1. ~Engaged(r) /\ ctx[r] # "gone"
    BY <1>2, <1>3, ApartFacts DEF Apart
  <2> QED
    BY <2>1, InTransfer DEF Engaged
<1>6. DOMAIN events = Requestors /\ DOMAIN ctx = Requestors
  BY <1>1 DEF Typed
<1>7. Tail(events[r]) = <<>>
  BY <1>4, EventQueues
<1>8. /\ \A q \in Requestors \ {r} : Same(q)
      /\ DOMAIN events' = Requestors /\ DOMAIN ctx' = Requestors
      /\ \/ ctx'[r] = "failed"
         \/ /\ ctx'[r] = "sent"
            /\ events'[r] = <<"refused">> \/ (events'[r] = <<>> /\ r \in silent')
  <2>1. CASE ctx' = ctx /\ Foreign(r, Tail(events[r]))
    <3>1. /\ events'[r] = <<"refused">> \/ (events'[r] = <<>> /\ r \in silent')
          /\ DOMAIN events' = Requestors
          /\ \A q \in Requestors \ {r} : events'[q] = events[q] /\ (q \in silent => q \in silent')
      BY <1>6, <1>7, <2>1, EventQueues DEF Foreign
    <3> QED
      BY <1>2, <1>6, <2>1, <3>1 DEF Same
  <2>2. CASE /\ ctx' = [ctx EXCEPT ![r] = "failed"]
             /\ events' = [events EXCEPT ![r] = Tail(@)]
             /\ silent' = silent
    BY <1>2, <1>6, <2>2 DEF Same
  <2> QED
    BY <1>2, <2>1, <2>2
<1>9. Typed'
  BY <1>1, <1>2, <1>8 DEF Typed
<1>10. Apart(r)'
  BY <1>2, <1>4, <1>8 DEF Apart, Refusal, Over
<1>11. ~Long => watched' = {}
  BY <1>1, <1>2 DEF Turns
<1> DEFINE X == {r}
<1>12. \A q \in Requestors \ X : /\ Same(q)
                                 /\ q \in watched => q \in watched'
                                 /\ NoRequest(queue, q) => NoRequest(queue', q)
                                 /\ Asked(q) => OneRequest(queue', q)
  BY <1>2, <1>8 DEF Asked
<1>13. (\A q \in Requestors \cap X : Apart(q)')
       /\ (context = "incr" /\ win \in X => ctx'[win] = "gone")
  BY <1>5, <1>10
<1> HIDE DEF X
<1> QED
  BY <1>2, <1>9, <1>11, <1>12, <1>13, AsideKeeps

LEMMA VanishHolds ==
  ASSUME IInv, NEW r \in Requestors, Vanish(r)
  PROVE  IInv'
<1>1. Typed /\ Turns
  BY DEF IInv
<1>2. /\ ctx' = [ctx EXCEPT ![r] = "gone"]
      /\ property' = [property EXCEPT ![r] = NoProp]
      /\ events' = [events EXCEPT ![r] = <<>>]
      /\ watched' = watched \ {r}
      /\ UNCHANGED <<text, context, win, pos, got, queue, silent>>
  BY DEF Vanish, owner
<1>3. DOMAIN events = Requestors /\ DOMAIN ctx = Requestors /\ DOMAIN property = Requestors
  BY <1>1 DEF Typed
<1>4. Typed'
  BY <1>1, <1>2, <1>3 DEF Typed
<1>5. ctx'[r] = "gone"
  BY <1>2, <1>3
<1>6. ~Long => watched' = {}
  BY <1>1, <1>2 DEF Turns
<1> DEFINE X == {r}
<1>7. \A q \in Requestors \ X : /\ Same(q)
                                /\ q \in watched => q \in watched'
                                /\ NoRequest(queue, q) => NoRequest(queue', q)
                                /\ Asked(q) => OneRequest(queue', q)
  BY <1>2, <1>3 DEF Same, Asked
<1>8. (\A q \in Requestors \cap X : Apart(q)')
      /\ (context = "incr" /\ win \in X => ctx'[win] = "gone")
  BY <1>5 DEF Apart, Gone
<1> HIDE DEF X
<1> QED
  BY <1>2, <1>4, <1>6, <1>7, <1>8, AsideKeeps

LEMMA SkipHolds ==
  ASSUME IInv, NEW r \in Requestors, Skip(r)
  PROVE  IInv'
<1>1. Typed /\ Turns
  BY DEF IInv
<1>2. /\ ctx[r] \in {"sent", "incr"} /\ events[r] # <<>>
      /\ Head(events[r]) \in {"new", "deleted", "notify"}
      /\ ctx[r] = "sent" => Head(events[r]) # "notify"
      /\ ctx[r] = "incr" => Head(events[r]) # "new"
  BY DEF Skip, Next1
<1>3. /\ events' = [events EXCEPT ![r] = Tail(@)]
      /\ UNCHANGED <<text, context, win, pos, watched, property, got, ctx, queue, silent>>
  BY DEF Skip, server, owner, requestors
<1>4. DOMAIN events = Requestors
  BY <1>1 DEF Typed
<1>5. Long' = Long /\ queue' = queue /\ events'[r] = Tail(events[r])
  BY <1>3, <1>4 DEF Long
<1>6. Upto(pos)' = Upto(pos)
  BY <1>3 DEF Upto
<1>7. \A q \in Requestors \ {r} : Same(q)
  BY <1>3, <1>4 DEF Same
<1>8. Typed'
  BY <1>1, <1>3, <1>4, <1>5 DEF Typed
<1>9. Answered(r) \/ Waiting(r) \/ Sending(r)
  <2>1. ~Asked(r)
    BY <1>2 DEF Asked
  <2>2. ~Refusal(r)
    BY <1>2, EventQueues DEF Refusal
  <2> QED
    BY <1>2, <2>1, <2>2, InTurn
<1>10. Answered(r)' \/ Waiting(r)' \/ Sending(r)'
  <2>1. CASE Answered(r)
    <3>1. ctx[r] = "sent" /\ events[r] \in {<<"new", "notify">>, <<"notify">>}
      BY <2>1 DEF Answered
    <3>2. events'[r] = <<"notify">>
      BY <1>2, <1>5, <3>1, EventQueues
    <3>3. Answered(r)'
      BY <1>3, <1>5, <2>1, <3>2 DEF Answered
    <3> QED
      BY <3>3
  <2>2. CASE Waiting(r)
    <3>1. events[r] = <<"deleted">>
      BY <1>2, <2>2 DEF Waiting
    <3>2. events'[r] = <<>>
      BY <1>5, <3>1, EventQueues
    <3>3. Waiting(r)'
      BY <1>3, <1>5, <1>6, <2>2, <3>2 DEF Waiting
    <3> QED
      BY <3>3
  <2>3. CASE Sending(r)
    <3>1. ctx[r] = "incr" /\ events[r] \in {<<"deleted", "new">>, <<"new">>}
      BY <2>3 DEF Sending
    <3>2. events'[r] = <<"new">>
      BY <1>2, <1>5, <3>1, EventQueues
    <3>3. Sending(r)'
      BY <1>3, <1>5, <1>6, <2>3, <3>2 DEF Sending
    <3> QED
      BY <3>3
  <2> QED
    BY <1>9, <2>1, <2>2, <2>3
<1>11. Phase(r)'
  BY <1>10 DEF Phase, Engaged
<1>12. Long => \A q \in Requestors \ {r} : ~Engaged(q)
  BY <1>9, Alone DEF Engaged
<1>13. ~Long => watched' = {} /\ context' = "none" /\ NoDeleted(queue')
  BY <1>1, <1>3 DEF Turns, NoDeleted
<1>14. context' = "incr" => win' = r
  BY <1>3, <1>9, InTransfer DEF Engaged
<1> QED
  BY <1>3, <1>5, <1>7, <1>8, <1>10, <1>11, <1>12, <1>13, <1>14, StepKeeps

\* A requestor takes the data out of its property: the owner is told, if it
\* has put a chunk there.
LEMMA Taken ==
  ASSUME IInv, NEW r \in Requestors, Delete(r), events' = [events EXCEPT ![r] = Rest(r)],
         property[r] # NoProp, NoRequest(queue, r),
         Long => r \in watched /\ NoDeleted(queue)
  PROVE  /\ queue' \in Seq(EventSet) /\ NoRequest(queue', r)
         /\ property'[r] = NoProp /\ DOMAIN property' = Requestors
         /\ DOMAIN events' = Requestors
         /\ events'[r] = Append(Tail(events[r]), "deleted")
         /\ Long => OneDeleted(queue')
         /\ ~Long => queue' = queue
         /\ \A q \in Requestors \ {r} : property'[q] = property[q] /\ events'[q] = events[q]
         /\ \A q \in Requestors : NoRequest(queue, q) => NoRequest(queue', q)
<1>1. Typed /\ Turns /\ queue \in Seq(EventSet)
  BY DEF IInv, Typed
<1>2. /\ property' = [property EXCEPT ![r] = NoProp]
      /\ queue' = ToOwner(queue, "deleted", r, watched)
      /\ Rest(r) = Append(Tail(events[r]), "deleted")
  BY DEF Delete, Rest
<1>3. DOMAIN property = Requestors /\ DOMAIN events = Requestors
  BY <1>1 DEF Typed
<1>4. /\ queue' \in Seq(EventSet)
      /\ \A q \in Requestors : NoRequest(queue, q) => NoRequest(queue', q)
      /\ Long => OneDeleted(queue')
  BY <1>1, <1>2, ToOwnerQueue
<1>5. ~Long => queue' = queue
  BY <1>1, <1>2 DEF ToOwner, Turns
<1>6. events'[r] = Rest(r) /\ \A q \in Requestors \ {r} : events'[q] = events[q]
  BY <1>3
<1> QED
  BY <1>2, <1>3, <1>4, <1>5, <1>6

LEMMA NotifiedHolds ==
  ASSUME IInv, NEW r \in Requestors, Notified(r)
  PROVE  IInv'
<1>1. Typed /\ Turns
  BY DEF IInv
<1>2. /\ ctx[r] = "sent" /\ events[r] # <<>> /\ Head(events[r]) = "notify"
      /\ Delete(r) /\ events' = [events EXCEPT ![r] = Rest(r)]
      /\ IF property[r] = Incr
         THEN ctx' = [ctx EXCEPT ![r] = "incr"] /\ got' = got
         ELSE ctx' = [ctx EXCEPT ![r] = "done"] /\ got' = [got EXCEPT ![r] = property[r].data]
      /\ UNCHANGED <<text, context, win, pos, watched, silent>>
  BY DEF Notified, Next1, owner
<1>3. Answered(r)
  <2>1. ~Asked(r) /\ ~Waiting(r) /\ ~Sending(r)
    BY <1>2 DEF Asked, Waiting, Sending
  <2>2. ~Refusal(r)
    BY <1>2, EventQueues DEF Refusal
  <2> QED
    BY <1>2, <2>1, <2>2, InTurn
<1>4. events[r] = <<"notify">>
  <2>1. events[r] \in {<<"new", "notify">>, <<"notify">>}
    BY <1>3 DEF Answered
  <2>2. Head(<<"new", "notify">>) = "new"
    BY EventQueues
  <2> QED
    BY <1>2, <2>1, <2>2
<1>5. /\ NoRequest(queue, r) /\ got[r] = <<>>
      /\ property[r] = (IF Long THEN Incr ELSE Data(text)) /\ property[r] # NoProp
      /\ Data(text) # Incr /\ Data(text).data = text
      /\ Long => context = "incr" /\ win = r /\ pos = 0 /\ r \in watched /\ NoDeleted(queue)
  BY <1>3 DEF Answered, Incr, Data, NoProp
<1>6. /\ queue' \in Seq(EventSet) /\ NoRequest(queue', r)
      /\ property'[r] = NoProp /\ DOMAIN property' = Requestors
      /\ DOMAIN events' = Requestors
      /\ events'[r] = Append(Tail(events[r]), "deleted")
      /\ Long => OneDeleted(queue')
      /\ ~Long => queue' = queue
      /\ \A q \in Requestors \ {r} : property'[q] = property[q] /\ events'[q] = events[q]
      /\ \A q \in Requestors : NoRequest(queue, q) => NoRequest(queue', q)
  BY <1>2, <1>5, Taken
<1>7. DOMAIN ctx = Requestors /\ DOMAIN got = Requestors
  BY <1>1 DEF Typed
<1>8. Long' = Long
  BY <1>2 DEF Long
<1>9. \A q \in Requestors \ {r} : Same(q)
  BY <1>2, <1>6, <1>7 DEF Same
<1>10. Typed'
  BY <1>1, <1>2, <1>6, <1>7, <1>8 DEF Typed
<1>11. events'[r] = <<"deleted">>
  BY <1>4, <1>6, EventQueues
<1>12. CASE Long
  <2>1. property[r] = Incr
    BY <1>5, <1>12
  <2>2. ctx'[r] = "incr" /\ got'[r] = <<>>
    BY <1>2, <1>5, <1>7, <2>1
  <2>3. Upto(pos)' = <<>>
    <3>1. Upto(pos)' = Upto(pos) /\ pos = 0
      BY <1>2, <1>5, <1>12 DEF Upto
    <3> QED
      BY <1>1, <3>1, Chunks
  <2>4. Waiting(r)'
    BY <1>2, <1>5, <1>6, <1>8, <1>11, <1>12, <2>2, <2>3 DEF Waiting
  <2>5. Phase(r)'
    BY <2>4 DEF Phase, Engaged
  <2>6. \A q \in Requestors \ {r} : ~Engaged(q)
    BY <1>3, <1>12, Alone DEF Engaged
  <2>7. context' = "incr" => win' = r
    BY <1>2, <1>5, <1>12
  <2> QED
    BY <1>2, <1>6, <1>9, <1>10, <1>12, <2>4, <2>5, <2>6, <2>7, StepKeeps
<1>13. CASE ~Long
  <2>1. property[r] # Incr /\ property[r].data = text
    BY <1>5, <1>13
  <2>2. ctx'[r] = "done" /\ got'[r] = text'
    BY <1>2, <1>7, <2>1
  <2>3. Over(r)'
    BY <1>6, <2>2 DEF Over
  <2>4. Phase(r)'
    BY <2>3 DEF Phase, Apart
  <2>5. watched' = {} /\ context' = "none" /\ NoDeleted(queue')
    BY <1>1, <1>2, <1>6, <1>13 DEF Turns, NoDeleted
  <2> QED
    BY <1>2, <1>6, <1>9, <1>10, <1>13, <2>4, <2>5, StepKeeps
<1> QED
  BY <1>12, <1>13

LEMMA ReceivedHolds ==
  ASSUME IInv, NEW r \in Requestors, ChunkReceived(r)
  PROVE  IInv'
<1>1. Typed /\ Turns
  BY DEF IInv
<1>2. /\ ctx[r] = "incr" /\ events[r] # <<>> /\ Head(events[r]) = "new"
      /\ Delete(r) /\ events' = [events EXCEPT ![r] = Rest(r)]
      /\ IF property[r].data = <<>>
         THEN ctx' = [ctx EXCEPT ![r] = "done"] /\ got' = got
         ELSE got' = [got EXCEPT ![r] = @ \o property[r].data] /\ ctx' = ctx
      /\ UNCHANGED <<text, context, win, pos, watched, silent>>
  BY DEF ChunkReceived, Next1, owner
<1>3. Sending(r)
  <2>1. ~Asked(r) /\ ~Refusal(r) /\ ~Answered(r)
    BY <1>2 DEF Asked, Refusal, Answered
  <2>2. ~Waiting(r)
    BY <1>2, EventQueues DEF Waiting
  <2> QED
    BY <1>2, <2>1, <2>2, InTurn
<1>4. events[r] = <<"new">>
  <2>1. events[r] \in {<<"deleted", "new">>, <<"new">>}
    BY <1>3 DEF Sending
  <2>2. Head(<<"deleted", "new">>) = "deleted"
    BY EventQueues
  <2> QED
    BY <1>2, <2>1, <2>2
<1>5. PICK d : property[r].data = d
  OBVIOUS
<1>6. /\ Long /\ win = r /\ r \in watched /\ NoRequest(queue, r) /\ NoDeleted(queue)
      /\ property[r] = Data(d) /\ property[r] # NoProp
      /\ IF d = <<>> THEN context = "none" /\ got[r] = text
         ELSE context = "incr" /\ got[r] \o d = Upto(pos)
  BY <1>3, <1>5 DEF Sending, Data, NoProp
<1>7. /\ queue' \in Seq(EventSet) /\ NoRequest(queue', r)
      /\ property'[r] = NoProp /\ DOMAIN property' = Requestors
      /\ DOMAIN events' = Requestors
      /\ events'[r] = Append(Tail(events[r]), "deleted")
      /\ OneDeleted(queue')
      /\ \A q \in Requestors \ {r} : property'[q] = property[q] /\ events'[q] = events[q]
      /\ \A q \in Requestors : NoRequest(queue, q) => NoRequest(queue', q)
  BY <1>2, <1>6, Taken
<1>8. DOMAIN ctx = Requestors /\ DOMAIN got = Requestors
  BY <1>1 DEF Typed
<1>9. Long' = Long
  BY <1>2 DEF Long
<1>10. \A q \in Requestors \ {r} : Same(q)
  BY <1>2, <1>7, <1>8 DEF Same
<1>11. Typed'
  BY <1>1, <1>2, <1>7, <1>8, <1>9 DEF Typed
<1>12. events'[r] = <<"deleted">>
  BY <1>4, <1>7, EventQueues
<1>13. \A q \in Requestors \ {r} : ~Engaged(q)
  BY <1>3, <1>6, Alone DEF Engaged
<1>14. CASE d = <<>>
  <2>1. ctx'[r] = "done" /\ got'[r] = text'
    BY <1>2, <1>5, <1>6, <1>8, <1>14
  <2>2. Over(r)'
    BY <1>7, <2>1 DEF Over
  <2>3. Phase(r)'
    BY <2>2 DEF Phase, Apart
  <2>4. context' # "incr"
    BY <1>2, <1>6, <1>14
  <2> QED
    BY <1>2, <1>6, <1>7, <1>10, <1>11, <1>13, <2>3, <2>4, StepKeeps
<1>15. CASE d # <<>>
  <2>1. ctx'[r] = "incr" /\ got'[r] = got[r] \o d
    BY <1>2, <1>5, <1>8, <1>15
  <2>2. Upto(pos)' = Upto(pos)
    BY <1>2 DEF Upto
  <2>3. Waiting(r)'
    BY <1>2, <1>6, <1>7, <1>9, <1>12, <1>15, <2>1, <2>2 DEF Waiting
  <2>4. Phase(r)'
    BY <2>3 DEF Phase, Engaged
  <2>5. win' = r
    BY <1>2, <1>6
  <2> QED
    BY <1>2, <1>6, <1>7, <1>10, <1>11, <1>13, <2>3, <2>4, <2>5, StepKeeps
<1> QED
  BY <1>14, <1>15

-----------------------------------------------------------------------------
(* The invariant of the specification.                                     *)

LEMMA InitHolds ==
  ASSUME Init
  PROVE  IInv
<1>1. PICK l \in TextLens : text = TextOf(l)
  BY DEF Init
<1>2. l \in Nat /\ ChunkSize \in Nat
  BY XSelectionAssumption
<1>3. text \in Seq(Nat) /\ Len(text) = l
  <2>1. \A i \in 1..l : i \in Nat
    BY <1>2
  <2>2. TextOf(l) \in Seq(Nat) /\ Len(TextOf(l)) = l
    BY <1>2, <2>1, IsASeq DEF TextOf
  <2> QED
    BY <1>1, <2>2
<1>5. queue = <<>> /\ queue \in Seq(EventSet) /\ Len(queue) = 0
  BY DEF Init
<1>6. Typed
  BY <1>3, <1>5 DEF Init, Typed
<1>7. \A j \in 1..Len(queue) : FALSE
  BY <1>5
<1>10. \A r \in Requestors : Idle(r)
  BY <1>7 DEF Init, Idle, NoRequest
<1>11. \A r \in Requestors : Phase(r) /\ ~Engaged(r)
  BY <1>10, ApartFacts DEF Phase, Apart
<1>8. Turns
  BY <1>7, <1>11 DEF Init, Turns, NoDeleted
<1>9. Transfer
  BY DEF Init, Transfer
<1> QED
  BY <1>6, <1>8, <1>9, <1>11 DEF IInv

LEMMA NextHolds ==
  ASSUME IInv, [Next]_vars, ~crossed'
  PROVE  IInv'
<1>1. CASE UNCHANGED vars
  BY <1>1, StutterHolds DEF vars, server, owner, requestors
<1>2. CASE Owner
  BY <1>2, AnswerHolds, SendHolds, DiesHolds, ClearHolds, IgnoreHolds DEF Owner
<1>3. CASE Take
  BY <1>3, TakeHolds
<1>4. CASE \E r \in Requestors : Ask(r) \/ Requestor(r) \/ Vanish(r)
  BY <1>4, AskHolds, NotifiedHolds, RefusedHolds, ReceivedHolds, SkipHolds, VanishHolds
     DEF Requestor
<1> QED
  BY <1>1, <1>2, <1>3, <1>4 DEF Next

LEMMA CrossedStays ==
  ASSUME [Next]_vars, crossed
  PROVE  crossed'
<1>1. UNCHANGED requestors => crossed' = crossed
  BY DEF requestors
<1>2. ASSUME NEW r \in Requestors, Ask(r) PROVE crossed'
  BY <1>2 DEF Ask
<1>3. ASSUME NEW r \in Requestors, Requestor(r) \/ Vanish(r) PROVE crossed'
  BY <1>1, <1>3 DEF Requestor, Notified, Refused, ChunkReceived, Skip, Vanish
<1>4. CASE Owner \/ Take \/ UNCHANGED vars
  BY <1>1, <1>4 DEF Owner, AnswerRequest, SendChunk, OwnerDies, SelectionClear, Ignore, Take, vars
<1> QED
  BY <1>2, <1>3, <1>4 DEF Next

\* Each session is with the owner in one of the eight phases, whatever the
\* order of the events, until one asks for a long text that is on its way.
THEOREM Inductive == Spec => [](crossed \/ IInv)
<1>1. Init => crossed \/ IInv
  BY InitHolds
<1>2. (crossed \/ IInv) /\ [Next]_vars => (crossed \/ IInv)'
  BY NextHolds, CrossedStays
<1> QED
  BY <1>1, <1>2, PTL DEF Spec

\* What xcout() returns as complete is the text that xcin() serves: all of it,
\* in order and once, however many sessions paste it and whichever of them are
\* killed, unless one asked for a long text that was on its way to another.
THEOREM PasteIsTheTextHolds == Spec => []PasteIsTheText
<1>1. IInv => PasteIsTheText
  <2> SUFFICES ASSUME IInv, NEW r \in Requestors, ctx[r] = "done" PROVE got[r] = text
    BY DEF PasteIsTheText
  <2>1. Phase(r)
    BY DEF IInv
  <2> QED
    BY <2>1 DEF Phase, Engaged, Apart, Idle, Asked, Refusal, Answered, Waiting, Sending, Over, Gone
<1>2. crossed => PasteIsTheText
  BY DEF PasteIsTheText
<1> QED
  BY <1>1, <1>2, Inductive, PTL

-----------------------------------------------------------------------------
(* The end of the owner.                                                   *)

\* no request comes after the loss of the selection
ClearLast(q) ==
  \A j, h \in 1..Len(q) : q[j].type = "clear" /\ j < h => q[h].type # "request"

NoType(q, type) == \A j \in 1..Len(q) : q[j].type # type

\* The owner leaves when it has lost the selection and no transfer is under
\* way; it has read every request by then.
Leaving ==
  /\ queue \in Seq(EventSet)
  /\ ClearLast(queue)
  /\ selection = "owned" => ~clear /\ NoType(queue, "clear")
  /\ clear => NoType(queue, "request")
  /\ ended => clear /\ context = "none"
  /\ context \in {"none", "incr"} /\ (context = "incr" => win \in Requestors)

LEMMA TailLeaving ==
  ASSUME NEW q \in Seq(EventSet), q # <<>>
  PROVE  /\ Tail(q) \in Seq(EventSet)
         /\ \A t : NoType(q, t) => NoType(Tail(q), t) /\ Head(q).type # t
         /\ ClearLast(q) => /\ ClearLast(Tail(q))
                            /\ Head(q).type = "clear" => NoType(Tail(q), "request")
<1> DEFINE t == Tail(q)
<1>1. /\ Len(q) \in Nat \ {0} /\ q[1] = Head(q)
      /\ t \in Seq(EventSet) /\ Len(t) = Len(q) - 1
      /\ \A j \in 1..Len(t) : t[j] = q[j + 1]
  BY HeadTailProperties, LenProperties, EmptySeq
<1> HIDE DEF t
<1>2. 1 \in 1..Len(q) /\ \A j \in 1..Len(t) : j + 1 \in 1..Len(q) /\ 1 < j + 1
  BY <1>1
<1>3. \A u : NoType(q, u) => NoType(t, u) /\ Head(q).type # u
  BY <1>1, <1>2 DEF NoType
<1>4. ASSUME ClearLast(q) PROVE ClearLast(t)
  <2> SUFFICES ASSUME NEW j \in 1..Len(t), NEW h \in 1..Len(t), t[j].type = "clear", j < h
               PROVE  t[h].type # "request"
    BY DEF ClearLast
  <2>1. j + 1 \in 1..Len(q) /\ h + 1 \in 1..Len(q) /\ j + 1 < h + 1
    BY <1>1
  <2>2. t[j] = q[j + 1] /\ t[h] = q[h + 1]
    BY <1>1
  <2> QED
    BY <1>4, <2>1, <2>2 DEF ClearLast
<1>5. ASSUME ClearLast(q), Head(q).type = "clear" PROVE NoType(t, "request")
  BY <1>1, <1>2, <1>5 DEF ClearLast, NoType
<1> QED
  BY <1>1, <1>3, <1>4, <1>5 DEF t

LEMMA AppendLeaving ==
  ASSUME NEW q \in Seq(EventSet), NEW e \in EventSet
  PROVE  /\ Append(q, e) \in Seq(EventSet)
         /\ \A t : NoType(q, t) /\ e.type # t => NoType(Append(q, e), t)
         /\ ClearLast(q) /\ (e.type # "request" \/ NoType(q, "clear")) => ClearLast(Append(q, e))
<1> DEFINE a == Append(q, e)
<1>1. /\ a \in Seq(EventSet) /\ Len(a) = Len(q) + 1 /\ Len(q) \in Nat
      /\ \A j \in 1..Len(q) : a[j] = q[j]
      /\ a[Len(q) + 1] = e
  BY AppendProperties, LenProperties
<1> HIDE DEF a
<1>2. \A j \in 1..Len(a) : j \in 1..Len(q) \/ (j = Len(q) + 1 /\ a[j] = e)
  BY <1>1
<1>3. \A t : NoType(q, t) /\ e.type # t => NoType(a, t)
  BY <1>1, <1>2 DEF NoType
<1>4. ASSUME ClearLast(q), e.type # "request" \/ NoType(q, "clear") PROVE ClearLast(a)
  <2> SUFFICES ASSUME NEW j \in 1..Len(a), NEW h \in 1..Len(a), a[j].type = "clear", j < h
               PROVE  a[h].type # "request"
    BY DEF ClearLast
  <2>1. j \in 1..Len(q)
    BY <1>1
  <2>2. a[j] = q[j]
    BY <1>1, <2>1
  <2>3. CASE h \in 1..Len(q)
    <3>1. a[h] = q[h]
      BY <1>1, <2>3
    <3> QED
      BY <1>4, <2>1, <2>2, <2>3, <3>1 DEF ClearLast
  <2>4. CASE h \notin 1..Len(q)
    <3>1. a[h] = e
      BY <1>2, <2>4
    <3>2. ~NoType(q, "clear")
      BY <2>1, <2>2 DEF NoType
    <3> QED
      BY <1>4, <3>1, <3>2
  <2> QED
    BY <2>3, <2>4
<1> QED
  BY <1>1, <1>3, <1>4 DEF a

\* What the X server tells the owner of its requestors' properties does not
\* matter here.
LEMMA ToOwnerLeaving ==
  ASSUME NEW q \in Seq(EventSet), NEW t \in {"new", "deleted"}, NEW r \in Requestors, NEW W
  PROVE  LET u == ToOwner(q, t, r, W) IN
         /\ u \in Seq(EventSet)
         /\ NoType(q, "clear") => NoType(u, "clear")
         /\ NoType(q, "request") => NoType(u, "request")
         /\ ClearLast(q) => ClearLast(u)
<1> DEFINE e == Event(t, r)
<1>1. e \in EventSet /\ e.type = t
  BY EventFacts
<1>2. CASE r \in W
  <2>1. ToOwner(q, t, r, W) = Append(q, e)
    BY <1>2 DEF ToOwner
  <2>2. e.type # "clear" /\ e.type # "request"
    BY <1>1
  <2> HIDE DEF e
  <2> QED
    BY <1>1, <2>1, <2>2, AppendLeaving
<1>3. CASE r \notin W
  BY <1>3 DEF ToOwner
<1> QED
  BY <1>2, <1>3

LEMMA LeavingHolds ==
  ASSUME Leaving, [Next]_vars
  PROVE  Leaving'
<1>0. queue \in Seq(EventSet)
  BY DEF Leaving
<1>1. ASSUME UNCHANGED <<queue, selection, clear, ended, context, win>> PROVE Leaving'
  BY <1>1 DEF Leaving
<1>2. CASE AnswerRequest
  <2>1. PICK r \in Requestors : Head(queue).from = r
    BY <1>0, <1>2, TailQueue, EventFacts DEF AnswerRequest, Reads
  <2>2. /\ queue # <<>> /\ Head(queue).type = "request" /\ ~ended
        /\ queue' = ToOwner(Tail(queue), "new", r, watched)
        /\ context' = (IF Long THEN "incr" ELSE "none")
        /\ ended' = (clear /\ ~Long) /\ win' = r
        /\ UNCHANGED <<selection, clear>>
    BY <1>2, <2>1 DEF AnswerRequest, Reads
  <2>3. Tail(queue) \in Seq(EventSet) /\ ~clear
    BY <1>0, <2>2, TailLeaving DEF Leaving
  <2>4. /\ NoType(queue, "clear") => NoType(Tail(queue), "clear")
        /\ ClearLast(Tail(queue))
    BY <1>0, <2>2, TailLeaving DEF Leaving
  <2>5. /\ queue' \in Seq(EventSet) /\ ClearLast(queue')
        /\ NoType(Tail(queue), "clear") => NoType(queue', "clear")
    BY <2>2, <2>3, <2>4, ToOwnerLeaving
  <2> QED
    BY <2>2, <2>3, <2>4, <2>5 DEF Leaving
<1>3. CASE SendChunk
  <2>0. /\ queue # <<>> /\ win \in Requestors /\ UNCHANGED <<selection, clear, win>>
        /\ queue' = ToOwner(Tail(queue), "new", win, watched)
        /\ context' \in {"none", "incr"} /\ (ended' => clear /\ context' = "none")
    BY <1>3 DEF SendChunk, Reads, Leaving
  <2>1. /\ Tail(queue) \in Seq(EventSet) /\ ClearLast(Tail(queue))
        /\ \A t : NoType(queue, t) => NoType(Tail(queue), t)
    BY <1>0, <2>0, TailLeaving DEF Leaving
  <2>2. /\ queue' \in Seq(EventSet) /\ ClearLast(queue')
        /\ NoType(queue, "clear") => NoType(queue', "clear")
        /\ NoType(queue, "request") => NoType(queue', "request")
    BY <2>0, <2>1, ToOwnerLeaving
  <2> QED
    BY <2>0, <2>2 DEF Leaving
<1>4. CASE SelectionClear
  <2>1. /\ queue # <<>> /\ Head(queue).type = "clear" /\ queue' = Tail(queue)
        /\ clear' = TRUE /\ ended' = (context = "none")
        /\ UNCHANGED <<selection, context, win>>
    BY <1>4 DEF SelectionClear, Reads, server
  <2>2. /\ Tail(queue) \in Seq(EventSet) /\ ClearLast(Tail(queue))
        /\ NoType(Tail(queue), "request")
        /\ ~NoType(queue, "clear")
    BY <1>0, <2>1, TailLeaving DEF Leaving
  <2> QED
    BY <2>1, <2>2 DEF Leaving
<1>5. CASE Take
  <2> DEFINE e == Event("clear", Nobody)
  <2>1. /\ queue' = Append(queue, e) /\ selection' = "lost" /\ selection = "owned"
        /\ UNCHANGED <<clear, ended, context, win>>
    BY <1>5 DEF Take, owner
  <2>2. e \in EventSet /\ e.type = "clear"
    BY EventFacts
  <2> HIDE DEF e
  <2>3. queue' \in Seq(EventSet) /\ ClearLast(queue')
    BY <1>0, <2>1, <2>2, AppendLeaving DEF Leaving
  <2> QED
    BY <2>1, <2>3 DEF Leaving
<1>6. ASSUME NEW r \in Requestors, Ask(r) PROVE Leaving'
  <2> DEFINE e == Event("request", r)
  <2>1. /\ UNCHANGED <<selection, clear, ended, context, win>>
        /\ queue' = queue \/ (selection = "owned" /\ queue' = Append(queue, e))
    BY <1>6 DEF Ask, server, owner
  <2>2. CASE queue' = queue
    BY <1>1, <2>1, <2>2
  <2>3. CASE selection = "owned" /\ queue' = Append(queue, e)
    <3>1. e \in EventSet /\ e.type = "request"
      BY EventFacts
    <3> HIDE DEF e
    <3>2. ~clear /\ NoType(queue, "clear") /\ ClearLast(queue)
      BY <2>3 DEF Leaving
    <3>3. queue' \in Seq(EventSet) /\ ClearLast(queue') /\ NoType(queue', "clear")
      BY <1>0, <2>3, <3>1, <3>2, AppendLeaving
    <3> QED
      BY <2>1, <3>2, <3>3 DEF Leaving
  <2> QED
    BY <2>1, <2>2, <2>3
<1>7. ASSUME NEW r \in Requestors, Notified(r) \/ ChunkReceived(r) PROVE Leaving'
  <2>1. /\ UNCHANGED <<selection, clear, ended, context, win>>
        /\ queue' = queue \/ queue' = ToOwner(queue, "deleted", r, watched)
    BY <1>7 DEF Notified, ChunkReceived, Delete, owner
  <2>2. /\ queue' \in Seq(EventSet)
        /\ NoType(queue, "clear") => NoType(queue', "clear")
        /\ NoType(queue, "request") => NoType(queue', "request")
        /\ ClearLast(queue) => ClearLast(queue')
    BY <1>0, <2>1, ToOwnerLeaving
  <2> QED
    BY <2>1, <2>2 DEF Leaving
<1>8. ASSUME NEW r \in Requestors, Refused(r) \/ Skip(r) \/ Vanish(r) PROVE Leaving'
  <2>1. UNCHANGED <<queue, selection, clear, ended, context, win>>
    BY <1>8 DEF Refused, Skip, Vanish, server, owner
  <2> QED
    BY <1>1, <2>1
<1>9. CASE UNCHANGED vars
  BY <1>1, <1>9 DEF vars, server, owner
<1>10. CASE OwnerDies
  <2>1. selection' = "lost" /\ UNCHANGED <<queue, clear, ended, context, win>>
    BY <1>10 DEF OwnerDies
  <2> QED
    BY <2>1 DEF Leaving
<1>11. CASE Ignore
  <2>1. /\ queue # <<>> /\ queue' = Tail(queue) /\ UNCHANGED <<selection, clear, ended, context, win>>
        /\ ~ended
    BY <1>11 DEF Ignore, Reads, server, owner
  <2>2. /\ Tail(queue) \in Seq(EventSet) /\ ClearLast(Tail(queue))
        /\ \A t : NoType(queue, t) => NoType(Tail(queue), t)
    BY <1>0, <2>1, TailLeaving DEF Leaving
  <2> QED
    BY <2>1, <2>2 DEF Leaving
<1> QED
  BY <1>2, <1>3, <1>4, <1>5, <1>6, <1>7, <1>8, <1>9, <1>10, <1>11 DEF Next, Owner, Requestor

\* doIn() returns only when the selection is another program's.  Whoever still
\* waits then has the last chunk, the whole text or the other program's answer
\* to read, or is one that the other program does not answer.
THEOREM NobodyIsLeftHalfwayHolds == Spec => []NobodyIsLeftHalfway
<1>1. Init => Leaving
  <2> SUFFICES ASSUME Init PROVE Leaving
    OBVIOUS
  <2>1. /\ queue = <<>> /\ ~clear /\ ~ended /\ context = "none"
    BY DEF Init
  <2>2. queue \in Seq(EventSet) /\ Len(queue) = 0
    BY <2>1
  <2> QED
    BY <2>1, <2>2 DEF Leaving, ClearLast, NoType
<1>2. Leaving /\ [Next]_vars => Leaving'
  BY LeavingHolds
<1>3. ASSUME IInv, Leaving PROVE NobodyIsLeftHalfway
  <2> SUFFICES ASSUME ended, NEW r \in Requestors
               PROVE  /\ ctx[r] = "incr" =>
                           got[r] = text /\ property[r] = Data(<<>>) /\ Pending(r, "new")
                      /\ ctx[r] = "sent" =>
                           \/ property[r] = Data(text) /\ Pending(r, "notify")
                           \/ Pending(r, "refused") \/ r \in silent
    BY DEF NobodyIsLeftHalfway
  <2>1. context = "none" /\ NoType(queue, "request") /\ Phase(r)
    BY <1>3 DEF Leaving, IInv
  <2>2. ~Asked(r)
    <3>1. Event("request", r).type = "request"
      BY EventFacts
    <3> QED
      BY <2>1, <3>1 DEF Asked, OneRequest, NoType
  <2>3. (~Waiting(r) /\ ~Idle(r)) \/ ctx[r] \notin {"sent", "incr"}
    BY <2>1 DEF Waiting, Idle
  <2>4. CASE Answered(r)
    <3>1. ~Long /\ property[r] = Data(text) /\ ctx[r] = "sent"
      BY <2>1, <2>4 DEF Answered
    <3>2. Pending(r, "notify")
      <4>1. events[r] = <<"new", "notify">> => 2 \in DOMAIN events[r] /\ events[r][2] = "notify"
        OBVIOUS
      <4>2. events[r] = <<"notify">> => 1 \in DOMAIN events[r] /\ events[r][1] = "notify"
        OBVIOUS
      <4> QED
        BY <2>4, <4>1, <4>2 DEF Answered, Pending
    <3> QED
      BY <3>1, <3>2
  <2>5. CASE Sending(r)
    <3>1. property[r] = Data(<<>>) /\ got[r] = text /\ ctx[r] = "incr"
      BY <2>1, <2>5 DEF Sending
    <3>2. Pending(r, "new")
      <4>1. events[r] = <<"deleted", "new">> => 2 \in DOMAIN events[r] /\ events[r][2] = "new"
        OBVIOUS
      <4>2. events[r] = <<"new">> => 1 \in DOMAIN events[r] /\ events[r][1] = "new"
        OBVIOUS
      <4> QED
        BY <2>5, <4>1, <4>2 DEF Sending, Pending
    <3> QED
      BY <3>1, <3>2
  <2>6. CASE Refusal(r)
    <3>1. events[r] = <<"refused">> => 1 \in DOMAIN events[r] /\ events[r][1] = "refused"
      OBVIOUS
    <3> QED
      BY <2>6, <3>1 DEF Refusal, Pending
  <2>7. CASE ctx[r] \notin {"sent", "incr"}
    BY <2>7
  <2>8. Over(r) \/ Gone(r) => ctx[r] \notin {"sent", "incr"}
    BY DEF Over, Gone
  <2> QED
    BY <2>1, <2>2, <2>3, <2>4, <2>5, <2>6, <2>7, <2>8 DEF Phase, Engaged, Apart
<1>4. crossed => NobodyIsLeftHalfway
  BY DEF NobodyIsLeftHalfway
<1>5. Spec => []Leaving
  BY <1>1, <1>2, PTL DEF Spec
<1> QED
  BY <1>3, <1>4, <1>5, Inductive, PTL
=============================================================================
