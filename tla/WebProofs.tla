------------------------------ MODULE WebProofs ------------------------------
(***************************************************************************)
(* Proofs about Web and the clipboard it shares, for every set of          *)
(* processes, every request they may be sent, in any segments, and every   *)
(* limit of the configuration.                                             *)
(***************************************************************************)
EXTENDS Web, SequenceTheorems, WellFoundedInduction, TLAPS

Cell == Procs \cup {Hole}

\* a text that is whole, or the first blocks of it
Full(p, n) == [i \in 1..n |-> p]

-----------------------------------------------------------------------------
(* Texts.                                                                  *)

LEMMA FunctionIsSeq ==
  ASSUME NEW S, NEW n \in Nat, NEW f \in [1..n -> S]
  PROVE  f \in Seq(S) /\ Len(f) = n
<1>1. f \in Seq(S)
  BY SeqDef
<1>2. Len(f) \in Nat /\ DOMAIN f = 1..Len(f) /\ DOMAIN f = 1..n
  BY <1>1, LenProperties
<1>3. Len(f) = n
  BY <1>2
<1> QED
  BY <1>1, <1>3

LEMMA FullProperties ==
  ASSUME NEW p \in Procs, NEW n \in Nat
  PROVE  /\ Full(p, n) \in Seq(Cell) /\ Len(Full(p, n)) = n
         /\ \A i \in 1..n : Full(p, n)[i] = p
<1>1. Full(p, n) \in [1..n -> Cell]
  BY DEF Full, Cell
<1>2. \A i \in 1..n : Full(p, n)[i] = p
  BY DEF Full
<1> QED
  BY <1>1, <1>2, FunctionIsSeq

\* Writing a block keeps the others.
LEMMA PutProperties ==
  ASSUME NEW t \in Seq(Cell), NEW n \in Nat, NEW p \in Procs
  PROVE  LET s == Put(t, n + 1, p) IN
         /\ s \in Seq(Cell)
         /\ \A i \in 1..Len(s) : s[i] \in {p, Hole} \/ (i \in 1..Len(t) /\ s[i] = t[i])
         /\ t = Full(p, n) => s = Full(p, n + 1)
<1> DEFINE s == Put(t, n + 1, p)
           m == IF n + 1 > Len(t) THEN n + 1 ELSE Len(t)
<1>1. Len(t) \in Nat /\ \A i \in 1..Len(t) : t[i] \in Cell
  BY LenProperties, ElementOfSeq
<1>2. m \in Nat
  BY <1>1
<1>3. s = [j \in 1..m |-> IF j = n + 1 THEN p ELSE IF j <= Len(t) THEN t[j] ELSE Hole]
  BY DEF Put
<1> HIDE DEF s, m
<1>4. s \in [1..m -> Cell]
  BY <1>1, <1>2, <1>3 DEF Cell
<1>5. s \in Seq(Cell) /\ Len(s) = m
  BY <1>2, <1>4, FunctionIsSeq
<1>6. \A i \in 1..m : s[i] \in {p, Hole} \/ (i \in 1..Len(t) /\ s[i] = t[i])
  BY <1>1, <1>2, <1>3
<1>7. ASSUME t = Full(p, n)
      PROVE  s = Full(p, n + 1)
  <2>1. Len(t) = n /\ m = n + 1
    BY <1>7, FullProperties DEF m
  <2>2. \A i \in 1..(n + 1) : s[i] = p
    BY <1>3, <1>7, <2>1 DEF Full
  <2> QED
    BY <1>4, <2>1, <2>2 DEF Full
<1> QED
  BY <1>5, <1>6, <1>7 DEF s

\* The place of the first hole exists.
LEMMA FirstOf ==
  ASSUME NEW H \in SUBSET Nat, H # {}
  PROVE  LET h == CHOOSE i \in H : \A j \in H : i <= j IN h \in H /\ \A j \in H : h <= j
<1> DEFINE R == {ss \in Nat \X Nat : ss[1] < ss[2]}
<1>1. IsWellFoundedOn(R, Nat)
  BY NatLessThanWellFounded DEF OpToRel
<1>2. \E x \in H : \A y \in H : <<y, x>> \notin R
  <2> HIDE DEF R
  <2> QED
    BY <1>1, WFMin
<1>3. \E x \in H : \A y \in H : x <= y
  <2>1. PICK x \in H : \A y \in H : <<y, x>> \notin R
    BY <1>2
  <2>2. \A y \in H : ~ (y < x)
    BY <2>1
  <2> QED
    BY <2>2
<1> QED
  BY <1>3

\* strlen() cuts a buffer before its first zero.
LEMMA StrlenProperties ==
  ASSUME NEW t \in Seq(Cell)
  PROVE  LET s == Strlen(t) IN
         /\ s \in Seq(Cell) /\ Len(s) \in 0..Len(t)
         /\ \A i \in 1..Len(s) : i \in 1..Len(t) /\ s[i] = t[i] /\ s[i] # Hole
         /\ t # <<>> /\ t[1] # Hole => s # <<>>
         /\ (\A i \in 1..Len(t) : t[i] # Hole) => s = t
<1> DEFINE holes == {i \in 1..Len(t) : t[i] = Hole}
           h == CHOOSE i \in holes : \A j \in holes : i <= j
           s == Strlen(t)
<1>1. Len(t) \in Nat /\ \A i \in 1..Len(t) : t[i] \in Cell
  BY LenProperties, ElementOfSeq
<1>2. CASE holes = {}
  <2>1. s = t
    BY <1>2 DEF Strlen
  <2> HIDE DEF s
  <2> QED
    BY <1>1, <1>2, <2>1 DEF s
<1>3. CASE holes # {}
  <2>1. h \in holes /\ \A j \in holes : h <= j
    <3>1. holes \in SUBSET Nat
      BY <1>1
    <3> HIDE DEF holes
    <3> QED
      BY <1>3, <3>1, FirstOf
  <2>2. s = SubSeq(t, 1, h - 1)
    BY <1>3 DEF Strlen
  <2> HIDE DEF h, s
  <2>3. h \in 1..Len(t) /\ t[h] = Hole
    BY <1>1, <2>1
  <2>4. h - 1 \in 0..Len(t) /\ \A i \in 1..(h - 1) : i \in 1..Len(t) /\ i < h
    BY <1>1, <2>3
  <2>5. \A i \in 1..(h - 1) : t[i] # Hole
    <3> TAKE i \in 1..(h - 1)
    <3>1. i \in 1..Len(t) /\ ~(h <= i)
      BY <2>3, <2>4
    <3> QED
      BY <2>1, <3>1
  <2>6. /\ s \in Seq(Cell) /\ Len(s) = h - 1
        /\ \A i \in 1..(h - 1) : s[i] = t[i]
    <3>1. \A i \in 1..(h - 1) : t[i] \in Cell
      BY <1>1, <2>4
    <3>2. /\ SubSeq(t, 1, h - 1) \in Seq(Cell)
          /\ Len(SubSeq(t, 1, h - 1)) = IF 1 <= h - 1 THEN (h - 1) - 1 + 1 ELSE 0
          /\ \A i \in 1..((h - 1) - 1 + 1) : SubSeq(t, 1, h - 1)[i] = t[1 + i - 1]
      BY <2>3, <3>1, SubSeqProperties
    <3>3. /\ (h - 1) - 1 + 1 = h - 1 /\ (~(1 <= h - 1) => h - 1 = 0)
          /\ \A i \in 1..(h - 1) : 1 + i - 1 = i
      BY <2>3
    <3> QED
      BY <2>2, <3>2, <3>3
  <2>7. t[1] # Hole => h - 1 # 0
    BY <2>3
  <2>8. t[1] # Hole => s # <<>>
    BY <2>6, <2>7, EmptySeq
  <2>9. ~ \A i \in 1..Len(t) : t[i] # Hole
    BY <2>3
  <2> QED
    BY <2>4, <2>5, <2>6, <2>8, <2>9 DEF s
<1> QED
  BY <1>2, <1>3

-----------------------------------------------------------------------------
(* The inductive invariant.                                                *)

Putting == {"put", "opentext", "write", "writetype"}
Posting == {"headers", "parse", "body"} \cup Putting
Asking == {"drain", "get", "measure", "read", "found", "missing", "cut", "cutwrite"}
Labels == {"line", "say", "end", "killed"} \cup Posting \cup Asking
Parts == {"200", "length", "page", "type", "text", "404", "500"}

Typed ==
  /\ pc \in [Procs -> Labels]
  /\ type \in {"", "TEXT", "FILE"}
  /\ text \in Seq(Cell)
  /\ off \in [Procs -> Nat] /\ size \in [Procs -> Nat]
  /\ got \in [Procs -> Seq(Cell)]
  /\ lastPut \in Procs \cup {NoProc}
  /\ raced \in BOOLEAN /\ unnoticed \in BOOLEAN
  /\ disturbed \in [Procs -> BOOLEAN]
  /\ req \in Requests
  /\ sent \in [Procs -> Nat] /\ rd \in [Procs -> Nat]
  /\ DOMAIN out = Procs
  /\ acked \in [Procs -> BOOLEAN]

\* all that was announced has arrived
Received(p) ==
  /\ req[p].headers + req[p].announced <= rd[p]
  /\ req[p].announced \in 1..MaxBody

\* Where a request is, what has been read of it and what is answered.
AnsweredTo(p) ==
  /\ pc[p] \in {"line", "drain"} => req[p].kind \in {"page", "clip", "unknown", "post"}
  /\ pc[p] \in Posting => Poster(p)
  /\ pc[p] \in Asking => ~Poster(p)
  /\ rd[p] <= sent[p] /\ sent[p] <= Total(p)
  /\ pc[p] = "body" => req[p].announced \in 1..MaxBody
  /\ Poster(p) /\ pc[p] \in {"say"} \cup Putting => Received(p)
  /\ pc[p] = "say" => IF Poster(p) THEN out[p] = <<"204">> ELSE out[p] \in Seq(Parts)
  /\ acked[p] => Poster(p) /\ Received(p)
  /\ pc[p] \in Putting => acked[p]

Answered == \A p \in Procs : AnsweredTo(p)

\* the blocks of t, but for holes, are of texts that were acknowledged
OfPosts(t) == \A i \in 1..Len(t) : t[i] # Hole => acked[t[i]]

\* What is read of a text.
Served ==
  /\ OfPosts(text)
  /\ \A p \in Procs :
       /\ OfPosts(got[p])
       /\ pc[p] = "read" => Len(got[p]) = off[p] /\ off[p] <= size[p] /\ size[p] > 0
       /\ pc[p] = "found" => got[p] # <<>> /\ \A i \in 1..Len(got[p]) : got[p][i] # Hole

\* As long as no writers have overlapped, the one that is writing is the last
\* one, and the file `type' is empty while it does.
Committed ==
  /\ ~raced =>
       \A p \in Procs :
         /\ pc[p] \in Writing => p = lastPut /\ type = ""
         /\ pc[p] = "write" => off[p] <= Blocks(p) /\ text = Full(p, off[p])
         /\ pc[p] = "writetype" /\ ~unnoticed => text = Full(p, Blocks(p))
  /\ type = "TEXT" /\ ~raced /\ ~unnoticed =>
       /\ lastPut \in Procs /\ Poster(lastPut) /\ acked[lastPut]
       /\ text = Full(lastPut, Blocks(lastPut))

\* A reader that no writer disturbs reads a text that is committed.
Undisturbed ==
  ~raced /\ ~unnoticed =>
    \A p \in Procs : ~disturbed[p] =>
      /\ pc[p] \in Reading => type = "TEXT"
      /\ pc[p] = "read" => /\ size[p] = Len(text)
                          /\ \A i \in 1..off[p] : got[p][i] = text[i]
      /\ pc[p] = "found" =>
           \E q \in Procs : Poster(q) /\ acked[q] /\ got[p] = Full(q, Blocks(q))

IInv == Typed /\ Answered /\ Served /\ Committed /\ Undisturbed

-----------------------------------------------------------------------------
(* Types, and what has been received.                                      *)

LEMMA RequestFields ==
  ASSUME Typed, NEW p \in Procs
  PROVE  /\ req[p].headers \in Nat /\ req[p].announced \in Nat
         /\ req[p].body \in Nat
         /\ Total(p) \in Nat /\ Blocks(p) \in Nat
<1>1. /\ req[p].headers \in Nat /\ req[p].announced \in Nat
      /\ req[p].body \in Nat
  BY WebAssumption DEF Typed
<1> QED
  BY <1>1 DEF Total, Blocks

LEMMA InitTyped == Init => Typed
<1> SUFFICES ASSUME Init PROVE Typed
  OBVIOUS
<1>1. pc \in [Procs -> Labels]
  BY DEF Init, Labels, Asking
<1>2. text \in Seq(Cell) /\ <<>> \in Seq(Cell)
  BY EmptySeq DEF Init, ClipboardInit
<1>3. got \in [Procs -> Seq(Cell)]
  BY <1>2 DEF Init, ClipboardInit
<1>4. req \in Requests
  BY DEF Init
<1>5. \A p \in Procs : Total(p) \in Nat
  BY <1>4, WebAssumption DEF Total
<1>6. sent \in [Procs -> Nat]
  BY <1>5 DEF Init
<1> QED
  BY <1>1, <1>2, <1>3, <1>4, <1>6 DEF Init, ClipboardInit, Typed

LEMMA OpenTyped ==
  ASSUME Typed, NEW p \in Procs, NEW loc \in Labels, OpenType(p, loc),
         UNCHANGED <<text, buffers, unnoticed, webVars>>
  PROVE  Typed'
BY DEF Typed, OpenType, GoTo, Busy, buffers, webVars

LEMMA PutTyped ==
  ASSUME Typed, NEW p \in Procs, PutClip(p)
  PROVE  Typed'
<1>1. {"opentext", "write", "writetype", "end"} \subseteq Labels
  BY DEF Labels, Posting, Putting
<1>2. <<>> \in Seq(Cell) /\ \A n \in Nat : Put(text, n + 1, p) \in Seq(Cell)
  BY EmptySeq, PutProperties DEF Typed
<1>3. /\ UNCHANGED webVars
      /\ \/ OpenType(p, "opentext") /\ UNCHANGED <<text, buffers, unnoticed>>
         \/ GoTo(p, "end") /\ UNCHANGED <<type, text, buffers, history>>
         \/ /\ GoTo(p, "write") \/ GoTo(p, "end")
            /\ text' \in {text, <<>>} /\ off' = [off EXCEPT ![p] = 0]
            /\ UNCHANGED <<type, size, got, history>>
         \/ /\ text' = Put(text, off[p] + 1, p)
            /\ off' = [off EXCEPT ![p] = @ + 1]
            /\ UNCHANGED <<type, pc, size, got, history>>
         \/ /\ GoTo(p, "writetype") /\ unnoticed' \in {unnoticed, TRUE}
            /\ UNCHANGED <<files, buffers, lastPut, raced, disturbed>>
         \/ /\ type' \in {"TEXT", type}
            /\ GoTo(p, "end")
            /\ UNCHANGED <<text, buffers, history>>
  BY DEF PutClip, PutStep, history, files
<1>4. CASE OpenType(p, "opentext") /\ UNCHANGED <<text, buffers, unnoticed>>
  BY <1>1, <1>3, <1>4, OpenTyped
<1>5. CASE GoTo(p, "end") /\ UNCHANGED <<type, text, buffers, history>>
  BY <1>1, <1>3, <1>5 DEF Typed, GoTo, buffers, history, webVars
<1>6. CASE /\ GoTo(p, "write") \/ GoTo(p, "end")
           /\ text' \in {text, <<>>} /\ off' = [off EXCEPT ![p] = 0]
           /\ UNCHANGED <<type, size, got, history>>
  BY <1>1, <1>2, <1>3, <1>6 DEF Typed, GoTo, history, webVars
<1>7. CASE /\ text' = Put(text, off[p] + 1, p)
           /\ off' = [off EXCEPT ![p] = @ + 1]
           /\ UNCHANGED <<type, pc, size, got, history>>
  <2>1. off \in [Procs -> Nat] /\ text' \in Seq(Cell)
    BY <1>2, <1>7 DEF Typed
  <2>2. off' \in [Procs -> Nat]
    BY <1>7, <2>1
  <2>3. UNCHANGED <<type, pc, size, got, lastPut, raced, unnoticed, disturbed, req, sent,
                    rd, out, acked>>
    BY <1>3, <1>7 DEF history, webVars
  <2> QED
    BY <2>1, <2>2, <2>3 DEF Typed
<1>8. CASE /\ GoTo(p, "writetype") /\ unnoticed' \in {unnoticed, TRUE}
           /\ UNCHANGED <<files, buffers, lastPut, raced, disturbed>>
  BY <1>1, <1>3, <1>8 DEF Typed, GoTo, files, buffers, webVars
<1>9. CASE /\ type' \in {"TEXT", type}
           /\ GoTo(p, "end")
           /\ UNCHANGED <<text, buffers, history>>
  BY <1>1, <1>3, <1>9 DEF Typed, GoTo, buffers, history, webVars
<1> QED
  BY <1>3, <1>4, <1>5, <1>6, <1>7, <1>8, <1>9

LEMMA CutTyped ==
  ASSUME Typed, NEW p \in Procs, CutFiles(p)
  PROVE  Typed'
<1>1. {"cutwrite", "end"} \subseteq Labels
  BY DEF Labels, Asking
<1>2. /\ UNCHANGED webVars
      /\ \/ OpenType(p, "cutwrite") /\ UNCHANGED <<text, buffers, unnoticed>>
         \/ /\ type' \in {"FILE", type}
            /\ GoTo(p, "end")
            /\ UNCHANGED <<text, buffers, history>>
  BY DEF CutFiles, CutStep, history
<1>3. CASE OpenType(p, "cutwrite") /\ UNCHANGED <<text, buffers, unnoticed>>
  BY <1>1, <1>2, <1>3, OpenTyped
<1>4. CASE type' \in {"FILE", type} /\ GoTo(p, "end") /\ UNCHANGED <<text, buffers, history>>
  BY <1>1, <1>2, <1>4 DEF Typed, GoTo, buffers, history, webVars
<1> QED
  BY <1>2, <1>3, <1>4

LEMMA GetTyped ==
  ASSUME Typed, NEW p \in Procs, GetClip(p)
  PROVE  Typed'
<1>1. {"measure", "read", "found", "missing"} \subseteq Labels
  BY DEF Labels, Asking
<1>2. got[p] \in Seq(Cell) /\ off[p] \in Nat /\ Len(text) \in Nat
  BY LenProperties DEF Typed
<1>3. <<>> \in Seq(Cell) /\ Strlen(got[p]) \in Seq(Cell)
  BY <1>2, EmptySeq, StrlenProperties
<1>4. /\ UNCHANGED <<files, lastPut, raced, unnoticed, webVars>>
      /\ \/ pc' = pc \/ \E l \in {"measure", "read", "found", "missing"} : GoTo(p, l)
      /\ off' = off \/ off' = [off EXCEPT ![p] = 0] \/ off' = [off EXCEPT ![p] = @ + 1]
      /\ size' = size \/ size' = [size EXCEPT ![p] = Len(text)]
      /\ \/ disturbed' = disturbed
         \/ disturbed' = [disturbed EXCEPT ![p] = Busy(Writing, p)]
  BY DEF GetClip, GetStep, files, buffers, history
<1>5. \/ got' = got \/ got' = [got EXCEPT ![p] = <<>>]
      \/ got' = [got EXCEPT ![p] = Strlen(got[p])]
      \/ off[p] < Len(text) /\ got' = [got EXCEPT ![p] = Append(@, text[off[p] + 1])]
  BY DEF GetClip, GetStep, buffers
<1>6. got' \in [Procs -> Seq(Cell)]
  <2>1. CASE off[p] < Len(text) /\ got' = [got EXCEPT ![p] = Append(@, text[off[p] + 1])]
    <3>1. off[p] + 1 \in 1..Len(text)
      BY <1>2, <2>1
    <3>2. text[off[p] + 1] \in Cell
      BY <3>1, ElementOfSeq DEF Typed
    <3>3. Append(got[p], text[off[p] + 1]) \in Seq(Cell)
      BY <1>2, <3>2, AppendProperties
    <3> QED
      BY <2>1, <3>3 DEF Typed
  <2> QED
    BY <1>3, <1>5, <2>1 DEF Typed
<1>7. pc' \in [Procs -> Labels] /\ off' \in [Procs -> Nat] /\ size' \in [Procs -> Nat]
  <2>1. pc \in [Procs -> Labels] /\ off \in [Procs -> Nat] /\ size \in [Procs -> Nat]
    BY DEF Typed
  <2>2. pc' = pc \/ \E l \in Labels : GoTo(p, l)
    BY <1>1, <1>4
  <2>3. pc' \in [Procs -> Labels]
    BY <2>1, <2>2 DEF GoTo
  <2>4. off' = off \/ off' = [off EXCEPT ![p] = 0] \/ off' = [off EXCEPT ![p] = @ + 1]
    BY <1>4
  <2>5. size' = size \/ size' = [size EXCEPT ![p] = Len(text)]
    BY <1>4
  <2>6. off' \in [Procs -> Nat]
    BY <2>1, <2>4
  <2>7. size' \in [Procs -> Nat]
    BY <1>2, <2>1, <2>5
  <2> QED
    BY <2>3, <2>6, <2>7
<1>8. disturbed' \in [Procs -> BOOLEAN]
  BY <1>4 DEF Typed, Busy
<1> QED
  BY <1>4, <1>6, <1>7, <1>8 DEF Typed, files, webVars

\* The other steps leave the clipboard alone.
LEMMA OtherTyped ==
  ASSUME Typed, NEW p \in Procs,
         \/ RequestLine(p) \/ Drain(p) \/ Headers(p) \/ Parse(p) \/ Body(p)
         \/ Found(p) \/ Say(p) \/ Kill(p) \/ Send(p) \/ Leave(p)
  PROVE  Typed' /\ UNCHANGED <<clipboard, req>>
<1>1. /\ UNCHANGED <<clipboard, req>>
      /\ pc' = pc \/ \E l \in {"headers", "drain", "end", "get", "say", "parse", "body",
                                "put", "killed"} : GoTo(p, l)
      /\ rd' = rd \/ \E n \in Nat : rd' = [rd EXCEPT ![p] = @ + n]
      /\ sent' = sent \/ \E n \in (sent[p] + 1)..Total(p) : sent' = [sent EXCEPT ![p] = n]
      /\ out' = out \/ \E o : out' = [out EXCEPT ![p] = o]
      /\ acked' = acked \/ acked' = [acked EXCEPT ![p] = @ \/ Head(out[p]) = "204"]
  <2>1. CASE RequestLine(p)
    BY <2>1 DEF RequestLine, webVars
  <2>2. CASE Drain(p)
    BY <2>2, WebAssumption DEF Drain, Receive, Reply
  <2>3. CASE Headers(p)
    BY <2>3, WebAssumption DEF Headers, Receive
  <2>4. CASE Parse(p)
    BY <2>4 DEF Parse
  <2>5. CASE Body(p)
    BY <2>5, WebAssumption DEF Body, Receive, Reply
  <2>6. CASE Found(p)
    BY <2>6 DEF Found, Reply
  <2>7. CASE Say(p)
    BY <2>7 DEF Say
  <2>8. CASE Kill(p)
    BY <2>8 DEF Kill, webVars
  <2>9. CASE Send(p)
    BY <2>9 DEF Send
  <2>10. CASE Leave(p)
    BY <2>10 DEF Leave
  <2> QED
    BY <2>1, <2>2, <2>3, <2>4, <2>5, <2>6, <2>7, <2>8, <2>9, <2>10
<1>2. pc' \in [Procs -> Labels]
  <2>1. {"headers", "drain", "end", "get", "say", "parse", "body", "put", "killed"} \subseteq Labels
    BY DEF Labels, Posting, Putting, Asking
  <2>2. pc' = pc \/ \E l \in Labels : GoTo(p, l)
    BY <1>1, <2>1
  <2>3. pc \in [Procs -> Labels]
    BY DEF Typed
  <2> QED
    BY <2>2, <2>3 DEF GoTo
<1>3. rd' \in [Procs -> Nat]
  <2>1. rd \in [Procs -> Nat] /\ (rd' = rd \/ \E n \in Nat : rd' = [rd EXCEPT ![p] = @ + n])
    BY <1>1 DEF Typed
  <2> QED
    BY <2>1
<1>4. sent' \in [Procs -> Nat]
  <2>1. sent \in [Procs -> Nat] /\ sent[p] \in Nat /\ Total(p) \in Nat
    BY RequestFields DEF Typed
  <2>2. \A n \in (sent[p] + 1)..Total(p) : n \in Nat
    BY <2>1
  <2>3. sent' = sent \/ \E n \in (sent[p] + 1)..Total(p) : sent' = [sent EXCEPT ![p] = n]
    BY <1>1
  <2> QED
    BY <2>1, <2>2, <2>3
<1>5. DOMAIN out' = Procs /\ acked' \in [Procs -> BOOLEAN]
  BY <1>1 DEF Typed
<1>6. UNCHANGED <<type, text, off, size, got, lastPut, raced, unnoticed, disturbed, req>>
  BY <1>1 DEF clipboard, files, buffers, history
<1> QED
  BY <1>1, <1>2, <1>3, <1>4, <1>5, <1>6 DEF Typed

LEMMA InitAnswered == Init => Answered
<1> SUFFICES ASSUME Init, NEW p \in Procs PROVE AnsweredTo(p)
  BY DEF Answered
<1>1. /\ pc[p] \in {"cut", "end", "line"} /\ (pc[p] = "cut" => ~Poster(p)) /\ acked[p] = FALSE
      /\ pc[p] = "line" => req[p].kind \in {"page", "clip", "unknown", "post"}
  BY WebAssumption DEF Init, Poster
<1>2. Total(p) \in Nat
  BY RequestFields, InitTyped
<1>3. rd[p] = 0 /\ sent[p] \in {0, Total(p)}
  BY DEF Init
<1> QED
  BY <1>1, <1>2, <1>3 DEF AnsweredTo, Posting, Putting, Asking

\* A step of one process leaves the others as they are, and so does a step
\* that neither answers nor reads.
LEMMA SameAnswered ==
  ASSUME NEW q, AnsweredTo(q), UNCHANGED req,
         pc'[q] = pc[q], rd'[q] = rd[q], sent'[q] = sent[q], out'[q] = out[q],
         acked'[q] = acked[q]
  PROVE  AnsweredTo(q)'
BY DEF AnsweredTo, Received, Poster, Total

\* A process that goes on among the functions of the clipboard.
LEMMA ClipAnswered ==
  ASSUME NEW p, AnsweredTo(p), UNCHANGED webVars,
         \/ pc[p] \in Putting /\ pc'[p] \in Putting \cup {"end", "killed"}
         \/ pc[p] \in Asking /\ pc'[p] \in (Asking \ {"drain"}) \cup {"end", "killed"}
         \/ pc'[p] \in {"end", "killed"}
  PROVE  AnsweredTo(p)'
<1>1. UNCHANGED <<req, rd, sent, out, acked>>
  BY DEF webVars
<1>2. /\ "drain" \notin Putting \cup {"line"} /\ "line" \notin Putting \cup Asking
      /\ "say" \notin Putting \cup Asking \cup {"end", "killed"}
      /\ "body" \notin Putting \cup Asking \cup {"end", "killed"}
      /\ Putting \subseteq Posting
      /\ Posting \cap Asking = {} /\ "end" \notin Posting \cup Asking
      /\ "killed" \notin Posting \cup Asking
  BY DEF Posting, Putting, Asking
<1>3. Received(p)' = Received(p) /\ Poster(p)' = Poster(p) /\ Total(p)' = Total(p)
  BY <1>1 DEF Received, Poster, Total
<1> QED
  BY <1>1, <1>2, <1>3 DEF AnsweredTo

LEMMA PartsAnswered ==
  ASSUME NEW kind \in {"page", "clip", "unknown", "error"}
  PROVE  Answer(kind) \in Seq(Parts)
<1>1. "200" \in Parts /\ "length" \in Parts /\ "page" \in Parts /\ "type" \in Parts
      /\ "text" \in Parts /\ "404" \in Parts /\ "500" \in Parts
  BY DEF Parts
<1>2. CASE kind = "page"
  BY <1>1, <1>2 DEF Answer
<1>3. CASE kind = "clip"
  BY <1>1, <1>3 DEF Answer
<1>4. CASE kind \in {"unknown", "error"}
  BY <1>1, <1>4 DEF Answer
<1> QED
  BY <1>2, <1>3, <1>4

\* The steps of receiver_web().
LEMMA ServerAnswered ==
  ASSUME Typed, NEW p \in Procs, AnsweredTo(p),
         \/ RequestLine(p) \/ Drain(p) \/ Headers(p) \/ Parse(p) \/ Body(p)
         \/ Found(p) \/ Say(p) \/ Send(p) \/ Leave(p)
  PROVE  AnsweredTo(p)'
<1>1. /\ rd[p] \in Nat /\ sent[p] \in Nat /\ Total(p) \in Nat
      /\ req[p].headers \in Nat /\ req[p].announced \in Nat
      /\ req[p].body \in Nat
      /\ req[p].kind \in {"page", "clip", "unknown", "post", "session", "none"}
  BY RequestFields, WebAssumption DEF Typed
<1>2. Typed' /\ UNCHANGED req
  BY OtherTyped
<1> DEFINE Whole1 == /\ req[p].headers + req[p].announced <= rd'[p]
                     /\ req[p].announced \in 1..MaxBody
<1>3. SUFFICES
        /\ pc'[p] \in {"line", "drain"} => req[p].kind \in {"page", "clip", "unknown", "post"}
        /\ pc'[p] \in Posting => Poster(p)
        /\ pc'[p] \in Asking => ~Poster(p)
        /\ rd'[p] <= sent'[p] /\ sent'[p] <= Total(p)
        /\ pc'[p] = "body" => req[p].announced \in 1..MaxBody
        /\ Poster(p) /\ pc'[p] \in {"say"} \cup Putting => Whole1
        /\ pc'[p] = "say" => IF Poster(p) THEN out'[p] = <<"204">> ELSE out'[p] \in Seq(Parts)
        /\ acked'[p] => Poster(p) /\ Whole1
        /\ pc'[p] \in Putting => acked'[p]
  BY <1>2 DEF AnsweredTo, Received, Poster, Total
<1>0. /\ pc[p] \in {"line", "drain"} => req[p].kind \in {"page", "clip", "unknown", "post"}
      /\ pc[p] \in Posting => Poster(p)
      /\ pc[p] \in Asking => ~Poster(p)
      /\ rd[p] <= sent[p] /\ sent[p] <= Total(p)
      /\ pc[p] = "body" => req[p].announced \in 1..MaxBody
      /\ Poster(p) /\ pc[p] \in {"say"} \cup Putting => Received(p)
      /\ pc[p] = "say" => IF Poster(p) THEN out[p] = <<"204">> ELSE out[p] \in Seq(Parts)
      /\ acked[p] => Poster(p) /\ Received(p)
      /\ pc[p] \in Putting => acked[p]
  BY DEF AnsweredTo
<1>16. rd'[p] = rd[p] => (Received(p) => Whole1)
  BY DEF Received
<1>17. ASSUME NEW n \in Nat, rd'[p] = rd[p] + n
       PROVE  Received(p) => Whole1
  BY <1>1, <1>17 DEF Received
<1> HIDE DEF Whole1
<1>4. ASSUME Receive(p)
      PROVE  rd'[p] <= sent[p] /\ (Received(p) => Whole1)
  <2>1. PICK n \in 1..Chunk : rd[p] + n <= sent[p] /\ rd' = [rd EXCEPT ![p] = @ + n]
    BY <1>4 DEF Receive
  <2>2. rd'[p] = rd[p] + n /\ n \in Nat /\ n > 0
    <3>1. rd \in [Procs -> Nat] /\ Chunk \in Nat
      BY WebAssumption DEF Typed
    <3> QED
      BY <2>1, <3>1
  <2> QED
    BY <1>17, <2>1, <2>2
<1>5. \A l : GoTo(p, l) => pc'[p] = l
  BY DEF GoTo, Typed
<1>6. \A kind : Reply(p, kind) => out'[p] = Answer(kind)
  BY DEF Reply, Typed
<1> USE DEF Posting, Putting, Asking
<1>7. CASE RequestLine(p)
  <2>1. UNCHANGED <<rd, sent, out, acked>> /\ pc[p] = "line"
    BY <1>7 DEF RequestLine, webVars
  <2>2. \/ Poster(p) /\ pc'[p] = "headers"
        \/ ~Poster(p) /\ pc'[p] = "drain"
        \/ pc'[p] = "end"
    BY <1>5, <1>7 DEF RequestLine, Poster
  <2> QED
    BY <1>0, <1>16, <2>1, <2>2
<1>8. CASE Drain(p)
  <2>1. UNCHANGED <<sent, acked>> /\ pc[p] = "drain" /\ ~Poster(p) /\ ~acked[p]
    BY <1>8 DEF Drain, AnsweredTo
  <2>2. CASE Receive(p) /\ UNCHANGED <<pc, out>>
    BY <1>0, <1>16, <1>4, <2>1, <2>2
  <2>3. CASE GoTo(p, "get") /\ UNCHANGED <<rd, out>>
    BY <1>0, <1>16, <1>5, <2>1, <2>3
  <2>4. CASE GoTo(p, "say") /\ Reply(p, req[p].kind) /\ UNCHANGED rd /\ req[p].kind # "clip"
    <3>1. req[p].kind \in {"page", "unknown"}
      BY <1>0, <2>1, <2>4 DEF Poster
    <3> QED
      BY <1>0, <1>16, <1>5, <1>6, <2>1, <2>4, <3>1, PartsAnswered
  <2> QED
    BY <1>8, <2>2, <2>3, <2>4 DEF Drain
<1>9. CASE Headers(p)
  <2>1. UNCHANGED <<sent, acked, out>> /\ pc[p] = "headers" /\ Poster(p)
    BY <1>9 DEF Headers, AnsweredTo
  <2>2. pc'[p] \in {"headers", "parse"}
    BY <1>5, <1>9, <2>1 DEF Headers
  <2>3. Receive(p) \/ UNCHANGED rd
    BY <1>9 DEF Headers
  <2> QED
    BY <1>0, <1>16, <1>4, <2>1, <2>2, <2>3
<1>10. CASE Parse(p)
  <2>1. UNCHANGED <<sent, acked, out, rd>> /\ pc[p] = "parse" /\ Poster(p)
    BY <1>10 DEF Parse, AnsweredTo
  <2>2. pc'[p] = "end" \/ (pc'[p] = "body" /\ req[p].announced \in 1..MaxBody)
    BY <1>5, <1>10 DEF Parse, Accepted
  <2> QED
    BY <1>0, <1>16, <2>1, <2>2
<1>11. CASE Body(p)
  <2>1. /\ UNCHANGED <<sent, acked>> /\ pc[p] = "body" /\ Poster(p)
        /\ req[p].announced \in 1..MaxBody
    BY <1>11 DEF Body, AnsweredTo
  <2>2. CASE Whole(p) /\ GoTo(p, "say") /\ Reply(p, "post") /\ UNCHANGED rd
    <3>2. req[p].headers + req[p].announced <= rd[p]
      BY <1>1, <2>2 DEF Whole
    <3>3. Received(p) /\ out'[p] = <<"204">> /\ pc'[p] = "say"
      BY <1>5, <1>6, <2>1, <2>2, <3>2 DEF Received, Answer
    <3> QED
      BY <1>0, <1>16, <2>1, <2>2, <3>3
  <2>3. CASE Receive(p) /\ UNCHANGED <<pc, out>>
    BY <1>0, <1>16, <1>4, <2>1, <2>3
  <2>4. CASE UNCHANGED <<rd, out>> /\ pc'[p] \in {"end", "body"}
    BY <1>0, <1>16, <2>1, <2>4
  <2> QED
    BY <1>5, <1>11, <2>2, <2>3, <2>4 DEF Body
<1>12. CASE Found(p)
  <2>1. UNCHANGED <<sent, acked, rd>> /\ ~Poster(p) /\ ~acked[p] /\ pc'[p] = "say"
    BY <1>5, <1>12 DEF Found, AnsweredTo
  <2>2. out'[p] = Answer("clip") \/ out'[p] = Answer("error")
    BY <1>6, <1>12 DEF Found
  <2> QED
    BY <1>0, <1>16, <2>1, <2>2, PartsAnswered
<1>13. CASE Say(p)
  <2>1. UNCHANGED <<sent, rd>> /\ pc[p] = "say" /\ out[p] # <<>>
    BY <1>13 DEF Say
  <2>2. CASE GoTo(p, "end") /\ UNCHANGED <<out, acked>>
    BY <1>0, <1>16, <1>5, <2>1, <2>2
  <2>3. CASE /\ out' = [out EXCEPT ![p] = Tail(@)]
             /\ acked' = [acked EXCEPT ![p] = @ \/ Head(out[p]) = "204"]
             /\ IF Len(out[p]) > 1 THEN UNCHANGED pc
                ELSE GoTo(p, IF req[p].kind = "post" THEN "put" ELSE "end")
    <3>1. out'[p] = Tail(out[p]) /\ acked'[p] = (acked[p] \/ Head(out[p]) = "204")
      BY <2>3 DEF Typed
    <3>2. CASE Poster(p)
      <4>1. out[p] = <<"204">>
        BY <1>0, <2>1, <3>2
      <4>2. Head(out[p]) = "204" /\ ~(Len(out[p]) > 1)
        BY <4>1
      <4>3. acked'[p] /\ pc'[p] = "put"
        BY <1>5, <2>3, <3>1, <3>2, <4>2 DEF Poster
      <4> QED
        BY <1>0, <1>16, <2>1, <3>2, <4>3
    <3>3. CASE ~Poster(p)
      <4>1. out[p] \in Seq(Parts)
        BY <1>0, <2>1, <3>3
      <4>2. out'[p] \in Seq(Parts) /\ Head(out[p]) # "204"
        BY <2>1, <3>1, <4>1, HeadTailProperties DEF Parts
      <4>3. pc'[p] \in {"say", "end"}
        BY <1>5, <2>1, <2>3, <3>3 DEF Poster
      <4>4. ~acked'[p]
        BY <1>0, <3>1, <3>3, <4>2
      <4> QED
        BY <1>0, <1>16, <2>1, <3>3, <4>2, <4>3, <4>4
    <3> QED
      BY <3>2, <3>3
  <2> QED
    BY <1>13, <2>2, <2>3 DEF Say
<1>14. CASE Send(p)
  <2>1. UNCHANGED <<pc, rd, out, acked>>
    BY <1>14 DEF Send
  <2>2. sent'[p] \in (sent[p] + 1)..Total(p)
    BY <1>14 DEF Send, Typed
  <2>3. rd[p] <= sent'[p] /\ sent'[p] <= Total(p)
    BY <1>0, <1>1, <2>2
  <2> QED
    BY <1>0, <1>16, <2>1, <2>3
<1>15. CASE Leave(p)
  BY <1>0, <1>16, <1>15 DEF Leave
<1> QED
  BY <1>7, <1>8, <1>9, <1>10, <1>11, <1>12, <1>13, <1>14, <1>15

-----------------------------------------------------------------------------
(* The clipboard.                                                          *)

Held == Served /\ Committed /\ Undisturbed

Same(q) ==
  /\ pc'[q] = pc[q] /\ off'[q] = off[q] /\ size'[q] = size[q] /\ got'[q] = got[q]
  /\ disturbed'[q] = disturbed[q]

\* The files stay, and processes at most leave the clipboard's functions.
Quiet ==
  /\ UNCHANGED <<type, text, lastPut, raced, unnoticed, req>>
  /\ \A q \in Procs :
       /\ acked[q] => acked'[q]
       /\ got'[q] \in Seq(Cell)
       /\ \A i \in 1..Len(got'[q]) : i \in 1..Len(got[q]) /\ got'[q][i] = got[q][i]
       /\ Same(q) \/ pc'[q] \notin Writing \cup Reading \cup {"found"}

\* Who leaves the files alone, and does not begin to write, commits nothing.
LEMMA CommittedStays ==
  ASSUME Committed, UNCHANGED <<type, text, lastPut, raced, unnoticed, req>>,
         \A q \in Procs : acked[q] => acked'[q],
         \A q \in Procs : pc'[q] \in Writing => pc'[q] = pc[q] /\ off'[q] = off[q]
  PROVE  Committed'
<1>1. \A q \in Procs : Poster(q)' = Poster(q) /\ Blocks(q)' = Blocks(q)
  BY DEF Poster, Blocks
<1> QED
  BY <1>1 DEF Committed, Writing

LEMMA QuietStep ==
  ASSUME Typed, Held, Quiet
  PROVE  Held'
<1>1. Served'
  <2>1. OfPosts(text)'
    <3>1. \A i \in 1..Len(text) : text[i] \in Cell /\ (text[i] # Hole => acked[text[i]])
      BY ElementOfSeq DEF Typed, Held, Served, OfPosts
    <3>2. text' = text /\ \A x \in Procs : acked[x] => acked'[x]
      BY DEF Quiet
    <3> QED
      BY <3>1, <3>2 DEF OfPosts, Cell
  <2>2. ASSUME NEW q \in Procs
        PROVE  /\ OfPosts(got[q])'
               /\ pc'[q] = "read" => Len(got'[q]) = off'[q] /\ off'[q] <= size'[q] /\ size'[q] > 0
               /\ pc'[q] = "found" => got'[q] # <<>> /\ \A i \in 1..Len(got'[q]) : got'[q][i] # Hole
    <3>1. OfPosts(got[q]) /\ got[q] \in Seq(Cell) /\ \A x \in Procs : acked[x] => acked'[x]
      BY DEF Held, Served, Typed, Quiet
    <3>2. \A i \in 1..Len(got[q]) : got[q][i] \in Cell
      BY <3>1, ElementOfSeq
    <3>3. \A i \in 1..Len(got'[q]) : i \in 1..Len(got[q]) /\ got'[q][i] = got[q][i]
      BY DEF Quiet
    <3>4. OfPosts(got[q])'
      BY <3>1, <3>2, <3>3 DEF OfPosts, Cell
    <3> QED
      BY <3>4 DEF Held, Served, Quiet, Same, Reading
  <2> QED
    BY <2>1, <2>2 DEF Served
<1>2. Committed'
  <2>1. /\ \A q \in Procs : pc'[q] \in Writing => pc'[q] = pc[q] /\ off'[q] = off[q]
        /\ \A q \in Procs : acked[q] => acked'[q]
        /\ UNCHANGED <<type, text, lastPut, raced, unnoticed, req>>
    BY DEF Quiet, Same
  <2> QED
    BY <2>1, CommittedStays DEF Held
<1>3. Undisturbed'
  <2>1. \A q \in Procs : pc'[q] \in Reading \cup {"found"} => Same(q)
    BY DEF Quiet
  <2>2. \A q \in Procs : /\ acked[q] => acked'[q]
                        /\ Poster(q)' = Poster(q) /\ Blocks(q)' = Blocks(q)
    BY DEF Quiet, Poster, Blocks
  <2>3. UNCHANGED <<type, text, lastPut, raced, unnoticed>>
    BY DEF Quiet
  <2> QED
    BY <2>1, <2>2, <2>3 DEF Held, Undisturbed, Reading, Same
<1> QED
  BY <1>1, <1>2, <1>3 DEF Held

\* A step of a writer that has opened the file: while writers do not overlap it
\* is the last one, and it meets no reader that is undisturbed.
LEMMA WriterStep ==
  ASSUME Typed, Held, NEW p \in Procs, pc[p] \in Writing,
         UNCHANGED <<lastPut, raced, disturbed, size, got, webVars>>,
         unnoticed' \in {unnoticed, TRUE},
         \A q \in Procs \ {p} : pc'[q] = pc[q] /\ off'[q] = off[q],
         pc'[p] \notin Reading \cup {"found"},
         OfPosts(text)',
         ~raced =>
           /\ pc'[p] \in Writing => type' = ""
           /\ pc'[p] = "write" => off'[p] <= Blocks(p) /\ text' = Full(p, off'[p])
           /\ pc'[p] = "writetype" /\ ~unnoticed' => text' = Full(p, Blocks(p))
           /\ type' = "TEXT" /\ ~unnoticed' =>
                Poster(p) /\ acked[p] /\ text' = Full(p, Blocks(p))
  PROVE  Held'
<1>1. UNCHANGED <<req, acked>>
  BY DEF webVars
<1>2. \A q \in Procs : Poster(q)' = Poster(q) /\ Blocks(q)' = Blocks(q)
  BY <1>1 DEF Poster, Blocks
<1>3. ~raced => p = lastPut /\ type = ""
  BY DEF Held, Committed
<1>4. \A q \in Procs \ {p} : ~raced => pc[q] \notin Writing
  BY <1>3 DEF Held, Committed
<1>5. \A q \in Procs : pc'[q] \in Reading \cup {"found"} =>
        pc'[q] = pc[q] /\ off'[q] = off[q] /\ q # p
  OBVIOUS
<1>6. Served'
  <2>1. \A q \in Procs : OfPosts(got[q])'
    BY <1>1 DEF Held, Served, OfPosts
  <2> QED
    BY <1>5, <2>1 DEF Held, Served, Reading
<1>7. Committed'
  <2>1. (~raced' => ~raced) /\ lastPut' = lastPut /\ acked' = acked
    BY <1>1, Zenon
  <2>2. ASSUME ~raced', NEW q \in Procs
        PROVE  /\ pc'[q] \in Writing => q = lastPut' /\ type' = ""
               /\ pc'[q] = "write" => off'[q] <= Blocks(q) /\ text' = Full(q, off'[q])
               /\ pc'[q] = "writetype" /\ ~unnoticed' => text' = Full(q, Blocks(q))
    <3>1. ~raced /\ lastPut' = p
      BY <1>3, <2>1, <2>2
    <3>2. CASE q = p
      BY <3>1, <3>2
    <3>3. CASE q # p
      <4>1. pc'[q] \notin Writing
        BY <1>4, <3>1, <3>3
      <4> QED
        BY <4>1 DEF Writing
    <3> QED
      BY <3>2, <3>3
  <2>3. ASSUME ~raced', type' = "TEXT", ~unnoticed'
        PROVE  /\ lastPut' \in Procs /\ Poster(lastPut') /\ acked'[lastPut']
               /\ text' = Full(lastPut', Blocks(lastPut'))
    <3>1. ~raced /\ lastPut' = p
      BY <1>3, <2>1, <2>3
    <3> QED
      BY <2>1, <2>3, <3>1
  <2>4. ~raced' =>
          \A q \in Procs :
            /\ pc'[q] \in Writing => q = lastPut' /\ type' = ""
            /\ pc'[q] = "write" => off'[q] <= Blocks(q)' /\ text' = Full(q, off'[q])
            /\ pc'[q] = "writetype" /\ ~unnoticed' => text' = Full(q, Blocks(q)')
    BY <1>1, <2>2, Zenon DEF Blocks
  <2>5. type' = "TEXT" /\ ~raced' /\ ~unnoticed' =>
          /\ lastPut' \in Procs /\ Poster(lastPut)' /\ acked'[lastPut']
          /\ text' = Full(lastPut', Blocks(lastPut)')
    BY <1>1, <2>3, Zenon DEF Blocks, Poster
  <2> QED
    BY <2>4, <2>5, Zenon DEF Committed, Writing, Blocks, Poster
<1>8. Undisturbed'
  <2>1. /\ (~raced' => ~raced) /\ (~unnoticed' => ~unnoticed)
        /\ size' = size /\ got' = got /\ acked' = acked
        /\ \A q \in Procs : ~disturbed'[q] => ~disturbed[q]
    <3>1. size' = size /\ got' = got /\ acked' = acked /\ disturbed' = disturbed
      BY <1>1
    <3>2. ~raced' => ~raced
      BY <1>1, Zenon
    <3>3. ~unnoticed' => ~unnoticed
      BY Zenon
    <3> QED
      BY <3>1, <3>2, <3>3, Zenon
  <2>2. ASSUME ~raced', ~unnoticed', NEW q \in Procs, ~disturbed'[q]
        PROVE  /\ pc'[q] \notin Reading
               /\ pc'[q] = "found" =>
                    \E w \in Procs : Poster(w) /\ acked'[w] /\ got'[q] = Full(w, Blocks(w))
    <3>1. ~raced /\ ~unnoticed /\ ~disturbed[q] /\ type # "TEXT"
      BY <1>3, <2>1, <2>2
    <3>2. pc[q] \notin Reading
      BY <3>1 DEF Held, Undisturbed
    <3>3. pc'[q] \notin Reading
      BY <1>5, <3>2
    <3>4. pc'[q] = "found" =>
            \E w \in Procs : Poster(w) /\ acked[w] /\ got[q] = Full(w, Blocks(w))
      BY <1>5, <3>1 DEF Held, Undisturbed
    <3> QED
      BY <2>1, <3>3, <3>4
  <2>3. ASSUME ~raced', ~unnoticed', NEW q \in Procs, ~disturbed'[q]
        PROVE  /\ pc'[q] \notin Reading /\ pc'[q] # "read"
               /\ pc'[q] = "found" =>
                    \E w \in Procs : Poster(w)' /\ acked'[w] /\ got'[q] = Full(w, Blocks(w)')
    <3>1. pc'[q] # "read"
      BY <2>2, <2>3 DEF Reading
    <3> QED
      BY <1>1, <2>2, <2>3, <3>1, Zenon DEF Poster, Blocks
  <2> QED
    BY <2>3, Zenon DEF Undisturbed, Poster, Blocks
<1> QED
  BY <1>6, <1>7, <1>8 DEF Held

\* A step of a reader: the files stay.
LEMMA ReaderStep ==
  ASSUME Typed, Held, NEW p \in Procs, pc'[p] \notin Writing,
         UNCHANGED <<type, text, lastPut, raced, unnoticed, webVars>>,
         \A q \in Procs \ {p} : Same(q),
         \A i \in 1..Len(got'[p]) : got'[p][i] # Hole => acked[got'[p][i]],
         pc'[p] = "read" => /\ Len(got'[p]) = off'[p] /\ off'[p] <= size'[p]
                           /\ size'[p] > 0,
         pc'[p] = "found" => /\ got'[p] # <<>>
                            /\ \A i \in 1..Len(got'[p]) : got'[p][i] # Hole,
         ~raced /\ ~unnoticed /\ ~disturbed'[p] =>
           /\ pc'[p] \in Reading => type = "TEXT"
           /\ pc'[p] = "read" => /\ size'[p] = Len(text)
                                /\ \A i \in 1..off'[p] : got'[p][i] = text[i]
           /\ pc'[p] = "found" =>
                \E q \in Procs : Poster(q) /\ acked[q] /\ got'[p] = Full(q, Blocks(q))
  PROVE  Held'
<1>1. UNCHANGED <<req, acked>>
  BY DEF webVars
<1>2. \A q \in Procs : Poster(q)' = Poster(q) /\ Blocks(q)' = Blocks(q)
  BY <1>1 DEF Poster, Blocks
<1>3. Served'
  <2>1. OfPosts(text)' /\ OfPosts(got[p])'
    BY <1>1 DEF Held, Served, OfPosts
  <2>2. \A q \in Procs \ {p} : OfPosts(got[q])'
    BY <1>1 DEF Held, Served, OfPosts, Same
  <2> QED
    BY <2>1, <2>2 DEF Held, Served, Same
<1>4. Committed'
  <2>1. \A q \in Procs : pc'[q] \in Writing => pc'[q] = pc[q] /\ off'[q] = off[q]
    BY DEF Same
  <2>2. UNCHANGED <<type, text, lastPut, raced, unnoticed, req>>
    BY <1>1
  <2> QED
    BY <1>1, <2>1, <2>2, CommittedStays DEF Held
<1>5. Undisturbed'
  <2> SUFFICES ASSUME ~raced, ~unnoticed, NEW x \in Procs, ~disturbed'[x]
               PROVE  /\ pc'[x] \in Reading => type = "TEXT"
                      /\ pc'[x] = "read" => /\ size'[x] = Len(text)
                                           /\ \A i \in 1..off'[x] : got'[x][i] = text[i]
                      /\ pc'[x] = "found" => \E q \in Procs :
                            Poster(q) /\ acked[q] /\ got'[x] = Full(q, Blocks(q))
    BY <1>1, <1>2 DEF Undisturbed
  <2>1. CASE x = p
    BY <2>1
  <2>2. CASE x # p
    BY <2>2 DEF Held, Undisturbed, Same
  <2> QED
    BY <2>1, <2>2
<1> QED
  BY <1>3, <1>4, <1>5 DEF Held

\* A writer that opens `type': it overlaps another or is alone.
LEMMA OpenStep ==
  ASSUME Typed, Held, NEW p \in Procs, pc[p] \in {"put", "cut"},
         NEW loc \in {"opentext", "cutwrite"}, OpenType(p, loc),
         UNCHANGED <<text, buffers, unnoticed, webVars>>
  PROVE  Held'
<1>1. UNCHANGED <<req, acked, off, size, got, text, unnoticed>>
  BY DEF webVars, buffers
<1>2. \A q \in Procs : Poster(q)' = Poster(q) /\ Blocks(q)' = Blocks(q)
  BY <1>1 DEF Poster, Blocks
<1>3. /\ pc'[p] = loc /\ \A q \in Procs \ {p} : pc'[q] = pc[q]
      /\ type' = "" /\ lastPut' = p
      /\ ~raced' => ~raced /\ \A q \in Procs \ {p} : pc[q] \notin Writing
      /\ \A q \in Procs : ~disturbed'[q] => ~disturbed[q] /\ pc[q] \notin Reading
  BY DEF OpenType, GoTo, Busy, Typed
<1>4. loc \notin Reading \cup {"found", "write", "writetype"}
  BY DEF Reading
<1>5. Served'
  BY <1>1, <1>3, <1>4 DEF Held, Served, OfPosts, Reading
<1>6. Committed'
  BY <1>3, <1>4 DEF Committed, Writing
<1>7. Undisturbed'
  <2>1. \A q \in Procs : ~disturbed'[q] => pc'[q] \notin Reading
    BY <1>3, <1>4
  <2>2. ASSUME ~raced', ~unnoticed, NEW q \in Procs, ~disturbed'[q], pc'[q] = "found"
        PROVE  \E x \in Procs : Poster(x) /\ acked[x] /\ got[q] = Full(x, Blocks(x))
    BY <1>3, <1>4, <2>2 DEF Held, Undisturbed
  <2> QED
    BY <1>1, <1>2, <2>1, <2>2 DEF Undisturbed, Reading
<1> QED
  BY <1>5, <1>6, <1>7 DEF Held

-----------------------------------------------------------------------------
(* The steps.                                                              *)

\* put_clipboard_text()
LEMMA PutHeld ==
  ASSUME Typed, Answered, Held, NEW p \in Procs, PutClip(p)
  PROVE  Held'
<1>1. /\ off \in [Procs -> Nat] /\ off[p] \in Nat /\ pc \in [Procs -> Labels]
      /\ text \in Seq(Cell) /\ Blocks(p) \in Nat
  BY RequestFields DEF Typed
<1>2. UNCHANGED webVars /\ UNCHANGED <<req, acked>>
  BY DEF PutClip, webVars
<1>3. \A l : GoTo(p, l) => pc'[p] = l /\ \A q \in Procs \ {p} : pc'[q] = pc[q]
  BY <1>1 DEF GoTo
<1>4. pc[p] \in Putting => Poster(p) /\ acked[p]
  BY DEF Answered, AnsweredTo, Posting
<1>5. OfPosts(text) /\ \A i \in 1..Len(text) : text[i] \in Cell
  BY ElementOfSeq, <1>1 DEF Held, Served
<1>6. ~raced /\ pc[p] = "write" => off[p] <= Blocks(p) /\ text = Full(p, off[p])
  BY DEF Held, Committed
<1>7. ~raced /\ pc[p] \in Writing => type = ""
  BY DEF Held, Committed
<1>8. "end" \notin Reading \cup Writing \cup {"found", "write", "writetype"}
  BY DEF Reading, Writing
<1>9. CASE pc[p] = "put" /\ OpenType(p, "opentext") /\ UNCHANGED <<text, buffers, unnoticed>>
  BY <1>2, <1>9, OpenStep
<1>10. CASE GoTo(p, "end") /\ UNCHANGED <<type, text, size, got, history>>
            /\ \A q \in Procs \ {p} : off'[q] = off[q]
  <2>1. Quiet
    <3>1. \A q \in Procs : got'[q] \in Seq(Cell) /\ got'[q] = got[q]
      BY <1>10 DEF Typed
    <3>2. \A q \in Procs : Same(q) \/ pc'[q] \notin Writing \cup Reading \cup {"found"}
      BY <1>3, <1>8, <1>10 DEF Same, history
    <3> QED
      BY <1>2, <1>10, <3>1, <3>2 DEF Quiet, history
  <2> QED
    BY <2>1, QuietStep
<1>11. CASE /\ pc[p] = "opentext" /\ GoTo(p, "write") /\ text' = <<>>
            /\ off' = [off EXCEPT ![p] = 0]
            /\ UNCHANGED <<type, size, got, history>>
  <2>1. Len(text') = 0 /\ OfPosts(text)'
    BY <1>11 DEF OfPosts
  <2>2. text' = Full(p, 0) /\ off'[p] = 0 /\ pc'[p] = "write"
    BY <1>1, <1>3, <1>11 DEF Full
  <2>3. /\ UNCHANGED <<lastPut, raced, disturbed, unnoticed, size, got>>
        /\ \A q \in Procs \ {p} : pc'[q] = pc[q] /\ off'[q] = off[q]
    BY <1>1, <1>3, <1>11 DEF history
  <2>4. ~raced => type' = "" /\ off'[p] <= Blocks(p) /\ text' = Full(p, off'[p])
    <3>1. 0 <= Blocks(p)
      BY <1>1
    <3> QED
      BY <1>7, <1>11, <2>2, <3>1 DEF Writing
  <2> QED
    BY <1>2, <1>11, <2>1, <2>2, <2>3, <2>4, WriterStep DEF Writing, Reading
<1>12. CASE /\ pc[p] = "write" /\ off[p] < Blocks(p)
            /\ text' = Put(text, off[p] + 1, p) /\ off' = [off EXCEPT ![p] = @ + 1]
            /\ UNCHANGED <<type, pc, size, got, history>>
  <2> DEFINE s == Put(text, off[p] + 1, p)
  <2>1. /\ \A i \in 1..Len(s) : s[i] \in {p, Hole} \/ (i \in 1..Len(text) /\ s[i] = text[i])
        /\ text = Full(p, off[p]) => s = Full(p, off[p] + 1)
    BY <1>1, PutProperties
  <2> HIDE DEF s
  <2>2. text' = s
    BY <1>12 DEF s
  <2>3. OfPosts(text)'
    BY <1>2, <1>4, <1>5, <1>12, <2>1, <2>2 DEF OfPosts, Putting
  <2>4. off'[p] = off[p] + 1 /\ \A q \in Procs \ {p} : off'[q] = off[q]
    BY <1>1, <1>12
  <2>5. ~raced => off'[p] <= Blocks(p) /\ text' = Full(p, off'[p]) /\ type' = ""
    <3>1. off'[p] <= Blocks(p)
      BY <1>1, <1>12, <2>4
    <3>2. ~raced => text' = Full(p, off[p] + 1)
      BY <1>6, <1>12, <2>1, <2>2
    <3>3. ~raced => type' = ""
      BY <1>7, <1>12 DEF Writing
    <3> QED
      BY <2>4, <3>1, <3>2, <3>3
  <2>6. pc'[p] = "write" /\ \A q \in Procs \ {p} : pc'[q] = pc[q]
    BY <1>12
  <2> QED
    BY <1>2, <1>12, <2>3, <2>4, <2>5, <2>6, WriterStep DEF Writing, Reading, history
<1>13. CASE /\ pc[p] = "write" /\ GoTo(p, "writetype")
            /\ unnoticed' = TRUE \/ (unnoticed' = unnoticed /\ off[p] = Blocks(p))
            /\ UNCHANGED <<files, buffers, lastPut, raced, disturbed>>
  <2>1. /\ UNCHANGED <<type, text, off, size, got, lastPut, raced, disturbed>>
        /\ unnoticed' \in {unnoticed, TRUE} /\ pc'[p] = "writetype"
    BY <1>3, <1>13 DEF files, buffers
  <2>2. OfPosts(text)'
    BY <1>2, <1>5, <2>1 DEF OfPosts
  <2>3. ~raced /\ ~unnoticed' => text' = Full(p, Blocks(p))
    BY <1>6, <1>13, <2>1
  <2> QED
    BY <1>2, <1>3, <1>7, <1>13, <2>1, <2>2, <2>3, WriterStep DEF Writing, Reading
<1>14. CASE /\ pc[p] = "writetype" /\ type' = "TEXT" /\ GoTo(p, "end")
            /\ UNCHANGED <<text, buffers, history>>
  <2>1. /\ UNCHANGED <<text, off, size, got, lastPut, raced, disturbed, unnoticed>>
        /\ pc'[p] = "end"
    BY <1>3, <1>14 DEF buffers, history
  <2>2. OfPosts(text)'
    BY <1>2, <1>5, <2>1 DEF OfPosts
  <2>3. ~raced /\ ~unnoticed => Poster(p) /\ acked[p] /\ text' = Full(p, Blocks(p))
    BY <1>4, <1>14, <2>1 DEF Held, Committed, Putting
  <2> QED
    BY <1>2, <1>3, <1>8, <1>14, <2>1, <2>2, <2>3, WriterStep DEF Writing
<1> QED
  <2>1. \/ pc[p] = "put" /\ OpenType(p, "opentext") /\ UNCHANGED <<text, buffers, unnoticed>>
        \/ GoTo(p, "end") /\ UNCHANGED <<type, text, size, got, history>>
           /\ (off' = off \/ off' = [off EXCEPT ![p] = 0])
        \/ /\ pc[p] = "opentext" /\ GoTo(p, "write") /\ text' = <<>>
           /\ off' = [off EXCEPT ![p] = 0]
           /\ UNCHANGED <<type, size, got, history>>
        \/ /\ pc[p] = "write" /\ off[p] < Blocks(p)
           /\ text' = Put(text, off[p] + 1, p) /\ off' = [off EXCEPT ![p] = @ + 1]
           /\ UNCHANGED <<type, pc, size, got, history>>
        \/ /\ pc[p] = "write" /\ GoTo(p, "writetype")
           /\ unnoticed' = TRUE \/ (unnoticed' = unnoticed /\ off[p] = Blocks(p))
           /\ UNCHANGED <<files, buffers, lastPut, raced, disturbed>>
        \/ /\ pc[p] = "writetype" /\ type' = "TEXT" /\ GoTo(p, "end")
           /\ UNCHANGED <<text, buffers, history>>
    BY DEF PutClip, PutStep, files, buffers, history
  <2> QED
    BY <1>1, <1>9, <1>10, <1>11, <1>12, <1>13, <1>14, <2>1

\* set_clipboard_cut_files()
LEMMA CutHeld ==
  ASSUME Typed, Held, NEW p \in Procs, CutFiles(p)
  PROVE  Held'
<1>1. UNCHANGED webVars /\ UNCHANGED <<req, acked>>
  BY DEF CutFiles, webVars
<1>2. \A l : GoTo(p, l) => pc'[p] = l /\ \A q \in Procs \ {p} : pc'[q] = pc[q]
  BY DEF GoTo, Typed
<1>3. "end" \notin Reading \cup Writing \cup {"found", "write", "writetype"}
  BY DEF Reading, Writing
<1>4. CASE pc[p] = "cut" /\ OpenType(p, "cutwrite") /\ UNCHANGED <<text, buffers, unnoticed>>
  BY <1>1, <1>4, OpenStep
<1>5. CASE GoTo(p, "end") /\ UNCHANGED <<type, text, buffers, history>>
  <2>1. UNCHANGED <<type, text, off, size, got, lastPut, raced, disturbed, unnoticed>>
        /\ pc'[p] = "end"
    BY <1>2, <1>5 DEF buffers, history
  <2>2. \A q \in Procs : got'[q] \in Seq(Cell) /\ got'[q] = got[q]
    BY <2>1 DEF Typed
  <2>3. \A q \in Procs : Same(q) \/ pc'[q] \notin Writing \cup Reading \cup {"found"}
    BY <1>2, <1>3, <1>5, <2>1 DEF Same
  <2>4. Quiet
    BY <1>1, <2>1, <2>2, <2>3 DEF Quiet
  <2> QED
    BY <2>4, QuietStep
<1>6. CASE /\ pc[p] = "cutwrite" /\ type' = "FILE" /\ GoTo(p, "end")
           /\ UNCHANGED <<text, buffers, history>>
  <2>1. /\ UNCHANGED <<text, off, size, got, lastPut, raced, disturbed, unnoticed>>
        /\ pc'[p] = "end"
    BY <1>2, <1>6 DEF buffers, history
  <2>2. OfPosts(text)'
    BY <1>1, <2>1 DEF OfPosts, Held, Served
  <2> QED
    BY <1>1, <1>2, <1>3, <1>6, <2>1, <2>2, WriterStep DEF Writing
<1> QED
  <2>1. \/ pc[p] = "cut" /\ OpenType(p, "cutwrite") /\ UNCHANGED <<text, buffers, unnoticed>>
        \/ GoTo(p, "end") /\ UNCHANGED <<type, text, buffers, history>>
        \/ /\ pc[p] = "cutwrite" /\ type' = "FILE" /\ GoTo(p, "end")
           /\ UNCHANGED <<text, buffers, history>>
    BY DEF CutFiles, CutStep, history
  <2> QED
    BY <1>4, <1>5, <1>6, <2>1

\* get_clipboard_text()
LEMMA GetHeld ==
  ASSUME Typed, Held, NEW p \in Procs, GetClip(p)
  PROVE  Held'
<1>1. /\ off \in [Procs -> Nat] /\ off[p] \in Nat /\ pc \in [Procs -> Labels]
      /\ size \in [Procs -> Nat] /\ size[p] \in Nat
      /\ got \in [Procs -> Seq(Cell)] /\ got[p] \in Seq(Cell)
      /\ text \in Seq(Cell) /\ Len(text) \in Nat
  BY LenProperties DEF Typed
<1>2. UNCHANGED <<type, text, lastPut, raced, unnoticed, webVars>>
  BY DEF GetClip, GetStep, files, history
<1>3. \A l : GoTo(p, l) => pc'[p] = l /\ \A q \in Procs \ {p} : pc'[q] = pc[q]
  BY <1>1 DEF GoTo
<1>4. Typed'
  BY GetTyped
<1>5. /\ \A i \in 1..Len(got[p]) : got[p][i] # Hole => acked[got[p][i]]
      /\ \A i \in 1..Len(text) : text[i] # Hole => acked[text[i]]
      /\ pc[p] = "read" => Len(got[p]) = off[p] /\ off[p] <= size[p] /\ size[p] > 0
  BY DEF Held, Served, OfPosts
<1>6. ~raced /\ ~unnoticed /\ ~disturbed[p] =>
        /\ pc[p] \in Reading => type = "TEXT"
        /\ pc[p] = "read" => /\ size[p] = Len(text)
                            /\ \A i \in 1..off[p] : got[p][i] = text[i]
  BY DEF Held, Undisturbed
<1>7. \A q \in Procs \ {p} : Same(q)
  BY <1>1, <1>3 DEF GetClip, GetStep, Same, buffers, history, Typed
<1>8. "missing" \notin Writing \cup Reading \cup {"found"}
      /\ Reading \cap Writing = {} /\ "found" \notin Reading \cup Writing
  BY DEF Reading, Writing
<1>9. CASE /\ pc[p] = "get" /\ type = "TEXT" /\ GoTo(p, "measure")
           /\ UNCHANGED buffers
  <2>1. pc'[p] = "measure" /\ got'[p] = got[p]
    BY <1>3, <1>9 DEF buffers
  <2> QED
    BY <1>2, <1>5, <1>7, <1>8, <1>9, <2>1, ReaderStep DEF Reading
<1>10. CASE /\ GoTo(p, "missing")
            /\ UNCHANGED got \/ got' = [got EXCEPT ![p] = <<>>]
               \/ got' = [got EXCEPT ![p] = Strlen(got[p])]
  <2>1. /\ got'[p] \in Seq(Cell)
        /\ \A i \in 1..Len(got'[p]) : i \in 1..Len(got[p]) /\ got'[p][i] = got[p][i]
    <3>1. got'[p] \in {got[p], <<>>, Strlen(got[p])}
      BY <1>1, <1>10
    <3>2. Len(<<>>) = 0 /\ <<>> \in Seq(Cell)
      BY EmptySeq
    <3>3. CASE got'[p] = <<>>
      BY <3>2, <3>3
    <3>4. CASE got'[p] = Strlen(got[p])
      BY <1>1, <3>4, StrlenProperties
    <3> QED
      BY <1>1, <3>1, <3>3, <3>4
  <2> QED
    BY <1>2, <1>3, <1>5, <1>7, <1>8, <1>10, <2>1, ReaderStep
<1>11. CASE /\ pc[p] = "measure" /\ Len(text) \in 1..MaxText /\ GoTo(p, "read")
            /\ size' = [size EXCEPT ![p] = Len(text)]
            /\ off' = [off EXCEPT ![p] = 0]
            /\ got' = [got EXCEPT ![p] = <<>>]
            /\ UNCHANGED disturbed
  <2>1. pc'[p] = "read" /\ size'[p] = Len(text) /\ off'[p] = 0 /\ got'[p] = <<>>
    BY <1>1, <1>3, <1>11
  <2>2. Len(got'[p]) = 0 /\ Len(text) > 0 /\ 0 <= Len(text)
    BY <1>1, <1>11, <2>1
  <2>3. ~raced /\ ~unnoticed /\ ~disturbed'[p] => type = "TEXT"
    BY <1>6, <1>11 DEF Reading
  <2> QED
    BY <1>2, <1>7, <1>8, <2>1, <2>2, <2>3, ReaderStep DEF Reading
<1>12. CASE /\ pc[p] = "read" /\ off[p] < size[p] /\ off[p] < Len(text)
            /\ got' = [got EXCEPT ![p] = Append(@, text[off[p] + 1])]
            /\ off' = [off EXCEPT ![p] = @ + 1]
            /\ UNCHANGED <<pc, size, history>>
  <2>1. off[p] + 1 \in 1..Len(text) /\ off'[p] = off[p] + 1 /\ off'[p] <= size[p]
    BY <1>1, <1>12
  <2>2. text[off[p] + 1] \in Cell
    BY <1>1, <2>1, ElementOfSeq
  <2>3. /\ Len(got'[p]) = off[p] + 1
        /\ \A i \in 1..off[p] : got'[p][i] = got[p][i]
        /\ got'[p][off[p] + 1] = text[off[p] + 1]
    <3>1. got'[p] = Append(got[p], text[off[p] + 1]) /\ Len(got[p]) = off[p]
      BY <1>1, <1>5, <1>12
    <3> QED
      BY <1>1, <2>2, <3>1, AppendProperties
  <2>4. \A i \in 1..(off[p] + 1) : i \in 1..off[p] \/ i = off[p] + 1
    BY <1>1
  <2>5. \A i \in 1..Len(got'[p]) : got'[p][i] # Hole => acked[got'[p][i]]
    BY <1>5, <1>12, <2>1, <2>3, <2>4
  <2>6. pc'[p] = "read" /\ size'[p] = size[p] /\ disturbed'[p] = disturbed[p]
    BY <1>12 DEF history
  <2>7. ~raced /\ ~unnoticed /\ ~disturbed'[p] =>
          /\ type = "TEXT" /\ size'[p] = Len(text)
          /\ \A i \in 1..off'[p] : got'[p][i] = text[i]
    BY <1>6, <1>12, <2>1, <2>3, <2>4, <2>6 DEF Reading
  <2>8. /\ pc'[p] \notin Writing /\ pc'[p] # "found"
        /\ Len(got'[p]) = off'[p] /\ off'[p] <= size'[p] /\ size'[p] > 0
    BY <1>5, <1>8, <1>12, <2>1, <2>3, <2>6 DEF Reading
  <2> QED
    BY <1>2, <1>7, <2>3, <2>5, <2>7, <2>8, <2>1, ReaderStep DEF Reading
<1>13. CASE /\ pc[p] = "read" /\ off[p] = size[p] /\ got[p][1] # Hole /\ GoTo(p, "found")
            /\ got' = [got EXCEPT ![p] = Strlen(got[p])]
            /\ UNCHANGED <<off, size, history>>
  <2>1. pc'[p] = "found" /\ got'[p] = Strlen(got[p]) /\ disturbed'[p] = disturbed[p]
    BY <1>1, <1>3, <1>13 DEF history
  <2>2. Len(got[p]) = size[p] /\ got[p] # <<>>
    BY <1>1, <1>5, <1>13
  <2>3. /\ \A i \in 1..Len(got'[p]) : /\ i \in 1..Len(got[p])
                                      /\ got'[p][i] = got[p][i] /\ got'[p][i] # Hole
        /\ got'[p] # <<>>
        /\ (\A i \in 1..Len(got[p]) : got[p][i] # Hole) => got'[p] = got[p]
    BY <1>1, <1>13, <2>1, <2>2, StrlenProperties
  <2>4. ASSUME ~raced, ~unnoticed, ~disturbed'[p]
        PROVE  \E q \in Procs : Poster(q) /\ acked[q] /\ got'[p] = Full(q, Blocks(q))
    <3>1. type = "TEXT" /\ Len(got[p]) = Len(text)
          /\ \A i \in 1..Len(text) : got[p][i] = text[i]
      BY <1>5, <1>6, <1>13, <2>1, <2>2, <2>4 DEF Reading
    <3>2. got[p] = text
      BY <1>1, <3>1, SeqEqual
    <3>3. /\ lastPut \in Procs /\ Poster(lastPut) /\ acked[lastPut]
          /\ text = Full(lastPut, Blocks(lastPut))
      BY <2>4, <3>1 DEF Held, Committed
    <3>4. Blocks(lastPut) \in Nat
      BY <3>3, RequestFields
    <3>5. \A i \in 1..Len(text) : text[i] = lastPut
      BY <3>3, <3>4, FullProperties
    <3>6. got'[p] = text
      BY <2>3, <3>2, <3>3, <3>5, ClipboardAssumption
    <3> QED
      BY <3>3, <3>6
  <2> QED
    BY <1>2, <1>5, <1>7, <1>8, <2>1, <2>3, <2>4, ReaderStep
<1> QED
  <2>1. \/ /\ pc[p] = "get" /\ type = "TEXT" /\ GoTo(p, "measure")
           /\ UNCHANGED buffers
        \/ /\ GoTo(p, "missing")
           /\ UNCHANGED got \/ got' = [got EXCEPT ![p] = <<>>]
              \/ got' = [got EXCEPT ![p] = Strlen(got[p])]
        \/ /\ pc[p] = "measure" /\ Len(text) \in 1..MaxText /\ GoTo(p, "read")
           /\ size' = [size EXCEPT ![p] = Len(text)]
           /\ off' = [off EXCEPT ![p] = 0]
           /\ got' = [got EXCEPT ![p] = <<>>]
           /\ UNCHANGED disturbed
        \/ /\ pc[p] = "read" /\ off[p] < size[p] /\ off[p] < Len(text)
           /\ got' = [got EXCEPT ![p] = Append(@, text[off[p] + 1])]
           /\ off' = [off EXCEPT ![p] = @ + 1]
           /\ UNCHANGED <<pc, size, history>>
        \/ /\ pc[p] = "read" /\ off[p] = size[p] /\ got[p][1] # Hole /\ GoTo(p, "found")
           /\ got' = [got EXCEPT ![p] = Strlen(got[p])]
           /\ UNCHANGED <<off, size, history>>
    BY DEF GetClip, GetStep, buffers, history
  <2> QED
    BY <1>9, <1>10, <1>11, <1>12, <1>13, <2>1

\* The other steps are none of the clipboard's functions.
LEMMA OtherHeld ==
  ASSUME Typed, Held, NEW p \in Procs,
         \/ RequestLine(p) \/ Drain(p) \/ Headers(p) \/ Parse(p) \/ Body(p)
         \/ Found(p) \/ Say(p) \/ Kill(p) \/ Send(p) \/ Leave(p)
  PROVE  Held'
<1>1. UNCHANGED <<type, text, off, size, got, lastPut, raced, unnoticed, disturbed, req>>
  BY OtherTyped DEF clipboard, files, buffers, history
<1>2. /\ pc' = pc \/ \E l \in {"headers", "drain", "end", "get", "say", "parse", "body",
                                "put", "killed"} : GoTo(p, l)
      /\ acked' = acked \/ acked' = [acked EXCEPT ![p] = @ \/ Head(out[p]) = "204"]
  BY DEF RequestLine, Drain, Headers, Parse, Body, Found, Say, Kill, Send, Leave, webVars
<1>3. \A q \in Procs : acked[q] => acked'[q]
  BY <1>2 DEF Typed
<1>4. \A q \in Procs : Same(q) \/ pc'[q] \notin Writing \cup Reading \cup {"found"}
  <2>1. \A q \in Procs : pc'[q] = pc[q] \/ pc'[q] \in
          {"headers", "drain", "end", "get", "say", "parse", "body", "put", "killed"}
    BY <1>2 DEF GoTo, Typed
  <2> QED
    BY <1>1, <2>1 DEF Same, Writing, Reading
<1>5. \A q \in Procs : got'[q] \in Seq(Cell) /\ got'[q] = got[q]
  BY <1>1 DEF Typed
<1>6. Quiet
  BY <1>1, <1>3, <1>4, <1>5 DEF Quiet
<1> QED
  BY <1>6, QuietStep

-----------------------------------------------------------------------------
(* The invariant.                                                          *)

LEMMA InitIInv == Init => IInv
<1> SUFFICES ASSUME Init PROVE IInv
  OBVIOUS
<1>1. Typed /\ Answered
  BY InitTyped, InitAnswered
<1>2. /\ type = "" /\ text = <<>> /\ \A p \in Procs : got[p] = <<>>
      /\ \A p \in Procs : pc[p] \in {"cut", "end", "line"}
  BY DEF Init, ClipboardInit
<1>3. Len(<<>>) = 0
  OBVIOUS
<1>4. OfPosts(<<>>)
  BY <1>3 DEF OfPosts
<1>5. Served
  BY <1>2, <1>4 DEF Served
<1>6. Committed /\ Undisturbed
  BY <1>2 DEF Committed, Undisturbed, Writing, Reading
<1> QED
  BY <1>1, <1>5, <1>6 DEF IInv

LEMMA StutterIInv ==
  ASSUME IInv, UNCHANGED vars
  PROVE  IInv'
<1>1. UNCHANGED <<type, text, pc, off, size, got, lastPut, raced, unnoticed, disturbed,
                  req, sent, rd, out, acked>>
  BY DEF vars, files, buffers, history, webVars
<1>2. Typed'
  BY <1>1 DEF IInv, Typed
<1>3. Answered'
  BY <1>1, SameAnswered DEF IInv, Answered
<1>4. \A q \in Procs : got'[q] \in Seq(Cell) /\ got'[q] = got[q] /\ Same(q)
  BY <1>1 DEF IInv, Typed, Same
<1>5. Quiet
  BY <1>1, <1>4 DEF Quiet
<1>6. Held'
  BY <1>5, QuietStep DEF IInv, Held
<1> QED
  BY <1>2, <1>3, <1>6 DEF IInv, Held

\* A step of p leaves the requests of the others as they are.
LEMMA OthersAnswered ==
  ASSUME Typed, NEW p \in Procs, Handle(p) \/ Send(p) \/ Leave(p) \/ Kill(p),
         NEW q \in Procs, q # p
  PROVE  /\ pc'[q] = pc[q] /\ rd'[q] = rd[q] /\ sent'[q] = sent[q] /\ out'[q] = out[q]
         /\ acked'[q] = acked[q]
<1>1. pc' = pc \/ \E l : GoTo(p, l)
  <2>1. PutClip(p) \/ CutFiles(p) \/ GetClip(p) => pc' = pc \/ \E l : GoTo(p, l)
    BY DEF PutClip, PutStep, CutFiles, CutStep, GetClip, GetStep, OpenType
  <2> QED
    BY <2>1 DEF Handle, RequestLine, Drain, Headers, Parse, Body, Found, Say, Kill, Send, Leave
<1>2. /\ rd' = rd \/ \E n : rd' = [rd EXCEPT ![p] = n]
      /\ sent' = sent \/ \E n : sent' = [sent EXCEPT ![p] = n]
      /\ out' = out \/ \E o : out' = [out EXCEPT ![p] = o]
      /\ acked' = acked \/ \E b : acked' = [acked EXCEPT ![p] = b]
  <2>1. PutClip(p) \/ CutFiles(p) \/ GetClip(p) => UNCHANGED webVars
    BY DEF PutClip, CutFiles, GetClip
  <2>2. Receive(p) => \E n : rd' = [rd EXCEPT ![p] = n]
    BY DEF Receive
  <2> QED
    BY <2>1, <2>2 DEF Handle, RequestLine, Drain, Headers, Parse, Body, Found, Say, Kill,
                      Send, Leave, Reply, webVars
<1> QED
  BY <1>1, <1>2 DEF Typed, GoTo

LEMMA NextIInv ==
  ASSUME IInv, Next
  PROVE  IInv'
<1>1. PICK p \in Procs : Handle(p) \/ Send(p) \/ Leave(p) \/ Kill(p)
  BY DEF Next
<1> DEFINE Other == \/ RequestLine(p) \/ Drain(p) \/ Headers(p) \/ Parse(p) \/ Body(p)
                    \/ Found(p) \/ Say(p) \/ Kill(p) \/ Send(p) \/ Leave(p)
<1>2. Other \/ GetClip(p) \/ PutClip(p) \/ CutFiles(p)
  BY <1>1 DEF Handle
<1>3. Typed /\ Answered /\ Held
  BY DEF IInv, Held
<1>4. Typed' /\ UNCHANGED req
  <2>1. PutClip(p) \/ CutFiles(p) \/ GetClip(p) => UNCHANGED req
    BY DEF PutClip, CutFiles, GetClip, webVars
  <2> QED
    BY <1>2, <1>3, <2>1, OtherTyped, GetTyped, PutTyped, CutTyped
<1>5. Held'
  BY <1>2, <1>3, OtherHeld, GetHeld, PutHeld, CutHeld
<1>6. Answered'
  <2> SUFFICES ASSUME NEW q \in Procs PROVE AnsweredTo(q)'
    BY DEF Answered
  <2>1. AnsweredTo(q)
    BY <1>3 DEF Answered
  <2>2. CASE q # p
    BY <1>1, <1>3, <1>4, <2>1, <2>2, OthersAnswered, SameAnswered
  <2>3. CASE q = p /\ Kill(p)
    <3>1. UNCHANGED webVars /\ pc'[p] = "killed"
      BY <1>3, <2>3 DEF Kill, GoTo, Typed
    <3> QED
      BY <2>1, <2>3, <3>1, ClipAnswered
  <2>4. CASE q = p /\ Other /\ ~Kill(p)
    BY <1>3, <2>1, <2>4, ServerAnswered
  <2>5. CASE q = p /\ GetClip(p)
    <3>1. UNCHANGED webVars /\ pc[p] \in Asking /\ pc'[p] \in Asking \ {"drain"}
      BY <1>3, <2>5 DEF GetClip, GetStep, GoTo, Typed, Asking
    <3> QED
      BY <2>1, <2>5, <3>1, ClipAnswered
  <2>6. CASE q = p /\ PutClip(p)
    <3>1. UNCHANGED webVars /\ pc[p] \in Putting /\ pc'[p] \in Putting \cup {"end"}
      BY <1>3, <2>6 DEF PutClip, PutStep, OpenType, GoTo, Typed, Putting
    <3> QED
      BY <2>1, <2>6, <3>1, ClipAnswered
  <2>7. CASE q = p /\ CutFiles(p)
    <3>1. /\ UNCHANGED webVars /\ pc[p] \in Asking
          /\ pc'[p] \in (Asking \ {"drain"}) \cup {"end"}
      BY <1>3, <2>7 DEF CutFiles, CutStep, OpenType, GoTo, Typed, Asking
    <3> QED
      BY <2>1, <2>7, <3>1, ClipAnswered
  <2> QED
    BY <1>2, <2>2, <2>3, <2>4, <2>5, <2>6, <2>7
<1> QED
  BY <1>4, <1>5, <1>6 DEF IInv, Held

LEMMA Inductive == Spec => []IInv
<1>1. IInv /\ [Next]_vars => IInv'
  BY NextIInv, StutterIInv
<1> QED
  BY InitIInv, <1>1, PTL DEF Spec

-----------------------------------------------------------------------------
(* The results.                                                            *)

\* receiver_web() acknowledges a POST, and after that puts it, only when all
\* the bytes that were announced have been sent and have arrived, in whatever
\* segments recv() returns the request, and however many bytes the client
\* sends.
THEOREM PostedTextIsTheBodyHolds == Spec => []PostedTextIsTheBody
<1>1. IInv => PostedTextIsTheBody
  <2> SUFFICES ASSUME IInv, NEW p \in Procs,
                      acked[p] \/ (Poster(p) /\ pc[p] \in {"put"} \cup Writing)
               PROVE  /\ Poster(p) /\ acked[p] /\ Received(p)
                      /\ rd[p] <= sent[p] /\ sent[p] <= Total(p)
    BY DEF PostedTextIsTheBody, Received
  <2>1. AnsweredTo(p)
    BY DEF IInv, Answered
  <2>2. CASE acked[p]
    BY <2>1, <2>2 DEF AnsweredTo
  <2>3. CASE Poster(p) /\ pc[p] \in {"put"} \cup Writing
    BY <2>1, <2>3 DEF AnsweredTo, Writing, Putting, Asking
  <2> QED
    BY <2>2, <2>3
<1> QED
  BY Inductive, <1>1, PTL

\* What get_clipboard_text() returns for GET /clip is not empty, has no zeros
\* in it and is made of texts that were posted, whoever writes the clipboard
\* meanwhile.
THEOREM ServedTextIsTextHolds == Spec => []ServedTextIsText
<1>1. IInv => ServedTextIsText
  BY DEF IInv, Served, OfPosts, ServedTextIsText
<1> QED
  BY Inductive, <1>1, PTL

\* put_clipboard_text() writes `type' last, so that a clipboard that is a text
\* is the text that was last put, whole, whichever steps failed and whoever
\* was killed; and GET /clip that no writer overlaps returns such a text.
THEOREM ClipboardIsWholeHolds == Spec => []ClipboardIsWhole
<1>1. IInv => ClipboardIsWhole
  <2> SUFFICES ASSUME IInv PROVE TypeIsCommit /\ UndisturbedGet
    BY DEF ClipboardIsWhole
  <2>1. TypeIsCommit
    BY DEF IInv, Committed, TypeIsCommit, Full
  <2>2. UndisturbedGet
    BY DEF IInv, Undisturbed, UndisturbedGet, Full
  <2> QED
    BY <2>1, <2>2
<1> QED
  BY Inductive, <1>1, PTL

=============================================================================
