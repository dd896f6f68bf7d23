-------------------------------- MODULE Web --------------------------------
(***************************************************************************)
(* The web server of servers/clip_share_web.c in a headless build: one     *)
(* process per connection, without a limit, which runs receiver_web().  It *)
(* reads the request with recv() calls that return what has arrived, up to *)
(* Chunk bytes, or nothing after a timeout or at the end of the stream.    *)
(*                                                                         *)
(* The bytes of a request are counted, not spelled: `headers' is the       *)
(* number of those after the request line up to the end of the terminator  *)
(* CR LF CR LF, `announced' the value of Content-Length (0 if it is        *)
(* missing), `body' the number of those that follow, which may be fewer or *)
(* more, and `early' says that all of it is there when the process starts. *)
(* No byte of a body is zero.  A connection of kind "session" is one of    *)
(* clip_share(): it puts received files on the same clipboard.             *)
(***************************************************************************)
EXTENDS HeadlessClipboard, Integers

CONSTANTS Requests,    \* the functions of Procs to requests that are tried
          Chunk,       \* bytes per recv() (256)
          Limit,       \* len - 256, where the header loop stops (1792)
          TermLen,     \* length of the terminator (4)
          IdleLimit,   \* idle calls the body loop allows for (50)
          MaxBody      \* largest body accepted (1048576)

ASSUME WebAssumption ==
  /\ Chunk \in Nat \ {0}
  /\ Limit \in Nat /\ TermLen \in Nat \ {0}
  /\ IdleLimit \in Nat /\ MaxBody \in Nat
  /\ \A r \in Requests : \A p \in Procs :
       /\ r[p].kind \in {"page", "clip", "unknown", "post", "session", "none"}
       /\ r[p].headers \in Nat /\ r[p].headers >= TermLen
       /\ r[p].announced \in Nat
       /\ r[p].body \in Nat

VARIABLES req,        \* the request of each connection
          sent,       \* bytes after the request line the client has sent
          gone,       \* the client sends no more
          rd,         \* bytes that are read: ptr - headers
          check,      \* where strstr() starts: check - headers
          cnt,        \* idle calls in a row
          out,        \* the parts of the answer that are still to be sent
          acked       \* history: 204 was sent

webVars == <<req, sent, gone, rd, check, cnt, out, acked>>
vars == <<files, pc, buffers, history, webVars>>
clipboard == <<files, buffers, history>>

Over(p) == pc[p] \in {"end", "killed"}
Total(p) == req[p].headers + req[p].body
Blocks(p) == req[p].announced     \* a byte is a block of the file

Init ==
  /\ ClipboardInit
  /\ req \in Requests
  /\ pc = [p \in Procs |-> CASE req[p].kind = "session" -> "cut"
                             [] req[p].kind = "none" -> "end"
                             [] OTHER -> "line"]
  /\ sent = [p \in Procs |-> IF req[p].early THEN Total(p) ELSE 0]
  /\ gone = [p \in Procs |-> FALSE]
  /\ rd = [p \in Procs |-> 0]
  /\ check = [p \in Procs |-> 0]
  /\ cnt = [p \in Procs |-> 0]
  /\ out = [p \in Procs |-> <<>>]
  /\ acked = [p \in Procs |-> FALSE]

-----------------------------------------------------------------------------
(* The client.                                                             *)

Send(p) ==
  /\ ~Over(p) /\ ~gone[p]
  /\ sent[p] < Total(p)
  /\ \E n \in (sent[p] + 1)..Total(p) : sent' = [sent EXCEPT ![p] = n]
  /\ UNCHANGED <<pc, clipboard, req, gone, rd, check, cnt, out, acked>>

\* it stops in the middle of the request, or closes the connection there
Leave(p) ==
  /\ ~Over(p) /\ ~gone[p]
  /\ sent[p] < Total(p)
  /\ gone' = [gone EXCEPT ![p] = TRUE]
  /\ UNCHANGED <<pc, clipboard, req, sent, rd, check, cnt, out, acked>>

-----------------------------------------------------------------------------
(* receiver_web().                                                         *)

\* method and path, read_sock() byte by byte, which may fail or be too long;
\* the method decides
RequestLine(p) ==
  /\ pc[p] = "line"
  /\ \/ GoTo(p, IF req[p].kind = "post" THEN "headers" ELSE "drain")
     \/ GoTo(p, "end")
  /\ UNCHANGED <<clipboard, webVars>>

\* what read_sock_no_wait() returns when something has arrived
Receive(p) ==
  \E n \in 1..Chunk :
    /\ rd[p] + n <= sent[p]
    /\ n < Chunk => rd[p] + n = sent[p]
    /\ rd' = [rd EXCEPT ![p] = @ + n]

Idle(p) == rd[p] = sent[p]

\* The answers, in the parts that say() is called with.
Answer(kind) ==
  CASE kind = "page"    -> <<"200", "length", "page">>
    [] kind = "clip"    -> <<"200", "type", "length", "text">>
    [] kind = "unknown" -> <<"404">>
    [] kind = "post"    -> <<"204">>
    [] kind = "error"   -> <<"500">>

Reply(p, kind) == out' = [out EXCEPT ![p] = Answer(kind)]

\* while (read_sock_no_wait(...) > 0), and the path decides
Drain(p) ==
  /\ pc[p] = "drain"
  /\ \/ Receive(p) /\ UNCHANGED <<pc, out>>
     \/ /\ Idle(p)
        /\ IF req[p].kind = "clip"
           THEN GoTo(p, "get") /\ UNCHANGED out
           ELSE GoTo(p, "say") /\ Reply(p, req[p].kind)
        /\ UNCHANGED rd
  /\ UNCHANGED <<clipboard, req, sent, gone, check, cnt, acked>>

\* the terminator lies within the bytes from `from' on
Terminated(p, from) ==
  from <= req[p].headers - TermLen /\ req[p].headers <= rd[p]

\* Content-Length, its range and the terminator, looked for from the start
Accepted(p) == req[p].announced \in 1..MaxBody /\ Terminated(p, 0)

\* the search goes on behind what has been searched
CheckBug(p) == check' = [check EXCEPT ![p] = rd[p]]

\* ... and three bytes before it
Check(p) ==
  check' = [check EXCEPT ![p] = IF rd[p] > TermLen - 1 THEN rd[p] - (TermLen - 1) ELSE 0]

\* The loop over the headers.  cnt is 0 in all of it, and stays 0.
Headers(p) ==
  /\ pc[p] = "headers"
  /\ \/ /\ Receive(p)
        /\ GoTo(p, IF rd'[p] >= Limit THEN "parse" ELSE "headers")
        /\ UNCHANGED <<check, cnt>>
     \/ /\ Idle(p)
        /\ IF Terminated(p, check[p])
           THEN GoTo(p, "parse") /\ UNCHANGED check
           ELSE Check(p) /\ UNCHANGED pc
        /\ UNCHANGED <<rd, cnt>>
  /\ UNCHANGED <<clipboard, req, sent, gone, out, acked>>

Parse(p) ==
  /\ pc[p] = "parse"
  /\ GoTo(p, IF Accepted(p) THEN "body" ELSE "end")
  /\ cnt' = [cnt EXCEPT ![p] = 0]
  /\ UNCHANGED <<clipboard, req, sent, gone, rd, check, out, acked>>

\* bytes of the body that have arrived are enough once any have
WholeBug(p) == rd[p] - req[p].headers >= 1

\* data_end_ptr - data >= data_len
Whole(p) == rd[p] - req[p].headers >= req[p].announced

\* The loop over the body.  A call may bring bytes behind the announced ones:
\* they count, and are not put.
Body(p) ==
  /\ pc[p] = "body"
  /\ \/ /\ Whole(p)
        /\ GoTo(p, "say")
        /\ Reply(p, "post")
        /\ UNCHANGED <<rd, cnt>>
     \/ /\ ~Whole(p)
        /\ Receive(p)
        /\ cnt' = [cnt EXCEPT ![p] = 0]
        /\ UNCHANGED <<pc, out>>
     \/ /\ ~Whole(p)
        /\ Idle(p)
        /\ cnt' = [cnt EXCEPT ![p] = @ + 1]
        /\ GoTo(p, IF cnt[p] > IdleLimit THEN "end" ELSE "body")
        /\ UNCHANGED <<rd, out>>
  /\ UNCHANGED <<clipboard, req, sent, gone, check, acked>>

\* get_clipboard_text() for GET /clip, and what follows from its result
GetClip(p) ==
  /\ GetStep(p, "found", "missing")
  /\ UNCHANGED webVars

Found(p) ==
  /\ pc[p] \in {"found", "missing"}
  /\ GoTo(p, "say")
  /\ Reply(p, IF pc[p] = "found" THEN "clip" ELSE "error")
  /\ UNCHANGED <<clipboard, req, sent, gone, rd, check, cnt, acked>>

\* write_sock() of the next part; a failure ends the process
Say(p) ==
  /\ pc[p] = "say"
  /\ out[p] # <<>>
  /\ \/ /\ out' = [out EXCEPT ![p] = Tail(@)]
        /\ acked' = [acked EXCEPT ![p] = @ \/ Head(out[p]) = "204"]
        /\ IF Len(out[p]) > 1 THEN UNCHANGED pc
           ELSE GoTo(p, IF req[p].kind = "post" THEN "put" ELSE "end")
     \/ GoTo(p, "end") /\ UNCHANGED <<out, acked>>
  /\ UNCHANGED <<clipboard, req, sent, gone, rd, check, cnt>>

PutClip(p) == PutStep(p, Blocks(p), "end") /\ UNCHANGED webVars

CutFiles(p) == CutStep(p, "end") /\ UNCHANGED webVars

\* a stop or a restart of the server kills the process
Kill(p) ==
  /\ ~Over(p)
  /\ GoTo(p, "killed")
  /\ UNCHANGED <<clipboard, webVars>>

Handle(p) ==
  \/ RequestLine(p) \/ Drain(p) \/ Headers(p) \/ Parse(p) \/ Body(p)
  \/ GetClip(p) \/ Found(p) \/ Say(p) \/ PutClip(p) \/ CutFiles(p)

Next == \E p \in Procs : Handle(p) \/ Send(p) \/ Leave(p) \/ Kill(p)

\* The kernel runs the processes and lets each call end.  A client may stop
\* in the middle of its request for ever.
Spec == Init /\ [][Next]_vars /\ \A p \in Procs : WF_vars(Handle(p))

-----------------------------------------------------------------------------
(* Properties.                                                             *)

Poster(p) == req[p].kind = "post"

\* The file `type' commits the text: whatever fails and whoever is killed
\* in the middle of put_clipboard_text(), the clipboard is never a text that
\* is not whole, or an older one.  Writers that overlap break this, and so
\* does a full disk that only fclose() notices.
TypeIsCommit ==
  type = "TEXT" /\ ~raced /\ ~unnoticed
    => text = [i \in 1..Blocks(lastPut) |-> lastPut]

\* GET /clip that no writer overlaps is answered with the text that was
\* last put, whole, unless it is too long for max_text_length.
UndisturbedGet ==
  \A p \in Procs :
    pc[p] = "found" /\ ~disturbed[p] /\ ~raced /\ ~unnoticed
      => \E q \in Procs : Poster(q) /\ acked[q] /\ got[p] = [i \in 1..Blocks(q) |-> q]

\* What the clipboard holds, and what is read of it, is a text as it was put.
ClipboardIsWhole == TypeIsCommit /\ UndisturbedGet

\* Whoever overlaps, the served text is not empty and has no zeros in it,
\* and each part of it was posted: Content-Length is what follows.
ServedTextIsText ==
  \A p \in Procs :
    pc[p] = "found" =>
      /\ got[p] # <<>>
      /\ \A i \in 1..Len(got[p]) : got[p][i] # Hole /\ acked[got[p][i]]

\* What is acknowledged, and after that is put, is a body all of whose
\* announced bytes the client sent and recv() returned, however the request
\* was cut into segments and whatever else the client sent or left out.
PostedTextIsTheBody ==
  \A p \in Procs :
    acked[p] \/ (Poster(p) /\ pc[p] \in {"put"} \cup Writing)
      => /\ Poster(p) /\ acked[p]
         /\ req[p].headers + req[p].announced <= rd[p]
         /\ rd[p] <= sent[p] /\ sent[p] <= Total(p)
         /\ req[p].announced \in 1..MaxBody

\* A request whose headers have arrived comes to its end.  One whose headers
\* are not complete keeps its process busy for ever, as cnt is tested for 0
\* and never incremented.
RequestEnds ==
  \A p \in Procs :
    sent[p] >= req[p].headers ~> Over(p)

\* a request that is kept to: what the clients of the page send
Valid(p) ==
  /\ Poster(p) /\ req[p].headers <= Limit
  /\ req[p].body = req[p].announced /\ req[p].announced \in 1..MaxBody

\* A valid POST that has arrived before the body loop could lose patience
\* is answered with 204 if nobody kills the process: the terminator is found
\* wherever the segments end.
PostIsAcknowledged ==
  \A p \in Procs :
    Valid(p) /\ pc[p] = "headers" /\ sent[p] = Total(p)
      ~> acked[p] \/ out[p] # <<>> \/ pc[p] = "killed"

\* No request that is complete is left without its end.
RequestsEnd == RequestEnds /\ PostIsAcknowledged
=============================================================================
