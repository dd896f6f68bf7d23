------------------------------ MODULE Session ------------------------------
(***************************************************************************)
(* One connection: server() of proto/server.c negotiates the protocol      *)
(* version, version_1() .. version_4() of proto/versions.c choose the      *)
(* method, and the handlers of proto/methods.c answer it.                  *)
(*                                                                         *)
(* A handler is the sequence of operations it still has to do: writes,     *)
(* reads, closing the socket, looking at the clipboard, taking it over.    *)
(* Every failing call makes the handler return EXIT_FAILURE up to          *)
(* clip_share(), which closes the socket if it is still open: the rest of  *)
(* the sequence is dropped.  Other programs change the clipboard at any    *)
(* time, so a look at it is a step of its own.  The peer may send any      *)
(* value, stay silent or disappear at every operation.  What the files     *)
(* methods do to the file system is the subject of Upload and Download,    *)
(* how a clipboard is handed over on X11 that of XSelection.  An allocation*)
(* that fails is left out.                                                 *)
(***************************************************************************)
EXTENDS Naturals, Sequences

CONSTANTS MinVersion, MaxVersion,  \* configuration.{min,max}_proto_version
          Enabled,                 \* the codes configuration.method_enabled allows
          CutSentFiles,            \* configuration.cut_sent_files
          ClipKinds,               \* what other programs may copy
          MaxChanges               \* how often they do, in one connection

GET_TEXT == 1
SEND_TEXT == 2
GET_FILE == 3
SEND_FILE == 4
GET_IMAGE == 5
GET_COPIED_IMAGE == 6
GET_SCREENSHOT == 7
GET_ANY == 124
INFO == 125

Methods == 1..7 \cup {124, 125}
BadMethod == 9                     \* any code that is no method's

\* min <= max is what _apply_default_conf() establishes
ASSUME SessionAssumption ==
  /\ MinVersion \in 1..4 /\ MaxVersion \in MinVersion..4
  /\ Enabled \subseteq Methods
  /\ CutSentFiles \in BOOLEAN
  /\ ClipKinds \subseteq {"empty", "text", "longtext", "files", "image"}
  /\ ClipKinds # {}
  /\ MaxChanges \in Nat

VARIABLES secure,    \* a TLS connection; never changes
          display,   \* there is an X server to connect to; never changes
          todo,      \* the operations the handler has yet to do
          sock,      \* socket->type: "open", or "closed" once NULL_SOCK
          ver,       \* the version agreed on, 0 before
          method,    \* the method code requested, 0 before
          sent,      \* what has been written to the peer, in order
          received,  \* what the peer has sent in full: "none"; a text, "valid",
                     \* "invalid" or "empty" (it begins with a NUL); "files"
          clip,      \* what the clipboard holds; "mytext", "myfiles": received
          changes,   \* how often other programs have changed it
          ended      \* the session process has ended

vars == <<secure, display, todo, sock, ver, method, sent, received, clip, changes, ended>>

Mine == {"mytext", "myfiles"}

-----------------------------------------------------------------------------
(* The operations of a handler.                                            *)

Write(m) == [op |-> "write", arg |-> m]  \* on failure the handler returns
Try(m)   == [op |-> "try",   arg |-> m]  \* the result is ignored
Read(x)  == [op |-> "read",  arg |-> x]
Look(x)  == [op |-> "look",  arg |-> x]  \* ask for the clipboard's contents
Close    == [op |-> "close", arg |-> ""]
Put(x)   == [op |-> "put",   arg |-> x]  \* the text or the files to the clipboard
Own      == [op |-> "own",   arg |-> ""] \* doIn(): serve the selection

Data  == <<Write("size"), Write("data")>>
File  == <<Write("size"), Write("file")>>
AckV4(v) == IF v >= 4 THEN <<Read("ack"), Close>> ELSE <<>>

\* the codes each version_N() has a case for
MethodsOf(v) == CASE v \in {1, 2} -> 1..5 \cup {INFO}
                  [] v = 3        -> 1..7 \cup {INFO}
                  [] v = 4        -> Methods

\* the socket is closed before the acknowledgement
SendTextBug(v) ==
  <<Write("OK"), Read("length"), Read("text"), Close>>
    \o (IF v >= 4 THEN <<Write("ack")>> ELSE <<>>) \o <<Put("text")>>

SendText(v) ==
  <<Write("OK"), Read("length"), Read("text")>>
    \o (IF v >= 4 THEN <<Write("ack")>> ELSE <<>>) \o <<Close, Put("text")>>

SendFiles(v) ==
  <<Write("OK"), Read("files")>>
    \o (IF v >= 4 THEN <<Write("ack")>> ELSE <<>>) \o <<Close, Put("files")>>

Handler(v, m) ==
  CASE m = GET_TEXT         -> <<Look("text")>> \o AckV4(v)
    [] m = SEND_TEXT        -> SendText(v)
    [] m = GET_FILE         -> <<Look("files")>> \o AckV4(v)
    [] m = SEND_FILE        -> SendFiles(v)
    [] m = GET_IMAGE        -> <<Look("image_or_screen")>> \o AckV4(v)
    [] m = GET_COPIED_IMAGE -> <<Look("image")>> \o AckV4(v)
    [] m = GET_SCREENSHOT   -> <<Write("OK"), Read("display"), Look("screen")>> \o AckV4(v)
    [] m = GET_ANY          -> <<Look("type")>>
    [] m = INFO             -> <<Write("OK")>> \o Data \o AckV4(v)

\* check_method_enabled(), then the switch of version_N()
Version(v, m) ==
  CASE m \in Methods \ Enabled -> <<Try("NOT_IMPLEMENTED"), Close>>
    [] m \in MethodsOf(v) \cap Enabled -> Handler(v, m)
    [] OTHER -> <<Try("UNKNOWN_METHOD"), Close>>

\* the answer is compared with the maximum only
AfterOfferBug(v) == IF v \in 1..MaxVersion THEN <<Read("method")>> ELSE <<Close>>

\* the client answers the offer of max_version
AfterOffer(v) == IF v = MaxVersion THEN <<Read("method")>> ELSE <<Close>>

Negotiate(v) ==
  CASE v < MinVersion -> <<Try("obsolete"), Close>>
    [] v \in MinVersion..MaxVersion -> <<Write("supported"), Read("method")>>
    [] v > MaxVersion -> <<Write("unknown"), Write("max"), Read("version_again")>>

NoData == <<Try("NO_DATA"), Close>>

\* get_any_v4() looks at the type and then, in _get_any_text(),
\* _get_any_files() or _get_any_image(), again at the data
AnyOf(t) == <<Look(t), Read("ack"), Close>>

\* What a handler does after one look at the clipboard: without an X server
\* there is nothing to see.  get_image() falls back on a screenshot, which
\* works or not (shot).
Looked(x, shot, rest) ==
  LET holds(kind) == display /\ clip = kind
      screen == display /\ shot
      ok(present, answer) == IF present THEN <<Write("OK")>> \o answer \o rest ELSE NoData
      files == <<Write("size")>> \o Data \o File   \* count, one name, one file
  IN CASE x = "text"   -> ok(holds("text"), Data)
       [] x = "files"  -> ok(holds("files"), files)
       [] x = "image"  -> ok(holds("image"), Data)
       [] x = "screen" -> ok(screen, Data)
       [] x = "image_or_screen" -> ok(holds("image") \/ screen, Data)
       [] x = "type" -> CASE holds("text") \/ holds("longtext") -> AnyOf("any_text")
                          [] holds("files") -> AnyOf("any_files")
                          [] holds("image") -> AnyOf("any_image")
                          [] OTHER -> <<Try("NO_DATA")>>
       [] x = "any_text"  -> ok(holds("text"), <<Write("type")>> \o Data)
       [] x = "any_files" -> ok(holds("files"), <<Write("type")>> \o files)
       [] x = "any_image" -> ok(holds("image"), <<Write("type")>> \o Data)

-----------------------------------------------------------------------------
(* The steps of the session process.                                       *)

Init ==
  /\ secure \in BOOLEAN /\ display \in BOOLEAN
  /\ todo = <<Read("version")>>
  /\ sock = "open"
  /\ ver = 0 /\ method = 0
  /\ sent = <<>>
  /\ received = "none"
  /\ clip \in ClipKinds
  /\ changes = 0
  /\ ended = FALSE

Next1(op) == ~ended /\ todo # <<>> /\ Head(todo).op = op

\* The peer is gone: no SIGPIPE handler is installed, so the process dies.
Killed ==
  /\ ended' = TRUE
  /\ todo' = <<>>
  /\ sock' = "closed"

WriteOk ==
  /\ Next1("write") \/ Next1("try")
  /\ sent' = Append(sent, Head(todo).arg)
  /\ todo' = Tail(todo)
  /\ UNCHANGED <<secure, display, sock, ver, method, received, clip, changes, ended>>

WriteFailed ==
  /\ \/ Next1("write") /\ todo' = <<>> /\ UNCHANGED <<sock, ended>>
     \/ Next1("try") /\ todo' = Tail(todo) /\ UNCHANGED <<sock, ended>>
     \/ (Next1("write") \/ Next1("try")) /\ Killed
  /\ UNCHANGED <<secure, display, ver, method, sent, received, clip, changes>>

ReadFailed ==
  /\ Next1("read")
  /\ todo' = <<>>
  /\ UNCHANGED <<secure, display, sock, ver, method, sent, received, clip, changes, ended>>

ReadVersion ==
  /\ Next1("read")
  /\ \E v \in 0..5 :
       \/ /\ Head(todo).arg = "version"
          /\ todo' = Negotiate(v)
          /\ ver' = IF v \in MinVersion..MaxVersion THEN v ELSE 0
       \/ /\ Head(todo).arg = "version_again"
          /\ todo' = AfterOffer(v)
          /\ ver' = IF AfterOffer(v) = <<Close>> THEN 0 ELSE v
  /\ UNCHANGED <<secure, display, sock, method, sent, received, clip, changes, ended>>

ReadMethod ==
  /\ Next1("read") /\ Head(todo).arg = "method"
  /\ \E m \in Methods \cup {BadMethod} :
       method' = m /\ todo' = Version(ver, m)
  /\ UNCHANGED <<secure, display, sock, ver, sent, received, clip, changes, ended>>

\* a length out of 1..max_text_length ends the handler
ReadLength ==
  /\ Next1("read") /\ Head(todo).arg = "length"
  /\ todo' \in {<<>>, Tail(todo)}
  /\ UNCHANGED <<secure, display, sock, ver, method, sent, received, clip, changes, ended>>

ReadText ==
  /\ Next1("read") /\ Head(todo).arg = "text"
  /\ received' \in {"valid", "invalid", "empty"}
  /\ todo' = Tail(todo)
  /\ UNCHANGED <<secure, display, sock, ver, method, sent, clip, changes, ended>>

\* the files are received and saved
ReadFiles ==
  /\ Next1("read") /\ Head(todo).arg = "files"
  /\ received' = "files"
  /\ todo' = Tail(todo)
  /\ UNCHANGED <<secure, display, sock, ver, method, sent, clip, changes, ended>>

\* The display number is clamped, and an acknowledgement other than 1 ends
\* the handler.
ReadOther ==
  /\ Next1("read")
  /\ \/ Head(todo).arg \in {"display", "ack"} /\ todo' = Tail(todo)
     \/ Head(todo).arg = "ack" /\ todo' = <<>>
  /\ UNCHANGED <<secure, display, sock, ver, method, sent, received, clip, changes, ended>>

\* The text is copied from the X server before its length is looked at:
\* xcmalloc() ends the process when it is over 16 MiB and the limit.
LookAtClipboard ==
  /\ Next1("look")
  /\ \/ /\ \E shot \in BOOLEAN : todo' = Looked(Head(todo).arg, shot, Tail(todo))
        /\ UNCHANGED <<sock, ended>>
     \/ /\ Head(todo).arg \in {"text", "any_text"} /\ display /\ clip = "longtext"
        /\ Killed
  /\ UNCHANGED <<secure, display, ver, method, sent, received, clip, changes>>

\* the handler returns once the socket is closed
CloseSocketBug ==
  /\ Next1("close")
  /\ sock' = "closed" /\ todo' = <<>>
  /\ UNCHANGED <<secure, display, ver, method, sent, received, clip, changes, ended>>

\* close_socket(), close_socket_no_wait().  SSL_shutdown() is a write.
CloseSocket ==
  /\ Next1("close")
  /\ \/ sock' = "closed" /\ todo' = Tail(todo) /\ UNCHANGED ended
     \/ secure /\ Killed
  /\ UNCHANGED <<secure, display, ver, method, sent, received, clip, changes>>

\* the text goes to the clipboard before it is checked
PutTextBug ==
  /\ Next1("put") /\ Head(todo).arg = "text"
  /\ IF display
     THEN clip' = "mytext" /\ todo' = <<Own>>
     ELSE todo' = <<>> /\ UNCHANGED clip
  /\ UNCHANGED <<secure, display, sock, ver, method, sent, received, changes, ended>>

\* u8_check(), convert_eol() and put_clipboard_text().  On X11 the process
\* becomes the owner of the selection.  A text that begins with a NUL passes
\* the check and has no length left after convert_eol(): the handler returns.
PutText ==
  /\ Next1("put") /\ Head(todo).arg = "text"
  /\ IF received = "valid" /\ display
     THEN clip' = "mytext" /\ todo' = <<Own>>
     ELSE todo' = <<>> /\ UNCHANGED clip
  /\ UNCHANGED <<secure, display, sock, ver, method, sent, received, changes, ended>>

\* set_clipboard_cut_files(), if so configured, once the files are in place;
\* saving them may fail after the peer was released (Upload).
PutFiles ==
  /\ Next1("put") /\ Head(todo).arg = "files"
  /\ \/ CutSentFiles /\ display /\ clip' = "myfiles" /\ todo' = <<Own>>
     \/ todo' = <<>> /\ UNCHANGED clip
  /\ UNCHANGED <<secure, display, sock, ver, method, sent, received, changes, ended>>

\* SelectionClear: another program owns the selection, doIn() returns
LoseSelection ==
  /\ Next1("own")
  /\ clip \notin Mine
  /\ todo' = <<>>
  /\ UNCHANGED <<secure, display, sock, ver, method, sent, received, clip, changes, ended>>

\* a session that has closed its socket is not ended
FinishBug ==
  /\ ~ended /\ todo = <<>> /\ sock = "open"
  /\ sock' = "closed"
  /\ ended' = TRUE
  /\ UNCHANGED <<secure, display, todo, ver, method, sent, received, clip, changes>>

\* server() has returned: clip_share() closes the socket, the child exits
Finish ==
  /\ ~ended /\ todo = <<>>
  /\ sock' = "closed"
  /\ ended' = TRUE
  /\ UNCHANGED <<secure, display, todo, ver, method, sent, received, clip, changes>>

Step ==
  \/ WriteOk \/ WriteFailed
  \/ ReadVersion \/ ReadMethod \/ ReadLength \/ ReadText \/ ReadFiles
  \/ ReadOther \/ ReadFailed
  \/ LookAtClipboard \/ CloseSocket \/ PutText \/ PutFiles \/ LoseSelection \/ Finish

\* another program copies something
Copy ==
  /\ changes < MaxChanges
  /\ changes' = changes + 1
  /\ clip' \in ClipKinds
  /\ UNCHANGED <<secure, display, todo, sock, ver, method, sent, received, ended>>

Next == Step \/ Copy

Spec == Init /\ [][Next]_vars

\* What the session may wait for without a limit: an answer of the program
\* whose selection it asked for (xcout() waits for events), the bytes of a
\* file that has become shorter than the announced size (the loop of
\* _transfer_regular_file() goes on at the end of the file), and the loss of
\* its own selection.
Stalled ==
  \/ Next1("look") /\ display
  \/ Next1("write") /\ Head(todo).arg = "file"
  \/ Next1("own")

\* No other operation waits for ever: a read or a write gives up after 12
\* timeouts of two seconds (SockIO).  A peer may well use up all of them.
FairSpec == Spec /\ WF_vars(Step /\ ~Stalled)

-----------------------------------------------------------------------------
(* Properties.                                                             *)

Sent(m) == \E i \in 1..Len(sent) : sent[i] = m

Rejections == {"obsolete", "NO_DATA", "UNKNOWN_METHOD", "NOT_IMPLEMENTED"}
Answers == {"OK", "NO_DATA", "UNKNOWN_METHOD", "NOT_IMPLEMENTED"}

\* A peer is served (status OK) only in a version the configuration allows,
\* by a method that version has and the configuration enables, whatever it
\* sent during the negotiation.
ServedAsConfigured ==
  Sent("OK") => /\ ver \in MinVersion..MaxVersion
                /\ method \in MethodsOf(ver) \cap Enabled

\* The size and the data of an answer follow a status OK, the status follows
\* the end of the negotiation, and a rejection is the last thing the peer
\* hears: no handler goes on after it.  Nor does one read or write a socket
\* it has closed: the descriptor may by then belong to another file, and type
\* NULL_SOCK would pass for a plain socket in read_sock() and write_sock().
AnswerInOrder ==
  /\ \A i \in 1..Len(sent) :
       /\ sent[i] \in {"size", "data", "file", "type", "ack"}
            => \E j \in 1..(i - 1) : sent[j] = "OK"
       /\ sent[i] \in Answers
            => \E j \in 1..(i - 1) : sent[j] \in {"supported", "max"}
       /\ sent[i] \in Rejections => i = Len(sent)
  /\ Next1("write") \/ Next1("try") \/ Next1("read") => sock = "open"

\* The clipboard of the server changes hands only to what an enabled method
\* has received in full: a text that is valid UTF-8 and not empty, or, if
\* received files are to be cut, all the files of the request.  By then the
\* peer has been released and, in version 4, told that its data arrived.
ClipboardTakenOnlyByReceived ==
  [][clip' # clip /\ clip' \in Mine
       => /\ method \in Enabled /\ sock = "closed"
          /\ ver >= 4 => Sent("ack")
          /\ clip' = "mytext" => method = SEND_TEXT /\ received = "valid"
          /\ clip' = "myfiles" => method = SEND_FILE /\ received = "files" /\ CutSentFiles]_vars

\* With an X server, on a plain connection, a valid text does reach the
\* clipboard once it has been acknowledged, whatever the peer does then.  The
\* exceptions are those of the code: a text that begins with a NUL is
\* acknowledged and dropped, without an X server every text is, and with TLS
\* the SSL_shutdown() of a vanished peer can still kill the process.
AcknowledgedTextArrives ==
  (~secure /\ display /\ Sent("ack") /\ received = "valid" /\ sock = "open" /\ ~ended)
    ~> clip = "mytext"

\* Every session ends, or waits for ever at one of the three places where the
\* code sets no limit: it does not hang anywhere else, for any peer.
SessionEnds == <>ended \/ <>[]Stalled
=============================================================================
