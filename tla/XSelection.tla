----------------------------- MODULE XSelection -----------------------------
(***************************************************************************)
(* The clipboard on X11: sessions of this server at both ends.             *)
(*                                                                         *)
(* The owner is a session that has received a text: doIn() and xcin() of   *)
(* xclip/ serve it until another program takes the selection.  The         *)
(* requestors are sessions that send the clipboard to their clients:       *)
(* doOut() and xcout().  A long text goes in chunks (INCR): the owner puts *)
(* a chunk into a property of the requestor's window, the requestor reads  *)
(* and deletes it, and both learn of each other from PropertyNotify        *)
(* events.  A step is the handling of one event, with the X requests it    *)
(* makes, which the X server carries out in order.  A requestor may be     *)
(* killed at any time, and the program that takes the selection may leave  *)
(* requests without an answer.                                             *)
(***************************************************************************)
EXTENDS Naturals, Sequences

CONSTANTS Requestors,  \* sessions that read the clipboard
          TextLens,    \* the lengths a text may have
          ChunkSize    \* chunk_size: a quarter of the largest X request

ASSUME XSelectionAssumption ==
  /\ TextLens # {} /\ TextLens \subseteq Nat \ {0}
  /\ ChunkSize \in Nat \ {0}

VARIABLES selection,  \* the X server: "owned" by the session, or "lost"
          property,   \* the X server: requestor -> its property
          watched,    \* the requestors whose windows the owner watches
          queue,      \* the events the owner has yet to read
          text,       \* the owner: what it serves; never changes
          context,    \* the owner: "none" or "incr"
          win, pos,   \* the owner: requestor and position of the transfer
          clear,      \* the owner: a SelectionClear has been read
          ended,      \* the owner has left doIn()
          died,       \* an X error has ended the owner
          events,     \* requestor -> the events it has yet to read
          ctx,        \* requestor -> "idle", "sent", "incr", "done",
                      \*   "failed", "gone" (its process was killed)
          tries,      \* requestor -> targets tried
          got,        \* requestor -> the data received
          silent,     \* requestors the new owner leaves without an answer
          crossed     \* history: a long text was asked for when it was already
                      \*   on its way to another session

server == <<selection, property, watched>>
owner == <<text, context, win, pos, clear, ended, died>>
requestors == <<ctx, tries, got, silent, crossed>>
vars == <<server, queue, owner, events, requestors>>

\* The bytes of a text are told apart by their places.
TextOf(length) == [n \in 1..length |-> n]
Long == Len(text) > ChunkSize

\* The values of a property.  NoProp: it does not exist.
NoProp == [type |-> "none", data |-> <<>>]
Incr == [type |-> "INCR", data |-> <<>>]
Data(d) == [type |-> "data", data |-> d]

Nobody == "nobody"

Init ==
  /\ selection = "owned"
  /\ property = [r \in Requestors |-> NoProp]
  /\ watched = {}
  /\ queue = <<>>
  /\ \E length \in TextLens : text = TextOf(length)
  /\ context = "none" /\ win = Nobody /\ pos = 0
  /\ clear = FALSE /\ ended = FALSE /\ died = FALSE
  /\ events = [r \in Requestors |-> <<>>]
  /\ ctx = [r \in Requestors |-> "idle"]
  /\ tries = [r \in Requestors |-> 0]
  /\ got = [r \in Requestors |-> <<>>]
  /\ silent = {} /\ crossed = FALSE

Event(type, r) == [type |-> type, from |-> r]

-----------------------------------------------------------------------------
(* The owner.                                                              *)

\* XNextEvent() in doIn()
Reads(type) == ~ended /\ ~died /\ queue # <<>> /\ Head(queue).type = type

\* XChangeProperty() on the window of r: PropertyNewValue to both
NewValue(r, value, more) ==
  /\ property' = [property EXCEPT ![r] = value]
  /\ events' = [events EXCEPT ![r] = Append(@, "new") \o more]

ToOwner(q, type, r, watching) ==
  IF r \in watching THEN Append(q, Event(type, r)) ELSE q

\* the window of the requestor is not watched
AnswerRequestWatchBug ==
  /\ Reads("request") /\ context = "none"
  /\ ctx[Head(queue).from] # "gone"
  /\ LET r == Head(queue).from
         value == IF Long THEN Incr ELSE Data(text)
     IN /\ win' = r
        /\ pos' = 0
        /\ context' = IF Long THEN "incr" ELSE "none"
        /\ watched' = watched
        /\ NewValue(r, value, <<"notify">>)
        /\ queue' = ToOwner(Tail(queue), "new", r, watched)
  /\ ended' = (clear /\ ~Long)
  /\ UNCHANGED <<selection, text, clear, died, requestors>>

\* XNextEvent() and xcin() in the context XCLIB_XCIN_NONE
AnswerRequest ==
  /\ Reads("request") /\ context = "none"
  /\ ctx[Head(queue).from] # "gone"
  /\ LET r == Head(queue).from
         value == IF Long THEN Incr ELSE Data(text)
     IN /\ win' = r
        /\ pos' = 0
        /\ context' = IF Long THEN "incr" ELSE "none"
        /\ watched' = IF Long THEN watched \cup {r} ELSE watched
        /\ NewValue(r, value, <<"notify">>)
        /\ queue' = ToOwner(Tail(queue), "new", r, watched)
  /\ ended' = (clear /\ ~Long)
  /\ UNCHANGED <<selection, text, clear, died, requestors>>

\* the end of the text is sent as soon as the last chunk is out
ChunkBug ==
  IF pos + ChunkSize >= Len(text) THEN <<>> ELSE SubSeq(text, pos + 1, pos + ChunkSize)

\* The chunk that follows pos; an empty one ends the transfer.
Chunk == SubSeq(text, pos + 1,
                IF pos + ChunkSize > Len(text) THEN Len(text) ELSE pos + ChunkSize)

\* xcin() in the context XCLIB_XCIN_INCR: a property was deleted.  The window
\* of the event is not compared with win.
SendChunk ==
  /\ Reads("deleted") /\ context = "incr"
  /\ ctx[win] # "gone"
  /\ NewValue(win, Data(Chunk), <<>>)
  /\ queue' = ToOwner(Tail(queue), "new", win, watched)
  /\ context' = IF Chunk = <<>> THEN "none" ELSE "incr"
  /\ pos' = pos + ChunkSize
  /\ ended' = (clear /\ Chunk = <<>>)
  /\ UNCHANGED <<selection, watched, text, win, clear, died, requestors>>

\* The window of the requestor does not exist any more: XChangeProperty() is
\* an error (BadWindow), and the default handler of Xlib ends the process.
OwnerDies ==
  /\ \/ Reads("request") /\ context = "none" /\ ctx[Head(queue).from] = "gone"
     \/ Reads("deleted") /\ context = "incr" /\ ctx[win] = "gone"
  /\ died' = TRUE
  /\ selection' = "lost"
  /\ UNCHANGED <<property, watched, queue, text, context, win, pos, clear, ended,
                 events, requestors>>

\* the owner leaves although a transfer is under way
SelectionClearBug ==
  /\ Reads("clear")
  /\ clear' = TRUE
  /\ ended' = TRUE
  /\ queue' = Tail(queue)
  /\ UNCHANGED <<server, text, context, win, pos, died, events, requestors>>

SelectionClear ==
  /\ Reads("clear")
  /\ clear' = TRUE
  /\ ended' = (context = "none")
  /\ queue' = Tail(queue)
  /\ UNCHANGED <<server, text, context, win, pos, died, events, requestors>>

\* An event the context has no use for is dropped: a request during a
\* transfer is never answered.
Ignore ==
  /\ \/ Reads("new")
     \/ Reads("deleted") /\ context = "none"
     \/ Reads("request") /\ context = "incr"
  /\ queue' = Tail(queue)
  /\ UNCHANGED <<server, owner, events, requestors>>

Owner == AnswerRequest \/ SendChunk \/ OwnerDies \/ SelectionClear \/ Ignore

\* another program takes the selection
Take ==
  /\ selection = "owned"
  /\ selection' = "lost"
  /\ queue' = Append(queue, Event("clear", Nobody))
  /\ UNCHANGED <<property, watched, owner, events, requestors>>

-----------------------------------------------------------------------------
(* A requestor.                                                            *)

\* The program that has taken the selection refuses the target, or never
\* answers.  older: the events of r that come before its answer.
Foreign(r, older) ==
  \/ events' = [events EXCEPT ![r] = Append(older, "refused")] /\ UNCHANGED silent
  \/ events' = [events EXCEPT ![r] = older] /\ silent' = silent \cup {r}

\* The owner has answered another session, or is about to, and that session
\* has not come to the end of the text, or was killed before.
UnderWay == \E q \in Requestors : ctx[q] \in {"sent", "incr", "gone"}

\* XConvertSelection(): the X server passes the request on to the owner.
Ask(r) ==
  /\ ctx[r] = "idle"
  /\ tries' = [tries EXCEPT ![r] = @ + 1]
  /\ ctx' = [ctx EXCEPT ![r] = "sent"]
  /\ \/ /\ selection = "owned"
        /\ queue' = Append(queue, Event("request", r))
        /\ crossed' = (crossed \/ (Long /\ UnderWay))
        /\ UNCHANGED <<events, silent>>
     \/ /\ selection = "lost"
        /\ Foreign(r, events[r])
        /\ UNCHANGED <<queue, crossed>>
  /\ UNCHANGED <<server, owner, got>>

\* XDeleteProperty(): PropertyDelete to both, if there was a property
Delete(r) ==
  /\ property' = [property EXCEPT ![r] = NoProp]
  /\ IF property[r] = NoProp
     THEN UNCHANGED queue
     ELSE queue' = ToOwner(queue, "deleted", r, watched)

\* what is left of the requestor's events; its own deletion is one of them
Rest(r) ==
  IF property[r] = NoProp THEN Tail(events[r]) ELSE Append(Tail(events[r]), "deleted")

Next1(r, state, type) ==
  /\ ctx[r] = state /\ events[r] # <<>> /\ Head(events[r]) = type

\* SelectionNotify: the data, or the announcement of chunks
Notified(r) ==
  /\ Next1(r, "sent", "notify")
  /\ Delete(r)
  /\ events' = [events EXCEPT ![r] = Rest(r)]
  /\ IF property[r] = Incr
     THEN ctx' = [ctx EXCEPT ![r] = "incr"] /\ UNCHANGED got
     ELSE ctx' = [ctx EXCEPT ![r] = "done"] /\ got' = [got EXCEPT ![r] = property[r].data]
  /\ UNCHANGED <<selection, watched, owner, tries, silent, crossed>>

\* The selection was lost, and its new owner has nothing in that target:
\* UTF8_STRING first, then STRING.
Refused(r) ==
  /\ Next1(r, "sent", "refused")
  /\ IF tries[r] = 1
     THEN /\ tries' = [tries EXCEPT ![r] = 2]
          /\ Foreign(r, Tail(events[r]))
          /\ UNCHANGED ctx
     ELSE /\ ctx' = [ctx EXCEPT ![r] = "failed"]
          /\ events' = [events EXCEPT ![r] = Tail(@)]
          /\ UNCHANGED <<tries, silent>>
  /\ UNCHANGED <<server, queue, owner, got, crossed>>

\* PropertyNewValue: an empty property, or none, is the end
ChunkReceived(r) ==
  /\ Next1(r, "incr", "new")
  /\ Delete(r)
  /\ events' = [events EXCEPT ![r] = Rest(r)]
  /\ IF property[r].data = <<>>
     THEN ctx' = [ctx EXCEPT ![r] = "done"] /\ UNCHANGED got
     ELSE got' = [got EXCEPT ![r] = @ \o property[r].data] /\ UNCHANGED ctx
  /\ UNCHANGED <<selection, watched, owner, tries, silent, crossed>>

\* events that xcout() has no use for
Skip(r) ==
  /\ \/ Next1(r, "sent", "new") \/ Next1(r, "sent", "deleted")
     \/ Next1(r, "incr", "deleted") \/ Next1(r, "incr", "notify")
  /\ events' = [events EXCEPT ![r] = Tail(@)]
  /\ UNCHANGED <<server, queue, owner, requestors>>

\* The process is killed while it waits: the X server destroys its window.
Vanish(r) ==
  /\ ctx[r] \in {"sent", "incr"}
  /\ ctx' = [ctx EXCEPT ![r] = "gone"]
  /\ property' = [property EXCEPT ![r] = NoProp]
  /\ events' = [events EXCEPT ![r] = <<>>]
  /\ watched' = watched \ {r}
  /\ UNCHANGED <<selection, queue, owner, tries, got, silent, crossed>>

Requestor(r) ==
  Notified(r) \/ Refused(r) \/ ChunkReceived(r) \/ Skip(r)

-----------------------------------------------------------------------------
Next ==
  \/ Owner \/ Take
  \/ \E r \in Requestors : Ask(r) \/ Requestor(r) \/ Vanish(r)

Spec == Init /\ [][Next]_vars

\* Each process handles the events it has; no one has to ask for the text, to
\* take the selection or to be killed.
FairSpec == Spec /\ WF_vars(Owner) /\ \A r \in Requestors : WF_vars(Requestor(r))

-----------------------------------------------------------------------------
(* Properties.                                                             *)

\* A session that takes the clipboard to be complete has received the text of
\* the owner, chunk by chunk, from the first byte to the last, unless a session
\* asked for a long text that was on its way to another one.
PasteIsTheText ==
  ~crossed => \A r \in Requestors : ctx[r] = "done" => got[r] = text

Pending(r, event) == \E n \in DOMAIN events[r] : events[r][n] = event

\* The owner does not leave a transfer half done when another program copies
\* something while its text is being pasted: whoever still waits then has the
\* rest of the text, or the answer of the other program, to read.
NobodyIsLeftHalfway ==
  ended /\ ~crossed =>
    \A r \in Requestors :
      /\ ctx[r] = "incr" =>
           got[r] = text /\ property[r] = Data(<<>>) /\ Pending(r, "new")
      /\ ctx[r] = "sent" =>
           \/ property[r] = Data(text) /\ Pending(r, "notify")
           \/ Pending(r, "refused") \/ r \in silent

\* The requestor was killed in the middle of the text: no event of its window
\* comes any more.
Abandoned == context = "incr" /\ ctx[win] = "gone"

\* The session ends once it has lost the selection, so its slot of the
\* listener becomes free.
OwnerLeaves == (selection = "lost") ~> (ended \/ died \/ Abandoned \/ crossed)

\* Every request is answered, also when the selection is lost right after it:
\* the sessions wait for the answer without a timeout.
RequestsAreAnswered ==
  \A r \in Requestors :
    (ctx[r] = "sent") ~>
      (ctx[r] \in {"done", "failed", "gone"} \/ died \/ r \in silent \/ crossed)

\* Neither side of a transfer stays behind: the requestor gets its answer, and
\* the owner leaves when it is no longer one.  The exceptions: the other side
\* was killed, the new owner does not answer, or a session asked for a long
\* text that was on its way to another one.
TransfersEnd == OwnerLeaves /\ RequestsAreAnswered
=============================================================================
