--------------------------- MODULE ListenerProofs ---------------------------
(***************************************************************************)
(* Proofs about Listener for every set of clients, every limit, every      *)
(* number of races and every build: processes or threads, TLS or not, with *)
(* a counter of one instruction or of several.                             *)
(***************************************************************************)
EXTENDS Listener, FiniteSetTheorems, SequenceTheorems, TLAPS

\* Who runs in which build, and the room that Full has left for the
\* increment.
Shape ==
  /\ build.threads => ~inHandler /\ ~sigchld /\ ~build.atomic
  /\ ~build.threads => \A c \in Clients : conn[c] # "storing"
  /\ build.atomic => ~InWindow
  /\ pc = "inc" => req_cnt < MaxReq
  /\ pc = "incstore" => reg < MaxReq
  /\ pc = "dead" => ~inHandler

\* the decrements between their load and their store
Pending == Cardinality(Storing) + (IF pc = "decstore" THEN 1 ELSE 0)

\* How far the counter, or a register, can be too high while the listener
\* lives: each decrement that is about to be stored beside another will be
\* lost to it.
Loss == pc # "dead" =>
  /\ req_cnt <= Taken + races
  /\ Pending > 0 => req_cnt <= Taken + races - (Pending - 1)
  /\ \A c \in Storing : threadReg[c] <= Taken + races - (Pending - 1)
  /\ pc = "decstore" => reg <= Taken + races - (Pending - 1)
  /\ pc = "incstore" => reg <= Taken + races - Pending
  /\ ~build.threads =>
       IF InWindow THEN reg = Taken + races ELSE req_cnt = Taken + races

\* the inductive invariant
IInv == TypeOK /\ EachClosedOnce /\ Shape /\ Accounting /\ Loss

-----------------------------------------------------------------------------
(* The sets of sessions and their sizes.                                   *)

\* They are finite, whatever the connections do: Clients is.
LEMMA SetsFinite ==
  ASSUME ListenerAssumption
  PROVE  /\ IsFiniteSet(Unreaped) /\ Cardinality(Unreaped) \in Nat
         /\ IsFiniteSet(Storing) /\ Cardinality(Storing) \in Nat
<1>1. /\ Unreaped \subseteq Clients /\ Storing \subseteq Clients
      /\ IsFiniteSet(Clients)
  BY DEF Unreaped, Storing, ListenerAssumption
<1>2. IsFiniteSet(Unreaped) /\ IsFiniteSet(Storing)
  BY <1>1, FS_Subset
<1> QED
  BY <1>2, FS_CardinalityType

\* They do not change with a connection that moves between states that are
\* no session's, or between two states of a session that are not "storing".
LEMMA SetsSame ==
  ASSUME TypeOK, NEW c \in Clients, NEW s \in ConnStates,
         conn' = [conn EXCEPT ![c] = s],
         conn[c] \in Live <=> s \in Live,
         conn[c] # "storing", s # "storing"
  PROVE  Unreaped' = Unreaped /\ Storing' = Storing
BY DEF TypeOK, Unreaped, Storing, ConnStates, Live

\* A fork adds one session.
LEMMA UnreapedAdd ==
  ASSUME ListenerAssumption, TypeOK, NEW c \in Clients,
         conn' = [conn EXCEPT ![c] = "serving"], conn[c] = "accepted"
  PROVE  /\ Unreaped' = Unreaped \cup {c} /\ Storing' = Storing
         /\ Cardinality(Unreaped') = Cardinality(Unreaped) + 1
<1>1. Unreaped' = Unreaped \cup {c} /\ c \notin Unreaped /\ Storing' = Storing
  BY DEF TypeOK, Unreaped, Storing, ConnStates, Live
<1> QED
  BY <1>1, SetsFinite, FS_AddElement

\* The end of a session removes one.
LEMMA UnreapedRemove ==
  ASSUME ListenerAssumption, TypeOK, NEW c \in Clients,
         conn' = [conn EXCEPT ![c] = "away"], conn[c] \in Live
  PROVE  /\ Unreaped' = Unreaped \ {c} /\ c \in Unreaped
         /\ Cardinality(Unreaped) \in Nat \ {0}
         /\ Cardinality(Unreaped') = Cardinality(Unreaped) - 1
<1>1. Unreaped' = Unreaped \ {c} /\ c \in Unreaped
  BY DEF TypeOK, Unreaped, ConnStates, Live
<1>2. Cardinality(Unreaped) # 0
  BY <1>1, SetsFinite, FS_EmptySet
<1> QED
  BY <1>1, <1>2, SetsFinite, FS_RemoveElement

\* A thread that loads the counter is one more that is about to store it.
LEMMA StoringAdd ==
  ASSUME ListenerAssumption, TypeOK, NEW c \in Clients,
         conn' = [conn EXCEPT ![c] = "storing"], conn[c] = "zombie"
  PROVE  /\ Unreaped' = Unreaped
         /\ Storing' = Storing \cup {c} /\ c \notin Storing
         /\ Cardinality(Storing') = Cardinality(Storing) + 1
<1>1. /\ Unreaped' = Unreaped
      /\ Storing' = Storing \cup {c} /\ c \notin Storing
  BY DEF TypeOK, Unreaped, Storing, ConnStates, Live
<1> QED
  BY <1>1, SetsFinite, FS_AddElement

\* Its store makes it one less.
LEMMA StoringRemove ==
  ASSUME ListenerAssumption, TypeOK, NEW c \in Clients,
         conn' = [conn EXCEPT ![c] = "away"], conn[c] = "storing"
  PROVE  /\ Storing' = Storing \ {c} /\ c \in Storing
         /\ Cardinality(Storing) \in Nat \ {0}
         /\ Cardinality(Storing') = Cardinality(Storing) - 1
<1>1. Storing' = Storing \ {c} /\ c \in Storing
  BY DEF TypeOK, Storing, ConnStates
<1>2. Cardinality(Storing) # 0
  BY <1>1, SetsFinite, FS_EmptySet
<1> QED
  BY <1>1, <1>2, SetsFinite, FS_RemoveElement

\* No thread is storing exactly if their number is 0.
LEMMA StoringEmpty ==
  ASSUME ListenerAssumption
  PROVE  Storing = {} <=> Cardinality(Storing) = 0
BY SetsFinite, FS_EmptySet

-----------------------------------------------------------------------------
(* Types, connections and builds.                                          *)

Frame == TypeOK /\ EachClosedOnce /\ Shape

LEMMA InitFrame ==
  ASSUME ListenerAssumption, Init
  PROVE  Frame
<1>3. backlog \in Seq(Clients) /\ Len(backlog) = 0
  BY EmptySeq DEF Init
<1>4. conn \in [Clients -> ConnStates]
  BY DEF Init, ConnStates
<1>5. /\ pc \in Locations /\ cur = NoClient /\ pc = "accept"
      /\ reg \in Int /\ reg <= MaxReq /\ req_cnt \in Int /\ req_cnt <= MaxReq
      /\ fds \in 0..FdLimit /\ rejected \in 0..FdLimit /\ races \in Nat
      /\ threadReg \in [Clients -> {i \in Int : i <= MaxReq}]
  <2>1. MaxReq \in Nat /\ FdLimit \in Nat
    BY DEF ListenerAssumption
  <2> QED
    BY <2>1 DEF Init, Locations
<1>6. build \in Builds /\ sigchld \in BOOLEAN /\ inHandler \in BOOLEAN
  BY DEF Init
<1>7. TypeOK
  BY <1>3, <1>4, <1>5, <1>6 DEF TypeOK
<1>8. EachClosedOnce
  <2>1. \A c \in Clients : conn[c] = "away" /\ c # cur
    BY <1>5 DEF Init, ListenerAssumption
  <2> QED
    BY <1>3, <1>5, <2>1 DEF EachClosedOnce, Init
<1>9. Shape
  BY DEF Init, Shape, InWindow, ListenerAssumption
<1> QED
  BY <1>7, <1>8, <1>9 DEF Frame

LEMMA LoopFrame ==
  ASSUME ListenerAssumption, Frame, Loop
  PROVE  Frame'
<1>t. /\ TypeOK /\ EachClosedOnce /\ Shape
      /\ MaxReq \in Nat \ {0} /\ FdLimit \in Nat \ {0}
      /\ NoClient \notin Clients
  BY DEF Frame, ListenerAssumption
<1> USE <1>t DEF At, DropCur, Close, files, handlerVars, rest, Frame
<1>a. CASE Accept
  <2> DEFINE c == Head(backlog)
  <2>1. /\ c \in Clients /\ Tail(backlog) \in Seq(Clients)
        /\ Len(backlog) \in Nat \ {0} /\ Len(Tail(backlog)) = Len(backlog) - 1
        /\ \A i \in 1..Len(Tail(backlog)) : Tail(backlog)[i] = backlog[i+1]
    BY <1>a, HeadTailProperties, EmptySeq DEF Accept, TypeOK
  <2>2. c = backlog[1] /\ conn[c] = "queued"
    BY <1>a, <2>1 DEF Accept, EachClosedOnce, TypeOK
  <2>3. TypeOK'
    BY <1>a, <2>1 DEF Accept, TypeOK, ConnStates, Locations
  <2>4. EachClosedOnce'
    BY <1>a, <2>1, <2>2 DEF Accept, EachClosedOnce, TypeOK
  <2>5. Shape'
    BY <1>a, <2>1 DEF Accept, Shape, InWindow, TypeOK
  <2> QED
    BY <2>3, <2>4, <2>5
<1>h. CASE TimeoutNotSet
  <2> DEFINE c == Head(backlog)
  <2>1. /\ c \in Clients /\ Tail(backlog) \in Seq(Clients)
        /\ Len(backlog) \in Nat \ {0} /\ Len(Tail(backlog)) = Len(backlog) - 1
        /\ \A i \in 1..Len(Tail(backlog)) : Tail(backlog)[i] = backlog[i+1]
    BY <1>h, HeadTailProperties, EmptySeq DEF TimeoutNotSet, TypeOK
  <2>2. c = backlog[1] /\ conn[c] = "queued"
    BY <1>h, <2>1 DEF TimeoutNotSet, EachClosedOnce, TypeOK
  <2>3. TypeOK'
    BY <1>h, <2>1 DEF TimeoutNotSet, TypeOK, ConnStates
  <2>4. EachClosedOnce'
    BY <1>h, <2>1, <2>2 DEF TimeoutNotSet, EachClosedOnce, TypeOK
  <2>5. Shape'
    BY <1>h, <2>1 DEF TimeoutNotSet, Shape, InWindow, TypeOK
  <2> QED
    BY <2>3, <2>4, <2>5
<1>b. CASE AcceptFailed
  BY <1>b DEF AcceptFailed, vars, TypeOK, EachClosedOnce, Shape, InWindow
<1>c. CASE HandshakeDone
  <2>1. TypeOK'
    BY <1>c DEF HandshakeDone, TypeOK, Locations
  <2>2. EachClosedOnce' /\ Shape'
    BY <1>c DEF HandshakeDone, EachClosedOnce, Shape, InWindow
  <2> QED
    BY <2>1, <2>2
<1>d. ASSUME HandshakeFailed \/ PeerRejected \/ Refuse \/ ForkFailed
      PROVE  Frame'
  <2>1. /\ cur \in Clients /\ conn[cur] = "accepted"
        /\ conn' = [conn EXCEPT ![cur] = "away"]
        /\ cur' = NoClient /\ pc' \in {"accept", "dec"}
    BY <1>d DEF HandshakeFailed, PeerRejected, Refuse, ForkFailed, EachClosedOnce
  <2>2. /\ fds' \in 0..FdLimit /\ rejected' \in 0..FdLimit
        /\ fds' = rejected'
    BY <1>d, <2>1 DEF HandshakeFailed, PeerRejected, Refuse, ForkFailed, EachClosedOnce, TypeOK
  <2>3. UNCHANGED <<build, backlog, reg, req_cnt, sigchld, inHandler, threadReg, races>>
    BY <1>d DEF HandshakeFailed, PeerRejected, Refuse, ForkFailed
  <2>4. TypeOK'
    BY <2>1, <2>2, <2>3 DEF TypeOK, ConnStates, Locations
  <2>5. EachClosedOnce'
    <3>1. \A c \in Clients : conn'[c] # "accepted"
      BY <2>1 DEF EachClosedOnce, TypeOK
    <3>2. \A i \in 1..Len(backlog) : conn'[backlog[i]] = "queued"
      <4>1. \A i \in 1..Len(backlog) : backlog[i] \in Clients /\ backlog[i] # cur
        BY <2>1 DEF EachClosedOnce, TypeOK
      <4> QED
        BY <2>1, <4>1 DEF EachClosedOnce, TypeOK
    <3>3. /\ \A i, j \in 1..Len(backlog) : backlog[i] = backlog[j] => i = j
          /\ backlog' = backlog
      BY <2>3 DEF EachClosedOnce
    <3>4. fds' = rejected' + 0
      <4>1. \A n \in 0..FdLimit : n = n + 0
        OBVIOUS
      <4> QED
        BY <2>2, <4>1, Zenon
    <3> QED
      BY <2>1, <3>1, <3>2, <3>3, <3>4 DEF EachClosedOnce
  <2>6. Shape'
    BY <2>1, <2>3 DEF Shape, InWindow, TypeOK
  <2> QED
    BY <2>4, <2>5, <2>6
<1>e. ASSUME Admit \/ Increment \/ IncrementLoad \/ IncrementStore
      PROVE  Frame'
  <2>1. UNCHANGED <<build, conn, backlog, cur, fds, rejected, sigchld, inHandler, threadReg>>
    BY <1>e DEF Admit, Increment, IncrementLoad, IncrementStore
  <2>2. pc \in {"check", "inc", "incstore"} /\ pc' \in {"inc", "incstore", "fork"}
    BY <1>e DEF Admit, Increment, IncrementLoad, IncrementStore
  <2>3. EachClosedOnce'
    BY <2>1, <2>2 DEF EachClosedOnce, TypeOK
  <2>4. /\ reg' \in Int /\ reg' <= MaxReq /\ req_cnt' \in Int /\ req_cnt' <= MaxReq
        /\ races' \in Nat
    BY <1>e DEF Admit, Increment, IncrementLoad, IncrementStore, TypeOK, Shape, Race
  <2>5. TypeOK'
    BY <2>1, <2>2, <2>4 DEF TypeOK, Locations
  <2>6. Shape'
    BY <1>e, <2>1 DEF Admit, Increment, IncrementLoad, IncrementStore, Full,
       TypeOK, Shape, InWindow
  <2> QED
    BY <2>3, <2>5, <2>6
<1>f. CASE Fork
  <2>1. cur \in Clients /\ conn[cur] = "accepted"
    BY <1>f DEF Fork, EachClosedOnce
  <2>5. fds' \in 0..FdLimit
    BY <1>f, <2>1 DEF Fork, EachClosedOnce, TypeOK
  <2>2. TypeOK'
    BY <1>f, <2>1, <2>5 DEF Fork, TypeOK, ConnStates, Locations
  <2>3. EachClosedOnce'
    BY <1>f, <2>1 DEF Fork, EachClosedOnce, TypeOK
  <2>4. Shape'
    BY <1>f, <2>1 DEF Fork, Shape, InWindow, TypeOK
  <2> QED
    BY <2>2, <2>3, <2>4
<1>g. ASSUME Decrement \/ DecrementLoad \/ DecrementStore
      PROVE  Frame'
  <2>1. UNCHANGED <<build, conn, backlog, cur, fds, rejected, sigchld, inHandler, threadReg>>
    BY <1>g DEF Decrement, DecrementLoad, DecrementStore
  <2>2. pc \in {"dec", "decstore"} /\ pc' \in {"decstore", "accept"}
    BY <1>g DEF Decrement, DecrementLoad, DecrementStore
  <2>3. EachClosedOnce'
    BY <2>1, <2>2 DEF EachClosedOnce, TypeOK
  <2>4. /\ reg' \in Int /\ reg' <= MaxReq /\ req_cnt' \in Int /\ req_cnt' <= MaxReq
        /\ races' \in Nat
    BY <1>g DEF Decrement, DecrementLoad, DecrementStore, TypeOK, Race
  <2>5. TypeOK'
    BY <2>1, <2>2, <2>4 DEF TypeOK, Locations
  <2>6. Shape'
    BY <1>g, <2>1 DEF Decrement, DecrementLoad, DecrementStore, TypeOK, Shape, InWindow
  <2> QED
    BY <2>3, <2>5, <2>6
<1> QED
  BY <1>a, <1>b, <1>c, <1>d, <1>e, <1>f, <1>g, <1>h DEF Loop

\* The handler, the clients and the sessions.
LEMMA EnvironmentFrame ==
  ASSUME ListenerAssumption, Frame,
         Deliver \/ Return \/ Killed \/ \E c \in Clients : Reap(c) \/ Session(c)
  PROVE  Frame'
<1>t. /\ TypeOK /\ EachClosedOnce /\ Shape
      /\ MaxReq \in Nat \ {0} /\ FdLimit \in Nat \ {0}
      /\ NoClient \notin Clients
  BY DEF Frame, ListenerAssumption
<1> USE <1>t DEF loopVars, files, handlerVars, rest, Frame
<1>a. CASE Deliver
  <2>1. pc' \in Locations
    BY <1>a DEF Deliver, TypeOK, Locations
  <2>2. TypeOK'
    BY <1>a, <2>1 DEF Deliver, TypeOK
  <2>3. EachClosedOnce' /\ Shape'
    BY <1>a DEF Deliver, EachClosedOnce, Shape, InWindow
  <2> QED
    BY <2>2, <2>3
<1>b. CASE Return
  <2>1. TypeOK'
    BY <1>b DEF Return, TypeOK
  <2>2. EachClosedOnce' /\ Shape'
    BY <1>b DEF Return, EachClosedOnce, Shape, InWindow
  <2> QED
    BY <2>1, <2>2
<1>c. ASSUME NEW c \in Clients, Reap(c)
      PROVE  Frame'
  <2>1. TypeOK'
    BY <1>c DEF Reap, Overwritten, TypeOK, ConnStates
  <2>2. EachClosedOnce'
    BY <1>c DEF Reap, EachClosedOnce, TypeOK
  <2>3. Shape'
    BY <1>c DEF Reap, Shape, InWindow, TypeOK
  <2> QED
    BY <2>1, <2>2, <2>3
<1>d. ASSUME NEW c \in Clients, Connect(c)
      PROVE  Frame'
  <2>1. /\ backlog' \in Seq(Clients) /\ Len(backlog) \in Nat
        /\ Len(backlog') = Len(backlog) + 1
        /\ \A i \in 1..Len(backlog) : backlog'[i] = backlog[i] /\ backlog[i] \in Clients
        /\ backlog'[Len(backlog) + 1] = c
    BY <1>d, AppendProperties DEF Connect, TypeOK
  <2>2. TypeOK'
    BY <1>d, <2>1 DEF Connect, TypeOK, ConnStates
  <2>3. EachClosedOnce'
    BY <1>d, <2>1 DEF Connect, EachClosedOnce, TypeOK
  <2>4. Shape'
    BY <1>d DEF Connect, Shape, InWindow, TypeOK
  <2> QED
    BY <2>2, <2>3, <2>4
<1>e. ASSUME NEW c \in Clients, SessionEnd(c)
      PROVE  Frame'
  <2>1. TypeOK'
    BY <1>e DEF SessionEnd, TypeOK, ConnStates
  <2>2. EachClosedOnce'
    BY <1>e DEF SessionEnd, EachClosedOnce, TypeOK
  <2>3. Shape'
    BY <1>e DEF SessionEnd, Shape, InWindow, TypeOK
  <2> QED
    BY <2>1, <2>2, <2>3
<1>f. ASSUME NEW c \in Clients, ThreadDecrement(c)
      PROVE  Frame'
  <2>1. TypeOK'
    BY <1>f DEF ThreadDecrement, Race, TypeOK, ConnStates
  <2>2. EachClosedOnce'
    BY <1>f DEF ThreadDecrement, EachClosedOnce, TypeOK
  <2>3. Shape'
    BY <1>f DEF ThreadDecrement, Shape, InWindow, TypeOK
  <2> QED
    BY <2>1, <2>2, <2>3
<1>g. ASSUME NEW c \in Clients, ThreadStore(c)
      PROVE  Frame'
  <2>1. req_cnt' \in Int /\ req_cnt' < MaxReq
    BY <1>g DEF ThreadStore, TypeOK
  <2>2. TypeOK'
    BY <1>g, <2>1 DEF ThreadStore, TypeOK, ConnStates
  <2>3. EachClosedOnce'
    BY <1>g DEF ThreadStore, EachClosedOnce, TypeOK
  <2>4. Shape'
    BY <1>g, <2>1 DEF ThreadStore, Shape, InWindow, TypeOK
  <2> QED
    BY <2>2, <2>3, <2>4
<1>h. CASE Killed
  <2>1. /\ cur' = NoClient /\ backlog' = <<>> /\ pc' = "dead" /\ fds' = 0
        /\ ~inHandler /\ ~build.threads
        /\ UNCHANGED <<build, reg, req_cnt, rejected, sigchld, inHandler, threadReg, races>>
    BY <1>h DEF Killed, At
  <2>2. \A c \in Clients :
          /\ conn'[c] \in ConnStates \ {"queued", "accepted"}
          /\ conn'[c] = "storing" => conn[c] = "storing"
    BY <1>h DEF Killed, TypeOK, ConnStates
  <2>3. conn' \in [Clients -> ConnStates]
    BY <1>h, <2>2 DEF Killed
  <2>4. backlog' \in Seq(Clients) /\ Len(backlog') = 0
    BY <2>1, EmptySeq
  <2>5. TypeOK'
    BY <2>1, <2>3, <2>4 DEF TypeOK, Locations
  <2>6. EachClosedOnce'
    BY <2>1, <2>2, <2>4 DEF EachClosedOnce
  <2>7. Shape'
    BY <2>1, <2>2 DEF Shape, InWindow
  <2> QED
    BY <2>5, <2>6, <2>7
<1>i. ASSUME NEW c \in Clients, OrphanReaped(c)
      PROVE  Frame'
  <2>1. TypeOK'
    BY <1>i DEF OrphanReaped, TypeOK, ConnStates
  <2>2. EachClosedOnce'
    BY <1>i DEF OrphanReaped, EachClosedOnce, TypeOK
  <2>3. Shape'
    BY <1>i DEF OrphanReaped, Shape, InWindow, TypeOK
  <2> QED
    BY <2>1, <2>2, <2>3
<1>j. ASSUME NEW c \in Clients, ConnectRefused(c)
      PROVE  Frame'
  BY <1>j DEF ConnectRefused, vars, TypeOK, EachClosedOnce, Shape, InWindow
<1> QED
  BY <1>a, <1>b, <1>c, <1>d, <1>e, <1>f, <1>g, <1>h, <1>i, <1>j DEF Session

-----------------------------------------------------------------------------
(* Only five actions change the sets of sessions.                          *)

LEMMA SetsStep ==
  ASSUME ListenerAssumption, Frame, [Next]_vars, ~Fork,
         \A c \in Clients : /\ ~Reap(c) /\ ~OrphanReaped(c)
                            /\ ~ThreadDecrement(c) /\ ~ThreadStore(c)
  PROVE  Unreaped' = Unreaped /\ Storing' = Storing
<1> USE DEF At, DropCur, Close, files, loopVars, handlerVars, rest, Live
<1>t. TypeOK /\ EachClosedOnce
  BY DEF Frame
<1>1. CASE Accept \/ TimeoutNotSet
  <2>1. Head(backlog) \in Clients /\ Head(backlog) = backlog[1] /\ Len(backlog) \in Nat \ {0}
    BY <1>1, <1>t, HeadTailProperties, EmptySeq DEF Accept, TimeoutNotSet, TypeOK
  <2>2. conn[Head(backlog)] = "queued"
    BY <1>1, <1>t, <2>1 DEF Accept, TimeoutNotSet, EachClosedOnce
  <2> QED
    BY <1>1, <1>t, <2>1, <2>2, SetsSame DEF Accept, TimeoutNotSet, ConnStates
<1>2. CASE HandshakeFailed \/ PeerRejected \/ Refuse \/ ForkFailed
  <2>1. /\ cur \in Clients /\ conn[cur] = "accepted"
        /\ conn' = [conn EXCEPT ![cur] = "away"]
    BY <1>2, <1>t DEF HandshakeFailed, PeerRejected, Refuse, ForkFailed, EachClosedOnce
  <2> QED
    BY <1>t, <2>1, SetsSame DEF ConnStates
<1>3. CASE UNCHANGED conn
  BY <1>3 DEF Unreaped, Storing
<1>4. ASSUME NEW c \in Clients, Connect(c) \/ SessionEnd(c)
      PROVE  Unreaped' = Unreaped /\ Storing' = Storing
  BY <1>4, <1>t, SetsSame DEF Connect, SessionEnd, ConnStates
<1>5. CASE Killed
  <2>1. \A c \in Clients : /\ conn'[c] \in Live <=> conn[c] \in Live
                           /\ conn'[c] = "storing" <=> conn[c] = "storing"
    BY <1>5 DEF Killed
  <2> QED
    BY <2>1 DEF Unreaped, Storing
<1> QED
  <2>1. CASE Loop
    BY <2>1, <1>1, <1>2, <1>3 DEF Loop, AcceptFailed, HandshakeDone, Admit,
       Increment, IncrementLoad, IncrementStore, Decrement, DecrementLoad,
       DecrementStore, vars
  <2>2. CASE Deliver \/ Return \/ UNCHANGED vars \/ \E c \in Clients : ConnectRefused(c)
    BY <2>2, <1>3 DEF Deliver, Return, ConnectRefused, vars
  <2> QED
    BY <2>1, <2>2, <1>4, <1>5 DEF Next, Session

-----------------------------------------------------------------------------
(* The counter and the registers, between Accounting and Loss.             *)

LEMMA InitNumbers ==
  ASSUME ListenerAssumption, Init
  PROVE  Accounting /\ Loss
<1>1. Unreaped = {} /\ Storing = {}
  BY DEF Init, Unreaped, Storing, Live
<1>2. Cardinality(Unreaped) = 0 /\ Cardinality(Storing) = 0
  BY <1>1, FS_EmptySet
<1>3. MaxReq \in Nat
  BY DEF ListenerAssumption
<1> QED
  BY <1>1, <1>2, <1>3 DEF Init, Accounting, Loss, Taken, Missed, Pending,
     InFlight, InWindow

\* Fork, Reap, OrphanReaped, ThreadDecrement and ThreadStore
LEMMA SessionNumbers ==
  ASSUME ListenerAssumption, IInv,
         \/ Fork
         \/ \E c \in Clients : \/ Reap(c) \/ OrphanReaped(c)
                               \/ ThreadDecrement(c) \/ ThreadStore(c)
  PROVE  Accounting' /\ Loss'
<1> DEFINE N == Cardinality(Unreaped)
           S == Cardinality(Storing)
<1>t. /\ TypeOK /\ EachClosedOnce /\ Shape /\ Accounting /\ Loss
      /\ N \in Nat /\ S \in Nat /\ MaxReq \in Nat
      /\ races \in Nat /\ req_cnt \in Int /\ reg \in Int
      /\ \A c \in Clients : threadReg[c] \in Int
  BY SetsFinite DEF IInv, ListenerAssumption, TypeOK
<1>s. Storing = {} <=> S = 0
  BY StoringEmpty
<1>u. Storing \subseteq Clients
  BY DEF Storing
<1> USE <1>t DEF At, Close, loopVars, files, handlerVars, rest
<1>1. CASE Fork
  <2>1. N' = N + 1 /\ Storing' = Storing
    BY <1>1, UnreapedAdd DEF Fork, EachClosedOnce
  <2>2. /\ pc = "fork" /\ pc' = "accept"
        /\ UNCHANGED <<build, reg, req_cnt, threadReg, races>>
    BY <1>1 DEF Fork
  <2>3. Taken' = Taken /\ Pending' = Pending /\ Missed' = Missed
    BY <2>1, <2>2 DEF Taken, InFlight, Pending, Missed
  <2>4. Accounting'
    BY <2>1, <2>2, <2>3 DEF Accounting, InWindow
  <2>5. Loss'
    BY <2>1, <2>2, <2>3 DEF Loss, InWindow
  <2> QED
    BY <2>4, <2>5
<1>2. ASSUME NEW c \in Clients, Reap(c)
      PROVE  Accounting' /\ Loss'
  <2>1. N \in Nat \ {0} /\ N' = N - 1
    BY <1>2, UnreapedRemove DEF Reap, Live
  <2>2. ~build.threads /\ Storing = {} /\ Storing' = {}
    BY <1>2 DEF Reap, Shape, Storing, TypeOK, ConnStates
  <2>3. S = 0 /\ S' = 0
    BY <2>2, FS_EmptySet
  <2>4. /\ UNCHANGED <<build, pc, reg, threadReg>> /\ req_cnt' = req_cnt - 1
        /\ races' = IF InWindow THEN races + 1 ELSE races
    BY <1>2 DEF Reap, Overwritten
  <2>5. Accounting'
    BY <2>1, <2>2, <2>4 DEF Accounting, Taken, Missed, InFlight, InWindow
  <2>6. Loss'
    <3>1. pc # "dead"
      BY <1>2 DEF Reap, Shape
    <3>2. Taken \in Int /\ Taken' = Taken - 1
      BY <2>1, <2>4 DEF Taken, InFlight
    <3>3. Pending = (IF pc = "decstore" THEN 1 ELSE 0) /\ Pending' = Pending
      BY <2>3, <2>4 DEF Pending
    <3>4. /\ req_cnt <= Taken + races
          /\ pc = "decstore" => reg <= Taken + races
          /\ pc = "incstore" => reg <= Taken + races
          /\ IF InWindow THEN reg = Taken + races ELSE req_cnt = Taken + races
      BY <2>2, <3>1, <3>2, <3>3 DEF Loss
    <3>5. /\ req_cnt' <= Taken' + races'
          /\ pc' = "decstore" => reg' <= Taken' + races'
          /\ pc' = "incstore" => reg' <= Taken' + races'
          /\ IF InWindow' THEN reg' = Taken' + races' ELSE req_cnt' = Taken' + races'
      BY <2>4, <3>2, <3>4 DEF InWindow
    <3> QED
      BY <2>2, <2>4, <3>2, <3>3, <3>5 DEF Loss
  <2> QED
    BY <2>5, <2>6
<1>5. ASSUME NEW c \in Clients, OrphanReaped(c)
      PROVE  Accounting' /\ Loss'
  <2>1. N \in Nat \ {0} /\ N' = N - 1
    BY <1>5, UnreapedRemove DEF OrphanReaped, Live
  <2>2. Storing' \subseteq Storing
    BY <1>5 DEF OrphanReaped, Storing, TypeOK
  <2>3. /\ UNCHANGED <<build, pc, reg, req_cnt, threadReg, races>> /\ pc = "dead"
    BY <1>5 DEF OrphanReaped
  <2>4. \A d \in Storing : threadReg[d] \in Int
    BY <1>u
  <2>5. Accounting'
    BY <2>1, <2>2, <2>3, <2>4 DEF Accounting, Taken, Missed, InFlight, InWindow
  <2>6. Loss'
    BY <2>3 DEF Loss
  <2> QED
    BY <2>5, <2>6
<1>3. ASSUME NEW c \in Clients, ThreadDecrement(c)
      PROVE  Accounting' /\ Loss'
  <2>1. /\ N' = N /\ S' = S + 1 /\ Storing' = Storing \cup {c} /\ c \notin Storing
    BY <1>3, StoringAdd DEF ThreadDecrement
  <2>2. /\ build.threads
        /\ UNCHANGED <<build, pc, reg, req_cnt>>
        /\ threadReg'[c] = req_cnt
        /\ \A d \in Storing : threadReg'[d] = threadReg[d]
        /\ races' = IF InWindow \/ S > 0 THEN races + 1 ELSE races
    BY <1>3, <1>s, <1>u, <2>1 DEF ThreadDecrement, Race, TypeOK
  <2>3. \A d \in Storing : threadReg[d] \in Int
    BY <1>u
  <2>4. Accounting'
    BY <2>1, <2>2, <2>3 DEF Accounting, Taken, Missed, InFlight, InWindow
  <2>5. Loss'
    BY <1>s, <2>1, <2>2, <2>3 DEF Loss, Taken, Pending, InFlight, InWindow
  <2> QED
    BY <2>4, <2>5
<1>4. ASSUME NEW c \in Clients, ThreadStore(c)
      PROVE  Accounting' /\ Loss'
  <2>1. /\ N \in Nat \ {0} /\ N' = N - 1
        /\ S \in Nat \ {0} /\ S' = S - 1
        /\ c \in Storing /\ Storing' = Storing \ {c}
    BY <1>4, UnreapedRemove, StoringRemove DEF ThreadStore, Live
  <2>2. /\ build.threads
        /\ UNCHANGED <<build, pc, reg, threadReg, races>>
        /\ req_cnt' = threadReg[c] - 1
    BY <1>4, <2>1 DEF ThreadStore, Shape, TypeOK
  <2>3. \A d \in Storing : threadReg[d] \in Int
    BY <1>u
  <2>4. Accounting'
    BY <2>1, <2>2, <2>3 DEF Accounting, Taken, Missed, InFlight, InWindow
  <2>5. Loss'
    BY <2>1, <2>2, <2>3 DEF Loss, Taken, Pending, InFlight, InWindow
  <2> QED
    BY <2>4, <2>5
<1> QED
  BY <1>1, <1>2, <1>3, <1>4, <1>5

\* All other steps leave the sets as they are.
LEMMA OtherNumbers ==
  ASSUME ListenerAssumption, IInv, [Next]_vars, ~Fork,
         \A c \in Clients : /\ ~Reap(c) /\ ~OrphanReaped(c)
                            /\ ~ThreadDecrement(c) /\ ~ThreadStore(c)
  PROVE  Accounting' /\ Loss'
<1> DEFINE N == Cardinality(Unreaped)
           S == Cardinality(Storing)
<1>t. /\ TypeOK /\ Shape /\ Accounting /\ Loss
      /\ N \in Nat /\ S \in Nat /\ MaxReq \in Nat
      /\ races \in Nat /\ req_cnt \in Int /\ reg \in Int
  BY SetsFinite DEF IInv, ListenerAssumption, TypeOK
<1>s. Storing = {} <=> S = 0
  BY StoringEmpty
<1>u. Unreaped' = Unreaped /\ Storing' = Storing
  BY SetsStep DEF IInv, Frame
<1>r. \A c \in Storing : threadReg[c] \in Int
  BY <1>t DEF Storing, TypeOK
<1>p. ~build.threads => Storing = {}
  BY <1>t DEF Storing, Shape
<1> USE <1>t, <1>u DEF At, DropCur, Close, files, handlerVars, rest, Taken, Missed, Pending,
        InFlight, InWindow
<1>1. CASE Admit \/ Increment \/ IncrementLoad \/ IncrementStore
  <2>1. UNCHANGED <<build, threadReg>>
    BY <1>1 DEF Admit, Increment, IncrementLoad, IncrementStore
  <2>2. Accounting'
    <3>1. CASE Admit
      BY <1>r, <2>1, <3>1 DEF Accounting, Admit, Full
    <3>2. CASE Increment
      BY <1>r, <1>p, <2>1, <3>2 DEF Accounting, Increment, Shape
    <3>3. CASE IncrementLoad
      BY <1>r, <1>s, <1>p, <2>1, <3>3 DEF Accounting, IncrementLoad, Race
    <3>4. CASE IncrementStore
      BY <1>r, <2>1, <3>4 DEF Accounting, IncrementStore
    <3> QED
      BY <1>1, <3>1, <3>2, <3>3, <3>4
  <2>3. Loss'
    <3>1. CASE Admit
      BY <1>r, <2>1, <3>1 DEF Loss, Admit
    <3>2. CASE Increment
      BY <1>r, <2>1, <3>2 DEF Loss, Increment
    <3>3. CASE IncrementLoad
      BY <1>r, <1>s, <1>p, <2>1, <3>3 DEF Loss, IncrementLoad, Race, Shape
    <3>4. CASE IncrementStore
      BY <1>r, <2>1, <3>4 DEF Loss, IncrementStore
    <3> QED
      BY <1>1, <3>1, <3>2, <3>3, <3>4
  <2> QED
    BY <2>2, <2>3
<1>2. CASE Decrement \/ DecrementLoad \/ DecrementStore
  <2>1. UNCHANGED <<build, threadReg>>
    BY <1>2 DEF Decrement, DecrementLoad, DecrementStore
  <2>2. Accounting'
    <3>1. CASE Decrement
      BY <1>r, <2>1, <3>1 DEF Accounting, Decrement
    <3>2. CASE DecrementLoad
      BY <1>r, <1>s, <1>p, <2>1, <3>2 DEF Accounting, DecrementLoad, Race
    <3>3. CASE DecrementStore
      BY <1>r, <2>1, <3>3 DEF Accounting, DecrementStore
    <3> QED
      BY <1>2, <3>1, <3>2, <3>3
  <2>3. Loss'
    <3>1. CASE Decrement
      <4>1. ~build.threads /\ ~build.threads'
        BY <2>1, <3>1 DEF Decrement, Shape
      <4>2. Storing = {} /\ S = 0
        BY <1>s, <1>p, <4>1
      <4>3. pc = "dec" /\ pc' = "accept" /\ req_cnt' = req_cnt - 1 /\ races' = races
        BY <3>1 DEF Decrement
      <4> QED
        BY <4>1, <4>2, <4>3 DEF Loss
    <3>2. CASE DecrementLoad
      <4>1. CASE Storing = {}
        BY <1>s, <2>1, <3>2, <4>1 DEF Loss, DecrementLoad, Race
      <4>2. CASE Storing # {}
        <5>1. S > 0 /\ build.threads /\ races' = races + 1
          BY <1>s, <1>p, <3>2, <4>2 DEF DecrementLoad, Race
        <5> QED
          BY <1>r, <2>1, <3>2, <5>1 DEF Loss, DecrementLoad
      <4> QED
        BY <4>1, <4>2
    <3>3. CASE DecrementStore
      BY <1>r, <2>1, <3>3 DEF Loss, DecrementStore
    <3> QED
      BY <1>2, <3>1, <3>2, <3>3
  <2> QED
    BY <2>2, <2>3
<1>3. ASSUME /\ UNCHANGED <<build, reg, req_cnt, threadReg, races>>
             /\ \/ pc' = pc
                \/ /\ pc \notin {"inc", "incstore", "fork", "dec", "decstore", "dead"}
                   /\ pc' \notin {"inc", "incstore", "fork", "dec", "decstore", "dead"}
                \/ pc = "fork" /\ pc' = "dec"
      PROVE  Accounting' /\ Loss'
  <2>1. Accounting'
    BY <1>3, <1>r DEF Accounting
  <2>2. Loss'
    BY <1>3, <1>r DEF Loss
  <2> QED
    BY <2>1, <2>2
<1>4. CASE Loop
  <2>1. CASE \/ Accept \/ TimeoutNotSet \/ AcceptFailed \/ HandshakeDone \/ HandshakeFailed
             \/ PeerRejected \/ Refuse \/ ForkFailed
    BY <1>3, <2>1 DEF Accept, TimeoutNotSet, AcceptFailed, HandshakeDone, HandshakeFailed,
       PeerRejected, Refuse, ForkFailed, vars
  <2> QED
    BY <1>1, <1>2, <1>4, <2>1 DEF Loop
<1>5. CASE Deliver \/ Return \/ UNCHANGED vars \/ \E c \in Clients : ConnectRefused(c)
  BY <1>3, <1>5 DEF Deliver, Return, ConnectRefused, vars, loopVars
<1>7. CASE Killed
  <2>1. /\ pc \in {"handshake", "check", "fork"} /\ pc' = "dead"
        /\ UNCHANGED <<build, reg, req_cnt, threadReg, races>>
    BY <1>7 DEF Killed
  <2>2. Accounting'
    BY <1>r, <2>1 DEF Accounting
  <2>3. Loss'
    BY <2>1 DEF Loss
  <2> QED
    BY <2>2, <2>3
<1>6. ASSUME NEW c \in Clients, Connect(c) \/ SessionEnd(c)
      PROVE  Accounting' /\ Loss'
  BY <1>3, <1>6 DEF Connect, SessionEnd, loopVars
<1> QED
  BY <1>4, <1>5, <1>6, <1>7 DEF Next, Session

-----------------------------------------------------------------------------
(* The theorems.                                                           *)

\* Init and every step keep the inductive invariant, so it always holds.
LEMMA Inductive == Spec => []IInv
<1>1. Init => IInv
  BY InitFrame, InitNumbers, ListenerAssumption DEF IInv, Frame
<1>2. IInv /\ [Next]_vars => IInv'
  <2> SUFFICES ASSUME IInv, [Next]_vars
               PROVE  IInv'
    OBVIOUS
  <2>1. Frame'
    <3>1. Frame
      BY DEF IInv, Frame
    <3>2. CASE Loop
      BY <3>1, <3>2, LoopFrame, ListenerAssumption
    <3>3. CASE Deliver \/ Return \/ Killed \/ \E c \in Clients : Reap(c) \/ Session(c)
      BY <3>1, <3>3, EnvironmentFrame, ListenerAssumption
    <3>4. CASE UNCHANGED vars
      BY <3>1, <3>4 DEF vars, Frame, TypeOK, EachClosedOnce, Shape, InWindow
    <3> QED
      BY <3>2, <3>3, <3>4 DEF Next
  <2>2. Accounting' /\ Loss'
    BY SessionNumbers, OtherNumbers, ListenerAssumption
  <2> QED
    BY <2>1, <2>2 DEF IInv, Frame
<1> QED
  BY <1>1, <1>2, PTL DEF Spec

\* Every variable keeps its type: in particular neither the counter nor a
\* register ever passes the limit.
THEOREM TypeCorrect == Spec => []TypeOK
<1>1. IInv => TypeOK
  BY DEF IInv
<1> QED
  BY <1>1, Inductive, PTL

\* The counter covers the sessions in every interleaving with the handler,
\* and with threads but for one session per race.
THEOREM AccountingHolds == Spec => []Accounting
<1>1. IInv => Accounting
  BY DEF IInv
<1> QED
  BY <1>1, Inductive, PTL

\* The listener holds the connection in hand and one for every rejected
\* certificate, and serves none twice.
THEOREM EachClosedOnceHolds == Spec => []EachClosedOnce
<1>1. IInv => EachClosedOnce
  BY DEF IInv
<1> QED
  BY <1>1, Inductive, PTL

\* The numbers that every conclusion below rests on.
LEMMA Bounds ==
  ASSUME ListenerAssumption, IInv
  PROVE  /\ Cardinality(Unreaped) \in Nat /\ Taken \in Nat /\ Missed \in Nat
         /\ races \in Nat /\ req_cnt \in Int /\ req_cnt <= MaxReq /\ MaxReq \in Nat
         /\ Taken - Missed <= req_cnt
         /\ pc # "dead" => req_cnt <= Taken + races
         /\ Cardinality(Unreaped) <= Taken
BY SetsFinite DEF IInv, ListenerAssumption, TypeOK, Accounting, Loss, Taken,
   InFlight, Missed

\* At most MaxReq session processes exist, for every MaxReq and every number
\* of clients, although the counter is updated by separate loads and stores;
\* session threads exceed the limit by no more than the number of races.
THEOREM SessionLimitHolds == Spec => []SessionLimit
<1>1. IInv => SessionLimit
  BY Bounds, ListenerAssumption DEF SessionLimit
<1> QED
  BY <1>1, Inductive, PTL

\* While the listener lives a slot is lost only to a race, and a process
\* loses one to every race.
THEOREM CounterExactHolds == Spec => []CounterExact
<1>1. IInv => CounterExact
  <2> SUFFICES ASSUME IInv PROVE CounterExact
    OBVIOUS
  <2>1. pc # "dead" /\ races = 0 => req_cnt = Taken
    BY Bounds, ListenerAssumption DEF Missed
  <2>2. pc # "dead" /\ ~build.threads /\ ~InWindow => req_cnt = Taken + races
    BY DEF IInv, Loss
  <2> QED
    BY <2>1, <2>2, Bounds, ListenerAssumption DEF CounterExact
<1> QED
  BY <1>1, Inductive, PTL

\* The counter is too high only by the races, and too low only by the missed
\* increments of threads.
THEOREM CounterSoundHolds == Spec => []CounterSound
  BY AccountingHolds, CounterExactHolds, PTL DEF CounterSound

\* Without TLS a client is turned away only when MaxReq sessions, less the
\* slots lost to races, are unreaped, or fork() failed.
THEOREM RefusedOnlyWhenFullHolds == Spec => RefusedOnlyWhenFull
<1> DEFINE Plain == ~build.tls => pc \notin {"handshake", "hsfail"}
<1>1. Init => Plain
  BY DEF Init
<1>2. Plain /\ [Next]_vars => Plain'
  BY DEF Next, Loop, Accept, TimeoutNotSet, AcceptFailed, HandshakeDone, HandshakeFailed,
     PeerRejected, Refuse, Admit, Increment, IncrementLoad, IncrementStore,
     Fork, ForkFailed, Decrement, DecrementLoad, DecrementStore, Deliver,
     Return, Killed, Reap, Session, Connect, ConnectRefused, SessionEnd,
     OrphanReaped, ThreadDecrement, ThreadStore, At, DropCur, loopVars, rest, vars
<1>3. IInv /\ Plain /\ [Next]_vars
        => [\A c \in Clients :
              conn[c] = "accepted" /\ conn'[c] = "away" /\ pc # "fork" /\ ~build.tls
                => MaxReq - races <= Cardinality(Unreaped)]_vars
  <2> SUFFICES ASSUME IInv, Plain, [Next]_vars, NEW c \in Clients,
                      conn[c] = "accepted", conn'[c] = "away", pc # "fork",
                      ~build.tls
               PROVE  MaxReq - races <= Cardinality(Unreaped)
    OBVIOUS
  <2>1. TypeOK /\ EachClosedOnce
    BY DEF IInv
  <2>2. Refuse
    <3> USE <2>1 DEF At, DropCur, loopVars, files, handlerVars, rest, TypeOK, ConnStates
    <3>4. CASE TimeoutNotSet
      <4>1. /\ Head(backlog) \in Clients /\ Head(backlog) = backlog[1]
            /\ Len(backlog) \in Nat \ {0}
        BY <3>4, HeadTailProperties, EmptySeq DEF TimeoutNotSet
      <4>2. conn[Head(backlog)] = "queued"
        BY <4>1 DEF EachClosedOnce
      <4> QED
        BY <3>4, <4>1, <4>2 DEF TimeoutNotSet
    <3>1. CASE Loop
      BY <3>1, <3>4 DEF Loop, Accept, AcceptFailed, HandshakeDone, HandshakeFailed,
         PeerRejected, Admit, Increment, IncrementLoad, IncrementStore, Fork,
         ForkFailed, Decrement, DecrementLoad, DecrementStore, vars
    <3>2. CASE Deliver \/ Return \/ Killed \/ UNCHANGED vars
      BY <3>2 DEF Deliver, Return, Killed, vars
    <3>3. ASSUME NEW d \in Clients, Reap(d) \/ Session(d)
          PROVE  FALSE
      BY <3>3 DEF Reap, Session, Connect, ConnectRefused, SessionEnd,
         OrphanReaped, ThreadDecrement, ThreadStore, vars
    <3> QED
      BY <3>1, <3>2, <3>3 DEF Next
  <2> QED
    BY <2>2, Bounds, ListenerAssumption DEF Refuse, At, Full, Taken, InFlight
<1> QED
  BY <1>1, <1>2, <1>3, Inductive, PTL DEF Spec, RefusedOnlyWhenFull

-----------------------------------------------------------------------------
(* The refinement: a slot is taken when the counter has been incremented,  *)
(* and given back when it is decremented for the session or the start of   *)
(* the session failed.                                                     *)

Held == Unreaped \cup (IF pc = "fork" THEN {cur} ELSE {})

\* SessionSlots reads Cardinality from its own copy of FiniteSets.
LEMMA SlotsCardinality ==
  ASSUME NEW S
  PROVE  Slots!Cardinality(S) = Cardinality(S)
BY DEF Slots!Cardinality, Cardinality

\* Only loads that race, and the handler in a process, touch the history.
LEMMA RacesStep ==
  ASSUME IInv, [Next]_vars
  PROVE  \/ Missed' = Missed
         \/ /\ Missed' = Missed + 1
            /\ build.threads
            /\ IncrementLoad \/ DecrementLoad \/ \E c \in Clients : ThreadDecrement(c)
<1> USE DEF Missed, loopVars, files, handlerVars, rest
<1>1. CASE Loop
  BY <1>1 DEF Loop, Accept, TimeoutNotSet, AcceptFailed, HandshakeDone, HandshakeFailed,
     PeerRejected, Refuse, Admit, Increment, IncrementLoad, IncrementStore,
     Fork, ForkFailed, Decrement, DecrementLoad, DecrementStore, DropCur,
     Race, vars
<1>2. CASE Deliver \/ Return \/ Killed \/ UNCHANGED vars
  BY <1>2 DEF Deliver, Return, Killed, vars
<1>3. ASSUME NEW c \in Clients, Reap(c)
      PROVE  Missed' = Missed
  <2>1. ~build.threads
    BY <1>3 DEF Reap, IInv, Shape
  <2> QED
    BY <1>3, <2>1 DEF Reap
<1>4. ASSUME NEW c \in Clients,
             \/ Connect(c) \/ ConnectRefused(c) \/ SessionEnd(c)
             \/ OrphanReaped(c) \/ ThreadStore(c)
      PROVE  Missed' = Missed
  BY <1>4 DEF Connect, ConnectRefused, SessionEnd, OrphanReaped, ThreadStore, vars
<1>5. ASSUME NEW c \in Clients, ThreadDecrement(c)
      PROVE  Missed' = Missed \/ (Missed' = Missed + 1 /\ build.threads)
  BY <1>5 DEF ThreadDecrement, Race
<1> QED
  BY <1>1, <1>2, <1>3, <1>4, <1>5 DEF Next, Session

\* The listener implements the slots in every build.
THEOREM ImplementsSlots == Spec => RefinesSlots
<1>1. Init => Slots!SlotsInit
  BY DEF Init, Unreaped, Live, Missed, Slots!SlotsInit
<1>2. IInv /\ IInv' /\ [Next]_vars => [Slots!SlotsNext]_<<Held, Missed>>
  <2> SUFFICES ASSUME IInv, IInv', [Next]_vars
               PROVE  Slots!SlotsNext \/ (Held' = Held /\ Missed' = Missed)
    BY DEF Held
  <2>t. /\ TypeOK /\ EachClosedOnce /\ Accounting /\ Shape /\ Frame
        /\ IsFiniteSet(Unreaped) /\ Cardinality(Unreaped) \in Nat
        /\ MaxReq \in Nat /\ Missed \in Nat
    BY SetsFinite, Bounds, ListenerAssumption DEF IInv, Frame, ListenerAssumption
  <2> USE <2>t DEF At, loopVars, files, handlerVars, rest, Live
  <2>1. CASE Fork
    <3>1. Unreaped' = Unreaped \cup {cur}
      BY <2>1, UnreapedAdd, ListenerAssumption DEF Fork, EachClosedOnce
    <3> QED
      BY <2>1, <3>1 DEF Fork, Held, Missed
  <2>2. ASSUME NEW c \in Clients, Reap(c) \/ OrphanReaped(c) \/ ThreadStore(c)
        PROVE  Slots!SlotsNext
    <3>1. Unreaped' = Unreaped \ {c} /\ c \in Unreaped
      BY <2>2, UnreapedRemove, ListenerAssumption DEF Reap, OrphanReaped, ThreadStore
    <3>2. pc = "fork" => cur # c
      BY <2>2 DEF Reap, OrphanReaped, ThreadStore, EachClosedOnce
    <3>3. Missed' = Missed
      BY <2>2 DEF Reap, OrphanReaped, ThreadStore, Shape, Missed
    <3>4. Slots!Release(c)
      BY <2>2, <3>1, <3>2, <3>3 DEF Slots!Release, Reap, OrphanReaped, ThreadStore
    <3> QED
      BY <3>4 DEF Slots!SlotsNext
  <2>3. ASSUME IncrementLoad \/ DecrementLoad \/ \E c \in Clients : ThreadDecrement(c)
        PROVE  Slots!SlotsNext \/ (Held' = Held /\ Missed' = Missed)
    <3>1. Unreaped' = Unreaped
      <4>1. CASE IncrementLoad \/ DecrementLoad
        BY <4>1 DEF IncrementLoad, DecrementLoad, Unreaped
      <4>2. ASSUME NEW c \in Clients, ThreadDecrement(c)
            PROVE  Unreaped' = Unreaped
        BY <4>2, StoringAdd, ListenerAssumption DEF ThreadDecrement
      <4> QED
        BY <2>3, <4>1, <4>2
    <3>2. Held' = Held
      BY <2>3, <3>1 DEF IncrementLoad, DecrementLoad, ThreadDecrement, Held
    <3>3. Missed' = Missed \/ Missed' = Missed + 1
      BY RacesStep
    <3> QED
      BY <3>2, <3>3 DEF Slots!SlotsNext, Slots!Collide, Held
  <2>4. ASSUME ~Fork, ~IncrementLoad, ~DecrementLoad,
               \A c \in Clients : /\ ~Reap(c) /\ ~OrphanReaped(c)
                                  /\ ~ThreadDecrement(c) /\ ~ThreadStore(c)
        PROVE  Slots!SlotsNext \/ (Held' = Held /\ Missed' = Missed)
    <3>1. Unreaped' = Unreaped /\ Missed' = Missed
      BY <2>4, SetsStep, RacesStep, ListenerAssumption
    <3>2. CASE pc # "fork" /\ pc' = "fork"
      <4>1. Increment \/ IncrementStore
        BY <2>4, <3>2 DEF Next, Loop, Accept, TimeoutNotSet, AcceptFailed, HandshakeDone,
           HandshakeFailed, PeerRejected, Refuse, Admit, Fork, ForkFailed,
           Decrement, DecrementStore, Deliver, Return, Killed, Session,
           Connect, ConnectRefused, SessionEnd, DropCur, vars
      <4>2. cur \in Clients /\ cur' = cur /\ cur \notin Unreaped
        BY <4>1 DEF Increment, IncrementStore, EachClosedOnce, Unreaped
      <4>3. Cardinality(Unreaped) < MaxReq + Missed
        BY <4>1 DEF Increment, IncrementStore, Accounting
      <4>4. Held = Unreaped /\ Held' = Unreaped \cup {cur}
        BY <3>1, <3>2, <4>2 DEF Held
      <4>5. Slots!Acquire(cur)
        BY <3>1, <4>2, <4>3, <4>4, SlotsCardinality DEF Slots!Acquire, Held
      <4> QED
        BY <4>2, <4>5 DEF Slots!SlotsNext
    <3>3. CASE pc = "fork" /\ pc' # "fork"
      <4>1. ForkFailed \/ Killed
        BY <2>4, <3>3 DEF Next, Loop, Accept, TimeoutNotSet, AcceptFailed, HandshakeDone,
           HandshakeFailed, PeerRejected, Refuse, Admit, Increment,
           IncrementStore, Decrement, DecrementStore, Deliver, Return,
           Session, Connect, ConnectRefused, SessionEnd, DropCur, vars
      <4>2. cur \in Clients /\ cur \notin Unreaped
        BY <3>3, <4>1 DEF ForkFailed, EachClosedOnce, Unreaped
      <4>3. Slots!Release(cur)
        BY <3>1, <3>3, <4>2 DEF Slots!Release
      <4> QED
        BY <4>2, <4>3 DEF Slots!SlotsNext
    <3>4. CASE pc # "fork" /\ pc' # "fork"
      BY <3>1, <3>4 DEF Held
    <3>5. CASE pc = "fork" /\ pc' = "fork"
      <4>1. cur' = cur
        BY <2>4, <3>5 DEF Next, Loop, Accept, TimeoutNotSet, AcceptFailed, HandshakeDone,
           HandshakeFailed, PeerRejected, Refuse, Admit, Increment,
           IncrementStore, Fork, ForkFailed, Decrement, DecrementStore,
           Deliver, Return, Killed, Session, Connect, ConnectRefused,
           SessionEnd, DropCur, vars
      <4> QED
        BY <3>1, <3>5, <4>1 DEF Held
    <3> QED
      BY <3>2, <3>3, <3>4, <3>5
  <2> QED
    BY <2>1, <2>2, <2>3, <2>4
<1> QED
  BY <1>1, <1>2, Inductive, PTL DEF Spec, RefinesSlots, Slots!SlotsSpec,
     Slots!slotsVars, Held
=============================================================================
