------------------------------ MODULE Listener ------------------------------
(***************************************************************************)
(* The accept loop of clip_share() in servers/clip_share.c.  On Linux and  *)
(* macOS one listener process forks a session process per client, counts   *)
(* the unreaped sessions in req_cnt and decrements the counter in its      *)
(* SIGCHLD handler.  On Windows a session is a thread, which decrements    *)
(* the counter itself at its end.  get_connection() of utils/net_utils.c   *)
(* is part of the loop: the TLS handshake runs in the listener.            *)
(*                                                                         *)
(* The handler interrupts the loop between any two machine instructions,   *)
(* and threads run beside it.  req_cnt is volatile: its loads and stores   *)
(* are atomic, `req_cnt++' and `req_cnt--' are not, and gcc compiles them  *)
(* to a load, an add and a store.                                          *)
(*                                                                         *)
(* The loop itself writes to a TLS client, in SSL_accept() and in          *)
(* SSL_shutdown(), and main.c leaves SIGPIPE alone: where there are        *)
(* signals, a client that has gone may end the listener.                   *)
(***************************************************************************)
EXTENDS Integers, Sequences, FiniteSets

CONSTANTS Clients,        \* the clients that may connect, again and again
          NoClient,       \* cur between two clients
          MaxReq,         \* the limit compared with req_cnt (64)
          FdLimit,        \* connections the loop can hold open
          Builds,         \* the builds considered, see below
          MaxRaces        \* bound: racing loads of the threads in a behaviour

(* A build has threads (Windows) or processes, is_secure set (tls) or not, *)
(* and req_cnt++ and req_cnt-- as one instruction (atomic) or several.     *)
(* One instruction is atomic to a signal handler, not to other threads.    *)
ASSUME ListenerAssumption ==
  /\ IsFiniteSet(Clients)
  /\ NoClient \notin Clients
  /\ MaxReq \in Nat \ {0}
  /\ FdLimit \in Nat \ {0}
  /\ Builds \subseteq [threads : BOOLEAN, tls : BOOLEAN, atomic : BOOLEAN]
  /\ \A b \in Builds : b.threads => ~b.atomic
  /\ MaxRaces \in Nat

VARIABLES build,       \* one of Builds, chosen at the start
          conn,        \* where each client's connection is
          backlog,     \* the kernel's accept queue, in arrival order
          pc,          \* the next statement of the accept loop
          cur,         \* the client whose connection is connect_sock
          reg,         \* the register of the loop req_cnt was loaded into
          req_cnt,     \* the counter the handler or the threads share
          sigchld,     \* a SIGCHLD is pending (signals do not queue)
          inHandler,   \* decrement_req_cnt is running; the loop is suspended
          fds,         \* connections the loop holds open
          rejected,    \* history: clients turned away for their certificate
          threadReg,   \* the register of each session thread
          races        \* history: updates made within another's load and store

vars == <<build, conn, backlog, pc, cur, reg, req_cnt, sigchld, inHandler,
          fds, rejected, threadReg, races>>

loopVars    == <<backlog, pc, cur, reg>>
handlerVars == <<sigchld, inHandler>>
rest        == <<build, threadReg>>    \* what the loop leaves alone
files       == <<fds, rejected>>

\* "zombie" is a process that has ended, or a thread past server(), before
\* the counter is decremented for it; "storing" a thread between its load
\* and its store, "lost" a connection that the end of the listener reset
ConnStates == {"away", "queued", "accepted", "serving", "zombie", "storing",
               "lost"}
Locations  == {"accept", "handshake", "hsfail", "check", "inc", "incstore",
               "fork", "dec", "decstore", "dead"}

TypeOK ==
  /\ build \in Builds
  /\ conn \in [Clients -> ConnStates]
  /\ backlog \in Seq(Clients)
  /\ pc \in Locations
  /\ cur \in Clients \cup {NoClient}
  /\ reg \in Int /\ reg <= MaxReq
  /\ req_cnt \in Int /\ req_cnt <= MaxReq
  /\ sigchld \in BOOLEAN
  /\ inHandler \in BOOLEAN
  /\ fds \in 0..FdLimit
  /\ rejected \in 0..FdLimit
  /\ threadReg \in [Clients -> {i \in Int : i <= MaxReq}]
  /\ races \in Nat

Live == {"serving", "zombie", "storing"}

\* the sessions whose end the counter does not show yet
Unreaped == {c \in Clients : conn[c] \in Live}

\* the threads that have loaded req_cnt and not yet stored it
Storing == {c \in Clients : conn[c] = "storing"}

\* the loop has loaded req_cnt and not yet stored it
InWindow == pc \in {"incstore", "decstore"}

Init ==
  /\ build \in Builds
  /\ conn = [c \in Clients |-> "away"]
  /\ backlog = <<>>
  /\ pc = "accept"
  /\ cur = NoClient
  /\ reg = 0
  /\ req_cnt = 0
  /\ sigchld = FALSE
  /\ inHandler = FALSE
  /\ fds = 0
  /\ rejected = 0
  /\ threadReg = [c \in Clients |-> 0]
  /\ races = 0

-----------------------------------------------------------------------------
(* The accept loop.  Each step runs only while the handler does not.       *)
(* Definitions whose name ends in `Bug' are mutations of the one that      *)
(* follows; no action uses them, the runs are shown to detect them.        *)

At(loc) == pc = loc /\ ~inHandler

\* the loop continues without connect_sock
DropCur ==
  /\ conn' = [conn EXCEPT ![cur] = "away"]
  /\ cur' = NoClient
  /\ pc' = "accept"

\* close_sock() of the connection
Close == fds' = fds - 1 /\ UNCHANGED rejected

\* accept() returns the oldest queued connection
Accept ==
  /\ At("accept")
  /\ backlog # <<>>
  /\ fds < FdLimit
  /\ cur' = Head(backlog)
  /\ backlog' = Tail(backlog)
  /\ conn' = [conn EXCEPT ![Head(backlog)] = "accepted"]
  /\ pc' = IF build.tls THEN "handshake" ELSE "check"
  /\ fds' = fds + 1
  /\ UNCHANGED <<reg, req_cnt, rejected, handlerVars, rest, races>>

\* accept(), then setsockopt() of a timeout fails: close_sock(connect_d)
TimeoutNotSet ==
  /\ At("accept")
  /\ backlog # <<>>
  /\ fds < FdLimit
  /\ backlog' = Tail(backlog)
  /\ conn' = [conn EXCEPT ![Head(backlog)] = "away"]
  /\ UNCHANGED <<pc, cur, reg, req_cnt, files, handlerVars, rest, races>>

\* with no free descriptor accept() fails at once and the loop spins
AcceptFailed ==
  /\ At("accept")
  /\ fds = FdLimit
  /\ UNCHANGED vars

\* SSL_accept() and check_peer_certs() succeed
HandshakeDone ==
  /\ At("handshake")
  /\ pc' = "check"
  /\ UNCHANGED <<conn, backlog, cur, reg, req_cnt, files, handlerVars, rest, races>>

\* the failed handshake returns without close_sock(connect_d)
HandshakeFailedBug ==
  /\ At("handshake") \/ At("hsfail")
  /\ DropCur
  /\ UNCHANGED <<backlog, reg, req_cnt, files, handlerVars, rest, races>>

\* SSL_set_fd() or SSL_accept() fails, times out or was interrupted:
\* close_sock(connect_d)
HandshakeFailed ==
  /\ At("handshake") \/ At("hsfail")
  /\ DropCur
  /\ Close
  /\ UNCHANGED <<backlog, reg, req_cnt, handlerVars, rest, races>>

\* check_peer_certs() fails: close_socket_no_wait(sock) returns at once, as
\* sock->type is still NULL_SOCK, and connect_d stays open for good
PeerRejected ==
  /\ At("handshake")
  /\ DropCur
  /\ rejected' = rejected + 1
  /\ UNCHANGED <<backlog, reg, req_cnt, fds, handlerVars, rest, races>>

\* `>' for `>='
FullBug == req_cnt > MaxReq

\* if (req_cnt >= 64)
Full == req_cnt >= MaxReq

\* waiting for a slot in place of refusing the client
RefuseBug == At("check") /\ Full /\ UNCHANGED vars

\* the connection is closed and the loop continues
Refuse ==
  /\ At("check")
  /\ Full
  /\ DropCur
  /\ Close
  /\ UNCHANGED <<backlog, reg, req_cnt, handlerVars, rest, races>>

Admit ==
  /\ At("check")
  /\ ~Full
  /\ pc' = "inc"
  /\ UNCHANGED <<conn, backlog, cur, reg, req_cnt, files, handlerVars, rest, races>>

\* A load of req_cnt while a thread or the loop is between its own load and
\* its store is a race: one of the two updates will be lost.
Race(open) ==
  /\ open => races < MaxRaces
  /\ races' = IF open THEN races + 1 ELSE races

\* req_cnt++ in one instruction
Increment ==
  /\ At("inc")
  /\ build.atomic
  /\ req_cnt' = req_cnt + 1
  /\ pc' = "fork"
  /\ UNCHANGED <<conn, backlog, cur, reg, files, handlerVars, rest, races>>

\* req_cnt++ in several, up to its load
IncrementLoad ==
  /\ At("inc")
  /\ ~build.atomic
  /\ reg' = req_cnt
  /\ pc' = "incstore"
  /\ Race(Storing # {})
  /\ UNCHANGED <<conn, backlog, cur, req_cnt, files, handlerVars, rest>>

IncrementStore ==
  /\ At("incstore")
  /\ req_cnt' = reg + 1
  /\ pc' = "fork"
  /\ UNCHANGED <<conn, backlog, cur, reg, files, handlerVars, rest, races>>

\* fork() or CreateThread() succeeds: the child or the thread serves the
\* client.  The parent closes its descriptor, a thread takes the loop's over.
Fork ==
  /\ At("fork")
  /\ conn' = [conn EXCEPT ![cur] = "serving"]
  /\ cur' = NoClient
  /\ pc' = "accept"
  /\ Close
  /\ UNCHANGED <<backlog, reg, req_cnt, handlerVars, rest, races>>

\* req_cnt is not decremented on failure
ForkFailedBug ==
  /\ At("fork")
  /\ DropCur
  /\ Close
  /\ UNCHANGED <<backlog, reg, req_cnt, handlerVars, rest, races>>

\* it fails: close_socket_no_wait(&connect_sock), then req_cnt--
ForkFailed ==
  /\ At("fork")
  /\ conn' = [conn EXCEPT ![cur] = "away"]
  /\ cur' = NoClient
  /\ pc' = "dec"
  /\ Close
  /\ UNCHANGED <<backlog, reg, req_cnt, handlerVars, rest, races>>

Decrement ==
  /\ At("dec")
  /\ build.atomic
  /\ req_cnt' = req_cnt - 1
  /\ pc' = "accept"
  /\ UNCHANGED <<conn, backlog, cur, reg, files, handlerVars, rest, races>>

DecrementLoad ==
  /\ At("dec")
  /\ ~build.atomic
  /\ reg' = req_cnt
  /\ pc' = "decstore"
  /\ Race(Storing # {})
  /\ UNCHANGED <<conn, backlog, cur, req_cnt, files, handlerVars, rest>>

DecrementStore ==
  /\ At("decstore")
  /\ req_cnt' = reg - 1
  /\ pc' = "accept"
  /\ UNCHANGED <<conn, backlog, cur, reg, files, handlerVars, rest, races>>

Loop ==
  \/ Accept
  \/ TimeoutNotSet
  \/ AcceptFailed
  \/ HandshakeDone
  \/ HandshakeFailed
  \/ PeerRejected
  \/ Refuse
  \/ Admit
  \/ Increment
  \/ IncrementLoad
  \/ IncrementStore
  \/ Fork
  \/ ForkFailed
  \/ Decrement
  \/ DecrementLoad
  \/ DecrementStore

-----------------------------------------------------------------------------
(* The SIGCHLD handler, decrement_req_cnt.  A thread sends no signal.      *)

\* The kernel delivers the pending signal.  A recv() of the handshake has a
\* timeout set, so it is not restarted: SSL_accept() then returns an error.
Deliver ==
  /\ sigchld
  /\ ~inHandler
  /\ pc # "dead"
  /\ sigchld' = FALSE
  /\ inHandler' = TRUE
  /\ pc' \in IF pc = "handshake" THEN {"handshake", "hsfail"} ELSE {pc}
  /\ UNCHANGED <<conn, backlog, cur, reg, req_cnt, files, rest, races>>

\* a decrement between a load and a store of the loop will be overwritten
Overwritten == races' = IF InWindow THEN races + 1 ELSE races

\* `if' for `while': one child per signal
ReapBug(c) ==
  /\ inHandler
  /\ conn[c] = "zombie"
  /\ conn' = [conn EXCEPT ![c] = "away"]
  /\ req_cnt' = req_cnt - 1
  /\ inHandler' = FALSE
  /\ Overwritten
  /\ UNCHANGED <<loopVars, sigchld, files, rest>>

\* one turn of `while (waitpid(-1, NULL, WNOHANG) > 0) req_cnt--'
Reap(c) ==
  /\ inHandler
  /\ conn[c] = "zombie"
  /\ conn' = [conn EXCEPT ![c] = "away"]
  /\ req_cnt' = req_cnt - 1
  /\ Overwritten
  /\ UNCHANGED <<loopVars, handlerVars, files, rest>>

\* `do req_cnt--; while' for `while'
ReturnBug ==
  /\ inHandler
  /\ \A c \in Clients : conn[c] # "zombie"
  /\ inHandler' = FALSE
  /\ req_cnt' = req_cnt - 1
  /\ UNCHANGED <<conn, loopVars, sigchld, files, rest, races>>

\* waitpid() finds no finished child: the handler returns
Return ==
  /\ inHandler
  /\ \A c \in Clients : conn[c] # "zombie"
  /\ inHandler' = FALSE
  /\ UNCHANGED <<conn, loopVars, req_cnt, sigchld, files, rest, races>>

-----------------------------------------------------------------------------
(* The clients, the session processes and the session threads.             *)

\* A write of SSL_accept(), or of the SSL_shutdown() of a client refused or
\* not forked for, meets a client that has gone: SIGPIPE ends the listener.
\* The kernel resets the connections it has and closes the port, which the
\* sessions, processes of their own, had closed already.
Killed ==
  /\ build.tls /\ ~build.threads
  /\ At("handshake") \/ (At("check") /\ Full) \/ At("fork")
  /\ pc' = "dead"
  /\ conn' = [c \in Clients |-> IF conn[c] \in {"queued", "accepted"}
                                THEN "lost" ELSE conn[c]]
  /\ cur' = NoClient
  /\ backlog' = <<>>
  /\ fds' = 0
  /\ UNCHANGED <<reg, req_cnt, rejected, handlerVars, rest, races>>

\* init waits for the sessions of a listener that has ended
OrphanReaped(c) ==
  /\ pc = "dead"
  /\ conn[c] = "zombie"
  /\ conn' = [conn EXCEPT ![c] = "away"]
  /\ UNCHANGED <<loopVars, req_cnt, files, handlerVars, rest, races>>

\* nobody listens
ConnectRefused(c) ==
  /\ pc = "dead"
  /\ conn[c] \in {"away", "lost"}
  /\ UNCHANGED vars

Connect(c) ==
  /\ pc # "dead"
  /\ conn[c] = "away"
  /\ conn' = [conn EXCEPT ![c] = "queued"]
  /\ backlog' = Append(backlog, c)
  /\ UNCHANGED <<pc, cur, reg, req_cnt, files, handlerVars, rest, races>>

\* the session process ends, normally or killed by a signal; a thread comes
\* back from server() and close_socket()
SessionEnd(c) ==
  /\ conn[c] = "serving"
  /\ conn' = [conn EXCEPT ![c] = "zombie"]
  /\ sigchld' = (sigchld \/ ~build.threads)
  /\ UNCHANGED <<loopVars, req_cnt, inHandler, files, rest, races>>

\* req_cnt-- of serverThreadFn, up to its load
ThreadDecrement(c) ==
  /\ build.threads
  /\ conn[c] = "zombie"
  /\ conn' = [conn EXCEPT ![c] = "storing"]
  /\ threadReg' = [threadReg EXCEPT ![c] = req_cnt]
  /\ Race(InWindow \/ Storing # {})
  /\ UNCHANGED <<build, loopVars, handlerVars, req_cnt, files>>

\* its store, and the end of the thread
ThreadStore(c) ==
  /\ conn[c] = "storing"
  /\ conn' = [conn EXCEPT ![c] = "away"]
  /\ req_cnt' = threadReg[c] - 1
  /\ UNCHANGED <<loopVars, handlerVars, files, rest, races>>

Session(c) ==
  \/ Connect(c)
  \/ ConnectRefused(c)
  \/ SessionEnd(c)
  \/ OrphanReaped(c)
  \/ ThreadDecrement(c)
  \/ ThreadStore(c)

Next ==
  \/ Loop
  \/ Deliver
  \/ Return
  \/ Killed
  \/ \E c \in Clients : Reap(c) \/ Session(c)

Spec == Init /\ [][Next]_vars

\* The scheduler runs the listener and its threads, signals are delivered
\* and init reaps its orphans.  Nothing is assumed of server(): a session that owns the
\* clipboard may never end.  A thread can always load req_cnt; it is the
\* bound MaxRaces that holds it back at times, hence SF.
Fairness ==
  /\ WF_vars(Loop)
  /\ WF_vars(Deliver)
  /\ WF_vars(Return)
  /\ \A c \in Clients : WF_vars(Reap(c)) /\ WF_vars(OrphanReaped(c))
  /\ \A c \in Clients : SF_vars(ThreadDecrement(c)) /\ WF_vars(ThreadStore(c))

FairSpec == Spec /\ Fairness

-----------------------------------------------------------------------------
(* Properties.                                                             *)

\* the slot the loop holds for the client it is about to start a session
\* for, or has not given back yet after a failure
InFlight == IF pc \in {"fork", "dec", "decstore"} THEN 1 ELSE 0

\* what the counter should be
Taken == Cardinality(Unreaped) + InFlight

\* Updates lost for good, where a lost increment can happen: with processes
\* only the loop increments, and the handler runs to its end.
Missed == IF build.threads THEN races ELSE 0

\* However the handler interrupts the loop, at most MaxReq session processes
\* exist, finished but unreaped ones included: the limit of 64 holds even
\* though req_cnt++ and req_cnt-- are not atomic.  With threads the limit
\* gives way by at most one session for each race of two updates.
SessionLimit == Cardinality(Unreaped) <= MaxReq + Missed

\* Why it holds: the counter never falls below the sessions it stands for,
\* but for lost increments.  A decrement the handler makes between a load
\* and a store is overwritten, which can only leave the counter too high; a
\* register is as safe a bound as the counter while it waits to be stored,
\* and safer by one if an increment is about to be stored beside it.
Accounting ==
  /\ Taken - Missed <= req_cnt
  /\ pc \in {"inc", "incstore"} => Cardinality(Unreaped) < MaxReq + Missed
  /\ InWindow => Taken - Missed <= reg
  /\ \A c \in Storing :
       Taken - Missed + (IF pc = "incstore" THEN 1 ELSE 0) <= threadReg[c]

\* No connection is served twice, dropped unclosed or closed twice, but for
\* the one leak that the code has: the loop holds open the connection in
\* hand between accept() and fork(), one more for good for every client it
\* turned away for its certificate, and nothing else.  Each queued
\* connection waits in the backlog once.
EachClosedOnce ==
  /\ IF pc \in {"accept", "dec", "decstore", "dead"}
     THEN cur = NoClient
     ELSE cur \in Clients /\ conn[cur] = "accepted"
  /\ \A c \in Clients : conn[c] = "accepted" => c = cur
  /\ pc # "dead" => fds = rejected + (IF cur = NoClient THEN 0 ELSE 1)
  /\ \A i \in 1..Len(backlog) : conn[backlog[i]] = "queued"
  /\ \A i, j \in 1..Len(backlog) : backlog[i] = backlog[j] => i = j

\* While the listener lives, slots are lost only to races, one to each: a
\* counter that was never
\* updated in the middle of another update is exact, a process build is too
\* high by exactly the decrements that its handler made there, and threads
\* leave it too high by no more than that.
CounterExact == pc # "dead" =>
  /\ req_cnt <= Taken + races
  /\ ~build.threads /\ ~InWindow => req_cnt = Taken + races
  /\ races = 0 => req_cnt = Taken

\* The counter is never too low, and too high only by what the races explain.
CounterSound == Accounting /\ CounterExact

\* Without TLS the loop turns a client it has taken on away only if MaxReq
\* sessions are unreaped at that moment, less the slots that races have
\* lost, or if fork() failed.  (A setsockopt() that fails drops the client
\* before get_connection() hands it over.)
RefusedOnlyWhenFull ==
  [][\A c \in Clients :
       conn[c] = "accepted" /\ conn'[c] = "away" /\ pc # "fork" /\ ~build.tls
         => MaxReq - races <= Cardinality(Unreaped)]_vars

\* Every finished session is waited for although signals coalesce, as the
\* handler loops until waitpid() finds no child, or by init when it has
\* outlived the listener; every thread gives its slot back.
ZombiesReaped ==
  \A c \in Clients : conn[c] = "zombie" ~> conn[c] = "away"

\* Without TLS every client that connects is answered, served or turned
\* away.  With TLS there are two exceptions: rejected certificates have used
\* up the descriptors, or a client that went away has ended the listener.
Answered ==
  \A c \in Clients :
    conn[c] = "queued" ~>
      \/ conn[c] \notin {"queued", "lost"}
      \/ build.tls /\ (rejected = FdLimit \/ pc = "dead")

\* Processes and threads implement the slots: a slot is taken when the
\* counter is stored, and given back when it is decremented for the session
\* or the fork failed.  Only the races of threads add slots.
Slots == INSTANCE SessionSlots WITH
  holders <- Unreaped \cup (IF pc = "fork" THEN {cur} ELSE {}),
  extra <- Missed
RefinesSlots == Slots!SlotsSpec
=============================================================================
