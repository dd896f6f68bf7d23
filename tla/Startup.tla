------------------------------- MODULE Startup -------------------------------
(***************************************************************************)
(* Starting, restarting and stopping the server on Linux: main() and       *)
(* start_servers() of main.c, kill_other_processes() of                    *)
(* utils/kill_others.c, and the way to the port in clip_share() of         *)
(* servers/clip_share.c.                                                   *)
(*                                                                         *)
(* An instance is what one call of the program becomes: the main process,  *)
(* a listener, and the sessions the listener forks.  They all have the     *)
(* name of the program.  A restart or a stop walks /proc and sends each of *)
(* them a SIGTERM.                                                         *)
(*                                                                         *)
(* readdir() on /proc returns the processes by ascending number, and a     *)
(* process that was forked meanwhile when its number is still ahead.       *)
(* Numbers are not used twice here (the kernel wraps around at pid_max).   *)
(* The other children, for UDP, the web and the tray, are listeners        *)
(* without sessions to this module and are left out.                       *)
(***************************************************************************)
EXTENDS Naturals, FiniteSets, FiniteSetsExt

CONSTANTS Starters,   \* the calls of the program
          Modes,      \* starter -> its choice of "stop" (-s), "restart" (-r)
                      \* and "start" (-R)
          Daemonize,  \* the main process does not wait for its children
          Old,        \* the instance that runs already
          MaxForks    \* bound on the sessions forked

ASSUME StartupAssumption ==
  /\ IsFiniteSet(Starters) /\ Old \notin Starters
  /\ Modes \in [Starters -> SUBSET {"stop", "restart", "start"}]
  /\ \A i \in Starters : Modes[i] # {}
  /\ Daemonize \in BOOLEAN
  /\ MaxForks \in Nat

VARIABLES proc,     \* number -> [inst, role, pc], for the processes alive
          cursor,   \* number -> how far its walk of /proc is
          hit,      \* the processes that have signalled another one
          pending,  \* the processes with a SIGTERM to handle
          port,     \* the process whose socket listens on the port, or 0
          mode,     \* the starters called -> what they were called for
          forks,    \* sessions forked
          next,     \* the next number
          late,     \* history: a wait was over with a signal still to be handled
          met       \* history: two walks met, one signalled the process of the
                    \*   other

history == <<late, met>>
vars == <<proc, cursor, hit, pending, port, mode, forks, next, history>>

MaxPid == 1 + 2 * Cardinality(Starters) + MaxForks
Pids == 1..MaxPid
Nobody == 0

Alive == DOMAIN proc

New(i, r, label) == [inst |-> i, role |-> r, pc |-> label]
At(p, label) == p \in Alive /\ proc[p].pc = label
Goto(p, label) == proc' = [proc EXCEPT ![p].pc = label]
Without(P) == [q \in Alive \ P |-> proc[q]]
With(procs, p, x) == [q \in DOMAIN procs \cup {p} |-> IF q = p THEN x ELSE procs[q]]

\* fork() does not return to a process with a signal to handle
MayFork(p) == p \notin pending

\* a process ends and its sockets are closed
Gone(p) ==
  /\ port' = IF port = p THEN Nobody ELSE port
  /\ pending' = pending \ {p}

Init ==
  /\ proc = [p \in {1} |-> New(Old, "listener", "accept")]
  /\ cursor = [p \in Pids |-> 0]
  /\ hit = {} /\ pending = {}
  /\ port = 1
  /\ mode = <<>> /\ forks = 0 /\ next = 2
  /\ late = FALSE /\ met = FALSE

-----------------------------------------------------------------------------
(* The main process.                                                       *)

Begin(i) ==
  /\ i \notin DOMAIN mode
  /\ \E m \in Modes[i] :
       /\ mode' = With(mode, i, m)
       /\ proc' = With(proc, next, New(i, "main", IF m = "start" THEN "fork" ELSE "walk"))
  /\ next' = next + 1
  /\ UNCHANGED <<cursor, hit, pending, port, forks, history>>

Walking(p) == At(p, "walk") \/ At(p, "sleep")

Ahead(p) == {q \in Alive : q > cursor[p]}

\* the walk is over with the first process found
VisitBug(p) ==
  /\ At(p, "walk") /\ cursor[p] = 0 /\ Ahead(p) # {}
  /\ LET q == Min(Ahead(p))
     IN /\ cursor' = [cursor EXCEPT ![p] = MaxPid]
        /\ IF q = p
           THEN UNCHANGED <<hit, pending>>
           ELSE hit' = hit \cup {p} /\ pending' = pending \cup {q}
        /\ met' = (met \/ (q # p /\ Walking(q)))
  /\ UNCHANGED <<proc, port, mode, forks, next, late>>

\* readdir(), the name of the process, kill()
Visit(p) ==
  /\ At(p, "walk") /\ Ahead(p) # {}
  /\ LET q == Min(Ahead(p))
     IN /\ cursor' = [cursor EXCEPT ![p] = q]
        /\ IF q = p
           THEN UNCHANGED <<hit, pending>>
           ELSE hit' = hit \cup {p} /\ pending' = pending \cup {q}
        /\ met' = (met \/ (q # p /\ Walking(q)))
  /\ UNCHANGED <<proc, port, mode, forks, next, late>>

\* a stopping process goes on to start_servers()
AfterWalkBug(p) == Goto(p, "fork") /\ UNCHANGED <<port, pending>>

\* main() after kill_other_processes()
AfterWalk(p) ==
  IF mode[proc[p].inst] = "stop"
  THEN proc' = Without({p}) /\ Gone(p)
  ELSE Goto(p, "fork") /\ UNCHANGED <<port, pending>>

\* no wait after the signals
WalkEndsBug(p) ==
  /\ At(p, "walk") /\ Ahead(p) = {}
  /\ AfterWalk(p)
  /\ UNCHANGED <<cursor, hit, mode, forks, next, history>>

\* the end of /proc
WalkEnds(p) ==
  /\ At(p, "walk") /\ Ahead(p) = {}
  /\ IF p \in hit
     THEN Goto(p, "sleep") /\ UNCHANGED <<port, pending>>
     ELSE AfterWalk(p)
  /\ UNCHANGED <<cursor, hit, mode, forks, next, history>>

\* nanosleep() of 5 ms returns, whether the signals are handled by then or not
Wakes(p) ==
  /\ At(p, "sleep")
  /\ AfterWalk(p)
  /\ late' = (late \/ pending \ {p} # {})
  /\ UNCHANGED <<cursor, hit, mode, forks, next, met>>

\* start_servers()
ForkListener(p) ==
  /\ At(p, "fork") /\ MayFork(p)
  /\ LET child == New(proc[p].inst, "listener", "bind")
     IN proc' = With([proc EXCEPT ![p].pc = "wait"], next, child)
  /\ next' = next + 1
  /\ UNCHANGED <<cursor, hit, pending, port, mode, forks, history>>

\* waitpid(), or no wait, and the end of main()
MainEnds(p) ==
  /\ At(p, "wait")
  /\ Daemonize \/ \A q \in Alive : proc[q].inst = proc[p].inst => proc[q].role # "listener"
  /\ proc' = Without({p}) /\ Gone(p)
  /\ UNCHANGED <<cursor, hit, mode, forks, next, history>>

-----------------------------------------------------------------------------
(* The children.                                                           *)

\* bind() with SO_REUSEADDR fails while a socket listens on the port
Bind(p) ==
  /\ At(p, "bind")
  /\ IF port = Nobody
     THEN Goto(p, "listen") /\ UNCHANGED <<port, pending>>
     ELSE proc' = Without({p}) /\ Gone(p)
  /\ UNCHANGED <<cursor, hit, mode, forks, next, history>>

\* and so does listen(), for the later of two that are bound
Listen(p) ==
  /\ At(p, "listen")
  /\ IF port = Nobody
     THEN Goto(p, "accept") /\ port' = p /\ UNCHANGED pending
     ELSE proc' = Without({p}) /\ Gone(p)
  /\ UNCHANGED <<cursor, hit, mode, forks, next, history>>

\* a session for a client
Fork(p) ==
  /\ At(p, "accept") /\ MayFork(p) /\ forks < MaxForks
  /\ proc' = With(proc, next, New(proc[p].inst, "session", "serve"))
  /\ next' = next + 1 /\ forks' = forks + 1
  /\ UNCHANGED <<cursor, hit, pending, port, mode, history>>

\* a session ends
SessionEnds(p) ==
  /\ At(p, "serve")
  /\ proc' = Without({p}) /\ Gone(p)
  /\ UNCHANGED <<cursor, hit, mode, forks, next, history>>

\* exit_on_signal_handler()
Dies(p) ==
  /\ p \in pending
  /\ proc' = Without({p}) /\ Gone(p)
  /\ UNCHANGED <<cursor, hit, mode, forks, next, history>>

MainStep(p) == Visit(p) \/ WalkEnds(p) \/ Wakes(p) \/ ForkListener(p) \/ MainEnds(p)
ListenerStep(p) == Bind(p) \/ Listen(p)

Quiet == DOMAIN mode = Starters /\ UNCHANGED vars

Next ==
  \/ \E i \in Starters : Begin(i)
  \/ \E p \in Alive : MainStep(p) \/ ListenerStep(p) \/ Fork(p) \/ SessionEnds(p) \/ Dies(p)
  \/ Quiet

\* Every process runs, and handles its signals.  Clients need not come, and
\* sessions need not end: one that owns the X selection stays.
Fairness ==
  /\ \A i \in Starters : WF_vars(Begin(i))
  /\ \A p \in Pids : WF_vars(MainStep(p)) /\ WF_vars(ListenerStep(p)) /\ WF_vars(Dies(p))

Spec == Init /\ [][Next]_vars /\ Fairness

-----------------------------------------------------------------------------
(* Properties.                                                             *)

\* When the walk of a restart or a stop is over, every process that is left
\* of the other instances has been signalled, whatever was forked during the
\* walk.  kill_other_processes().
WalkMissesNobody ==
  [][\A p \in Alive :
       At(p, "walk") /\ ~At(p, "walk")' /\ p \notin pending
         => DOMAIN proc' \ {p} \subseteq pending']_vars

OldGone == \A p \in Alive : proc[p].inst # Old

Called(m) == \E i \in DOMAIN mode : mode[i] = m

\* A restart ends with the old instance gone, its sessions included, however
\* long the signals take, unless its walk met that of another restart or stop.
\* It ends with a server that listens on the port, unless besides the wait after
\* the signals was too short or a stop was called.  main(), start_servers().
RestartedServerRuns ==
  /\ Called("restart") ~> (met \/ []OldGone)
  /\ Called("restart") ~> (met \/ late \/ Called("stop") \/ [](port # Nobody))

\* A stop ends with the old instance gone, whatever it forked meanwhile and
\* however long the signals take, and does not become a server itself, unless
\* its walk met that of a restart.  main().
StopStops ==
  Called("stop") ~>
    (met \/ [](OldGone /\ \A p \in Alive : mode[proc[p].inst] # "stop"))
=============================================================================
