---------------------------- MODULE StartupProofs ----------------------------
(***************************************************************************)
(* Proofs about Startup for every set of calls of the program, every mode  *)
(* they are made in, every number of sessions, and whether signalled       *)
(* processes are quick or not.                                             *)
(***************************************************************************)
EXTENDS Startup, FiniteSetTheorems, WellFoundedInduction, TLAPS

Roles == {"main", "listener", "session"}
Labels == {"walk", "sleep", "fork", "wait", "bind", "listen", "accept", "serve"}
Process == [inst : Starters \cup {Old}, role : Roles, pc : Labels]

\* the main processes that have yet to fork a listener
Unforked == {p \in Alive : proc[p].pc \in {"walk", "sleep", "fork"}}

\* The processes alive have numbers that were given, no walk is ahead of
\* them, and only processes alive have a signal to handle.
Typed ==
  /\ next \in Nat \ {0} /\ forks \in 0..MaxForks
  /\ Alive \subseteq 1..(next - 1)
  /\ \A p \in Alive : proc[p] \in Process
  /\ cursor \in [Pids -> Nat] /\ \A p \in Pids : cursor[p] < next
  /\ \A p \in Pids : p >= next => cursor[p] = 0
  /\ pending \subseteq Alive
  /\ DOMAIN mode \subseteq Starters

\* Each call of the program gives two numbers, that of its main process and
\* that of the listener, and each session one: MaxPid suffices.
Numbered ==
  next + Cardinality(Unforked) <= 2 + 2 * Cardinality(DOMAIN mode) + forks

\* What a walk has passed is signalled: a process that was forked meanwhile
\* has a number that is still ahead.
PassedAreSignalled ==
  \A p \in Alive : At(p, "walk") =>
    \A q \in Alive \ {p} : q <= cursor[p] => q \in pending

\* the inductive invariant
IInv == Typed /\ Numbered /\ PassedAreSignalled

-----------------------------------------------------------------------------
\* The least of the numbers that a walk has yet to visit exists.
LEMMA MinProperties ==
  ASSUME NEW S \in SUBSET Nat, S # {}
  PROVE  Min(S) \in S /\ \A x \in S : Min(S) <= x
<1> DEFINE R == {ss \in Nat \X Nat : ss[1] < ss[2]}
<1>1. IsWellFoundedOn(R, Nat)
  BY NatLessThanWellFounded DEF OpToRel
<1>2. \E x \in S : \A y \in S : <<y, x>> \notin R
  <2> HIDE DEF R
  <2> QED
    BY <1>1, WFMin
<1>3. \E x \in S : \A y \in S : x <= y
  <2>1. PICK x \in S : \A y \in S : <<y, x>> \notin R
    BY <1>2
  <2>2. \A y \in S : ~ (y < x)
    BY <2>1
  <2> QED
    BY <2>2
<1> QED
  BY <1>3 DEF Min

\* The sets that are counted are finite.
LEMMA CountsFinite ==
  ASSUME StartupAssumption, Typed
  PROVE  /\ IsFiniteSet(Unforked) /\ Cardinality(Unforked) \in Nat
         /\ IsFiniteSet(DOMAIN mode) /\ Cardinality(DOMAIN mode) \in Nat
         /\ Cardinality(Starters) \in Nat
         /\ Cardinality(DOMAIN mode) <= Cardinality(Starters)
<1>1. IsFiniteSet(1..(next - 1))
  BY FS_Interval DEF Typed
<1>2. Unforked \subseteq 1..(next - 1)
  BY DEF Unforked, Typed
<1>3. DOMAIN mode \subseteq Starters /\ IsFiniteSet(Starters)
  BY DEF Typed, StartupAssumption
<1>4. IsFiniteSet(Unforked) /\ IsFiniteSet(DOMAIN mode)
  BY <1>1, <1>2, <1>3, FS_Subset
<1> QED
  BY <1>3, <1>4, FS_Subset, FS_CardinalityType

\* Every number that is given lies in Pids.
LEMMA NumbersSuffice ==
  ASSUME StartupAssumption, Typed, Numbered
  PROVE  /\ next - 1 <= MaxPid /\ MaxPid \in Nat
         /\ Alive \subseteq Pids
<1>1. /\ Cardinality(Unforked) \in Nat /\ Cardinality(DOMAIN mode) \in Nat
      /\ Cardinality(Starters) \in Nat
      /\ Cardinality(DOMAIN mode) <= Cardinality(Starters)
  BY CountsFinite
<1>2. /\ next \in Nat /\ forks \in 0..MaxForks /\ MaxForks \in Nat
      /\ Alive \subseteq 1..(next - 1)
  BY DEF Typed, StartupAssumption
<1>3. next - 1 <= MaxPid /\ MaxPid \in Nat
  BY <1>1, <1>2 DEF Numbered, MaxPid
<1> QED
  BY <1>2, <1>3 DEF Pids

-----------------------------------------------------------------------------
(* The steps.                                                              *)

\* A process ends.
LEMMA EndStep ==
  ASSUME StartupAssumption, IInv, NEW p \in Alive,
         proc' = Without({p}), pending' = pending \ {p},
         UNCHANGED <<cursor, mode, forks, next>>
  PROVE  IInv'
<1>1. Alive' = Alive \ {p} /\ \A q \in Alive' : proc'[q] = proc[q]
  BY DEF Alive, Without
<1>2. Typed'
  BY <1>1 DEF IInv, Typed, Alive
<1>3. Numbered'
  <2>1. Unforked' \subseteq Unforked
    BY <1>1 DEF Unforked, Alive
  <2>2. Cardinality(Unforked') <= Cardinality(Unforked) /\ Cardinality(Unforked') \in Nat
    BY <2>1, CountsFinite, FS_Subset, FS_CardinalityType DEF IInv
  <2> QED
    BY <2>2, CountsFinite DEF IInv, Numbered, Typed
<1>4. PassedAreSignalled'
  BY <1>1 DEF IInv, PassedAreSignalled, At, Alive
<1> QED
  BY <1>2, <1>3, <1>4 DEF IInv

\* A process goes on: none begins a walk, and none returns to before its fork.
LEMMA GotoStep ==
  ASSUME StartupAssumption, IInv, NEW p \in Alive, NEW label \in Labels \ {"walk"},
         label \in {"sleep", "fork"} => p \in Unforked,
         Goto(p, label), UNCHANGED <<cursor, pending, mode, forks, next>>
  PROVE  IInv'
<1>1. /\ Alive' = Alive /\ \A q \in Alive \ {p} : proc'[q] = proc[q]
      /\ proc'[p] = [proc[p] EXCEPT !.pc = label]
  BY DEF Alive, Goto
<1>2. /\ proc'[p].pc = label
      /\ proc'[p] \in Process
  <2>1. proc[p] \in Process
    BY DEF IInv, Typed
  <2> QED
    BY <1>1, <2>1 DEF Process
<1>3. Typed'
  <2>1. \A q \in Alive' : proc'[q] \in Process
    BY <1>1, <1>2 DEF IInv, Typed
  <2> QED
    BY <1>1, <2>1 DEF IInv, Typed, Alive
<1>4. Numbered'
  <2>1. Unforked' \subseteq Unforked
    BY <1>1, <1>2 DEF Unforked, Alive
  <2>2. Cardinality(Unforked') <= Cardinality(Unforked) /\ Cardinality(Unforked') \in Nat
    BY <2>1, CountsFinite, FS_Subset, FS_CardinalityType DEF IInv
  <2> QED
    BY <2>2, CountsFinite DEF IInv, Numbered, Typed
<1>5. PassedAreSignalled'
  BY <1>1, <1>2 DEF IInv, PassedAreSignalled, At, Alive
<1> QED
  BY <1>3, <1>4, <1>5 DEF IInv

\* A process is forked: its number is ahead of every walk.
LEMMA NewStep ==
  ASSUME StartupAssumption, IInv,
         NEW x \in Process,
         Alive' = Alive \cup {next}, proc'[next] = x,
         \A q \in Alive : /\ proc'[q] \in Process
                          /\ proc'[q].pc = "walk" => proc[q].pc = "walk",
         next' = next + 1, forks' \in 0..MaxForks, DOMAIN mode' \subseteq Starters,
         UNCHANGED <<cursor, pending>>,
         Numbered'
  PROVE  IInv'
<1>1. /\ next \in Nat \ {0} /\ Alive \subseteq 1..(next - 1) /\ next \notin Alive
      /\ next' = next + 1
      /\ cursor \in [Pids -> Nat] /\ \A q \in Pids : cursor[q] < next
      /\ \A q \in Pids : q >= next => cursor[q] = 0
      /\ pending \subseteq Alive
  BY DEF IInv, Typed
<1>2. Typed'
  <2>1. \A q \in Alive' : proc'[q] \in Process
    OBVIOUS
  <2>2. Alive' \subseteq 1..(next' - 1)
    BY <1>1
  <2>3. Pids' = Pids
    BY DEF Pids, MaxPid
  <2>4. \A q \in Pids : cursor[q] < next' /\ (q >= next' => cursor[q] = 0)
    <3>1. Pids \subseteq Nat
      BY NumbersSuffice DEF Pids, IInv
    <3> QED
      BY <1>1, <3>1
  <2> QED
    BY <1>1, <2>1, <2>2, <2>3, <2>4 DEF Typed
<1>3. next \in Pids /\ Alive \subseteq Pids /\ cursor[next] = 0
  <2>1. next' - 1 <= MaxPid' /\ MaxPid' \in Nat /\ MaxPid' = MaxPid
    <3>1. Typed' /\ Numbered' => next' - 1 <= MaxPid' /\ MaxPid' \in Nat
      <4>1. /\ Cardinality(Unforked') \in Nat /\ Cardinality(DOMAIN mode') \in Nat
            /\ Cardinality(Starters) \in Nat
            /\ Cardinality(DOMAIN mode') <= Cardinality(Starters)
        <5>1. IsFiniteSet(1..next) /\ Unforked' \subseteq 1..next
          <6>1. Unforked' \subseteq Alive'
            BY DEF Unforked, Alive
          <6>2. Alive' \subseteq 1..next
            BY <1>1
          <6>3. IsFiniteSet(1..next)
            BY <1>1, FS_Interval
          <6> QED
            BY <6>1, <6>2, <6>3
        <5>2. IsFiniteSet(Starters) /\ DOMAIN mode' \subseteq Starters
          BY DEF StartupAssumption
        <5>3. IsFiniteSet(Unforked') /\ Cardinality(Unforked') \in Nat
          BY <5>1, FS_Subset, FS_CardinalityType
        <5>4. IsFiniteSet(DOMAIN mode') /\ Cardinality(DOMAIN mode') <= Cardinality(Starters)
          BY <5>2, FS_Subset
        <5>5. Cardinality(DOMAIN mode') \in Nat /\ Cardinality(Starters) \in Nat
          BY <5>2, <5>4, FS_CardinalityType
        <5> QED
          BY <5>3, <5>4, <5>5
      <4>2. forks' \in 0..MaxForks /\ MaxForks \in Nat /\ next' \in Nat
        BY <1>1 DEF StartupAssumption
      <4> QED
        BY <4>1, <4>2 DEF Numbered, MaxPid
    <3> QED
      BY <1>2, <3>1 DEF MaxPid
  <2> QED
    BY <1>1, <2>1, NumbersSuffice DEF Pids, IInv
<1>4. PassedAreSignalled'
  <2> SUFFICES ASSUME NEW q \in Alive', At(q, "walk")', NEW r \in Alive' \ {q},
                      r <= cursor'[q]
               PROVE  r \in pending'
    BY DEF PassedAreSignalled
  <2>1. CASE q = next
    BY <1>1, <1>3, <2>1
  <2>2. CASE q # next
    <3>1. q \in Alive /\ At(q, "walk")
      BY <2>2 DEF At
    <3>2. r # next
      BY <1>1, <1>3, <3>1
    <3> QED
      BY <3>1, <3>2 DEF IInv, PassedAreSignalled
  <2> QED
    BY <2>1, <2>2
<1> QED
  BY <1>2, <1>4 DEF IInv

\* The first number ahead of a walk is visited: all before it are signalled.
LEMMA VisitStep ==
  ASSUME StartupAssumption, IInv, NEW p \in Alive, Visit(p)
  PROVE  IInv'
<1> DEFINE q == Min(Ahead(p))
<1>1. /\ next \in Nat \ {0} /\ Alive \subseteq 1..(next - 1) /\ Alive \subseteq Pids
      /\ cursor \in [Pids -> Nat] /\ \A r \in Pids : cursor[r] < next
      /\ \A r \in Pids : r >= next => cursor[r] = 0
      /\ pending \subseteq Alive /\ Alive \subseteq Nat
  BY NumbersSuffice DEF IInv, Typed
<1>2. q \in Ahead(p) /\ \A r \in Ahead(p) : q <= r
  <2>1. Ahead(p) \in SUBSET Nat /\ Ahead(p) # {}
    BY <1>1 DEF Ahead, Visit
  <2> QED
    BY <2>1, MinProperties
<1>3. q \in Alive /\ q > cursor[p] /\ \A r \in Alive : r > cursor[p] => q <= r
  BY <1>2 DEF Ahead
<1>4. /\ cursor' = [cursor EXCEPT ![p] = q]
      /\ pending' = IF q = p THEN pending ELSE pending \cup {q}
      /\ UNCHANGED <<proc, port, mode, forks, next>>
  BY DEF Visit
<1> HIDE DEF q
<1>5. Alive' = Alive /\ Pids' = Pids
  BY <1>4 DEF Alive, Pids, MaxPid
<1>6. Typed'
  BY <1>1, <1>3, <1>4, <1>5 DEF IInv, Typed
<1>7. Numbered'
  BY <1>4 DEF IInv, Numbered, Unforked, Alive
<1>8. PassedAreSignalled'
  <2> SUFFICES ASSUME NEW r \in Alive', At(r, "walk")', NEW t \in Alive' \ {r},
                      t <= cursor'[r]
               PROVE  t \in pending'
    BY DEF PassedAreSignalled
  <2>1. r \in Alive /\ At(r, "walk") /\ t \in Alive \ {r}
    BY <1>4, <1>5 DEF At
  <2>2. CASE r = p
    <3>1. cursor'[r] = q /\ t \in Nat /\ cursor[p] \in Nat /\ q \in Nat
      BY <1>1, <1>3, <1>4, <2>1, <2>2
    <3>2. CASE t <= cursor[p]
      BY <1>4, <2>1, <2>2, <3>2 DEF IInv, PassedAreSignalled
    <3>3. CASE t > cursor[p]
      <4>1. t = q
        BY <1>3, <2>1, <3>1, <3>3
      <4> QED
        BY <1>4, <2>1, <2>2, <4>1
    <3> QED
      BY <3>1, <3>2, <3>3
  <2>3. CASE r # p
    BY <1>1, <1>4, <2>1, <2>3 DEF IInv, PassedAreSignalled
  <2> QED
    BY <2>2, <2>3
<1> QED
  BY <1>6, <1>7, <1>8 DEF IInv

\* A call of the program takes a number and reserves one for its listener.
LEMMA BeginStep ==
  ASSUME StartupAssumption, IInv, NEW i \in Starters, Begin(i)
  PROVE  IInv'
<1>1. PICK m \in Modes[i] :
        /\ mode' = With(mode, i, m)
        /\ proc' = With(proc, next, New(i, "main", IF m = "start" THEN "fork" ELSE "walk"))
  BY DEF Begin
<1> DEFINE x == New(i, "main", IF m = "start" THEN "fork" ELSE "walk")
<1>2. /\ next' = next + 1 /\ UNCHANGED <<cursor, hit, pending, port, forks, history>>
      /\ i \notin DOMAIN mode
  BY DEF Begin
<1>3. /\ next \in Nat \ {0} /\ Alive \subseteq 1..(next - 1) /\ next \notin Alive
      /\ forks \in 0..MaxForks /\ DOMAIN mode \subseteq Starters
  BY DEF IInv, Typed
<1>4. x \in Process
  BY DEF New, Process, Roles, Labels
<1>5. x.pc \in {"fork", "walk"} /\ proc' = With(proc, next, x)
  BY <1>1 DEF New
<1> HIDE DEF x
<1>6. /\ Alive' = Alive \cup {next} /\ proc'[next] = x
      /\ \A q \in Alive : proc'[q] = proc[q]
  BY <1>3, <1>5 DEF Alive, With
<1>7. DOMAIN mode' = DOMAIN mode \cup {i}
  BY <1>1 DEF With
<1>8. Numbered'
  <2>1. Unforked' = Unforked \cup {next} /\ next \notin Unforked
    BY <1>3, <1>5, <1>6 DEF Unforked, Alive
  <2>2. Cardinality(Unforked') = Cardinality(Unforked) + 1
    BY <2>1, CountsFinite, FS_AddElement DEF IInv
  <2>3. Cardinality(DOMAIN mode') = Cardinality(DOMAIN mode) + 1
    BY <1>2, <1>7, CountsFinite, FS_AddElement DEF IInv
  <2> QED
    BY <1>2, <1>3, <2>2, <2>3, CountsFinite DEF IInv, Numbered
<1>9. \A q \in Alive : proc'[q] \in Process
  BY <1>6 DEF IInv, Typed
<1> QED
  BY <1>2, <1>3, <1>4, <1>6, <1>7, <1>8, <1>9, NewStep

\* The main process forks its listener, once.
LEMMA ForkListenerStep ==
  ASSUME StartupAssumption, IInv, NEW p \in Alive, ForkListener(p)
  PROVE  IInv'
<1> DEFINE child == New(proc[p].inst, "listener", "bind")
           waiting == [proc EXCEPT ![p].pc = "wait"]
<1>1. /\ proc' = With(waiting, next, child) /\ next' = next + 1
      /\ UNCHANGED <<cursor, hit, pending, port, mode, forks, history>>
      /\ proc[p].pc = "fork"
  BY DEF ForkListener, At
<1>2. /\ next \in Nat \ {0} /\ Alive \subseteq 1..(next - 1) /\ next \notin Alive
      /\ forks \in 0..MaxForks /\ DOMAIN mode \subseteq Starters
      /\ \A q \in Alive : proc[q] \in Process
  BY DEF IInv, Typed
<1>3. child \in Process /\ child.pc = "bind"
  BY <1>2 DEF New, Process, Roles, Labels
<1>4. /\ DOMAIN waiting = Alive /\ \A q \in Alive \ {p} : waiting[q] = proc[q]
      /\ waiting[p].pc = "wait"
      /\ waiting[p] \in Process
  <2>1. waiting[p] = [proc[p] EXCEPT !.pc = "wait"]
    BY DEF Alive
  <2> QED
    BY <1>2, <2>1 DEF Alive, Process, Labels
<1> HIDE DEF child, waiting
<1>5. /\ Alive' = Alive \cup {next} /\ proc'[next] = child
      /\ \A q \in Alive : proc'[q] = waiting[q]
  BY <1>1, <1>2, <1>4 DEF Alive, With
<1>6. \A q \in Alive : /\ proc'[q] \in Process
                       /\ proc'[q].pc = "walk" => proc[q].pc = "walk"
  BY <1>2, <1>4, <1>5
<1>7. Numbered'
  <2>1. Unforked' = Unforked \ {p} /\ p \in Unforked
    BY <1>1, <1>2, <1>3, <1>4, <1>5 DEF Unforked, Alive
  <2>2. Cardinality(Unforked') = Cardinality(Unforked) - 1
    BY <2>1, CountsFinite, FS_RemoveElement DEF IInv
  <2> QED
    BY <1>1, <1>2, <2>2, CountsFinite DEF IInv, Numbered
<1> QED
  BY <1>1, <1>2, <1>3, <1>5, <1>6, <1>7, NewStep

\* A listener forks a session.
LEMMA ForkStep ==
  ASSUME StartupAssumption, IInv, NEW p \in Alive, Fork(p)
  PROVE  IInv'
<1> DEFINE child == New(proc[p].inst, "session", "serve")
<1>1. /\ proc' = With(proc, next, child) /\ next' = next + 1 /\ forks' = forks + 1
      /\ forks < MaxForks /\ UNCHANGED <<cursor, hit, pending, port, mode, history>>
  BY DEF Fork
<1>2. /\ next \in Nat \ {0} /\ Alive \subseteq 1..(next - 1) /\ next \notin Alive
      /\ forks \in 0..MaxForks /\ MaxForks \in Nat /\ DOMAIN mode \subseteq Starters
      /\ \A q \in Alive : proc[q] \in Process
  BY DEF IInv, Typed, StartupAssumption
<1>3. child \in Process /\ child.pc = "serve"
  BY <1>2 DEF New, Process, Roles, Labels
<1> HIDE DEF child
<1>4. /\ Alive' = Alive \cup {next} /\ proc'[next] = child
      /\ \A q \in Alive : proc'[q] = proc[q]
  BY <1>1, <1>2 DEF Alive, With
<1>5. forks' \in 0..MaxForks /\ forks' = forks + 1
  BY <1>1, <1>2
<1>6. Numbered'
  <2>1. Unforked' = Unforked
    BY <1>2, <1>3, <1>4 DEF Unforked, Alive
  <2> QED
    BY <1>1, <1>2, <2>1, CountsFinite DEF IInv, Numbered
<1> QED
  BY <1>1, <1>2, <1>3, <1>4, <1>5, <1>6, NewStep

-----------------------------------------------------------------------------
(* The theorems.                                                           *)

LEMMA InitIInv ==
  ASSUME StartupAssumption, Init
  PROVE  IInv
<1>1. /\ Alive = {1} /\ proc[1] = New(Old, "listener", "accept")
      /\ next = 2 /\ forks = 0 /\ pending = {} /\ DOMAIN mode = {}
      /\ cursor = [p \in Pids |-> 0]
  BY DEF Init, Alive
<1>2. Typed
  BY <1>1 DEF Typed, New, Process, Roles, Labels, StartupAssumption
<1>3. Unforked = {}
  BY <1>1 DEF Unforked, New
<1>4. Numbered
  BY <1>1, <1>3, FS_EmptySet DEF Numbered
<1>5. PassedAreSignalled
  BY <1>1 DEF PassedAreSignalled, At, New
<1> QED
  BY <1>2, <1>4, <1>5 DEF IInv

\* What a main process does after its walk: it ends, or goes on to fork.
LEMMA AfterWalkStep ==
  ASSUME StartupAssumption, IInv, NEW p \in Alive, p \in Unforked, AfterWalk(p),
         UNCHANGED <<cursor, mode, forks, next>>
  PROVE  IInv'
<1>1. CASE mode[proc[p].inst] = "stop"
  BY <1>1, EndStep DEF AfterWalk, Gone
<1>2. CASE mode[proc[p].inst] # "stop"
  BY <1>2, GotoStep DEF AfterWalk, Labels
<1> QED
  BY <1>1, <1>2

LEMMA NextIInv ==
  ASSUME StartupAssumption, IInv, [Next]_vars
  PROVE  IInv'
<1>1. ASSUME NEW i \in Starters, Begin(i)
      PROVE  IInv'
  BY <1>1, BeginStep
<1>2. ASSUME NEW p \in Alive,
             MainStep(p) \/ ListenerStep(p) \/ Fork(p) \/ SessionEnds(p) \/ Dies(p)
      PROVE  IInv'
  <2>1. CASE Visit(p)
    BY <2>1, VisitStep
  <2>2. CASE WalkEnds(p)
    <3>1. p \in Unforked /\ UNCHANGED <<cursor, mode, forks, next>>
      BY <2>2 DEF WalkEnds, At, Unforked
    <3>2. CASE p \in hit
      BY <2>2, <3>1, <3>2, GotoStep DEF WalkEnds, Labels
    <3>3. CASE p \notin hit
      BY <2>2, <3>1, <3>3, AfterWalkStep DEF WalkEnds
    <3> QED
      BY <3>2, <3>3
  <2>3. CASE Wakes(p)
    <3>1. p \in Unforked /\ AfterWalk(p) /\ UNCHANGED <<cursor, mode, forks, next>>
      BY <2>3 DEF Wakes, At, Unforked
    <3> QED
      BY <3>1, AfterWalkStep
  <2>4. CASE ForkListener(p)
    BY <2>4, ForkListenerStep
  <2>5. CASE MainEnds(p)
    BY <2>5, EndStep DEF MainEnds, Gone
  <2>6. CASE Bind(p)
    <3>1. CASE port = Nobody
      BY <2>6, <3>1, GotoStep DEF Bind, Labels
    <3>2. CASE port # Nobody
      BY <2>6, <3>2, EndStep DEF Bind, Gone
    <3> QED
      BY <3>1, <3>2
  <2>7. CASE Listen(p)
    <3>1. CASE port = Nobody
      BY <2>7, <3>1, GotoStep DEF Listen, Labels
    <3>2. CASE port # Nobody
      BY <2>7, <3>2, EndStep DEF Listen, Gone
    <3> QED
      BY <3>1, <3>2
  <2>8. CASE Fork(p)
    BY <2>8, ForkStep
  <2>9. CASE SessionEnds(p)
    BY <2>9, EndStep DEF SessionEnds, Gone
  <2>10. CASE Dies(p)
    BY <2>10, EndStep DEF Dies, Gone
  <2> QED
    BY <1>2, <2>1, <2>2, <2>3, <2>4, <2>5, <2>6, <2>7, <2>8, <2>9, <2>10
       DEF MainStep, ListenerStep
<1>3. CASE Quiet \/ UNCHANGED vars
  <2>1. UNCHANGED vars
    BY <1>3 DEF Quiet
  <2> QED
    BY <2>1 DEF vars, IInv, Typed, Numbered, PassedAreSignalled, Unforked, Alive, At, Pids, MaxPid
<1> QED
  BY <1>1, <1>2, <1>3 DEF Next

\* The inductive invariant holds in every state.
LEMMA Inductive == Spec => []IInv
<1>1. Init => IInv
  BY StartupAssumption, InitIInv
<1>2. IInv /\ [Next]_vars => IInv'
  BY StartupAssumption, NextIInv
<1> QED
  BY <1>1, <1>2, PTL DEF Spec

\* A walk ends by itself, or with its process at a signal: no step of another
\* process takes it from its place.
LEMMA WalkGoesOn ==
  ASSUME IInv, NEW p \in Alive, At(p, "walk"), p \notin pending,
         [Next]_vars, ~WalkEnds(p)
  PROVE  At(p, "walk")'
<1>1. next \notin Alive /\ p # next
  BY DEF IInv, Typed
<1>2. ASSUME NEW i \in Starters, Begin(i)
      PROVE  At(p, "walk")'
  BY <1>1, <1>2 DEF Begin, At, Alive, With
<1>3. ASSUME NEW q \in Alive,
             MainStep(q) \/ ListenerStep(q) \/ Fork(q) \/ SessionEnds(q) \/ Dies(q)
      PROVE  At(p, "walk")'
  <2>1. CASE q = p
    <3>1. Visit(p)
      BY <1>3, <2>1 DEF MainStep, ListenerStep, Wakes, ForkListener, MainEnds, Bind,
                        Listen, Fork, SessionEnds, Dies, At
    <3> QED
      BY <3>1 DEF Visit, At, Alive
  <2>2. CASE q # p
    <3>1. CASE Visit(q)
      BY <3>1 DEF Visit, At, Alive
    <3>2. CASE WalkEnds(q) \/ Wakes(q)
      BY <2>2, <3>2 DEF WalkEnds, Wakes, AfterWalk, Goto, Without, At, Alive
    <3>3. CASE ForkListener(q)
      BY <1>1, <2>2, <3>3 DEF ForkListener, With, At, Alive
    <3>4. CASE Fork(q)
      BY <1>1, <2>2, <3>4 DEF Fork, With, At, Alive
    <3>5. CASE Bind(q) \/ Listen(q)
      BY <2>2, <3>5 DEF Bind, Listen, Goto, Without, At, Alive
    <3>6. CASE MainEnds(q) \/ SessionEnds(q) \/ Dies(q)
      BY <2>2, <3>6 DEF MainEnds, SessionEnds, Dies, Without, At, Alive
    <3> QED
      BY <1>3, <3>1, <3>2, <3>3, <3>4, <3>5, <3>6 DEF MainStep, ListenerStep
  <2> QED
    BY <2>1, <2>2
<1>4. CASE Quiet \/ UNCHANGED vars
  BY <1>4 DEF Quiet, vars, At, Alive
<1> QED
  BY <1>2, <1>3, <1>4 DEF Next

\* The walk of /proc by a restart or a stop has signalled every process that
\* is left when it ends, whatever was forked during it: kill_other_processes().
THEOREM WalkMissesNobodyHolds == Spec => WalkMissesNobody
<1>1. ASSUME IInv, [Next]_vars, NEW p \in Alive,
             At(p, "walk"), ~At(p, "walk")', p \notin pending
      PROVE  DOMAIN proc' \ {p} \subseteq pending'
  <2>1. WalkEnds(p)
    BY <1>1, WalkGoesOn
  <2>2. Ahead(p) = {} /\ cursor[p] \in Nat /\ Alive \subseteq Nat
    BY <1>1, <2>1, NumbersSuffice, StartupAssumption DEF WalkEnds, IInv, Typed
  <2>3. \A q \in Alive \ {p} : q <= cursor[p]
    BY <2>2 DEF Ahead
  <2>4. Alive \ {p} \subseteq pending
    BY <1>1, <2>3 DEF IInv, PassedAreSignalled
  <2>5. DOMAIN proc' \subseteq Alive /\ pending \ {p} \subseteq pending'
    BY <2>1 DEF WalkEnds, AfterWalk, Goto, Without, Gone, Alive
  <2> QED
    BY <2>4, <2>5
<1>2. IInv /\ [Next]_vars => [\A p \in Alive :
       At(p, "walk") /\ ~At(p, "walk")' /\ p \notin pending
         => DOMAIN proc' \ {p} \subseteq pending']_vars
  BY <1>1
<1> QED
  BY <1>2, Inductive, PTL DEF Spec, WalkMissesNobody
=============================================================================
