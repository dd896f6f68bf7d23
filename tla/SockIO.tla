------------------------------- MODULE SockIO -------------------------------
(***************************************************************************)
(* read_sock() and write_sock() of utils/net_utils.c: the loops that move  *)
(* exactly so many bytes between a buffer and a connection whose calls     *)
(* move fewer, time out after two seconds, are interrupted, or fail.       *)
(*                                                                         *)
(* One call of either function, in direction dir.  The bytes are numbered  *)
(* in the order in which they must travel.  For a read, the peer fills     *)
(* wire and the loop empties it into moved; for a write, the loop fills    *)
(* wire and the peer empties it.  The peer may stop, or go, at any time.   *)
(***************************************************************************)
EXTENDS Naturals, Sequences

CONSTANTS Size,      \* bytes to move
          MaxCall,   \* most bytes of one call: 0x7FFFFFFF in the code
          Capacity,  \* bytes a connection holds
          Patience   \* 10 in the code: cnt may pass it once

ASSUME SockIOAssumption ==
  /\ Size \in Nat /\ MaxCall \in Nat \ {0}
  /\ Capacity \in Nat \ {0} /\ Patience \in Nat

VARIABLES dir,      \* "read" or "write"
          moved,    \* the bytes moved by the loop
          wire,     \* the bytes in the connection
          cnt,      \* the counter of calls since the last success
          silent,   \* calls in a row that moved nothing, up to Patience + 2
          alive,    \* the peer is there
          far,      \* bytes the peer has sent or received
          status    \* "running", then what the function returns

vars == <<dir, moved, wire, cnt, silent, alive, far, status>>

Bytes(n) == [i \in 1..n |-> i]

\* the bytes the peer sends: a message may follow the one that is read
Stream == Bytes(2 * Size)

Init ==
  /\ dir \in {"read", "write"}
  /\ moved = <<>> /\ wire = <<>>
  /\ cnt = 0 /\ silent = 0
  /\ alive = TRUE /\ far = 0
  /\ status = "running"

Total == Len(moved)

Least(a, b) == IF a < b THEN a ELSE b

\* the whole buffer is asked for each time
RequestBug == Least(Size, MaxCall)

\* what one call asks for
Request == Least(Size - Total, MaxCall)

Calling == status = "running" /\ Total < Size

\* recv() or SSL_read() returns some of the bytes
CallReads(j) ==
  /\ dir = "read" /\ j <= Len(wire)
  /\ moved' = moved \o SubSeq(wire, 1, j)
  /\ wire' = SubSeq(wire, j + 1, Len(wire))

\* send() or SSL_write() takes some of the bytes
CallWrites(j) ==
  /\ dir = "write" /\ alive /\ Len(wire) + j <= Capacity
  /\ LET next == [i \in 1..j |-> Total + i]
     IN moved' = moved \o next /\ wire' = wire \o next

\* `cnt = 0' and the `cnt++' at the end of the turn
Progress ==
  /\ Calling
  /\ \E j \in 1..Request : CallReads(j) \/ CallWrites(j)
  /\ cnt' = 1
  /\ silent' = 0
  /\ UNCHANGED <<dir, alive, far, status>>

\* the `cnt++' is missing
RetryBug ==
  /\ Calling
  /\ silent' = Least(silent + 1, Patience + 2)
  /\ UNCHANGED <<dir, moved, wire, cnt, alive, far, status>>

\* The call moved nothing: a timeout, EINTR, or a TLS record that is not
\* complete.  The loop tries again unless cnt > 10.
Retry ==
  /\ Calling
  /\ cnt <= Patience
  /\ cnt' = cnt + 1
  /\ silent' = Least(silent + 1, Patience + 2)
  /\ UNCHANGED <<dir, moved, wire, alive, far, status>>

\* the loop gives up one call early
GiveUpBug ==
  /\ Calling
  /\ cnt >= Patience
  /\ status' = "failure"
  /\ silent' = Least(silent + 1, Patience + 2)
  /\ UNCHANGED <<dir, moved, wire, cnt, alive, far>>

GiveUp ==
  /\ Calling
  /\ cnt > Patience
  /\ status' = "failure"
  /\ silent' = Least(silent + 1, Patience + 2)
  /\ UNCHANGED <<dir, moved, wire, cnt, alive, far>>

\* The end of the stream, a reset connection, an error of SSL: fatal.  What
\* has arrived is read before the end of the stream is seen; a reset may
\* throw it away.
Fatal ==
  /\ Calling
  /\ ~alive
  /\ status' = "failure"
  /\ UNCHANGED <<dir, moved, wire, cnt, silent, alive, far>>

Success ==
  /\ status = "running" /\ Total >= Size
  /\ status' = "success"
  /\ UNCHANGED <<dir, moved, wire, cnt, silent, alive, far>>

Loop == Progress \/ Retry \/ GiveUp \/ Fatal \/ Success

PeerSends ==
  /\ dir = "read" /\ alive /\ Len(wire) < Capacity /\ far < Len(Stream)
  /\ wire' = Append(wire, Stream[far + 1])
  /\ far' = far + 1
  /\ UNCHANGED <<dir, moved, cnt, silent, alive, status>>

PeerReceives ==
  /\ dir = "write" /\ alive /\ wire # <<>>
  /\ wire' = Tail(wire)
  /\ far' = far + 1
  /\ UNCHANGED <<dir, moved, cnt, silent, alive, status>>

PeerGoes ==
  /\ alive
  /\ alive' = FALSE
  /\ UNCHANGED <<dir, moved, wire, cnt, silent, far, status>>

Peer == PeerSends \/ PeerReceives \/ PeerGoes

Next == Loop \/ Peer

Spec == Init /\ [][Next]_vars

\* A call returns, after two seconds if nothing else happens: SO_RCVTIMEO and
\* SO_SNDTIMEO are set in get_connection().  Nothing is assumed of the peer.
FairSpec == Spec /\ WF_vars(Loop)

-----------------------------------------------------------------------------
(* Properties.                                                             *)

TypeOK ==
  /\ dir \in {"read", "write"}
  /\ moved \in Seq(Nat) /\ wire \in Seq(Nat)
  /\ Len(wire) <= Capacity
  /\ cnt \in 0..(Patience + 1)
  /\ silent \in 0..(Patience + 2)
  /\ alive \in BOOLEAN /\ far \in 0..Len(Stream)
  /\ status \in {"running", "success", "failure"}

\* However the calls split the bytes, the loop moves them in order, each of
\* them once, and never more than asked for: the bytes of the next message
\* stay in the connection.  EXIT_SUCCESS means that all of them have moved.
InOrder ==
  /\ moved = Bytes(Total) /\ Total <= Size
  /\ dir = "read" => moved \o wire = Bytes(far)
  /\ dir = "write" => \A i \in 1..Len(wire) : wire[i] = far + i
  /\ status = "success" => Total = Size

\* The loop does not give up on a peer that is there before Patience + 1
\* calls in a row have moved nothing, 22 seconds in the code.
PatientWithThePeer ==
  status = "failure" /\ alive => silent >= Patience + 1

\* The function returns, whatever the peer does.
Returns == <>(status # "running")
=============================================================================
