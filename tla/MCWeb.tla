------------------------------- MODULE MCWeb -------------------------------
(***************************************************************************)
(* Instances of Web: one request in any number of segments, valid or not;  *)
(* and several connections on one clipboard.                               *)
(***************************************************************************)
EXTENDS Web

CONSTANTS p1, p2, p3

Request(kind, headers, announced, body, early) ==
  [kind |-> kind, headers |-> headers, announced |-> announced,
   body |-> body, early |-> early]

None == Request("none", 3, 0, 0, TRUE)
Clip == Request("clip", 3, 0, 0, TRUE)
Files == Request("session", 3, 0, 0, TRUE)
Post(n) == Request("post", 3, n, n, TRUE)

Alone(r) == [p \in Procs |-> IF p = p1 THEN r ELSE None]
Three(r1, r2, r3) == [p \in Procs |-> IF p = p1 THEN r1 ELSE IF p = p2 THEN r2 ELSE r3]

Posts == {Request("post", h, a, b, FALSE) :
            h \in {3, 5, 7}, a \in {0, 1, 2, 5}, b \in {0, 2, 4}}

MCRequests ==
  {Alone(r) : r \in Posts}
  \cup {Alone(Request(k, 3, 0, 0, FALSE)) : k \in {"page", "unknown"}}
  \cup {Three(Post(1), Post(3), Clip), Three(Post(2), Clip, Files), Three(Post(4), Clip, None)}
=============================================================================
