--------------------------- MODULE SessionSlots ---------------------------
(***************************************************************************)
(* What the request limit of clip_share() promises, with no counter, no    *)
(* signal, no process and no thread in it: a client is served only while   *)
(* it holds one of MaxReq slots.  Where several threads update the counter *)
(* without a lock, each collision may add a slot, for good; nothing else   *)
(* does.  Listener implements it.                                          *)
(***************************************************************************)
EXTENDS Naturals, FiniteSets

CONSTANTS Clients,   \* the clients that may connect
          MaxReq     \* the number of slots (64 in the source)

VARIABLES holders,   \* the clients that hold a slot
          extra      \* the slots that collisions have added

slotsVars == <<holders, extra>>

SlotsInit == holders = {} /\ extra = 0

Acquire(c) == /\ c \notin holders
              /\ Cardinality(holders) < MaxReq + extra
              /\ holders' = holders \cup {c}
              /\ UNCHANGED extra

Release(c) == /\ c \in holders
              /\ holders' = holders \ {c}
              /\ UNCHANGED extra

Collide == extra' = extra + 1 /\ UNCHANGED holders

SlotsNext == Collide \/ \E c \in Clients : Acquire(c) \/ Release(c)

SlotsSpec == SlotsInit /\ [][SlotsNext]_slotsVars
===========================================================================
