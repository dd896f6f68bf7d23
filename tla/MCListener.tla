----------------------------- MODULE MCListener -----------------------------
(***************************************************************************)
(* The instance of Listener: more clients than slots, so that the limit    *)
(* bites, on the builds of Linux and macOS with the counter of gcc and     *)
(* with a one-instruction counter, and on the threads of Windows.          *)
(***************************************************************************)
EXTENDS Listener

MCBuilds == {[threads |-> FALSE, tls |-> TRUE,  atomic |-> FALSE],
             [threads |-> FALSE, tls |-> FALSE, atomic |-> TRUE],
             [threads |-> TRUE,  tls |-> FALSE, atomic |-> FALSE]}
=============================================================================
