------------------------------ MODULE MCStartup ------------------------------
(* The calls of the program that the runs make.                            *)
EXTENDS Startup

\* a restart or a stop, and another restart or a start
MCModes ==
  [i \in Starters |-> IF i = "r" THEN {"restart", "stop"} ELSE {"restart", "start"}]

=============================================================================
