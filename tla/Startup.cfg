\* a restart or a stop and, at any moment, a second restart or a start that
\* does not restart
SPECIFICATION Spec
CONSTANTS
  Starters = {"r", "s"}
  Modes <- MCModes
  Daemonize = FALSE
  Old = "old"
  MaxForks = 2
PROPERTIES WalkMissesNobody RestartedServerRuns StopStops
