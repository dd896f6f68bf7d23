SPECIFICATION FairSpec
CONSTANTS
  c1 = c1
  c2 = c2
  c3 = c3
  NoClient = NoClient
  Clients = {c1, c2, c3}
  MaxReq = 2
  FdLimit = 2
  Builds <- MCBuilds
  MaxRaces = 2
INVARIANTS TypeOK SessionLimit CounterSound EachClosedOnce
PROPERTIES RefusedOnlyWhenFull RefinesSlots ZombiesReaped Answered
