SPECIFICATION AllSpec
CONSTANTS
  Families = {"io", "conversion", "configuration"}
  Size = 4
  MaxCall = 3
  Capacity = 3
  Patience = 2
  Jobs <- MCJobs
  Digits = 3
  Base = 8
  Weight <- MCWeight
  MaxName = 14
  MaxUrl = 15
  ConfigFiles <- MCConfigFiles
  ArgLists <- MCArgLists
  ProtoMin = 1
  ProtoMax = 2
  Size64 = 256
  Size32 = 16
  Size16 = 4
  Kilo = 2
  MaxClients = 3
INVARIANTS InOrder PatientWithThePeer RoundTrip LinesConverted PathsDecoded
            ServersAsConfigured
PROPERTIES Returns
CHECK_DEADLOCK FALSE
