SPECIFICATION AllSpec
CONSTANTS
  Families = {"configuration"}
  Size = 1
  MaxCall = 1
  Capacity = 1
  Patience = 0
  Jobs = {}
  Digits = 1
  Base = 2
  Weight <- MCWeight
  MaxName = 1
  MaxUrl = 1
  ConfigFiles <- BlankFiles
  ArgLists <- MCArgLists
  ProtoMin = 1
  ProtoMax = 2
  Size64 = 256
  Size32 = 16
  Size16 = 4
  Kilo = 2
  MaxClients = 3
PROPERTIES ClientListReturns
CHECK_DEADLOCK FALSE
