\* a file grows after it was measured
SPECIFICATION Spec
CONSTANTS
  Tree <- MCTree
  InitialSize <- MCSize
  CopiedLists <- MCCopied
  Versions = {1, 2, 3}
  Undecodable <- MCUndecodable
  LongPaths <- MCLong
  MaxDepth = 2
  Buf = 2
  MaxFileSize = 3
  MaxFileCount = 3
  Others = {"grow"}
  NewPaths <- MCNew
  NewSizes = {0, 4}
  MaxChanges = 2
INVARIANT ReplyIsFramed
