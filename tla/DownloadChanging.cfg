\* two changes by other programs, of every kind that leaves files no longer
SPECIFICATION Spec
CONSTANTS
  Tree <- MCTree
  InitialSize <- MCSize
  CopiedLists <- MCCopied
  Versions = {1, 2, 3}
  Undecodable <- MCUndecodable
  LongPaths <- MCLong
  MaxDepth = 2
  Buf = 2
  MaxFileSize = 3
  MaxFileCount = 3
  Others = {"remove", "create", "shrink"}
  NewPaths <- MCNew
  NewSizes = {0, 4}
  MaxChanges = 2
INVARIANTS ReplyIsFramed UntouchedFilesArrive
PROPERTIES Ends
