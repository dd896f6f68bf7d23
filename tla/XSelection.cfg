\* texts of one chunk, of one that is full, and of two and three chunks
SPECIFICATION FairSpec
CONSTANTS
  Requestors = {r1, r2}
  r1 = r1
  r2 = r2
  TextLens = {1, 2, 3, 5}
  ChunkSize = 2
INVARIANTS PasteIsTheText NobodyIsLeftHalfway
PROPERTIES TransfersEnd
CHECK_DEADLOCK FALSE
