SPECIFICATION Spec
CONSTANTS
  p1 = p1
  p2 = p2
  p3 = p3
  NoProc = NoProc
  Hole = Hole
  Procs = {p1, p2, p3}
  MaxText = 3
  Requests <- MCRequests
  Chunk = 2
  Limit = 6
  TermLen = 3
  IdleLimit = 1
  MaxBody = 4
INVARIANTS ClipboardIsWhole ServedTextIsText PostedTextIsTheBody
PROPERTIES RequestsEnd
CHECK_DEADLOCK FALSE
