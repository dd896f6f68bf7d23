SPECIFICATION Spec
CONSTANTS
  s1 = s1
  s2 = s2
  t1 = t1
  t2 = t2
  Sessions = {s1, s2}
  Requests <- SmallRequests
  Seconds = {t1, t2}
  Existing = {"a", "b"}
  Conf = "conf"
  WorkingDirSet = FALSE
  CutSentFiles = TRUE
  Headless = FALSE
  MaxReq = 2
  MaxSuffix = 1
INVARIANTS UsersFilesKept VisibleFilesAreWhole
           Delivered AcknowledgedFilesKept
SYMMETRY Symmetry
CHECK_DEADLOCK FALSE
