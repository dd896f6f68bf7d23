SPECIFICATION Spec
CONSTANTS
  s1 = s1
  s2 = s2
  t1 = t1
  Sessions = {s1, s2}
  Requests <- SomeRequests
  Seconds = {t1}
  Existing = {"a"}
  Conf = "conf"
  WorkingDirSet = TRUE
  CutSentFiles = TRUE
  Headless = FALSE
  MaxReq = 2
  MaxSuffix = 1
PROPERTIES ReceivedFilesKept
CHECK_DEADLOCK FALSE
