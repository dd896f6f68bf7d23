\* a headless server, two clients, one after another or at a time
SPECIFICATION FairSpec
CONSTANTS
  s1 = s1
  s2 = s2
  t1 = t1
  Sessions = {s1, s2}
  Requests <- ApartRequests
  Seconds = {t1}
  Existing = {"a"}
  Conf = "conf"
  WorkingDirSet = TRUE
  CutSentFiles = TRUE
  Headless = TRUE
  MaxReq = 2
  MaxSuffix = 1
INVARIANTS HeadlessHoldsTheLastUpload
PROPERTIES UploadsEnd
CHECK_DEADLOCK FALSE
