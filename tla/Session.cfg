\* plain and TLS connections, versions 2 to 4, one method disabled
SPECIFICATION FairSpec
CONSTANTS
  MinVersion = 2
  MaxVersion = 4
  Enabled <- SomeMethods
  CutSentFiles = TRUE
  ClipKinds <- AllKinds
  MaxChanges = 2
INVARIANTS ServedAsConfigured AnswerInOrder
PROPERTIES ClipboardTakenOnlyByReceived AcknowledgedTextArrives SessionEnds
CHECK_DEADLOCK FALSE
