SPECIFICATION Spec
CONSTANTS
  RaceConnect = FALSE
  XtestOk = TRUE
  MaxInputs = 2
  MaxEvents = 1
  MaxTexts = 1
CHECK_DEADLOCK FALSE
INVARIANTS TypeOK OwnCloseIsQuiet SocketClosedAtEnd ErrorStays StatusTellsEnd
PROPERTIES FrameAnswersRequest
