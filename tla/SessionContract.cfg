SPECIFICATION Spec
CONSTANTS
  RaceConnect = TRUE
  XtestOk = TRUE
  MaxInputs = 1
  MaxEvents = 1
  MaxTexts = 0
CHECK_DEADLOCK FALSE
PROPERTIES ContractHonoured
