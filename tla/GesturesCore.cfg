SPECIFICATION Spec
CONSTANTS
  Origin = Origin
  Center = Center
  Outside = Outside
  Pos = {Origin, Center}
  MaxFingers = 3
  Notch = 2
  MaxDy = 3
  ToggleMidGesture = FALSE
  TouchOutside = FALSE
CHECK_DEADLOCK FALSE
INVARIANTS TypeOK NothingLeftBehind HeldIsRemembered TimersBelongToGesture
PROPERTIES ClicksLandOnSprite NoRightClickDuringDrag
