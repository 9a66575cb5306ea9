SPECIFICATION Spec
CONSTANTS
  Origin = Origin
  Center = Center
  Outside = Outside
  Pos = {Origin, Center}
  MaxFingers = 3
  Notch = 2
  MaxDy = 3
  ToggleMidGesture = TRUE
  TouchOutside = TRUE
CHECK_DEADLOCK FALSE
INVARIANTS HoldFlagAgrees ScrollCarriesLess
PROPERTIES ScrollMeasuresSameFingers
