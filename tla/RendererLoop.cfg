SPECIFICATION Spec
CONSTANTS
  Windows = {w1}
  Tracked = {"scene", "view", "place", "image", "visible"}
  None = None
INVARIANTS TypeOK DrawsOnSurface
PROPERTIES ChangeIsShown CallsReturn
