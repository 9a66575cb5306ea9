SPECIFICATION Spec
CONSTANTS
  c1 = c1
  c2 = c2
  r1 = r1
  r2 = r2
  p1 = p1
  None = None
  Conns = {c1, c2}
  Roots = {r1, r2}
  Pixmaps = {p1}
  FirstRoot = r1
  MaxRefs = 2
CHECK_DEADLOCK FALSE
INVARIANTS TypeOK HeldIsCurrent SentOnce NothingStale
PROPERTIES RootArrives
