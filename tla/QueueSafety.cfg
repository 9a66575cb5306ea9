SPECIFICATION Spec
CONSTANTS
  p1 = p1
  p2 = p2
  Server = Server
  ListHead = ListHead
  Null = Null
  Freed = Freed
  Producers = {p1, p2}
  Kinds = {1, 2}
  RingSize = 2
  Modulus = 8
  MaxStall = 3
  Items <- MCItems
  Gone <- MCGone
  Retry <- MCRetry
  Oom = TRUE
  Passes = {"process", "zombies", "clear"}
INVARIANTS TypeOK OnePlace CellsExclusive AppendIsSafe
