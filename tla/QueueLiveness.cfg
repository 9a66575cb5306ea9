SPECIFICATION BurstSpec
CONSTANTS
  p1 = p1
  p2 = p2
  Server = Server
  ListHead = ListHead
  Null = Null
  Freed = Freed
  Producers = {p1, p2}
  Kinds = {1, 2}
  RingSize = 2
  Modulus = 8
  Burst = 4
  MaxStall = 3
  Items <- MCItems
  Gone <- MCGone
  Retry = {}
  Oom = FALSE
  Passes = {"process"}
PROPERTIES EventuallyRun
