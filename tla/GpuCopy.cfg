SPECIFICATION Spec
CONSTANTS
  v1 = v1
  v2 = v2
  Root = Root
  pixmap = pixmap
  win = win
  Vblanks = {v1, v2}
  Buffers = {Root, pixmap, win}
  Src <- MCSrc
  Dst <- MCDst
  Capacity = 2
  Modulus = 4
  MaxSerial = 3
  MaxFaults = 1
INVARIANTS TypeOK DoneIsFinished QueueIntact
PROPERTIES AccessWaitsForGpu
