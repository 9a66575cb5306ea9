SPECIFICATION Spec
CONSTANTS
  v1 = v1
  v2 = v2
  Root = Root
  pixmap = pixmap
  win = win
  Vblanks = {v1}
  Buffers = {Root, pixmap}
  Src <- MCSrc
  Dst <- MCDst
  Capacity = 2
  Modulus = 4
  MaxSerial = 2
  MaxFaults = 1
PROPERTIES EventuallyAnswered
