SPECIFICATION Spec
CONSTANTS
  Procs = {p1, p2, p3}
  Blocks = {k1, k2, k3}
  Data = {x, y}
  TORN = TORN
  MAXOPBLOCKS = 1
  LOGSIZE = 3
  size = 3
INVARIANT NoPanic
