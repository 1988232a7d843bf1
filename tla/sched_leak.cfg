SPECIFICATION SchedSpec
CONSTANTS
  Procs = {p1, p2}
  Bufs = {b1, b2, TEMP}
  Blocks = {0, 1}
  Data = {x}
  NUM = 6
  IdxMod = 6
  INTR = INTR
  NULL = NULL
  TEMP = TEMP
  Types = {1}
  Capacity = 3
  TREESIZE = 3
  timeLimit = 1
  MaxTicks = 0
CHECK_DEADLOCK FALSE
VIEW SchedLive
INVARIANT HeapHasRoom
