SPECIFICATION SchedSpec
CONSTANTS
  Procs = {p1}
  Bufs = {b1, TEMP}
  Blocks = {0, 1}
  Data = {x, y}
  NUM = 3
  IdxMod = 3
  INTR = INTR
  NULL = NULL
  TEMP = TEMP
  Types = {0, 1, 2, 3}
  Capacity = 3
  TREESIZE = 2
  timeLimit = 1
  MaxTicks = 2
VIEW SchedLive
INVARIANT QueuesSafe
PROPERTIES ReadServed WriteServed
